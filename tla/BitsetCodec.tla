---------------------------- MODULE BitsetCodec -----------------------------
(***************************************************************************)
(* The sparse bitset codec (compress.go) over byte strings that grow byte  *)
(* by byte.                                                                *)
(***************************************************************************)
EXTENDS Integers, Sequences, SequencesExt

CONSTANTS Bytes,        \* the bytes that occur
          MaxData,      \* bound on the length of the data
          MaxTarget     \* bound on the size that is asked for

VARIABLE data

Zeros(n) == [i \in 1..n |-> 0]
BitSet(bytes, i) == (bytes[(i \div 8) + 1] \div 2^(7 - (i % 8))) % 2 = 1

(* One bit for each byte, the first byte's the highest. *)
NonZeroBitset(bytes) ==
    [k \in 1..((Len(bytes) + 7) \div 8) |->
        FoldLeft(LAMBDA sum, i : IF 8 * (k - 1) + i < Len(bytes) /\ bytes[8 * (k - 1) + i + 1] # 0
                                 THEN sum + 2^(7 - i) ELSE sum,
                 0, <<0, 1, 2, 3, 4, 5, 6, 7>>)]

RECURSIVE bitsetEncodeBytes(_)
bitsetEncodeBytes(bytes) ==
    LET nonZeroBytes == SelectSeq(bytes, LAMBDA b : b # 0)
    IN  IF Len(bytes) = 1 \/ nonZeroBytes = <<>> THEN nonZeroBytes
        ELSE bitsetEncodeBytes(NonZeroBitset(bytes)) \o nonZeroBytes

CompressBytes(bytes) ==
    LET out == bitsetEncodeBytes(bytes) IN IF Len(out) < Len(bytes) THEN out ELSE bytes

Fails(why) == [err |-> why, out |-> <<>>, size |-> 0]
Decoded(out, size) == [err |-> "", out |-> out, size |-> size]

\* Mutant: a zero may stand among them.
ContentAny(b) == TRUE

Content(b) == b # 0

(* The non-zero bytes, from ptr on, go to the places that have a bit.      *)
Distribute(in, target, bitset, ptr) ==
    LET places == SelectSeq([i \in 1..(8 * Len(bitset)) |-> i - 1], LAMBDA i : BitSet(bitset, i))
        size == ptr + Len(places)
        fits(n) == ptr + n <= Len(in) /\ places[n] < target /\ Content(in[ptr + n])
        bad == {n \in 1..Len(places) : ~fits(n)}
        first == CHOOSE n \in bad : \A m \in bad : n <= m
        at(i) == IF \E n \in 1..Len(places) : places[n] = i - 1
                 THEN in[ptr + (CHOOSE n \in 1..Len(places) : places[n] = i - 1)] ELSE 0
    IN  IF bad = {} THEN Decoded([i \in 1..target |-> at(i)], size)
        ELSE IF ptr + first > Len(in) THEN Fails("missing data")
        ELSE IF places[first] >= target THEN Fails("exceeded target")
        ELSE Fails("zero content")

RECURSIVE bitsetDecodePartialBytes(_, _)
bitsetDecodePartialBytes(in, target) ==
    IF target = 0 THEN Decoded(<<>>, 0)
    ELSE IF in = <<>> THEN Decoded(Zeros(target), 0)
    ELSE IF target = 1 THEN Decoded(<<in[1]>>, IF in[1] # 0 THEN 1 ELSE 0)
    ELSE LET inner == bitsetDecodePartialBytes(in, (target + 7) \div 8)
         IN  IF inner.err # "" THEN inner ELSE Distribute(in, target, inner.out, inner.size)

bitsetDecodeBytes(in, target) ==
    LET part == bitsetDecodePartialBytes(in, target)
    IN  IF part.err = "" /\ part.size # Len(in) THEN Fails("unreferenced data") ELSE part

DecompressBytes(in, target) ==
    IF Len(in) > target THEN Fails("exceeded target")
    ELSE IF Len(in) = target THEN Decoded(in, target)
    ELSE bitsetDecodeBytes(in, target)

-----------------------------------------------------------------------------
CodecInit == data = <<>>

AppendByte ==
    /\ Len(data) < MaxData
    /\ \E b \in Bytes : data' = Append(data, b)

CodecNext == AppendByte

(* DecompressBytes gives back what CompressBytes was given, for data that  *)
(* was compressed and for data that was left as it is.                     *)
RoundTrip ==
    DecompressBytes(CompressBytes(data), Len(data)) \in {Decoded(data, n) : n \in 0..Len(data)}

(* What the decoder accepts is what the encoder writes: no two strings     *)
(* decode to the same bytes.                                               *)
DecodesCanonical ==
    \A target \in 0..MaxTarget :
        LET part == bitsetDecodeBytes(data, target)
        IN  part.err = "" => bitsetEncodeBytes(part.out) = data

(* Encoding is a bijection onto what the decoder accepts.                  *)
CodecBijective == RoundTrip /\ DecodesCanonical
=============================================================================
