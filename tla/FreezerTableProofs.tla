------------------------- MODULE FreezerTableProofs -------------------------
(***************************************************************************)
(* Proofs about FreezerTable, for every set of blobs and every bound: what *)
(* Retrieve returns is the item as it was appended, or an error            *)
(* (ItemsRead), the two files of a table implement the log of AncientLog   *)
(* whatever is written, cut, lost, found half written or stops halfway at  *)
(* an error (TableIsLog), and repair leaves them aligned (RepairedAligned).*)
(*                                                                         *)
(* TableInv is inductive.  TypeInv and SizeInv hold throughout; IntactInv, *)
(* what the files and the counters say of each other, until an incident    *)
(* the code has no answer to.  Each action has a lemma of its own for each *)
(* of the three, and one for the step of the log that it is.               *)
(***************************************************************************)
EXTENDS FreezerTable, SequenceTheorems, WellFoundedInduction, TLAPS

Byte == {0} \cup UNION {Range(b) : b \in Blobs}
Entry == [filenum : FileIds, offset : Nat]
Appends == {Idle} \cup [pc : {"roll", "rolled", "write", "index"}, item : 0..MaxItems, blob : Blobs]
Truncates == {Idle} \cup [pc : {"file"}, n : 0..MaxItems]

(* How far a call has come, and what it counts on. *)
ControlInv ==
    /\ app \in Appends /\ trn \in Truncates
    /\ Len(idx) <= MaxItems + 1
    /\ st # "open" => app = Idle /\ trn = Idle
    /\ st = "open" /\ trn = Idle => items = -1 \/ Len(idx) <= items + 1
    /\ trn # Idle => /\ Len(idx) = trn.n + 1 /\ app.pc \in {"idle", "roll", "rolled"}
                     /\ items = -1 \/ trn.n < items
    /\ app # Idle => items \in 0..(MaxItems - 1)

(* TypeOK in three parts. *)
DiskType ==
    /\ idx \in Seq(Entry) /\ torn \in BOOLEAN
    /\ file \in [FileIds -> Seq(Byte)]
    /\ dIdx \in Nat /\ dIdx <= Len(idx)
    /\ dFile \in [FileIds -> Nat] /\ \A f \in FileIds : dFile[f] <= Len(file[f])
MemType ==
    /\ st \in {"closed", "repair", "open"} /\ items \in 0..MaxItems \cup {-1}
    /\ headId \in FileIds /\ headBytes \in Nat /\ opened \subseteq FileIds
HistoryType ==
    /\ synced \in 0..MaxItems /\ skipped \subseteq FileIds
    /\ incidents \subseteq {"short", "rolled", "header", "shifted", "extended"}
    /\ halfway \in BOOLEAN /\ raced \in BOOLEAN /\ misplaced \in BOOLEAN /\ failures \in 0..MaxFailures

TypeInv == DiskType /\ MemType /\ HistoryType /\ ControlInv

-----------------------------------------------------------------------------
(* Least and greatest numbers; sequences *)

Less == {ss \in Nat \X Nat : ss[1] < ss[2]}

LEMMA LeastNat ==
    ASSUME NEW S \in SUBSET Nat, S # {}
    PROVE  \E n \in S : \A m \in S : n <= m
  <1>1. IsWellFoundedOn(Less, Nat)
    BY NatLessThanWellFounded, Zenon DEF OpToRel, Less
  <1>2. PICK low \in S : \A n \in S : ~(<<n, low>> \in Less)
    BY <1>1, WFMin, Zenon
  <1>3. \A n \in S : low <= n
    <2> SUFFICES ASSUME NEW n \in S, n < low PROVE FALSE
      OBVIOUS
    <2>1. <<n, low>> \in Nat \X Nat /\ <<n, low>>[1] < <<n, low>>[2]
      OBVIOUS
    <2>2. <<n, low>> \in Less
      BY <2>1, Zenon DEF Less
    <2> QED BY <1>2, <2>2
  <1> QED BY <1>3

LEMMA MinOfNats ==
    ASSUME NEW S \in SUBSET Nat, S # {}
    PROVE  Min(S) \in S /\ \A m \in S : Min(S) <= m
  BY LeastNat, Zenon DEF Min

LEMMA MaxOfNats ==
    ASSUME NEW b \in Nat, NEW S \in SUBSET (0..b), S # {}
    PROVE  Max(S) \in S /\ \A m \in S : Max(S) >= m
  <1> DEFINE T == {b - n : n \in S}
  <1>1. PICK low \in T : \A m \in T : low <= m
    <2>1. T \in SUBSET Nat
      OBVIOUS
    <2>2. PICK x \in S : TRUE
      OBVIOUS
    <2>3. b - x \in T
      OBVIOUS
    <2> QED BY <2>1, <2>3, LeastNat, Zenon
  <1>2. PICK n \in S : low = b - n
    OBVIOUS
  <1>3. \A m \in S : n >= m
    <2> TAKE m \in S
    <2>1. b - n <= b - m
      BY <1>1, <1>2
    <2> QED BY <2>1
  <1> QED BY <1>3, Zenon DEF Max

LEMMA MinOfPair ==
    ASSUME NEW a \in Nat, NEW b \in Nat
    PROVE  Min({a, b}) = IF a <= b THEN a ELSE b
  <1>1. {a, b} \in SUBSET Nat /\ {a, b} # {}
    OBVIOUS
  <1>2. Min({a, b}) \in {a, b} /\ Min({a, b}) <= a /\ Min({a, b}) <= b
    BY <1>1, MinOfNats
  <1> QED BY <1>2

LEMMA LastNumber ==
    ASSUME NEW b \in Nat, NEW S \in SUBSET (1..b), S # {}
    PROVE  Max(S) \in S /\ \A m \in S : Max(S) >= m
  <1>1. S \in SUBSET (0..b)
    OBVIOUS
  <1> QED BY <1>1, MaxOfNats

LEMMA MaxWithZero ==
    ASSUME NEW a \in {-1} \cup Nat
    PROVE  Max({0, a}) = IF a = -1 THEN 0 ELSE a
  <1>1. CASE a = -1
    <2>1. 0 \in {0, a} /\ \A y \in {0, a} : 0 >= y
      BY <1>1
    <2>2. Max({0, a}) \in {0, a} /\ \A y \in {0, a} : Max({0, a}) >= y
      BY <2>1, Zenon DEF Max
    <2> QED BY <1>1, <2>2
  <1>2. CASE a \in Nat
    <2>1. {0, a} \in SUBSET (0..a) /\ {0, a} # {}
      BY <1>2
    <2>2. Max({0, a}) \in {0, a} /\ Max({0, a}) >= a /\ Max({0, a}) >= 0
      BY <1>2, <2>1, MaxOfNats
    <2> QED BY <1>2, <2>2
  <1> QED BY <1>1, <1>2

LEMMA CutIs ==
    ASSUME NEW S, NEW s \in Seq(S), NEW n \in Nat, n <= Len(s)
    PROVE  /\ SubSeq(s, 1, n) \in Seq(S)
           /\ Len(SubSeq(s, 1, n)) = n
           /\ \A i \in 1..n : SubSeq(s, 1, n)[i] = s[i]
  BY SubSeqProperties

LEMMA ResizeIs ==
    ASSUME NEW S, NEW s \in Seq(S), NEW n \in Nat, NEW zero \in S
    PROVE  /\ Resize(s, n, zero) \in Seq(S)
           /\ Len(Resize(s, n, zero)) = n
           /\ \A i \in 1..n : Resize(s, n, zero)[i] = IF i <= Len(s) THEN s[i] ELSE zero
  BY DEF Resize

LEMMA BlobType ==
    ASSUME NEW b \in Blobs
    PROVE  b \in Seq(Byte) /\ Len(b) \in 1..MaxFileSize /\ Len(b) \in Nat
  <1>1. b \in Seq(Range(b)) /\ Len(b) \in 1..MaxFileSize
    BY TableAssumption
  <1>2. Range(b) \subseteq Byte
    BY DEF Byte
  <1>3. b \in Seq(Byte)
    BY <1>1, <1>2, SeqMonotonic
  <1> QED BY <1>1, <1>3

LEMMA ZeroEntry == Zero \in Entry /\ Zero.filenum = 0 /\ Zero.offset = 0
  BY TableAssumption DEF Zero, Entry, FileIds

LEMMA LastEntry ==
    ASSUME NEW s \in Seq(Entry)
    PROVE  /\ Last1(s) \in Entry
           /\ s = <<>> => Last1(s) = Zero
           /\ s # <<>> => Last1(s) = s[Len(s)] /\ Last1(s) = Last(s) /\ Len(s) \in 1..Len(s)
  BY ZeroEntry DEF Last1, Last

-----------------------------------------------------------------------------
(* Types *)

LEMMA NamedFields ==
    /\ \A e \in Entry : e.filenum \in FileIds /\ e.offset \in Nat /\ e.filenum \in Nat
    /\ \A f \in FileIds : f \in Nat /\ 0..f \subseteq FileIds
    /\ 0 \in FileIds
  BY TableAssumption DEF Entry, FileIds

LEMMA TypeInit == Init => TypeInv
  <1> SUFFICES ASSUME Init PROVE TypeInv
    OBVIOUS
  <1>1. DiskType
    <2>1. <<>> \in Seq(Entry) /\ <<>> \in Seq(Byte) /\ Len(<<>>) = 0
      BY EmptySeq
    <2>2. file \in [FileIds -> Seq(Byte)] /\ dFile \in [FileIds -> Nat]
      BY <2>1 DEF Init
    <2>3. \A f \in FileIds : dFile[f] <= Len(file[f])
      BY <2>1 DEF Init
    <2>4. idx = <<>> /\ torn = FALSE /\ dIdx = 0
      BY DEF Init
    <2>5. idx \in Seq(Entry) /\ torn \in BOOLEAN
      BY <2>1, <2>4, Zenon
    <2>6. dIdx \in Nat /\ dIdx <= Len(idx)
      BY <2>4
    <2> QED BY <2>2, <2>3, <2>5, <2>6, Zenon DEF DiskType
  <1>2. MemType /\ HistoryType
    BY TableAssumption, NamedFields DEF Init, MemType, HistoryType
  <1>3. ControlInv
    BY TableAssumption DEF Init, ControlInv, Appends, Truncates, Idle
  <1> QED BY <1>1, <1>2, <1>3 DEF TypeInv

LEMMA newCustomTableTypes == ASSUME TypeInv, newCustomTable PROVE TypeInv'
  <1>1. idx' \in Seq(Entry) /\ Len(idx) <= Len(idx') /\ Len(idx') <= MaxItems + 1
    BY ZeroEntry, TableAssumption DEF newCustomTable, DiskType, TypeInv, ControlInv
  <1>2. opened' \subseteq FileIds
    BY <1>1, LastEntry, NamedFields DEF newCustomTable
  <1>3. DiskType'
    <2>1. dIdx' = dIdx /\ dIdx \in Nat /\ dIdx <= Len(idx) /\ Len(idx) \in Nat
      BY DEF newCustomTable, DiskType, TypeInv
    <2>2. dIdx' \in Nat /\ dIdx' <= Len(idx')
      BY <1>1, <2>1
    <2> QED BY <1>1, <2>2 DEF newCustomTable, DiskType, TypeInv
  <1>4. MemType' /\ HistoryType'
    BY <1>2 DEF newCustomTable, MemType, HistoryType, TypeInv, history
  <1>5. ControlInv'
    BY <1>1 DEF newCustomTable, ControlInv, TypeInv, calls
  <1> QED BY <1>3, <1>4, <1>5 DEF TypeInv

LEMMA repairDanglingHeadTypes == ASSUME TypeInv, repairDanglingHead PROVE TypeInv'
  <1> DEFINE last == Last1(idx)
  <1>1. last \in Entry /\ last.filenum \in FileIds /\ last.offset \in Nat
    BY LastEntry, NamedFields DEF DiskType, TypeInv
  <1>2. file[last.filenum] \in Seq(Byte) /\ dFile[last.filenum] \in Nat
    BY <1>1 DEF DiskType, TypeInv
  <1> DEFINE cut == SubSeq(file[last.filenum], 1, last.offset)
             low == Min({dFile[last.filenum], last.offset})
  <1>3. cut \in Seq(Byte) /\ Len(cut) = last.offset
    BY <1>1, <1>2, CutIs DEF repairDanglingHead
  <1>4. low \in Nat /\ low <= Len(cut)
    BY <1>1, <1>2, <1>3, MinOfPair
  <1>5. file' = [file EXCEPT ![last.filenum] = cut] /\ dFile' = [dFile EXCEPT ![last.filenum] = low]
    BY DEF repairDanglingHead
  <1> HIDE DEF cut, low, last
  <1>6. DiskType'
    <2>1. file' \in [FileIds -> Seq(Byte)] /\ dFile' \in [FileIds -> Nat]
      BY <1>1, <1>3, <1>4, <1>5 DEF DiskType, TypeInv
    <2>2. ASSUME NEW f \in FileIds PROVE dFile'[f] <= Len(file'[f])
      BY <1>1, <1>3, <1>4, <1>5 DEF DiskType, TypeInv
    <2> QED BY <2>1, <2>2 DEF repairDanglingHead, DiskType, TypeInv
  <1>7. MemType' /\ HistoryType' /\ ControlInv'
    BY DEF repairDanglingHead, MemType, HistoryType, ControlInv, TypeInv, mem, calls, history
  <1> QED BY <1>6, <1>7 DEF TypeInv

LEMMA repairDanglingIndexTypes == ASSUME TypeInv, repairDanglingIndex PROVE TypeInv'
  <1>1. idx \in Seq(Entry) /\ Last1(idx) \in Entry
    BY LastEntry DEF DiskType, TypeInv
  <1>2. idx # <<>>
    <2>1. Len(file[0]) \in Nat
      BY NamedFields DEF DiskType, TypeInv
    <2> QED BY <1>1, <2>1, LastEntry, ZeroEntry DEF repairDanglingIndex
  <1>3. idx' \in Seq(Entry) /\ Len(idx') = Len(idx) - 1
    <2>1. idx' = SubSeq(idx, 1, Len(idx) - 1)
      BY DEF repairDanglingIndex, Front
    <2>2. Len(idx) - 1 \in Nat /\ Len(idx) - 1 <= Len(idx)
      BY <1>1, <1>2
    <2> QED BY <1>1, <2>1, <2>2, CutIs
  <1>4. dIdx' \in Nat /\ dIdx' <= Len(idx')
    <2>1. dIdx' = Min({dIdx, Len(idx')}) /\ dIdx \in Nat /\ Len(idx') \in Nat
      BY <1>3 DEF repairDanglingIndex, DiskType, TypeInv
    <2> QED BY <2>1, MinOfPair
  <1>5. opened' \subseteq FileIds
    BY <1>3, LastEntry, NamedFields DEF repairDanglingIndex, MemType, TypeInv
  <1>6. DiskType'
    BY <1>3, <1>4 DEF repairDanglingIndex, DiskType, TypeInv
  <1>7. MemType' /\ HistoryType'
    BY <1>5 DEF repairDanglingIndex, MemType, HistoryType, TypeInv, calls, history
  <1>8. ControlInv'
    BY <1>1, <1>3, TableAssumption DEF repairDanglingIndex, ControlInv, TypeInv, calls
  <1> QED BY <1>6, <1>7, <1>8 DEF TypeInv

LEMMA repairDoneTypes == ASSUME TypeInv, repairDone PROVE TypeInv'
  <1> DEFINE last == Last1(idx)
  <1>1. idx \in Seq(Entry) /\ last \in Entry /\ last.filenum \in FileIds /\ last.offset \in Nat
    BY LastEntry, NamedFields DEF DiskType, TypeInv
  <1>2. opened' \subseteq FileIds
    BY <1>1, NamedFields DEF repairDone
  <1>3. DiskType'
    BY <1>1 DEF repairDone, DiskType, TypeInv
  <1>4. items' \in 0..MaxItems \cup {-1} /\ items' = Len(idx) - 1
    BY <1>1, TableAssumption DEF repairDone, ControlInv, TypeInv
  <1>5. MemType' /\ HistoryType'
    BY <1>1, <1>2, <1>4 DEF repairDone, MemType, HistoryType, TypeInv, history
  <1>6. ControlInv'
    BY <1>1, <1>4 DEF repairDone, ControlInv, TypeInv, calls
  <1> QED BY <1>3, <1>5, <1>6 DEF TypeInv

LEMMA AppendStartTypes == ASSUME TypeInv, AppendStart PROVE TypeInv'
  <1>1. app' \in Appends /\ app' # Idle /\ app'.pc \in {"roll", "write"}
    BY DEF AppendStart, Appends, Idle
  <1>2. DiskType' /\ MemType' /\ HistoryType'
    BY DEF AppendStart, DiskType, MemType, HistoryType, TypeInv, disk, mem, history
  <1>3. trn = Idle
    BY DEF AppendStart, ControlInv, TypeInv, Truncates
  <1>4. items \in 0..(MaxItems - 1)
    BY TableAssumption DEF AppendStart, MemType, TypeInv
  <1>5. ControlInv'
    BY <1>1, <1>3, <1>4 DEF AppendStart, ControlInv, TypeInv, disk, mem
  <1> QED BY <1>2, <1>5 DEF TypeInv

\* What Append has at hand once it has begun.
LEMMA AppendAtHand ==
    ASSUME TypeInv, app.pc # "idle"
    PROVE  /\ app # Idle /\ app.blob \in Blobs /\ app.item \in 0..MaxItems
           /\ items \in 0..(MaxItems - 1) /\ st = "open"
           /\ \A pc \in {"rolled", "write", "index"} : [app EXCEPT !.pc = pc] \in Appends
                                            /\ [app EXCEPT !.pc = pc].pc = pc
                                            /\ [app EXCEPT !.pc = pc].blob = app.blob
                                            /\ [app EXCEPT !.pc = pc].item = app.item
                                            /\ [app EXCEPT !.pc = pc] # Idle
           /\ app.pc \in {"write", "index"} => trn = Idle
  <1>1. app # Idle
    BY DEF Idle
  <1>2. app \in [pc : {"roll", "rolled", "write", "index"}, item : 0..MaxItems, blob : Blobs]
    BY <1>1 DEF TypeInv, ControlInv, Appends
  <1>3. trn # Idle => app.pc \in {"idle", "roll", "rolled"}
    BY DEF TypeInv, ControlInv
  <1>4. items \in 0..(MaxItems - 1) /\ st = "open"
    BY <1>1 DEF TypeInv, ControlInv
  <1>6. ASSUME NEW pc \in {"rolled", "write", "index"}
        PROVE  /\ [app EXCEPT !.pc = pc] \in Appends
               /\ [app EXCEPT !.pc = pc].pc = pc
               /\ [app EXCEPT !.pc = pc].blob = app.blob
               /\ [app EXCEPT !.pc = pc].item = app.item
               /\ [app EXCEPT !.pc = pc] # Idle
    BY <1>2 DEF Appends, Idle
  <1>7. app.blob \in Blobs /\ app.item \in 0..MaxItems
    BY <1>2
  <1>8. app.pc \in {"write", "index"} => trn = Idle
    BY <1>3
  <1> QED BY <1>1, <1>4, <1>6, <1>7, <1>8, Zenon

LEMMA AppendRollTypes == ASSUME TypeInv, AppendRoll PROVE TypeInv'
  <1>1. app.pc = "roll" /\ app # Idle /\ items \in 0..(MaxItems - 1) /\ st = "open"
    BY AppendAtHand DEF AppendRoll
  <1>2. app' \in Appends /\ app'.pc = "rolled" /\ app' # Idle
    BY AppendAtHand DEF AppendRoll
  <1>3. headId' \in FileIds /\ headBytes' \in Nat /\ opened' \subseteq FileIds
    BY TableAssumption DEF AppendRoll, MemType, TypeInv, FileIds
  <1>4. <<>> \in Seq(Byte) /\ Len(<<>>) = 0
    BY EmptySeq
  <1>5. \/ file' = file /\ dFile' = dFile
        \/ file' = [file EXCEPT ![headId'] = <<>>] /\ dFile' = [dFile EXCEPT ![headId'] = 0]
    BY DEF AppendRoll
  <1>6. DiskType'
    <2>1. file' \in [FileIds -> Seq(Byte)]
      BY <1>3, <1>4, <1>5 DEF DiskType, TypeInv
    <2>2. dFile' \in [FileIds -> Nat]
      <3>1. dFile \in [FileIds -> Nat]
        BY DEF DiskType, TypeInv
      <3>2. [dFile EXCEPT ![headId'] = 0] \in [FileIds -> Nat]
        BY <3>1
      <3> QED BY <1>5, <3>1, <3>2
    <2>3. ASSUME NEW f \in FileIds PROVE dFile'[f] <= Len(file'[f])
      BY <1>3, <1>4, <1>5 DEF DiskType, TypeInv
    <2> QED BY <2>1, <2>2, <2>3 DEF AppendRoll, DiskType, TypeInv
  <1>7. halfway' \in BOOLEAN /\ failures' \in 0..MaxFailures
    <2>1. halfway \in BOOLEAN /\ failures \in 0..MaxFailures
      BY DEF HistoryType, TypeInv
    <2>2. UNCHANGED halfway \/ halfway' = TRUE
      BY Zenon DEF AppendRoll
    <2>3. failures' = failures \/ (failures < MaxFailures /\ failures' = failures + 1)
      BY DEF AppendRoll, Fails
    <2>4. halfway' \in BOOLEAN
      BY <2>1, <2>2, Zenon
    <2>5. failures' \in 0..MaxFailures
      BY <2>1, <2>3, TableAssumption
    <2> QED BY <2>4, <2>5
  <1>8. MemType' /\ HistoryType'
    BY <1>3, <1>7 DEF AppendRoll, MemType, HistoryType, TypeInv
  <1>9. ControlInv'
    BY <1>1, <1>2 DEF AppendRoll, ControlInv, TypeInv
  <1> QED BY <1>6, <1>8, <1>9 DEF TypeInv

LEMMA AppendRollFailsTypes == ASSUME TypeInv, AppendRollFails PROVE TypeInv'
  <1>1. DiskType' /\ MemType' /\ HistoryType'
    BY TableAssumption DEF AppendRollFails, Fails, DiskType, MemType, HistoryType, TypeInv, disk, mem
  <1>2. ControlInv'
    BY DEF AppendRollFails, ControlInv, TypeInv, disk, mem, Appends, Idle
  <1> QED BY <1>1, <1>2 DEF TypeInv

LEMMA AppendRelockTypes == ASSUME TypeInv, AppendRelock PROVE TypeInv'
  <1>1. app.pc = "rolled" /\ app # Idle /\ items \in 0..(MaxItems - 1) /\ st = "open"
    BY AppendAtHand DEF AppendRelock
  <1>2. app' \in Appends /\ app'.pc = "write" /\ app' # Idle
    BY AppendAtHand DEF AppendRelock
  <1>3. trn = Idle
    BY DEF AppendRelock, TypeInv, ControlInv, Truncates
  <1>4. DiskType' /\ MemType' /\ HistoryType'
    BY DEF AppendRelock, DiskType, MemType, HistoryType, TypeInv, disk, mem, history
  <1>5. ControlInv'
    BY <1>1, <1>2, <1>3 DEF AppendRelock, ControlInv, TypeInv, disk, mem
  <1> QED BY <1>4, <1>5 DEF TypeInv

LEMMA AppendWriteTypes == ASSUME TypeInv, AppendWrite PROVE TypeInv'
  <1>1. /\ app.pc = "write" /\ app # Idle /\ items \in 0..(MaxItems - 1) /\ st = "open"
        /\ trn = Idle /\ app.blob \in Seq(Byte) /\ Len(app.blob) \in Nat
    BY AppendAtHand, BlobType DEF AppendWrite
  <1>2. app' \in Appends /\ app'.pc = "index" /\ app' # Idle
    BY AppendAtHand DEF AppendWrite
  <1>3. headId \in FileIds /\ headBytes' \in Nat /\ file[headId] \in Seq(Byte)
    BY <1>1 DEF AppendWrite, MemType, DiskType, TypeInv
  <1> DEFINE written == file[headId] \o app.blob
  <1>4. written \in Seq(Byte) /\ Len(written) = Len(file[headId]) + Len(app.blob)
    BY <1>1, <1>3, ConcatProperties
  <1>5. file' = [file EXCEPT ![headId] = written] /\ dFile' = dFile
    BY DEF AppendWrite
  <1> HIDE DEF written
  <1>6. file' \in [FileIds -> Seq(Byte)]
    BY <1>3, <1>4, <1>5 DEF DiskType, TypeInv
  <1>7. ASSUME NEW f \in FileIds PROVE dFile'[f] <= Len(file'[f])
    <2>1. dFile[f] \in Nat /\ Len(file[f]) \in Nat /\ dFile[f] <= Len(file[f])
      BY DEF DiskType, TypeInv
    <2>2. Len(file[f]) <= Len(file'[f]) /\ Len(file'[f]) \in Nat
      BY <1>1, <1>3, <1>4, <1>5, <2>1 DEF DiskType, TypeInv
    <2> QED BY <1>5, <2>1, <2>2
  <1>8. DiskType'
    BY <1>6, <1>7 DEF AppendWrite, DiskType, TypeInv
  <1>9. MemType' /\ HistoryType'
    BY <1>3 DEF AppendWrite, MemType, HistoryType, TypeInv, history
  <1>10. ControlInv'
    BY <1>1, <1>2 DEF AppendWrite, ControlInv, TypeInv
  <1> QED BY <1>8, <1>9, <1>10 DEF TypeInv

LEMMA AppendWriteFailsTypes == ASSUME TypeInv, AppendWriteFails PROVE TypeInv'
  <1>1. /\ app.pc = "write" /\ st = "open" /\ trn = Idle
        /\ app.blob \in Seq(Byte) /\ Len(app.blob) \in Nat
    BY AppendAtHand, BlobType DEF AppendWriteFails
  <1>2. headId \in FileIds /\ file[headId] \in Seq(Byte)
    BY <1>1 DEF MemType, DiskType, TypeInv
  <1>3. PICK k \in 0..(Len(app.blob) - 1) :
            /\ file' = [file EXCEPT ![headId] = file[headId] \o SubSeq(app.blob, 1, k)]
            /\ incidents' = incidents \cup IF k > 0 THEN {"short"} ELSE {}
    BY DEF AppendWriteFails
  <1> DEFINE written == file[headId] \o SubSeq(app.blob, 1, k)
  <1>4. SubSeq(app.blob, 1, k) \in Seq(Byte) /\ Len(SubSeq(app.blob, 1, k)) \in Nat
    BY <1>1, CutIs
  <1>5. written \in Seq(Byte) /\ Len(written) = Len(file[headId]) + Len(SubSeq(app.blob, 1, k))
    BY <1>2, <1>4, ConcatProperties
  <1>6. file' = [file EXCEPT ![headId] = written] /\ dFile' = dFile
    BY <1>3 DEF AppendWriteFails
  <1> HIDE DEF written
  <1>7. file' \in [FileIds -> Seq(Byte)]
    BY <1>2, <1>5, <1>6 DEF DiskType, TypeInv
  <1>8. ASSUME NEW f \in FileIds PROVE dFile'[f] <= Len(file'[f])
    <2>1. dFile[f] \in Nat /\ Len(file[f]) \in Nat /\ dFile[f] <= Len(file[f])
      BY DEF DiskType, TypeInv
    <2>2. Len(file[f]) <= Len(file'[f]) /\ Len(file'[f]) \in Nat
      BY <1>2, <1>4, <1>5, <1>6, <2>1 DEF DiskType, TypeInv
    <2> QED BY <1>6, <2>1, <2>2
  <1>9. DiskType'
    BY <1>7, <1>8 DEF AppendWriteFails, DiskType, TypeInv
  <1>10. MemType' /\ HistoryType'
    BY <1>3, TableAssumption DEF AppendWriteFails, Fails, MemType, HistoryType, TypeInv, mem
  <1>11. ControlInv'
    BY <1>1 DEF AppendWriteFails, ControlInv, TypeInv, mem, Appends, Idle
  <1> QED BY <1>9, <1>10, <1>11 DEF TypeInv

\* An entry that any six bytes of the index may say.
LEMMA MisreadEntry == Misread \subseteq Entry /\ Zero \in Misread /\ \A e \in Misread : e.offset <= MaxFileSize
  BY ZeroEntry, TableAssumption DEF Misread, Entry, FileIds, Zero

LEMMA AppendIndexTypes == ASSUME TypeInv, AppendIndex PROVE TypeInv'
  <1>1. /\ app.pc = "index" /\ st = "open" /\ trn = Idle /\ items \in 0..(MaxItems - 1)
    BY AppendAtHand DEF AppendIndex
  <1>2. PICK entry \in Entry : idx' = Append(idx, entry)
    BY MisreadEntry DEF AppendIndex, MemType, TypeInv, Entry
  <1>3. idx \in Seq(Entry) /\ Len(idx) \in Nat /\ Len(idx) <= items + 1
    BY <1>1 DEF DiskType, ControlInv, TypeInv
  <1>4. idx' \in Seq(Entry) /\ Len(idx') = Len(idx) + 1
    BY <1>2, <1>3, AppendProperties
  <1>5. DiskType'
    <2>1. dIdx' \in Nat /\ dIdx' <= Len(idx')
      BY <1>3, <1>4 DEF AppendIndex, DiskType, TypeInv
    <2> QED BY <1>4, <2>1 DEF AppendIndex, DiskType, TypeInv
  <1>6. MemType' /\ HistoryType'
    BY <1>1, TableAssumption DEF AppendIndex, MemType, HistoryType, TypeInv
  <1>7. ControlInv'
    BY <1>1, <1>3, <1>4, TableAssumption DEF AppendIndex, ControlInv, TypeInv, Appends, Idle
  <1> QED BY <1>5, <1>6, <1>7 DEF TypeInv

LEMMA AppendIndexFailsTypes == ASSUME TypeInv, AppendIndexFails PROVE TypeInv'
  <1>1. /\ app.pc = "index" /\ st = "open" /\ trn = Idle /\ items \in 0..(MaxItems - 1)
    BY AppendAtHand DEF AppendIndexFails
  <1>2. idx \in Seq(Entry) /\ Len(idx) \in Nat /\ Len(idx) <= items + 1 /\ dIdx \in Nat /\ dIdx <= Len(idx)
    BY <1>1 DEF DiskType, ControlInv, TypeInv
  <1>3. idx' = idx \/ \E entry \in Entry : idx' = Append(idx, entry)
    BY MisreadEntry DEF AppendIndexFails
  <1>4. idx' \in Seq(Entry) /\ (Len(idx') = Len(idx) \/ Len(idx') = Len(idx) + 1)
    BY <1>2, <1>3, AppendProperties
  <1>5. torn' \in BOOLEAN /\ incidents' \subseteq {"short", "rolled", "header", "shifted", "extended"}
    BY DEF AppendIndexFails, DiskType, HistoryType, TypeInv
  <1>6. DiskType'
    <2>1. dIdx' \in Nat /\ dIdx' <= Len(idx')
      BY <1>2, <1>4 DEF AppendIndexFails
    <2> QED BY <1>4, <1>5, <2>1 DEF AppendIndexFails, DiskType, TypeInv
  <1>7. MemType' /\ HistoryType'
    BY <1>1, <1>5, TableAssumption DEF AppendIndexFails, Fails, MemType, HistoryType, TypeInv
  <1>8. ControlInv'
    BY <1>1, <1>2, <1>4, TableAssumption DEF AppendIndexFails, ControlInv, TypeInv, Appends, Idle
  <1> QED BY <1>6, <1>7, <1>8 DEF TypeInv

\* What a cut has done to the index, and is about to do to the data.
LEMMA truncateAtHand ==
    ASSUME TypeInv, truncate
    PROVE  \E n \in 0..MaxItems :
               /\ trn' = [pc |-> "file", n |-> n] /\ trn' \in Truncates /\ trn' # Idle
               /\ idx' \in Seq(Entry) /\ Len(idx') = n + 1
               /\ \A i \in 1..(n + 1) : IF i <= Len(idx) THEN idx'[i] = idx[i] ELSE idx'[i] \in Misread
               /\ synced' \in 0..MaxItems /\ synced' = IF synced <= n THEN synced ELSE n
               /\ dIdx' = (IF dIdx <= n + 1 THEN dIdx ELSE n + 1) /\ dIdx' \in Nat /\ dIdx' <= n + 1
               /\ items # -1 => n < items
               /\ incidents' = incidents \cup IF n + 1 > Len(idx) THEN {"extended"} ELSE {}
  <1>1. PICK n \in 0..(IF items = -1 THEN MaxItems ELSE items - 1), next \in Misread :
            /\ trn' = [pc |-> "file", n |-> n]
            /\ idx' = Resize(Append(idx, next), n + 1, Zero)
            /\ synced' = Min({synced, n})
            /\ incidents' = incidents \cup IF n + 1 > Len(idx) THEN {"extended"} ELSE {}
    BY MisreadEntry DEF truncate
  <1>2. n \in 0..MaxItems /\ n + 1 \in Nat /\ (items # -1 => n < items)
    BY TableAssumption DEF MemType, TypeInv
  <1>3. /\ idx' \in Seq(Entry) /\ Len(idx') = n + 1
        /\ \A i \in 1..(n + 1) : IF i <= Len(idx) THEN idx'[i] = idx[i] ELSE idx'[i] \in Misread
    <2> DEFINE grown == Append(idx, next)
               longer == Resize(grown, n + 1, Zero)
    <2>1. /\ idx \in Seq(Entry) /\ Len(idx) \in Nat /\ Zero \in Entry /\ next \in Entry
          /\ Zero \in Misread /\ next \in Misread
      BY ZeroEntry, MisreadEntry DEF DiskType, TypeInv
    <2>2. /\ grown \in Seq(Entry) /\ Len(grown) = Len(idx) + 1
          /\ \A i \in 1..Len(idx) : grown[i] = idx[i]
          /\ grown[Len(idx) + 1] = next
      BY <2>1, AppendProperties
    <2> HIDE DEF grown
    <2>3. /\ longer \in Seq(Entry) /\ Len(longer) = n + 1
          /\ \A i \in 1..(n + 1) : longer[i] = IF i <= Len(grown) THEN grown[i] ELSE Zero
      <3>1. longer \in Seq(Entry) /\ Len(longer) = n + 1
        BY <1>2, <2>1, <2>2 DEF Resize
      <3>2. \A i \in 1..(n + 1) : longer[i] = IF i <= Len(grown) THEN grown[i] ELSE Zero
        BY <1>2, <2>1, <2>2 DEF Resize
      <3> QED BY <3>1, <3>2
    <2> HIDE DEF longer
    <2>4. ASSUME NEW i \in 1..(n + 1)
          PROVE  IF i <= Len(idx) THEN longer[i] = idx[i] ELSE longer[i] \in Misread
      <3>1. CASE i <= Len(idx)
        BY <1>2, <2>1, <2>2, <2>3, <3>1
      <3>2. CASE i = Len(idx) + 1
        BY <1>2, <2>1, <2>2, <2>3, <3>2
      <3>3. CASE i > Len(idx) + 1
        BY <1>2, <2>1, <2>2, <2>3, <3>3
      <3> QED BY <1>2, <2>1, <3>1, <3>2, <3>3
    <2>5. idx' = longer
      BY <1>1 DEF longer, grown
    <2> QED BY <2>3, <2>4, <2>5, Zenon
  <1>4. synced' \in 0..MaxItems /\ synced' = IF synced <= n THEN synced ELSE n
    <2>1. synced \in 0..MaxItems
      BY DEF HistoryType, TypeInv
    <2> QED BY <1>1, <1>2, <2>1, MinOfPair, TableAssumption
  <1>5. dIdx' = (IF dIdx <= n + 1 THEN dIdx ELSE n + 1) /\ dIdx' \in Nat /\ dIdx' <= n + 1
    <2>1. dIdx' = Min({dIdx, n + 1}) /\ dIdx \in Nat
      BY <1>3 DEF truncate, DiskType, TypeInv
    <2> QED BY <1>2, <2>1, MinOfPair
  <1>6. trn' \in Truncates /\ trn' # Idle
    BY <1>1, <1>2 DEF Truncates, Idle
  <1> QED BY <1>1, <1>2, <1>3, <1>4, <1>5, <1>6

LEMMA truncateTypes == ASSUME TypeInv, truncate PROVE TypeInv'
  <1>1. PICK n \in 0..MaxItems :
               /\ trn' = [pc |-> "file", n |-> n] /\ trn' \in Truncates /\ trn' # Idle
               /\ idx' \in Seq(Entry) /\ Len(idx') = n + 1
               /\ synced' \in 0..MaxItems
               /\ dIdx' \in Nat /\ dIdx' <= n + 1
               /\ items # -1 => n < items
               /\ incidents' = incidents \cup IF n + 1 > Len(idx) THEN {"extended"} ELSE {}
    BY truncateAtHand
  <1>2. DiskType'
    BY <1>1 DEF truncate, DiskType, TypeInv
  <1>3. MemType' /\ HistoryType'
    BY <1>1 DEF truncate, MemType, HistoryType, TypeInv, mem
  <1>4. app # Idle => items \in 0..(MaxItems - 1)
    BY DEF ControlInv, TypeInv
  <1>5. trn'.n = n /\ app'.pc \in {"idle", "roll", "rolled"} /\ st = "open"
    BY <1>1 DEF truncate
  <1>6. ControlInv'
    BY <1>1, <1>4, <1>5, TableAssumption DEF truncate, ControlInv, TypeInv, mem
  <1> QED BY <1>2, <1>3, <1>6 DEF TypeInv

LEMMA ReleasedFiles ==
    ASSUME TypeInv, NEW f \in FileIds
    PROVE  Released(f) \subseteq FileIds
  BY DEF Released, MemType, TypeInv

LEMMA truncateFileTypes == ASSUME TypeInv, truncateFile PROVE TypeInv'
  <1> DEFINE expected == Last(idx)
  <1>1. trn # Idle /\ trn.n \in 0..MaxItems /\ Len(idx) = trn.n + 1 /\ idx \in Seq(Entry)
    BY DEF truncateFile, ControlInv, DiskType, TypeInv, Truncates, Idle
  <1>2. expected \in Entry /\ expected.filenum \in FileIds /\ expected.offset \in Nat
    BY <1>1, NamedFields DEF Last
  <1>3. opened' \subseteq FileIds
    BY <1>2, ReleasedFiles DEF truncateFile
  <1>4. 0 \in Byte /\ <<>> \in Seq(Byte)
    BY DEF Byte
  <1>5. ASSUME NEW f \in FileIds
        PROVE  Resize(file[f], expected.offset, 0) \in Seq(Byte)
    <2>1. file[f] \in Seq(Byte)
      BY DEF DiskType, TypeInv
    <2> QED BY <1>2, <1>4, <2>1, ResizeIs
  <1>6. file' = [f \in FileIds |->
                    IF f = expected.filenum THEN Resize(file[f], expected.offset, 0)
                    ELSE IF f \in opened \ opened' THEN <<>> ELSE file[f]]
    BY DEF truncateFile
  <1>7. file' \in [FileIds -> Seq(Byte)]
    <2>1. ASSUME NEW f \in FileIds
          PROVE  (IF f = expected.filenum THEN Resize(file[f], expected.offset, 0)
                    ELSE IF f \in opened \ opened' THEN <<>> ELSE file[f]) \in Seq(Byte)
      BY <1>4, <1>5 DEF DiskType, TypeInv
    <2> QED BY <1>6, <2>1, Zenon
  <1>8. ASSUME NEW f \in FileIds
        PROVE  dFile'[f] = Min({dFile[f], Len(file'[f])}) /\ dFile'[f] \in Nat /\ dFile'[f] <= Len(file'[f])
    <2>1. dFile'[f] = Min({dFile[f], Len(file'[f])})
      BY DEF truncateFile
    <2>2. dFile[f] \in Nat /\ Len(file'[f]) \in Nat
      BY <1>7 DEF DiskType, TypeInv
    <2> QED BY <2>1, <2>2, MinOfPair
  <1>9. dFile' \in [FileIds -> Nat]
    <2>1. dFile' = [f \in FileIds |-> dFile'[f]]
      BY DEF truncateFile
    <2> QED BY <1>8, <2>1, Zenon
  <1>10. DiskType'
    BY <1>7, <1>8, <1>9 DEF truncateFile, DiskType, TypeInv
  <1>11. MemType' /\ HistoryType'
    BY <1>1, <1>2, <1>3 DEF truncateFile, MemType, HistoryType, TypeInv
  <1>12. app # Idle => items \in 0..(MaxItems - 1) /\ trn.n < items
    BY <1>1 DEF ControlInv, TypeInv
  <1>13. ControlInv'
    BY <1>1, <1>12, TableAssumption DEF truncateFile, ControlInv, TypeInv, Truncates
  <1> QED BY <1>10, <1>11, <1>13 DEF TypeInv

LEMMA truncateFailsTypes == ASSUME TypeInv, truncateFails PROVE TypeInv'
  <1> DEFINE expected == Last(idx)
  <1>1. trn # Idle /\ trn.n \in 0..MaxItems /\ Len(idx) = trn.n + 1 /\ idx \in Seq(Entry) /\ st = "open"
    BY DEF truncateFails, ControlInv, DiskType, TypeInv, Truncates, Idle
  <1>2. expected \in Entry /\ expected.filenum \in FileIds
    BY <1>1, NamedFields DEF Last
  <1> HIDE DEF expected
  <1>3. HistoryType' /\ ControlInv'
    <2>1. HistoryType'
      BY TableAssumption DEF truncateFails, Fails, HistoryType, TypeInv
    <2>2. ControlInv'
      BY <1>1, TableAssumption DEF truncateFails, ControlInv, TypeInv, Truncates, MemType
    <2> QED BY <2>1, <2>2
  <1>4. CASE UNCHANGED <<file, dFile, headId>> /\ opened' \subseteq opened
    <2>1. DiskType' /\ MemType'
      BY <1>4 DEF truncateFails, DiskType, MemType, TypeInv
    <2> QED BY <1>3, <2>1 DEF TypeInv
  <1>5. CASE /\ opened' = Released(expected.filenum) /\ headId' = expected.filenum
             /\ file' = [f \in FileIds |-> IF f \in opened \ opened' THEN <<>> ELSE file[f]]
             /\ dFile' = [f \in FileIds |-> Min({dFile[f], Len(file'[f])})]
    <2>1. <<>> \in Seq(Byte)
      OBVIOUS
    <2>2. file' \in [FileIds -> Seq(Byte)]
      BY <1>5, <2>1 DEF DiskType, TypeInv
    <2>3. ASSUME NEW f \in FileIds
          PROVE  dFile'[f] = Min({dFile[f], Len(file'[f])}) /\ dFile'[f] \in Nat /\ dFile'[f] <= Len(file'[f])
      <3>1. dFile'[f] = Min({dFile[f], Len(file'[f])})
        BY <1>5
      <3>2. dFile[f] \in Nat /\ Len(file'[f]) \in Nat
        BY <2>2 DEF DiskType, TypeInv
      <3> QED BY <3>1, <3>2, MinOfPair
    <2>4. dFile' \in [FileIds -> Nat]
      <3>1. dFile' = [f \in FileIds |-> dFile'[f]]
        BY <1>5
      <3> QED BY <2>3, <3>1, Zenon
    <2>5. DiskType'
      BY <2>2, <2>3, <2>4 DEF truncateFails, DiskType, TypeInv
    <2>6. MemType'
      BY <1>2, <1>5, ReleasedFiles DEF truncateFails, MemType, TypeInv
    <2> QED BY <1>3, <2>5, <2>6 DEF TypeInv
  <1>6. \/ UNCHANGED <<file, dFile, headId>> /\ opened' \subseteq opened
        \/ /\ opened' = Released(expected.filenum) /\ headId' = expected.filenum
           /\ file' = [f \in FileIds |-> IF f \in opened \ opened' THEN <<>> ELSE file[f]]
           /\ dFile' = [f \in FileIds |-> Min({dFile[f], Len(file'[f])})]
    BY DEF truncateFails, expected
  <1> QED BY <1>4, <1>5, <1>6

LEMMA SyncTypes == ASSUME TypeInv, Sync PROVE TypeInv'
  <1>1. headId \in FileIds /\ idx \in Seq(Entry) /\ Len(idx) <= MaxItems + 1
    BY DEF MemType, DiskType, ControlInv, TypeInv
  <1>2. dFile' \in [FileIds -> Nat] /\ \A f \in FileIds : dFile'[f] <= Len(file'[f])
    BY <1>1 DEF Sync, DiskType, TypeInv
  <1>3. synced' \in 0..MaxItems
    <2>1. Len(idx) - 1 \in {-1} \cup Nat /\ synced' = Max({0, Len(idx) - 1})
      BY <1>1 DEF Sync
    <2> QED BY <1>1, <2>1, MaxWithZero, TableAssumption
  <1>4. DiskType'
    BY <1>1, <1>2 DEF Sync, DiskType, TypeInv
  <1>5. MemType' /\ HistoryType'
    BY <1>3 DEF Sync, MemType, HistoryType, TypeInv, mem
  <1>6. ControlInv'
    BY DEF Sync, ControlInv, TypeInv, mem, calls
  <1> QED BY <1>4, <1>5, <1>6 DEF TypeInv

LEMMA CloseTypes == ASSUME TypeInv, Close PROVE TypeInv'
  <1>1. app = Idle /\ trn = Idle
    BY DEF Close, ControlInv, TypeInv, Appends, Truncates
  <1>2. DiskType' /\ MemType' /\ HistoryType'
    BY TableAssumption DEF Close, Fails, DiskType, MemType, HistoryType, TypeInv, disk
  <1>3. ControlInv'
    BY <1>1 DEF Close, ControlInv, TypeInv, disk, calls
  <1> QED BY <1>2, <1>3 DEF TypeInv

LEMMA DieTypes ==
    ASSUME TypeInv, Die
    PROVE  /\ MemType' /\ st' = "closed" /\ app' = Idle /\ trn' = Idle
           /\ synced' \in 0..MaxItems /\ skipped' \subseteq FileIds
           /\ halfway' \in BOOLEAN /\ raced' \in BOOLEAN /\ misplaced' \in BOOLEAN
           /\ failures' \in 0..MaxFailures
  BY TableAssumption DEF Die, Fails, MemType, HistoryType, TypeInv

LEMMA ProcessCrashTypes == ASSUME TypeInv, ProcessCrash PROVE TypeInv'
  <1>1. DiskType' /\ HistoryType'
    BY DieTypes DEF ProcessCrash, DiskType, HistoryType, TypeInv, disk
  <1>2. ControlInv'
    BY DieTypes DEF ProcessCrash, ControlInv, TypeInv, disk, Appends, Truncates
  <1> QED BY <1>1, <1>2, DieTypes DEF ProcessCrash, TypeInv

\* What a power loss leaves.
LEMMA PowerLossAtHand ==
    ASSUME TypeInv, PowerLoss
    PROVE  \E n \in dIdx..Len(idx), cut \in [FileIds -> Nat] :
               /\ n \in Nat
               /\ \A f \in FileIds : dFile[f] <= cut[f] /\ cut[f] <= Len(file[f])
               /\ idx' = SubSeq(idx, 1, n) /\ idx' \in Seq(Entry) /\ Len(idx') = n
               /\ \A i \in 1..n : idx'[i] = idx[i]
               /\ torn' \in IF n < Len(idx) \/ torn THEN BOOLEAN ELSE {FALSE}
               /\ file' = [f \in FileIds |-> SubSeq(file[f], 1, cut[f])]
               /\ file' \in [FileIds -> Seq(Byte)]
               /\ \A f \in FileIds : Len(file'[f]) = cut[f]
               /\ \A f \in FileIds : \A i \in 1..cut[f] : file'[f][i] = file[f][i]
               /\ incidents' = incidents
                    \cup IF \E f \in skipped \cup 0..(headId - 1) : cut[f] < Len(file[f])
                         THEN {"rolled"} ELSE {}
                    \cup IF idx' = <<>> /\ torn' THEN {"header"} ELSE {}
  <1>1. PICK n \in dIdx..Len(idx), cut \in [FileIds -> 0..Max({Len(file[f]) : f \in FileIds})] :
            /\ \A f \in FileIds : cut[f] \in dFile[f]..Len(file[f])
            /\ idx' = SubSeq(idx, 1, n)
            /\ torn' \in IF n < Len(idx) \/ torn THEN BOOLEAN ELSE {FALSE}
            /\ file' = [f \in FileIds |-> SubSeq(file[f], 1, cut[f])]
            /\ incidents' = incidents
                 \cup IF \E f \in skipped \cup 0..(headId - 1) : cut[f] < Len(file[f])
                      THEN {"rolled"} ELSE {}
                 \cup IF idx' = <<>> /\ torn' THEN {"header"} ELSE {}
    BY Zenon DEF PowerLoss
  <1>2. /\ idx \in Seq(Entry) /\ dIdx \in Nat /\ file \in [FileIds -> Seq(Byte)]
        /\ dFile \in [FileIds -> Nat]
    BY DEF DiskType, TypeInv
  <1>3. n \in Nat /\ n <= Len(idx)
    BY <1>2
  <1>4. idx' \in Seq(Entry) /\ Len(idx') = n /\ \A i \in 1..n : idx'[i] = idx[i]
    BY <1>1, <1>2, <1>3, CutIs
  <1>5. ASSUME NEW f \in FileIds
        PROVE  /\ cut[f] \in Nat /\ dFile[f] <= cut[f] /\ cut[f] <= Len(file[f])
               /\ SubSeq(file[f], 1, cut[f]) \in Seq(Byte)
               /\ Len(SubSeq(file[f], 1, cut[f])) = cut[f]
               /\ \A i \in 1..cut[f] : SubSeq(file[f], 1, cut[f])[i] = file[f][i]
    <2>1. file[f] \in Seq(Byte) /\ Len(file[f]) \in Nat /\ dFile[f] \in Nat /\ cut[f] \in dFile[f]..Len(file[f])
      BY <1>1, <1>2
    <2>2. cut[f] \in Nat /\ dFile[f] <= cut[f] /\ cut[f] <= Len(file[f])
      BY <2>1
    <2> QED BY <2>1, <2>2, CutIs
  <1>6. cut \in [FileIds -> Nat]
    <2>1. cut = [f \in FileIds |-> cut[f]]
      OBVIOUS
    <2> QED BY <1>5, <2>1, Zenon
  <1>7. file' \in [FileIds -> Seq(Byte)]
    BY <1>1, <1>5, Zenon
  <1>8. \A f \in FileIds : /\ Len(file'[f]) = cut[f]
                            /\ \A i \in 1..cut[f] : file'[f][i] = file[f][i]
    BY <1>1, <1>5, Zenon
  <1> QED BY <1>1, <1>3, <1>4, <1>5, <1>6, <1>7, <1>8, Zenon

LEMMA PowerLossTypes == ASSUME TypeInv, PowerLoss PROVE TypeInv'
  <1>1. PICK n \in dIdx..Len(idx), cut \in [FileIds -> Nat] :
               /\ n \in Nat
               /\ \A f \in FileIds : dFile[f] <= cut[f] /\ cut[f] <= Len(file[f])
               /\ idx' \in Seq(Entry) /\ Len(idx') = n
               /\ torn' \in IF n < Len(idx) \/ torn THEN BOOLEAN ELSE {FALSE}
               /\ file' \in [FileIds -> Seq(Byte)]
               /\ \A f \in FileIds : Len(file'[f]) = cut[f]
               /\ incidents' = incidents
                    \cup IF \E f \in skipped \cup 0..(headId - 1) : cut[f] < Len(file[f])
                         THEN {"rolled"} ELSE {}
                    \cup IF idx' = <<>> /\ torn' THEN {"header"} ELSE {}
    BY PowerLossAtHand, Zenon
  <1>2. Die /\ dIdx' = dIdx /\ dFile' = dFile
    BY DEF PowerLoss
  <1>3. DiskType'
    <2>1. torn' \in BOOLEAN
      BY <1>1
    <2>2. /\ idx' \in Seq(Entry) /\ file' \in [FileIds -> Seq(Byte)]
          /\ dIdx' \in Nat /\ dIdx' <= Len(idx')
      BY <1>1, <1>2 DEF DiskType, TypeInv
    <2>3. dFile' \in [FileIds -> Nat] /\ \A f \in FileIds : dFile'[f] <= Len(file'[f])
      BY <1>1, <1>2 DEF DiskType, TypeInv
    <2> QED BY <2>1, <2>2, <2>3 DEF DiskType
  <1>4. HistoryType'
    BY <1>1, <1>2, DieTypes DEF HistoryType, TypeInv
  <1>5. ControlInv'
    <2>1. Len(idx') <= MaxItems + 1
      <3>1. Len(idx) \in Nat /\ dIdx \in Nat /\ Len(idx) <= MaxItems + 1
        BY DEF DiskType, ControlInv, TypeInv
      <3>2. n <= Len(idx) /\ Len(idx') = n /\ n \in Nat
        BY <1>1, <3>1
      <3> QED BY <3>1, <3>2, TableAssumption
    <2> QED BY <1>2, <2>1, DieTypes DEF ControlInv, Appends, Truncates
  <1> QED BY <1>2, <1>3, <1>4, <1>5, DieTypes DEF TypeInv

LEMMA UnchangedTypes == ASSUME TypeInv, UNCHANGED vars PROVE TypeInv'
  BY DEF TypeInv, DiskType, MemType, HistoryType, ControlInv, vars, disk, mem, calls, history

LEMMA TypeStep == TypeInv /\ [Next]_vars => TypeInv'
  BY newCustomTableTypes, repairDanglingHeadTypes, repairDanglingIndexTypes, repairDoneTypes,
     AppendStartTypes, AppendRollTypes, AppendRollFailsTypes, AppendRelockTypes, AppendWriteTypes,
     AppendWriteFailsTypes, AppendIndexTypes, AppendIndexFailsTypes, truncateTypes,
     truncateFileTypes, truncateFailsTypes, SyncTypes, CloseTypes, ProcessCrashTypes,
     PowerLossTypes, UnchangedTypes, Zenon DEF Next, Repair

LEMMA TypesCorrect == Spec => []TypeInv
  BY TypeInit, TypeStep, PTL DEF Spec

-----------------------------------------------------------------------------
(* Numbers and sizes: only a truncation in the gap of Append disturbs them *)

SizeInv ==
    ~raced =>
        /\ misplaced => "shifted" \in incidents
        /\ headBytes <= MaxFileSize
        /\ \A i \in 1..Len(idx) : idx[i].offset <= MaxFileSize
        /\ app # Idle => items = app.item
        /\ app.pc = "rolled" => headBytes = 0
        /\ app.pc = "write" => headBytes + Len(app.blob) <= MaxFileSize
        /\ trn # Idle => app = Idle

LEMMA EntryAt ==
    ASSUME TypeInv, NEW i \in 1..Len(idx)
    PROVE  /\ idx[i] \in Entry /\ idx[i].filenum \in FileIds /\ idx[i].filenum \in Nat /\ idx[i].offset \in Nat
           /\ Len(file[idx[i].filenum]) \in Nat /\ dFile[idx[i].filenum] \in Nat
  <1>1. idx[i] \in Entry
    BY DEF DiskType, TypeInv
  <1>2. idx[i].filenum \in FileIds /\ idx[i].filenum \in Nat /\ idx[i].offset \in Nat
    BY <1>1, NamedFields
  <1> QED BY <1>1, <1>2 DEF DiskType, TypeInv

LEMMA SizeInit == Init => SizeInv
  BY TableAssumption DEF Init, SizeInv, Idle

LEMMA SizeStep == ASSUME TypeInv, SizeInv, [Next]_vars PROVE SizeInv'
  <1> SUFFICES ASSUME ~raced' PROVE SizeInv'
    BY DEF SizeInv
  <1>1. ~raced
    <2>1. raced => raced'
      BY DEF Next, Repair, vars, history, newCustomTable, repairDanglingHead, repairDanglingIndex,
             repairDone, AppendStart, AppendRoll, AppendRollFails, AppendRelock, AppendWrite,
             AppendWriteFails, AppendIndex, AppendIndexFails, truncate, truncateFile, truncateFails, Sync, Close, Die, ProcessCrash, PowerLoss
    <2> QED BY <2>1
  <1>2. /\ misplaced => "shifted" \in incidents
        /\ headBytes <= MaxFileSize
        /\ \A i \in 1..Len(idx) : idx[i].offset <= MaxFileSize
        /\ app # Idle => items = app.item
        /\ app.pc = "rolled" => headBytes = 0
        /\ app.pc = "write" => headBytes + Len(app.blob) <= MaxFileSize
        /\ trn # Idle => app = Idle
    BY <1>1 DEF SizeInv
  <1>3. idx \in Seq(Entry) /\ Zero.offset = 0 /\ 0 <= MaxFileSize
    BY ZeroEntry, TableAssumption DEF DiskType, TypeInv
  <1>4. /\ Idle.pc = "idle"
        /\ trn.pc = "idle" => trn = Idle
        /\ app.pc = "idle" => app = Idle
    BY DEF Idle, ControlInv, TypeInv, Appends, Truncates
  <1>5. CASE newCustomTable
    <2>1. \A i \in 1..Len(idx') : idx'[i].offset <= MaxFileSize
      BY <1>2, <1>3, <1>5 DEF newCustomTable
    <2> QED BY <1>2, <1>5, <2>1 DEF newCustomTable, SizeInv, calls, history
  <1>6. CASE repairDanglingHead
    BY <1>2, <1>6 DEF repairDanglingHead, SizeInv, mem, calls, history
  <1>7. CASE repairDanglingIndex
    <2>1. idx # <<>>
      <3>1. Len(file[0]) \in Nat
        BY NamedFields DEF DiskType, TypeInv
      <3> QED BY <1>3, <1>7, <3>1, LastEntry, ZeroEntry DEF repairDanglingIndex
    <2>2. idx' = SubSeq(idx, 1, Len(idx) - 1) /\ Len(idx) - 1 \in Nat /\ Len(idx) - 1 <= Len(idx)
      BY <1>3, <1>7, <2>1 DEF repairDanglingIndex, Front
    <2>3. \A i \in 1..Len(idx') : idx'[i].offset <= MaxFileSize
      BY <1>2, <1>3, <2>2, CutIs
    <2> QED BY <1>2, <1>7, <2>3 DEF repairDanglingIndex, SizeInv, calls, history
  <1>8. CASE repairDone
    <2>1. headBytes' <= MaxFileSize
      BY <1>2, <1>3, <1>8, LastEntry DEF repairDone
    <2>2. app = Idle
      BY <1>8 DEF repairDone, ControlInv, TypeInv
    <2> QED BY <1>2, <1>4, <1>8, <2>1, <2>2 DEF repairDone, SizeInv, calls
  <1>9. CASE AppendStart
    <2>1. /\ app'.item = items /\ headBytes \in Nat /\ Len(app'.blob) \in Nat
          /\ app'.pc = IF headBytes + Len(app'.blob) > MaxFileSize THEN "roll" ELSE "write"
      BY <1>9, BlobType DEF AppendStart, MemType, TypeInv
    <2>2. app'.pc # "rolled" /\ (app'.pc = "write" => headBytes + Len(app'.blob) <= MaxFileSize)
      BY <2>1, TableAssumption
    <2> QED BY <1>2, <1>4, <1>9, <2>1, <2>2 DEF AppendStart, SizeInv, disk, mem, history
  <1>10. CASE AppendRoll
    <2>1. app # Idle /\ app'.item = app.item /\ app'.pc = "rolled"
      BY <1>10, AppendAtHand DEF AppendRoll
    <2> QED BY <1>2, <1>3, <1>4, <1>10, <2>1 DEF AppendRoll, SizeInv
  <1>11. CASE AppendRelock
    <2>1. app # Idle /\ app'.item = app.item /\ app'.pc = "write" /\ app'.blob = app.blob /\ app.blob \in Blobs
      BY <1>11, AppendAtHand DEF AppendRelock
    <2>2. headBytes = 0 /\ 0 + Len(app.blob) <= MaxFileSize
      BY <1>2, <1>11, <2>1, BlobType, TableAssumption DEF AppendRelock
    <2> QED BY <1>2, <1>4, <1>11, <2>1, <2>2 DEF AppendRelock, SizeInv, disk, mem, history
  <1>12. CASE AppendWrite
    <2>1. app # Idle /\ app'.item = app.item /\ app'.pc = "index"
      BY <1>12, AppendAtHand DEF AppendWrite
    <2>2. trn = Idle
      BY <1>12, AppendAtHand DEF AppendWrite
    <2> QED BY <1>2, <1>12, <2>1, <2>2 DEF AppendWrite, SizeInv, history
  <1>13. CASE AppendWriteFails
    BY <1>2, <1>4, <1>13 DEF AppendWriteFails, SizeInv, mem
  <1>14. CASE AppendIndex
    <2>1. app # Idle
      BY <1>14, AppendAtHand DEF AppendIndex
    <2>2. PICK entry \in Entry : idx' = Append(idx, entry) /\ entry.offset <= MaxFileSize
      <3>1. CASE torn
        BY <1>14, <3>1, MisreadEntry DEF AppendIndex
      <3>2. CASE ~torn
        <4>1. idx' = Append(idx, [filenum |-> headId, offset |-> headBytes])
          BY <1>14, <3>2 DEF AppendIndex
        <4> QED BY <1>2, <4>1 DEF MemType, TypeInv, Entry
      <3> QED BY <3>1, <3>2
    <2>3. \A i \in 1..Len(idx') : idx'[i].offset <= MaxFileSize
      BY <1>2, <1>3, <2>2, AppendProperties
    <2>4. misplaced' => "shifted" \in incidents'
      <3>1. items = app.item
        BY <1>2, <2>1
      <3>2. /\ incidents' = incidents \cup IF torn \/ Len(idx) # items + 1 THEN {"shifted"} ELSE {}
            /\ misplaced' => misplaced \/ Len(idx) # app.item + 1
        BY <1>14 DEF AppendIndex
      <3> QED BY <1>2, <3>1, <3>2
    <2>5. /\ headBytes' = headBytes /\ app' = Idle /\ trn' = trn
      BY <1>14 DEF AppendIndex
    <2> QED BY <1>2, <1>4, <2>3, <2>4, <2>5 DEF SizeInv
  <1>15. CASE truncate
    <2>1. PICK n \in 0..MaxItems : /\ Len(idx') = n + 1
               /\ \A i \in 1..(n + 1) : IF i <= Len(idx) THEN idx'[i] = idx[i] ELSE idx'[i] \in Misread
               /\ incidents' = incidents \cup IF n + 1 > Len(idx) THEN {"extended"} ELSE {}
      BY <1>15, truncateAtHand
    <2>2. \A i \in 1..Len(idx') : idx'[i].offset <= MaxFileSize
      BY <1>2, <1>3, <2>1, MisreadEntry
    <2>3. app = Idle
      BY <1>4, <1>15 DEF truncate
    <2> QED BY <1>2, <1>4, <1>15, <2>1, <2>2, <2>3 DEF truncate, SizeInv, mem
  <1>16. CASE truncateFile
    <2>1. trn.n \in 0..MaxItems /\ Len(idx) = trn.n + 1
      BY <1>16 DEF truncateFile, ControlInv, TypeInv, Truncates, Idle
    <2>2. headBytes' <= MaxFileSize
      BY <1>2, <1>16, <2>1 DEF truncateFile, Last
    <2>4. app = Idle
      BY <1>2, <1>16 DEF truncateFile, Idle
    <2> QED BY <1>2, <1>4, <1>16, <2>2, <2>4 DEF truncateFile, SizeInv
  <1>17. CASE Sync
    BY <1>2, <1>17 DEF Sync, SizeInv, mem, calls
  <1>18. CASE Close
    BY <1>2, <1>18 DEF Close, SizeInv, disk, calls
  <1>19. CASE ProcessCrash
    BY <1>2, <1>4, <1>19 DEF ProcessCrash, Die, SizeInv, disk
  <1>20. CASE PowerLoss
    <2>1. \A i \in 1..Len(idx') : idx'[i].offset <= MaxFileSize
      <3>1. PICK n \in dIdx..Len(idx) : n \in Nat /\ Len(idx') = n /\ \A i \in 1..n : idx'[i] = idx[i]
        BY <1>20, PowerLossAtHand, Zenon
      <3>2. dIdx \in Nat /\ Len(idx) \in Nat
        BY DEF DiskType, TypeInv
      <3> QED BY <1>2, <3>1, <3>2
    <2>2. incidents \subseteq incidents'
      BY <1>20 DEF PowerLoss
    <2> QED BY <1>2, <1>4, <1>20, <2>1, <2>2 DEF PowerLoss, Die, SizeInv
  <1>21. CASE UNCHANGED vars
    BY <1>2, <1>21 DEF SizeInv, vars, disk, mem, calls, history
  <1>22. CASE AppendRollFails
    BY <1>2, <1>4, <1>22 DEF AppendRollFails, SizeInv, disk, mem
  <1>23. CASE AppendIndexFails
    <2>1. \A i \in 1..Len(idx') : idx'[i].offset <= MaxFileSize
      <3>1. idx' = idx \/ \E entry \in Misread : idx' = Append(idx, entry)
        BY <1>23 DEF AppendIndexFails
      <3> QED BY <1>2, <1>3, <3>1, MisreadEntry, AppendProperties
    <2>2. incidents \subseteq incidents'
      BY <1>23 DEF AppendIndexFails
    <2> QED BY <1>2, <1>4, <1>23, <2>1, <2>2 DEF AppendIndexFails, SizeInv
  <1>24. CASE truncateFails
    <2>1. app = Idle
      BY <1>2, <1>24 DEF truncateFails, Idle
    <2> QED BY <1>2, <1>4, <1>24, <2>1 DEF truncateFails, SizeInv
  <1> QED BY <1>5, <1>6, <1>7, <1>8, <1>9, <1>10, <1>11, <1>12, <1>13, <1>14, <1>15, <1>16, <1>17,
             <1>18, <1>19, <1>20, <1>21, <1>22, <1>23, <1>24, Zenon DEF Next, Repair

-----------------------------------------------------------------------------
(* The files, as long as nothing has happened that the code has no answer to *)

(* The data of entry i is there. *)
Held(i) == idx[i].offset <= Len(file[idx[i].filenum])

(* On disk, also between a crash and the end of repair: the entries are in *)
(* order, only the head file may be shorter than they say, and nothing     *)
(* that was synced is missing or in danger.                                *)
DiskInv ==
    /\ idx # <<>> => idx[1] = Zero
    /\ torn => idx # <<>>
    /\ \A i, j \in 1..Len(idx) : i <= j =>
           /\ idx[i].filenum <= idx[j].filenum
           /\ idx[i].filenum = idx[j].filenum => idx[i].offset <= idx[j].offset
    /\ \A i \in 1..Len(idx) : idx[i].filenum <= headId /\ (idx[i].filenum < headId => Held(i))
    /\ synced > 0 => synced < dIdx
    /\ \A i \in 1..Len(idx) : i <= synced + 1 =>
           /\ Held(i)
           /\ idx[i].filenum \in skipped \/ idx[i].offset <= dFile[idx[i].filenum]

(* Where the last item ends in the head file. *)
ItemsEnd == IF idx[Len(idx)].filenum = headId THEN idx[Len(idx)].offset ELSE 0

(* The index has the entries the counters count. *)
InStep == Len(idx) = items + 1

(* In memory: the open files, which are all of them unless a call stopped  *)
(* halfway; an index that is in step with the counters or behind them; and *)
(* in step, the head file up to the write under way.                       *)
OpenInv ==
    /\ st # "closed" => idx # <<>>
    /\ st = "repair" => ~torn
    /\ st = "open" =>
           /\ opened \subseteq 0..headId
           /\ \A i \in 1..Len(idx) : Held(i)
           /\ Len(idx) <= items + 1
           /\ torn => ~InStep /\ trn = Idle
           /\ ~halfway => opened = 0..headId /\ (trn = Idle => InStep)
    /\ st = "open" /\ trn = Idle /\ InStep =>
           /\ Len(file[headId]) = headBytes
           /\ headBytes = IF app.pc = "index" THEN ItemsEnd + Len(app.blob) ELSE ItemsEnd
           /\ app.pc = "index" => SubSeq(file[headId], ItemsEnd + 1, headBytes) = app.blob

IntactInv == DiskInv /\ OpenInv

LEMMA IntactInit == Init => IntactInv
  <1> SUFFICES ASSUME Init PROVE IntactInv
    OBVIOUS
  <1>1. idx = <<>> /\ torn = FALSE /\ synced = 0 /\ st = "closed" /\ 1..Len(idx) = {}
    BY DEF Init
  <1> QED BY <1>1 DEF IntactInv, DiskInv, OpenInv

LEMMA newCustomTableKeeps ==
    ASSUME TypeInv, TypeInv', IntactInv, newCustomTable PROVE IntactInv'
  <1>1. /\ file' = file /\ dFile' = dFile /\ headId' = headId /\ synced' = synced /\ dIdx' = dIdx
        /\ skipped' = skipped /\ st' = "repair" /\ torn' = FALSE
    BY DEF newCustomTable, history
  <1>2. CASE idx = <<>>
    <2>1. ~torn /\ synced = 0
      BY <1>2 DEF IntactInv, DiskInv, TypeInv, DiskType, HistoryType
    <2>2. idx' = <<Zero>> /\ Len(idx') = 1 /\ idx'[1] = Zero
      BY <1>2, <2>1 DEF newCustomTable
    <2>3. Zero.filenum = 0 /\ Zero.offset = 0
      BY ZeroEntry
    <2>4. Len(file'[0]) \in Nat /\ dFile'[0] \in Nat /\ headId' \in Nat
      BY NamedFields DEF TypeInv, DiskType, MemType
    <2>5. \A i \in 1..Len(idx') : i = 1
      BY <2>2
    <2>6. DiskInv'
      BY <1>1, <2>1, <2>2, <2>3, <2>4, <2>5 DEF DiskInv, Held
    <2> QED BY <1>1, <2>2, <2>6 DEF IntactInv, OpenInv
  <1>3. CASE idx # <<>>
    <2>1. idx' = idx
      BY <1>3 DEF newCustomTable
    <2>2. DiskInv'
      BY <1>1, <2>1 DEF IntactInv, DiskInv, Held
    <2> QED BY <1>1, <1>3, <2>1, <2>2 DEF IntactInv, OpenInv
  <1> QED BY <1>2, <1>3

\* The entries precede the last one.
LEMMA LastOfOrdered ==
    ASSUME TypeInv, DiskInv, NEW i \in 1..Len(idx)
    PROVE  /\ Len(idx) \in 1..Len(idx) /\ Last1(idx) = idx[Len(idx)] /\ idx # <<>>
           /\ Last1(idx).filenum \in FileIds /\ Last1(idx).filenum \in Nat /\ Last1(idx).offset \in Nat
           /\ idx[i].filenum <= Last1(idx).filenum
           /\ idx[i].filenum = Last1(idx).filenum => idx[i].offset <= Last1(idx).offset
           /\ Last1(idx).filenum <= headId
  <1>1. idx \in Seq(Entry) /\ idx # <<>> /\ Len(idx) \in 1..Len(idx) /\ i <= Len(idx)
    BY DEF TypeInv, DiskType
  <1>2. Last1(idx) = idx[Len(idx)]
    BY <1>1, LastEntry
  <1> QED BY <1>1, <1>2, EntryAt DEF DiskInv

LEMMA repairDanglingHeadKeeps ==
    ASSUME TypeInv, TypeInv', IntactInv, repairDanglingHead PROVE IntactInv'
  <1> DEFINE last == Last1(idx)
  <1>1. /\ idx' = idx /\ headId' = headId /\ synced' = synced /\ dIdx' = dIdx /\ torn' = torn
        /\ skipped' = skipped /\ st = "repair" /\ st' = "repair"
    BY DEF repairDanglingHead, mem, history
  <1>2. idx # <<>> /\ idx \in Seq(Entry) /\ Len(idx) \in 1..Len(idx)
    BY <1>1 DEF IntactInv, OpenInv, TypeInv, DiskType
  <1>3. last.filenum \in FileIds /\ last.offset \in Nat /\ last.offset < Len(file[last.filenum])
    BY <1>2, LastOfOrdered DEF repairDanglingHead, IntactInv
  <1>4. Len(file'[last.filenum]) = last.offset
    BY <1>3, CutIs DEF repairDanglingHead, TypeInv, DiskType
  <1>5. dFile'[last.filenum] = IF dFile[last.filenum] <= last.offset THEN dFile[last.filenum] ELSE last.offset
    BY <1>3, MinOfPair DEF repairDanglingHead, TypeInv, DiskType
  <1>6. \A f \in FileIds : f # last.filenum => file'[f] = file[f] /\ dFile'[f] = dFile[f]
    BY <1>3 DEF repairDanglingHead, TypeInv, DiskType
  <1>7. ASSUME NEW i \in 1..Len(idx)
        PROVE  /\ Held(i) => Held(i)'
               /\ idx[i].offset <= dFile[idx[i].filenum] => idx[i].offset <= dFile'[idx[i].filenum]
    <2>1. idx[i].filenum \in FileIds /\ idx[i].offset \in Nat
      BY EntryAt
    <2>2. idx[i].filenum = last.filenum => idx[i].offset <= last.offset
      BY LastOfOrdered DEF IntactInv
    <2> QED BY <1>1, <1>3, <1>4, <1>5, <1>6, <2>1, <2>2 DEF Held
  <1>8. DiskInv'
    BY <1>1, <1>7 DEF IntactInv, DiskInv
  <1> QED BY <1>1, <1>8 DEF IntactInv, OpenInv

LEMMA repairDanglingIndexKeeps ==
    ASSUME TypeInv, TypeInv', IntactInv, repairDanglingIndex PROVE IntactInv'
  <1> DEFINE last == Last1(idx)
  <1>1. /\ file' = file /\ dFile' = dFile /\ headId' = headId /\ synced' = synced /\ torn' = torn
        /\ skipped' = skipped /\ st = "repair" /\ st' = "repair"
    BY DEF repairDanglingIndex, history
  <1>2. idx # <<>> /\ idx \in Seq(Entry) /\ Len(idx) \in 1..Len(idx)
    BY <1>1 DEF IntactInv, OpenInv, TypeInv, DiskType
  <1>3. last = idx[Len(idx)] /\ ~Held(Len(idx))
    BY <1>2, LastOfOrdered, EntryAt DEF repairDanglingIndex, IntactInv, Held
  <1>4. Len(idx) # 1
    BY <1>2, <1>3, EntryAt, ZeroEntry DEF IntactInv, DiskInv, Held
  <1>5. Len(idx) - 1 \in Nat /\ Len(idx) - 1 >= 1 /\ Len(idx) \in Nat
    <2>1. Len(idx) \in Nat
      BY <1>2, LenProperties
    <2>2. Len(idx) >= 1
      BY <1>2, <2>1
    <2> DEFINE l == Len(idx)
    <2>3. l \in Nat /\ l >= 1 /\ l # 1
      BY <1>4, <2>1, <2>2
    <2> HIDE DEF l
    <2>4. l - 1 \in Nat /\ l - 1 >= 1
      BY <2>3
    <2> QED BY <2>1, <2>4 DEF l
  <1>6. /\ Len(idx') = Len(idx) - 1 /\ \A i \in 1..Len(idx') : idx'[i] = idx[i]
        /\ idx' # <<>>
    <2>1. idx' = SubSeq(idx, 1, Len(idx) - 1)
      BY DEF repairDanglingIndex, Front
    <2>2. Len(idx) - 1 <= Len(idx)
      BY <1>5
    <2>3. Len(idx') = Len(idx) - 1 /\ \A i \in 1..(Len(idx) - 1) : idx'[i] = idx[i]
      BY <1>2, <1>5, <2>1, <2>2, CutIs
    <2> QED BY <1>5, <2>3
  <1>7. \A i \in 1..Len(idx') : i \in 1..Len(idx) /\ (Held(i)' <=> Held(i))
    BY <1>1, <1>5, <1>6 DEF Held
  <1>8. synced + 1 < Len(idx) /\ synced \in Nat
    <2>1. synced \in Nat
      BY DEF TypeInv, HistoryType
    <2>2. synced > 0 => synced + 1 <= Len(idx)
      BY <2>1, <1>5 DEF IntactInv, DiskInv, TypeInv, DiskType
    <2>3. ~(Len(idx) <= synced + 1)
      BY <1>2, <1>3 DEF IntactInv, DiskInv
    <2> QED BY <1>5, <2>1, <2>3
  <1>9. synced > 0 => synced < dIdx'
    <2>1. dIdx \in Nat /\ dIdx' = IF dIdx <= Len(idx') THEN dIdx ELSE Len(idx')
      BY <1>5, <1>6, MinOfPair DEF repairDanglingIndex, TypeInv, DiskType
    <2> QED BY <1>5, <1>6, <1>8, <2>1 DEF IntactInv, DiskInv
  <1>10. DiskInv'
    <2>1. \A i \in 1..Len(idx') : i <= synced + 1 =>
               idx'[i].filenum \in skipped \/ idx'[i].offset <= dFile[idx'[i].filenum]
      BY <1>6, <1>7 DEF IntactInv, DiskInv
    <2>2. \A i \in 1..Len(idx') : i <= synced + 1 => Held(i)'
      BY <1>7 DEF IntactInv, DiskInv
    <2>3. \A i \in 1..Len(idx') : idx'[i].filenum <= headId /\ (idx'[i].filenum < headId => Held(i)')
      BY <1>6, <1>7 DEF IntactInv, DiskInv
    <2>4. \A i, j \in 1..Len(idx') : i <= j =>
             /\ idx'[i].filenum <= idx'[j].filenum
             /\ idx'[i].filenum = idx'[j].filenum => idx'[i].offset <= idx'[j].offset
      BY <1>6, <1>7 DEF IntactInv, DiskInv
    <2>5. idx'[1] = Zero
      BY <1>2, <1>5, <1>6 DEF IntactInv, DiskInv
    <2> QED BY <1>1, <1>6, <1>9, <2>1, <2>2, <2>3, <2>4, <2>5 DEF DiskInv
  <1> QED BY <1>1, <1>6, <1>10 DEF IntactInv, OpenInv

LEMMA repairDoneKeeps ==
    ASSUME TypeInv, TypeInv', IntactInv, repairDone PROVE IntactInv'
  <1> DEFINE last == Last1(idx)
  <1>1. /\ file' = file /\ idx' = idx /\ headId' = last.filenum /\ synced' = synced /\ torn' = torn
        /\ skipped' = skipped /\ st = "repair" /\ st' = "open" /\ dIdx' = Len(idx)
        /\ headBytes' = last.offset /\ opened' = 0..last.filenum /\ app' = app /\ trn' = trn
        /\ last.offset = Len(file[last.filenum]) /\ items' = Len(idx) - 1
    BY DEF repairDone, calls
  <1>2. idx # <<>> /\ idx \in Seq(Entry) /\ Len(idx) \in 1..Len(idx)
    BY <1>1 DEF IntactInv, OpenInv, TypeInv, DiskType
  <1>3. last = idx[Len(idx)] /\ last.filenum \in FileIds /\ last.filenum \in Nat /\ last.filenum <= headId
    BY <1>2, LastOfOrdered DEF IntactInv
  <1>4. ASSUME NEW i \in 1..Len(idx)
        PROVE  Held(i) /\ Held(i)' /\ idx[i].filenum <= last.filenum
    <2>1. /\ idx[i].filenum <= last.filenum
          /\ idx[i].filenum = last.filenum => idx[i].offset <= last.offset
      BY LastOfOrdered DEF IntactInv
    <2>2. idx[i].filenum < headId => Held(i)
      BY DEF IntactInv, DiskInv
    <2>3. idx[i].filenum \in Nat /\ headId \in Nat
      BY EntryAt, NamedFields DEF TypeInv, MemType
    <2>4. Held(i)
      BY <1>1, <1>3, <2>1, <2>2, <2>3 DEF Held
    <2> QED BY <1>1, <2>1, <2>4 DEF Held
  <1>5. dFile' = [dFile EXCEPT ![last.filenum] = Len(file[last.filenum])]
    BY DEF repairDone
  <1>6. \A i \in 1..Len(idx) : i <= synced + 1 =>
             idx[i].filenum \in skipped \/ idx[i].offset <= dFile'[idx[i].filenum]
    BY <1>3, <1>4, <1>5, EntryAt DEF IntactInv, DiskInv, TypeInv, DiskType, Held
  <1>7. synced > 0 => synced < dIdx'
    BY <1>1, <1>2 DEF IntactInv, DiskInv, TypeInv, DiskType, HistoryType
  <1>8. DiskInv'
    BY <1>1, <1>4, <1>6, <1>7 DEF IntactInv, DiskInv
  <1>9. app = Idle /\ app.pc # "index"
    BY <1>1 DEF TypeInv, ControlInv, Idle
  <1>10. Len(file'[headId']) = headBytes' /\ ItemsEnd' = headBytes'
    BY <1>1, <1>3 DEF ItemsEnd
  <1>11. ~torn' /\ Len(idx') = items' + 1
    BY <1>1, <1>2 DEF IntactInv, OpenInv
  <1> QED BY <1>1, <1>2, <1>4, <1>8, <1>9, <1>10, <1>11 DEF IntactInv, OpenInv, InStep

\* An open table whose entries stay and whose files do not shrink.
LEMMA GrowingKeeps ==
    ASSUME TypeInv, TypeInv', IntactInv, st = "open", headId <= headId',
           UNCHANGED <<idx, torn, dIdx, synced, skipped>>,
           \A f \in FileIds : f <= headId => Len(file[f]) <= Len(file'[f]) /\ dFile'[f] = dFile[f]
    PROVE  DiskInv' /\ \A i \in 1..Len(idx') : Held(i)'
  <1>1. headId \in Nat /\ headId' \in Nat
    BY NamedFields DEF TypeInv, MemType
  <1>2. ASSUME NEW i \in 1..Len(idx)
        PROVE  /\ Held(i)' /\ idx[i].filenum <= headId' /\ dFile'[idx[i].filenum] = dFile[idx[i].filenum]
    <2>1. Held(i) /\ idx[i].filenum <= headId
      BY DEF IntactInv, DiskInv, OpenInv
    <2>2. idx[i].filenum \in FileIds /\ idx[i].filenum \in Nat /\ idx[i].offset \in Nat
          /\ Len(file[idx[i].filenum]) \in Nat
      BY EntryAt
    <2>3. Len(file'[idx[i].filenum]) \in Nat
      BY <2>2 DEF TypeInv, DiskType
    <2>4. Len(file[idx[i].filenum]) <= Len(file'[idx[i].filenum]) /\ dFile'[idx[i].filenum] = dFile[idx[i].filenum]
      BY <2>1, <2>2
    <2> QED BY <1>1, <2>1, <2>2, <2>3, <2>4 DEF Held
  <1>3. \A i \in 1..Len(idx') : Held(i)'
    BY <1>2
  <1>4. DiskInv'
    BY <1>2, <1>3 DEF IntactInv, DiskInv
  <1> QED BY <1>3, <1>4

LEMMA AppendStartKeeps ==
    ASSUME TypeInv, TypeInv', IntactInv, AppendStart PROVE IntactInv'
  <1>1. /\ UNCHANGED <<idx, torn, dIdx, synced, skipped, file, dFile, headId, headBytes, opened, st, trn,
                       items, halfway>>
        /\ st = "open" /\ app.pc = "idle" /\ app'.pc # "index"
    BY DEF AppendStart, disk, mem, history
  <1>2. DiskInv' /\ \A i \in 1..Len(idx') : Held(i)'
    BY <1>1, GrowingKeeps, NamedFields DEF TypeInv, MemType, DiskType
  <1>3. OpenInv'
    BY <1>1, <1>2 DEF IntactInv, OpenInv, ItemsEnd, InStep
  <1> QED BY <1>2, <1>3 DEF IntactInv

\* The entry of the last item is in a file up to the head.
LEMMA EndAtHand ==
    ASSUME TypeInv, IntactInv, st = "open"
    PROVE  /\ Len(idx) \in 1..Len(idx) /\ idx[Len(idx)].filenum <= headId /\ ItemsEnd \in Nat
           /\ idx[Len(idx)].filenum \in Nat /\ headId \in Nat
  <1>1. idx # <<>> /\ idx \in Seq(Entry)
    BY DEF IntactInv, OpenInv, TypeInv, DiskType
  <1>2. Len(idx) \in 1..Len(idx)
    BY <1>1
  <1>3. idx[Len(idx)].filenum <= headId
    BY <1>2 DEF IntactInv, DiskInv
  <1> QED BY <1>2, <1>3, EntryAt, NamedFields DEF ItemsEnd, TypeInv, MemType

\* The file that Append rolls to is not open, and no entry is in it.
LEMMA RollAtHand ==
    ASSUME TypeInv, IntactInv, AppendRoll
    PROVE  /\ headId' = headId + 1 /\ headId' \in FileIds /\ headId \in Nat /\ headId' \in Nat
           /\ file' = [file EXCEPT ![headId'] = <<>>] /\ dFile' = [dFile EXCEPT ![headId'] = 0]
           /\ opened' \subseteq 0..headId' /\ (~halfway' => opened' = 0..headId' /\ ~halfway)
           /\ file'[headId'] = <<>>
           /\ \A f \in FileIds : f <= headId => file'[f] = file[f] /\ dFile'[f] = dFile[f]
  <1>1. headId' = headId + 1 /\ headId' \in FileIds /\ headId \in Nat /\ headId' \in Nat
    BY TableAssumption DEF AppendRoll, TypeInv, MemType, FileIds
  <1>2. opened \subseteq 0..headId /\ (~halfway => opened = 0..headId)
    BY DEF AppendRoll, IntactInv, OpenInv
  <1>3. headId' \notin opened /\ opened' \subseteq 0..headId' /\ (~halfway' => opened' = 0..headId' /\ ~halfway)
    <2>1. headId' \notin opened
      BY <1>1, <1>2
    <2>2. \/ opened' = opened \cup {headId'} /\ halfway' = halfway
          \/ opened' = (opened \ {headId}) \cup {headId'} /\ halfway' = TRUE
      BY DEF AppendRoll
    <2>3. 0..headId' = (0..headId) \cup {headId'}
      BY <1>1
    <2>4. opened' \subseteq opened \cup {headId'} /\ (~halfway' => opened' = opened \cup {headId'} /\ ~halfway)
      <3>1. CASE opened' = opened \cup {headId'} /\ halfway' = halfway
        BY <3>1, Zenon
      <3>2. CASE opened' = (opened \ {headId}) \cup {headId'} /\ halfway' = TRUE
        <4>1. opened' \subseteq opened \cup {headId'}
          BY <3>2
        <4> QED BY <3>2, <4>1, Zenon
      <3> QED BY <2>2, <3>1, <3>2, Zenon
    <2> QED BY <1>2, <2>1, <2>3, <2>4, Zenon
  <1>4. file' = [file EXCEPT ![headId'] = <<>>] /\ dFile' = [dFile EXCEPT ![headId'] = 0]
    BY <1>3 DEF AppendRoll
  <1>5. file'[headId'] = <<>>
    BY <1>1, <1>4 DEF TypeInv, DiskType
  <1>6. \A f \in FileIds : f <= headId => file'[f] = file[f] /\ dFile'[f] = dFile[f]
    BY <1>1, <1>4 DEF TypeInv, DiskType
  <1> QED BY <1>1, <1>2, <1>3, <1>4, <1>5, <1>6

LEMMA AppendRollKeeps ==
    ASSUME TypeInv, TypeInv', IntactInv, AppendRoll PROVE IntactInv'
  <1>1. /\ UNCHANGED <<idx, torn, dIdx, synced, skipped, st, trn, items>>
        /\ st = "open" /\ app'.pc = "rolled" /\ headBytes' = 0
    BY AppendAtHand DEF AppendRoll
  <1>2. DiskInv' /\ \A i \in 1..Len(idx') : Held(i)'
    <2>1. \A f \in FileIds : f <= headId => Len(file[f]) <= Len(file'[f]) /\ dFile'[f] = dFile[f]
      BY RollAtHand DEF TypeInv, DiskType
    <2>2. headId <= headId'
      BY RollAtHand
    <2> QED BY <1>1, <2>1, <2>2, GrowingKeeps
  <1>3. ItemsEnd' = 0
    BY <1>1, EndAtHand, RollAtHand DEF ItemsEnd
  <1>4. OpenInv'
    BY <1>1, <1>2, <1>3, RollAtHand DEF IntactInv, OpenInv, InStep
  <1> QED BY <1>2, <1>4 DEF IntactInv

LEMMA AppendRollFailsKeeps ==
    ASSUME TypeInv, TypeInv', IntactInv, AppendRollFails PROVE IntactInv'
  <1>1. /\ UNCHANGED <<idx, torn, dIdx, synced, skipped, file, dFile, headId, headBytes, opened, st, trn,
                       items, halfway>>
        /\ st = "open" /\ app.pc = "roll" /\ app'.pc # "index"
    BY DEF AppendRollFails, disk, mem, Idle
  <1>2. DiskInv' /\ \A i \in 1..Len(idx') : Held(i)'
    BY <1>1, GrowingKeeps, NamedFields DEF TypeInv, MemType, DiskType
  <1>3. OpenInv'
    BY <1>1, <1>2 DEF IntactInv, OpenInv, ItemsEnd, InStep
  <1> QED BY <1>2, <1>3 DEF IntactInv

LEMMA AppendRelockKeeps ==
    ASSUME TypeInv, TypeInv', IntactInv, AppendRelock PROVE IntactInv'
  <1>1. /\ UNCHANGED <<idx, torn, dIdx, synced, skipped, file, dFile, headId, headBytes, opened, st, trn,
                       items, halfway>>
        /\ st = "open" /\ app.pc = "rolled" /\ app'.pc = "write"
    BY AppendAtHand DEF AppendRelock, disk, mem, history
  <1>2. DiskInv' /\ \A i \in 1..Len(idx') : Held(i)'
    BY <1>1, GrowingKeeps, NamedFields DEF TypeInv, MemType, DiskType
  <1>3. OpenInv'
    BY <1>1, <1>2 DEF IntactInv, OpenInv, ItemsEnd, InStep
  <1> QED BY <1>2, <1>3 DEF IntactInv

LEMMA ConcatIs ==
    ASSUME NEW S, NEW s \in Seq(S), NEW t \in Seq(S), NEW n \in Nat, n = Len(s)
    PROVE  /\ s \o t \in Seq(S) /\ Len(s \o t) = n + Len(t) /\ Len(t) \in Nat
           /\ \A i \in 1..n : (s \o t)[i] = s[i]
           /\ SubSeq(s \o t, n + 1, n + Len(t)) = t
  <1>1. Len(t) \in Nat
    BY LenProperties
  <1>2. s \o t \in Seq(S) /\ Len(s \o t) = n + Len(t) /\ \A i \in 1..n : (s \o t)[i] = s[i]
    BY <1>1, ConcatProperties
  <1>3. SubSeq(s \o t, n + 1, n + Len(t)) = t
    <2>1. CASE Len(t) = 0
      <3>1. t = <<>>
        BY <2>1, EmptySeq
      <3>2. SubSeq(s \o t, n + 1, n + Len(t)) = <<>>
        BY <1>1, <2>1, SubSeqEmpty
      <3> QED BY <3>1, <3>2
    <2>2. CASE Len(t) > 0
      <3>1. n + 1 \in (n + 1)..(n + Len(t)) /\ n + Len(t) \in (n + 1)..(n + Len(t))
        BY <1>1, <2>2
      <3>2. SubSeq(s \o t, n + 1, n + Len(t)) = SubSeq(t, (n + 1) - n, (n + Len(t)) - n)
        BY <3>1, SubSeqOfConcat2
      <3>3. (n + 1) - n = 1 /\ (n + Len(t)) - n = Len(t)
        BY <1>1
      <3>4. SubSeq(t, 1, Len(t)) = t
        BY SubSeqFull
      <3> QED BY <3>2, <3>3, <3>4
    <2> QED BY <1>1, <2>1, <2>2
  <1> QED BY <1>1, <1>2, <1>3

\* What a write has added to the head file.
LEMMA WriteAtHand ==
    ASSUME TypeInv, IntactInv, AppendWrite
    PROVE  /\ headId \in FileIds /\ headId \in Nat /\ app.blob \in Seq(Byte) /\ Len(app.blob) \in Nat
           /\ trn = Idle /\ app'.pc = "index" /\ app'.blob = app.blob
           /\ Len(file[headId]) \in Nat /\ Len(file'[headId]) = Len(file[headId]) + Len(app.blob)
           /\ \A i \in 1..Len(file[headId]) : file'[headId][i] = file[headId][i]
           /\ SubSeq(file'[headId], Len(file[headId]) + 1, Len(file'[headId])) = app.blob
           /\ headBytes' = headBytes + Len(app.blob)
           /\ InStep => headBytes = ItemsEnd /\ headBytes = Len(file[headId])
           /\ \A f \in FileIds : f # headId => file'[f] = file[f]
  <1>1. /\ app.pc = "write" /\ st = "open" /\ trn = Idle
        /\ app.blob \in Seq(Byte) /\ Len(app.blob) \in Nat
        /\ app'.pc = "index" /\ app'.blob = app.blob
    BY AppendAtHand, BlobType DEF AppendWrite
  <1>2. headId \in FileIds /\ headId \in Nat /\ file[headId] \in Seq(Byte) /\ Len(file[headId]) \in Nat
    BY NamedFields DEF TypeInv, MemType, DiskType
  <1>3. InStep => headBytes = ItemsEnd /\ headBytes = Len(file[headId])
    BY <1>1 DEF IntactInv, OpenInv
  <1> DEFINE written == file[headId] \o app.blob
             l == Len(file[headId])
  <1>4. /\ written \in Seq(Byte) /\ Len(written) = l + Len(app.blob)
        /\ \A i \in 1..l : written[i] = file[headId][i]
        /\ SubSeq(written, l + 1, l + Len(app.blob)) = app.blob
    <2> DEFINE s == file[headId]
               t == app.blob
    <2>1. ASSUME NEW n \in Nat, n = Len(s)
          PROVE  /\ written \in Seq(Byte) /\ Len(written) = n + Len(t)
                 /\ \A i \in 1..n : written[i] = s[i]
                 /\ SubSeq(written, n + 1, n + Len(t)) = t
      <3>1. s \in Seq(Byte) /\ t \in Seq(Byte) /\ written = s \o t
        BY <1>1, <1>2
      <3> HIDE DEF s, t, written
      <3> QED BY <2>1, <3>1, ConcatIs
    <2> HIDE DEF written
    <2> QED BY <1>2, <2>1, Zenon
  <1>6. file' = [file EXCEPT ![headId] = written] /\ headBytes' = headBytes + Len(app.blob)
    BY DEF AppendWrite
  <1> HIDE DEF written
  <1>7. file'[headId] = written /\ \A f \in FileIds : f # headId => file'[f] = file[f]
    BY <1>2, <1>6 DEF TypeInv, DiskType
  <1> QED BY <1>1, <1>2, <1>3, <1>4, <1>6, <1>7 DEF written

LEMMA AppendWriteKeeps ==
    ASSUME TypeInv, TypeInv', IntactInv, AppendWrite PROVE IntactInv'
  <1>1. /\ UNCHANGED <<idx, torn, dIdx, dFile, synced, skipped, st, headId, opened, trn, items, halfway>>
        /\ st = "open"
    BY DEF AppendWrite, history
  <1>2. DiskInv' /\ \A i \in 1..Len(idx') : Held(i)'
    <2>1. ASSUME NEW f \in FileIds PROVE Len(file[f]) <= Len(file'[f]) /\ dFile'[f] = dFile[f]
      <3>1. Len(file[f]) \in Nat
        BY DEF TypeInv, DiskType
      <3>2. CASE f = headId
        <4>1. Len(file[headId]) <= Len(file'[headId])
          <5>1. /\ Len(file[headId]) \in Nat /\ Len(app.blob) \in Nat
                /\ Len(file'[headId]) = Len(file[headId]) + Len(app.blob)
            BY WriteAtHand, Zenon
          <5>2. \A m, n \in Nat : m <= m + n
            OBVIOUS
          <5> QED BY <5>1, <5>2, Zenon
        <4> QED BY <1>1, <3>2, <4>1
      <3>3. CASE f # headId
        BY <1>1, <3>1, <3>3, WriteAtHand
      <3> QED BY <3>2, <3>3
    <2>2. headId <= headId'
      BY <1>1, WriteAtHand
    <2> QED BY <1>1, <2>1, <2>2, GrowingKeeps
  <1>3. ItemsEnd' = ItemsEnd
    BY <1>1 DEF ItemsEnd
  <1>4. OpenInv'
    BY <1>1, <1>2, <1>3, WriteAtHand DEF IntactInv, OpenInv, InStep
  <1> QED BY <1>2, <1>4 DEF IntactInv

\* A write that fails and is no incident has stored nothing.
LEMMA WriteFailsAtHand ==
    ASSUME TypeInv, AppendWriteFails, incidents' = {}
    PROVE  file' = file
  <1>1. app.pc = "write"
    BY DEF AppendWriteFails
  <1>2. app.blob \in Seq(Byte) /\ Len(app.blob) \in Nat
    BY <1>1, AppendAtHand, BlobType
  <1>3. PICK k \in 0..(Len(app.blob) - 1) :
            /\ file' = [file EXCEPT ![headId] = file[headId] \o SubSeq(app.blob, 1, k)]
            /\ incidents' = incidents \cup IF k > 0 THEN {"short"} ELSE {}
    BY DEF AppendWriteFails
  <1>4. k = 0
    BY <1>2, <1>3
  <1>5. SubSeq(app.blob, 1, k) = <<>>
    BY <1>4, SubSeqEmpty
  <1>6. headId \in FileIds /\ file[headId] \in Seq(Byte)
    BY DEF TypeInv, MemType, DiskType
  <1>7. file[headId] \o SubSeq(app.blob, 1, k) = file[headId]
    BY <1>5, <1>6, ConcatEmptySeq
  <1> QED BY <1>3, <1>6, <1>7 DEF TypeInv, DiskType

LEMMA AppendWriteFailsKeeps ==
    ASSUME TypeInv, TypeInv', IntactInv, AppendWriteFails, incidents' = {} PROVE IntactInv'
  <1>1. /\ UNCHANGED <<idx, torn, dIdx, synced, skipped, dFile, headId, headBytes, opened, st, trn,
                       items, halfway>>
        /\ st = "open" /\ app.pc = "write" /\ app' = Idle /\ app'.pc # "index"
    BY DEF AppendWriteFails, mem, Idle
  <1>2. file' = file
    BY WriteFailsAtHand
  <1>3. DiskInv' /\ \A i \in 1..Len(idx') : Held(i)'
    BY <1>1, <1>2, GrowingKeeps, NamedFields DEF TypeInv, MemType, DiskType
  <1>4. OpenInv'
    BY <1>1, <1>2, <1>3 DEF IntactInv, OpenInv, ItemsEnd, InStep
  <1> QED BY <1>3, <1>4 DEF IntactInv

\* The entry that ends the item just written.
LEMMA IndexAtHand ==
    ASSUME TypeInv, IntactInv, AppendIndex, incidents' = {}
    PROVE  /\ ~torn /\ InStep
           /\ Len(idx) \in 1..Len(idx) /\ Len(idx) = items + 1 /\ items \in Nat /\ headId \in FileIds
           /\ Len(idx') = Len(idx) + 1 /\ \A i \in 1..Len(idx) : idx'[i] = idx[i]
           /\ idx'[Len(idx) + 1].filenum = headId /\ idx'[Len(idx) + 1].offset = headBytes
           /\ headBytes = Len(file[headId]) /\ headBytes = ItemsEnd + Len(app.blob) /\ ItemsEnd \in Nat
           /\ app.blob \in Blobs /\ Len(app.blob) \in Nat
           /\ SubSeq(file[headId], ItemsEnd + 1, headBytes) = app.blob
  <1>1. app.pc = "index" /\ st = "open"
    BY DEF AppendIndex
  <1>2. trn = Idle /\ items \in Nat /\ app.blob \in Blobs /\ Len(app.blob) \in Nat
    BY <1>1, AppendAtHand, BlobType
  <1>9. ~torn /\ InStep
    BY DEF AppendIndex, InStep
  <1>3. Len(idx) \in 1..Len(idx) /\ Len(idx) = items + 1 /\ ItemsEnd \in Nat
    BY <1>1, <1>9, EndAtHand DEF InStep
  <1> DEFINE entry == [filenum |-> headId, offset |-> headBytes]
  <1>4. entry \in Entry /\ idx \in Seq(Entry) /\ headId \in FileIds
    BY DEF TypeInv, MemType, DiskType, Entry
  <1>5. idx' = Append(idx, entry)
    BY <1>9 DEF AppendIndex
  <1>6. entry.filenum = headId /\ entry.offset = headBytes
    OBVIOUS
  <1> HIDE DEF entry
  <1>7. /\ Len(idx') = Len(idx) + 1 /\ \A i \in 1..Len(idx) : idx'[i] = idx[i]
        /\ idx'[Len(idx) + 1] = entry
    BY <1>4, <1>5, AppendProperties
  <1>8. /\ headBytes = Len(file[headId]) /\ headBytes = ItemsEnd + Len(app.blob)
        /\ SubSeq(file[headId], ItemsEnd + 1, headBytes) = app.blob
    BY <1>1, <1>2, <1>9 DEF IntactInv, OpenInv
  <1> QED BY <1>2, <1>3, <1>4, <1>6, <1>7, <1>8, <1>9

LEMMA AppendIndexKeeps ==
    ASSUME TypeInv, TypeInv', IntactInv, AppendIndex, incidents' = {} PROVE IntactInv'
  <1>1. /\ UNCHANGED <<torn, file, dIdx, dFile, st, headId, headBytes, opened, trn, synced, skipped, halfway>>
        /\ st = "open" /\ app' = Idle /\ app'.pc # "index" /\ items' = items + 1
    BY DEF AppendIndex, Idle
  <1>2. PICK new \in Nat : /\ new = Len(idx) + 1 /\ Len(idx) \in Nat /\ Len(idx) >= 1
                             /\ Len(idx') = new /\ new > 1
    BY IndexAtHand
  <1>3. ASSUME NEW i \in 1..Len(idx'), i # new
        PROVE  /\ i \in 1..Len(idx) /\ idx'[i] = idx[i] /\ Held(i) /\ Held(i)'
               /\ idx[i].filenum <= headId /\ idx[i].filenum \in Nat
               /\ idx[i].offset <= headBytes \/ idx[i].filenum # headId
    <2>1. i \in 1..Len(idx) /\ idx'[i] = idx[i]
      BY <1>2, <1>3, IndexAtHand
    <2>2. Held(i) /\ idx[i].filenum <= headId /\ idx[i].filenum \in Nat
      BY <1>1, <2>1, EntryAt DEF IntactInv, DiskInv, OpenInv
    <2>3. Held(i)'
      BY <1>1, <2>1, <2>2 DEF Held
    <2>4. idx[i].offset <= headBytes \/ idx[i].filenum # headId
      BY <2>2, IndexAtHand DEF Held
    <2> QED BY <2>1, <2>2, <2>3, <2>4
  <1>4. idx'[new].filenum = headId /\ idx'[new].offset = headBytes /\ Held(new)' /\ headId \in Nat /\ headBytes \in Nat
    <2>1. headId \in Nat /\ headBytes \in Nat
      BY NamedFields DEF TypeInv, MemType
    <2>2. idx'[new].filenum = headId /\ idx'[new].offset = headBytes /\ headBytes = Len(file[headId])
      BY <1>2, IndexAtHand
    <2>3. Held(new)' <=> idx'[new].offset <= Len(file'[idx'[new].filenum])
      BY DEF Held
    <2> QED BY <1>1, <2>1, <2>2, <2>3
  <1>5. ASSUME NEW i \in 1..Len(idx') PROVE Held(i)' /\ idx'[i].filenum <= headId
    <2>1. CASE i = new
      BY <1>4, <2>1 DEF Held
    <2>2. CASE i # new
      BY <1>3, <2>2
    <2> QED BY <2>1, <2>2
  <1>6. \A i, j \in 1..Len(idx') : i <= j =>
             /\ idx'[i].filenum <= idx'[j].filenum
             /\ idx'[i].filenum = idx'[j].filenum => idx'[i].offset <= idx'[j].offset
    <2> SUFFICES ASSUME NEW i \in 1..Len(idx'), NEW j \in 1..Len(idx'), i <= j
                 PROVE  /\ idx'[i].filenum <= idx'[j].filenum
                        /\ idx'[i].filenum = idx'[j].filenum => idx'[i].offset <= idx'[j].offset
      OBVIOUS
    <2>1. CASE j # new
      <3>1. i # new
        BY <1>2, <2>1
      <3> QED BY <1>3, <2>1, <3>1 DEF IntactInv, DiskInv
    <2>2. CASE j = new /\ i # new
      BY <1>3, <1>4, <2>2
    <2>3. CASE i = new /\ j = new
      BY <1>4, <2>3
    <2> QED BY <2>1, <2>2, <2>3
  <1>7. synced + 1 <= Len(idx) /\ synced \in Nat
    <2>1. synced \in Nat /\ dIdx \in Nat /\ dIdx <= Len(idx)
      BY DEF TypeInv, HistoryType, DiskType
    <2> QED BY <1>2, <2>1 DEF IntactInv, DiskInv
  <1>8. \A i \in 1..Len(idx') : i <= synced + 1 =>
             idx'[i].filenum \in skipped \/ idx'[i].offset <= dFile[idx'[i].filenum]
    <2> SUFFICES ASSUME NEW i \in 1..Len(idx'), i <= synced + 1
                 PROVE  idx'[i].filenum \in skipped \/ idx'[i].offset <= dFile[idx'[i].filenum]
      OBVIOUS
    <2>1. i # new
      BY <1>2, <1>7
    <2> QED BY <1>3, <2>1 DEF IntactInv, DiskInv
  <1>9. idx' # <<>> /\ idx'[1] = Zero
    <2>1. 1 # new /\ 1 \in 1..Len(idx')
      BY <1>2
    <2>2. idx'[1] = idx[1] /\ idx # <<>>
      BY <1>1, <1>3, <2>1 DEF IntactInv, OpenInv
    <2>3. Len(idx') > 0
      BY <1>2
    <2>4. idx' \in Seq(Entry)
      BY DEF TypeInv, DiskType
    <2>5. idx' # <<>>
      BY <2>3, <2>4
    <2> QED BY <2>2, <2>5 DEF IntactInv, DiskInv
  <1>10. DiskInv'
    BY <1>1, <1>5, <1>6, <1>8, <1>9 DEF IntactInv, DiskInv
  <1>11. ItemsEnd' = headBytes' /\ Len(file'[headId']) = headBytes'
    BY <1>1, <1>2, <1>4, IndexAtHand DEF ItemsEnd
  <1>12. ~torn' /\ InStep' /\ Len(idx') <= items' + 1
    <2>1. ~torn /\ Len(idx) = items + 1 /\ Len(idx') = Len(idx) + 1 /\ items \in Nat
      BY IndexAtHand
    <2> QED BY <1>1, <2>1 DEF InStep
  <1>13. OpenInv'
    BY <1>1, <1>5, <1>9, <1>11, <1>12 DEF IntactInv, OpenInv
  <1> QED BY <1>10, <1>13 DEF IntactInv

\* An index write that fails, and does not complete an entry, leaves the
\* index behind the counters.
LEMMA IndexFailsAtHand ==
    ASSUME TypeInv, IntactInv, AppendIndexFails, incidents' = {}
    PROVE  /\ UNCHANGED <<idx, file, dIdx, dFile, st, headId, headBytes, opened, trn, synced, skipped>>
           /\ st = "open" /\ app' = Idle /\ app'.pc # "index" /\ halfway'
           /\ Len(idx) <= items' + 1 /\ ~InStep' /\ idx # <<>> /\ trn = Idle
  <1>1. /\ UNCHANGED <<idx, file, dIdx, dFile, st, headId, headBytes, opened, trn, synced, skipped>>
        /\ st = "open" /\ app' = Idle /\ app'.pc # "index" /\ halfway' /\ items' = items + 1
    BY DEF AppendIndexFails, Idle
  <1>2. items \in Nat /\ Len(idx) \in Nat /\ trn = Idle
    BY AppendAtHand DEF AppendIndexFails, TypeInv, DiskType
  <1>3. Len(idx) <= items + 1 /\ idx # <<>>
    BY <1>1 DEF IntactInv, OpenInv
  <1> QED BY <1>1, <1>2, <1>3 DEF InStep

LEMMA AppendIndexFailsKeeps ==
    ASSUME TypeInv, TypeInv', IntactInv, AppendIndexFails, incidents' = {} PROVE IntactInv'
  <1>1. DiskInv'
    BY IndexFailsAtHand DEF IntactInv, DiskInv, Held
  <1>2. \A i \in 1..Len(idx') : Held(i)'
    BY IndexFailsAtHand DEF IntactInv, OpenInv, Held
  <1>3. OpenInv'
    BY <1>2, IndexFailsAtHand DEF IntactInv, OpenInv
  <1> QED BY <1>1, <1>3 DEF IntactInv

\* A cut of an open table leaves a prefix of its entries.
LEMMA TruncateAtHand ==
    ASSUME TypeInv, IntactInv, truncate, incidents' = {}
    PROVE  \E n \in 0..MaxItems :
               /\ trn' # Idle /\ n \in Nat /\ n + 1 <= Len(idx) /\ Len(idx) \in Nat /\ n + 1 <= items + 1
               /\ Len(idx') = n + 1 /\ idx' # <<>> /\ \A i \in 1..(n + 1) : idx'[i] = idx[i]
               /\ synced' = (IF synced < n THEN synced ELSE n) /\ synced \in Nat
               /\ dIdx' = (IF dIdx <= n + 1 THEN dIdx ELSE n + 1) /\ dIdx \in Nat
  <1>1. PICK n \in 0..MaxItems :
               /\ trn' # Idle
               /\ idx' \in Seq(Entry) /\ Len(idx') = n + 1
               /\ \A i \in 1..(n + 1) : IF i <= Len(idx) THEN idx'[i] = idx[i] ELSE idx'[i] \in Misread
               /\ synced' = IF synced <= n THEN synced ELSE n
               /\ dIdx' = IF dIdx <= n + 1 THEN dIdx ELSE n + 1
               /\ items # -1 => n < items
               /\ incidents' = incidents \cup IF n + 1 > Len(idx) THEN {"extended"} ELSE {}
    BY truncateAtHand
  <1>2. synced \in Nat /\ dIdx \in Nat /\ idx \in Seq(Entry) /\ Len(idx) \in Nat /\ n \in Nat
    BY TableAssumption DEF TypeInv, HistoryType, DiskType
  <1>3. idx # <<>> /\ Len(idx) <= items + 1
    BY DEF truncate, IntactInv, OpenInv
  <1>4. items \in Int
    BY DEF TypeInv, MemType
  <1>5. Len(idx) # 0
    BY <1>2, <1>3
  <1>6. n + 1 <= items + 1
    <2>1. items # -1
      BY <1>2, <1>3, <1>4, <1>5
    <2>2. n < items
      BY <1>1, <2>1
    <2> QED BY <1>2, <1>4, <2>2
  <1>7. n + 1 <= Len(idx)
    <2>1. ~(n + 1 > Len(idx))
      BY <1>1
    <2> QED BY <1>2, <2>1
  <1>8. \A i \in 1..(n + 1) : idx'[i] = idx[i]
    BY <1>1, <1>2, <1>7
  <1>9. idx' # <<>>
    BY <1>1, <1>2
  <1>10. synced' = IF synced < n THEN synced ELSE n
    BY <1>1, <1>2
  <1> QED BY <1>1, <1>2, <1>6, <1>7, <1>8, <1>9, <1>10

LEMMA truncateKeeps ==
    ASSUME TypeInv, TypeInv', IntactInv, truncate, incidents' = {} PROVE IntactInv'
  <1>1. UNCHANGED <<file, dFile, st, items, headId, headBytes, opened, app, skipped, halfway>> /\ st = "open" /\ ~torn'
    BY DEF truncate, mem
  <1>2. PICK n \in 0..MaxItems :
               /\ trn' # Idle /\ n \in Nat /\ n + 1 <= Len(idx) /\ Len(idx) \in Nat /\ n + 1 <= items + 1
               /\ Len(idx') = n + 1 /\ idx' # <<>> /\ \A i \in 1..(n + 1) : idx'[i] = idx[i]
               /\ synced' = (IF synced < n THEN synced ELSE n) /\ synced \in Nat
               /\ dIdx' = (IF dIdx <= n + 1 THEN dIdx ELSE n + 1) /\ dIdx \in Nat
    BY TruncateAtHand
  <1>3. ASSUME NEW i \in 1..Len(idx')
        PROVE  /\ i \in 1..Len(idx) /\ idx'[i] = idx[i] /\ Held(i) /\ Held(i)'
               /\ i <= synced' + 1 => i <= synced + 1
    <2>1. i \in 1..Len(idx) /\ idx'[i] = idx[i]
      BY <1>2
    <2>2. Held(i)
      BY <1>1, <2>1 DEF IntactInv, OpenInv
    <2>3. i <= synced' + 1 => i <= synced + 1
      BY <1>2
    <2> QED BY <1>1, <2>1, <2>2, <2>3 DEF Held
  <1>4. synced' > 0 => synced' < dIdx'
    BY <1>2 DEF IntactInv, DiskInv
  <1>5. idx'[1] = Zero
    <2>1. 1 \in 1..(n + 1) /\ idx # <<>>
      BY <1>1, <1>2 DEF IntactInv, OpenInv
    <2> QED BY <1>2, <2>1 DEF IntactInv, DiskInv
  <1>6. \A i \in 1..Len(idx') : i <= synced' + 1 =>
             /\ Held(i)'
             /\ idx'[i].filenum \in skipped' \/ idx'[i].offset <= dFile'[idx'[i].filenum]
    BY <1>1, <1>3 DEF IntactInv, DiskInv
  <1>7. \A i \in 1..Len(idx') : idx'[i].filenum <= headId' /\ Held(i)'
    BY <1>1, <1>3 DEF IntactInv, DiskInv
  <1>8. \A i, j \in 1..Len(idx') : i <= j =>
             /\ idx'[i].filenum <= idx'[j].filenum
             /\ idx'[i].filenum = idx'[j].filenum => idx'[i].offset <= idx'[j].offset
    BY <1>3 DEF IntactInv, DiskInv
  <1>9. DiskInv'
    BY <1>1, <1>2, <1>4, <1>5, <1>6, <1>7, <1>8 DEF DiskInv
  <1>10. OpenInv'
    BY <1>1, <1>2, <1>7 DEF IntactInv, OpenInv
  <1> QED BY <1>9, <1>10 DEF IntactInv

\* A cut file is at least as long as the entries say.
LEMMA truncateFileAtHand ==
    ASSUME TypeInv, TypeInv', IntactInv, truncateFile
    PROVE  /\ Len(idx) \in 1..Len(idx) /\ headId' = idx[Len(idx)].filenum /\ headBytes' = idx[Len(idx)].offset
           /\ headId' \in Nat /\ headBytes' \in Nat /\ headId' <= headId /\ headId \in Nat
           /\ opened' \subseteq 0..headId' /\ (~halfway' => opened' = 0..headId') /\ InStep'
           /\ Len(file'[headId']) = headBytes' /\ headBytes' <= Len(file[headId'])
           /\ \A i \in 1..headBytes' : file'[headId'][i] = file[headId'][i]
           /\ \A f \in FileIds : f < headId' => file'[f] = file[f] /\ dFile'[f] = dFile[f]
           /\ dFile'[headId'] = IF dFile[headId'] <= headBytes' THEN dFile[headId'] ELSE headBytes'
  <1> DEFINE expected == Last(idx)
  <1>1. st = "open" /\ trn # Idle
    BY DEF truncateFile, Idle
  <1>2. idx # <<>> /\ idx \in Seq(Entry) /\ Len(idx) \in 1..Len(idx) /\ opened \subseteq 0..headId
        /\ (~halfway => opened = 0..headId)
    BY <1>1 DEF IntactInv, OpenInv, TypeInv, DiskType
  <1>3. expected = idx[Len(idx)]
    BY <1>2 DEF Last
  <1>4. /\ expected.filenum \in FileIds /\ expected.filenum \in Nat /\ expected.offset \in Nat
        /\ expected.filenum <= headId /\ expected.offset <= Len(file[expected.filenum])
    BY <1>1, <1>2, <1>3, EntryAt DEF IntactInv, DiskInv, OpenInv, Held
  <1>5. headId' = expected.filenum /\ headBytes' = expected.offset /\ opened' = Released(expected.filenum)
    BY DEF truncateFile
  <1>6. \A f \in FileIds : file'[f] = IF f = expected.filenum THEN Resize(file[f], expected.offset, 0)
                    ELSE IF f \in opened \ opened' THEN <<>> ELSE file[f]
    BY DEF truncateFile
  <1>7. \A f \in FileIds : dFile'[f] = Min({dFile[f], Len(file'[f])})
    BY DEF truncateFile
  <1>8. headId \in Nat
    BY NamedFields DEF TypeInv, MemType
  <1> HIDE DEF expected
  <1>9. /\ opened' \subseteq 0..headId' /\ (~halfway' => opened' = 0..headId')
        /\ \A f \in opened \ opened' : f > headId'
    <2>1. /\ opened' \subseteq 0..headId' /\ (opened = 0..headId => opened' = 0..headId')
          /\ \A f \in opened \ opened' : f > headId'
      <3>1. CASE headId' = headId
        <4>1. opened' = opened
          BY <1>5, <3>1 DEF Released
        <4> QED BY <1>2, <3>1, <4>1
      <3>2. CASE headId' # headId
        <4>1. opened' = {g \in opened : g <= headId'} \cup {headId'}
          BY <1>5, <3>2 DEF Released
        <4>2. headId' \in 0..headId /\ headId' \in Nat
          BY <1>4, <1>5, <1>8
        <4>3. \A g \in opened : g \in 0..headId /\ (g <= headId' <=> g \in 0..headId')
          BY <1>2, <1>8, <4>2
        <4>4. \A g \in 0..headId' : g \in 0..headId
          BY <1>8, <4>2
        <4>5. \A g \in 0..headId : g > headId' \/ g <= headId'
          BY <1>8, <4>2
        <4>6. headId' \in 0..headId'
          BY <4>2
        <4> HIDE DEF expected
        <4> QED BY <4>1, <4>3, <4>4, <4>5, <4>6, Zenon
      <3> QED BY <3>1, <3>2
    <2>2. halfway' = (halfway /\ opened' # 0..headId')
      BY DEF truncateFile
    <2> QED BY <1>2, <2>1, <2>2, Zenon
  <1>10. /\ Len(file'[headId']) = headBytes'
         /\ \A i \in 1..headBytes' : file'[headId'][i] = file[headId'][i]
    <2> DEFINE s == file[expected.filenum]
               n == expected.offset
    <2>1. s \in Seq(Byte) /\ n \in Nat /\ n <= Len(s) /\ 0 \in Byte
      BY <1>4 DEF TypeInv, DiskType, Byte
    <2>2. file'[headId'] = Resize(s, n, 0) /\ headBytes' = n /\ file[headId'] = s
      BY <1>4, <1>5, <1>6
    <2> HIDE DEF s, n
    <2>3. Len(s) \in Nat
      BY <2>1
    <2>4. Len(Resize(s, n, 0)) = n /\ \A i \in 1..n : Resize(s, n, 0)[i] = IF i <= Len(s) THEN s[i] ELSE 0
      BY <2>1 DEF Resize
    <2>5. \A i \in 1..n : Resize(s, n, 0)[i] = s[i]
      BY <2>1, <2>3, <2>4
    <2> QED BY <2>2, <2>4, <2>5
  <1>11. \A f \in FileIds : f < headId' => file'[f] = file[f]
    <2> SUFFICES ASSUME NEW f \in FileIds, f < headId' PROVE file'[f] = file[f]
      OBVIOUS
    <2>1. f \in Nat /\ f # expected.filenum /\ ~(f > headId')
      BY <1>4, <1>5, NamedFields
    <2>2. f \notin opened \ opened'
      BY <1>9, <2>1
    <2> QED BY <1>6, <2>1, <2>2, Zenon
  <1>12. \A f \in FileIds : dFile'[f] = IF dFile[f] <= Len(file'[f]) THEN dFile[f] ELSE Len(file'[f])
    <2> SUFFICES ASSUME NEW f \in FileIds
                 PROVE  dFile'[f] = IF dFile[f] <= Len(file'[f]) THEN dFile[f] ELSE Len(file'[f])
      OBVIOUS
    <2>1. dFile[f] \in Nat /\ Len(file'[f]) \in Nat
      BY DEF TypeInv, DiskType
    <2>2. dFile'[f] = Min({dFile[f], Len(file'[f])})
      BY <1>7
    <2> QED BY <2>1, <2>2, MinOfPair
  <1>13. \A f \in FileIds : f < headId' => dFile'[f] = dFile[f]
    BY <1>11, <1>12 DEF TypeInv, DiskType
  <1>14. dFile'[headId'] = IF dFile[headId'] <= headBytes' THEN dFile[headId'] ELSE headBytes'
    BY <1>4, <1>5, <1>10, <1>12
  <1>15. headBytes' <= Len(file[headId']) /\ headId' <= headId /\ headId' \in Nat /\ headBytes' \in Nat
    BY <1>4, <1>5
  <1>16. InStep'
    <2>1. Len(idx) = trn.n + 1 /\ idx' = idx /\ items' = trn.n
      BY <1>1 DEF truncateFile, TypeInv, ControlInv
    <2> QED BY <2>1 DEF InStep
  <1> QED BY <1>2, <1>3, <1>5, <1>8, <1>9, <1>10, <1>11, <1>13, <1>14, <1>15, <1>16

LEMMA truncateFileKeeps ==
    ASSUME TypeInv, TypeInv', IntactInv, truncateFile PROVE IntactInv'
  <1>1. UNCHANGED <<idx, torn, dIdx, st, app, synced, skipped>> /\ st = "open" /\ trn # Idle
    BY DEF truncateFile, Idle
  <1>2. idx # <<>> /\ app.pc # "index"
    BY <1>1 DEF IntactInv, OpenInv, TypeInv, ControlInv
  <1>3. ASSUME NEW i \in 1..Len(idx)
        PROVE  /\ idx[i].filenum <= headId' /\ Held(i)'
               /\ idx[i].offset <= dFile[idx[i].filenum] => idx[i].offset <= dFile'[idx[i].filenum]
    <2>1. /\ idx[i].filenum <= idx[Len(idx)].filenum
          /\ idx[i].filenum = idx[Len(idx)].filenum => idx[i].offset <= idx[Len(idx)].offset
      BY truncateFileAtHand DEF IntactInv, DiskInv
    <2>2. Held(i)
      BY <1>1 DEF IntactInv, OpenInv
    <2>3. idx[i].filenum \in FileIds /\ idx[i].filenum \in Nat /\ idx[i].offset \in Nat
          /\ dFile[idx[i].filenum] \in Nat
      BY EntryAt
    <2>4. CASE idx[i].filenum = headId'
      BY <1>1, <2>1, <2>3, <2>4, truncateFileAtHand DEF Held
    <2>5. CASE idx[i].filenum < headId'
      BY <1>1, <2>2, <2>3, <2>5, truncateFileAtHand DEF Held
    <2>6. idx[i].filenum <= headId'
      BY <2>1, truncateFileAtHand
    <2> QED BY <2>3, <2>4, <2>5, <2>6, truncateFileAtHand
  <1>4. DiskInv'
    BY <1>1, <1>2, <1>3 DEF IntactInv, DiskInv
  <1>5. Len(file'[headId']) = headBytes' /\ ItemsEnd' = headBytes'
    BY <1>1, truncateFileAtHand DEF ItemsEnd
  <1>6. ~torn' /\ Len(idx') <= items' + 1
    <2>1. Len(idx) \in Nat /\ Len(idx') = items' + 1
      BY <1>1, truncateFileAtHand DEF InStep, TypeInv, DiskType
    <2> QED BY <1>1, <2>1 DEF IntactInv, OpenInv
  <1>7. OpenInv'
    BY <1>1, <1>2, <1>3, <1>5, <1>6, truncateFileAtHand DEF OpenInv
  <1> QED BY <1>4, <1>7 DEF IntactInv
\* A truncation that fails has at most removed files no entry is in.
LEMMA FailsAtHand ==
    ASSUME TypeInv, IntactInv, truncateFails
    PROVE  /\ UNCHANGED <<idx, torn, dIdx, st, items, app, synced, skipped>> /\ st = "open"
           /\ app.pc # "index" /\ idx # <<>> /\ halfway' /\ ~torn /\ ~InStep /\ Len(idx) <= items + 1
           /\ headId' \in FileIds /\ headId' \in Nat /\ opened' \subseteq 0..headId'
           /\ \A i \in 1..Len(idx) : idx[i].filenum <= headId'
           /\ \A f \in FileIds : f <= headId' => file'[f] = file[f] /\ dFile'[f] = dFile[f]
  <1> DEFINE expected == Last(idx)
  <1>1. /\ UNCHANGED <<idx, torn, dIdx, st, items, app, synced, skipped>> /\ st = "open"
        /\ trn # Idle /\ halfway'
    BY DEF truncateFails, Idle
  <1>2. /\ idx # <<>> /\ idx \in Seq(Entry) /\ Len(idx) \in 1..Len(idx) /\ opened \subseteq 0..headId
        /\ ~torn /\ Len(idx) <= items + 1
    BY <1>1 DEF IntactInv, OpenInv, TypeInv, DiskType
  <1>3. app.pc # "index" /\ ~InStep
    <2>1. Len(idx) = trn.n + 1 /\ app.pc # "index" /\ (items = -1 \/ trn.n < items)
      BY <1>1 DEF TypeInv, ControlInv
    <2>2. trn.n \in Nat /\ items \in Int
      BY <1>1, TableAssumption DEF TypeInv, ControlInv, MemType, Truncates
    <2> QED BY <2>1, <2>2 DEF InStep
  <1>4. expected = idx[Len(idx)]
    BY <1>2 DEF Last
  <1>5. /\ expected.filenum \in FileIds /\ expected.filenum \in Nat /\ headId \in FileIds /\ headId \in Nat
        /\ \A i \in 1..Len(idx) : idx[i].filenum <= expected.filenum /\ idx[i].filenum <= headId
    <2>1. headId \in FileIds /\ headId \in Nat
      BY NamedFields DEF TypeInv, MemType
    <2>2. \A i \in 1..Len(idx) : i <= Len(idx)
      BY <1>2
    <2> QED BY <1>2, <1>4, <2>1, <2>2, EntryAt DEF IntactInv, DiskInv
  <1> HIDE DEF expected
  <1>6. CASE UNCHANGED <<file, dFile, headId>> /\ opened' \subseteq opened
    BY <1>1, <1>2, <1>3, <1>5, <1>6
  <1>7. CASE /\ opened' = Released(expected.filenum) /\ headId' = expected.filenum /\ expected.filenum # headId
             /\ file' = [f \in FileIds |-> IF f \in opened \ opened' THEN <<>> ELSE file[f]]
             /\ dFile' = [f \in FileIds |-> Min({dFile[f], Len(file'[f])})]
    <2>1. opened' = {g \in opened : g <= headId'} \cup {headId'}
      BY <1>7 DEF Released
    <2>2. opened' \subseteq 0..headId'
      <3>1. headId' \in Nat /\ headId \in Nat /\ headId' \in 0..headId'
        BY <1>5, <1>7
      <3>2. \A g \in 0..headId : g <= headId' => g \in 0..headId'
        BY <3>1
      <3>3. \A g \in opened : g <= headId' => g \in 0..headId'
        BY <1>2, <3>2, Zenon
      <3> QED BY <2>1, <3>1, <3>3, Zenon
    <2>3. ASSUME NEW f \in FileIds, f <= headId' PROVE file'[f] = file[f] /\ dFile'[f] = dFile[f]
      <3>1. f \notin opened \ opened'
        BY <2>1, <2>3
      <3>2. file'[f] = file[f]
        BY <1>7, <3>1
      <3>3. dFile[f] \in Nat /\ Len(file[f]) \in Nat /\ dFile[f] <= Len(file[f])
        BY DEF TypeInv, DiskType
      <3>4. dFile'[f] = Min({dFile[f], Len(file[f])})
        BY <1>7, <3>2
      <3> QED BY <3>2, <3>3, <3>4, MinOfPair
    <2> QED BY <1>1, <1>2, <1>3, <1>5, <1>7, <2>2, <2>3
  <1>8. \/ UNCHANGED <<file, dFile, headId>> /\ opened' \subseteq opened
        \/ /\ opened' = Released(expected.filenum) /\ headId' = expected.filenum /\ expected.filenum # headId
           /\ file' = [f \in FileIds |-> IF f \in opened \ opened' THEN <<>> ELSE file[f]]
           /\ dFile' = [f \in FileIds |-> Min({dFile[f], Len(file'[f])})]
    BY DEF truncateFails, expected
  <1> QED BY <1>6, <1>7, <1>8

LEMMA truncateFailsKeeps ==
    ASSUME TypeInv, TypeInv', IntactInv, truncateFails PROVE IntactInv'
  <1>1. ASSUME NEW i \in 1..Len(idx)
        PROVE  /\ Held(i)' /\ Held(i) /\ idx[i].filenum <= headId'
               /\ dFile'[idx[i].filenum] = dFile[idx[i].filenum]
    <2>1. Held(i) /\ idx[i].filenum \in FileIds
      BY FailsAtHand, EntryAt DEF IntactInv, OpenInv
    <2> QED BY <2>1, FailsAtHand DEF Held
  <1>2. DiskInv'
    BY <1>1, FailsAtHand DEF IntactInv, DiskInv
  <1>3. OpenInv'
    BY <1>1, FailsAtHand DEF OpenInv, InStep
  <1> QED BY <1>2, <1>3 DEF IntactInv

LEMMA SyncKeeps ==
    ASSUME TypeInv, TypeInv', IntactInv, Sync PROVE IntactInv'
  <1>1. /\ UNCHANGED <<idx, torn, file, st, items, headId, headBytes, opened, app, trn, halfway>>
        /\ st = "open" /\ dIdx' = Len(idx)
    BY DEF Sync, mem, calls
  <1>2. idx # <<>> /\ idx \in Seq(Entry) /\ Len(idx) \in Nat /\ Len(idx) >= 1
    <2>1. idx # <<>> /\ idx \in Seq(Entry)
      BY <1>1 DEF IntactInv, OpenInv, TypeInv, DiskType
    <2> QED BY <2>1, EmptySeq
  <1>3. synced' = Len(idx) - 1
    <2>1. synced' = Max({0, Len(idx) - 1}) /\ Len(idx) - 1 \in Nat
      BY <1>2 DEF Sync
    <2>2. Len(idx) - 1 # -1 /\ Len(idx) - 1 \in {-1} \cup Nat
      BY <1>2
    <2> QED BY <2>1, <2>2, MaxWithZero
  <1>4. ASSUME NEW i \in 1..Len(idx)
        PROVE  Held(i) /\ Held(i)' /\ (idx[i].filenum \in skipped' \/ idx[i].offset <= dFile'[idx[i].filenum])
    <2>1. Held(i) /\ idx[i].filenum \in FileIds /\ idx[i].offset \in Nat
      BY <1>1, EntryAt DEF IntactInv, OpenInv
    <2>2. dFile'[idx[i].filenum] \in Nat /\ Len(file[idx[i].filenum]) \in Nat
      BY <1>1, <2>1 DEF TypeInv, DiskType
    <2>3. skipped' = {f \in FileIds : dFile'[f] < Len(file[f])}
      BY DEF Sync
    <2> QED BY <1>1, <2>1, <2>2, <2>3 DEF Held
  <1>5. DiskInv'
    BY <1>1, <1>2, <1>3, <1>4 DEF IntactInv, DiskInv
  <1>6. OpenInv'
    BY <1>1, <1>4 DEF IntactInv, OpenInv, ItemsEnd, InStep
  <1> QED BY <1>5, <1>6 DEF IntactInv

LEMMA CloseKeeps ==
    ASSUME TypeInv, TypeInv', IntactInv, Close PROVE IntactInv'
  <1>1. UNCHANGED <<idx, torn, file, dIdx, dFile, headId, synced, skipped>> /\ st' = "closed"
    BY DEF Close, disk
  <1>2. DiskInv'
    BY <1>1 DEF IntactInv, DiskInv, Held
  <1> QED BY <1>1, <1>2 DEF IntactInv, OpenInv

LEMMA ProcessCrashKeeps ==
    ASSUME TypeInv, TypeInv', IntactInv, ProcessCrash PROVE IntactInv'
  <1>1. UNCHANGED <<idx, torn, file, dIdx, dFile, headId, synced, skipped>> /\ st' = "closed"
    BY DEF ProcessCrash, Die, disk
  <1>2. DiskInv'
    BY <1>1 DEF IntactInv, DiskInv, Held
  <1> QED BY <1>1, <1>2 DEF IntactInv, OpenInv

\* What a power loss that is no incident has spared.
LEMMA LossAtHand ==
    ASSUME TypeInv, IntactInv, PowerLoss, incidents' = {}
    PROVE  \E n \in Nat :
               /\ dIdx <= n /\ n <= Len(idx) /\ Len(idx') = n /\ \A i \in 1..n : idx'[i] = idx[i]
               /\ torn' => idx' # <<>>
               /\ idx' \in Seq(Entry)
               /\ \A f \in FileIds :
                      /\ dFile[f] <= Len(file'[f]) /\ Len(file'[f]) <= Len(file[f])
                      /\ f \in skipped \/ f < headId => Len(file'[f]) = Len(file[f])
                      /\ \A i \in 1..Len(file'[f]) : file'[f][i] = file[f][i]
  <1>1. PICK n \in dIdx..Len(idx), cut \in [FileIds -> Nat] :
               /\ n \in Nat
               /\ \A f \in FileIds : dFile[f] <= cut[f] /\ cut[f] <= Len(file[f])
               /\ idx' = SubSeq(idx, 1, n) /\ idx' \in Seq(Entry) /\ Len(idx') = n
               /\ \A i \in 1..n : idx'[i] = idx[i]
               /\ torn' \in IF n < Len(idx) \/ torn THEN BOOLEAN ELSE {FALSE}
               /\ file' = [f \in FileIds |-> SubSeq(file[f], 1, cut[f])]
               /\ file' \in [FileIds -> Seq(Byte)]
               /\ \A f \in FileIds : Len(file'[f]) = cut[f]
               /\ \A f \in FileIds : \A i \in 1..cut[f] : file'[f][i] = file[f][i]
               /\ incidents' = incidents
                    \cup IF \E f \in skipped \cup 0..(headId - 1) : cut[f] < Len(file[f])
                         THEN {"rolled"} ELSE {}
                    \cup IF idx' = <<>> /\ torn' THEN {"header"} ELSE {}
    BY PowerLossAtHand, Zenon
  <1>2. ~\E f \in skipped \cup 0..(headId - 1) : cut[f] < Len(file[f])
    BY <1>1
  <1>3. ~(idx' = <<>> /\ torn')
    BY <1>1
  <1>4. dIdx \in Nat /\ Len(idx) \in Nat /\ headId \in Nat
    BY NamedFields DEF TypeInv, DiskType, MemType
  <1>5. dIdx <= n /\ n <= Len(idx)
    BY <1>1, <1>4
  <1>6. ASSUME NEW f \in FileIds
        PROVE  /\ dFile[f] <= Len(file'[f]) /\ Len(file'[f]) <= Len(file[f])
               /\ f \in skipped \/ f < headId => Len(file'[f]) = Len(file[f])
               /\ \A i \in 1..Len(file'[f]) : file'[f][i] = file[f][i]
    <2>1. cut[f] \in Nat /\ Len(file[f]) \in Nat /\ cut[f] <= Len(file[f]) /\ f \in Nat
      BY <1>1, NamedFields DEF TypeInv, DiskType
    <2>2. Len(file'[f]) = cut[f] /\ dFile[f] <= cut[f]
      BY <1>1
    <2>3. f \in skipped \/ f < headId => cut[f] = Len(file[f])
      BY <1>2, <1>4, <2>1
    <2> QED BY <1>1, <2>1, <2>2, <2>3
  <1> QED BY <1>1, <1>3, <1>5, <1>6, Zenon

LEMMA PowerLossKeeps ==
    ASSUME TypeInv, TypeInv', IntactInv, PowerLoss, incidents' = {} PROVE IntactInv'
  <1>1. UNCHANGED <<dIdx, dFile, headId, synced, skipped>> /\ st' = "closed"
    BY DEF PowerLoss, Die
  <1>2. PICK n \in Nat :
               /\ dIdx <= n /\ n <= Len(idx) /\ Len(idx') = n /\ \A i \in 1..n : idx'[i] = idx[i]
               /\ torn' => idx' # <<>>
               /\ \A f \in FileIds :
                      /\ dFile[f] <= Len(file'[f]) /\ Len(file'[f]) <= Len(file[f])
                      /\ f \in skipped \/ f < headId => Len(file'[f]) = Len(file[f])
    BY LossAtHand, Zenon
  <1>3. Len(idx) \in Nat /\ dIdx \in Nat
    BY DEF TypeInv, DiskType
  <1>4. ASSUME NEW i \in 1..Len(idx')
        PROVE  /\ i \in 1..Len(idx) /\ idx'[i] = idx[i]
               /\ idx[i].filenum \in skipped \/ idx[i].filenum < headId => (Held(i)' <=> Held(i))
               /\ idx[i].offset <= dFile[idx[i].filenum] => Held(i)'
    <2>1. i \in 1..Len(idx) /\ idx'[i] = idx[i]
      BY <1>2, <1>3
    <2>2. idx[i].filenum \in FileIds /\ idx[i].offset \in Nat /\ dFile[idx[i].filenum] \in Nat
      BY <2>1, EntryAt
    <2>3. Len(file'[idx[i].filenum]) \in Nat
      BY <2>2 DEF TypeInv, DiskType
    <2>4. /\ dFile[idx[i].filenum] <= Len(file'[idx[i].filenum])
          /\ idx[i].filenum \in skipped \/ idx[i].filenum < headId =>
                 Len(file'[idx[i].filenum]) = Len(file[idx[i].filenum])
      BY <1>2, <2>2
    <2> QED BY <2>1, <2>2, <2>3, <2>4 DEF Held
  <1>5. \A i \in 1..Len(idx') : i <= synced + 1 =>
             /\ Held(i)'
             /\ idx'[i].filenum \in skipped \/ idx'[i].offset <= dFile[idx'[i].filenum]
    BY <1>4 DEF IntactInv, DiskInv
  <1>6. \A i \in 1..Len(idx') : idx'[i].filenum <= headId /\ (idx'[i].filenum < headId => Held(i)')
    BY <1>4 DEF IntactInv, DiskInv
  <1>7. \A i, j \in 1..Len(idx') : i <= j =>
             /\ idx'[i].filenum <= idx'[j].filenum
             /\ idx'[i].filenum = idx'[j].filenum => idx'[i].offset <= idx'[j].offset
    BY <1>4 DEF IntactInv, DiskInv
  <1>8. idx' # <<>> => idx'[1] = Zero
    <2> SUFFICES ASSUME idx' # <<>> PROVE idx'[1] = Zero
      OBVIOUS
    <2>1. 1 \in 1..Len(idx')
      BY <1>2, EmptySeq DEF TypeInv, DiskType
    <2>2. 1 \in 1..Len(idx) /\ idx'[1] = idx[1] /\ idx # <<>>
      BY <1>4, <2>1
    <2> QED BY <2>2 DEF IntactInv, DiskInv
  <1>9. DiskInv'
    BY <1>1, <1>2, <1>5, <1>6, <1>7, <1>8 DEF IntactInv, DiskInv
  <1> QED BY <1>1, <1>9 DEF IntactInv, OpenInv

LEMMA UnchangedKeeps == ASSUME IntactInv, UNCHANGED vars PROVE IntactInv'
  BY DEF IntactInv, DiskInv, OpenInv, InStep, Held, ItemsEnd, vars, disk, mem, calls, history

\* Incidents are not taken back.
LEMMA IncidentsStay == ASSUME [Next]_vars, incidents' = {} PROVE incidents = {}
  <1>1. incidents \subseteq incidents'
    BY DEF Next, Repair, vars, history, newCustomTable, repairDanglingHead, repairDanglingIndex,
           repairDone, AppendStart, AppendRoll, AppendRollFails, AppendRelock, AppendWrite,
           AppendWriteFails, AppendIndex, AppendIndexFails, truncate, truncateFile, truncateFails,
           Sync, Close, Die, ProcessCrash, PowerLoss
  <1> QED BY <1>1

LEMMA IntactStep ==
    ASSUME TypeInv, TypeInv', IntactInv, [Next]_vars, incidents' = {} PROVE IntactInv'
  BY newCustomTableKeeps, repairDanglingHeadKeeps, repairDanglingIndexKeeps, repairDoneKeeps,
     AppendStartKeeps, AppendRollKeeps, AppendRollFailsKeeps, AppendRelockKeeps, AppendWriteKeeps,
     AppendWriteFailsKeeps, AppendIndexKeeps, AppendIndexFailsKeeps, truncateKeeps, truncateFileKeeps,
     truncateFailsKeeps, SyncKeeps, CloseKeeps, ProcessCrashKeeps, PowerLossKeeps, UnchangedKeeps, Zenon DEF Next, Repair

TableInv == TypeInv /\ SizeInv /\ (incidents = {} => IntactInv)

LEMMA TableInit == Init => TableInv
  BY TypeInit, SizeInit, IntactInit DEF TableInv

LEMMA TableStep == TableInv /\ [Next]_vars => TableInv'
  <1> SUFFICES ASSUME TableInv, [Next]_vars PROVE TableInv'
    OBVIOUS
  <1>1. TypeInv' /\ SizeInv'
    BY TypeStep, SizeStep DEF TableInv
  <1>2. incidents' = {} => IntactInv'
    BY <1>1, IncidentsStay, IntactStep DEF TableInv
  <1> QED BY <1>1, <1>2 DEF TableInv

LEMMA TableAlways == Spec => []TableInv
  BY TableInit, TableStep, PTL DEF Spec
-----------------------------------------------------------------------------
(* The log in the files *)

Kept == Len(Recoverable)
Count == IF Kept = 0 THEN 0 ELSE Kept - 1
ItemBytes(i) ==
    LET b == getBounds(i - 1) IN SubSeq(file[b.filenum], b.from + 1, b.to)

\* What repair keeps are the entries whose data is there.
LEMMA KeptEntries ==
    TypeInv /\ DiskInv =>
        /\ Kept \in Nat /\ Kept <= Len(idx)
        /\ \A i \in 1..Len(idx) : Held(i) <=> i <= Kept
  <1> SUFFICES ASSUME TypeInv, DiskInv
               PROVE  /\ Kept \in Nat /\ Kept <= Len(idx)
                      /\ \A i \in 1..Len(idx) : Held(i) <=> i <= Kept
    OBVIOUS
  <1>1. idx \in Seq(Entry) /\ Len(idx) \in Nat /\ headId \in Nat
    BY NamedFields DEF TypeInv, DiskType, MemType
  <1> DEFINE kept == {n \in 1..Len(idx) : idx[n].offset <= Len(file[idx[n].filenum])}
             top == IF kept = {} THEN 0 ELSE Max(kept)
  <1>2. Recoverable = SubSeq(idx, 1, top)
    BY DEF Recoverable
  <1>3. \A i \in 1..Len(idx) : i \in kept <=> Held(i)
    BY DEF Held
  <1>4. kept \in SUBSET (1..Len(idx))
    OBVIOUS
  <1> HIDE DEF kept
  <1>5. /\ top \in Nat /\ top <= Len(idx)
        /\ top > 0 => top \in kept
        /\ \A m \in kept : m <= top
    <2>1. CASE kept = {}
      BY <1>1, <2>1
    <2>2. CASE kept # {}
      <3>1. Max(kept) \in kept /\ \A m \in kept : Max(kept) >= m
        BY <1>1, <1>4, <2>2, LastNumber
      <3>2. top = Max(kept) /\ top \in 1..Len(idx)
        BY <1>4, <2>2, <3>1
      <3> QED BY <1>1, <1>4, <3>1, <3>2
    <2> QED BY <2>1, <2>2
  <1> HIDE DEF top
  <1>6. Kept = top
    BY <1>1, <1>2, <1>5, CutIs DEF Kept
  <1>7. ASSUME NEW i \in 1..Len(idx), i <= top PROVE Held(i)
    <2>1. top \in 1..Len(idx) /\ Held(top)
      BY <1>1, <1>3, <1>5, <1>7
    <2>2. /\ idx[i].filenum <= idx[top].filenum
          /\ idx[i].filenum = idx[top].filenum => idx[i].offset <= idx[top].offset
          /\ idx[i].filenum < headId => Held(i)
          /\ idx[top].filenum <= headId
      BY <1>7, <2>1 DEF DiskInv
    <2>3. /\ idx[i].filenum \in Nat /\ idx[i].offset \in Nat /\ idx[top].filenum \in Nat
          /\ idx[top].offset \in Nat /\ Len(file[idx[top].filenum]) \in Nat
      BY <2>1, EntryAt
    <2>4. CASE idx[i].filenum < headId
      BY <2>2, <2>4
    <2>5. CASE idx[i].filenum = idx[top].filenum
      BY <2>1, <2>2, <2>3, <2>5 DEF Held
    <2> QED BY <1>1, <2>2, <2>3, <2>4, <2>5
  <1> QED BY <1>3, <1>5, <1>6, <1>7

\* The items between two entries whose data is there.
LEMMA ItemAt ==
    ASSUME TypeInv, DiskInv, NEW i \in 1..Len(idx), i + 1 \in 1..Len(idx)
    PROVE  LET b == getBounds(i - 1) IN
               /\ b.filenum = idx[i + 1].filenum /\ b.to = idx[i + 1].offset
               /\ b.from = IF idx[i].filenum # idx[i + 1].filenum THEN 0 ELSE idx[i].offset
               /\ b.filenum \in FileIds /\ b.to \in Nat /\ b.from \in Nat /\ b.from <= b.to
               /\ file[b.filenum] \in Seq(Byte)
  <1> DEFINE b == getBounds(i - 1)
  <1>1. (i - 1) + 1 = i /\ (i - 1) + 2 = i + 1 /\ i <= i + 1
    OBVIOUS
  <1>2. /\ b.filenum = idx[i + 1].filenum /\ b.to = idx[i + 1].offset
        /\ b.from = IF idx[i].filenum # idx[i + 1].filenum THEN 0 ELSE idx[i].offset
    BY <1>1 DEF getBounds
  <1>3. /\ idx[i].offset \in Nat /\ idx[i + 1].filenum \in FileIds /\ idx[i + 1].offset \in Nat
    BY EntryAt
  <1>4. idx[i].filenum = idx[i + 1].filenum => idx[i].offset <= idx[i + 1].offset
    BY <1>1 DEF DiskInv
  <1> HIDE DEF b
  <1>5. b.filenum \in FileIds /\ b.to \in Nat /\ b.from \in Nat /\ b.from <= b.to
    BY <1>2, <1>3, <1>4
  <1>6. file[b.filenum] \in Seq(Byte)
    BY <1>5 DEF TypeInv, DiskType
  <1> QED BY <1>2, <1>5, <1>6 DEF b

LEMMA StoredItems ==
    TypeInv /\ DiskInv =>
        /\ Stored \in Seq(Seq(Byte)) /\ Len(Stored) = Count /\ Count \in Nat
        /\ \A i \in 1..Count : Stored[i] = ItemBytes(i)
  <1> SUFFICES ASSUME TypeInv, DiskInv
               PROVE  /\ Stored \in Seq(Seq(Byte)) /\ Len(Stored) = Count /\ Count \in Nat
                      /\ \A i \in 1..Count : Stored[i] = ItemBytes(i)
    OBVIOUS
  <1>1. Kept \in Nat /\ Kept <= Len(idx) /\ Len(idx) \in Nat
    BY KeptEntries DEF TypeInv, DiskType
  <1>2. Count \in Nat /\ 1..(Kept - 1) = 1..Count
    BY <1>1 DEF Count
  <1> DEFINE it(i) == LET b == getBounds(i - 1)
                      IN  IF b.to > Len(file[b.filenum]) THEN <<>>
                          ELSE SubSeq(file[b.filenum], b.from + 1, b.to)
  <1>3. Stored = [i \in 1..Count |-> it(i)]
    BY <1>2, Zenon DEF Stored, Kept
  <1>4. ASSUME NEW i \in 1..Count
        PROVE  it(i) = ItemBytes(i) /\ it(i) \in Seq(Byte)
    <2> DEFINE b == getBounds(i - 1)
    <2>1. i \in 1..Len(idx) /\ i + 1 \in 1..Len(idx) /\ i + 1 <= Kept
      BY <1>1, <1>2
    <2>2. /\ b.filenum = idx[i + 1].filenum /\ b.to = idx[i + 1].offset
          /\ b.to \in Nat /\ b.from \in Nat /\ b.from <= b.to /\ file[b.filenum] \in Seq(Byte)
      BY <2>1, ItemAt
    <2>3. b.to <= Len(file[b.filenum]) /\ Len(file[b.filenum]) \in Nat
      BY <2>1, <2>2, KeptEntries DEF Held
    <2>4. it(i) = SubSeq(file[b.filenum], b.from + 1, b.to)
      <3>1. ~(b.to > Len(file[b.filenum]))
        BY <2>2, <2>3
      <3> QED BY <3>1, Zenon
    <2>5. \A k \in (b.from + 1)..b.to : file[b.filenum][k] \in Byte
      BY <2>2, <2>3, ElementOfSeq
    <2>6. SubSeq(file[b.filenum], b.from + 1, b.to) \in Seq(Byte)
      BY <2>2, <2>5, SubSeqProperties
    <2>7. ItemBytes(i) = SubSeq(file[b.filenum], b.from + 1, b.to)
      BY DEF ItemBytes
    <2> QED BY <2>4, <2>6, <2>7
  <1> HIDE DEF it
  <1>5. Stored \in Seq(Seq(Byte)) /\ Len(Stored) = Count
    BY <1>2, <1>3, <1>4
  <1>6. \A i \in 1..Count : Stored[i] = ItemBytes(i)
    BY <1>3, <1>4
  <1> QED BY <1>2, <1>5, <1>6
LEMMA SameBytes ==
    ASSUME NEW S, NEW s \in Seq(S), NEW t \in Seq(S), NEW m \in Nat, NEW n \in Nat, m >= 1,
           n <= Len(s), n <= Len(t), \A i \in 1..n : s[i] = t[i]
    PROVE  SubSeq(s, m, n) = SubSeq(t, m, n)
  <1>1. /\ \A i \in m..n : s[i] \in S /\ t[i] \in S /\ s[i] = t[i]
        /\ \A i \in 1..(n - m + 1) : m + i - 1 \in m..n
    OBVIOUS
  <1> DEFINE ss == SubSeq(s, m, n)
             tt == SubSeq(t, m, n)
  <1>2. /\ ss \in Seq(S) /\ Len(ss) = IF m <= n THEN n - m + 1 ELSE 0
        /\ \A i \in 1..(n - m + 1) : ss[i] = s[m + i - 1]
    BY <1>1, SubSeqProperties
  <1>3. /\ tt \in Seq(S) /\ Len(tt) = IF m <= n THEN n - m + 1 ELSE 0
        /\ \A i \in 1..(n - m + 1) : tt[i] = t[m + i - 1]
    BY <1>1, SubSeqProperties
  <1> HIDE DEF ss, tt
  <1>4. \A i \in 1..Len(ss) : ss[i] = tt[i]
    BY <1>1, <1>2, <1>3
  <1>5. ss = tt
    BY <1>2, <1>3, <1>4, SeqEqual
  <1> QED BY <1>5 DEF ss, tt

\* An entry whose data is there after a step, and was there before it.
Stays(i) ==
    /\ i \in 1..Len(idx) /\ idx'[i] = idx[i] /\ Held(i)
    /\ \A k \in 1..idx[i].offset : file'[idx[i].filenum][k] = file[idx[i].filenum][k]

LEMMA SameItem ==
    ASSUME TypeInv, TypeInv', IntactInv, IntactInv', NEW i \in 1..Len(idx'), i + 1 \in 1..Len(idx'),
           Stays(i), Stays(i + 1), Held(i + 1)'
    PROVE  ItemBytes(i)' = ItemBytes(i)
  <1> DEFINE b == getBounds(i - 1)
  <1>1. i \in 1..Len(idx) /\ i + 1 \in 1..Len(idx) /\ idx'[i] = idx[i] /\ idx'[i + 1] = idx[i + 1]
    BY DEF Stays
  <1>2. /\ b.filenum = idx[i + 1].filenum /\ b.to = idx[i + 1].offset
        /\ b.from = IF idx[i].filenum # idx[i + 1].filenum THEN 0 ELSE idx[i].offset
        /\ b.filenum \in FileIds /\ b.to \in Nat /\ b.from \in Nat
        /\ file[b.filenum] \in Seq(Byte)
    BY <1>1, ItemAt DEF IntactInv
  <1>3. b' = b
    BY <1>1 DEF getBounds
  <1>4. file'[b.filenum] \in Seq(Byte) /\ Len(file'[b.filenum]) \in Nat /\ Len(file[b.filenum]) \in Nat
    BY <1>2 DEF TypeInv, DiskType
  <1>5. b.to <= Len(file[b.filenum]) /\ b.to <= Len(file'[b.filenum])
    BY <1>1, <1>2 DEF Stays, Held
  <1>6. \A k \in 1..b.to : file'[b.filenum][k] = file[b.filenum][k]
    BY <1>2 DEF Stays
  <1>7. ItemBytes(i) = SubSeq(file[b.filenum], b.from + 1, b.to)
    BY DEF ItemBytes
  <1>8. ItemBytes(i)' = SubSeq(file'[b.filenum], b.from + 1, b.to)
    BY <1>3 DEF ItemBytes
  <1> HIDE DEF b
  <1>9. b.from + 1 \in Nat /\ b.from + 1 >= 1
    BY <1>2
  <1>10. SubSeq(file'[b.filenum], b.from + 1, b.to) = SubSeq(file[b.filenum], b.from + 1, b.to)
    <2> DEFINE s == file'[b.filenum]
               t == file[b.filenum]
               m == b.from + 1
               n == b.to
    <2>1. /\ s \in Seq(Byte) /\ t \in Seq(Byte) /\ m \in Nat /\ n \in Nat /\ m >= 1
          /\ n <= Len(s) /\ n <= Len(t) /\ \A k \in 1..n : s[k] = t[k]
      BY <1>2, <1>4, <1>5, <1>6, <1>9
    <2> HIDE DEF s, t, m, n
    <2>2. SubSeq(s, m, n) = SubSeq(t, m, n)
      BY <2>1, SameBytes
    <2> QED BY <2>2 DEF s, t, m, n
  <1> QED BY <1>7, <1>8, <1>10

\* A step after which the entries with data are entries that had it.
LEMMA PrefixLog ==
    ASSUME TypeInv, TypeInv', IntactInv, IntactInv',
           \A i \in 1..Len(idx') : Held(i)' => Stays(i)
    PROVE  /\ Len(Stored) \in Nat /\ Len(Stored') \in Nat /\ Len(Stored') <= Len(Stored)
           /\ Stored' = SubSeq(Stored, 1, Len(Stored'))
           /\ Kept \in Nat /\ Kept' \in Nat /\ Kept' <= Kept
           /\ Kept <= Kept' => Stored' = Stored
  <1>1. /\ Kept \in Nat /\ Kept <= Len(idx)
        /\ \A i \in 1..Len(idx) : Held(i) <=> i <= Kept
    BY KeptEntries DEF IntactInv
  <1>2. /\ Kept' \in Nat /\ Kept' <= Len(idx')
        /\ \A i \in 1..Len(idx') : Held(i)' <=> i <= Kept'
    <2>1. (TypeInv /\ DiskInv)' => (/\ Kept \in Nat /\ Kept <= Len(idx)
                                    /\ \A i \in 1..Len(idx) : Held(i) <=> i <= Kept)'
      BY KeptEntries, PTL
    <2> QED BY <2>1 DEF IntactInv
  <1>3. /\ Stored \in Seq(Seq(Byte)) /\ Len(Stored) = Count /\ Count \in Nat
        /\ \A i \in 1..Count : Stored[i] = ItemBytes(i)
    BY StoredItems DEF IntactInv
  <1>4. /\ Stored' \in Seq(Seq(Byte)) /\ Len(Stored') = Count' /\ Count' \in Nat
        /\ \A i \in 1..Count' : Stored'[i] = ItemBytes(i)'
    <2>1. (TypeInv /\ DiskInv)' => (/\ Stored \in Seq(Seq(Byte)) /\ Len(Stored) = Count /\ Count \in Nat
                                    /\ \A i \in 1..Count : Stored[i] = ItemBytes(i))'
      BY StoredItems, PTL
    <2> QED BY <2>1 DEF IntactInv
  <1>5. Len(idx) \in Nat /\ Len(idx') \in Nat
    BY DEF TypeInv, DiskType
  <1>6. Kept' <= Kept
    <2>1. CASE Kept' = 0
      BY <1>1, <2>1
    <2>2. CASE Kept' > 0
      <3>1. Kept' \in 1..Len(idx')
        BY <1>2, <1>5, <2>2
      <3>2. \A k \in 1..Len(idx') : k = Kept' => k \in 1..Len(idx) /\ Held(k)
        BY <1>2 DEF Stays
      <3>3. \A k \in 1..Len(idx') : k = Kept' => k <= Kept
        BY <1>1, <3>2
      <3> QED BY <3>1, <3>3
    <2> QED BY <1>2, <2>1, <2>2
  <1> DEFINE k0 == Kept
             k1 == Kept'
  <1>11. /\ k0 \in Nat /\ k1 \in Nat /\ k1 <= k0 /\ Count = IF k0 = 0 THEN 0 ELSE k0 - 1
         /\ Count' = IF k1 = 0 THEN 0 ELSE k1 - 1
    BY <1>1, <1>2, <1>6 DEF Count
  <1> HIDE DEF k0, k1
  <1>7. Count' <= Count
    BY <1>11
  <1>8. \A i \in 1..Count' : Stored'[i] = Stored[i]
    <2> SUFFICES ASSUME NEW i \in 1..Count' PROVE Stored'[i] = Stored[i]
      OBVIOUS
    <2>1. i \in 1..Len(idx') /\ i + 1 \in 1..Len(idx') /\ i + 1 <= Kept' /\ i <= Kept'
      <3>1. k1 <= Len(idx')
        BY <1>2 DEF k1
      <3>2. i \in 1..Len(idx') /\ i + 1 \in 1..Len(idx') /\ i + 1 <= k1 /\ i <= k1
        BY <1>5, <1>11, <3>1
      <3> QED BY <3>2 DEF k1
    <2>2. Held(i)' /\ \A k \in 1..Len(idx') : k = i + 1 => Held(k)'
      BY <1>2, <2>1
    <2>3. ItemBytes(i)' = ItemBytes(i)
      <3>1. \A k \in 1..Len(idx') : k = i + 1 => Stays(k)
        BY <2>2
      <3>2. Stays(i) /\ Stays(i + 1) /\ Held(i + 1)'
        BY <2>1, <2>2, <3>1
      <3> QED BY <2>1, <3>2, SameItem
    <2>4. i \in 1..Count
      BY <1>3, <1>4, <1>7
    <2> QED BY <1>3, <1>4, <2>3, <2>4
  <1> DEFINE log == Stored
             cut == Count'
  <1>9. SubSeq(log, 1, cut) = log'
    <2>1. /\ SubSeq(log, 1, cut) \in Seq(Seq(Byte)) /\ Len(SubSeq(log, 1, cut)) = cut
          /\ \A i \in 1..cut : SubSeq(log, 1, cut)[i] = log[i]
      BY <1>3, <1>4, <1>7, CutIs
    <2> QED BY <1>4, <1>8, <2>1, SeqEqual
  <1>10. Kept <= Kept' => Stored' = Stored
    <2> SUFFICES ASSUME Kept <= Kept' PROVE Stored' = Stored
      OBVIOUS
    <2>1. Count' = Count
      <3>1. k0 <= k1
        BY DEF k0, k1
      <3> QED BY <1>11, <3>1
    <2> QED BY <1>3, <1>9, <2>1, SubSeqFull
  <1> QED BY <1>1, <1>2, <1>3, <1>4, <1>6, <1>7, <1>9, <1>10
\* A step that leaves the data of every entry it finds, and adds none.
LEMMA SameLog ==
    ASSUME TypeInv, TypeInv', IntactInv, IntactInv',
           \A i \in 1..Len(idx') : Held(i)' => Stays(i),
           \A i \in 1..Len(idx) : Held(i) => i \in 1..Len(idx') /\ Held(i)'
    PROVE  Stored' = Stored
  <1>1. /\ Kept \in Nat /\ Kept <= Len(idx) /\ Len(idx) \in Nat
        /\ \A i \in 1..Len(idx) : Held(i) <=> i <= Kept
    BY KeptEntries DEF IntactInv, TypeInv, DiskType
  <1>2. \A i \in 1..Len(idx') : Held(i)' <=> i <= Kept'
    <2>1. (TypeInv /\ DiskInv)' => (\A i \in 1..Len(idx) : Held(i) <=> i <= Kept)'
      BY KeptEntries, PTL
    <2> QED BY <2>1 DEF IntactInv
  <1>3. Kept' \in Nat /\ (Kept <= Kept' => Stored' = Stored)
    BY PrefixLog
  <1>4. Kept <= Kept'
    <2>1. CASE Kept = 0
      BY <1>3, <2>1
    <2>2. CASE Kept > 0
      <3>1. PICK k \in 1..Len(idx) : k = Kept
        BY <1>1, <2>2
      <3>2. k \in 1..Len(idx') /\ Held(k)'
        BY <1>1, <3>1
      <3>3. k <= Kept'
        BY <1>2, <3>2
      <3> QED BY <3>1, <3>3
    <2> QED BY <1>1, <2>1, <2>2
  <1> QED BY <1>3, <1>4

LEMMA SameFilesLog ==
    ASSUME TypeInv, TypeInv', IntactInv, IntactInv', idx' = idx, file' = file
    PROVE  Stored' = Stored
  <1>1. \A i \in 1..Len(idx) : Held(i)' <=> Held(i)
    BY DEF Held
  <1>2. \A i \in 1..Len(idx') : Held(i)' => Stays(i)
    BY <1>1 DEF Stays
  <1> QED BY <1>1, <1>2, SameLog

LEMMA newCustomTableLog ==
    ASSUME TypeInv, TypeInv', IntactInv, IntactInv', newCustomTable PROVE Stored' = Stored
  <1>1. file' = file
    BY DEF newCustomTable
  <1>2. CASE idx = <<>>
    <2>1. idx' = <<Zero>> /\ Len(idx') = 1 /\ Len(idx) = 0
      BY <1>2 DEF newCustomTable, IntactInv, DiskInv, TypeInv, DiskType
    <2>2. /\ Kept \in Nat /\ Kept <= Len(idx)
      BY KeptEntries DEF IntactInv
    <2>3. Kept' \in Nat /\ Kept' <= Len(idx')
      <3>1. (TypeInv /\ DiskInv)' => (Kept \in Nat /\ Kept <= Len(idx))'
        BY KeptEntries, PTL
      <3> QED BY <3>1 DEF IntactInv
    <2>4. Stored \in Seq(Seq(Byte)) /\ Len(Stored) = Count
      BY StoredItems DEF IntactInv
    <2>5. Stored' \in Seq(Seq(Byte)) /\ Len(Stored') = Count'
      <3>1. (TypeInv /\ DiskInv)' => (Stored \in Seq(Seq(Byte)) /\ Len(Stored) = Count)'
        BY StoredItems, PTL
      <3> QED BY <3>1 DEF IntactInv
    <2>6. Count = 0
      BY <2>1, <2>2 DEF Count
    <2>7. Count' = 0
      BY <2>1, <2>3 DEF Count
    <2>8. Stored = <<>>
      BY <2>4, <2>6, EmptySeq
    <2>9. Stored' = <<>>
      BY <2>5, <2>7, EmptySeq
    <2> QED BY <2>8, <2>9
  <1>3. CASE idx # <<>>
    <2>1. idx' = idx
      BY <1>3 DEF newCustomTable
    <2> QED BY <1>1, <2>1, SameFilesLog
  <1> QED BY <1>2, <1>3

LEMMA repairDanglingHeadLog ==
    ASSUME TypeInv, TypeInv', IntactInv, IntactInv', repairDanglingHead PROVE Stored' = Stored
  <1> DEFINE last == Last1(idx)
  <1>1. idx' = idx /\ st = "repair"
    BY DEF repairDanglingHead
  <1>2. idx # <<>> /\ idx \in Seq(Entry) /\ Len(idx) \in 1..Len(idx)
    BY <1>1 DEF IntactInv, OpenInv, TypeInv, DiskType
  <1>3. last.filenum \in FileIds /\ last.offset \in Nat /\ last.offset < Len(file[last.filenum])
    BY <1>2, LastOfOrdered DEF repairDanglingHead, IntactInv
  <1>4. /\ Len(file'[last.filenum]) = last.offset
        /\ \A k \in 1..last.offset : file'[last.filenum][k] = file[last.filenum][k]
    BY <1>3, CutIs DEF repairDanglingHead, TypeInv, DiskType
  <1>5. \A f \in FileIds : f # last.filenum => file'[f] = file[f]
    BY <1>3 DEF repairDanglingHead, TypeInv, DiskType
  <1>6. ASSUME NEW i \in 1..Len(idx)
        PROVE  (Held(i)' <=> Held(i)) /\ (Held(i) => Stays(i))
    <2>1. idx[i].filenum \in FileIds /\ idx[i].offset \in Nat /\ last.filenum = Last1(idx).filenum
      BY EntryAt
    <2>2. idx[i].filenum = last.filenum => idx[i].offset <= last.offset
      BY LastOfOrdered DEF IntactInv
    <2>3. CASE idx[i].filenum = last.filenum
      <3>1. Held(i) /\ Held(i)'
        BY <1>1, <1>3, <1>4, <2>1, <2>2, <2>3 DEF Held
      <3>2. \A k \in 1..idx[i].offset : file'[idx[i].filenum][k] = file[idx[i].filenum][k]
        BY <1>3, <1>4, <2>1, <2>2, <2>3
      <3> QED BY <1>1, <3>1, <3>2 DEF Stays
    <2>4. CASE idx[i].filenum # last.filenum
      BY <1>1, <1>5, <2>1, <2>4 DEF Held, Stays
    <2> QED BY <2>3, <2>4
  <1> QED BY <1>1, <1>6, SameLog

LEMMA repairDanglingIndexLog ==
    ASSUME TypeInv, TypeInv', IntactInv, IntactInv', repairDanglingIndex PROVE Stored' = Stored
  <1>1. file' = file /\ st = "repair"
    BY DEF repairDanglingIndex
  <1>2. idx # <<>> /\ idx \in Seq(Entry) /\ Len(idx) \in 1..Len(idx)
    BY <1>1 DEF IntactInv, OpenInv, TypeInv, DiskType
  <1>3. ~Held(Len(idx))
    BY <1>2, LastOfOrdered, EntryAt DEF repairDanglingIndex, IntactInv, Held
  <1>4. Len(idx) \in Nat /\ Len(idx) - 1 \in Nat /\ Len(idx) - 1 <= Len(idx)
    BY <1>2
  <1>5. Len(idx') = Len(idx) - 1 /\ \A i \in 1..(Len(idx) - 1) : idx'[i] = idx[i]
    <2>1. idx' = SubSeq(idx, 1, Len(idx) - 1)
      BY DEF repairDanglingIndex, Front
    <2> QED BY <1>2, <1>4, <2>1, CutIs
  <1>6. \A i \in 1..Len(idx') : i \in 1..Len(idx) /\ idx'[i] = idx[i] /\ (Held(i)' <=> Held(i))
    BY <1>1, <1>4, <1>5 DEF Held
  <1>7. \A i \in 1..Len(idx') : Held(i)' => Stays(i)
    BY <1>1, <1>6 DEF Stays
  <1>8. \A i \in 1..Len(idx) : Held(i) => i \in 1..Len(idx')
    BY <1>3, <1>4, <1>5
  <1> QED BY <1>6, <1>7, <1>8, SameLog

LEMMA AppendRollLog ==
    ASSUME TypeInv, TypeInv', IntactInv, IntactInv', AppendRoll PROVE Stored' = Stored
  <1>1. idx' = idx /\ st = "open"
    BY DEF AppendRoll
  <1>2. ASSUME NEW i \in 1..Len(idx)
        PROVE  Held(i)' /\ Held(i) /\ Stays(i)
    <2>1. idx[i].filenum \in FileIds /\ idx[i].filenum <= headId /\ Held(i)
      BY <1>1, EntryAt DEF IntactInv, DiskInv, OpenInv
    <2>2. file'[idx[i].filenum] = file[idx[i].filenum]
      BY <2>1, RollAtHand
    <2> QED BY <1>1, <2>1, <2>2 DEF Held, Stays
  <1> QED BY <1>1, <1>2, SameLog

LEMMA AppendWriteLog ==
    ASSUME TypeInv, TypeInv', IntactInv, IntactInv', AppendWrite PROVE Stored' = Stored
  <1>1. idx' = idx /\ st = "open" /\ st' = "open"
    BY DEF AppendWrite
  <1>2. ASSUME NEW i \in 1..Len(idx)
        PROVE  Held(i)' /\ Held(i) /\ Stays(i)
    <2>1. Held(i) /\ idx[i].filenum \in FileIds /\ idx[i].offset \in Nat
      BY <1>1, EntryAt DEF IntactInv, OpenInv
    <2>2. Held(i)'
      BY <1>1 DEF IntactInv, OpenInv
    <2>3. CASE idx[i].filenum = headId
      <3>1. Len(file[headId]) \in Nat /\ idx[i].offset <= Len(file[headId])
        BY <2>1, <2>3, WriteAtHand DEF Held
      <3>2. \A k \in 1..idx[i].offset : k \in 1..Len(file[headId])
        BY <2>1, <3>1
      <3>3. \A k \in 1..idx[i].offset : file'[idx[i].filenum][k] = file[idx[i].filenum][k]
        BY <2>3, <3>2, WriteAtHand
      <3> QED BY <1>1, <2>1, <2>2, <3>3 DEF Stays
    <2>4. CASE idx[i].filenum # headId
      BY <1>1, <2>1, <2>2, <2>4, WriteAtHand DEF Stays
    <2> QED BY <2>3, <2>4
  <1> QED BY <1>1, <1>2, SameLog

LEMMA truncateFileLog ==
    ASSUME TypeInv, TypeInv', IntactInv, IntactInv', truncateFile PROVE Stored' = Stored
  <1>1. idx' = idx /\ st = "open" /\ st' = "open"
    BY DEF truncateFile
  <1>2. ASSUME NEW i \in 1..Len(idx)
        PROVE  Held(i)' /\ Held(i) /\ Stays(i)
    <2>1. /\ idx[i].filenum <= idx[Len(idx)].filenum
          /\ idx[i].filenum = idx[Len(idx)].filenum => idx[i].offset <= idx[Len(idx)].offset
      BY truncateFileAtHand DEF IntactInv, DiskInv
    <2>2. Held(i) /\ Held(i)'
      BY <1>1 DEF IntactInv, OpenInv
    <2>3. idx[i].filenum \in FileIds /\ idx[i].filenum \in Nat /\ idx[i].offset \in Nat
      BY EntryAt
    <2>4. CASE idx[i].filenum = headId'
      <3>1. headBytes' \in Nat /\ idx[i].offset <= headBytes'
        BY <2>1, <2>4, truncateFileAtHand
      <3>2. \A k \in 1..idx[i].offset : k \in 1..headBytes'
        BY <2>3, <3>1
      <3>3. \A k \in 1..idx[i].offset : file'[idx[i].filenum][k] = file[idx[i].filenum][k]
        BY <2>4, <3>2, truncateFileAtHand
      <3> QED BY <1>1, <2>2, <3>3 DEF Stays
    <2>5. CASE idx[i].filenum < headId'
      BY <1>1, <2>2, <2>3, <2>5, truncateFileAtHand DEF Stays
    <2>6. idx[i].filenum <= headId' /\ headId' \in Nat
      BY <2>1, truncateFileAtHand
    <2> QED BY <2>3, <2>4, <2>5, <2>6
  <1> QED BY <1>1, <1>2, SameLog
LEMMA truncateFailsLog ==
    ASSUME TypeInv, TypeInv', IntactInv, IntactInv', truncateFails PROVE Stored' = Stored
  <1>1. ASSUME NEW i \in 1..Len(idx)
        PROVE  Held(i)' /\ Held(i) /\ Stays(i)
    <2>1. Held(i) /\ idx[i].filenum \in FileIds
      BY FailsAtHand, EntryAt DEF IntactInv, OpenInv
    <2>2. file'[idx[i].filenum] = file[idx[i].filenum] /\ idx' = idx
      BY <2>1, FailsAtHand
    <2> QED BY <2>1, <2>2 DEF Held, Stays
  <1> QED BY <1>1, FailsAtHand, SameLog

\* An open table keeps every entry it has.
LEMMA OpenLog ==
    TypeInv /\ IntactInv /\ st = "open" =>
        /\ Kept = Len(idx) /\ Len(idx) \in Nat /\ Len(idx) >= 1
        /\ Count = Len(idx) - 1 /\ Len(Stored) = Len(idx) - 1
  <1> SUFFICES ASSUME TypeInv, IntactInv, st = "open"
               PROVE  /\ Kept = Len(idx) /\ Len(idx) \in Nat /\ Len(idx) >= 1
                      /\ Count = Len(idx) - 1 /\ Len(Stored) = Len(idx) - 1
    OBVIOUS
  <1>1. Len(idx) \in 1..Len(idx) /\ Held(Len(idx))
    BY EndAtHand DEF IntactInv, OpenInv
  <1>2. Kept \in Nat /\ Kept <= Len(idx) /\ \A i \in 1..Len(idx) : Held(i) <=> i <= Kept
    BY KeptEntries DEF IntactInv
  <1>3. Kept = Len(idx) /\ Len(idx) \in Nat /\ Len(idx) >= 1
    BY <1>1, <1>2
  <1>4. Count = Len(idx) - 1
    BY <1>3 DEF Count
  <1>5. Len(Stored) = Count
    BY StoredItems DEF IntactInv
  <1> QED BY <1>3, <1>4, <1>5

LEMMA OpenLogAfter ==
    ASSUME TypeInv', IntactInv', st' = "open"
    PROVE  /\ Kept' = Len(idx') /\ Len(idx') \in Nat /\ Len(idx') >= 1
           /\ Count' = Len(idx') - 1 /\ Len(Stored') = Len(idx') - 1
  <1>1. (TypeInv /\ IntactInv /\ st = "open")' =>
            (/\ Kept = Len(idx) /\ Len(idx) \in Nat /\ Len(idx) >= 1
             /\ Count = Len(idx) - 1 /\ Len(Stored) = Len(idx) - 1)'
    BY OpenLog, PTL
  <1> QED BY <1>1

LEMMA truncateLog ==
    ASSUME TypeInv, TypeInv', IntactInv, IntactInv', truncate, incidents' = {}
    PROVE  \E n \in 0..Len(Stored) :
               /\ Stored' = SubSeq(Stored, 1, n)
               /\ synced' = IF synced < n THEN synced ELSE n
  <1>1. file' = file /\ st = "open" /\ st' = "open"
    BY DEF truncate, mem
  <1>2. PICK n \in 0..MaxItems :
               /\ n \in Nat /\ n + 1 <= Len(idx) /\ Len(idx) \in Nat
               /\ Len(idx') = n + 1 /\ \A i \in 1..(n + 1) : idx'[i] = idx[i]
               /\ synced' = IF synced < n THEN synced ELSE n
    BY TruncateAtHand
  <1>3. \A i \in 1..Len(idx') : Stays(i)
    <2>1. \A i \in 1..Len(idx') : i \in 1..Len(idx) /\ idx'[i] = idx[i]
      BY <1>2
    <2> QED BY <1>1, <2>1 DEF IntactInv, OpenInv, Stays
  <1>4. Stored' = SubSeq(Stored, 1, Len(Stored'))
    BY <1>3, PrefixLog
  <1>5. Len(Stored') = n
    BY <1>1, <1>2, OpenLogAfter
  <1>6. n \in 0..Len(Stored)
    BY <1>1, <1>2, OpenLog
  <1>7. Stored' = SubSeq(Stored, 1, n)
    BY <1>4, <1>5, Zenon
  <1> QED BY <1>2, <1>6, <1>7

LEMMA SyncLog ==
    ASSUME TypeInv, TypeInv', IntactInv, IntactInv', Sync
    PROVE  Stored' = Stored /\ synced' = Len(Stored)
  <1>1. idx' = idx /\ file' = file /\ st = "open" /\ synced' = Max({0, Len(idx) - 1})
    BY DEF Sync
  <1>2. Len(idx) \in Nat /\ Len(idx) >= 1 /\ Len(Stored) = Len(idx) - 1
    BY <1>1, OpenLog
  <1>3. Len(idx) - 1 # -1 /\ Len(idx) - 1 \in {-1} \cup Nat
    BY <1>2
  <1>4. synced' = Len(Stored)
    BY <1>1, <1>2, <1>3, MaxWithZero
  <1> QED BY <1>1, <1>4, SameFilesLog

LEMMA PowerLossLog ==
    ASSUME TypeInv, TypeInv', IntactInv, IntactInv', PowerLoss, incidents' = {}
    PROVE  synced' = synced /\ \E n \in synced..Len(Stored) : Stored' = SubSeq(Stored, 1, n)
  <1>1. UNCHANGED <<dIdx, dFile, synced, skipped>>
    BY DEF PowerLoss, Die
  <1>2. PICK n \in Nat :
               /\ dIdx <= n /\ n <= Len(idx) /\ Len(idx') = n /\ \A i \in 1..n : idx'[i] = idx[i]
               /\ \A f \in FileIds :
                      /\ Len(file'[f]) <= Len(file[f])
                      /\ \A i \in 1..Len(file'[f]) : file'[f][i] = file[f][i]
    BY LossAtHand, Zenon
  <1>3. Len(idx) \in Nat /\ dIdx \in Nat /\ synced \in Nat
    BY DEF TypeInv, DiskType, HistoryType
  <1>4. ASSUME NEW i \in 1..Len(idx'), Held(i)' PROVE Stays(i)
    <2>1. i \in 1..Len(idx) /\ idx'[i] = idx[i]
      BY <1>2, <1>3
    <2>2. idx[i].filenum \in FileIds /\ idx[i].offset \in Nat /\ Len(file[idx[i].filenum]) \in Nat
      BY <2>1, EntryAt
    <2>3. Len(file'[idx[i].filenum]) \in Nat /\ idx[i].offset <= Len(file'[idx[i].filenum])
      BY <1>4, <2>1, <2>2 DEF TypeInv, DiskType, Held
    <2>4. /\ Len(file'[idx[i].filenum]) <= Len(file[idx[i].filenum])
          /\ \A k \in 1..Len(file'[idx[i].filenum]) : file'[idx[i].filenum][k] = file[idx[i].filenum][k]
      BY <1>2, <2>2
    <2>5. Held(i)
      BY <2>2, <2>3, <2>4 DEF Held
    <2>6. \A k \in 1..idx[i].offset : k \in 1..Len(file'[idx[i].filenum])
      BY <2>2, <2>3
    <2>7. \A k \in 1..idx[i].offset : file'[idx[i].filenum][k] = file[idx[i].filenum][k]
      BY <2>4, <2>6, Zenon
    <2> QED BY <2>1, <2>5, <2>7 DEF Stays
  <1>5. /\ Len(Stored) \in Nat /\ Len(Stored') \in Nat /\ Len(Stored') <= Len(Stored)
        /\ Stored' = SubSeq(Stored, 1, Len(Stored'))
    BY <1>4, PrefixLog
  <1>6. synced <= Len(Stored')
    <2>1. CASE synced = 0
      BY <1>5, <2>1
    <2>2. CASE synced > 0
      <3>1. synced < dIdx
        BY <2>2 DEF IntactInv, DiskInv
      <3>2. PICK k \in 1..Len(idx') : k = synced + 1
        BY <1>2, <1>3, <3>1
      <3>3. Held(k)'
        BY <1>1, <3>2 DEF IntactInv, DiskInv
      <3>4. /\ Kept' \in Nat /\ \A i \in 1..Len(idx') : Held(i)' <=> i <= Kept'
            /\ Len(Stored') = Count'
        <4>1. (TypeInv /\ DiskInv)' => (Kept \in Nat /\ \A i \in 1..Len(idx) : Held(i) <=> i <= Kept)'
          BY KeptEntries, PTL
        <4>2. (TypeInv /\ DiskInv)' => (Len(Stored) = Count)'
          BY StoredItems, PTL
        <4> QED BY <4>1, <4>2 DEF IntactInv
      <3>5. synced + 1 <= Kept'
        BY <3>2, <3>3, <3>4
      <3>6. Count' = IF Kept' = 0 THEN 0 ELSE Kept' - 1
        BY DEF Count
      <3> DEFINE k1 == Kept'
      <3>7. k1 \in Nat /\ synced + 1 <= k1 /\ Len(Stored') = IF k1 = 0 THEN 0 ELSE k1 - 1
        BY <3>4, <3>5, <3>6
      <3> HIDE DEF k1
      <3> QED BY <1>3, <3>7
    <2> QED BY <1>3, <2>1, <2>2
  <1>7. Len(Stored') \in synced..Len(Stored)
    BY <1>3, <1>5, <1>6
  <1> QED BY <1>1, <1>5, <1>7

LEMMA AppendIndexLog ==
    ASSUME TypeInv, TypeInv', IntactInv, IntactInv', AppendIndex, incidents' = {}
    PROVE  app.blob \in Blobs /\ Stored' = Append(Stored, app.blob)
  <1>1. file' = file /\ headId' = headId /\ headBytes' = headBytes /\ st = "open" /\ st' = "open"
    BY DEF AppendIndex
  <1>2. PICK l \in Nat : /\ l = Len(idx) /\ l >= 1 /\ Len(idx') = l + 1
                         /\ Len(Stored) = l - 1 /\ Count = l - 1 /\ Len(Stored') = l /\ Count' = l
    BY <1>1, OpenLog, OpenLogAfter, IndexAtHand
  <1>3. \A i \in 1..l : idx'[i] = idx[i] /\ Held(i) /\ Stays(i)
    BY <1>1, <1>2, IndexAtHand DEF IntactInv, OpenInv, Stays
  <1>4. \A i \in 1..Len(idx') : Held(i)'
    BY <1>1 DEF IntactInv, OpenInv
  <1>5. Stored \in Seq(Seq(Byte)) /\ \A i \in 1..(l - 1) : Stored[i] = ItemBytes(i)
    BY <1>2, StoredItems DEF IntactInv
  <1>6. Stored' \in Seq(Seq(Byte)) /\ \A i \in 1..l : Stored'[i] = ItemBytes(i)'
    <2>1. (TypeInv /\ DiskInv)' => (/\ Stored \in Seq(Seq(Byte))
                                    /\ \A i \in 1..Count : Stored[i] = ItemBytes(i))'
      BY StoredItems, PTL
    <2> QED BY <1>2, <2>1 DEF IntactInv
  <1>7. app.blob \in Blobs /\ app.blob \in Seq(Byte)
    BY IndexAtHand, BlobType
  <1>8. /\ Append(Stored, app.blob) \in Seq(Seq(Byte)) /\ Len(Append(Stored, app.blob)) = l
        /\ \A i \in 1..(l - 1) : Append(Stored, app.blob)[i] = Stored[i]
        /\ Append(Stored, app.blob)[l] = app.blob
    <2>1. /\ Append(Stored, app.blob) \in Seq(Seq(Byte)) /\ Len(Append(Stored, app.blob)) = Len(Stored) + 1
          /\ \A i \in 1..Len(Stored) : Append(Stored, app.blob)[i] = Stored[i]
          /\ Append(Stored, app.blob)[Len(Stored) + 1] = app.blob
      BY <1>5, <1>7, AppendProperties
    <2>2. Len(Stored) + 1 = l
      BY <1>2
    <2> QED BY <1>2, <2>1, <2>2
  <1>9. ASSUME NEW i \in 1..l PROVE Stored'[i] = Append(Stored, app.blob)[i]
    <2>1. CASE i < l
      <3>1. i \in 1..(l - 1) /\ i \in 1..Len(idx') /\ i + 1 \in 1..Len(idx') /\ i + 1 \in 1..l
        BY <1>2, <2>1
      <3>2. PICK k \in 1..Len(idx') : k = i + 1
        BY <3>1
      <3>3. Stays(i) /\ Stays(i + 1) /\ Held(i + 1)'
        BY <1>3, <1>4, <3>1, <3>2
      <3>4. ItemBytes(i)' = ItemBytes(i)
        BY <3>1, <3>3, SameItem
      <3> QED BY <1>5, <1>6, <1>8, <3>1, <3>4
    <2>2. CASE i = l
      <3>1. idx'[l] = idx[l] /\ idx'[l + 1].filenum = headId /\ idx'[l + 1].offset = headBytes
        BY <1>2, <1>3, IndexAtHand
      <3> DEFINE b == getBounds(l - 1)
      <3>2. (l - 1) + 1 = l /\ (l - 1) + 2 = l + 1
        OBVIOUS
      <3>3. b' = [from |-> IF idx'[l].filenum # idx'[l + 1].filenum THEN 0 ELSE idx'[l].offset,
                  to |-> idx'[l + 1].offset, filenum |-> idx'[l + 1].filenum]
        BY <3>2 DEF getBounds
      <3>4. b'.from = ItemsEnd /\ b'.to = headBytes /\ b'.filenum = headId
        BY <1>2, <3>1, <3>3 DEF ItemsEnd
      <3>5. ItemBytes(l)' = SubSeq(file'[b'.filenum], b'.from + 1, b'.to)
        BY DEF ItemBytes
      <3> HIDE DEF b
      <3>6. ItemBytes(l)' = app.blob
        BY <1>1, <3>4, <3>5, IndexAtHand
      <3> QED BY <1>6, <1>8, <2>2, <3>6
    <2>3. i < l \/ i = l
      OBVIOUS
    <2> QED BY <2>1, <2>2, <2>3, Zenon
  <1>10. Stored' = Append(Stored, app.blob)
    BY <1>2, <1>6, <1>8, <1>9, SeqEqual
  <1> QED BY <1>7, <1>10
LEMMA LogInitially == Init => Log!LogInit
  <1> SUFFICES ASSUME Init PROVE Log!LogInit
    OBVIOUS
  <1>1. TypeInv /\ DiskInv
    BY TypeInit, IntactInit DEF IntactInv
  <1>2. idx = <<>> /\ Len(idx) = 0 /\ synced = 0 /\ incidents = {}
    BY DEF Init
  <1>3. Kept \in Nat /\ Kept <= 0
    BY <1>1, <1>2, KeptEntries
  <1>4. Count = 0
    BY <1>3 DEF Count
  <1>5. Stored \in Seq(Seq(Byte)) /\ Len(Stored) = 0
    BY <1>1, <1>4, StoredItems
  <1>6. Stored = <<>>
    BY <1>5, EmptySeq
  <1> QED BY <1>2, <1>6 DEF Log!LogInit

\* A step with no incident before or after it is a step of the log.
LEMMA LogSteps ==
    ASSUME TypeInv, TypeInv', IntactInv, IntactInv', [Next]_vars, incidents = {}, incidents' = {}
    PROVE  \/ Stored' = Stored /\ synced' = synced
           \/ Log!LogAppend \/ Log!LogTruncate \/ Log!LogLose \/ Log!LogSync
  <1>1. CASE newCustomTable
    BY <1>1, newCustomTableLog DEF newCustomTable, history
  <1>2. CASE repairDanglingHead
    BY <1>2, repairDanglingHeadLog DEF repairDanglingHead, history
  <1>3. CASE repairDanglingIndex
    BY <1>3, repairDanglingIndexLog DEF repairDanglingIndex, history
  <1>4. CASE repairDone
    BY <1>4, SameFilesLog DEF repairDone
  <1>5. CASE AppendStart
    BY <1>5, SameFilesLog DEF AppendStart, disk, history
  <1>6. CASE AppendRoll
    BY <1>6, AppendRollLog DEF AppendRoll
  <1>7. CASE AppendRelock
    BY <1>7, SameFilesLog DEF AppendRelock, disk, history
  <1>8. CASE AppendWrite
    BY <1>8, AppendWriteLog DEF AppendWrite, history
  <1>9. CASE AppendWriteFails
    <2>1. file' = file /\ idx' = idx /\ synced' = synced
      BY <1>9, WriteFailsAtHand DEF AppendWriteFails
    <2> QED BY <2>1, SameFilesLog
  <1>10. CASE AppendIndex
    <2>1. app.blob \in Blobs /\ Stored' = Append(Stored, app.blob)
      BY <1>10, AppendIndexLog
    <2>2. synced' = synced
      BY <1>10 DEF AppendIndex
    <2> QED BY <2>1, <2>2 DEF Log!LogAppend
  <1>11. CASE truncate
    <2>1. PICK n \in 0..Len(Stored) :
              /\ Stored' = SubSeq(Stored, 1, n)
              /\ synced' = IF synced < n THEN synced ELSE n
      BY <1>11, truncateLog
    <2> QED BY <2>1, Zenon DEF Log!LogTruncate
  <1>12. CASE truncateFile
    BY <1>12, truncateFileLog DEF truncateFile
  <1>13. CASE Sync
    BY <1>13, SyncLog DEF Log!LogSync
  <1>14. CASE Close
    BY <1>14, SameFilesLog DEF Close, disk
  <1>15. CASE ProcessCrash
    BY <1>15, SameFilesLog DEF ProcessCrash, Die, disk
  <1>16. CASE PowerLoss
    <2>1. synced' = synced /\ \E n \in synced..Len(Stored) : Stored' = SubSeq(Stored, 1, n)
      BY <1>16, PowerLossLog
    <2> QED BY <2>1, Zenon DEF Log!LogLose
  <1>17. CASE UNCHANGED vars
    BY <1>17, SameFilesLog DEF vars, disk, history
  <1>18. CASE AppendRollFails
    BY <1>18, SameFilesLog DEF AppendRollFails, disk
  <1>19. CASE AppendIndexFails
    BY <1>19, IndexFailsAtHand, SameFilesLog
  <1>20. CASE truncateFails
    BY <1>20, truncateFailsLog DEF truncateFails
  <1> QED BY <1>1, <1>2, <1>3, <1>4, <1>5, <1>6, <1>7, <1>8, <1>9, <1>10, <1>11, <1>12, <1>13, <1>14,
             <1>15, <1>16, <1>17, <1>18, <1>19, <1>20, Zenon DEF Next, Repair

LEMMA LogStep == TableInv /\ TableInv' /\ [Next]_vars => [Log!LogNext]_(Log!LogView)
  <1> SUFFICES ASSUME TableInv, TableInv', [Next]_vars PROVE [Log!LogNext]_(Log!LogView)
    OBVIOUS
  <1>1. CASE incidents # {}
    <2>1. incidents' # {}
      BY <1>1, IncidentsStay
    <2> QED BY <1>1, <2>1 DEF Log!LogView
  <1>2. CASE incidents = {} /\ incidents' # {}
    BY <1>2 DEF Log!LogNext, Log!LogDamage
  <1>3. CASE incidents = {} /\ incidents' = {}
    <2>1. \/ Stored' = Stored /\ synced' = synced
          \/ Log!LogAppend \/ Log!LogTruncate \/ Log!LogLose \/ Log!LogSync
      BY <1>3, LogSteps DEF TableInv
    <2>2. CASE Stored' = Stored /\ synced' = synced
      BY <1>3, <2>2 DEF Log!LogView
    <2> QED BY <1>3, <2>1, <2>2 DEF Log!LogNext
  <1> QED BY <1>1, <1>2, <1>3

(* Whatever is appended, cut, synced, crashed or lost, and whichever call  *)
(* of the system fails on the way, the index and the data files of a table *)
(* are one log of blobs: an item enters it whole, with its entry, no step  *)
(* on its neighbours or on the files changes its bytes, and what was       *)
(* synced outlives a power loss, until an incident the code has no answer  *)
(* to (Append, truncate, Sync and repair of freezer_table.go).             *)
THEOREM TableIsLog == Spec => ImplementsLog
  <1>1. Init /\ [][Next]_vars /\ []TableInv => Log!LogSpec
    BY LogInitially, LogStep, PTL DEF Log!LogSpec
  <1>2. Spec => Init /\ [][Next]_vars
    BY PTL DEF Spec
  <1> QED BY <1>1, <1>2, TableAlways, PTL DEF ImplementsLog
LEMMA ReadBack == TableInv => ItemsExact
  <1> SUFFICES ASSUME TableInv PROVE ItemsExact
    OBVIOUS
  <1>1. TypeInv /\ SizeInv
    BY DEF TableInv
  <1>2. TypeOK
    <2>1. /\ app.pc \in {"idle", "roll", "rolled", "write", "index"}
          /\ trn.pc \in {"idle", "file"}
      BY <1>1 DEF TypeInv, ControlInv, Appends, Truncates, Idle
    <2>2. dIdx \in 0..Len(idx)
      BY <1>1 DEF TypeInv, DiskType
    <2> QED BY <1>1, <2>1, <2>2 DEF TypeOK, TypeInv, DiskType, MemType, HistoryType, Entry, Byte
  <1>3. RetrieveExact
    <2> SUFFICES ASSUME st = "open", trn.pc = "idle", app.pc \in {"idle", "roll", "rolled"}, incidents = {}
                 PROVE  /\ \A i \in 0..(items - 1) :
                               Retrieve(i) # "error" => i < Len(Stored) /\ Retrieve(i) = Stored[i + 1]
                        /\ ~halfway => /\ items = Len(Stored)
                                       /\ \A i \in 0..(items - 1) : Retrieve(i) = Stored[i + 1]
                                       /\ headBytes = Len(file[headId])
      BY DEF RetrieveExact
    <2>1. IntactInv /\ trn = Idle
      BY <1>1 DEF TableInv, TypeInv, ControlInv, Truncates
    <2>2. /\ Kept = Len(idx) /\ Len(idx) \in Nat /\ Len(idx) >= 1
          /\ Count = Len(idx) - 1 /\ Len(Stored) = Len(idx) - 1
      BY <1>1, <2>1, OpenLog
    <2>3. items \in Int /\ Len(idx) <= items + 1
      BY <1>1, <2>1 DEF TypeInv, MemType, IntactInv, OpenInv
    <2>4. ASSUME NEW i \in 0..(items - 1), i + 2 <= Len(idx)
          PROVE  /\ i < Len(Stored)
                 /\ Retrieve(i) = Stored[i + 1] \/ Retrieve(i) = "error"
                 /\ ~halfway => Retrieve(i) = Stored[i + 1]
      <3> DEFINE b == getBounds(i)
      <3>1. i + 1 \in 1..Len(idx) /\ i + 2 \in 1..Len(idx) /\ i + 1 \in 1..Count /\ (i + 1) - 1 = i
        BY <2>2, <2>3, <2>4
      <3>2. /\ b.filenum = idx[i + 2].filenum /\ b.to = idx[i + 2].offset
            /\ b.filenum \in FileIds /\ b.to \in Nat /\ file[b.filenum] \in Seq(Byte)
        <4>1. (i + 1) + 1 = i + 2
          OBVIOUS
        <4> QED BY <1>1, <2>1, <3>1, <4>1, ItemAt DEF IntactInv
      <3>3. Held(i + 2) /\ idx[i + 2].filenum <= headId /\ (~halfway => opened = 0..headId)
        BY <2>1, <3>1 DEF IntactInv, DiskInv, OpenInv
      <3>4. ~(items <= i) /\ ~(i + 2 > Len(idx))
        BY <2>3, <3>1
      <3>5. ~halfway => b.filenum \in opened
        <4>1. idx[i + 2].filenum \in Nat /\ headId \in Nat
          BY <1>1, <3>1, <3>2, NamedFields DEF TypeInv, MemType
        <4>2. ~halfway => idx[i + 2].filenum \in opened
          BY <3>3, <4>1
        <4> QED BY <3>2, <4>2
      <3>6. ~(b.to > Len(file[b.filenum]))
        <4>1. Len(file[b.filenum]) \in Nat
          BY <3>2
        <4> QED BY <3>2, <3>3, <4>1 DEF Held
      <3>7. /\ b.filenum \in opened => Retrieve(i) = SubSeq(file[b.filenum], b.from + 1, b.to)
            /\ b.filenum \notin opened => Retrieve(i) = "error"
        BY <3>4, <3>6, Zenon DEF Retrieve
      <3>8. Stored[i + 1] = ItemBytes(i + 1)
        BY <1>1, <2>1, <3>1, StoredItems DEF IntactInv
      <3>9. ItemBytes(i + 1) = SubSeq(file[b.filenum], b.from + 1, b.to)
        BY <3>1, Zenon DEF ItemBytes
      <3>10. i < Len(Stored)
        BY <2>2, <2>4
      <3> QED BY <3>5, <3>7, <3>8, <3>9, <3>10, Zenon
    <2>5. ASSUME NEW i \in 0..(items - 1), ~(i + 2 <= Len(idx)) PROVE Retrieve(i) = "error"
      <3>1. i + 2 > Len(idx)
        BY <2>2, <2>5
      <3> QED BY <3>1, Zenon DEF Retrieve
    <2>6. \A i \in 0..(items - 1) :
              Retrieve(i) # "error" => i < Len(Stored) /\ Retrieve(i) = Stored[i + 1]
      BY <2>4, <2>5
    <2>7. ASSUME ~halfway
          PROVE  /\ items = Len(Stored)
                 /\ \A i \in 0..(items - 1) : Retrieve(i) = Stored[i + 1]
                 /\ headBytes = Len(file[headId])
      <3>1. Len(idx) = items + 1 /\ headBytes = Len(file[headId])
        BY <2>1, <2>7 DEF IntactInv, OpenInv, InStep
      <3>2. \A i \in 0..(items - 1) : Retrieve(i) = Stored[i + 1]
        BY <2>2, <2>3, <2>4, <2>7, <3>1
      <3> QED BY <2>2, <2>3, <3>1, <3>2
    <2> QED BY <2>6, <2>7
  <1>4. LandsAtItem
    <2>1. headBytes \in Nat /\ misplaced \in BOOLEAN /\ raced \in BOOLEAN
      BY <1>1 DEF TypeInv, MemType, HistoryType
    <2> QED BY <1>1, <2>1, TableAssumption DEF LandsAtItem, SizeInv
  <1> QED BY <1>2, <1>3, <1>4 DEF ItemsExact

(* Between two calls a number below items is read back as the bytes the    *)
(* log has there or, after a call that stopped halfway, as an error; until *)
(* then the counters Append continues from describe the files; and an item *)
(* is stored under the number it was appended with unless the index had    *)
(* fallen behind or a truncation came while Append held no lock (Append,   *)
(* truncate, repair, Retrieve of freezer_table.go).                        *)
THEOREM ItemsRead == Spec => []ItemsExact
  BY TableAlways, ReadBack, PTL
(* Whatever the files looked like, a table comes out of repair with an     *)
(* index and a head file of the same length, also after an incident (the   *)
(* loop of repair, of which the run also checks that it ends).             *)
THEOREM RepairedAligned == Spec => OpensAligned
  <1> DEFINE Aligned == st = "repair" /\ st' = "open" =>
                            /\ headBytes' = Len(file'[headId'])
                            /\ headBytes' = Last1(idx').offset /\ headId' = Last1(idx').filenum
  <1>1. TypeInv /\ [Next]_vars => [Aligned]_vars
    <2> SUFFICES ASSUME TypeInv, Next, st = "repair", st' = "open"
                 PROVE  /\ headBytes' = Len(file'[headId'])
                        /\ headBytes' = Last1(idx').offset /\ headId' = Last1(idx').filenum
      OBVIOUS
    <2>1. repairDone
      BY DEF Next, Repair, newCustomTable, repairDanglingHead, repairDanglingIndex,
             AppendStart, AppendRoll, AppendRollFails, AppendRelock, AppendWrite, AppendWriteFails,
             AppendIndex, AppendIndexFails, truncate, truncateFile, truncateFails, Sync, Close, Die,
             ProcessCrash, PowerLoss, mem
    <2> QED BY <2>1 DEF repairDone
  <1> QED BY <1>1, TypesCorrect, PTL DEF Spec, OpensAligned
=============================================================================
