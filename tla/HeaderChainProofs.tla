------------------------- MODULE HeaderChainProofs -------------------------
(***************************************************************************)
(* Proofs about HeaderChain, for every header tree.                        *)
(*                                                                         *)
(* The inductive invariant IInv adds to the invariants of HeaderChain what *)
(* relates the two copies of the head (memory and marker), what a rewind   *)
(* has batched, and what WriteHeader leaves for WriteMarkers.              *)
(***************************************************************************)
EXTENDS HeaderChain, ChainTreeProofs

\* The marker on disk and both copies of the head in memory agree.
MarkerIsHead ==
    ~torn => headMarker = currentHeader /\ currentHeaderHash = currentHeader

\* A rewind has batched headers above the head only.
BatchAboveHead ==
    /\ pc # "rewind" => batch = {}
    /\ ~torn => \A h \in batch : Number[h] > Number[currentHeader]

\* The canonical index, with what a running rewind still has to delete.
IndexIsHeadChain ==
    ~torn =>
        \A n \in Numbers :
            /\ n <= Number[currentHeader] => canonical[n] = Ancestor[currentHeader][n]
            /\ n > Number[currentHeader] /\ canonical[n] # NoHash =>
                    \E h \in batch : Number[h] = n

\* The insertion in flight stands in its chain, and a header that is about
\* to become the head is stored and at least as heavy.
InsertionInChain ==
    /\ pc \in {"insert", "marker"} => first \in 1..next /\ next <= Number[tip] + 1
    /\ pc = "marker" => /\ next <= Number[tip]
                        /\ Current \in headers
                        /\ currentHeaderHash \in headers
                        /\ td[Current] >= localTd

IInv ==
    /\ TypeOK
    /\ MarkerIsHead
    /\ BatchAboveHead
    /\ IndexIsHeadChain
    /\ HeadIsRooted
    /\ InsertionInChain
    /\ NoHeavierHeaderSkipped

-----------------------------------------------------------------------------

\* The fresh header chain satisfies the invariant.
LEMMA InitIInv == Init => IInv
  <1> SUFFICES ASSUME Init PROVE IInv
    OBVIOUS
  <1> USE DEF Init
  <1>0. /\ Genesis \in Header /\ MaxNumber \in Nat /\ Number[Genesis] = 0
        /\ Difficulty[Genesis] \in Nat
        /\ Ancestor[Genesis][0] = Genesis
    BY HeaderTree, GenesisIsRoot
  <1>1. TypeOK
    <2>1. td \in [Header -> Nat]
      BY <1>0
    <2>2. canonical \in [Numbers -> Header \cup {NoHash}]
      BY <1>0
    <2>3. 0 \in Numbers /\ 0 \in 0 .. MaxNumber + 1
      BY <1>0 DEF Numbers
    <2> QED BY <1>0, <2>1, <2>2, <2>3 DEF TypeOK
  <1>2. MarkerIsHead /\ BatchAboveHead
    BY DEF MarkerIsHead, BatchAboveHead
  <1>3. IndexIsHeadChain /\ HeadIsRooted
    BY <1>0 DEF IndexIsHeadChain, HeadIsRooted, Numbers
  <1>4. InsertionInChain /\ NoHeavierHeaderSkipped
    BY DEF InsertionInChain, NoHeavierHeaderSkipped
  <1> QED BY <1>1, <1>2, <1>3, <1>4 DEF IInv

-----------------------------------------------------------------------------

\* The header an insertion stands at is a header of its chain.
LEMMA CurrentInChain ==
    ASSUME TypeOK, InsertionInChain, pc \in {"insert", "marker"},
           next <= Number[tip]
    PROVE  /\ next \in 1..MaxNumber
           /\ Current \in Header
           /\ Number[Current] = next
           /\ Parent(Current) \in Header
           /\ Number[Parent(Current)] = next - 1
  <1>1. next \in Numbers /\ next >= 1 /\ tip \in Header
    BY HeaderTree DEF TypeOK, InsertionInChain, Numbers
  <1>2. Current \in Header /\ Number[Current] = next
    BY <1>1, Ancestry DEF Current
  <1> QED BY <1>1, <1>2, ParentNumber DEF Numbers

\* Return and Restart leave the database alone and clear the locals.
LEMMA ReturnIInv ==
    ASSUME IInv, pc # "rewind", Return, UNCHANGED <<dbVars, headVars, torn>>
    PROVE  IInv'
  <1> USE DEF IInv, Return, dbVars, headVars
  <1>0. Genesis \in Header /\ MaxNumber \in Nat
    BY HeaderTree
  <1>1. TypeOK'
    BY <1>0 DEF TypeOK, Numbers
  <1>2. MarkerIsHead' /\ BatchAboveHead' /\ IndexIsHeadChain' /\ HeadIsRooted'
    BY DEF MarkerIsHead, BatchAboveHead, IndexIsHeadChain, HeadIsRooted
  <1>3. InsertionInChain' /\ NoHeavierHeaderSkipped'
    BY DEF InsertionInChain, NoHeavierHeaderSkipped
  <1> QED BY <1>1, <1>2, <1>3

\* Restart keeps the invariant.
LEMMA RestartIInv ==
    ASSUME IInv, Restart
    PROVE  IInv'
  <1> USE DEF IInv, Return, Restart, dbVars
  <1>0. Genesis \in Header /\ MaxNumber \in Nat
    BY HeaderTree
  <1>1. TypeOK'
    BY <1>0 DEF TypeOK, Numbers
  <1>2. ~torn' => ~torn /\ batch = {} /\ currentHeader' = currentHeader
    <2> SUFFICES ASSUME ~torn' PROVE ~torn /\ batch = {} /\ currentHeader' = currentHeader
      OBVIOUS
    <2>1. ~torn /\ batch = {} /\ headMarker = currentHeader
      BY DEF MarkerIsHead
    <2>2. currentHeader \in Header /\ Number[currentHeader] \in 0..MaxNumber
      BY HeaderTree DEF TypeOK, Numbers
    <2>3. Ancestor[currentHeader][Number[currentHeader]] = currentHeader
      BY <2>2, HeaderTree
    <2>4. currentHeader \in headers
      BY <2>1, <2>2, <2>3 DEF HeadIsRooted
    <2> QED BY <2>1, <2>4
  <1>3. MarkerIsHead' /\ BatchAboveHead'
    BY <1>2 DEF MarkerIsHead, BatchAboveHead
  <1>4. IndexIsHeadChain' /\ HeadIsRooted'
    BY <1>2 DEF IndexIsHeadChain, HeadIsRooted
  <1>5. InsertionInChain' /\ NoHeavierHeaderSkipped'
    BY DEF InsertionInChain, NoHeavierHeaderSkipped
  <1> QED BY <1>1, <1>3, <1>4, <1>5

\* WriteHeader keeps the invariant.
LEMMA WriteHeaderIInv ==
    ASSUME IInv, NEW coin \in BOOLEAN, WriteHeader(coin)
    PROVE  IInv'
  <1> USE DEF IInv
  <1> DEFINE h   == Current
             ext == td[Parent(h)] + Difficulty[h]
  <1>0. /\ pc = "insert" /\ next <= Number[tip]
        /\ currentHeaderHash \in headers /\ ~Ignored(h)
        /\ headers' = headers \cup {h}
        /\ td' = [td EXCEPT ![h] = ext]
        /\ \/ pc' = "marker" /\ next' = next /\ Reorg(h, ext, coin)
           \/ pc' = "insert" /\ next' = next + 1 /\ ~Reorg(h, ext, coin)
        /\ UNCHANGED <<canonical, headMarker, currentHeader, currentHeaderHash,
                       tip, first, target, batch, torn>>
    BY DEF WriteHeader, HasLocalTd, headVars
  <1>1. /\ next \in 1..MaxNumber /\ h \in Header /\ Number[h] = next
        /\ Parent(h) \in Header
    BY <1>0, CurrentInChain
  <1>2. ext \in Nat /\ MaxNumber \in Nat
    <2>1. td[Parent(h)] \in Nat
      BY <1>1 DEF TypeOK
    <2>2. Difficulty[h] \in Nat /\ MaxNumber \in Nat
      BY <1>1, HeaderTree
    <2> QED BY <2>1, <2>2
  <1>3. h # currentHeaderHash
    BY <1>0 , <1>1 DEF TypeOK, Ignored, localTd
  <1>4. localTd' = localTd
    BY <1>0, <1>1, <1>2, <1>3 DEF TypeOK, localTd
  <1>5. td'[h] = ext /\ \A g \in Header \ {h} : td'[g] = td[g]
    BY <1>0, <1>1, <1>2 DEF TypeOK
  <1>6. /\ localTd \in Nat
        /\ Reorg(h, ext, coin) => ext >= localTd
        /\ ~Reorg(h, ext, coin) => ext <= localTd
    <2>1. localTd \in Nat
      BY DEF TypeOK, localTd
    <2> HIDE DEF ext
    <2> QED BY <1>2, <2>1 DEF Reorg
  <1>7. TypeOK'
    <2>1. headers' \subseteq Header /\ td' \in [Header -> Nat]
      BY <1>0, <1>1, <1>2 DEF TypeOK
    <2>2. pc' \in {"idle", "insert", "marker", "rewind"} /\ next' \in 0 .. MaxNumber + 1
      BY <1>0, <1>1, <1>2
    <2> QED BY <1>0, <2>1, <2>2 DEF TypeOK
  <1>8. MarkerIsHead' /\ BatchAboveHead' /\ IndexIsHeadChain' /\ HeadIsRooted'
    BY <1>0 DEF MarkerIsHead, BatchAboveHead, IndexIsHeadChain, HeadIsRooted
  <1>9. InsertionInChain'
    <2>1. pc' = "marker" => td'[h] >= localTd'
      BY <1>0, <1>2, <1>4, <1>5, <1>6
    <2>2. pc' = "marker" => Current' = h
      BY <1>0 DEF Current
    <2>3. Number[tip] \in Nat /\ first \in Nat
      BY HeaderTree DEF TypeOK, Numbers
    <2> QED BY <1>0, <1>1, <1>2, <2>1, <2>2, <2>3 DEF InsertionInChain
  <1>10. NoHeavierHeaderSkipped'
    <2> SUFFICES ASSUME NEW n \in first .. next' - 1
                 PROVE  /\ Ancestor[tip][n] \in headers'
                        /\ td'[Ancestor[tip][n]] <= localTd'
      BY <1>0 DEF NoHeavierHeaderSkipped
    <2>0. first \in Nat /\ first >= 1 /\ tip \in Header /\ Number[tip] \in 0..MaxNumber
      <3>1. first \in 1..next /\ tip \in Header /\ next \in Nat
        BY <1>0, <1>1 DEF TypeOK, InsertionInChain
      <3>2. Number[tip] \in 0..MaxNumber
        BY <3>1, HeaderTree DEF Numbers
      <3> QED BY <3>1, <3>2
    <2>1. CASE n = next
      <3>1. next' = next + 1 /\ ~Reorg(h, ext, coin)
        BY <1>0, <1>1, <1>2, <2>0, <2>1
      <3>2. ext <= localTd
        BY <3>1, <1>6
      <3> QED BY <1>0, <1>4, <1>5, <2>1, <3>2 DEF Current
    <2>2. CASE n # next
      <3>1. n \in first .. next - 1
        BY <1>0, <1>1, <1>2, <2>0, <2>2
      <3>2. Ancestor[tip][n] \in headers /\ td[Ancestor[tip][n]] <= localTd
        BY <1>0, <3>1 DEF NoHeavierHeaderSkipped
      <3>3. n \in Numbers /\ n <= Number[tip]
        BY <1>0, <1>1, <1>2, <2>0, <3>1 DEF Numbers
      <3>4. Number[Ancestor[tip][n]] = n /\ Ancestor[tip][n] \in Header
        BY <2>0, <3>3, Ancestry
      <3>5. Ancestor[tip][n] # h
        BY <1>1, <2>2, <3>4
      <3> QED BY <1>0, <1>4, <1>5, <3>2, <3>4, <3>5
    <2> QED BY <2>1, <2>2
  <1> QED BY <1>7, <1>8, <1>9, <1>10

\* WriteMarkers keeps the invariant.
LEMMA WriteMarkersIInv ==
    ASSUME IInv, WriteMarkers
    PROVE  IInv'
  <1> USE DEF IInv
  <1> DEFINE h == Current
             c == currentHeader
  <1>0. /\ pc = "marker" /\ WalkIsRooted(h)
        /\ canonical' = [n \in Numbers |->
                            IF Deleted(h, n) THEN NoHash
                            ELSE IF Rewritten(h, n) THEN Ancestor[h][n]
                            ELSE canonical[n]]
        /\ headMarker' = h /\ currentHeader' = h /\ currentHeaderHash' = h
        /\ pc' = "insert" /\ next' = next + 1
        /\ UNCHANGED <<headers, td, tip, first, target, batch, torn>>
    BY DEF WriteMarkers
  <1>1. /\ next \in 1..MaxNumber /\ h \in Header /\ Number[h] = next
        /\ next <= Number[tip] /\ h \in headers /\ td[h] >= localTd
        /\ currentHeaderHash \in headers
    BY <1>0, CurrentInChain DEF InsertionInChain
  <1>2. /\ MaxNumber \in Nat /\ c \in Header /\ tip \in Header
        /\ Number[c] \in 0..MaxNumber /\ Number[tip] \in 0..MaxNumber
    BY HeaderTree DEF TypeOK, Numbers
  <1>3. batch = {}
    BY <1>0 DEF BatchAboveHead
  <1> HIDE DEF h, c
  <1>4. TypeOK'
    <2>1. \A n \in Numbers : Ancestor[h][n] \in Header
      BY <1>1, HeaderTree
    <2>2. canonical' \in [Numbers -> Header \cup {NoHash}]
      BY <1>0, <2>1 DEF TypeOK
    <2>3. next' \in 0 .. MaxNumber + 1
      BY <1>0, <1>1, <1>2
    <2> QED BY <1>0, <1>1, <2>2, <2>3 DEF TypeOK
  <1>5. MarkerIsHead' /\ BatchAboveHead'
    BY <1>0, <1>3 DEF MarkerIsHead, BatchAboveHead
  \* Below the point where the walk stops, the old head's chain is h's chain.
  <1>6. ASSUME ~torn, NEW n \in 0 .. Number[h] - 1, ~Rewritten(h, n)
        PROVE  n <= Number[c] /\ Ancestor[c][n] = Ancestor[h][n]
    <2>1. PICK i \in n .. Number[h] - 1 : canonical[i] = Ancestor[h][i]
      BY <1>1, <1>2, <1>6 DEF Rewritten
    <2>2. i \in Numbers /\ i <= Number[h] /\ n <= i
      BY <1>1, <1>2, <2>1 DEF Numbers
    <2>3. Ancestor[h][i] \in Header /\ Ancestor[h][i] # NoHash
      BY <1>1, <2>2, HeaderTree
    <2>4. i <= Number[c] /\ canonical[i] = Ancestor[c][i]
      <3>1. i > Number[c] => canonical[i] = NoHash
        BY <1>3, <1>6, <2>2 DEF IndexIsHeadChain, c
      <3>2. i <= Number[c]
        BY <1>2, <2>1, <2>2, <2>3, <3>1 DEF Numbers
      <3> QED BY <1>6, <2>2, <3>2 DEF IndexIsHeadChain, c
    <2>5. Ancestor[c][i] = Ancestor[h][i]
      BY <2>1, <2>4
    <2>6. n \in 0..i
      BY <1>1, <1>2, <2>2 DEF Numbers
    <2>7. Ancestor[c][n] = Ancestor[h][n]
      BY <1>1, <1>2, <2>2, <2>4, <2>5, <2>6, SharedAncestry
    <2> QED BY <1>2, <2>2, <2>4, <2>6, <2>7 DEF Numbers
  <1>7. IndexIsHeadChain'
    <2> SUFFICES ASSUME ~torn, NEW n \in Numbers
                 PROVE  /\ n <= Number[h] => canonical'[n] = Ancestor[h][n]
                        /\ n > Number[h] => canonical'[n] = NoHash
      BY <1>0 DEF IndexIsHeadChain
    <2>0. n \in 0..MaxNumber /\ Number[h] \in 1..MaxNumber
      BY <1>1 DEF Numbers
    <2>1. CASE n <= Number[h]
      <3>1. ~Deleted(h, n)
        BY <1>2, <2>0, <2>1 DEF Deleted
      <3>2. canonical'[n] = IF Rewritten(h, n) THEN Ancestor[h][n] ELSE canonical[n]
        BY <1>0, <3>1
      <3>3. ASSUME ~Rewritten(h, n) PROVE canonical[n] = Ancestor[h][n]
        <4>1. n \in 0 .. Number[h] - 1
          BY <1>2, <2>0, <2>1, <3>3 DEF Rewritten
        <4>2. n <= Number[c] /\ Ancestor[c][n] = Ancestor[h][n]
          BY <1>6, <3>3, <4>1
        <4> QED BY <4>2 DEF IndexIsHeadChain, c
      <3> QED BY <1>2, <2>0, <2>1, <3>2, <3>3
    <2>2. CASE n > Number[h]
      <3>1. ~Rewritten(h, n)
        BY <1>2, <2>0, <2>2 DEF Rewritten
      <3>2. canonical'[n] = IF Deleted(h, n) THEN NoHash ELSE canonical[n]
        BY <1>0, <3>1
      <3>3. ASSUME ~Deleted(h, n) PROVE canonical[n] = NoHash
        <4>1. PICK i \in Number[h] + 1 .. n : canonical[i] = NoHash
          BY <2>2, <3>3 DEF Deleted
        <4>2. i \in Numbers /\ i <= n
          BY <1>2, <2>0, <4>1 DEF Numbers
        <4>3. i > Number[c]
          <5>1. i <= Number[c] => canonical[i] = Ancestor[c][i]
            BY <4>2 DEF IndexIsHeadChain, c
          <5>2. Ancestor[c][i] \in Header /\ NoHash \notin Header
            BY <1>2, <4>2, HeaderTree
          <5> QED BY <1>2, <4>1, <4>2, <5>1, <5>2 DEF Numbers
        <4>4. n > Number[c]
          BY <1>2, <2>0, <4>2, <4>3 DEF Numbers
        <4> QED BY <1>3, <4>4 DEF IndexIsHeadChain, c
      <3> QED BY <1>2, <2>0, <2>2, <3>2, <3>3
    <2> QED BY <1>2, <2>0, <2>1, <2>2
  <1>8. HeadIsRooted'
    <2> SUFFICES ASSUME ~torn, NEW n \in 0 .. Number[h]
                 PROVE  Ancestor[h][n] \in headers
      BY <1>0 DEF HeadIsRooted
    <2>1. CASE n = Number[h]
      BY <1>1, <2>1, HeaderTree
    <2>2. CASE n # Number[h]
      <3>1. n \in 0 .. Number[h] - 1
        BY <1>1, <1>2, <2>2
      <3>2. CASE Rewritten(h, n)
        BY <1>0, <3>1, <3>2 DEF WalkIsRooted
      <3>3. CASE ~Rewritten(h, n)
        <4>1. n <= Number[c] /\ Ancestor[c][n] = Ancestor[h][n]
          BY <1>6, <3>1, <3>3
        <4>2. n \in 0 .. Number[c]
          BY <1>1, <1>2, <3>1, <4>1
        <4> QED BY <4>1, <4>2 DEF HeadIsRooted, c
      <3> QED BY <3>2, <3>3
    <2> QED BY <2>1, <2>2
  <1>9. InsertionInChain'
    <2>1. first \in 1..next
      BY <1>0 DEF InsertionInChain
    <2> QED BY <1>0, <1>1, <1>2, <2>1 DEF InsertionInChain
  <1>10. NoHeavierHeaderSkipped'
    <2> SUFFICES ASSUME NEW n \in first .. next
                 PROVE  /\ Ancestor[tip][n] \in headers
                        /\ td[Ancestor[tip][n]] <= td[h]
      <3>1. next' - 1 = next
        BY <1>0, <1>1, <1>2
      <3>2. localTd' = td[h]
        BY <1>0 DEF localTd
      <3> QED BY <1>0, <3>1, <3>2 DEF NoHeavierHeaderSkipped
    <2>1. td[h] \in Nat /\ localTd \in Nat /\ first \in Nat
      BY <1>1 DEF TypeOK, localTd, Numbers
    <2>2. CASE n = next
      <3>1. Ancestor[tip][n] = h
        BY <2>2 DEF Current, h
      <3> QED BY <1>1, <2>1, <3>1
    <2>3. CASE n # next
      <3>1. n \in first .. next - 1
        BY <1>1, <1>2, <2>1, <2>3
      <3>2. Ancestor[tip][n] \in headers /\ td[Ancestor[tip][n]] <= localTd
        BY <1>0, <3>1 DEF NoHeavierHeaderSkipped
      <3>3. td[Ancestor[tip][n]] \in Nat
        BY <3>2 DEF TypeOK
      <3> QED BY <1>1, <2>1, <3>2, <3>3
    <2> QED BY <2>2, <2>3
  <1> QED BY <1>4, <1>5, <1>7, <1>8, <1>9, <1>10

\* RewindStep keeps the invariant.
LEMMA RewindStepIInv ==
    ASSUME IInv, RewindStep
    PROVE  IInv'
  <1> USE DEF IInv
  <1> DEFINE c == currentHeader
             p == Parent(currentHeader)
  <1>0. /\ pc = "rewind" /\ Number[c] > target
        /\ headMarker' = p /\ currentHeaderHash' = p
        /\ currentHeader' = IF p \in headers THEN p ELSE Genesis
        /\ batch' = batch \cup {c}
        /\ UNCHANGED <<headers, td, canonical, pc, tip, first, next, target, torn>>
    BY DEF RewindStep
  <1>1. /\ c \in Header /\ Number[c] \in 1..MaxNumber /\ MaxNumber \in Nat
        /\ Genesis \in Header
    BY <1>0, HeaderTree DEF TypeOK, Numbers
  <1>2. /\ p \in Header /\ Number[p] = Number[c] - 1
        /\ \A m \in 0 .. Number[p] : Ancestor[p][m] = Ancestor[c][m]
        /\ p = Ancestor[c][Number[c] - 1]
    BY <1>1, ParentNumber DEF Parent
  <1> HIDE DEF c, p
  <1>3. TypeOK'
    BY <1>0, <1>1, <1>2 DEF TypeOK
  <1>4. ~torn => p \in headers /\ currentHeader' = p
    <2>1. Number[c] - 1 \in 0 .. Number[c]
      BY <1>1
    <2> QED BY <1>0, <1>2, <2>1 DEF HeadIsRooted, c
  <1>5. MarkerIsHead'
    BY <1>0, <1>4 DEF MarkerIsHead
  <1>6. BatchAboveHead'
    <2> SUFFICES ASSUME ~torn, NEW g \in batch' PROVE Number[g] > Number[p]
      BY <1>0, <1>4 DEF BatchAboveHead
    <2>1. CASE g = c
      BY <1>1, <1>2, <2>1
    <2>2. CASE g \in batch
      <3>1. Number[g] > Number[c] /\ Number[g] \in Nat
        BY <2>2, HeaderTree DEF BatchAboveHead, TypeOK, Numbers, c
      <3> QED BY <1>1, <1>2, <3>1
    <2> QED BY <1>0, <2>1, <2>2
  <1>7. IndexIsHeadChain'
    <2> SUFFICES ASSUME ~torn, NEW n \in Numbers
                 PROVE  /\ n <= Number[p] => canonical[n] = Ancestor[p][n]
                        /\ n > Number[p] /\ canonical[n] # NoHash =>
                                \E g \in batch' : Number[g] = n
      BY <1>0, <1>4 DEF IndexIsHeadChain
    <2>0. n \in 0..MaxNumber
      BY DEF Numbers
    <2>1. CASE n <= Number[p]
      <3>1. n <= Number[c] /\ n \in 0 .. Number[p] /\ ~(n > Number[p])
        BY <1>1, <1>2, <2>0, <2>1
      <3>2. canonical[n] = Ancestor[c][n]
        BY <3>1 DEF IndexIsHeadChain, c
      <3> QED BY <1>2, <3>1, <3>2
    <2>2. CASE n = Number[c]
      <3>1. ~(n <= Number[p]) /\ c \in batch'
        BY <1>0, <1>1, <1>2, <2>2
      <3> QED BY <2>2, <3>1
    <2>3. CASE n > Number[c]
      <3>1. canonical[n] # NoHash => \E g \in batch : Number[g] = n
        BY <2>3 DEF IndexIsHeadChain, c
      <3>2. ~(n <= Number[p])
        BY <1>1, <1>2, <2>0, <2>3
      <3> QED BY <1>0, <3>1, <3>2
    <2>4. n <= Number[p] \/ n = Number[c] \/ n > Number[c]
      BY <1>1, <1>2, <2>0
    <2> QED BY <2>1, <2>2, <2>3, <2>4
  <1>8. HeadIsRooted'
    <2> SUFFICES ASSUME ~torn, NEW n \in 0 .. Number[p]
                 PROVE  Ancestor[p][n] \in headers
      BY <1>0, <1>4 DEF HeadIsRooted
    <2>1. n \in 0 .. Number[c] /\ Ancestor[p][n] = Ancestor[c][n]
      BY <1>1, <1>2
    <2> QED BY <2>1 DEF HeadIsRooted, c
  <1>9. InsertionInChain' /\ NoHeavierHeaderSkipped'
    BY <1>0 DEF InsertionInChain, NoHeavierHeaderSkipped
  <1> QED BY <1>3, <1>5, <1>6, <1>7, <1>8, <1>9

\* RewindDone keeps the invariant.
LEMMA RewindDoneIInv ==
    ASSUME IInv, RewindDone
    PROVE  IInv'
  <1> USE DEF IInv
  <1> DEFINE c == currentHeader
  <1>0. /\ headers' = headers \ batch
        /\ td' = [h \in Header |-> IF h \in batch THEN 0 ELSE td[h]]
        /\ canonical' = [n \in Numbers |->
                            IF \E h \in batch : Number[h] = n THEN NoHash
                            ELSE canonical[n]]
        /\ pc' = "idle" /\ tip' = Genesis /\ first' = 0 /\ next' = 0
        /\ target' = 0 /\ batch' = {}
        /\ UNCHANGED <<headMarker, currentHeader, currentHeaderHash, torn>>
    BY DEF RewindDone, Return, headVars
  <1>1. /\ c \in Header /\ Number[c] \in 0..MaxNumber /\ MaxNumber \in Nat
        /\ Genesis \in Header
    BY <1>0, HeaderTree DEF TypeOK, Numbers
  <1>2. ASSUME ~torn, NEW n \in 0 .. Number[c], NEW h \in batch PROVE Number[h] # n
    <2>1. Number[h] > Number[c] /\ Number[h] \in Nat
      BY <1>2, HeaderTree DEF BatchAboveHead, TypeOK, Numbers
    <2> QED BY <1>1, <2>1
  <1> HIDE DEF c
  <1>3. TypeOK'
    <2>1. td' \in [Header -> Nat]
      BY <1>0 DEF TypeOK
    <2>2. canonical' \in [Numbers -> Header \cup {NoHash}]
      BY <1>0 DEF TypeOK
    <2>3. 0 \in Numbers /\ 0 \in 0 .. MaxNumber + 1
      BY <1>1 DEF Numbers
    <2> QED BY <1>0, <1>1, <2>1, <2>2, <2>3 DEF TypeOK
  <1>4. MarkerIsHead' /\ BatchAboveHead'
    BY <1>0 DEF MarkerIsHead, BatchAboveHead
  <1>5. IndexIsHeadChain'
    <2> SUFFICES ASSUME ~torn, NEW n \in Numbers
                 PROVE  /\ n <= Number[c] => canonical'[n] = Ancestor[c][n]
                        /\ n > Number[c] => canonical'[n] = NoHash
      BY <1>0 DEF IndexIsHeadChain, c
    <2>1. CASE n <= Number[c]
      <3>1. n \in 0 .. Number[c] /\ ~(n > Number[c])
        BY <1>1, <2>1 DEF Numbers
      <3>2. ~\E h \in batch : Number[h] = n
        BY <1>2, <3>1
      <3>3. canonical'[n] = canonical[n]
        BY <1>0, <3>2
      <3> QED BY <2>1, <3>1, <3>3 DEF IndexIsHeadChain, c
    <2>2. CASE n > Number[c]
      <3>1. canonical[n] # NoHash => \E h \in batch : Number[h] = n
        BY <2>2 DEF IndexIsHeadChain, c
      <3>2. ~(n <= Number[c])
        BY <1>1, <2>2 DEF Numbers
      <3> QED BY <1>0, <3>1, <3>2
    <2> QED BY <1>1, <2>1, <2>2 DEF Numbers
  <1>6. HeadIsRooted'
    <2> SUFFICES ASSUME ~torn, NEW n \in 0 .. Number[c]
                 PROVE  Ancestor[c][n] \in headers'
      BY <1>0 DEF HeadIsRooted, c
    <2>1. Ancestor[c][n] \in headers
      BY DEF HeadIsRooted, c
    <2>2. n \in Numbers /\ n <= Number[c]
      BY <1>1 DEF Numbers
    <2>3. Number[Ancestor[c][n]] = n
      BY <1>1, <2>2, Ancestry
    <2>4. Ancestor[c][n] \notin batch
      BY <1>2, <2>3
    <2> QED BY <1>0, <2>1, <2>4
  <1>7. InsertionInChain' /\ NoHeavierHeaderSkipped'
    BY <1>0 DEF InsertionInChain, NoHeavierHeaderSkipped
  <1> QED BY <1>3, <1>4, <1>5, <1>6, <1>7

\* Every step keeps the invariant.
LEMMA NextIInv == IInv /\ [Next]_vars => IInv'
  <1> SUFFICES ASSUME IInv, [Next]_vars PROVE IInv'
    OBVIOUS
  <1>1. ASSUME NEW h \in Header, NEW n \in Numbers, InsertHeaderChain(h, n)
        PROVE  IInv'
    <2> USE <1>1 DEF IInv, InsertHeaderChain, dbVars, headVars
    <2>0. MaxNumber \in Nat /\ Number[h] \in 0..MaxNumber /\ n \in 1..Number[h]
      BY HeaderTree DEF Numbers
    <2>1. TypeOK'
      BY <2>0 DEF TypeOK, Numbers
    <2>2. MarkerIsHead' /\ BatchAboveHead' /\ IndexIsHeadChain' /\ HeadIsRooted'
      BY DEF MarkerIsHead, BatchAboveHead, IndexIsHeadChain, HeadIsRooted
    <2>3. InsertionInChain'
      BY <2>0 DEF InsertionInChain
    <2>4. NoHeavierHeaderSkipped'
      <3>1. first' .. next' - 1 = {}
        BY <2>0
      <3> QED BY <3>1 DEF NoHeavierHeaderSkipped
    <2> QED BY <2>1, <2>2, <2>3, <2>4
  <1>2. CASE InsertDone \/ InsertAborted \/ UnknownAncestor
    BY <1>2, ReturnIInv DEF InsertDone, InsertAborted, UnknownAncestor
  <1>3. CASE IgnoreHeader
    <2> USE <1>3 DEF IInv, IgnoreHeader, headVars, dbVars
    <2>0. next \in 1..MaxNumber /\ Current \in Header /\ MaxNumber \in Nat
      BY CurrentInChain, HeaderTree
    <2>1. TypeOK'
      BY <2>0 DEF TypeOK
    <2>2. MarkerIsHead' /\ BatchAboveHead' /\ IndexIsHeadChain' /\ HeadIsRooted'
      BY DEF MarkerIsHead, BatchAboveHead, IndexIsHeadChain, HeadIsRooted
    <2>3. InsertionInChain'
      <3>1. Number[tip] \in Nat /\ first \in 1..next
        BY HeaderTree DEF InsertionInChain, TypeOK, Numbers
      <3> QED BY <2>0, <3>1 DEF InsertionInChain
    <2>4. NoHeavierHeaderSkipped'
      <3> SUFFICES ASSUME NEW n \in first .. next
                   PROVE  /\ Ancestor[tip][n] \in headers
                          /\ td[Ancestor[tip][n]] <= localTd
        <4>1. next' - 1 = next
          BY <2>0
        <4> QED BY <4>1 DEF NoHeavierHeaderSkipped, localTd
      <3>1. first \in Nat
        BY DEF TypeOK, Numbers
      <3>2. CASE n = next
        BY <3>2 DEF Ignored, Current
      <3>3. CASE n # next
        <4>1. n \in first .. next - 1
          BY <2>0, <3>1, <3>3
        <4> QED BY <4>1 DEF NoHeavierHeaderSkipped
      <3> QED BY <3>2, <3>3
    <2> QED BY <2>1, <2>2, <2>3, <2>4
  <1>4. ASSUME NEW coin \in BOOLEAN, WriteHeader(coin) PROVE IInv'
    BY <1>4, WriteHeaderIInv
  <1>5. CASE WriteMarkers
    BY <1>5, WriteMarkersIInv
  <1>6. ASSUME NEW n \in Numbers, SetHead(n) PROVE IInv'
    <2> USE <1>6 DEF IInv, SetHead, dbVars, headVars
    <2>1. TypeOK'
      BY DEF TypeOK
    <2>2. MarkerIsHead' /\ BatchAboveHead' /\ IndexIsHeadChain' /\ HeadIsRooted'
      BY DEF MarkerIsHead, BatchAboveHead, IndexIsHeadChain, HeadIsRooted
    <2>3. InsertionInChain' /\ NoHeavierHeaderSkipped'
      BY DEF InsertionInChain, NoHeavierHeaderSkipped
    <2> QED BY <2>1, <2>2, <2>3
  <1>7. CASE RewindStep
    BY <1>7, RewindStepIInv
  <1>8. CASE RewindDone
    BY <1>8, RewindDoneIInv
  <1>9. CASE Restart
    BY <1>9, RestartIInv
  <1>10. CASE UNCHANGED vars
    <2> USE <1>10 DEF IInv, vars, dbVars, headVars, opVars
    <2>1. TypeOK'
      BY DEF TypeOK
    <2>2. MarkerIsHead' /\ BatchAboveHead' /\ IndexIsHeadChain' /\ HeadIsRooted'
      BY DEF MarkerIsHead, BatchAboveHead, IndexIsHeadChain, HeadIsRooted
    <2>3. InsertionInChain' /\ NoHeavierHeaderSkipped'
      BY DEF InsertionInChain, NoHeavierHeaderSkipped, Current, localTd
    <2> QED BY <2>1, <2>2, <2>3
  <1> QED BY <1>1, <1>2, <1>3, <1>4, <1>5, <1>6, <1>7, <1>8, <1>9, <1>10 DEF Next

-----------------------------------------------------------------------------

\* IInv holds in every reachable state, whatever the tree of headers.
THEOREM Inductive == Spec => []IInv
  BY InitIInv, NextIInv, PTL DEF Spec

\* The state keeps its shape (TypeOK of HeaderChain).
THEOREM TypeCorrect == Spec => []TypeOK
  <1>1. IInv => TypeOK
    BY DEF IInv
  <1> QED BY <1>1, Inductive, PTL

\* Between calls, and at every point of an insertion, the canonical index is
\* the chain of the current header, through any reorganisation, rewind and
\* crash that does not cut a rewind in two.
THEOREM CanonicalChain == Spec => []CanonicalIsHeadChain
  <1>1. IInv => CanonicalIsHeadChain
    <2> SUFFICES ASSUME IInv, ~torn, pc # "rewind", NEW n \in Numbers
                 PROVE  canonical[n] = IF n <= Number[currentHeader]
                                       THEN Ancestor[currentHeader][n] ELSE NoHash
      BY DEF CanonicalIsHeadChain
    <2>1. Number[currentHeader] \in 0..MaxNumber /\ n \in 0..MaxNumber
      BY HeaderTree DEF IInv, TypeOK, Numbers
    <2> QED BY <2>1 DEF IInv, IndexIsHeadChain, BatchAboveHead
  <1> QED BY <1>1, Inductive, PTL

\* The current header can be walked down to genesis.
THEOREM HeadRooted == Spec => []HeadIsRooted
  <1>1. IInv => HeadIsRooted
    BY DEF IInv
  <1> QED BY <1>1, Inductive, PTL

\* InsertHeaderChain leaves no heavier header behind, even one that a crash
\* had stored without making it the head.
THEOREM NothingHeavierSkipped == Spec => []NoHeavierHeaderSkipped
  <1>1. IInv => NoHeavierHeaderSkipped
    BY DEF IInv
  <1> QED BY <1>1, Inductive, PTL

\* Importing headers never moves the head to a lighter chain.
THEOREM NeverLighter == Spec => HeadNeverLighter
  <1> DEFINE Step == pc # "rewind" /\ ~torn => localTd' >= localTd
  <1>1. IInv /\ [Next]_vars => [Step]_vars
    <2> SUFFICES ASSUME IInv, Next, pc # "rewind", ~torn
                 PROVE  localTd' >= localTd
      BY DEF vars
    <2>0. localTd \in Nat
      BY DEF IInv, TypeOK, localTd
    <2>1. ASSUME UNCHANGED <<td, currentHeaderHash>> PROVE localTd' >= localTd
      BY <2>0, <2>1 DEF localTd
    <2>2. ASSUME NEW h \in Header, NEW n \in Numbers, InsertHeaderChain(h, n)
          PROVE  localTd' >= localTd
      BY <2>1, <2>2 DEF InsertHeaderChain, dbVars, headVars
    <2>3. CASE InsertDone \/ InsertAborted \/ UnknownAncestor \/ IgnoreHeader
      BY <2>1, <2>3
      DEF InsertDone, InsertAborted, UnknownAncestor, IgnoreHeader, dbVars, headVars
    <2>4. ASSUME NEW coin \in BOOLEAN, WriteHeader(coin) PROVE localTd' >= localTd
      <3>1. Current # currentHeaderHash
        BY <2>0, <2>4 DEF WriteHeader, HasLocalTd, Ignored, localTd
      <3>2. td'[currentHeaderHash] = td[currentHeaderHash]
        BY <2>4, <3>1 DEF WriteHeader, IInv, TypeOK
      <3> QED BY <2>0, <2>4, <3>2 DEF WriteHeader, headVars, localTd
    <2>5. CASE WriteMarkers
      BY <2>5 DEF WriteMarkers, IInv, InsertionInChain, localTd
    <2>6. ASSUME NEW n \in Numbers, SetHead(n) PROVE localTd' >= localTd
      BY <2>1, <2>6 DEF SetHead, dbVars, headVars
    <2>7. CASE Restart
      <3>1. headMarker = currentHeader /\ currentHeaderHash = currentHeader
        BY DEF IInv, MarkerIsHead
      <3>2. currentHeader \in Header /\ Number[currentHeader] \in 0..MaxNumber
        BY HeaderTree DEF IInv, TypeOK, Numbers
      <3>3. Ancestor[currentHeader][Number[currentHeader]] = currentHeader
        BY <3>2, HeaderTree
      <3>4. currentHeader \in headers
        BY <3>2, <3>3 DEF IInv, HeadIsRooted
      <3> QED BY <2>1, <2>7, <3>1, <3>4 DEF Restart, dbVars
    <2> QED BY <2>2, <2>3, <2>4, <2>5, <2>6, <2>7 DEF Next, RewindStep, RewindDone
  <1> QED BY <1>1, Inductive, PTL DEF Spec, HeadNeverLighter
=============================================================================
