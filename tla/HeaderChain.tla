---------------------------- MODULE HeaderChain ----------------------------
(***************************************************************************)
(* The header chain (headerchain.go): the store of headers with their      *)
(* total difficulty, the number -> hash index of the canonical chain, the  *)
(* head marker on disk and the current header in memory.                   *)
(*                                                                         *)
(* Writers run under BlockChain.chainmu, so one call is in flight at a     *)
(* time; but a call is several database batches, and the process may die   *)
(* between any two of them.  Each batch is one action.                     *)
(***************************************************************************)
EXTENDS ChainTree

VARIABLES
    \* chainDb
    headers,            \* headers stored (with their hash -> number entry)
    td,                 \* td[h]: total difficulty stored next to header h
    canonical,          \* canonical[n]: hash of the canonical header n
    headMarker,         \* the LastHeader marker
    \* memory
    currentHeader,      \* hc.currentHeader
    currentHeaderHash,  \* hc.currentHeaderHash
    pc,                 \* the batch the call in flight writes next
    tip,                \* last header of the chain being inserted
    first,              \* number of the first header of that chain
    next,               \* number of the header of that chain to treat next
    target,             \* the number SetHead rewinds to
    batch,              \* headers whose deletion SetHead has batched
    \* history
    torn                \* a crash has interrupted a rewind

dbVars   == <<headers, td, canonical, headMarker>>
headVars == <<currentHeader, currentHeaderHash>>
opVars   == <<tip, first, next, target, batch>>
vars     == <<dbVars, headVars, pc, opVars, torn>>

-----------------------------------------------------------------------------

Init ==
    /\ headers = {Genesis}
    /\ td = [h \in Header |-> IF h = Genesis THEN Difficulty[Genesis] ELSE 0]
    /\ canonical = [n \in Numbers |-> IF n = 0 THEN Genesis ELSE NoHash]
    /\ headMarker = Genesis
    /\ currentHeader = Genesis
    /\ currentHeaderHash = Genesis
    /\ pc = "idle"
    /\ tip = Genesis /\ first = 0 /\ next = 0 /\ target = 0 /\ batch = {}
    /\ torn = FALSE

\* The call in flight returns, its locals are gone.
Return ==
    /\ pc' = "idle"
    /\ tip' = Genesis /\ first' = 0 /\ next' = 0 /\ target' = 0 /\ batch' = {}

\* The header the running insertion treats now.
Current == Ancestor[tip][next]

\* Total difficulty of the head; a missing one is a nil dereference.
HasLocalTd == currentHeaderHash \in headers
localTd    == td[currentHeaderHash]

(***************************************************************************)
(* InsertHeaderChain is entered with a chain ValidateHeaderChain accepted: *)
(* contiguous headers, so its last header and the number of its first one  *)
(* determine it.  (A chain that is refused changes nothing.)               *)
(***************************************************************************)
InsertHeaderChain(h, n) ==
    /\ pc = "idle"
    /\ n \in 1..Number[h]
    /\ pc' = "insert"
    /\ tip' = h /\ first' = n /\ next' = n
    /\ UNCHANGED <<dbVars, headVars, target, batch, torn>>

\* Every header has been treated: the call returns.
InsertDone ==
    /\ pc = "insert"
    /\ next > Number[tip]
    /\ Return
    /\ UNCHANGED <<dbVars, headVars, torn>>

\* procInterrupt is seen between two headers: the rest is not inserted.
InsertAborted ==
    /\ pc = "insert"
    /\ next <= Number[tip]
    /\ Return
    /\ UNCHANGED <<dbVars, headVars, torn>>

\* Mutant: a known header is skipped whatever its total difficulty.
IgnoredIfKnown(h) == h \in headers

\* The header is known and not heavier than the head: it is skipped.
Ignored(h) == h \in headers /\ td[h] <= localTd

IgnoreHeader ==
    /\ pc = "insert"
    /\ next <= Number[tip]
    /\ HasLocalTd
    /\ Ignored(Current)
    /\ next' = next + 1
    /\ UNCHANGED <<dbVars, headVars, pc, tip, first, target, batch, torn>>

\* WriteHeader finds no total difficulty for the parent: the call fails.
UnknownAncestor ==
    /\ pc = "insert"
    /\ next <= Number[tip]
    /\ Current \in headers => HasLocalTd /\ ~Ignored(Current)
    /\ Parent(Current) \notin headers
    /\ Return
    /\ UNCHANGED <<dbVars, headVars, torn>>

\* Whether a header with total difficulty ext becomes the head: the heavier
\* chain wins, then the shorter one, then a coin.
Reorg(h, ext, coin) ==
    \/ ext > localTd
    \/ /\ ext = localTd
       /\ \/ Number[h] < Number[currentHeader]
          \/ Number[h] = Number[currentHeader] /\ coin

\* First batch of WriteHeader: the header and its total difficulty.
WriteHeader(coin) ==
    LET h   == Current
        ext == td[Parent(h)] + Difficulty[h]
    IN  /\ pc = "insert"
        /\ next <= Number[tip]
        /\ HasLocalTd
        /\ ~Ignored(h)
        /\ Parent(h) \in headers
        /\ headers' = headers \cup {h}
        /\ td' = [td EXCEPT ![h] = ext]
        /\ IF Reorg(h, ext, coin)
           THEN pc' = "marker" /\ next' = next
           ELSE pc' = "insert" /\ next' = next + 1
        /\ UNCHANGED <<canonical, headMarker, headVars,
                       tip, first, target, batch, torn>>

\* Mutant: only the entry right above the new head is deleted.
DeletedFirst(h, n) == n = Number[h] + 1

\* Entries above the new head are deleted up to the first gap ...
Deleted(h, n) ==
    n > Number[h] /\ \A i \in Number[h] + 1 .. n : canonical[i] # NoHash

\* ... and entries below it are rewritten down to the first that agrees.
Rewritten(h, n) ==
    \/ n = Number[h]
    \/ n < Number[h] /\ \A i \in n .. Number[h] - 1 : canonical[i] # Ancestor[h][i]

\* The walk down reads the header of every entry it rewrites.
WalkIsRooted(h) ==
    \A n \in 0 .. Number[h] - 1 : Rewritten(h, n) => Ancestor[h][n] \in headers

\* Second batch of WriteHeader: the canonical index and the head marker,
\* then the head in memory.
WriteMarkers ==
    LET h == Current
    IN  /\ pc = "marker"
        /\ WalkIsRooted(h)
        /\ canonical' = [n \in Numbers |->
                            IF Deleted(h, n) THEN NoHash
                            ELSE IF Rewritten(h, n) THEN Ancestor[h][n]
                            ELSE canonical[n]]
        /\ headMarker' = h
        /\ currentHeader' = h
        /\ currentHeaderHash' = h
        /\ pc' = "insert"
        /\ next' = next + 1
        /\ UNCHANGED <<headers, td, tip, first, target, batch, torn>>

(***************************************************************************)
(* SetHead(n) moves the head down one header per iteration, writing the    *)
(* marker each time, and deletes everything in one batch at the end.       *)
(***************************************************************************)
SetHead(n) ==
    /\ pc = "idle"
    /\ pc' = "rewind"
    /\ target' = n
    /\ UNCHANGED <<dbVars, headVars, tip, first, next, batch, torn>>

\* Mutant: the parent, not the header that is left, is batched for deletion.
RewindStepParent ==
    /\ pc = "rewind"
    /\ Number[currentHeader] > target
    /\ headMarker' = Parent(currentHeader)
    /\ currentHeaderHash' = Parent(currentHeader)
    /\ currentHeader' = IF Parent(currentHeader) \in headers
                        THEN Parent(currentHeader) ELSE Genesis
    /\ batch' = batch \cup {Parent(currentHeader)}
    /\ UNCHANGED <<headers, td, canonical, pc, tip, first, next, target, torn>>

RewindStep ==
    /\ pc = "rewind"
    /\ Number[currentHeader] > target
    /\ headMarker' = Parent(currentHeader)
    /\ currentHeaderHash' = Parent(currentHeader)
    /\ currentHeader' = IF Parent(currentHeader) \in headers
                        THEN Parent(currentHeader) ELSE Genesis
    /\ batch' = batch \cup {currentHeader}
    /\ UNCHANGED <<headers, td, canonical, pc, tip, first, next, target, torn>>

RewindDone ==
    /\ pc = "rewind"
    /\ Number[currentHeader] <= target
    /\ headers' = headers \ batch
    /\ td' = [h \in Header |-> IF h \in batch THEN 0 ELSE td[h]]
    /\ canonical' = [n \in Numbers |->
                        IF \E h \in batch : Number[h] = n THEN NoHash
                        ELSE canonical[n]]
    /\ Return
    /\ UNCHANGED <<headMarker, headVars, torn>>

(***************************************************************************)
(* The process dies and is restarted: memory and unwritten batches are     *)
(* lost, the current header is reloaded from the marker.  A nil            *)
(* dereference (a walk of WriteMarkers over a header that a rewind         *)
(* deleted, a head without total difficulty) also ends here.               *)
(***************************************************************************)
Restart ==
    /\ currentHeader' = IF headMarker \in headers THEN headMarker ELSE Genesis
    /\ currentHeaderHash' = currentHeader'
    /\ torn' = (torn \/ batch # {})
    /\ Return
    /\ UNCHANGED dbVars

Next ==
    \/ \E h \in Header, n \in Numbers : InsertHeaderChain(h, n)
    \/ InsertDone
    \/ InsertAborted
    \/ IgnoreHeader
    \/ UnknownAncestor
    \/ \E coin \in BOOLEAN : WriteHeader(coin)
    \/ WriteMarkers
    \/ \E n \in Numbers : SetHead(n)
    \/ RewindStep
    \/ RewindDone
    \/ Restart

Spec == Init /\ [][Next]_vars

-----------------------------------------------------------------------------

\* Shape of the state.
TypeOK ==
    /\ headers \subseteq Header
    /\ td \in [Header -> Nat]
    /\ canonical \in [Numbers -> Header \cup {NoHash}]
    /\ headMarker \in Header
    /\ currentHeader \in Header
    /\ currentHeaderHash \in Header
    /\ pc \in {"idle", "insert", "marker", "rewind"}
    /\ tip \in Header
    /\ first \in Numbers
    /\ next \in 0 .. MaxNumber + 1
    /\ target \in Numbers
    /\ batch \subseteq Header
    /\ torn \in BOOLEAN

\* Unless a crash tore a rewind apart, the canonical index is exactly the
\* chain of the current header while no rewind runs: every number up to the
\* head names the head's ancestor, and no number above it names anything.
CanonicalIsHeadChain ==
    ~torn /\ pc # "rewind" =>
        \A n \in Numbers :
            canonical[n] = IF n <= Number[currentHeader]
                           THEN Ancestor[currentHeader][n] ELSE NoHash

\* Unless a crash tore a rewind apart, every ancestor of the current header
\* is stored: the head can always be walked down to genesis.
HeadIsRooted ==
    ~torn => \A n \in 0 .. Number[currentHeader] : Ancestor[currentHeader][n] \in headers

\* What InsertHeaderChain has passed over it has not left behind: every header
\* of the chain treated so far is stored and none of them is heavier than the
\* head, also when a crash had stored it without making it the head.
NoHeavierHeaderSkipped ==
    pc \in {"insert", "marker"} =>
        \A n \in first .. next - 1 :
            /\ Ancestor[tip][n] \in headers
            /\ td[Ancestor[tip][n]] <= localTd

\* Only a rewind (or the crash that interrupts it) gives up total difficulty;
\* importing headers never moves the head to a lighter chain.
HeadNeverLighter ==
    [][pc # "rewind" /\ ~torn => localTd' >= localTd]_vars
=============================================================================
