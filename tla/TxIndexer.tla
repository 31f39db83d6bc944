----------------------------- MODULE TxIndexer -----------------------------
(***************************************************************************)
(* The transaction index (chain_iterator.go, maintainTxIndex and the       *)
(* fast-sync writers of blockchain.go): the lookup entries of the newest   *)
(* txLookupLimit blocks are kept, and the tail names the lowest block that *)
(* is indexed.  One worker at a time extends or shortens the index while   *)
(* blocks are imported and rewound; the process may die at any step.       *)
(*                                                                         *)
(* The transactions of a block are named by its number; block 0 has none.  *)
(***************************************************************************)
EXTENDS Integers, FiniteSets, FiniteSetsExt

CONSTANTS
    txLookupLimit,
    ancientLimit,   \* ancientLimit of the fast sync
    Ancients,       \* blocks in the ancient store when the key-value store is lost
    MaxBlock,       \* bound on block numbers
    MaxSetbacks,    \* bound on rewinds and crashes
    NoTail

ASSUME TxIndexerAssumption ==
    /\ txLookupLimit \in Nat /\ ancientLimit \in Nat /\ Ancients \in Nat \ {0}
    /\ NoTail \notin Int

VARIABLES
    top,        \* the canonical head
    lookup,     \* blocks whose transactions have lookup entries
    tail,       \* TxIndexTail
    event,      \* the ChainHeadEvent in headCh
    job,        \* the indexing goroutine
    fastSync,   \* blocks come from InsertReceiptChain
    setbacks,
    unsure,     \* blocks dealt with as if the first job had indexed what it was to
    leaked      \* entries below the tail that no job owns

txVars == <<top, lookup, tail, event, job, fastSync, setbacks, unsure, leaked>>

Chain == 0..MaxBlock
NoJob == [op |-> "none"]
NoEvent == -1

(* The first block that is to be indexed when n is the newest.             *)
Oldest(n) == IF txLookupLimit = 0 \/ n < txLookupLimit THEN 0 ELSE n - txLookupLimit + 1

Indexing(from, to) ==
    [op |-> "index", to |-> to, last |-> to, left |-> from..(to - 1), queue |-> {}, batch |-> {}]
Unindexing(from, to) ==
    [op |-> "tail", left |-> from..(to - 1), batch |-> {}, to |-> to]

TxInit ==
    /\ event = NoEvent /\ setbacks = 0 /\ tail = NoTail /\ unsure = {} /\ leaked = {}
    /\ \/ top = 0 /\ lookup = {} /\ job = NoJob /\ fastSync \in BOOLEAN
       \* NewBlockChain on an empty database beside an ancient store: maintainTxIndex
       \/ /\ top = Ancients - 1 /\ lookup = {} /\ fastSync = TRUE
          /\ job = Indexing(IF txLookupLimit # 0 /\ Ancients > txLookupLimit
                            THEN Ancients - txLookupLimit ELSE 0, Ancients)

-----------------------------------------------------------------------------
(* The chain *)

Leak(n) == IF tail # NoTail /\ n < tail THEN leaked \cup {n} ELSE leaked

(* writeHeadBlock; the event waits until the loop has taken the last one.  *)
(* A fast sync goes beyond ancientLimit before blocks are imported.        *)
ImportBlock ==
    /\ top < MaxBlock /\ event = NoEvent
    /\ fastSync => top > ancientLimit
    /\ top' = top + 1 /\ event' = top + 1 /\ fastSync' = FALSE
    /\ lookup' = lookup \cup {top + 1} /\ leaked' = Leak(top + 1)
    /\ UNCHANGED <<tail, job, setbacks, unsure>>

(* writeAncient: blocks far below the limit are not indexed, unless a tail *)
(* says that those below are.                                              *)
FastIndexed(n) ==
    \/ txLookupLimit = 0 \/ ancientLimit <= txLookupLimit
    \/ n >= ancientLimit - txLookupLimit \/ tail # NoTail

InsertAncient ==
    /\ fastSync /\ top < ancientLimit
    /\ top' = top + 1
    /\ IF FastIndexed(top + 1)
       THEN lookup' = lookup \cup {top + 1} /\ leaked' = Leak(top + 1) /\ UNCHANGED unsure
       ELSE /\ unsure' = IF job = NoJob THEN unsure ELSE unsure \cup {top + 1}
            /\ UNCHANGED <<lookup, leaked>>
    /\ UNCHANGED <<tail, event, job, fastSync, setbacks>>

(* Before the first live block the tail is written.                        *)
WriteTail ==
    /\ fastSync /\ top = ancientLimit /\ tail = NoTail
    /\ tail' = IF txLookupLimit = 0 \/ ancientLimit <= txLookupLimit THEN 0
               ELSE ancientLimit - txLookupLimit
    /\ unsure' = IF job = NoJob THEN unsure ELSE unsure \cup ((tail'..top) \ lookup)
    /\ UNCHANGED <<top, lookup, event, job, fastSync, setbacks, leaked>>

InsertLive ==
    /\ fastSync /\ top >= ancientLimit /\ top < MaxBlock /\ tail # NoTail
    /\ top' = top + 1
    /\ lookup' = lookup \cup {top + 1} /\ leaked' = Leak(top + 1)
    /\ UNCHANGED <<tail, event, job, fastSync, setbacks, unsure>>

(* SetHead; the entries of the blocks above stay.                          *)
RewindChain ==
    /\ setbacks < MaxSetbacks /\ setbacks' = setbacks + 1 /\ ~fastSync
    /\ \E n \in 0..(top - 1) : top' = n
    /\ UNCHANGED <<lookup, tail, event, job, fastSync, unsure, leaked>>

(* The job that NewBlockChain starts is not started again: what it has not *)
(* indexed when it ends without having written a tail is left out.         *)
LeftOut(last) ==
    IF job.op = "index" /\ last = NoTail THEN unsure \cup ((0..top) \ lookup) ELSE unsure

(* The process dies; with it the job and its batch.                        *)
CrashIndexer ==
    /\ setbacks < MaxSetbacks /\ setbacks' = setbacks + 1
    /\ event' = NoEvent /\ job' = NoJob
    /\ leaked' = IF job.op = "unindex" THEN leaked \cup job.left \cup job.batch ELSE leaked
    /\ unsure' = LeftOut(tail)
    /\ UNCHANGED <<top, lookup, tail, fastSync>>

-----------------------------------------------------------------------------
(* maintainTxIndex *)

(* A head starts a job, and is forgotten while one runs.                   *)
HeadEvent ==
    /\ event # NoEvent /\ event' = NoEvent
    /\ job' = IF job # NoJob THEN job
              ELSE IF tail = NoTail THEN Unindexing(0, Oldest(event))
              ELSE IF Oldest(event) < tail THEN Indexing(Oldest(event), tail)
              ELSE IF Oldest(event) > tail THEN Unindexing(tail, Oldest(event))
              ELSE NoJob
    /\ UNCHANGED <<top, lookup, tail, fastSync, setbacks, unsure, leaked>>

Lowest(queue, last) == Min({n \in 0..last : n..(last - 1) \subseteq queue})

\* Mutant: what arrives is written and becomes the tail whatever is missing above it.
DeliverIndexAny(n) ==
    job' = [job EXCEPT !.left = @ \ {n}, !.batch = @ \cup {n}, !.last = Min({@, n})]

(* A block comes out of iterateTransactions; the threads are not in step,  *)
(* so that it waits until all blocks above it have come.                   *)
DeliverIndex(n) ==
    LET queue == job.queue \cup {n}
        low == Lowest(queue, job.last)
    IN  job' = [job EXCEPT !.left = @ \ {n}, !.last = low,
                           !.queue = {q \in queue : q < low},
                           !.batch = @ \cup (low..(job.last - 1))]

Index(n) ==
    /\ job.op = "index" /\ n \in job.left /\ n <= top
    /\ DeliverIndex(n)
    /\ UNCHANGED <<top, lookup, tail, event, fastSync, setbacks, unsure, leaked>>

(* The body is missing: the thread ends, perhaps the last of them.         *)
Unreadable(n) ==
    /\ job.op \in {"index", "unindex"} /\ n \in job.left /\ n > top
    /\ \E left \in {job.left \ {n}, {}} : job' = [job EXCEPT !.left = left]
    /\ leaked' = IF job.op = "unindex" THEN leaked \cup (job.left \ job'.left) ELSE leaked
    /\ UNCHANGED <<top, lookup, tail, event, fastSync, setbacks, unsure>>

(* A full batch is written, with the tail; so is the last one.  The first  *)
(* job may put it above blocks that were imported meanwhile.               *)
WriteIndex ==
    /\ job.op = "index" /\ job.batch # {}
    /\ lookup' = lookup \cup job.batch /\ tail' = job.last
    /\ job' = [job EXCEPT !.batch = {}]
    /\ leaked' = (leaked \ job.batch)
                  \cup (lookup \cap ((IF tail = NoTail THEN 0 ELSE tail)..(job.last - 1)))
    /\ UNCHANGED <<top, event, fastSync, setbacks, unsure>>

IndexDone ==
    /\ job.op = "index" /\ job.left = {} /\ job.batch = {}
    /\ tail' = IF job.last < job.to THEN job.last ELSE tail
    /\ job' = NoJob
    /\ unsure' = LeftOut(tail')
    /\ UNCHANGED <<top, lookup, event, fastSync, setbacks, leaked>>

(* UnindexTransactions writes the tail first (or, when nothing is to be    *)
(* deleted and there was none, indexBlocks writes it).                     *)
UnindexTail ==
    /\ job.op = "tail"
    /\ tail' = job.to
    /\ job' = [job EXCEPT !.op = "unindex"]
    /\ UNCHANGED <<top, lookup, event, fastSync, setbacks, unsure, leaked>>

Unindex(n) ==
    /\ job.op = "unindex" /\ n \in job.left /\ n <= top
    /\ job' = [job EXCEPT !.left = @ \ {n}, !.batch = @ \cup {n}]
    /\ UNCHANGED <<top, lookup, tail, event, fastSync, setbacks, unsure, leaked>>

WriteUnindex ==
    /\ job.op = "unindex" /\ job.batch # {}
    /\ lookup' = lookup \ job.batch
    /\ job' = [job EXCEPT !.batch = {}]
    /\ UNCHANGED <<top, tail, event, fastSync, setbacks, unsure, leaked>>

UnindexDone ==
    /\ job.op = "unindex" /\ job.left = {} /\ job.batch = {}
    /\ job' = NoJob
    /\ UNCHANGED <<top, lookup, tail, event, fastSync, setbacks, unsure, leaked>>

TxNext ==
    \/ ImportBlock \/ InsertAncient \/ WriteTail \/ InsertLive \/ RewindChain \/ CrashIndexer
    \/ HeadEvent \/ WriteIndex \/ IndexDone
    \/ UnindexTail \/ WriteUnindex \/ UnindexDone
    \/ \E n \in Chain : Index(n) \/ Unreadable(n) \/ Unindex(n)

-----------------------------------------------------------------------------
(* Every canonical block from the tail up can be looked up, whatever the   *)
(* order in which the threads delivered and wherever the process died      *)
(* (IndexTransactions writes the tail with what it covers, Unindex before  *)
(* it deletes).  Not covered are the blocks that fast sync left out, or    *)
(* took for indexed, while the job that NewBlockChain starts was running,  *)
(* and those this job had not reached when it was cut short.               *)
TailCovers == tail # NoTail => (tail..top) \ {0} \subseteq lookup \cup unsure

(* While no job runs nothing below the tail has entries, except what a     *)
(* crash or the first job left, or what was imported there after a rewind. *)
NothingBelowTail ==
    job = NoJob /\ tail # NoTail => {n \in lookup \ {0} : n < tail /\ n <= top} \subseteq leaked

(* The tail is the boundary of the index.                                  *)
TailIsBoundary == TailCovers /\ NothingBelowTail
=============================================================================
