---------------------------- MODULE ChainIndexer ----------------------------
(***************************************************************************)
(* ChainIndexer (chain_indexer.go): sections of the canonical chain are    *)
(* processed in the background while heads and reorganisations arrive; a   *)
(* child indexer is told of the sections its parent has finished.  The     *)
(* lock is not held while a section is processed, so the chain, the event  *)
(* loop and Sections() move meanwhile.                                     *)
(*                                                                         *)
(* The chain is the sequence of the versions of its blocks, and the hash   *)
(* of a block is the chain up to it: a hash names its ancestors.           *)
(***************************************************************************)
EXTENDS Naturals, Sequences, SequencesExt, FiniteSetsExt

CONSTANTS
    Branches,       \* the blocks that may follow a block
    sectionSize,    \* sectionSize
    confirmsReq,    \* confirmsReq of the parent; its child asks for none
    MaxLength,      \* bound on the length of the chain
    Batches,        \* how many blocks one announcement may bring
    MaxHeads,       \* bound on the heads that are announced
    MaxTroubles,    \* bound on backend errors and restarts
    NoHash

\* The bound allows a section; a hash is not NoHash.
ASSUME IndexerAssumption ==
    /\ sectionSize \in Nat \ {0} /\ confirmsReq \in Nat /\ Batches \subseteq Nat
    /\ MaxLength \in Nat /\ MaxHeads \in Nat /\ MaxTroubles \in Nat
    /\ sectionSize <= MaxLength /\ Branches # {} /\ NoHash \notin Seq(Branches)

VARIABLES
    chain,      \* the canonical chain
    events,     \* ChainHeadEvents not yet received
    prev,       \* prevHeader of the event loop
    ix,         \* indexer -> known, stored and cascaded sections, heads, update
    wrk,        \* indexer -> its updateLoop
    checkpoint, \* checkpointSections and checkpointHead of the parent
    attached,   \* the child is among the parent's children
    loop,       \* eventLoop: its goroutine is "starting", "active" or "ended"
    closing,    \* how far Close has come: which quit channel it sends to next
    heads, troubles,
    lost        \* indexer -> a section was dropped and no update has come since

indexerVars == <<chain, events, prev, ix, wrk, checkpoint, attached, loop, closing,
                 heads, troubles, lost>>
stable == <<checkpoint, attached, loop, closing>>

Indexers == {"parent", "child"}
Sections == 0..(MaxLength \div sectionSize)
AtRest == [pc |-> "wait"]
Ended == [pc |-> "ended"]
Confirms(i) == IF i = "parent" THEN confirmsReq ELSE 0
CheckpointOf(i) == IF i = "parent" THEN checkpoint.sections ELSE 0

(* rawdb.ReadCanonicalHash and rawdb.FindCommonAncestor *)
CanonicalHash(n) == IF n < Len(chain) THEN SubSeq(chain, 1, n + 1) ELSE NoHash
CommonAncestor(a, b) == Max({n \in 0..Min({Len(a), Len(b)}) : SubSeq(a, 1, n) = SubSeq(b, 1, n)})

SectionHead(r, s) == r.heads[s]

(* setValidSections: the heads of the sections that are dropped go too.    *)
SetValidSections(r, n) ==
    [r EXCEPT !.stored = n,
              !.heads = [s \in Sections |-> IF s >= n /\ s < r.stored THEN NoHash ELSE @[s]]]

SetSectionHead(r, s, hash) == [r EXCEPT !.heads[s] = hash]

\* Mutant: at most one section is dropped.
VerifyLastHeadOnce(r, i) ==
    IF r.stored = 0 \/ r.stored <= CheckpointOf(i)
       \/ SectionHead(r, r.stored - 1) = CanonicalHash(r.stored * sectionSize - 1)
    THEN r ELSE SetValidSections(r, r.stored - 1)

(* verifyLastHead drops sections until one ends in a canonical block.      *)
VerifyLastHead(r, i) ==
    LET holds(n) == \/ n = 0 \/ n <= CheckpointOf(i)
                    \/ SectionHead(r, n - 1) = CanonicalHash(n * sectionSize - 1)
    IN  SetValidSections(r, Max({n \in 0..r.stored : holds(n)}))

-----------------------------------------------------------------------------
(* newHead with reorg: nothing above the common ancestor is known.         *)
NewHeadReorg(r, i, head) ==
    LET complete == (head + 1) \div sectionSize
        known == IF complete < CheckpointOf(i) THEN 0 ELSE complete
        stored == Max({complete, CheckpointOf(i)})
        s == IF stored < r.stored THEN SetValidSections(r, stored) ELSE r
    IN  [s EXCEPT !.known = Min({@, known}), !.cascaded = Min({@, known * sectionSize})]

(* newHead without: sections that are confirmed become known, and the      *)
(* update loop is woken.                                                   *)
NewHeadForward(r, i, head) ==
    LET complete == (head + 1 - Confirms(i)) \div sectionSize
        sections == IF complete < CheckpointOf(i) THEN 0 ELSE complete
    IN  IF /\ head >= Confirms(i)
           /\ sections > r.known
           /\ \/ r.known >= CheckpointOf(i)
              \/ CanonicalHash(CheckpointOf(i) * sectionSize - 1) = checkpoint.head
        THEN [r EXCEPT !.known = sections, !.update = TRUE]
        ELSE r

(* A reorganisation cascades when it reaches below what was cascaded.      *)
AfterReorg(all, head) ==
    LET p == NewHeadReorg(all["parent"], "parent", head)
    IN  [i \in Indexers |->
            IF i = "parent" THEN p
            ELSE IF attached /\ p.cascaded < all["parent"].cascaded
                 THEN NewHeadReorg(all["child"], "child", p.cascaded)
                 ELSE all["child"]]

-----------------------------------------------------------------------------
Fresh == [known |-> 0, stored |-> 0, cascaded |-> 0, update |-> FALSE, timer |-> FALSE,
          heads |-> [s \in Sections |-> NoHash]]

IndexerInit ==
    /\ chain = <<CHOOSE v \in Branches : TRUE>>
    /\ events = <<>> /\ prev = chain
    /\ ix = [i \in Indexers |-> Fresh]
    /\ wrk = [i \in Indexers |-> AtRest]
    /\ checkpoint = [sections |-> 0, head |-> NoHash]
    /\ attached = FALSE /\ loop = "starting" /\ closing = "no"
    /\ heads = 0 /\ troubles = 0 /\ lost = [i \in Indexers |-> FALSE]

(* The block chain moves to another head, which need not be higher, and    *)
(* announces it.  A batch of imported blocks is announced once.            *)
ChainHead ==
    /\ heads < MaxHeads /\ heads' = heads + 1
    /\ \E keep \in 1..Len(chain), new \in Batches :
           /\ keep + new >= Len(chain) /\ keep + new <= MaxLength
           /\ \E v \in Branches :
                  /\ chain' = SubSeq(chain, 1, keep) \o [n \in 1..new |-> v]
                  /\ keep < Len(chain) => v # chain[keep + 1]
           /\ events' = Append(events, chain')
    /\ UNCHANGED <<prev, ix, wrk, stable, troubles, lost>>

(* Start: the event loop's goroutine runs, and first announces the header  *)
(* that was current when it was made.                                      *)
StartLoop ==
    /\ loop = "starting" /\ loop' = "active"
    /\ ix' = [ix EXCEPT !["parent"] = NewHeadForward(@, "parent", Len(prev) - 1)]
    /\ UNCHANGED <<chain, events, prev, wrk, checkpoint, attached, closing, heads, troubles, lost>>

(* AddChildIndexer: the child is told of what the parent has.              *)
AddChildIndexer ==
    LET sections == Min({ix["parent"].stored, ix["parent"].known})
    IN  /\ ~attached /\ attached' = TRUE /\ closing = "no"
        /\ ix' = IF sections = 0 THEN ix
                 ELSE [ix EXCEPT !["child"] = NewHeadForward(@, "child", sections * sectionSize - 1)]
        /\ UNCHANGED <<chain, events, prev, wrk, checkpoint, loop, closing, heads, troubles, lost>>

(* eventLoop: a head that does not extend the previous one, which is no    *)
(* longer canonical, first takes the index back to their common ancestor.  *)
EventLoop ==
    /\ loop = "active" /\ events # <<>>
    /\ LET header == Head(events)
           reorged == Front(header) # prev /\ CanonicalHash(Len(prev) - 1) # prev
           back == IF reorged THEN AfterReorg(ix, CommonAncestor(prev, header) - 1) ELSE ix
       IN  /\ ix' = [back EXCEPT !["parent"] = NewHeadForward(@, "parent", Len(header) - 1)]
           /\ prev' = header
    /\ events' = Tail(events)
    /\ lost' = [lost EXCEPT !["parent"] = @ /\ ~ix'["parent"].update]
    /\ UNCHANGED <<chain, wrk, stable, heads, troubles>>

-----------------------------------------------------------------------------
(* updateLoop *)

TakeUpdate(i) ==
    LET r == [ix[i] EXCEPT !.update = FALSE]
        v == VerifyLastHead(r, i)
        old == IF v.stored = 0 THEN <<>> ELSE SectionHead(v, v.stored - 1)
    IN  /\ wrk[i] = AtRest /\ ix[i].update
        /\ IF r.known > r.stored
           THEN /\ ix' = [ix EXCEPT ![i] = v]
                /\ wrk' = [wrk EXCEPT ![i] = [pc |-> "process", section |-> v.stored,
                              oldHead |-> old, lastHead |-> old, number |-> v.stored * sectionSize]]
           ELSE /\ ix' = [ix EXCEPT ![i] = r] /\ UNCHANGED wrk
        /\ UNCHANGED <<chain, events, prev, stable, heads, troubles, lost>>

Failed(i) == [wrk EXCEPT ![i].pc = "failed"]

\* Mutant: the parent of a block is not compared.
ProcessBlockAny(i) ==
    LET job == wrk[i]
        hash == CanonicalHash(job.number)
    IN  /\ job.pc = "process" /\ job.number < (job.section + 1) * sectionSize
        /\ wrk' = IF hash = NoHash THEN Failed(i)
                  ELSE [wrk EXCEPT ![i].lastHead = hash, ![i].number = @ + 1]
        /\ UNCHANGED <<chain, events, prev, ix, stable, heads, troubles, lost>>

(* One block of processSection: it must be there and follow the last one.  *)
ProcessBlock(i) ==
    LET job == wrk[i]
        hash == CanonicalHash(job.number)
    IN  /\ job.pc = "process" /\ job.number < (job.section + 1) * sectionSize
        /\ wrk' = IF hash = NoHash \/ Front(hash) # job.lastHead THEN Failed(i)
                  ELSE [wrk EXCEPT ![i].lastHead = hash, ![i].number = @ + 1]
        /\ UNCHANGED <<chain, events, prev, ix, stable, heads, troubles, lost>>

(* The backend fails, of itself or because Close cancelled the context.    *)
(* If it is its Reset, all sections are dropped, and the lock is not held. *)
BackendFails(i) ==
    /\ wrk[i].pc = "process"
    /\ IF closing = "no" THEN troubles < MaxTroubles /\ troubles' = troubles + 1
       ELSE UNCHANGED troubles
    /\ wrk' = Failed(i)
    /\ \/ UNCHANGED ix
       \/ /\ wrk[i].number = wrk[i].section * sectionSize
          /\ ix' = [ix EXCEPT ![i] = SetValidSections(@, 0)]
    /\ UNCHANGED <<chain, events, prev, stable, heads, lost>>

(* The result counts if the section it builds on is still the one before.  *)
Accepts(i) ==
    /\ wrk[i].pc = "process"
    /\ \/ wrk[i].section = 0
       \/ wrk[i].oldHead = SectionHead(ix[i], wrk[i].section - 1)

\* Mutant: the next section waits for the next head.
RearmedNever(r) == r

(* More sections to do: the update is repeated after the throttling time.  *)
Rearmed(r) == [r EXCEPT !.timer = (@ \/ r.known > r.stored)]

Finish(i) ==
    LET job == wrk[i]
        done == SetValidSections(SetSectionHead(ix[i], job.section, job.lastHead), job.section + 1)
        head == done.stored * sectionSize - 1
        r == VerifyLastHead(ix[i], i)
    IN  /\ \/ job.pc = "failed" /\ closing = "no"
           \/ job.pc = "process" /\ job.number = (job.section + 1) * sectionSize
        /\ IF Accepts(i)
           THEN ix' = [j \in Indexers |->
                          IF j = i THEN Rearmed([done EXCEPT !.cascaded = head])
                          ELSE IF i = "parent" /\ attached THEN NewHeadForward(ix[j], j, head)
                          ELSE ix[j]]
           ELSE ix' = [ix EXCEPT ![i] = [r EXCEPT !.known = r.stored]]
        /\ lost' = [j \in Indexers |-> IF j = i THEN lost[j] \/ ~Accepts(i)
                                       ELSE lost[j] /\ ~ix'[j].update]
        /\ wrk' = [wrk EXCEPT ![i] = AtRest]
        /\ UNCHANGED <<chain, events, prev, stable, heads, troubles>>

(* The throttled update fires. *)
Throttled(i) ==
    /\ ix[i].timer
    /\ ix' = [ix EXCEPT ![i].timer = FALSE, ![i].update = TRUE]
    /\ UNCHANGED <<chain, events, prev, wrk, stable, heads, troubles, lost>>

(* Sections: what a reader is told is verified first.                      *)
ReadSections(i) ==
    /\ ix[i].stored > 0
    /\ ix' = [ix EXCEPT ![i] = VerifyLastHead(@, i)]
    /\ lost' = [lost EXCEPT ![i] = @ \/ ix'[i].stored < ix[i].stored]
    /\ UNCHANGED <<chain, events, prev, wrk, stable, heads, troubles>>

(* AddCheckpoint on a chain that has not reached it, or has.               *)
AddCheckpoint ==
    /\ checkpoint.sections = 0 /\ heads = 0
    /\ ix["parent"].stored = 0
    /\ \E v \in Branches : LET hash == chain \o [n \in 1..(sectionSize - 1) |-> v] IN
           /\ checkpoint' = [sections |-> 1, head |-> hash]
           /\ ix' = [ix EXCEPT !["parent"] = SetValidSections(SetSectionHead(@, 0, hash), 1)]
    /\ UNCHANGED <<chain, events, prev, wrk, attached, loop, closing, heads, troubles, lost>>

(* The process restarts: the counts and heads are in the database, and     *)
(* Start announces the current header.                                     *)
RestartIndexer ==
    /\ troubles < MaxTroubles /\ troubles' = troubles + 1 /\ checkpoint.sections = 0
    /\ LET loaded(i) == [ix[i] EXCEPT !.known = 0, !.cascaded = 0,
                                      !.update = FALSE, !.timer = FALSE]
       IN  ix' = [i \in Indexers |-> loaded(i)]
    /\ events' = <<>> /\ prev' = chain
    /\ wrk' = [i \in Indexers |-> AtRest]
    /\ attached' = FALSE /\ loop' = "starting" /\ closing' = "no"
    /\ lost' = [i \in Indexers |-> i = "child"]
    /\ UNCHANGED <<chain, checkpoint, heads>>

-----------------------------------------------------------------------------
(* Close: the context is cancelled; then one goroutine of the parent after *)
(* another takes what is sent to quit, the event loop only if it is seen   *)
(* to be active; then the child is closed.                                 *)
Close ==
    /\ closing = "no" /\ closing' = "first"
    /\ UNCHANGED <<chain, events, prev, ix, wrk, checkpoint, attached, loop, heads, troubles, lost>>

Closed == IF attached THEN "child" ELSE "done"

QuitTaken(i) ==
    closing' = IF i = "child" THEN "done"
               ELSE IF closing = "first" /\ loop # "starting" THEN "second" ELSE Closed

(* updateLoop takes it between two updates, or after a section failed.     *)
QuitUpdateLoop(i) ==
    /\ wrk[i].pc \in {"wait", "failed"}
    /\ closing \in IF i = "parent" THEN {"first", "second"} ELSE {"child"}
    /\ wrk' = [wrk EXCEPT ![i] = Ended] /\ QuitTaken(i)
    /\ UNCHANGED <<chain, events, prev, ix, checkpoint, attached, loop, heads, troubles, lost>>

QuitEventLoop ==
    /\ loop = "active" /\ closing \in {"first", "second"}
    /\ loop' = "ended" /\ QuitTaken("parent")
    /\ UNCHANGED <<chain, events, prev, ix, wrk, checkpoint, attached, heads, troubles, lost>>

IndexerStep(i) ==
    TakeUpdate(i) \/ ProcessBlock(i) \/ Finish(i) \/ QuitUpdateLoop(i)

IndexerNext ==
    \/ ChainHead \/ StartLoop \/ EventLoop \/ AddCheckpoint \/ AddChildIndexer
    \/ RestartIndexer \/ Close \/ QuitEventLoop
    \/ \E i \in Indexers : \/ IndexerStep(i) \/ BackendFails(i)
                           \/ Throttled(i) \/ ReadSections(i)

-----------------------------------------------------------------------------
IndexerTypeOK ==
    /\ chain \in Seq(Branches) /\ Len(chain) \in 1..MaxLength
    /\ \A i \in Indexers :
           /\ ix[i].known \in Sections /\ ix[i].stored \in Sections
           /\ ix[i].cascaded \in 0..MaxLength
           /\ wrk[i].pc \in {"wait", "process", "failed", "ended"}

(* The sections an indexer stores are those of one chain: every section    *)
(* head descends from the one before, although heads and reorganisations   *)
(* arrived while the sections were processed (updateLoop accepts a result, *)
(* newHead and processSection drop).  A checkpoint is taken on trust.      *)
SectionsLinked ==
    \A i \in Indexers : \A s \in 1..(ix[i].stored - 1) :
        s > CheckpointOf(i) => IsPrefix(SectionHead(ix[i], s - 1), SectionHead(ix[i], s))

(* A reader is given sections of the canonical chain, all of them.         *)
ReadersSeeCanonical ==
    [][\A i \in Indexers : ReadSections(i) =>
          \A s \in CheckpointOf(i)..(ix'[i].stored - 1) :
              ix'[i].heads[s] = CanonicalHash((s + 1) * sectionSize - 1)]_indexerVars

(* When everything is at rest, all sections that are known are stored,     *)
(* unless processing failed or a reader found one to be of another chain:  *)
(* only a head that completes a further section wakes the indexer then.    *)
IndexCatchesUp ==
    events = <<>> /\ (\A i \in Indexers : wrk[i] = AtRest /\ ~ix[i].update /\ ~ix[i].timer) =>
        \A i \in Indexers : lost[i] \/ ix[i].stored >= ix[i].known

(* Close does not wait for ever, although a section is being processed and *)
(* either loop of the parent may take the first of the two quits.          *)
CloseReturns ==
    closing \in {"first", "second", "child"} =>
        ENABLED (QuitEventLoop \/ \E i \in Indexers : IndexerStep(i) \/ BackendFails(i))

(* What is stored belongs to one chain.                                    *)
IndexConsistent == IndexerTypeOK /\ SectionsLinked

(* The indexer comes to rest only when it is up to date or closed.         *)
IndexerNeverStuck == IndexCatchesUp /\ CloseReturns
=============================================================================
