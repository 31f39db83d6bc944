---------------------------- MODULE TxPoolReorg ----------------------------
(***************************************************************************)
(* The goroutines of the transaction pool (tx_pool.go) and the channels    *)
(* between them: callers of addTxs, the pool's loop, scheduleReorgLoop,    *)
(* the runReorg goroutines it launches, and Stop.                          *)
(*                                                                         *)
(* What a reorganisation does to the transactions is the business of       *)
(* module TxPool; here a run is known by the accounts it promotes, the     *)
(* heads it resets between and the events it was handed.                   *)
(*                                                                         *)
(* A send on an unbuffered channel and its receive are one step.  An open  *)
(* done channel is an element of Chan, a closed one is Closed wherever it  *)
(* is held; make(chan struct{}) takes one that nobody refers to.           *)
(***************************************************************************)
EXTENDS Naturals, Sequences, FiniteSets

CONSTANTS
    Adder,      \* callers of addTxs, each adding for an account of its own
    Chan,       \* done channels
    MaxHead,    \* bound: the chain stops growing at this head
    chainHeadChanSize,  \* capacity of chainHeadCh
    Closed,     \* a closed channel
    None        \* nil: no channel, no request, no holder

Heads        == 0..MaxHead
ResetRequest == [old : Heads, new : Heads]

\* A runReorg goroutine: the reset it was launched with, the accounts it has
\* yet to look at, and the callers' events it is sure to announce.
RunState     ==
    [pc : {"lock", "event", "send"}, reset : ResetRequest \cup {None},
     dirty : SUBSET Adder, events : SUBSET Adder]

ASSUME ReorgConstants ==
    /\ MaxHead \in Nat
    /\ chainHeadChanSize \in Nat \ {0}
    /\ Chan # {} /\ Adder \cap Chan = {}
    /\ Closed \notin Chan
    /\ None \notin Adder \cup Chan \cup Heads \cup ResetRequest \cup RunState \cup {Closed}

VARIABLES
    mu,             \* who holds pool.mu
    \* callers of addTxs
    pc,             \* pc[a]: where caller a stands
    done,           \* done[a]: the channel requestPromoteExecutables returned
    dirty,          \* dirty[a]: the call inserted a new transaction
    \* pool.loop and the chain it listens to
    loopPc,
    loopHead,       \* loop's local head
    chainHead,      \* the chain's current block
    chainHeadCh,    \* chain head events not yet received
    ev,             \* the event loop handles
    stopPc,         \* where the caller of Stop stands
    \* locals of scheduleReorgLoop
    schedPc, curDone, nextDone, launchNextRun, reset, dirtyAccounts, queuedEvents,
    \* runReorg goroutines, channels, pool state
    run,            \* run[c]: the goroutine that closes channel c, if any
    reorgShutdownCh,\* TRUE when closed
    poolHead,       \* the head pool.currentState belongs to
    \* history
    unpromoted,     \* accounts with an insertion no run has looked at
    resetTo         \* the head a run last called reset for, whether or not it got there

addVars   == <<pc, done, dirty>>
loopVars  == <<loopPc, loopHead, chainHead, chainHeadCh, ev, stopPc>>
reqVars   == <<launchNextRun, reset, dirtyAccounts, queuedEvents>>
schedVars == <<schedPc, curDone, nextDone, reqVars>>
poolVars  == <<poolHead, unpromoted, resetTo>>
vars      == <<mu, addVars, loopVars, schedVars, run, reorgShutdownCh, poolVars>>

Init ==
    /\ mu = None
    /\ pc = [a \in Adder |-> "idle"]
    /\ done = [a \in Adder |-> None]
    /\ dirty = [a \in Adder |-> FALSE]
    /\ loopPc = "new" /\ loopHead = 0
    /\ chainHead = 0 /\ chainHeadCh = <<>> /\ ev = None
    /\ stopPc = "none"
    /\ schedPc = "select" /\ curDone = None /\ nextDone \in Chan
    /\ launchNextRun = FALSE /\ reset = None
    /\ dirtyAccounts = {} /\ queuedEvents = {}
    /\ run = [c \in Chan |-> None]
    /\ reorgShutdownCh = FALSE
    /\ poolHead = 0 /\ unpromoted = {} /\ resetTo = None

-----------------------------------------------------------------------------
(* addTxs                                                                  *)

AddTxs(a) ==
    /\ pc[a] = "idle"
    /\ pc' = [pc EXCEPT ![a] = "lock"]
    /\ UNCHANGED <<mu, done, dirty, loopVars, schedVars, run, reorgShutdownCh, poolVars>>

\* addTxsLocked under pool.mu: d says whether some transaction is new in its
\* list, e whether some transaction replaces a pending one.  That one is
\* announced with the mutex held; otherwise nothing blocks before the unlock.
AddTxsLocked(a, d, e) ==
    /\ pc[a] = "lock"
    /\ mu = None
    /\ mu' = IF e THEN a ELSE None
    /\ pc' = [pc EXCEPT ![a] = IF e THEN "event" ELSE "request"]
    /\ dirty' = [dirty EXCEPT ![a] = d]
    /\ unpromoted' = IF d THEN unpromoted \cup {a} ELSE unpromoted
    /\ UNCHANGED <<done, loopVars, schedVars, run, reorgShutdownCh,
                   poolHead, resetTo>>

\* Mutant: a run that has no accounts to promote is not launched.
LaunchDueForAccounts == curDone = None /\ launchNextRun /\ dirtyAccounts # {}

\* The scheduler's loop begins with launching the next run.
LaunchDue == curDone = None /\ launchNextRun

\* The scheduler stands in its select.
Selecting == schedPc = "select" /\ ~LaunchDue

\* Mutant: the event is offered to the scheduler only.
OfferTxEventNoShutdown(e) == Selecting /\ queuedEvents' = queuedEvents \cup e

\* The select of queueTxEvent; e is the caller the event is for, or nobody.
OfferTxEvent(e) ==
    \/ Selecting /\ queuedEvents' = queuedEvents \cup e
    \/ reorgShutdownCh /\ UNCHANGED queuedEvents

\* queueTxEvent, then pool.mu is released.
QueueTxEvent(a) ==
    /\ pc[a] = "event"
    /\ OfferTxEvent({a})
    /\ mu' = None
    /\ pc' = [pc EXCEPT ![a] = "request"]
    /\ UNCHANGED <<done, dirty, loopVars, schedPc, curDone, nextDone,
                   launchNextRun, reset, dirtyAccounts, run, reorgShutdownCh,
                   poolVars>>

\* Mutant: the request replaces the one that is pending.
MergeDirtyOverwrite(a) == IF dirty[a] THEN {a} ELSE {}

\* How the scheduler merges a caller's accounts with those it has.
MergeDirty(a) == IF dirty[a] THEN dirtyAccounts \cup {a} ELSE dirtyAccounts

\* requestPromoteExecutables: the request is taken ...
RequestPromote(a) ==
    /\ pc[a] = "request"
    /\ Selecting
    /\ dirtyAccounts' = MergeDirty(a)
    /\ launchNextRun' = TRUE
    /\ schedPc' = "reply"
    /\ pc' = [pc EXCEPT ![a] = "reply"]
    /\ dirty' = [dirty EXCEPT ![a] = FALSE]
    /\ UNCHANGED <<mu, done, loopVars, curDone, nextDone, reset, queuedEvents,
                   run, reorgShutdownCh, poolVars>>

\* Mutant: the channel of the active run, if there is one.
DoneChanActive == IF curDone = None THEN nextDone ELSE curDone

\* The channel the scheduler answers with.
DoneChan == nextDone

\* ... and answered with the channel of the next run, which a synchronous
\* call waits for.
PromoteReply(a, sync) ==
    /\ pc[a] = "reply"
    /\ schedPc = "reply"
    /\ schedPc' = "select"
    /\ done' = [done EXCEPT ![a] = IF sync THEN DoneChan ELSE None]
    /\ pc' = [pc EXCEPT ![a] = IF sync THEN "wait" ELSE "idle"]
    /\ UNCHANGED <<mu, dirty, loopVars, curDone, nextDone, reqVars, run,
                   reorgShutdownCh, poolVars>>

\* The pool is shutting down: the closed shutdown channel is returned.
RequestPromoteShutdown(a) ==
    /\ pc[a] = "request"
    /\ reorgShutdownCh
    /\ pc' = [pc EXCEPT ![a] = "idle"]
    /\ dirty' = [dirty EXCEPT ![a] = FALSE]
    /\ UNCHANGED <<mu, done, loopVars, schedVars, run, reorgShutdownCh,
                   poolVars>>

AddDone(a) ==
    /\ pc[a] = "wait"
    /\ done[a] = Closed
    /\ pc' = [pc EXCEPT ![a] = "idle"]
    /\ done' = [done EXCEPT ![a] = None]
    /\ UNCHANGED <<mu, dirty, loopVars, schedVars, run, reorgShutdownCh,
                   poolVars>>

-----------------------------------------------------------------------------
(* The chain, the pool's loop and Stop                                     *)

HasRoom == Len(chainHeadCh) < chainHeadChanSize

\* The chain grows; from the subscription on, the pool gets an event for it,
\* and the sender waits for room in the channel.  (After Stop nobody looks.)
ChainAdvances ==
    /\ stopPc = "none"
    /\ chainHead < MaxHead
    /\ chainHead' = chainHead + 1
    /\ IF loopPc = "new"
       THEN UNCHANGED chainHeadCh
       ELSE /\ HasRoom
            /\ chainHeadCh' = Append(chainHeadCh, chainHead + 1)
    /\ UNCHANGED <<mu, addVars, loopPc, loopHead, ev, stopPc, schedVars, run,
                   reorgShutdownCh, poolVars>>

\* NewTxPool subscribes and starts loop, which reads the head again later.
Subscribe ==
    /\ loopPc = "new"
    /\ loopPc' = "start"
    /\ UNCHANGED <<mu, addVars, loopHead, chainHead, chainHeadCh, ev, stopPc, schedVars,
                   run, reorgShutdownCh, poolVars>>

LoopStart ==
    /\ loopPc = "start"
    /\ loopPc' = "select"
    /\ loopHead' = chainHead
    /\ UNCHANGED <<mu, addVars, chainHead, chainHeadCh, ev, stopPc, schedVars, run,
                   reorgShutdownCh, poolVars>>

\* case ev := <-pool.chainHeadCh
ChainHeadEvent ==
    /\ loopPc = "select"
    /\ chainHeadCh # <<>>
    /\ loopPc' = "request"
    /\ ev' = Head(chainHeadCh)
    /\ chainHeadCh' = Tail(chainHeadCh)
    /\ UNCHANGED <<mu, addVars, loopHead, chainHead, stopPc, schedVars,
                   run, reorgShutdownCh, poolVars>>

\* Mutant: the later request replaces the pending one.
MergeResetOverwrite(req) == req

\* How the scheduler merges a reset request with one that is pending.
MergeReset(req) ==
    IF reset = None THEN req ELSE [old |-> reset.old, new |-> req.new]

\* requestReset: the request is taken ...
RequestReset ==
    /\ loopPc = "request"
    /\ Selecting
    /\ reset' = MergeReset([old |-> loopHead, new |-> ev])
    /\ launchNextRun' = TRUE
    /\ schedPc' = "reply"
    /\ loopPc' = "reply"
    /\ UNCHANGED <<mu, addVars, loopHead, chainHead, chainHeadCh, ev, stopPc, curDone,
                   nextDone, dirtyAccounts, queuedEvents, run, reorgShutdownCh,
                   poolVars>>

\* ... and answered; then head = ev.Block.
ResetReply ==
    /\ loopPc = "reply"
    /\ schedPc = "reply"
    /\ schedPc' = "select"
    /\ loopPc' = "select"
    /\ loopHead' = ev
    /\ ev' = None
    /\ UNCHANGED <<mu, addVars, chainHead, chainHeadCh, stopPc, curDone, nextDone, reqVars, run,
                   reorgShutdownCh, poolVars>>

\* The report, eviction and journal tickers: work under pool.mu that cannot
\* block once the mutex is taken.
Tick ==
    /\ loopPc = "select"
    /\ loopPc' = "lock"
    /\ UNCHANGED <<mu, addVars, loopHead, chainHead, chainHeadCh, ev, stopPc, schedVars,
                   run, reorgShutdownCh, poolVars>>

TickLocked ==
    /\ loopPc = "lock"
    /\ mu = None
    /\ loopPc' = "select"
    /\ UNCHANGED <<mu, addVars, loopHead, chainHead, chainHeadCh, ev, stopPc, schedVars,
                   run, reorgShutdownCh, poolVars>>

\* case <-pool.chainHeadSub.Err()
LoopShutdown ==
    /\ loopPc = "select"
    /\ stopPc # "none"
    /\ loopPc' = "exited"
    /\ reorgShutdownCh' = TRUE
    /\ UNCHANGED <<mu, addVars, loopHead, chainHead, chainHeadCh, ev, stopPc, schedVars,
                   run, poolVars>>

\* Stop: the subscription is ended, then the goroutines are waited for.
Stop ==
    /\ stopPc = "none"
    /\ loopPc # "new"
    /\ stopPc' = "wait"
    /\ UNCHANGED <<mu, addVars, loopPc, loopHead, chainHead, chainHeadCh, ev, schedVars,
                   run, reorgShutdownCh, poolVars>>

StopDone ==
    /\ stopPc = "wait"
    /\ loopPc = "exited" /\ schedPc = "exited"
    /\ stopPc' = "stopped"
    /\ UNCHANGED <<mu, addVars, loopPc, loopHead, chainHead, chainHeadCh, ev, schedVars,
                   run, reorgShutdownCh, poolVars>>

-----------------------------------------------------------------------------
(* scheduleReorgLoop                                                       *)

\* Channels somebody can still wait for or close.
Referenced ==
    {curDone, nextDone} \cup {done[a] : a \in Adder} \cup {c \in Chan : run[c] # None}

\* close(c): whoever holds c holds a closed channel.
Close(c) ==
    /\ done' = [a \in Adder |-> IF done[a] = c THEN Closed ELSE done[a]]
    /\ curDone' = IF curDone = c THEN Closed ELSE curDone

LaunchReorg(c) ==
    /\ schedPc = "select"
    /\ LaunchDue
    /\ c \in Chan \ Referenced
    /\ run' = [run EXCEPT ![nextDone] =
                [pc |-> "lock", reset |-> reset, dirty |-> dirtyAccounts,
                 events |-> queuedEvents]]
    /\ curDone' = nextDone
    /\ nextDone' = c
    /\ launchNextRun' = FALSE
    /\ reset' = None /\ dirtyAccounts' = {} /\ queuedEvents' = {}
    /\ UNCHANGED <<mu, addVars, loopVars, schedPc, reorgShutdownCh, poolVars>>

\* case <-curDone
ReorgDone ==
    /\ schedPc = "select"
    /\ curDone = Closed
    /\ curDone' = None
    /\ UNCHANGED <<mu, addVars, loopVars, schedPc, nextDone, reqVars, run,
                   reorgShutdownCh, poolVars>>

\* case <-pool.reorgShutdownCh: the active run is waited for, then those who
\* wait for the next one are released.
SchedulerShutdown ==
    /\ Selecting
    /\ reorgShutdownCh
    /\ schedPc' = "drain"
    /\ UNCHANGED <<mu, addVars, loopVars, curDone, nextDone, reqVars, run,
                   reorgShutdownCh, poolVars>>

SchedulerExit ==
    /\ schedPc = "drain"
    /\ curDone \in {None, Closed}
    /\ schedPc' = "exited"
    /\ Close(nextDone)
    /\ nextDone' = Closed
    /\ UNCHANGED <<mu, pc, dirty, loopVars, reqVars, run,
                   reorgShutdownCh, poolVars>>

-----------------------------------------------------------------------------
(* runReorg(done = c)                                                      *)

\* reset, which an unknown block or a missing state ends early, before it
\* has changed anything.  A reinjected transaction may replace a pending one,
\* which is announced, if the reset does not start from the head the pool is
\* at (otherwise its nonce is below every pending one).
Reset(request, ok, e) ==
    /\ e => ok /\ request.old # poolHead
    /\ poolHead' = IF ok THEN request.new ELSE poolHead
    /\ resetTo' = request.new

\* The part under pool.mu.  With a reset every queued account is looked at,
\* and no event is sure to be announced: what is below the pending nonce is
\* dropped, which is what the new state has executed or, if reset ended early
\* and left the nonces as they were, all that is pending.
RunLocked(c, ok, e) ==
    /\ run[c] # None /\ run[c].pc = "lock"
    /\ mu = None
    /\ mu' = IF e THEN c ELSE None
    /\ run' = [run EXCEPT ![c].pc = IF e THEN "event" ELSE "send", ![c].dirty = {},
                          ![c].events = IF run[c].reset = None THEN @ ELSE {}]
    /\ IF run[c].reset # None
       THEN Reset(run[c].reset, ok, e) /\ unpromoted' = {}
       ELSE /\ ok /\ ~e
            /\ unpromoted' = unpromoted \ run[c].dirty
            /\ UNCHANGED <<poolHead, resetTo>>
    /\ UNCHANGED <<addVars, loopVars, schedVars, reorgShutdownCh>>

\* queueTxEvent of a reinjected transaction, then pool.mu is released.  Such
\* an event is not followed further: it is sent with whatever run comes next.
RunQueueTxEvent(c) ==
    /\ run[c] # None /\ run[c].pc = "event"
    /\ OfferTxEvent({})
    /\ mu' = None
    /\ run' = [run EXCEPT ![c].pc = "send"]
    /\ UNCHANGED <<addVars, loopVars, schedPc, curDone, nextDone, launchNextRun,
                   reset, dirtyAccounts, reorgShutdownCh, poolVars>>

\* txFeed.Send returns and the deferred close(done) runs.
RunSend(c) ==
    /\ run[c] # None /\ run[c].pc = "send"
    /\ run' = [run EXCEPT ![c] = None]
    /\ Close(c)
    /\ UNCHANGED <<mu, pc, dirty, loopVars, schedPc, nextDone, reqVars, reorgShutdownCh, poolVars>>

-----------------------------------------------------------------------------

AdderStep(a) ==
    \/ \E d, e \in BOOLEAN : AddTxsLocked(a, d, e)
    \/ QueueTxEvent(a)
    \/ RequestPromote(a)
    \/ \E sync \in BOOLEAN : PromoteReply(a, sync)
    \/ RequestPromoteShutdown(a)
    \/ AddDone(a)

LoopStep ==
    \/ Subscribe \/ LoopStart
    \/ RequestReset \/ ResetReply
    \/ TickLocked

SchedulerStep ==
    \/ \E c \in Chan : LaunchReorg(c)
    \/ SchedulerExit

RunStep(c) ==
    \/ \E ok, e \in BOOLEAN : RunLocked(c, ok, e)
    \/ RunQueueTxEvent(c)
    \/ RunSend(c)

Next ==
    \/ \E a \in Adder : AddTxs(a) \/ AdderStep(a)
    \/ ChainAdvances
    \/ LoopStep \/ ChainHeadEvent \/ Tick \/ LoopShutdown
    \/ Stop \/ StopDone
    \/ SchedulerStep \/ ReorgDone \/ SchedulerShutdown
    \/ \E c \in Chan : RunStep(c)

Spec == Init /\ [][Next]_vars

(***************************************************************************)
(* A goroutine that can go on does.  Where others can get in the way again *)
(* and again (a mutex that is handed on, a select that picks one of its    *)
(* ready cases at random) what stays possible is done in the end: strong   *)
(* fairness.  Calls, ticks, new heads and Stop are owed to nobody.         *)
(***************************************************************************)
Fairness ==
    /\ \A a \in Adder : WF_vars(AdderStep(a))
    /\ SF_vars(LoopStep) /\ SF_vars(ChainHeadEvent) /\ SF_vars(LoopShutdown)
    /\ WF_vars(StopDone)
    /\ WF_vars(SchedulerStep) /\ SF_vars(ReorgDone) /\ SF_vars(SchedulerShutdown)
    /\ SF_vars(\E c \in Chan : RunStep(c))

FairSpec == Spec /\ Fairness

-----------------------------------------------------------------------------

\* Shape of the state.
TypeOK ==
    /\ mu \in Adder \cup Chan \cup {None}
    /\ pc \in [Adder -> {"idle", "lock", "event", "request", "reply", "wait"}]
    /\ done \in [Adder -> Chan \cup {None, Closed}]
    /\ dirty \in [Adder -> BOOLEAN]
    /\ loopPc \in {"new", "start", "select", "request", "reply", "lock", "exited"}
    /\ loopHead \in Heads /\ chainHead \in Heads
    /\ ev \in Heads \cup {None}
    /\ chainHeadCh \in Seq(Heads) /\ Len(chainHeadCh) <= chainHeadChanSize
    /\ stopPc \in {"none", "wait", "stopped"}
    /\ schedPc \in {"select", "reply", "drain", "exited"}
    /\ curDone \in Chan \cup {None, Closed} /\ nextDone \in Chan \cup {Closed}
    /\ launchNextRun \in BOOLEAN
    /\ reset \in ResetRequest \cup {None}
    /\ dirtyAccounts \subseteq Adder /\ queuedEvents \subseteq Adder
    /\ run \in [Chan -> RunState \cup {None}]
    /\ reorgShutdownCh \in BOOLEAN
    /\ poolHead \in Heads
    /\ unpromoted \subseteq Adder
    /\ resetTo \in Heads \cup {None}

\* Run c has been launched and has not taken pool.mu yet.
Starting(c) == run[c] # None /\ run[c].pc = "lock"

\* However requests, launches and completions interleave, two runReorg
\* goroutines never exist at a time.
AtMostOneReorg ==
    \A c, d \in Chan : run[c] # None /\ run[d] # None => c = d

\* A transaction inserted into the queue is never forgotten: its account is
\* held by the call that has yet to request promotion, by the scheduler with
\* a launch due, or by a run that has yet to look at it, until shutdown.
NoLostPromotion ==
    ~reorgShutdownCh =>
        \A a \in unpromoted :
            \/ dirty[a]
            \/ a \in dirtyAccounts /\ launchNextRun
            \/ \E c \in Chan : Starting(c) /\ a \in run[c].dirty

\* AddLocals and AddRemotesSync return only after a run has looked at what
\* they inserted: the channel they got is the one of the right run.
SyncAddPromoted ==
    \A a \in Adder :
        pc[a] = "wait" /\ done[a] = Closed /\ ~reorgShutdownCh => a \notin unpromoted

\* Merged or not, a reset starts from the head the last one was asked to go
\* to, so no block falls between two resets, unless one of them fails.  (The
\* first may start from a later head than NewTxPool's: loop reads it again.)
ResetsContiguous ==
    resetTo # None =>
        \A c \in Chan : Starting(c) /\ run[c].reset # None => run[c].reset.old = resetTo

\* Every call comes back: addTxs, although it may wait for the mutex, the
\* scheduler and a run; and Stop, whatever the callers, the run and the
\* scheduler are doing.
CallsReturn ==
    /\ \A a \in Adder : pc[a] # "idle" ~> pc[a] = "idle"
    /\ stopPc = "wait" ~> stopPc = "stopped"

\* Run c is past the part under pool.mu.
Announcing(c) == run[c] # None /\ run[c].pc \in {"event", "send"}

\* Unless the pool stops, what was handed to the scheduler is served.  The
\* event of a replaced pending transaction is announced by a run, if it is
\* not dropped by one that resets; and for every head the pool is told of a
\* run calls reset, with that head or a later one.
RequestsServed ==
    /\ \A a \in Adder :
          a \in queuedEvents ~>
              \/ reorgShutdownCh
              \/ \E c \in Chan : Announcing(c) /\ (a \in run[c].events \/ run[c].reset # None)
    /\ \A h \in Heads \ {0} :
          (\E i \in DOMAIN chainHeadCh : chainHeadCh[i] = h) ~>
              stopPc # "none" \/ resetTo \in h..MaxHead
=============================================================================
