------------------------- MODULE TxPoolReorgProofs -------------------------
(***************************************************************************)
(* Proofs about TxPoolReorg, for any number of callers, channels and heads. *)
(***************************************************************************)
EXTENDS TxPoolReorg, TLAPS

\* The scheduler answers exactly the goroutine whose request it has taken.
ReplyInv ==
    /\ loopPc = "reply" => schedPc = "reply" /\ \A a \in Adder : pc[a] # "reply"
    /\ \A a \in Adder :
        pc[a] = "reply" => schedPc = "reply" /\ \A b \in Adder \ {a} : pc[b] # "reply"

\* The active run closes the channel the scheduler has in curDone, and the
\* channel of the next run is another one.
ChanInv ==
    /\ \A c \in Chan : run[c] # None => c = curDone
    /\ curDone \in Chan => curDone # nextDone
    /\ schedPc # "exited" => nextDone \in Chan
    /\ schedPc \in {"drain", "exited"} => reorgShutdownCh

\* Only a caller that has yet to make its request owes one.
DirtyInv ==
    \A a \in Adder : dirty[a] => pc[a] \in {"event", "request"}

\* What a waiting caller inserted is in the hands of the run it waits for.
WaitInv ==
    ~reorgShutdownCh =>
        \A a \in Adder : pc[a] = "wait" =>
            /\ done[a] \in {curDone, nextDone, Closed} \ {None}
            /\ done[a] \in Chan /\ done[a] = curDone => a \notin dirtyAccounts
            /\ done[a] = Closed => a \notin unpromoted

\* A run that is going to reset the pool.
ResetRun == curDone \in Chan /\ Starting(curDone) /\ run[curDone].reset # None

\* The head the last reset goes to once the active run has taken pool.mu.
Upcoming == IF ResetRun THEN run[curDone].reset.new ELSE resetTo

\* Reset requests form a chain: pool, active run, pending request, loop.
ResetInv ==
    /\ loopPc \in {"new", "start"} => resetTo = None /\ reset = None /\ ~ResetRun
    /\ loopPc \in {"request", "reply"} => ev \in Heads
    /\ loopPc = "reply" => reset # None /\ reset.new = ev
    /\ reset # None /\ loopPc # "reply" => loopHead = reset.new
    /\ resetTo # None /\ ResetRun => run[curDone].reset.old = resetTo
    /\ resetTo # None \/ ResetRun =>
        IF reset # None THEN reset.old = Upcoming ELSE loopHead = Upcoming

IInv ==
    /\ TypeOK
    /\ ReplyInv
    /\ ChanInv
    /\ DirtyInv
    /\ NoLostPromotion
    /\ WaitInv
    /\ ResetInv

-----------------------------------------------------------------------------

\* Steps of the loop, the chain and Stop that are no request to the scheduler.
QuietStep ==
    \/ ChainAdvances \/ Subscribe \/ LoopStart \/ ChainHeadEvent
    \/ Tick \/ TickLocked \/ LoopShutdown \/ Stop \/ StopDone

\* A quiet step leaves callers, scheduler, runs and the pool alone.
LEMMA QuietFrame ==
    ASSUME QuietStep
    PROVE  /\ UNCHANGED <<mu, addVars, schedVars, run, poolVars>>
           /\ reorgShutdownCh => reorgShutdownCh'
           /\ loopPc # "reply" => loopPc' # "reply"
           /\ loopPc = "reply" => UNCHANGED <<loopPc, loopHead, ev>>
  BY DEF QuietStep, ChainAdvances, Subscribe, LoopStart, ChainHeadEvent, Tick,
         TickLocked, LoopShutdown, Stop, StopDone

\* The steps, with the quiet ones taken together.
LEMMA NextCases ==
    ASSUME Next
    PROVE  \/ \E a \in Adder : AddTxs(a) \/ QueueTxEvent(a) \/ RequestPromote(a)
                               \/ RequestPromoteShutdown(a) \/ AddDone(a)
           \/ \E a \in Adder, d \in BOOLEAN, e \in BOOLEAN : AddTxsLocked(a, d, e)
           \/ \E a \in Adder, sync \in BOOLEAN : PromoteReply(a, sync)
           \/ QuietStep \/ RequestReset \/ ResetReply
           \/ \E c \in Chan : LaunchReorg(c)
           \/ ReorgDone \/ SchedulerShutdown \/ SchedulerExit
           \/ \E c \in Chan, ok \in BOOLEAN, e \in BOOLEAN : RunLocked(c, ok, e)
           \/ \E c \in Chan : RunQueueTxEvent(c) \/ RunSend(c)
  BY DEF Next, AdderStep, LoopStep, SchedulerStep, RunStep, QuietStep

\* The scheduler keeps answering the goroutine whose request it took.
LEMMA ReplyStep ==
    ASSUME IInv, Next
    PROVE  ReplyInv'
  <1> USE DEF IInv, ReplyInv, addVars, loopVars, schedVars, reqVars, poolVars
  <1>0. pc \in [Adder -> {"idle", "lock", "event", "request", "reply", "wait"}]
    BY DEF TypeOK
  <1>1. ASSUME NEW a \in Adder,
               AddTxs(a) \/ QueueTxEvent(a) \/ RequestPromoteShutdown(a) \/ AddDone(a)
        PROVE  ReplyInv'
    BY <1>0, <1>1 DEF AddTxs, QueueTxEvent, RequestPromoteShutdown, AddDone
  <1>2. ASSUME NEW a \in Adder, NEW d \in BOOLEAN, NEW e \in BOOLEAN, AddTxsLocked(a, d, e)
        PROVE  ReplyInv'
    BY <1>0, <1>2 DEF AddTxsLocked
  <1>3. ASSUME NEW a \in Adder, RequestPromote(a)
        PROVE  ReplyInv'
    <2>1. schedPc = "select"
      BY <1>3 DEF RequestPromote, Selecting
    <2>2. loopPc # "reply" /\ \A b \in Adder : pc[b] # "reply"
      BY <2>1
    <2> QED BY <1>0, <1>3, <2>2 DEF RequestPromote
  <1>4. ASSUME NEW a \in Adder, NEW sync \in BOOLEAN, PromoteReply(a, sync)
        PROVE  ReplyInv'
    <2>1. \A b \in Adder : pc'[b] # "reply"
      BY <1>0, <1>4 DEF PromoteReply
    <2> QED BY <1>4, <2>1 DEF PromoteReply
  <1>5. CASE QuietStep
    BY <1>5, QuietFrame
  <1>6. CASE RequestReset
    <2>1. schedPc = "select"
      BY <1>6 DEF RequestReset, Selecting
    <2> QED BY <1>6, <2>1 DEF RequestReset
  <1>7. CASE ResetReply
    BY <1>7 DEF ResetReply
  <1>8. ASSUME NEW c \in Chan, LaunchReorg(c) \/ RunQueueTxEvent(c) \/ RunSend(c)
        PROVE  ReplyInv'
    BY <1>8 DEF LaunchReorg, RunQueueTxEvent, RunSend
  <1>9. CASE ReorgDone \/ SchedulerShutdown \/ SchedulerExit
    BY <1>9 DEF ReorgDone, SchedulerShutdown, SchedulerExit, Selecting
  <1>10. ASSUME NEW c \in Chan, NEW ok \in BOOLEAN, NEW e \in BOOLEAN,
                RunLocked(c, ok, e)
         PROVE  ReplyInv'
    BY <1>10 DEF RunLocked
  <1> QED
    BY <1>1, <1>2, <1>3, <1>4, <1>5, <1>6, <1>7, <1>8, <1>9, <1>10, NextCases

\* The active run keeps its channel and the next run another one.
LEMMA ChanStep ==
    ASSUME IInv, Next
    PROVE  ChanInv'
  <1> USE DEF IInv, ChanInv, addVars, loopVars, schedVars, reqVars, poolVars
  <1>0. run \in [Chan -> RunState \cup {None}] /\ None \notin Chan /\ Closed \notin Chan
    BY ReorgConstants DEF TypeOK
  <1>1. ASSUME UNCHANGED <<run, curDone, nextDone>>,
               schedPc' = schedPc \/ schedPc \in {"select", "reply"},
               schedPc' \in {"drain", "exited"} => reorgShutdownCh',
               schedPc' = "exited" => schedPc = "exited"
        PROVE  ChanInv'
    BY <1>1
  <1>2. ASSUME NEW a \in Adder, AddTxs(a) \/ QueueTxEvent(a) \/ RequestPromote(a)
                                \/ RequestPromoteShutdown(a) \/ AddDone(a)
        PROVE  ChanInv'
    BY <1>1, <1>2
    DEF AddTxs, QueueTxEvent, RequestPromote, RequestPromoteShutdown, AddDone, Selecting
  <1>3. ASSUME NEW a \in Adder, NEW d \in BOOLEAN, NEW e \in BOOLEAN, AddTxsLocked(a, d, e)
        PROVE  ChanInv'
    BY <1>1, <1>3 DEF AddTxsLocked
  <1>4. ASSUME NEW a \in Adder, NEW sync \in BOOLEAN, PromoteReply(a, sync)
        PROVE  ChanInv'
    BY <1>1, <1>4 DEF PromoteReply
  <1>5. CASE QuietStep
    BY <1>1, <1>5, QuietFrame
  <1>6. CASE RequestReset \/ ResetReply
    BY <1>1, <1>6 DEF RequestReset, ResetReply, Selecting
  <1>7. ASSUME NEW c \in Chan, LaunchReorg(c)
        PROVE  ChanInv'
    <2>1. curDone = None /\ schedPc = "select" /\ nextDone \in Chan
      BY <1>7 DEF LaunchReorg, LaunchDue
    <2>2. \A d \in Chan : run[d] = None
      BY <1>0, <2>1
    <2>3. c # nextDone
      BY <1>7 DEF LaunchReorg, Referenced
    <2>4. \A d \in Chan : run'[d] # None => d = nextDone
      BY <1>0, <1>7, <2>2 DEF LaunchReorg
    <2> QED BY <1>7, <2>1, <2>3, <2>4 DEF LaunchReorg
  <1>8. CASE ReorgDone
    BY <1>0, <1>8 DEF ReorgDone
  <1>9. CASE SchedulerShutdown
    BY <1>1, <1>9 DEF SchedulerShutdown, Selecting
  <1>10. CASE SchedulerExit
    BY <1>0, <1>10 DEF SchedulerExit, Close
  <1>11. ASSUME NEW c \in Chan, NEW ok \in BOOLEAN, NEW e \in BOOLEAN,
                RunLocked(c, ok, e)
         PROVE  ChanInv'
    <2>1. \A d \in Chan : run'[d] # None => run[d] # None
      BY <1>0, <1>11 DEF RunLocked
    <2> QED BY <1>11, <2>1 DEF RunLocked
  <1>12. ASSUME NEW c \in Chan, RunQueueTxEvent(c)
         PROVE  ChanInv'
    <2>1. \A d \in Chan : run'[d] # None => run[d] # None
      BY <1>0, <1>12 DEF RunQueueTxEvent
    <2> QED BY <1>12, <2>1 DEF RunQueueTxEvent
  <1>13. ASSUME NEW c \in Chan, RunSend(c)
         PROVE  ChanInv'
    <2>1. c = curDone /\ curDone' = Closed
      BY <1>13 DEF RunSend, Close
    <2>2. \A d \in Chan : run'[d] = None
      BY <1>0, <1>13, <2>1 DEF RunSend
    <2> QED BY <1>0, <1>13, <2>1, <2>2 DEF RunSend
  <1> QED
    BY <1>2, <1>3, <1>4, <1>5, <1>6, <1>7, <1>8, <1>9, <1>10, <1>11, <1>12, <1>13, NextCases

\* Only callers that have yet to request owe a request.
LEMMA DirtyStep ==
    ASSUME IInv, Next
    PROVE  DirtyInv'
  <1> USE DEF IInv, DirtyInv, addVars, loopVars, schedVars, reqVars, poolVars
  <1>0. /\ pc \in [Adder -> {"idle", "lock", "event", "request", "reply", "wait"}]
        /\ dirty \in [Adder -> BOOLEAN]
    BY DEF TypeOK
  <1>1. ASSUME NEW a \in Adder, AddTxs(a) \/ QueueTxEvent(a) \/ RequestPromote(a)
                                \/ RequestPromoteShutdown(a) \/ AddDone(a)
        PROVE  DirtyInv'
    BY <1>0, <1>1
    DEF AddTxs, QueueTxEvent, RequestPromote, RequestPromoteShutdown, AddDone
  <1>2. ASSUME NEW a \in Adder, NEW d \in BOOLEAN, NEW e \in BOOLEAN, AddTxsLocked(a, d, e)
        PROVE  DirtyInv'
    BY <1>0, <1>2 DEF AddTxsLocked
  <1>3. ASSUME NEW a \in Adder, NEW sync \in BOOLEAN, PromoteReply(a, sync)
        PROVE  DirtyInv'
    BY <1>0, <1>3 DEF PromoteReply
  <1>4. CASE QuietStep
    BY <1>4, QuietFrame
  <1>5. CASE RequestReset \/ ResetReply \/ ReorgDone \/ SchedulerShutdown \/ SchedulerExit
    BY <1>5 DEF RequestReset, ResetReply, ReorgDone, SchedulerShutdown, SchedulerExit
  <1>6. ASSUME NEW c \in Chan, LaunchReorg(c) \/ RunQueueTxEvent(c) \/ RunSend(c)
        PROVE  DirtyInv'
    BY <1>6 DEF LaunchReorg, RunQueueTxEvent, RunSend
  <1>7. ASSUME NEW c \in Chan, NEW ok \in BOOLEAN, NEW e \in BOOLEAN,
                RunLocked(c, ok, e)
        PROVE  DirtyInv'
    BY <1>7 DEF RunLocked
  <1> QED
    BY <1>1, <1>2, <1>3, <1>4, <1>5, <1>6, <1>7, NextCases

\* No step drops the account of an inserted transaction.
LEMMA PromotionStep ==
    ASSUME IInv, Next
    PROVE  NoLostPromotion'
  <1> USE DEF IInv, addVars, loopVars, schedVars, reqVars, poolVars
  <1>0. /\ run \in [Chan -> RunState \cup {None}] /\ None \notin Chan
        /\ dirty \in [Adder -> BOOLEAN] /\ unpromoted \subseteq Adder
        /\ None \notin RunState /\ dirtyAccounts \subseteq Adder
        /\ queuedEvents \subseteq Adder
        /\ reset \in ResetRequest \cup {None}
    BY ReorgConstants DEF TypeOK
  <1>1. ASSUME UNCHANGED <<unpromoted, dirty, dirtyAccounts, launchNextRun>>,
               reorgShutdownCh => reorgShutdownCh',
               \A c \in Chan : Starting(c) => Starting(c)' /\ run'[c].dirty = run[c].dirty
        PROVE  NoLostPromotion'
    BY <1>1 DEF NoLostPromotion
  <1>2. ASSUME NEW a \in Adder, AddTxs(a) \/ QueueTxEvent(a) \/ AddDone(a)
        PROVE  NoLostPromotion'
    BY <1>1, <1>2 DEF AddTxs, QueueTxEvent, AddDone, Starting
  <1>3. ASSUME NEW a \in Adder, RequestPromoteShutdown(a)
        PROVE  NoLostPromotion'
    BY <1>3 DEF RequestPromoteShutdown, NoLostPromotion
  <1>4. ASSUME NEW a \in Adder, NEW d \in BOOLEAN, NEW e \in BOOLEAN, AddTxsLocked(a, d, e)
        PROVE  NoLostPromotion'
    <2>1. ~dirty[a]
      BY <1>4 DEF AddTxsLocked, DirtyInv
    <2>2. \A b \in Adder : dirty[b] => dirty'[b]
      BY <1>0, <1>4, <2>1 DEF AddTxsLocked
    <2>3. \A b \in unpromoted' : b \in unpromoted \/ dirty'[b]
      BY <1>0, <1>4 DEF AddTxsLocked
    <2>4. UNCHANGED <<dirtyAccounts, launchNextRun, run, reorgShutdownCh>>
      BY <1>4 DEF AddTxsLocked
    <2> QED BY <1>0, <2>2, <2>3, <2>4 DEF NoLostPromotion, Starting
  <1>5. ASSUME NEW a \in Adder, RequestPromote(a)
        PROVE  NoLostPromotion'
    <2>1. /\ launchNextRun' /\ dirtyAccounts \subseteq dirtyAccounts'
          /\ dirty[a] => a \in dirtyAccounts'
      BY <1>5 DEF RequestPromote, MergeDirty
    <2>2. \A b \in Adder : dirty[b] => dirty'[b] \/ b \in dirtyAccounts'
      BY <1>0, <1>5, <2>1 DEF RequestPromote
    <2>3. UNCHANGED <<unpromoted, run, reorgShutdownCh>>
      BY <1>5 DEF RequestPromote
    <2> QED BY <1>0, <2>1, <2>2, <2>3 DEF NoLostPromotion, Starting
  <1>6. ASSUME NEW a \in Adder, NEW sync \in BOOLEAN, PromoteReply(a, sync)
        PROVE  NoLostPromotion'
    BY <1>1, <1>6 DEF PromoteReply, Starting
  <1>7. CASE QuietStep
    BY <1>1, <1>7, QuietFrame DEF Starting
  <1>8. CASE RequestReset
    BY <1>8 DEF RequestReset, NoLostPromotion, Starting
  <1>9. CASE ResetReply \/ ReorgDone \/ SchedulerShutdown \/ SchedulerExit
    BY <1>1, <1>9 DEF ResetReply, ReorgDone, SchedulerShutdown, SchedulerExit, Starting
  <1>10. ASSUME NEW c \in Chan, LaunchReorg(c)
         PROVE  NoLostPromotion'
    <2>1. curDone = None /\ nextDone \in Chan
      BY <1>10 DEF LaunchReorg, LaunchDue, ChanInv
    <2>2. \A d \in Chan : run[d] = None
      BY <1>0, <2>1 DEF ChanInv
    <2>3. /\ run'[nextDone] # None /\ run'[nextDone].pc = "lock"
          /\ run'[nextDone].dirty = dirtyAccounts
      <3>1. run'[nextDone] = [pc |-> "lock", reset |-> reset, dirty |-> dirtyAccounts,
                             events |-> queuedEvents]
        BY <1>0, <1>10, <2>1 DEF LaunchReorg
      <3>2. run'[nextDone] \in RunState
        BY <1>0, <3>1 DEF RunState
      <3> QED BY <1>0, <3>1, <3>2
    <2>4. UNCHANGED <<unpromoted, dirty, reorgShutdownCh>>
      BY <1>10 DEF LaunchReorg
    <2> QED BY <2>1, <2>2, <2>3, <2>4 DEF NoLostPromotion, Starting
  <1>11. ASSUME NEW c \in Chan, NEW ok \in BOOLEAN, NEW e \in BOOLEAN,
                RunLocked(c, ok, e)
         PROVE  NoLostPromotion'
    <2>1. c = curDone /\ \A d \in Chan : Starting(d) => d = c
      BY <1>11 DEF RunLocked, ChanInv, Starting
    <2>2. \A b \in unpromoted' : b \in unpromoted /\ b \notin run[c].dirty
      BY <1>11 DEF RunLocked
    <2>3. UNCHANGED <<dirty, dirtyAccounts, launchNextRun, reorgShutdownCh>>
      BY <1>11 DEF RunLocked
    <2> QED BY <2>1, <2>2, <2>3 DEF NoLostPromotion
  <1>12. ASSUME NEW c \in Chan, RunQueueTxEvent(c) \/ RunSend(c)
         PROVE  NoLostPromotion'
    <2>1. \A d \in Chan : Starting(d) => Starting(d)' /\ run'[d].dirty = run[d].dirty
      BY <1>0, <1>12 DEF RunQueueTxEvent, RunSend, Starting
    <2> QED BY <1>1, <1>12, <2>1 DEF RunQueueTxEvent, RunSend
  <1> QED
    BY <1>2, <1>3, <1>4, <1>5, <1>6, <1>7, <1>8, <1>9, <1>10, <1>11, <1>12, NextCases

\* What a waiting caller inserted stays with the run it waits for.
LEMMA WaitStep ==
    ASSUME IInv, Next
    PROVE  WaitInv'
  <1> USE DEF IInv, addVars, loopVars, schedVars, reqVars, poolVars
  <1>0. /\ pc \in [Adder -> {"idle", "lock", "event", "request", "reply", "wait"}]
        /\ done \in [Adder -> Chan \cup {None, Closed}]
        /\ None \notin Chan /\ Closed \notin Chan /\ Closed # None
        /\ unpromoted \subseteq Adder
    BY ReorgConstants DEF TypeOK
  <1>1. ASSUME UNCHANGED <<curDone, nextDone>>,
               dirtyAccounts' \subseteq dirtyAccounts,
               reorgShutdownCh => reorgShutdownCh',
               \A b \in Adder : pc'[b] = "wait" =>
                    pc[b] = "wait" /\ done'[b] = done[b] /\ (b \in unpromoted' => b \in unpromoted)
        PROVE  WaitInv'
    BY <1>1 DEF WaitInv
  <1>2. ASSUME NEW a \in Adder, AddTxs(a) \/ QueueTxEvent(a)
                                \/ RequestPromoteShutdown(a) \/ AddDone(a)
        PROVE  WaitInv'
    <2>1. \A b \in Adder : pc'[b] = "wait" => pc[b] = "wait" /\ done'[b] = done[b]
      BY <1>0, <1>2 DEF AddTxs, QueueTxEvent, RequestPromoteShutdown, AddDone
    <2> QED BY <1>1, <1>2, <2>1
        DEF AddTxs, QueueTxEvent, RequestPromoteShutdown, AddDone
  <1>3. ASSUME NEW a \in Adder, NEW d \in BOOLEAN, NEW e \in BOOLEAN, AddTxsLocked(a, d, e)
        PROVE  WaitInv'
    <2>1. \A b \in Adder : pc'[b] = "wait" =>
             pc[b] = "wait" /\ b # a /\ done'[b] = done[b]
      BY <1>0, <1>3 DEF AddTxsLocked
    <2>2. \A b \in Adder \ {a} : b \in unpromoted' => b \in unpromoted
      BY <1>3 DEF AddTxsLocked
    <2> QED BY <1>1, <1>3, <2>1, <2>2 DEF AddTxsLocked
  <1>4. ASSUME NEW a \in Adder, RequestPromote(a)
        PROVE  WaitInv'
    <2>1. \A b \in Adder : pc'[b] = "wait" => pc[b] = "wait" /\ b # a
      BY <1>0, <1>4 DEF RequestPromote
    <2>2. \A b \in Adder \ {a} : b \in dirtyAccounts' => b \in dirtyAccounts
      BY <1>4 DEF RequestPromote, MergeDirty
    <2>3. UNCHANGED <<done, curDone, nextDone, reorgShutdownCh, unpromoted>>
      BY <1>4 DEF RequestPromote
    <2> QED BY <2>1, <2>2, <2>3 DEF WaitInv
  <1>5. ASSUME NEW a \in Adder, NEW sync \in BOOLEAN, PromoteReply(a, sync)
        PROVE  WaitInv'
    <2>1. schedPc = "reply" /\ nextDone \in Chan
      BY <1>5 DEF PromoteReply, ChanInv
    <2>2. nextDone # curDone /\ nextDone # Closed
      BY <1>0, <2>1 DEF ChanInv
    <2>3. pc'[a] = "wait" => done'[a] = nextDone
      BY <1>0, <1>5 DEF PromoteReply, DoneChan
    <2>4. \A b \in Adder \ {a} : pc'[b] = pc[b] /\ done'[b] = done[b]
      BY <1>0, <1>5 DEF PromoteReply
    <2>5. UNCHANGED <<curDone, nextDone, reorgShutdownCh, unpromoted, dirtyAccounts>>
      BY <1>5 DEF PromoteReply
    <2>6. nextDone # None
      BY <1>0, <2>1
    <2> SUFFICES ASSUME ~reorgShutdownCh, NEW b \in Adder, pc'[b] = "wait"
                 PROVE  /\ done'[b] \in {curDone, nextDone, Closed} \ {None}
                        /\ done'[b] \in Chan /\ done'[b] = curDone => b \notin dirtyAccounts
                        /\ done'[b] = Closed => b \notin unpromoted
      BY <2>5 DEF WaitInv
    <2>7. CASE b = a
      BY <2>2, <2>3, <2>6, <2>7
    <2>8. CASE b # a
      BY <2>4, <2>8 DEF WaitInv
    <2> QED BY <2>7, <2>8
  <1>6. CASE QuietStep
    BY <1>1, <1>6, QuietFrame
  <1>7. CASE RequestReset \/ ResetReply \/ SchedulerShutdown
    BY <1>1, <1>7 DEF RequestReset, ResetReply, SchedulerShutdown
  <1>8. CASE ReorgDone
    BY <1>0, <1>8 DEF ReorgDone, WaitInv
  <1>9. CASE SchedulerExit
    BY <1>9 DEF SchedulerExit, ChanInv, WaitInv
  <1>10. ASSUME NEW c \in Chan, LaunchReorg(c)
         PROVE  WaitInv'
    <2>1. /\ curDone = None /\ curDone' = nextDone /\ nextDone' = c /\ dirtyAccounts' = {}
          /\ UNCHANGED <<pc, done, reorgShutdownCh, unpromoted>>
      BY <1>10 DEF LaunchReorg, LaunchDue
    <2>2. \A b \in Adder : done[b] # c
      BY <1>10 DEF LaunchReorg, Referenced
    <2>3. ASSUME NEW b \in Adder, ~reorgShutdownCh, pc[b] = "wait"
          PROVE  done[b] \in {nextDone, Closed}
      BY <2>1, <2>3 DEF WaitInv
    <2> QED BY <2>1, <2>2, <2>3 DEF WaitInv
  <1>11. ASSUME NEW c \in Chan, NEW ok \in BOOLEAN, NEW e \in BOOLEAN,
                RunLocked(c, ok, e)
         PROVE  WaitInv'
    BY <1>1, <1>11 DEF RunLocked
  <1>12. ASSUME NEW c \in Chan, RunQueueTxEvent(c)
         PROVE  WaitInv'
    BY <1>1, <1>12 DEF RunQueueTxEvent
  <1>13. ASSUME NEW c \in Chan, RunSend(c)
         PROVE  WaitInv'
    <2>1. c = curDone /\ curDone' = Closed /\ run[c].pc = "send" /\ c # nextDone
      BY <1>13 DEF RunSend, Close, ChanInv
    <2>2. \A d \in Chan : ~Starting(d)
      BY <2>1 DEF Starting, ChanInv
    <2>3. ASSUME NEW b \in Adder, ~reorgShutdownCh, pc[b] = "wait", done[b] = c
          PROVE  b \notin unpromoted
      <3>1. ~dirty[b] /\ b \notin dirtyAccounts
        BY <2>1, <2>3 DEF DirtyInv, WaitInv
      <3> QED BY <2>2, <2>3, <3>1 DEF NoLostPromotion
    <2>4. /\ done' = [b \in Adder |-> IF done[b] = c THEN Closed ELSE done[b]]
          /\ UNCHANGED <<pc, nextDone, dirtyAccounts, reorgShutdownCh, unpromoted>>
      BY <1>13 DEF RunSend, Close
    <2> QED BY <1>0, <2>1, <2>3, <2>4 DEF WaitInv
  <1> QED
    BY <1>2, <1>3, <1>4, <1>5, <1>6, <1>7, <1>8, <1>9, <1>10, <1>11, <1>12, <1>13, NextCases

\* The heads from pool to loop stay a chain.
LEMMA ResetStep ==
    ASSUME IInv, Next
    PROVE  ResetInv'
  <1> USE DEF IInv, addVars, loopVars, schedVars, reqVars, poolVars
  <1>0. /\ run \in [Chan -> RunState \cup {None}]
        /\ reset \in ResetRequest \cup {None}
        /\ None \notin Chan \cup RunState \cup ResetRequest \cup Heads /\ Closed \notin Chan
    BY ReorgConstants DEF TypeOK
  <1>1. ASSUME UNCHANGED <<loopPc, loopHead, ev, reset, resetTo, run, curDone>>
        PROVE  ResetInv'
    BY <1>1 DEF ResetInv, Upcoming, ResetRun, Starting
  <1>2. ASSUME NEW a \in Adder, AddTxs(a) \/ QueueTxEvent(a) \/ RequestPromote(a)
                                \/ RequestPromoteShutdown(a) \/ AddDone(a)
        PROVE  ResetInv'
    BY <1>1, <1>2
    DEF AddTxs, QueueTxEvent, RequestPromote, RequestPromoteShutdown, AddDone
  <1>3. ASSUME NEW a \in Adder, NEW d \in BOOLEAN, NEW e \in BOOLEAN, AddTxsLocked(a, d, e)
        PROVE  ResetInv'
    BY <1>1, <1>3 DEF AddTxsLocked
  <1>4. ASSUME NEW a \in Adder, NEW sync \in BOOLEAN, PromoteReply(a, sync)
        PROVE  ResetInv'
    BY <1>1, <1>4 DEF PromoteReply
  <1>5. CASE QuietStep
    <2>1. UNCHANGED <<reset, resetTo, run, curDone>>
      BY <1>5, QuietFrame
    <2>2. (ResetRun' <=> ResetRun) /\ Upcoming' = Upcoming
      BY <2>1 DEF ResetRun, Upcoming, Starting
    <2>3. CASE ChainAdvances \/ Stop \/ StopDone
      BY <1>1, <2>3 DEF ChainAdvances, Stop, StopDone
    <2>4. CASE Subscribe \/ LoopStart
      BY <2>1, <2>2, <2>4 DEF Subscribe, LoopStart, ResetInv
    <2>5. CASE ChainHeadEvent
      <3>1. ev' \in Heads
        BY <2>5 DEF ChainHeadEvent, TypeOK
      <3> QED BY <2>1, <2>2, <2>5, <3>1 DEF ChainHeadEvent, ResetInv
    <2>6. CASE Tick \/ TickLocked \/ LoopShutdown
      BY <2>1, <2>2, <2>6 DEF Tick, TickLocked, LoopShutdown, ResetInv
    <2> QED BY <1>5, <2>3, <2>4, <2>5, <2>6 DEF QuietStep
  <1>6. CASE RequestReset
    <2> DEFINE req == [old |-> loopHead, new |-> ev]
    <2>1. /\ loopPc = "request" /\ loopPc' = "reply" /\ reset' = MergeReset(req)
          /\ UNCHANGED <<loopHead, ev, resetTo, run, curDone>>
      BY <1>6 DEF RequestReset
    <2>2. (ResetRun' <=> ResetRun) /\ Upcoming' = Upcoming
      BY <2>1 DEF ResetRun, Upcoming, Starting
    <2>3. ev \in Heads /\ loopHead \in Heads
      BY <2>1 DEF ResetInv, TypeOK
    <2>4. reset' \in ResetRequest /\ reset'.new = ev
          /\ reset'.old = IF reset = None THEN loopHead ELSE reset.old
      BY <1>0, <2>1, <2>3 DEF MergeReset, ResetRequest
    <2>5. reset' # None
      BY <1>0, <2>4
    <2> QED BY <2>1, <2>2, <2>3, <2>4, <2>5 DEF ResetInv
  <1>7. CASE ResetReply
    <2>1. /\ loopPc = "reply" /\ loopPc' = "select" /\ loopHead' = ev
          /\ UNCHANGED <<reset, resetTo, run, curDone>>
      BY <1>7 DEF ResetReply
    <2>2. (ResetRun' <=> ResetRun) /\ Upcoming' = Upcoming
      BY <2>1 DEF ResetRun, Upcoming, Starting
    <2> QED BY <2>1, <2>2 DEF ResetInv
  <1>8. ASSUME NEW c \in Chan, LaunchReorg(c)
        PROVE  ResetInv'
    <2>1. /\ curDone = None /\ nextDone \in Chan /\ curDone' = nextDone /\ reset' = None
          /\ schedPc = "select"
          /\ run'[nextDone] = [pc |-> "lock", reset |-> reset, dirty |-> dirtyAccounts, events |-> queuedEvents]
          /\ UNCHANGED <<loopPc, loopHead, ev, resetTo>>
      BY <1>0, <1>8 DEF LaunchReorg, LaunchDue, ChanInv
    <2>2. ~ResetRun /\ Upcoming = resetTo /\ loopPc # "reply"
      BY <1>0, <2>1 DEF ResetRun, Upcoming, ReplyInv
    <2>3. run'[nextDone] \in RunState
      BY <1>0, <2>1 DEF RunState, TypeOK
    <2>4. ResetRun' <=> reset # None
      BY <1>0, <2>1, <2>3 DEF ResetRun, Starting
    <2>5. Upcoming' = IF reset # None THEN reset.new ELSE resetTo
      BY <2>1, <2>4 DEF Upcoming
    <2> QED BY <2>1, <2>2, <2>4, <2>5 DEF ResetInv
  <1>9. CASE SchedulerShutdown
    BY <1>1, <1>9 DEF SchedulerShutdown
  <1>10. CASE ReorgDone
    <2>1. ~ResetRun /\ ~ResetRun'
      BY <1>0, <1>10 DEF ReorgDone, ResetRun
    <2> QED BY <1>10, <2>1 DEF ReorgDone, ResetInv, Upcoming
  <1>11. CASE SchedulerExit
    <2>1. nextDone \in Chan /\ (curDone \in Chan => curDone # nextDone)
      BY <1>11 DEF SchedulerExit, ChanInv
    <2>2. curDone' = curDone
      BY <1>11, <2>1 DEF SchedulerExit, Close
    <2> QED BY <1>1, <1>11, <2>2 DEF SchedulerExit
  <1>12. ASSUME NEW c \in Chan, NEW ok \in BOOLEAN, NEW e \in BOOLEAN,
                RunLocked(c, ok, e)
         PROVE  ResetInv'
    <2>1. /\ c = curDone /\ Starting(c) /\ run[c].pc = "lock"
          /\ UNCHANGED <<loopPc, loopHead, ev, reset, curDone>>
      BY <1>12 DEF RunLocked, ChanInv, Starting
    <2>2. run'[c].pc # "lock"
      BY <1>0, <1>12, <2>1 DEF RunLocked, RunState
    <2>3. ~ResetRun'
      BY <2>1, <2>2 DEF ResetRun, Starting
    <2>4. CASE run[c].reset # None
      <3>1. ResetRun /\ resetTo' = Upcoming
        BY <1>12, <2>1, <2>4 DEF RunLocked, Reset, ResetRun, Upcoming
      <3>2. Upcoming' = Upcoming
        BY <2>3, <3>1 DEF Upcoming
      <3> QED BY <2>1, <2>3, <3>1, <3>2 DEF ResetInv
    <2>5. CASE run[c].reset = None
      <3>1. ~ResetRun /\ UNCHANGED resetTo
        BY <1>12, <2>1, <2>5 DEF RunLocked, ResetRun
      <3>2. Upcoming' = Upcoming
        BY <2>3, <3>1 DEF Upcoming
      <3> QED BY <2>1, <2>3, <3>1, <3>2 DEF ResetInv
    <2> QED BY <2>4, <2>5
  <1>13. ASSUME NEW c \in Chan, RunQueueTxEvent(c)
         PROVE  ResetInv'
    <2>1. /\ c = curDone /\ run[c].pc = "event"
          /\ UNCHANGED <<loopPc, loopHead, ev, reset, resetTo, curDone>>
      BY <1>13 DEF RunQueueTxEvent, ChanInv
    <2>2. run'[c].pc # "lock"
      BY <1>0, <1>13 DEF RunQueueTxEvent, RunState
    <2>3. ~ResetRun /\ ~ResetRun'
      BY <2>1, <2>2 DEF ResetRun, Starting
    <2> QED BY <2>1, <2>3 DEF ResetInv, Upcoming
  <1>14. ASSUME NEW c \in Chan, RunSend(c)
         PROVE  ResetInv'
    <2>1. /\ c = curDone /\ run[c].pc = "send" /\ curDone' = Closed
          /\ UNCHANGED <<loopPc, loopHead, ev, reset, resetTo>>
      BY <1>14 DEF RunSend, Close, ChanInv
    <2>2. ~ResetRun /\ ~ResetRun'
      BY <1>0, <2>1 DEF ResetRun, Starting
    <2> QED BY <2>1, <2>2 DEF ResetInv, Upcoming
  <1> QED
    BY <1>2, <1>3, <1>4, <1>5, <1>6, <1>7, <1>8, <1>9, <1>10, <1>11, <1>12, <1>13,
       <1>14, NextCases

\* Every step keeps the shape of the state.
LEMMA TypeStep ==
    ASSUME IInv, Next
    PROVE  TypeOK'
  <1> USE DEF IInv, TypeOK, addVars, loopVars, schedVars, reqVars, poolVars
  <1>0. None \notin Chan \cup RunState \cup ResetRequest \cup Heads /\ Closed \notin Chan
    BY ReorgConstants
  <1>1. ASSUME NEW a \in Adder, AddTxs(a) \/ RequestPromoteShutdown(a) \/ AddDone(a)
        PROVE  TypeOK'
    <2>1. CASE AddTxs(a)
      BY <2>1 DEF AddTxs
    <2>2. CASE RequestPromoteShutdown(a)
      BY <2>2 DEF RequestPromoteShutdown
    <2>3. CASE AddDone(a)
      BY <2>3 DEF AddDone
    <2> QED BY <1>1, <2>1, <2>2, <2>3
  <1>2. ASSUME NEW a \in Adder, QueueTxEvent(a)
        PROVE  TypeOK'
    <2>1. queuedEvents' \subseteq Adder
      BY <1>2 DEF QueueTxEvent, OfferTxEvent
    <2> QED BY <1>2, <2>1 DEF QueueTxEvent
  <1>3. ASSUME NEW a \in Adder, RequestPromote(a)
        PROVE  TypeOK'
    BY <1>3 DEF RequestPromote, MergeDirty
  <1>4. ASSUME NEW a \in Adder, NEW d \in BOOLEAN, NEW e \in BOOLEAN, AddTxsLocked(a, d, e)
        PROVE  TypeOK'
    BY <1>4 DEF AddTxsLocked
  <1>5. ASSUME NEW a \in Adder, NEW sync \in BOOLEAN, PromoteReply(a, sync)
        PROVE  TypeOK'
    BY <1>5 DEF PromoteReply, DoneChan
  <1>6. CASE QuietStep
    <2>1. UNCHANGED <<mu, addVars, schedVars, run, poolVars>>
      BY <1>6, QuietFrame
    <2>2. CASE ChainAdvances
      <3>1. chainHead' \in Heads
        BY <2>2, ReorgConstants DEF ChainAdvances, Heads
      <3>2. chainHeadCh' \in Seq(Heads) /\ Len(chainHeadCh') <= chainHeadChanSize
        <4>1. chainHeadCh \in Seq(Heads) /\ Len(chainHeadCh) <= chainHeadChanSize
          OBVIOUS
        <4>2. \/ chainHeadCh' = chainHeadCh
              \/ /\ Len(chainHeadCh) < chainHeadChanSize
                 /\ chainHeadCh' = Append(chainHeadCh, chainHead')
          BY <2>2 DEF ChainAdvances, HasRoom
        <4> HIDE DEF TypeOK, IInv
        <4> QED BY <3>1, <4>1, <4>2, ReorgConstants
      <3> QED BY <2>1, <2>2, <3>1, <3>2 DEF ChainAdvances
    <2>3. CASE ChainHeadEvent
      <3>1. /\ ev' \in Heads /\ chainHeadCh' \in Seq(Heads)
            /\ Len(chainHeadCh') <= chainHeadChanSize
        BY <2>3, ReorgConstants DEF ChainHeadEvent
      <3> QED BY <2>1, <2>3, <3>1 DEF ChainHeadEvent
    <2>4. CASE Subscribe \/ LoopStart \/ Tick \/ TickLocked
      BY <2>1, <2>4 DEF Subscribe, LoopStart, Tick, TickLocked
    <2>5. CASE LoopShutdown
      BY <2>1, <2>5 DEF LoopShutdown
    <2>6. CASE Stop
      BY <2>1, <2>6 DEF Stop
    <2>7. CASE StopDone
      BY <2>1, <2>7 DEF StopDone
    <2> QED BY <1>6, <2>2, <2>3, <2>4, <2>5, <2>6, <2>7 DEF QuietStep
  <1>7. CASE RequestReset
    <2>1. ev \in Heads
      BY <1>7 DEF RequestReset, ResetInv
    <2>2. reset' \in ResetRequest
      BY <1>0, <1>7, <2>1 DEF RequestReset, MergeReset, ResetRequest
    <2> QED BY <1>7, <2>2 DEF RequestReset
  <1>8. CASE ResetReply
    <2>1. ev \in Heads
      BY <1>8 DEF ResetReply, ResetInv
    <2> QED BY <1>8, <2>1 DEF ResetReply
  <1>9. ASSUME NEW c \in Chan, LaunchReorg(c)
        PROVE  TypeOK'
    <2>1. nextDone \in Chan
      BY <1>9 DEF LaunchReorg, ChanInv
    <2>2. [pc |-> "lock", reset |-> reset, dirty |-> dirtyAccounts, events |-> queuedEvents] \in RunState
      BY DEF RunState
    <2>3. run' \in [Chan -> RunState \cup {None}]
      BY <1>9, <2>1, <2>2 DEF LaunchReorg
    <2> QED BY <1>9, <2>1, <2>3 DEF LaunchReorg
  <1>10. CASE ReorgDone \/ SchedulerShutdown
    BY <1>10 DEF ReorgDone, SchedulerShutdown
  <1>11. CASE SchedulerExit
    BY <1>11 DEF SchedulerExit, Close
  <1>12. ASSUME NEW c \in Chan, NEW ok \in BOOLEAN, NEW e \in BOOLEAN,
                RunLocked(c, ok, e)
         PROVE  TypeOK'
    <2>1. run[c] \in RunState
      BY <1>12 DEF RunLocked
    <2>2. [run[c] EXCEPT !.pc = IF e THEN "event" ELSE "send", !.dirty = {},
                         !.events = IF run[c].reset = None THEN @ ELSE {}] \in RunState
      BY <2>1 DEF RunState
    <2>3. run' \in [Chan -> RunState \cup {None}]
      BY <1>12, <2>2 DEF RunLocked
    <2>4. poolHead' \in Heads /\ unpromoted' \subseteq Adder /\ resetTo' \in Heads \cup {None}
      BY <1>12, <2>1 DEF RunLocked, Reset, RunState, ResetRequest
    <2> QED BY <1>12, <2>3, <2>4 DEF RunLocked
  <1>13. ASSUME NEW c \in Chan, RunQueueTxEvent(c)
         PROVE  TypeOK'
    <2>1. run[c] \in RunState
      BY <1>13 DEF RunQueueTxEvent
    <2>2. [run[c] EXCEPT !.pc = "send"] \in RunState
      BY <2>1 DEF RunState
    <2>3. run' \in [Chan -> RunState \cup {None}]
      BY <1>13, <2>2 DEF RunQueueTxEvent
    <2>4. queuedEvents' \subseteq Adder
      BY <1>13 DEF RunQueueTxEvent, OfferTxEvent
    <2> QED BY <1>13, <2>3, <2>4 DEF RunQueueTxEvent
  <1>14. ASSUME NEW c \in Chan, RunSend(c)
         PROVE  TypeOK'
    BY <1>14 DEF RunSend, Close
  <1> QED
    BY <1>1, <1>2, <1>3, <1>4, <1>5, <1>6, <1>7, <1>8, <1>9, <1>10, <1>11, <1>12,
       <1>13, <1>14, NextCases

\* The pool as it is started satisfies the invariant.
LEMMA InitIInv == Init => IInv
  <1> SUFFICES ASSUME Init PROVE IInv
    OBVIOUS
  <1>1. TypeOK
    <2>1. 0 \in Heads
      BY ReorgConstants DEF Heads
    <2>2. chainHeadCh \in Seq(Heads) /\ Len(chainHeadCh) <= chainHeadChanSize
      BY ReorgConstants DEF Init
    <2> QED BY <2>1, <2>2 DEF Init, TypeOK
  <1>2. ReplyInv /\ DirtyInv /\ NoLostPromotion /\ WaitInv
    BY DEF Init, ReplyInv, DirtyInv, NoLostPromotion, WaitInv
  <1>3. ChanInv
    BY ReorgConstants DEF Init, ChanInv
  <1>4. ResetInv
    BY ReorgConstants DEF Init, ResetInv, ResetRun
  <1> QED BY <1>1, <1>2, <1>3, <1>4 DEF IInv

\* Every step keeps the invariant.
LEMMA NextIInv == IInv /\ [Next]_vars => IInv'
  <1>1. ASSUME IInv, Next PROVE IInv'
    BY <1>1, TypeStep, ReplyStep, ChanStep, DirtyStep, PromotionStep, WaitStep,
       ResetStep DEF IInv
  <1>2. ASSUME IInv, UNCHANGED vars PROVE IInv'
    <2> USE <1>2 DEF IInv, vars, addVars, loopVars, schedVars, reqVars, poolVars
    <2>1. TypeOK'
      BY DEF TypeOK
    <2>2. ReplyInv' /\ ChanInv' /\ DirtyInv' /\ WaitInv'
      BY DEF ReplyInv, ChanInv, DirtyInv, WaitInv
    <2>3. NoLostPromotion' /\ ResetInv'
      BY DEF NoLostPromotion, ResetInv, Upcoming, ResetRun, Starting
    <2> QED BY <2>1, <2>2, <2>3
  <1> QED BY <1>1, <1>2

\* The inductive invariant holds of every reachable state.
THEOREM Inductive == Spec => []IInv
  BY InitIInv, NextIInv, PTL DEF Spec

-----------------------------------------------------------------------------

\* The scheduler, its callers and its runs keep the shape of their state.
THEOREM TypeCorrect == Spec => []TypeOK
  <1>1. IInv => TypeOK
    BY DEF IInv
  <1> QED BY <1>1, Inductive, PTL

\* scheduleReorgLoop never has two runReorg goroutines at a time.
THEOREM OneReorg == Spec => []AtMostOneReorg
  <1>1. IInv => AtMostOneReorg
    BY DEF IInv, ChanInv, AtMostOneReorg
  <1> QED BY <1>1, Inductive, PTL

\* Until shutdown no inserted transaction is forgotten by the scheduler.
THEOREM PromotionOwed == Spec => []NoLostPromotion
  <1>1. IInv => NoLostPromotion
    BY DEF IInv
  <1> QED BY <1>1, Inductive, PTL

\* The channel a synchronous addTxs waits for is closed by a run that has
\* looked at its account.
THEOREM SyncAdds == Spec => []SyncAddPromoted
  <1>1. IInv => SyncAddPromoted
    BY DEF IInv, WaitInv, SyncAddPromoted
  <1> QED BY <1>1, Inductive, PTL

\* However reset requests are merged and delayed, each starts from the head
\* the last one was asked to go to, whether or not it got there.
THEOREM ResetChain == Spec => []ResetsContiguous
  <1>1. IInv => ResetsContiguous
    <2> SUFFICES ASSUME IInv, resetTo # None, NEW c \in Chan, Starting(c), run[c].reset # None
                 PROVE  run[c].reset.old = resetTo
      BY DEF ResetsContiguous
    <2>1. c = curDone
      BY DEF IInv, ChanInv, Starting
    <2> QED BY <2>1 DEF IInv, ResetInv, ResetRun
  <1> QED BY <1>1, Inductive, PTL
=============================================================================
