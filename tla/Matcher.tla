------------------------------ MODULE Matcher ------------------------------
(***************************************************************************)
(* Matcher and scheduler (matcher.go, scheduler.go): sections of the chain *)
(* run through a pipeline of filters; the bit vectors a filter needs are   *)
(* requested once, by a scheduler per bit, from a distributor that gives   *)
(* them in batches to retrievers.  A retriever may deliver only a part of  *)
(* its batch, fail, or still be fetching when the session is closed and    *)
(* the next one starts on the same matcher.                                *)
(*                                                                         *)
(* A bit vector is the set of the blocks of a section whose bloom has the  *)
(* bit.  The channels between the goroutines of the pipeline are           *)
(* sequences; their capacity is not bounded here.                          *)
(***************************************************************************)
EXTENDS Integers, Sequences, FiniteSets, SequencesExt, FiniteSetsExt, TLC

CONSTANTS
    Setups,         \* the filters a matcher is made with: sequences of sets of clauses,
                    \* which are sets of bits; and, by session, who serves it
    Blooms,         \* block -> the bits of its bloom
    blocksPerSection, begin, end,
    Batch,          \* batch of Multiplex
    MaxFaults,      \* bound on retrievals that are incomplete or fail
    None

(* A session has retrievers of its own, a finite number of them.           *)
ASSUME MatcherAssumption ==
    /\ blocksPerSection \in Nat \ {0} /\ begin \in Nat /\ end \in Nat /\ Batch \in Nat
    /\ \A setup \in Setups :
          LET serving == setup[2]
          IN  /\ serving \in Seq(Range(serving)) /\ serving # <<>>
              /\ \A s \in DOMAIN serving : IsFiniteSet(serving[s]) /\ None \notin serving[s]
              /\ \A s, t \in DOMAIN serving : s # t => serving[s] \cap serving[t] = {}

VARIABLES
    filters,        \* m.filters
    retrievers,     \* session -> the retrievers that serve it
    sess,           \* the session that was started last
    quit, kill,     \* the sessions whose channel is closed
    closed,         \* the sessions whose Close has returned
    source,         \* the next section the source emits
    stage,          \* filter -> partialMatches it has not taken
    process,        \* filter -> partialMatches it waits for the vectors of
    reqs,           \* slot -> sections its scheduleRequests has not taken
    responses,      \* bit -> section -> "none", "pending" or "cached"
    d,              \* the distributor: requests, unallocs, allocs, shutdown, running
    retr,           \* retriever -> where its Multiplex is
    results,        \* what the session delivered
    faults,
    stray           \* a retriever of a closed session met the next distributor

pipeline == <<source, stage, process, reqs>>
given == <<filters, retrievers>>
matcherVars == <<given, sess, quit, kill, closed, pipeline, responses, d, retr, results, faults, stray>>

Blocks == DOMAIN Blooms
SectionOf(b) == b \div blocksPerSection
Wanted == SectionOf(begin)..SectionOf(end)
Stages == 1..Len(filters)
Slots == UNION {UNION {{<<f, c, b>> : b \in c} : c \in filters[f]} : f \in Stages}
Bits == {k[3] : k \in Slots}
SlotsOf(f) == {k \in Slots : k[1] = f}
AllRetrievers == UNION {retrievers[s] : s \in DOMAIN retrievers}
SessionOf(r) == CHOOSE s \in DOMAIN retrievers : r \in retrievers[s]

(* The vector of a bit, which Generator makes of the blooms of a section.  *)
Vector(bit, section) == {b \in Blocks : SectionOf(b) = section /\ bit \in Blooms[b]}

(* What a filter leaves of a section: a clause of it has all its bits.     *)
subMatch(f, subres) ==
    UNION {{b \in subres.bitset : \A bit \in clause : b \in Vector(bit, subres.section)} :
              clause \in filters[f]}

Idle == [pc |-> "alloc"]
Gone == [pc |-> "gone"]
AtDistributor(r) == d.running /\ retr[r].pc # "gone"

-----------------------------------------------------------------------------
(* The distributor *)

Times(queue, section) == Cardinality({i \in DOMAIN queue : queue[i] = section})

(* The queue with more sections, each in its place (sort.Search): one      *)
(* sequence, of which it is said what it is.                               *)
Inserted(queue, sections) ==
    LET among == Range(queue) \cup sections
    IN  {q \in [1..(Len(queue) + Cardinality(sections)) -> among] :
            /\ \A i, j \in DOMAIN q : i < j => q[i] <= q[j]
            /\ \A s \in among :
                  Times(q, s) = Times(queue, s) + (IF s \in sections THEN 1 ELSE 0)}

(* assign: a retriever that waits for work gets the bit, or, when none is  *)
(* seen to wait, the bit is kept for the next one.                         *)
assign(dist, bit) ==
    {<<[dist EXCEPT !.unallocs = @ \cup {bit}], None>>}
    \cup {<<[dist EXCEPT !.allocs = @ + 1], r>> :
             r \in {q \in AllRetrievers : retr[q].pc = "alloc" /\ SessionOf(q) <= sess}}

OfAnother(r) == r # None /\ SessionOf(r) # sess

MaybeAssign(dist, bit, needed, others, met) ==
    \E got \in IF needed THEN assign(dist, bit) ELSE {<<dist, None>>} :
    /\ d' = got[1]
    /\ retr' = IF got[2] = None THEN others
               ELSE [others EXCEPT ![got[2]] = [pc |-> "take", bit |-> bit]]
    /\ stray' = (stray \/ OfAnother(met) \/ OfAnother(got[2]))

(* A request arrives on dist.                                              *)
QueueRequest(bit, section) ==
    LET queue == d.requests[bit]
    IN  \E longer \in Inserted(queue, {section}) :
            MaybeAssign([d EXCEPT !.requests[bit] = longer], bit, queue = <<>>, retr, None)

(* A retriever asks for work: the bit with the lowest section.             *)
AllocateRetrieval(r) ==
    /\ AtDistributor(r) /\ retr[r].pc = "alloc" /\ SessionOf(r) <= sess
    /\ \E bit \in d.unallocs :
           /\ \A other \in d.unallocs : Head(d.requests[bit]) <= Head(d.requests[other])
           /\ d' = [d EXCEPT !.unallocs = @ \ {bit}, !.allocs = @ + 1]
           /\ retr' = [retr EXCEPT ![r] = [pc |-> "take", bit |-> bit]]
    /\ stray' = (stray \/ OfAnother(r))
    /\ UNCHANGED <<given, sess, quit, kill, closed, pipeline, responses, results, faults>>

(* AllocateSections: up to want sections of the bit; what is left of the   *)
(* queue is offered again.                                                 *)
TakeFrom(r, want, next) ==
    LET bit == retr[r].bit
        queue == d.requests[bit]
        n == Min({want, Len(queue)})
        rest == SubSeq(queue, n + 1, Len(queue))
    IN  MaybeAssign([d EXCEPT !.requests[bit] = rest], bit, rest # <<>>,
                    [retr EXCEPT ![r] = [next EXCEPT !.sections = SubSeq(queue, 1, n)]], r)

Task(r, pc, sections, back) ==
    [pc |-> pc, bit |-> retr[r].bit, sections |-> sections, missing |-> {}, last |-> back]

AllocateSections(r) ==
    /\ AtDistributor(r) /\ retr[r].pc = "take"
    /\ \/ TakeFrom(r, Batch, Task(r, "mux", <<>>, FALSE))
       \/ SessionOf(r) \in quit /\ TakeFrom(r, 0, Task(r, "deliver", <<>>, TRUE))
    /\ UNCHANGED <<given, sess, quit, kill, closed, pipeline, responses, results, faults>>

(* ... or the session is closed, and nothing is taken.                     *)
AllocateNothing(r) ==
    /\ retr[r].pc = "take" /\ SessionOf(r) \in quit
    /\ \E t \in {Task(r, "mux", <<>>, FALSE), Task(r, "deliver", <<>>, TRUE)} :
           retr' = [retr EXCEPT ![r] = t]
    /\ UNCHANGED <<given, sess, quit, kill, closed, pipeline, responses, d, results, faults, stray>>

(* The sections delivered, and the missing ones that go back to the queue. *)
Delivered(r) == {s \in Range(retr[r].sections) : s \notin retr[r].missing}
Requeued(r) == Inserted(d.requests[retr[r].bit], retr[r].missing)

\* Mutant: what is missing is queued, and never offered to a retriever.
HandBackQueued(r, after) ==
    /\ \E queue \in Requeued(r) : d' = [d EXCEPT !.requests[retr[r].bit] = queue, !.allocs = @ - 1]
    /\ retr' = after
    /\ UNCHANGED stray

(* The distributor's side of a delivery. *)
HandBack(r, after) ==
    \E queue \in Requeued(r) :
        LET bit == retr[r].bit
            back == [d EXCEPT !.requests[bit] = queue, !.allocs = @ - 1]
            needed == retr[r].missing # {} /\ Len(queue) = Cardinality(retr[r].missing)
        IN  \E got \in IF needed THEN assign(back, bit) ELSE {<<back, None>>} :
                LET dist == got[1]
                IN  /\ d' = [dist EXCEPT !.running = ~(dist.allocs = 0 /\ dist.shutdown)]
                    /\ retr' = IF got[2] = None THEN after
                               ELSE [after EXCEPT ![got[2]] = [pc |-> "take", bit |-> bit]]
                    /\ stray' = (stray \/ OfAnother(r) \/ OfAnother(got[2]))

(* scheduler.deliver, with the retriever that goes on or ends.             *)
DeliverSections(r) ==
    /\ AtDistributor(r) /\ retr[r].pc = "deliver"
    /\ HandBack(r, [retr EXCEPT ![r] = IF retr[r].last THEN Gone ELSE Idle])
    /\ responses' = [responses EXCEPT ![retr[r].bit] =
                        [s \in Wanted |-> IF s \in Delivered(r) /\ @[s] = "pending" THEN "cached" ELSE @[s]]]
    /\ UNCHANGED <<given, sess, quit, kill, closed, pipeline, results, faults>>

(* ... or the session was killed, and the result is dropped.               *)
DropSections(r) ==
    /\ retr[r].pc = "deliver" /\ SessionOf(r) \in kill
    /\ retr' = [retr EXCEPT ![r] = IF @.last THEN Gone ELSE Idle]
    /\ UNCHANGED <<given, sess, quit, kill, closed, pipeline, responses, d, results, faults, stray>>

(* AllocateRetrieval of a session that is closed ends the retriever.       *)
RetrieverEnds(r) ==
    /\ retr[r].pc = "alloc" /\ SessionOf(r) \in quit
    /\ retr' = [retr EXCEPT ![r] = Gone]
    /\ UNCHANGED <<given, sess, quit, kill, closed, pipeline, responses, d, results, faults, stray>>

(* The task goes to the back end and comes back, complete or not, or with  *)
(* an error, after which the retriever closes the session itself.          *)
Fetched(r) ==
    /\ retr[r].pc = "mux"
    /\ \E missing \in SUBSET Range(retr[r].sections) :
           \/ /\ missing = {} \/ faults < MaxFaults
              /\ faults' = IF missing = {} THEN faults ELSE faults + 1
              /\ retr' = [retr EXCEPT ![r].pc = "deliver", ![r].missing = missing]
              /\ UNCHANGED quit
           \/ /\ faults < MaxFaults /\ faults' = faults + 1
              /\ retr' = [retr EXCEPT ![r].pc = "close", ![r].missing = missing]
              /\ quit' = quit \cup {SessionOf(r)}
    /\ UNCHANGED <<given, sess, kill, closed, pipeline, responses, d, results, stray>>

(* ... or the session is closed, and all of it is handed back.             *)
NotFetched(r) ==
    /\ retr[r].pc = "mux" /\ SessionOf(r) \in quit
    /\ retr' = [retr EXCEPT ![r].pc = "deliver", ![r].missing = Range(retr[r].sections), ![r].last = TRUE]
    /\ UNCHANGED <<given, sess, quit, kill, closed, pipeline, responses, d, results, faults, stray>>

(* Close, called after the error, has waited for the session to end.       *)
ClosedByRetriever(r) ==
    /\ retr[r].pc = "close" /\ SessionOf(r) \in closed
    /\ retr' = [retr EXCEPT ![r].pc = "deliver"]
    /\ UNCHANGED <<given, sess, quit, kill, closed, pipeline, responses, d, results, faults, stray>>

(* The distributor notices that the session is closed: it ends when no     *)
(* retriever is allocated, and in any case when the session is killed.     *)
Shutdown ==
    /\ d.running /\ ~d.shutdown /\ sess \in quit
    /\ d' = IF d.allocs = 0 THEN [d EXCEPT !.running = FALSE] ELSE [d EXCEPT !.shutdown = TRUE]
    /\ UNCHANGED <<given, sess, quit, kill, closed, pipeline, responses, retr, results, faults, stray>>

Killed ==
    /\ d.running /\ sess \in kill
    /\ d' = [d EXCEPT !.running = FALSE]
    /\ UNCHANGED <<given, sess, quit, kill, closed, pipeline, responses, retr, results, faults, stray>>

-----------------------------------------------------------------------------
(* The pipeline of the session.  Every wait in it ends when quit is closed. *)

Passed(f) == IF f = 1 THEN [section |-> source, bitset |-> {b \in Blocks : SectionOf(b) = source}]
             ELSE Head(stage[f])

(* A filter passes a section of the source, or what the filter before left *)
(* of one, to the scheduler of each of its bits.                           *)
Fan(f) ==
    /\ IF f = 1 THEN source \in Wanted /\ source' = source + 1 /\ UNCHANGED stage
       ELSE stage[f] # <<>> /\ stage' = [stage EXCEPT ![f] = Tail(@)] /\ UNCHANGED source
    /\ process' = [process EXCEPT ![f] = Append(@, Passed(f))]
    /\ reqs' = [k \in Slots |-> IF k \in SlotsOf(f) THEN Append(reqs[k], Passed(f).section) ELSE reqs[k]]
    /\ UNCHANGED <<given, sess, quit, kill, closed, responses, d, retr, results, faults, stray>>

(* scheduleRequests: the first to need a vector asks for it, unless quit   *)
(* is closed before the distributor takes the request.                     *)
Schedule(k) ==
    /\ reqs[k] # <<>>
    /\ LET bit == k[3]
           s == Head(reqs[k])
       IN  IF responses[bit][s] = "none"
           THEN /\ responses' = [responses EXCEPT ![bit][s] = "pending"]
                /\ \/ d.running /\ QueueRequest(bit, s)
                   \/ sess \in quit /\ UNCHANGED <<d, retr, stray>>
           ELSE UNCHANGED <<responses, d, retr, stray>>
    /\ reqs' = [reqs EXCEPT ![k] = Tail(@)]
    /\ UNCHANGED <<given, sess, quit, kill, closed, source, stage, process, results, faults>>

(* scheduleDeliveries and the second goroutine of subMatch: the vectors    *)
(* are there, and the section goes on if anything matches; after the last  *)
(* filter the goroutine of Start turns it into block numbers.              *)
Process(f) ==
    /\ process[f] # <<>>
    /\ LET subres == Head(process[f])
           section == subres.section
           matched == subMatch(f, subres)
       IN  /\ \A k \in SlotsOf(f) : responses[k[3]][section] = "cached"
                                    /\ section \notin Range(reqs[k])
           /\ stage' = IF matched = {} \/ f = Len(filters) THEN stage
                       ELSE [stage EXCEPT ![f + 1] = Append(@, [section |-> section, bitset |-> matched])]
           /\ results' = IF f < Len(filters) THEN results
                         ELSE results \o SetToSortSeq(matched \cap (begin..end), <)
    /\ process' = [process EXCEPT ![f] = Tail(@)]
    /\ UNCHANGED <<given, sess, quit, kill, closed, source, reqs, responses, d, retr, faults, stray>>

-----------------------------------------------------------------------------
\* Mutant: requests of the closed session count as made.
ResetNothing == responses

(* scheduler.reset: what was asked for and never came is asked for again.  *)
reset ==
    [b \in Bits |-> [s \in Wanted |-> IF responses[b][s] = "pending" THEN "none" ELSE responses[b][s]]]

Running == [requests |-> [b \in Bits |-> <<>>], unallocs |-> {}, allocs |-> 0,
            shutdown |-> FALSE, running |-> TRUE]

Cleared ==
    /\ source' = SectionOf(begin)
    /\ stage' = [f \in Stages |-> <<>>]
    /\ process' = [f \in Stages |-> <<>>]
    /\ reqs' = [k \in Slots |-> <<>>]

(* NewMatcher drops filters that are empty or have an empty clause.        *)
NewMatcher(args) == SelectSeq(args, LAMBDA filter : filter # {} /\ {} \notin filter)

MatcherInit ==
    /\ \E setup \in Setups : filters = NewMatcher(setup[1]) /\ retrievers = setup[2]
    /\ sess = 1 /\ quit = {} /\ kill = {} /\ closed = {}
    /\ source = SectionOf(begin)
    /\ stage = [f \in Stages |-> <<>>]
    /\ process = [f \in Stages |-> <<>>]
    /\ reqs = [k \in Slots |-> <<>>]
    /\ responses = [b \in Bits |-> [s \in Wanted |-> "none"]]
    /\ d = Running
    /\ retr = [r \in AllRetrievers |-> Idle]
    /\ results = <<>> /\ faults = 0 /\ stray = FALSE

CloseSession ==
    /\ sess \notin quit /\ sess < Cardinality(DOMAIN retrievers)
    /\ quit' = quit \cup {sess}
    /\ UNCHANGED <<given, sess, kill, closed, pipeline, responses, d, retr, results, faults, stray>>

(* A second after quit. *)
KillTimer(s) ==
    /\ s \in quit \ kill
    /\ kill' = kill \cup {s}
    /\ UNCHANGED <<given, sess, quit, closed, pipeline, responses, d, retr, results, faults, stray>>

(* pend.Wait: the goroutines of the pipeline end on quit; the distributor  *)
(* in its own time.                                                        *)
SessionClosed ==
    /\ sess \in quit \ closed /\ ~d.running
    /\ closed' = closed \cup {sess}
    /\ Cleared
    /\ UNCHANGED <<given, sess, quit, kill, responses, d, retr, results, faults, stray>>

Start ==
    /\ sess \in closed /\ sess + 1 \in DOMAIN retrievers
    /\ sess' = sess + 1
    /\ responses' = reset
    /\ d' = Running /\ results' = <<>>
    /\ UNCHANGED <<given, quit, kill, closed, pipeline, retr, faults, stray>>

(* Once quit is closed only a request may still reach the distributor: the *)
(* other steps concern what is about to be dropped.                        *)
PipelineStep ==
    \/ sess \notin quit /\ \E f \in Stages : Fan(f) \/ Process(f)
    \/ sess \notin closed /\ \E k \in Slots : Schedule(k)

RetrieverStep(r) ==
    \/ AllocateRetrieval(r) \/ AllocateSections(r) \/ AllocateNothing(r) \/ RetrieverEnds(r)
    \/ Fetched(r) \/ NotFetched(r) \/ ClosedByRetriever(r) \/ DeliverSections(r) \/ DropSections(r)

SessionStep == Shutdown \/ Killed \/ SessionClosed

MatcherNext ==
    \/ PipelineStep \/ CloseSession \/ Start \/ SessionStep
    \/ \E r \in AllRetrievers : RetrieverStep(r)
    \/ \E s \in DOMAIN retrievers : KillTimer(s)

-----------------------------------------------------------------------------
Live == sess \notin quit /\ ~stray

(* A bit with requests is offered exactly once: it is among the            *)
(* unallocated ones or with one retriever that has not taken sections yet. *)
(* Otherwise sections are never fetched, or the distributor looks for the  *)
(* first request of an empty queue and panics (distributor, assign).       *)
TokenPerQueue ==
    /\ Live => \A bit \in Bits :
           Cardinality({r \in retrievers[sess] : retr[r].pc = "take" /\ retr[r].bit = bit})
             + (IF bit \in d.unallocs THEN 1 ELSE 0) = (IF d.requests[bit] # <<>> THEN 1 ELSE 0)
    /\ ~stray => \A bit \in d.unallocs : d.requests[bit] # <<>>

(* A vector that is awaited is in exactly one place: in the distributor's  *)
(* queue or with one retriever (scheduleRequests, distributor, deliver).   *)
AwaitedOnce ==
    Live => \A bit \in Bits, s \in Wanted :
        LET places == {i \in DOMAIN d.requests[bit] : d.requests[bit][i] = s}
                      \cup {r \in retrievers[sess] : "sections" \in DOMAIN retr[r] /\ retr[r].bit = bit
                                                  /\ s \in Range(retr[r].sections)}
        IN  IF responses[bit][s] = "pending" THEN Cardinality(places) = 1 ELSE places = {}

(* The distributor counts the retrievers that owe it a delivery, so that   *)
(* it waits for them, and only for them, before it ends.                   *)
AllocsCounted ==
    d.running /\ sess \notin kill /\ ~stray =>
        d.allocs = Cardinality({r \in retrievers[sess] : retr[r].pc \notin {"alloc", "gone"}})

Matches == {b \in begin..end : \A f \in Stages : \E clause \in filters[f] : clause \subseteq Blooms[b]}

(* What a session delivers is, in ascending order, a beginning of the      *)
(* blocks of the range that every filter matches; also in the session      *)
(* after one that was closed while it fetched.                             *)
ResultsExact == IsPrefix(results, SetToSortSeq(Matches, <))

(* A session that is not closed does not come to a halt before it has      *)
(* delivered all of them, although vectors were missing and the session    *)
(* before was closed with requests pending.                                *)
SessionCompletes ==
    Live /\ results # SetToSortSeq(Matches, <) =>
        ENABLED (PipelineStep \/ \E r \in AllRetrievers : RetrieverStep(r))

(* Close does not wait for ever, also when a retriever that owes a         *)
(* delivery is the one that called it.                                     *)
SessionCloses ==
    sess \in quit \ closed =>
        ENABLED (SessionStep \/ KillTimer(sess) \/ \E r \in AllRetrievers : RetrieverStep(r))

(* The distributor's books are right: every vector that is awaited, every  *)
(* bit with requests and every retriever is accounted for once.            *)
WorkAccounted == AwaitedOnce /\ TokenPerQueue /\ AllocsCounted

(* A session delivers exactly the matches, or is closed.                   *)
SessionAnswers == ResultsExact /\ SessionCompletes /\ SessionCloses
=============================================================================
