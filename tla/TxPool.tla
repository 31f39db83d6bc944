------------------------------- MODULE TxPool -------------------------------
(***************************************************************************)
(* The transaction pool (tx_pool.go): what the operations that hold        *)
(* pool.mu do to its maps.  Each action is one critical section; module    *)
(* TxPoolReorg shows in which order they come.                             *)
(*                                                                         *)
(* A helper takes the pool and returns it changed, like the method it is   *)
(* named after.  The journal, metrics and events are left out.  A          *)
(* transaction that validateTx refuses for what it is (size, sign,         *)
(* signature, intrinsic gas) never matters and is not in Tx.               *)
(***************************************************************************)
EXTENDS TxListOps, Sequences, SequencesExt

CONSTANTS
    Addr,
    Tx,             \* records [from, nonce, price, cost, gas, slots]
    Price,          \* prices SetGasPrice is called with
    GlobalSlots, GlobalQueue, AccountSlots, AccountQueue,   \* config
    maxReorgDepth,  \* deeper reorganisations reinject nothing (64)
    Block, Genesis, Parent, Number,     \* the chain: a tree of blocks ...
    Txs,            \* ... Txs[b]: the transactions of b, in order
    StateNonce, StateBalance, GasLimit, \* [b][a], [b][a], [b]
    None

ASSUME PoolConstants ==
    /\ {GlobalSlots, GlobalQueue, AccountSlots, AccountQueue} \subseteq Nat \ {0}
    \* bound: the price heap never has to break a tie
    /\ \A t, u \in Tx : t.price = u.price /\ t.nonce = u.nonce => t = u

VARIABLES
    pool,       \* the fields of TxPool
    dirty,      \* accounts for which promotion has been requested
    head,       \* the head the last reset request was for
    last        \* history: what the last critical section did

vars == <<pool, dirty, head, last>>

-----------------------------------------------------------------------------
(* The maps of lists, the lookup and the nonces                            *)

\* S as a sequence in the order of Before, which is total on S.
Ranked(S, Before(_, _)) ==
    [i \in 1..Cardinality(S) |->
        CHOOSE t \in S : Cardinality({u \in S : Before(u, t)}) = i - 1]

ByNonce(S) == Ranked(S, LAMBDA t, u : t.nonce < u.nonce)

\* pool.pending[a] or pool.queue[a], a new list if there is none.
ListOf(p, m, a) == IF a \in DOMAIN p[m] THEN p[m][a] ELSE newTxList(m = "pending")

SetList(p, m, a, l) == [p EXCEPT ![m] = [x \in DOMAIN @ \cup {a} |-> IF x = a THEN l ELSE @[x]]]

\* delete(pool.pending, a) takes the heartbeat along.
DeleteList(p, m, a) ==
    [p EXCEPT ![m] = Restrict(@, DOMAIN @ \ {a}),
              !.beats = IF m = "pending" THEN SelectSeq(@, LAMBDA x : x # a) ELSE @]

SetOrDelete(p, m, a, l) ==
    IF l.txs = {} THEN DeleteList(p, m, a) ELSE SetList(p, m, a, l)

\* txLookup.Remove of each transaction of S; it dereferences what it finds.
AllRemove(p, S) == [p EXCEPT !.all = @ \ S, !.panic = @ \/ ~(S \subseteq p.all)]

Slots(S) == MapThenSumSet(LAMBDA t : t.slots, S)

LenSum(p, m) == MapThenSumSet(LAMBDA a : Cardinality(p[m][a].txs), DOMAIN p[m])

setIfLower(p, a, nonce) == [p EXCEPT !.nonces[a] = IF @ <= nonce THEN @ ELSE nonce]

-----------------------------------------------------------------------------
(* txPricedList: a heap with stale entries and a count of them.  The heap  *)
(* is a bag: items[t] is how many entries t has.                           *)

Cheaper(t, u) == t.price < u.price \/ (t.price = u.price /\ t.nonce > u.nonce)

ByPrice == Ranked(Tx, Cheaper)

\* all.Add and priced.Put.
AddPriced(p, tx) == [p EXCEPT !.all = @ \cup {tx}, !.items[tx] = @ + 1]

Removed(p, count) ==
    IF p.stales + count <= SumFunction(p.items) \div 4
    THEN [p EXCEPT !.stales = @ + count]
    ELSE [p EXCEPT !.stales = 0, !.items = [t \in Tx |-> IF t \in p.all THEN 1 ELSE 0]]

\* The entries of S, all stale, are popped.
PopStale(p, S) ==
    [p EXCEPT !.items = [t \in Tx |-> IF t \in S THEN 0 ELSE @[t]],
              !.stales = @ - SumFunctionOnSet(p.items, S)]

InHeap(p) == {t \in Tx : p.items[t] > 0}
Live(p)   == InHeap(p) \cap p.all

\* Underpriced looks at the cheapest live entry; the stale ones before it go.
Peek(p) == PopStale(p, {t \in InHeap(p) \ p.all : \A u \in Live(p) : Cheaper(t, u)})

Underpriced(p, tx) ==
    /\ tx.from \notin p.locals
    /\ \E t \in Live(p) : t.price >= tx.price /\ \A u \in Live(p) \ {t} : Cheaper(t, u)

\* Mutant: local transactions are discarded like others.
DiscardStepLocals(d, t) ==
    LET p == d.pool
        k == Min({p.items[t], (d.slots + t.slots - 1) \div t.slots})
    IN  IF d.slots <= 0 \/ p.items[t] = 0 THEN d
        ELSE IF t \notin p.all THEN [d EXCEPT !.pool = PopStale(p, {t})]
        ELSE [d EXCEPT !.pool.items[t] = @ - k, !.drop = Append(@, t),
                       !.slots = @ - k * t.slots]

\* Discard pops the entries of t, as long as slots are to be freed.  A live
\* transaction may have two entries and is then counted twice.
DiscardStep(d, t) ==
    LET p == d.pool
        k == Min({p.items[t], (d.slots + t.slots - 1) \div t.slots})
    IN  IF d.slots <= 0 \/ p.items[t] = 0 THEN d
        ELSE IF t \notin p.all THEN [d EXCEPT !.pool = PopStale(p, {t})]
        ELSE IF t.from \in p.locals THEN d
        ELSE [d EXCEPT !.pool.items[t] = @ - k, !.drop = Append(@, t),
                       !.slots = @ - k * t.slots]

Discard(p, slots) ==
    FoldLeft(DiscardStep, [pool |-> p, slots |-> slots, drop |-> <<>>], ByPrice)

\* What Cap looks at: the entries before the first live one that is not below
\* the threshold.
CapReach(p, threshold) ==
    {t \in InHeap(p) : \A u \in Live(p) : u.price >= threshold => Cheaper(t, u)}

CapDrop(p, threshold) == {t \in CapReach(p, threshold) \cap p.all : t.from \notin p.locals}

PricedCap(p, threshold) ==
    LET q == PopStale(p, CapReach(p, threshold) \ p.all) IN
    [q EXCEPT !.items = [t \in Tx |-> IF t \in CapDrop(p, threshold) THEN 0 ELSE @[t]]]

-----------------------------------------------------------------------------
(* enqueueTx, promoteTx, removeTx                                          *)

enqueueTx(p, tx) ==
    LET l == ListOf(p, "queue", tx.from)
        old == Replaced(l, tx)
        q == SetList(p, "queue", tx.from, Insert(l, tx))
        r == IF old = {} THEN q ELSE Removed(AllRemove(q, old), 1)
    IN  IF ~Accepts(l, tx) THEN p
        ELSE IF tx \in r.all THEN r ELSE AddPriced(r, tx)

enqueueTxs(p, S) == FoldLeft(enqueueTx, p, ByNonce(S))

promoteTx(p, tx) ==
    LET a == tx.from
        l == ListOf(p, "pending", a)
        old == Replaced(l, tx)
        q == SetList(p, "pending", a, Insert(l, tx))
        r == IF old = {} THEN q ELSE Removed(AllRemove(q, old), 1)
        s == IF tx \in r.all THEN r ELSE AddPriced(r, tx)
    IN  IF Accepts(l, tx)
        THEN [s EXCEPT !.beats = Append(SelectSeq(@, LAMBDA x : x # a), a),
                       !.nonces[a] = tx.nonce + 1]
        ELSE Removed(AllRemove(p, {tx}), 1)

\* Mutant: the next nonce is not lowered.
RemovePendingKeepNonce(p, tx) ==
    LET l == p.pending[tx.from]
        gone == Replaced(l, tx)
        later == After(l, gone)
    IN  enqueueTxs(SetOrDelete(p, "pending", tx.from, Without(l, gone \cup later)), later)

\* The pending transactions after the removed one go back to the queue.
RemovePending(p, tx) ==
    LET l == p.pending[tx.from]
        gone == Replaced(l, tx)
        later == After(l, gone)
        q == SetOrDelete(p, "pending", tx.from, Without(l, gone \cup later))
    IN  setIfLower(enqueueTxs(q, later), tx.from, tx.nonce)

removeTx(p, tx, outofbound) ==
    LET a == tx.from
        q == AllRemove(p, {tx})
        r == IF outofbound THEN Removed(q, 1) ELSE q
        l == ListOf(r, "queue", a)
    IN  IF tx \notin p.all THEN p
        ELSE IF Overlaps(ListOf(r, "pending", a), tx) THEN RemovePending(r, tx)
        ELSE SetOrDelete(r, "queue", a, Without(l, Replaced(l, tx)))

removeTxs(p, s, outofbound) == FoldLeft(LAMBDA q, t : removeTx(q, t, outofbound), p, s)

-----------------------------------------------------------------------------
(* add                                                                     *)

Valid(p, tx, local) ==
    /\ tx.gas <= GasLimit[p.state]
    /\ local \/ tx.from \in p.locals \/ p.gasPrice <= tx.price
    /\ StateNonce[p.state][tx.from] <= tx.nonce
    /\ tx.cost <= StateBalance[p.state][tx.from]

Full(p) == Cardinality(p.all) >= GlobalSlots + GlobalQueue

MakeRoom(p, tx) ==
    LET d == Discard(p, Slots(p.all) - (GlobalSlots + GlobalQueue) + tx.slots) IN
    removeTxs(d.pool, d.drop, FALSE)

\* Mutant: the replaced transaction stays in the lookup.
ReplacePendingKeepOld(p, tx) ==
    LET l == p.pending[tx.from] IN
    IF Accepts(l, tx)
    THEN AddPriced(Removed(SetList(p, "pending", tx.from, Insert(l, tx)), 1), tx)
    ELSE p

\* tx takes the place of a pending transaction, or is refused.
ReplacePending(p, tx) ==
    LET l == p.pending[tx.from] IN
    IF Accepts(l, tx)
    THEN AddPriced(Removed(AllRemove(SetList(p, "pending", tx.from, Insert(l, tx)),
                                     Replaced(l, tx)), 1), tx)
    ELSE p

\* What a full pool does first: Underpriced peeks at the heap, Discard frees
\* slots.
Admit(p, tx, local) ==
    LET q == IF local \/ tx.from \in p.locals THEN p ELSE Peek(p) IN
    IF ~Full(p) THEN p
    ELSE IF ~local /\ Underpriced(p, tx) THEN q ELSE MakeRoom(q, tx)

\* The pool after add, and whether it reports a new transaction.
add(p, tx, local) ==
    LET q == Admit(p, tx, local)
        l == ListOf(q, "queue", tx.from)
        r == enqueueTx(q, tx)
    IN  IF tx \in p.all \/ ~Valid(p, tx, local)
        THEN [pool |-> p, new |-> FALSE]
        ELSE IF Full(p) /\ ~local /\ Underpriced(p, tx)
        THEN [pool |-> q, new |-> FALSE]
        ELSE IF Overlaps(ListOf(q, "pending", tx.from), tx)
        THEN [pool |-> ReplacePending(q, tx), new |-> FALSE]
        ELSE [pool |-> IF local /\ Accepts(l, tx)
                       THEN [r EXCEPT !.locals = @ \cup {tx.from}] ELSE r,
              new |-> Replaced(l, tx) = {}]

-----------------------------------------------------------------------------
(* runReorg and what it calls; order is the order a map is iterated in     *)

Ancestors == LET anc[b \in Block] == IF b = Genesis THEN {b} ELSE {b} \cup anc[Parent[b]]
             IN  anc

\* The transactions of the blocks of old's branch that new's does not have,
\* later blocks first, without those that new's branch included.
Reinject(old, new) ==
    LET included == UNION {Range(Txs[b]) : b \in Ancestors[new] \ Ancestors[old]}
        discarded[b \in Block] ==
            IF b \in Ancestors[new] THEN <<>> ELSE Txs[b] \o discarded[Parent[b]]
        depth == IF Number[old] < Number[new] THEN Number[new] - Number[old]
                 ELSE Number[old] - Number[new]
    IN  IF old = Parent[new] \/ depth > maxReorgDepth THEN <<>>
        ELSE SelectSeq(discarded[old], LAMBDA t : t \notin included)

\* reset, unless it gives up because it misses a block or the state.
Reset(p, old, new) ==
    LET q == [p EXCEPT !.state = new, !.nonces = StateNonce[new]] IN
    FoldLeft(LAMBDA r, t : add(r, t, FALSE).pool, q, Reinject(old, new))

promoteAccount(p, a) ==
    LET l0 == p.queue[a]
        forwards == Below(l0, StateNonce[p.state][a])
        l1 == Without(l0, forwards)
        drops == Drops(l1, StateBalance[p.state][a], GasLimit[p.state])
        l2 == Filtered(l1, StateBalance[p.state][a], GasLimit[p.state])
        readies == Readies(l2, p.nonces[a])
        l3 == Without(l2, readies)
        caps == IF a \in p.locals THEN {} ELSE Beyond(l3, AccountQueue)
        promoted == FoldLeft(promoteTx, AllRemove(p, forwards \cup drops), ByNonce(readies))
        q == Removed(AllRemove(promoted, caps), Cardinality(forwards \cup drops \cup caps))
    IN  SetOrDelete(q, "queue", a, Without(l3, caps))

promoteExecutables(p, accounts) ==
    FoldLeft(LAMBDA q, a : IF a \in DOMAIN q.queue THEN promoteAccount(q, a) ELSE q,
             p, accounts)

\* The transactions of a list that does not begin with nonce.
Gapped(l, nonce) == IF nonce \in Nonces(l) THEN {} ELSE l.txs

demoteAccount(p, a) ==
    LET l0 == p.pending[a]
        nonce == StateNonce[p.state][a]
        olds == Below(l0, nonce)
        l1 == Without(l0, olds)
        drops == Drops(l1, StateBalance[p.state][a], GasLimit[p.state])
        invalids == Invalids(l1, StateBalance[p.state][a], GasLimit[p.state])
        l2 == Filtered(l1, StateBalance[p.state][a], GasLimit[p.state])
        gapped == Gapped(l2, nonce)
        q == Removed(AllRemove(p, olds \cup drops), Cardinality(olds \cup drops))
    IN  SetOrDelete(enqueueTxs(q, invalids \cup gapped), "pending", a, Without(l2, gapped))

demoteUnexecutables(p, order) ==
    FoldLeft(LAMBDA q, a : IF a \in DOMAIN p.pending THEN demoteAccount(q, a) ELSE q, p, order)

\* Each of the accounts loses its last pending transaction.
RECURSIVE Penalize(_, _, _)
Penalize(p, accounts, threshold) ==
    LET DropLast(q, a) ==
            LET l == q.pending[a]
                caps == Beyond(l, Cardinality(l.txs) - 1)
            IN  Removed(setIfLower(AllRemove(SetList(q, "pending", a, Without(l, caps)), caps),
                                   a, Max(Nonces(l))), 1)
    IN  IF /\ LenSum(p, "pending") > GlobalSlots
           /\ Cardinality(p.pending[Last(accounts)].txs) > threshold
        THEN Penalize(FoldLeft(DropLast, p, accounts), accounts, threshold)
        ELSE p

\* The offenders so far are brought down to the next one's length, and so on.
RECURSIVE Equalize(_, _, _)
Equalize(p, offenders, spammers) ==
    LET q == IF offenders = <<>> THEN p
             ELSE Penalize(p, offenders, Cardinality(p.pending[Head(spammers)].txs))
    IN  IF LenSum(p, "pending") > GlobalSlots /\ spammers # <<>>
        THEN Equalize(q, Append(offenders, Head(spammers)), Tail(spammers))
        ELSE IF offenders = <<>> THEN p ELSE Penalize(p, offenders, AccountSlots)

Spammers(p) ==
    {a \in DOMAIN p.pending \ p.locals : Cardinality(p.pending[a].txs) > AccountSlots}

\* Position of a in a sequence of accounts.
At(s, a) == CHOOSE i \in DOMAIN s : s[i] = a

\* Mutant: the shortest list is taken first.
truncatePendingShortest(p, order) ==
    LET size(a) == Cardinality(p.pending[a].txs)
        shorter(a, b) == size(a) < size(b) \/ (size(a) = size(b) /\ At(order, a) < At(order, b))
    IN  Equalize(p, <<>>, Ranked(Spammers(p), shorter))

truncatePending(p, order) ==
    LET size(a) == Cardinality(p.pending[a].txs)
        longer(a, b) == size(a) > size(b) \/ (size(a) = size(b) /\ At(order, a) < At(order, b))
    IN  Equalize(p, <<>>, Ranked(Spammers(p), longer))

\* Accounts without a heartbeat come first, the latest heartbeat last.
ByHeartbeat(p, order) ==
    SelectSeq(order, LAMBDA a : a \notin Range(p.beats)) \o p.beats

TruncateQueueStep(d, a) ==
    LET l == d.pool.queue[a]
        size == Cardinality(l.txs)
    IN  IF size <= d.drop
        THEN [pool |-> removeTxs(d.pool, ByNonce(l.txs), TRUE), drop |-> d.drop - size]
        ELSE [pool |-> removeTxs(d.pool, Reverse(ByNonce(Beyond(l, size - d.drop))), TRUE),
              drop |-> 0]

truncateQueue(p, order) ==
    LET addresses == SelectSeq(Reverse(ByHeartbeat(p, order)),
                               LAMBDA a : a \in DOMAIN p.queue \ p.locals)
        drop == LenSum(p, "queue") - GlobalQueue
    IN  IF drop <= 0 THEN p
        ELSE FoldLeft(TruncateQueueStep, [pool |-> p, drop |-> drop], addresses).pool

\* The last loop of runReorg; it indexes into every pending list.
SetNonces(p) ==
    [p EXCEPT !.nonces = [a \in Addr |-> IF a \in DOMAIN p.pending /\ p.pending[a].txs # {}
                                         THEN Max(Nonces(p.pending[a])) + 1 ELSE @[a]],
              !.panic = @ \/ \E a \in DOMAIN p.pending : p.pending[a].txs = {}]

-----------------------------------------------------------------------------
(* The critical sections                                                   *)

Init ==
    /\ pool = [all |-> {}, pending |-> [a \in {} |-> None], queue |-> [a \in {} |-> None],
               beats |-> <<>>, locals |-> {}, items |-> [t \in Tx |-> 0], stales |-> 0,
               nonces |-> StateNonce[Genesis], state |-> Genesis, gasPrice |-> 1,
               panic |-> FALSE]
    /\ dirty = {}
    /\ head = Genesis
    /\ last = [op |-> "new"]

\* addTxsLocked, one transaction at a time.
AddTx(tx, local) ==
    LET r == add(pool, tx, local) IN
    /\ tx \notin pool.all
    /\ pool' = r.pool
    /\ dirty' = IF r.new THEN dirty \cup {tx.from} ELSE dirty
    /\ last' = [op |-> "add"]
    /\ UNCHANGED head

\* History: the accounts whose pending transactions truncation cut.
Cut(p, q) == {a \in DOMAIN p.pending : p.pending[a].txs # ListOf(q, "pending", a).txs}

\* runReorg without a reset.  It was launched with the accounts that were
\* dirty then; others may have become so since.
RunReorg(accounts, order) ==
    LET p == promoteExecutables(pool, SelectSeq(order, LAMBDA a : a \in accounts))
        q == truncateQueue(truncatePending(p, order), order)
    IN  /\ pool' = SetNonces(q)
        /\ dirty' = dirty \ accounts
        /\ last' = [op |-> "run", accounts |-> accounts, cut |-> Cut(p, q)]
        /\ UNCHANGED head

\* runReorg with a reset from the last head to new; ok: reset finds the
\* blocks and the state.  Every queued account is promoted.
RunReset(new, ok, order) ==
    LET p == IF ok THEN Reset(pool, head, new) ELSE pool
        q == demoteUnexecutables(
                promoteExecutables(p, SelectSeq(order, LAMBDA a : a \in DOMAIN p.queue)), order)
        r == truncateQueue(truncatePending(q, order), order)
    IN  /\ new # head
        /\ pool' = SetNonces(r)
        /\ \E accounts \in SUBSET dirty : dirty' = dirty \ accounts
        /\ head' = new
        /\ last' = [op |-> "reset", accounts |-> {}, cut |-> Cut(q, r)]

\* The eviction tick: k of the heartbeats are older than config.Lifetime, and
\* so is one that was never recorded.
Evict(k, order) ==
    LET old == {a \in DOMAIN pool.queue \ pool.locals :
                    \A i \in DOMAIN pool.beats : pool.beats[i] = a => i <= k}
        evictAccount(p, a) == removeTxs(p, ByNonce(p.queue[a].txs), TRUE)
    IN  /\ old # {}
        /\ pool' = FoldLeft(evictAccount, pool, SelectSeq(order, LAMBDA a : a \in old))
        /\ last' = [op |-> "evict"]
        /\ UNCHANGED <<dirty, head>>

SetGasPrice(price) ==
    /\ price # pool.gasPrice
    /\ pool' = removeTxs(PricedCap([pool EXCEPT !.gasPrice = price], price),
                         SelectSeq(ByPrice, LAMBDA t : t \in CapDrop(pool, price)), FALSE)
    /\ last' = [op |-> "price"]
    /\ UNCHANGED <<dirty, head>>

Orders == {s \in [1..Cardinality(Addr) -> Addr] : Range(s) = Addr}

Next ==
    \/ \E tx \in Tx, local \in BOOLEAN : AddTx(tx, local)
    \/ \E order \in Orders :
        \/ \E accounts \in SUBSET dirty : RunReorg(accounts, order)
        \/ \E new \in Block, ok \in BOOLEAN : RunReset(new, ok, order)
        \/ \E k \in 0..Len(pool.beats) : Evict(k, order)
    \/ \E price \in Price : SetGasPrice(price)

Spec == Init /\ [][Next]_vars

-----------------------------------------------------------------------------

\* Shape of the state.
TypeOK ==
    /\ pool.all \subseteq Tx
    /\ \A m \in {"pending", "queue"} : \A a \in DOMAIN pool[m] :
        /\ a \in Addr
        /\ \A t \in pool[m][a].txs : t \in Tx /\ t.from = a
        /\ Cardinality(Nonces(pool[m][a])) = Cardinality(pool[m][a].txs)
    /\ pool.beats \in Seq(Addr) /\ pool.locals \subseteq Addr
    /\ pool.items \in [Tx -> Nat] /\ pool.stales \in Int
    /\ pool.nonces \in [Addr -> Nat]
    /\ {pool.state, head} \subseteq Block
    /\ dirty \subseteq Addr

InLists(m) == UNION {pool[m][a].txs : a \in DOMAIN pool[m]}

\* The lookup has exactly the transactions of the lists, and no nonce of an
\* account is both pending and queued, whatever was replaced, demoted,
\* truncated or reinjected.
LookupMatchesLists ==
    /\ pool.all = InLists("pending") \cup InLists("queue")
    /\ \A a \in DOMAIN pool.pending \cap DOMAIN pool.queue :
        Nonces(pool.pending[a]) \cap Nonces(pool.queue[a]) = {}

\* No transaction is removed from the lookup that is not there and no empty
\* list is left behind: both end in a nil dereference or a bad index.
NoPanic ==
    /\ ~pool.panic
    /\ \A m \in {"pending", "queue"} : \A a \in DOMAIN pool[m] : pool[m][a].txs # {}

\* Every transaction can be found by price, so that a full pool has one to
\* compare with and to discard, and stale entries are never undercounted.
PricedCoversPool ==
    /\ pool.all \subseteq InHeap(pool)
    /\ pool.stales >= SumFunctionOnSet(pool.items, InHeap(pool) \ pool.all)

\* The first pending transaction of an account is the one the state expects
\* next, and every pending transaction could be paid for and fits a block.
PendingExecutable ==
    \A a \in DOMAIN pool.pending :
        /\ StateNonce[pool.state][a] \in Nonces(pool.pending[a])
        /\ \A t \in pool.pending[a].txs :
            /\ t.nonce >= StateNonce[pool.state][a]
            /\ t.cost <= StateBalance[pool.state][a] /\ t.gas <= GasLimit[pool.state]

\* Nonce, which wallets ask for the nonce of their next transaction, is one
\* past the last pending transaction, and never past the state's if there is
\* none.  (It can be below the state's: a reinjection into a full pool may
\* discard a pending transaction that the new head has included.)
NonceIsNext ==
    \A a \in Addr :
        IF a \in DOMAIN pool.pending
        THEN pool.nonces[a] = Max(Nonces(pool.pending[a])) + 1
        ELSE pool.nonces[a] <= StateNonce[pool.state][a]

\* After a run the limits hold, or what exceeds them is within each account's
\* allowance or local.
LimitsAfterRun ==
    last.op \in {"run", "reset"} =>
        /\ \/ LenSum(pool, "pending") <= GlobalSlots
           \/ \A a \in DOMAIN pool.pending \ pool.locals :
                Cardinality(pool.pending[a].txs) <= AccountSlots
        /\ \/ LenSum(pool, "queue") <= GlobalQueue
           \/ DOMAIN pool.queue \subseteq pool.locals

\* However big, dear or local what arrives is, the transactions of accounts
\* that are not local never outnumber the pool's capacity.
CapacityKept ==
    Cardinality({t \in pool.all : t.from \notin pool.locals}) <= GlobalSlots + GlobalQueue

\* Truncation is fair: it takes from no account that has its allowance or
\* less, and leaves those it takes from at least as much as any other has.
TruncationFair ==
    last.op \in {"run", "reset"} =>
        \A a \in last.cut :
            /\ a \in DOMAIN pool.pending
            /\ Cardinality(pool.pending[a].txs) >= AccountSlots
            /\ \A b \in DOMAIN pool.pending \ pool.locals :
                Cardinality(pool.pending[a].txs) >= Cardinality(pool.pending[b].txs)

\* A run without a reset leaves no executable transaction of its accounts
\* behind in the queue.
ExecutablesPromoted ==
    last.op = "run" =>
        \A a \in last.accounts \cap DOMAIN pool.queue :
            pool.nonces[a] \notin Nonces(pool.queue[a])

\* A transaction of a local account leaves the pool only when the chain has
\* its nonce, it cannot be paid for, or a better one replaces it: no limit,
\* price or age drops it.
LocalsKept ==
    [][\A t \in pool.all \ pool'.all :
        t.from \in pool.locals =>
            \/ t.nonce < StateNonce[pool'.state][t.from]
            \/ t.cost > StateBalance[pool'.state][t.from] \/ t.gas > GasLimit[pool'.state]
            \/ \E u \in pool'.all : u.from = t.from /\ u.nonce = t.nonce /\ u.price > t.price
      ]_vars

\* Unless the pool is full, a transaction is replaced only by one that pays
\* the price bump.
ReplacementPays ==
    [][last'.op = "add" /\ ~Full(pool) =>
        \A t \in pool.all \ pool'.all : \E u \in pool'.all \ pool.all :
            /\ u.from = t.from /\ u.nonce = t.nonce
            /\ u.price * 100 >= t.price * 100 + t.price * PriceBump - 99
      ]_vars

\* What a reader of the pool relies on agrees at every moment: lists, lookup
\* and price heap.
PoolConsistent == TypeOK /\ LookupMatchesLists /\ PricedCoversPool /\ NoPanic

\* Pending lists and next nonces follow the state, over resets forward,
\* sideways and back.
PendingFollowsState == PendingExecutable /\ NonceIsNext

\* The pool's limits hold, and are enforced at the cost of those above their
\* allowance.
LimitsKept == CapacityKept /\ LimitsAfterRun /\ TruncationFair

\* A transaction leaves the pool for a reason: a local one because of the
\* state or a better one, any other for a replacement that pays or for room.
DropsJustified == LocalsKept /\ ReplacementPays
=============================================================================
