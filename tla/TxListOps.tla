----------------------------- MODULE TxListOps -----------------------------
(***************************************************************************)
(* What the operations of txList (tx_list.go) compute.  A list is a set of *)
(* transactions with distinct nonces and two high-water marks: the largest *)
(* cost and the largest gas of any transaction it had.  How txSortedMap    *)
(* stores the set is the business of module TxList.                        *)
(*                                                                         *)
(* A transaction is a record with fields nonce, price, cost and gas, and   *)
(* whatever else the module that uses these operators needs.               *)
(***************************************************************************)
EXTENDS Integers, FiniteSets

CONSTANT PriceBump      \* config.PriceBump, in percent

ASSUME PriceBumpAssumption == PriceBump \in Nat

newTxList(strict) == [strict |-> strict, txs |-> {}, costcap |-> 0, gascap |-> 0]

Nonces(l) == {t.nonce : t \in l.txs}

Overlaps(l, tx) == tx.nonce \in Nonces(l)

\* Add inserts tx: no transaction has its nonce, or one that pays less by
\* PriceBump percent at least.
Accepts(l, tx) ==
    \A t \in l.txs : t.nonce = tx.nonce =>
        t.price < tx.price /\ (t.price * (100 + PriceBump)) \div 100 <= tx.price

\* The transactions Add would replace: none or one.
Replaced(l, tx) == {t \in l.txs : t.nonce = tx.nonce}

\* The list after Add inserted tx.
Insert(l, tx) ==
    [l EXCEPT !.txs = (@ \ Replaced(l, tx)) \cup {tx},
              !.costcap = IF @ < tx.cost THEN tx.cost ELSE @,
              !.gascap  = IF @ < tx.gas THEN tx.gas ELSE @]

\* What Forward removes.
Below(l, threshold) == {t \in l.txs : t.nonce < threshold}

Without(l, S) == [l EXCEPT !.txs = @ \ S]

\* Filter need not look: no transaction can be over the limits.
InLimits(l, costLimit, gasLimit) == l.costcap <= costLimit /\ l.gascap <= gasLimit

\* First result of Filter: what cannot be paid for or needs too much gas ...
Drops(l, costLimit, gasLimit) ==
    IF InLimits(l, costLimit, gasLimit)
    THEN {}
    ELSE {t \in l.txs : t.cost > costLimit \/ t.gas > gasLimit}

\* What a strict list cannot keep once S is gone: all that comes after.
After(l, S) ==
    {t \in l.txs \ S : l.strict /\ \E s \in S : s.nonce < t.nonce}

\* ... second result, and the list that is left.
Invalids(l, costLimit, gasLimit) == After(l, Drops(l, costLimit, gasLimit))

Filtered(l, costLimit, gasLimit) ==
    IF InLimits(l, costLimit, gasLimit)
    THEN l
    ELSE [l EXCEPT !.txs = @ \ (Drops(l, costLimit, gasLimit)
                                  \cup Invalids(l, costLimit, gasLimit)),
                   !.costcap = costLimit, !.gascap = gasLimit]

\* What Cap removes: all but the threshold lowest nonces.
Beyond(l, threshold) ==
    {t \in l.txs : Cardinality({u \in l.txs : u.nonce < t.nonce}) >= threshold}

\* What Flatten returns: the set, of distinct nonces, in their order.
SortedByNonce(S) ==
    CHOOSE s \in [1..Cardinality(S) -> S] : \A i, j \in DOMAIN s : i < j => s[i].nonce < s[j].nonce

\* Mutant: the lowest nonce has to be below start.
ReadiesBelow(l, start) ==
    {t \in l.txs :
        /\ \E u \in l.txs : u.nonce < start
        /\ \A u \in l.txs : \A n \in u.nonce..t.nonce : n \in Nonces(l)}

\* What Ready takes out: if the lowest nonce is not above start, the run of
\* consecutive nonces that begins with it.
Readies(l, start) ==
    {t \in l.txs :
        /\ \E u \in l.txs : u.nonce <= start
        /\ \A u \in l.txs : \A n \in u.nonce..t.nonce : n \in Nonces(l)}
=============================================================================
