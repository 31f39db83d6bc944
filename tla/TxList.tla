------------------------------- MODULE TxList -------------------------------
(***************************************************************************)
(* txList and the txSortedMap under it (tx_list.go): the transactions by   *)
(* nonce, the nonces in a heap, and a cached copy sorted by nonce that     *)
(* some operations drop and others patch.                                  *)
(*                                                                         *)
(* A map is a record [items, index, cache].  The heap (container/heap) is  *)
(* the sorted sequence of what is in it; Nil is a nil cache.               *)
(***************************************************************************)
EXTENDS TxListOps, Sequences

CONSTANTS Tx, Limit, Nil

(* Nonces, costs, limits and thresholds are numbers.                       *)
ASSUME TxListAssumption ==
    /\ \A tx \in Tx : tx.nonce \in Nat /\ tx.cost \in Nat /\ tx.gas \in Nat
    /\ Limit \subseteq Nat

SeqX == INSTANCE SequencesExt

VARIABLES strict, txs, costcap, gascap, ret

listVars == <<strict, txs, costcap, gascap, ret>>

Ascending(S) == CHOOSE s \in [1..Cardinality(S) -> S] : \A i, j \in DOMAIN s : i < j => s[i] < s[j]

Items(m) == {m.items[n] : n \in DOMAIN m.items}

Delete(f, S) == [n \in DOMAIN f \ S |-> f[n]]

newTxSortedMap == [items |-> [n \in {} |-> Nil], index |-> <<>>, cache |-> Nil]

\* The heap with one more nonce in it.
Pushed(index, nonce) ==
    LET k == Cardinality({i \in DOMAIN index : index[i] < nonce})
    IN  [i \in 1..(Len(index) + 1) |-> IF i <= k THEN index[i]
                                       ELSE IF i = k + 1 THEN nonce ELSE index[i - 1]]

MapPut(m, tx) ==
    [items |-> [n \in DOMAIN m.items \cup {tx.nonce} |-> IF n = tx.nonce THEN tx ELSE m.items[n]],
     index |-> IF tx.nonce \in DOMAIN m.items THEN m.index
               ELSE Pushed(m.index, tx.nonce),
     cache |-> Nil]

\* The first k nonces of the heap are taken out; c is what becomes of the cache.
PopFirst(m, k, c) ==
    [items |-> Delete(m.items, {m.index[i] : i \in 1..k}),
     index |-> SubSeq(m.index, k + 1, Len(m.index)),
     cache |-> c]

Popped(m, k) == {m.items[m.index[i]] : i \in 1..k}

ForwardCount(m, threshold) ==
    Cardinality({i \in DOMAIN m.index : m.index[i] < threshold})

MapForward(m, threshold) ==
    LET k == ForwardCount(m, threshold) IN
    PopFirst(m, k, IF m.cache = Nil THEN Nil ELSE SubSeq(m.cache, k + 1, Len(m.cache)))

\* Filter with a predicate that is true of the transactions of S.
MapFilter(m, S) ==
    LET left == {n \in DOMAIN m.items : m.items[n] \notin S} IN
    IF left = DOMAIN m.items THEN m
    ELSE [items |-> Delete(m.items, DOMAIN m.items \ left),
          index |-> Ascending(left),
          cache |-> Nil]

CapDrops(m, threshold) ==
    {m.items[m.index[i]] : i \in (threshold + 1)..Cardinality(DOMAIN m.items)}

MapCap(m, threshold) ==
    LET drops == CapDrops(m, threshold) IN
    IF Cardinality(DOMAIN m.items) <= threshold THEN m
    ELSE [items |-> Delete(m.items, {t.nonce : t \in drops}),
          index |-> SubSeq(m.index, 1, threshold),
          cache |-> IF m.cache = Nil THEN Nil
                    ELSE SubSeq(m.cache, 1, Len(m.cache) - Cardinality(drops))]

MapRemove(m, nonce) ==
    IF nonce \notin DOMAIN m.items THEN m
    ELSE [items |-> Delete(m.items, {nonce}),
          index |-> SeqX!RemoveFirst(m.index, nonce),
          cache |-> Nil]

\* How many nonces of the heap Ready pops.
ReadyCount(m, start) ==
    IF m.index = <<>> \/ m.index[1] > start THEN 0
    ELSE Cardinality({k \in DOMAIN m.index : m.index[k] = m.index[1] + k - 1})

MapReady(m, start) ==
    LET k == ReadyCount(m, start) IN
    IF k = 0 THEN m ELSE PopFirst(m, k, Nil)

MapFlatten(m) ==
    IF m.cache # Nil THEN m
    ELSE [m EXCEPT !.cache = SortedByNonce(Items(m))]

-----------------------------------------------------------------------------
(* txList                                                                  *)

\* The list as TxListOps sees it.
list == [strict |-> strict, txs |-> Items(txs), costcap |-> costcap, gascap |-> gascap]

ListInit ==
    /\ strict \in BOOLEAN
    /\ txs = newTxSortedMap
    /\ costcap = 0 /\ gascap = 0
    /\ ret = <<>>

\* Mutant: the marks are not raised.
AddKeepCaps(tx) ==
    IF Accepts(list, tx)
    THEN /\ ret' = <<"add", tx, TRUE, Replaced(list, tx)>>
         /\ txs' = MapPut(txs, tx)
         /\ UNCHANGED <<strict, costcap, gascap>>
    ELSE ret' = <<"add", tx, FALSE, {}>> /\ UNCHANGED <<strict, txs, costcap, gascap>>

Add(tx) ==
    IF Accepts(list, tx)
    THEN /\ ret' = <<"add", tx, TRUE, Replaced(list, tx)>>
         /\ txs' = MapPut(txs, tx)
         /\ costcap' = IF costcap < tx.cost THEN tx.cost ELSE costcap
         /\ gascap' = IF gascap < tx.gas THEN tx.gas ELSE gascap
         /\ UNCHANGED strict
    ELSE ret' = <<"add", tx, FALSE, {}>> /\ UNCHANGED <<strict, txs, costcap, gascap>>

Forward(threshold) ==
    /\ ret' = <<"forward", threshold, Popped(txs, ForwardCount(txs, threshold))>>
    /\ txs' = MapForward(txs, threshold)
    /\ UNCHANGED <<strict, costcap, gascap>>

Filter(costLimit, gasLimit) ==
    IF costcap <= costLimit /\ gascap <= gasLimit
    THEN ret' = <<"filter", costLimit, gasLimit, {}, {}>> /\ UNCHANGED <<strict, txs, costcap, gascap>>
    ELSE LET removed == {t \in Items(txs) : t.cost > costLimit \/ t.gas > gasLimit}
             m == MapFilter(txs, removed)
             invalids == {t \in Items(m) : \E r \in removed : r.nonce < t.nonce}
         IN  /\ costcap' = costLimit /\ gascap' = gasLimit
             /\ ret' = <<"filter", costLimit, gasLimit, removed, IF strict THEN invalids ELSE {}>>
             /\ txs' = IF strict THEN MapFilter(m, invalids) ELSE m
             /\ UNCHANGED strict

Cap(threshold) ==
    /\ ret' = <<"cap", threshold, CapDrops(txs, threshold)>>
    /\ txs' = MapCap(txs, threshold)
    /\ UNCHANGED <<strict, costcap, gascap>>

RemoveTx(tx) ==
    LET m == MapRemove(txs, tx.nonce)
        later == {t \in Items(m) : strict /\ t.nonce > tx.nonce}
        removed == tx.nonce \in DOMAIN txs.items
    IN  /\ ret' = IF removed THEN <<"remove", tx, TRUE, later>> ELSE <<"remove", tx, FALSE, {}>>
        /\ txs' = IF removed THEN MapFilter(m, later) ELSE txs
        /\ UNCHANGED <<strict, costcap, gascap>>

Ready(start) ==
    /\ ret' = <<"ready", start, Popped(txs, ReadyCount(txs, start))>>
    /\ txs' = MapReady(txs, start)
    /\ UNCHANGED <<strict, costcap, gascap>>

Flatten ==
    /\ txs' = MapFlatten(txs)
    /\ ret' = <<"sorted", MapFlatten(txs).cache>>
    /\ UNCHANGED <<strict, costcap, gascap>>

ListNext ==
    \/ \E tx \in Tx : Add(tx) \/ RemoveTx(tx)
    \/ \E n \in Limit : Forward(n) \/ Cap(n) \/ Ready(n)
    \/ \E c, g \in Limit : Filter(c, g)
    \/ Flatten

-----------------------------------------------------------------------------

Abstract == INSTANCE TxListSpec WITH list <- list, ret <- ret

\* Every call returns what the set of transactions says it should, and leaves
\* the set it should.
ImplementsTxListSpec == Abstract!Spec
=============================================================================
