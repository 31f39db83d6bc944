----------------------------- MODULE TxListSpec -----------------------------
(***************************************************************************)
(* What a txList promises the pool: a set of transactions, and for each    *)
(* call the result TxListOps defines.  Module TxList implements it.        *)
(***************************************************************************)
EXTENDS TxListOps

CONSTANTS Tx, Limit     \* transactions; values of limits and thresholds

VARIABLES
    list,   \* a list of TxListOps
    ret     \* the last call, its arguments and what it returned

vars == <<list, ret>>

Init ==
    /\ \E strict \in BOOLEAN : list = newTxList(strict)
    /\ ret = <<>>

Add(tx) ==
    /\ list' = IF Accepts(list, tx) THEN Insert(list, tx) ELSE list
    /\ ret' = IF Accepts(list, tx) THEN <<"add", tx, TRUE, Replaced(list, tx)>> ELSE <<"add", tx, FALSE, {}>>

\* Forward, Cap and Ready return what they take out.
Take(op, n, S) == list' = Without(list, S) /\ ret' = <<op, n, S>>

Filter(costLimit, gasLimit) ==
    /\ list' = Filtered(list, costLimit, gasLimit)
    /\ ret' = <<"filter", costLimit, gasLimit, Drops(list, costLimit, gasLimit),
               Invalids(list, costLimit, gasLimit)>>

Remove(tx) ==
    LET S == Replaced(list, tx) IN
    /\ list' = Without(list, S \cup After(list, S))
    /\ ret' = IF S = {} THEN <<"remove", tx, FALSE, {}>> ELSE <<"remove", tx, TRUE, After(list, S)>>

Flatten == ret' = <<"sorted", SortedByNonce(list.txs)>> /\ UNCHANGED list

Next ==
    \/ \E tx \in Tx : Add(tx) \/ Remove(tx)
    \/ \E n \in Limit :
        \/ Take("forward", n, Below(list, n))
        \/ Take("cap", n, Beyond(list, n))
        \/ Take("ready", n, Readies(list, n))
    \/ \E c, g \in Limit : Filter(c, g)
    \/ Flatten

Spec == Init /\ [][Next]_vars
=============================================================================
