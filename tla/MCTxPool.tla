------------------------------ MODULE MCTxPool ------------------------------
(***************************************************************************)
(* Two accounts.  "a" has three nonces, the second with a replacement that *)
(* pays the price bump and one that does not; "b" has two nonces, and its  *)
(* first transaction takes two slots.  Block x includes a's first          *)
(* transaction; block y, beside it, b's, and leaves "a" with less money.   *)
(***************************************************************************)
EXTENDS TxPool

T(from, nonce, price, cost, slots) ==
    [from |-> from, nonce |-> nonce, price |-> price, cost |-> cost, gas |-> 1,
     slots |-> slots]

a0 == T("a", 0, 3, 1, 1)
a1 == T("a", 1, 2, 2, 1)
a1x == T("a", 1, 3, 2, 1)
a1r == T("a", 1, 4, 1, 1)
a2 == T("a", 2, 1, 1, 1)
b0 == T("b", 0, 6, 1, 2)
b1 == T("b", 1, 5, 1, 1)

MCTx == {a0, a1, a1x, a1r, a2, b0, b1}
FewTx == {a0, a1, a1r, b0}
OneTxPerNonce == {a0, a1, a2, b0, b1}
MCBlock == {"g", "x", "y"}
MCParent == [b \in MCBlock |-> "g"]
MCNumber == [b \in MCBlock |-> IF b = "g" THEN 0 ELSE 1]
MCTxs == [b \in MCBlock |-> CASE b = "g" -> <<>> [] b = "x" -> <<a0>> [] b = "y" -> <<b0>>]
MCNonce == [b \in MCBlock |-> [a \in {"a", "b"} |->
    IF <<b, a>> \in {<<"x", "a">>, <<"y", "b">>} THEN 1 ELSE 0]]
MCBalance == [b \in MCBlock |-> [a \in {"a", "b"} |-> IF b = "y" /\ a = "a" THEN 1 ELSE 2]]
MCGasLimit == [b \in MCBlock |-> 1]
=============================================================================
