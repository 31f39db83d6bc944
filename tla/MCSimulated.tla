---------------------------- MODULE MCSimulated -----------------------------
(***************************************************************************)
(* Transactions that revert from some time on, run out of gas, create a    *)
(* contract, and need what another one pays; shifts to before the parent,  *)
(* to before zero and past the clock; calls that cost less and more than   *)
(* they may, or than a word holds, with allowances up to the largest word. *)
(***************************************************************************)
EXTENDS Simulated

Message(from, to, nonce, gas, price, value, nz, need, refund, deadline, deep) ==
    [from |-> from, to |-> to, nonce |-> nonce, gas |-> gas, price |-> price, value |-> value,
     nz |-> nz, z |-> 1, need |-> need, refund |-> refund, deadline |-> deadline, deep |-> deep,
     checkNonce |-> TRUE]
MCTxs == {Message("A", "B", 0, 12, 1, 20, 0, 4, 3, 4, FALSE),
          Message("A", Creation, 1, 20, 1, 5, 1, 30, 0, 99, TRUE),
          Message("A", "B", 1, 14, 2, 0, 1, 4, 9, 99, FALSE),
          Message("B", "A", 0, 16, 1, 3, 0, 2, 1, 99, FALSE),
          Message("B", "A", 1, 30, 1, 0, 2, 2, 2, 7, FALSE)}
MCFunds == [a \in {"A", "B", Creation, Coinbase} |-> CASE a = "A" -> 60 [] a = "B" -> 16 [] OTHER -> 0]
MCShifts == {-3, 1, 4}
MCForward == {1, 4}

CallOf(to, gas, nz, z, need, deadline) ==
    [Message("A", to, 0, gas, 1, 3, nz, need, 2, deadline, FALSE) EXCEPT !.z = z, !.checkNonce = FALSE]
MCCalls == {CallOf("B", 0, 2, 3, 5, 5), CallOf("B", 30, 31, 1, 0, 99), CallOf(Creation, 9, 0, 5, 1, 99),
            CallOf("B", 22, 0, 17, 1, 99), CallOf("B", 3, 0, 0, 0, 99),
            CallOf("B", 127, 2, 3, 5, 5), CallOf("B", 127, 31, 1, 0, 99)}
=============================================================================
