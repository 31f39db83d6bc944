--------------------------- MODULE MCTxPoolReorg ---------------------------
(***************************************************************************)
(* Instances of TxPoolReorg.  The active run and the next one each have an *)
(* open channel, so two channels are enough; with a third one a faulty     *)
(* scheduler could have more.                                              *)
(***************************************************************************)
EXTENDS TxPoolReorg, TLC

Symmetric == Permutations(Adder) \cup Permutations(Chan)
=============================================================================
