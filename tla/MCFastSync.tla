----------------------------- MODULE MCFastSync -----------------------------
(***************************************************************************)
(* Three of the five tables: receipts and difficulties are read the way    *)
(* bodies are.                                                             *)
(***************************************************************************)
EXTENDS FastSync, FiniteSets
MCTables == <<"hashes", "headers", "bodies">>
(* Nothing is claimed once a rewind has gone below the appending goroutine. *)
Unraced == ~raced
(* A block is stored beside the canonical one at one number at a time.      *)
OneSide == Cardinality({n \in Numbers : \A v \in Versions : <<n, v>> \in kvHeader}) <= 1
=============================================================================
