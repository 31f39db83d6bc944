----------------------------- MODULE Background -----------------------------
(***************************************************************************)
(* The goroutines that work beside the chain and the pool: the chain       *)
(* indexer, the bloom matcher, the transaction index and the journal of    *)
(* local transactions.  They share no state, so a behaviour of one is      *)
(* taken with the others at rest: focus names the one that moves.          *)
(***************************************************************************)
EXTENDS ChainIndexer, Matcher, TxIndexer, TxJournal

VARIABLE focus

vars == <<focus, indexerVars, matcherVars, txVars, journalVars>>

AtFirst == IndexerInit /\ MatcherInit /\ TxInit /\ JournalInit

Init ==
    /\ AtFirst
    /\ focus \in {"indexer", "matcher", "transactions", "journal"}
    /\ focus # "transactions" => ~fastSync
    /\ focus # "matcher" => retrievers = (CHOOSE setup \in Setups : TRUE)[2]

Next ==
    /\ UNCHANGED focus
    /\ \/ focus = "indexer" /\ IndexerNext /\ UNCHANGED <<matcherVars, txVars, journalVars>>
       \/ focus = "matcher" /\ MatcherNext /\ UNCHANGED <<indexerVars, txVars, journalVars>>
       \/ focus = "transactions" /\ TxNext /\ UNCHANGED <<indexerVars, matcherVars, journalVars>>
       \/ focus = "journal" /\ JournalNext /\ UNCHANGED <<indexerVars, matcherVars, txVars>>

Spec == Init /\ [][Next]_vars
=============================================================================
