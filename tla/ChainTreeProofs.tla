-------------------------- MODULE ChainTreeProofs --------------------------
(***************************************************************************)
(* Facts about the ancestors in a tree of headers, for the proofs about    *)
(* HeaderChain and BlockChain.                                             *)
(***************************************************************************)
EXTENDS ChainTree, TLAPS

\* A header's number, and those up to it, are numbers of the instance.
LEMMA NumberRange ==
    ASSUME NEW h \in Header
    PROVE  Number[h] \in Nat /\ \A n \in 0..Number[h] : n \in Numbers
  <1>1. MaxNumber \in Nat /\ Number[h] \in Numbers
    BY HeaderTree
  <1> QED BY <1>1 DEF Numbers

\* A header's ancestors carry their number and share its ancestors.
LEMMA Ancestry ==
    ASSUME NEW h \in Header, NEW n \in Numbers, n <= Number[h]
    PROVE  /\ Number[h] \in Numbers
           /\ Ancestor[h][n] \in Header
           /\ Number[Ancestor[h][n]] = n
           /\ Ancestor[h][Number[h]] = h
           /\ \A m \in 0..n : Ancestor[Ancestor[h][n]][m] = Ancestor[h][m]
  <1>1. Number[h] \in Numbers /\ MaxNumber \in Nat /\ Ancestor[h][n] \in Header
    BY HeaderTree
  <1>2. n \in 0..Number[h]
    BY <1>1 DEF Numbers
  <1> QED BY <1>1, <1>2, HeaderTree

\* Two headers that share the ancestor numbered n share all those below it.
LEMMA SharedAncestry ==
    ASSUME NEW g \in Header, NEW h \in Header, NEW n \in Numbers,
           n <= Number[g], n <= Number[h], Ancestor[g][n] = Ancestor[h][n]
    PROVE  \A m \in 0..n : Ancestor[g][m] = Ancestor[h][m]
  BY Ancestry

\* The parent of a header above genesis.
LEMMA ParentNumber ==
    ASSUME NEW h \in Header, Number[h] > 0
    PROVE  /\ Number[h] - 1 \in Numbers
           /\ Parent(h) \in Header
           /\ Number[Parent(h)] = Number[h] - 1
           /\ \A m \in 0 .. Number[h] - 1 : Ancestor[Parent(h)][m] = Ancestor[h][m]
  <1>1. Number[h] \in Numbers /\ MaxNumber \in Nat
    BY HeaderTree
  <1>2. Number[h] - 1 \in Numbers /\ Number[h] - 1 <= Number[h]
    BY <1>1 DEF Numbers
  <1> QED BY <1>2, Ancestry DEF Parent

\* Every header's ancestor numbered 0 is genesis.
LEMMA RootIsGenesis ==
    ASSUME NEW h \in Header
    PROVE  Genesis \in Header /\ Number[Genesis] = 0 /\ Ancestor[h][0] = Genesis
  <1>1. Number[h] \in 0..MaxNumber /\ MaxNumber \in Nat
    BY HeaderTree DEF Numbers
  <1>2. 0 \in Numbers /\ 0 <= Number[h]
    BY <1>1 DEF Numbers
  <1> QED BY <1>2, Ancestry, HeaderTree, GenesisIsRoot
=============================================================================
