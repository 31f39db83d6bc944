----------------------------- MODULE ChainTree -----------------------------
(***************************************************************************)
(* The headers (and so the blocks) that can ever exist.  A header's hash   *)
(* commits to its whole ancestry, so they form a tree rooted at genesis,   *)
(* which the constants give: HeaderChain and BlockChain differ in which    *)
(* part of it they have stored, never in its shape.                        *)
(***************************************************************************)
EXTENDS Naturals

CONSTANTS
    Header,       \* the headers that can exist
    Genesis,      \* the genesis header
    MaxNumber,    \* bound: the largest header number
    Number,       \* Number[h]: header.Number
    Ancestor,     \* Ancestor[h][n]: the header numbered n on the way to h
    Difficulty,   \* Difficulty[h]: header.Difficulty
    NoHash        \* the zero hash: "no entry" in the canonical index

Numbers == 0..MaxNumber

ASSUME HeaderTree ==
    /\ MaxNumber \in Nat
    /\ Genesis \in Header
    /\ NoHash \notin Header
    /\ Number \in [Header -> Numbers]
    /\ Difficulty \in [Header -> Nat \ {0}]
    /\ Ancestor \in [Header -> [Numbers -> Header]]
    /\ \A h \in Header :
        /\ Number[h] = 0 => h = Genesis
        /\ Ancestor[h][Number[h]] = h
        /\ \A n \in 0..Number[h] :
            /\ Number[Ancestor[h][n]] = n
            /\ \A m \in 0..n : Ancestor[Ancestor[h][n]][m] = Ancestor[h][m]

ASSUME GenesisIsRoot == Number[Genesis] = 0

\* header.ParentHash
Parent(h) == Ancestor[h][Number[h] - 1]
=============================================================================
