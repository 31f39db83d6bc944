------------------------------- MODULE ForkID -------------------------------
(***************************************************************************)
(* Fork identifiers (forkid.go): a node tells which forks it has passed    *)
(* and which one it expects next, and its peer filters it.  The checksum   *)
(* is taken for injective: it is the set of the forks that went into it,   *)
(* which do so in ascending order and once each.                           *)
(***************************************************************************)
EXTENDS Naturals

CONSTANTS ForkBlocks,       \* block numbers a rule may be set to
          NoBlock,          \* a rule that is not set
          Rules,            \* the fields of the configuration that end in Block
          MaxHead           \* bound on the heads

ASSUME ForkAssumption == MaxHead \in Nat /\ ForkBlocks \subseteq 0..MaxHead

VARIABLES local, remote     \* two nodes with the same genesis: config and head

forkVars == <<local, remote>>

Never == MaxHead + 1        \* math.MaxUint64

(* The first of a set of blocks. *)
First(blocks) == CHOOSE f \in blocks : \A g \in blocks : f <= g

(* Each once, without the forks of the genesis. *)
gatherForks(config) == {config[f] : f \in Rules} \ {NoBlock, 0}

newID(node) ==
    LET passed == {f \in gatherForks(node.config) : f <= node.head}
        ahead == gatherForks(node.config) \ passed
    IN  [hash |-> passed, next |-> IF ahead = {} THEN 0 ELSE First(ahead)]

(* A peer that is behind must expect the fork that comes next here. *)
Stale(fork, id) == fork # id.next

\* Mutant: the last checksum is left out.
SumsShort(forks) == [f \in forks |-> {g \in forks : g < f}]

(* The checksum a node has before each fork, and after all of them. *)
Sums(forks) == [f \in forks \cup {Never} |-> {g \in forks : g < f}]

(* The filter compares with the first fork the head is not above. *)
newFilter(node, id) ==
    LET forks == gatherForks(node.config)
        sums == Sums(forks)
        here == First({f \in forks \cup {Never} : node.head <= f})
        at == {f \in DOMAIN sums : sums[f] = id.hash}
        there == CHOOSE f \in at : TRUE
    IN  IF at = {} THEN "local incompatible or stale"
        ELSE IF there = here
             THEN IF id.next > 0 /\ node.head >= id.next
                  THEN "local incompatible or stale" ELSE "ok"
        ELSE IF there < here /\ Stale(there, id) THEN "remote stale"
        ELSE "ok"

-----------------------------------------------------------------------------
ForkInit ==
    /\ local \in [config : [Rules -> ForkBlocks \cup {NoBlock}], head : {0}]
    /\ remote \in [config : [Rules -> ForkBlocks \cup {NoBlock}], head : {0}]

LocalHead == local.head < MaxHead /\ local' = [local EXCEPT !.head = @ + 1] /\ UNCHANGED remote
RemoteHead == remote.head < MaxHead /\ remote' = [remote EXCEPT !.head = @ + 1] /\ UNCHANGED local

ForkNext == LocalHead \/ RemoteHead

-----------------------------------------------------------------------------
Forks(node) == gatherForks(node.config)
Differ == (Forks(local) \ Forks(remote)) \cup (Forks(remote) \ Forks(local))

Compatible == \A f \in Differ : f > local.head /\ f > remote.head

(* Nodes whose forks agree up to the higher of their heads accept each     *)
(* other, however far one is behind, while neither head is a fork block:   *)
(* there the filter takes the fork for one to come and newID for one that  *)
(* has passed, and a node that syncs is turned away.                       *)
AcceptedBetweenForks ==
    Compatible /\ {local.head, remote.head} \cap (Forks(local) \cup Forks(remote)) = {} =>
        newFilter(local, newID(remote)) = "ok" /\ newFilter(remote, newID(local)) = "ok"

(* A node turns away a peer that has passed a block at which only one of   *)
(* them forks.  The filter does so once its head is above the fork, while  *)
(* newID counts the fork at its own block.                                 *)
DivergedRejected ==
    (\E f \in Differ : f < local.head /\ f <= remote.head) => newFilter(local, newID(remote)) # "ok"

(* The filter tells compatible peers from others.                          *)
FilterExact == AcceptedBetweenForks /\ DivergedRejected
=============================================================================
