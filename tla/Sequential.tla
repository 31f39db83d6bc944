----------------------------- MODULE Sequential -----------------------------
(***************************************************************************)
(* The parts that one goroutine at a time uses and that share no state:    *)
(* the lists of the pool, the execution of blocks under the simulated      *)
(* backend, the setup of a database, fork identifiers, the bitset codec    *)
(* and the arithmetic of the curves.                                       *)
(* focus names the one that moves; the others are at rest.                 *)
(***************************************************************************)
EXTENDS TxList, Simulated, GenesisSetup, ForkID, BitsetCodec, BitCurve

VARIABLE focus

vars == <<focus, listVars, backendVars, genesisVars, forkVars, data, probe>>

Init ==
    /\ ListInit /\ BackendInit /\ GenesisInit /\ ForkInit /\ CodecInit /\ PairingInit
    /\ focus \in {"list", "backend", "genesis", "forks", "codec", "curves"}
    /\ focus # "list" => strict
    /\ focus # "forks" => Forks(local) \cup Forks(remote) = {}
                          /\ \A f \in Rules : local.config[f] = NoBlock /\ remote.config[f] = NoBlock

AtRest(name, v) == IF focus = name THEN TRUE ELSE UNCHANGED v

Next ==
    /\ UNCHANGED focus
    /\ AtRest("list", listVars) /\ AtRest("backend", backendVars)
    /\ AtRest("genesis", genesisVars) /\ AtRest("forks", forkVars) /\ AtRest("codec", data)
    /\ AtRest("curves", probe)
    /\ \/ focus = "list" /\ ListNext
       \/ focus = "backend" /\ BackendNext
       \/ focus = "genesis" /\ GenesisNext
       \/ focus = "forks" /\ ForkNext
       \/ focus = "codec" /\ CodecNext
       \/ focus = "curves" /\ PairingNext

Spec == Init /\ [][Next]_vars
=============================================================================
