---------------------------- MODULE MCBackground ----------------------------
EXTENDS Background

MCSetups == {<< << {{1, 2}}, {}, {{1}} >>, << {"r1"}, {"r3"} >> >>,
             << << {{1}}, {{2}, {}}, {{1}, {1}} >>, << {"r1", "r2"}, {"r3"} >> >>}
MCBlooms == (0 :> {1}) @@ (1 :> {1, 2}) @@ (2 :> {1, 2}) @@ (3 :> {1})

(* A retriever of a closed session that meets the next distributor can     *)
(* take its work or its count away: the runs go no further.                *)
Unmixed == ~stray
=============================================================================
