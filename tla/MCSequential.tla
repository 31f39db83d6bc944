---------------------------- MODULE MCSequential ----------------------------
(***************************************************************************)
(* A pool list of three nonces, the middle one with a dear transaction, a  *)
(* replacement that pays the price bump and one that does not; a curve of  *)
(* order 97 over the field of 103 elements.                                *)
(***************************************************************************)
EXTENDS Sequential, MCSimulated

ListTx(nonce, price, cost, gas) == [nonce |-> nonce, price |-> price, cost |-> cost, gas |-> gas]
MCTx == {ListTx(0, 10, 1, 1), ListTx(1, 10, 2, 2), ListTx(1, 11, 1, 2), ListTx(1, 12, 1, 1),
         ListTx(2, 10, 2, 1)}

GenesisOf(block, config, ordered) == [block |-> block, config |-> config, ordered |-> ordered]
MCMain == GenesisOf("main", 2, TRUE)
MCSpecs == {MCMain} \cup {GenesisOf("test", c, TRUE) : c \in {0, 1, 2, 3, 9}}
                    \cup {GenesisOf("test", 2, FALSE), GenesisOf("test", Nothing, FALSE)}

MCtwistB == <<95, 64>>
MCtwistGen == << <<38, 87>>, <<75, 91>> >>
MCcurveGen == <<2, 42>>
MCNAFs == {<<0, 0, 0, 1>>, <<1, 0, 0, -1, -1, 0, 0, 1>>}
=============================================================================
