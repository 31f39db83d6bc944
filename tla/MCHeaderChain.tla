--------------------------- MODULE MCHeaderChain ---------------------------
(***************************************************************************)
(* A small header tree for HeaderChain: a header is the path of branch     *)
(* labels that leads to it from genesis, a "b" header is as heavy as three "a"s.   *)
(***************************************************************************)
EXTENDS HeaderChain, Sequences

MCHeader ==
    { <<>>,
      <<"a">>, <<"a","a">>, <<"a","a","a">>,
      <<"b">>, <<"b","a">>, <<"a","b">>, <<"a","b","a">> }

MCGenesis    == <<>>
MCMaxNumber  == 3
MCNumber     == [h \in MCHeader |-> Len(h)]
MCAncestor   == [h \in MCHeader |->
                    [n \in 0..MCMaxNumber |-> IF n <= Len(h) THEN SubSeq(h, 1, n) ELSE h]]
MCDifficulty == [h \in MCHeader |->
                    IF h # <<>> /\ h[Len(h)] = "b" THEN 3 ELSE 1]
=============================================================================
