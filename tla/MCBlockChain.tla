---------------------------- MODULE MCBlockChain ----------------------------
(***************************************************************************)
(* A small tree of blocks for BlockChain: a block is the path of branch    *)
(* labels that leads to it from genesis.  The "a" branch and the "b"       *)
(* branch outweigh each other in turn as they grow.                        *)
(***************************************************************************)
EXTENDS BlockChain, Sequences

Tree ==
    { <<>>,
      <<"a">>, <<"a","a">>, <<"a","a","a">>,
      <<"b">>, <<"b","i">> }

SmallTree == { <<>>, <<"a">>, <<"a","a">>, <<"a","a","a">>, <<"b">> }

MCGenesis    == <<>>
MCMaxNumber  == 3
MCNumber     == [h \in Header |-> Len(h)]
MCAncestor   == [h \in Header |->
                    [n \in 0..MCMaxNumber |-> IF n <= Len(h) THEN SubSeq(h, 1, n) ELSE h]]
MCDifficulty == [h \in Header |->
                    CASE h = <<"b","i">> -> 3
                      [] h \in {<<"b">>, <<"a","a">>} -> 2
                      [] OTHER -> 1]

\* <<"a","a","a">> leaves its parent's state as it is; the refused <<"b","i">>
\* claims that state too.
MCRoot       == [h \in Header |->
                    CASE h \in {<<"a","a","a">>, <<"b","i">>} -> <<"a","a">>
                      [] OTHER -> h]
MCTx         == {"x", "y"}
MCTxs        == [h \in Header |->
                    CASE h \in {<<"a">>, <<"b">>} -> {"x"}
                      [] h = <<"a","a">> -> {"y"}
                      [] OTHER -> {}]
MCInvalid    == Header \cap {<<"b","i">>}

\* Whole branches, and later parts of them, whose parent may have been pruned.
MCImports    == {<<<<"a","a","a">>, 1>>, <<<<"a","a","a">>, 2>>, <<<<"b","i">>, 2>>}
MCMined      == {<<"b">>}
SmallImports == {<<<<"a","a">>, 1>>, <<<<"a","a","a">>, 1>>, <<<<"a","a">>, 2>>, <<<<"b">>, 1>>}
=============================================================================
