---------------------------- MODULE GenesisSetup ----------------------------
(***************************************************************************)
(* Starting a node on a database (genesis.go): SetupGenesisBlock decides   *)
(* on what is stored and writes a genesis block or a configuration, record *)
(* by record, and the node may die between two of them.  A configuration   *)
(* is the number of the block from which its fork is in force, and the     *)
(* chain is the rules its blocks were imported under: TRUE with the fork.  *)
(*                                                                         *)
(* Two cases overwrite the configuration of a chain that was imported      *)
(* under other rules (unchecked): a fork that moves to or from block 0 or  *)
(* 1, for which RewindTo is 0, and a key-value store that was lost while   *)
(* the ancient blocks were kept.  A node that dies after it has written    *)
(* the configuration a first death left out, and before the chain has      *)
(* written its head header, cannot be started again (halfway).             *)
(***************************************************************************)
EXTENDS Integers, Sequences

CONSTANTS Specs,        \* genesis specifications: [block, config, ordered]
          NoSpec,       \* no specification is given
          MainSpec,     \* DefaultGenesisBlock()
          OtherConfig,  \* AllEthashProtocolChanges
          MaxHeight,    \* bound on the chain
          Nothing       \* a record that is not stored

\* A specification whose forks were found in order has a configuration.
ASSUME GenesisAssumption ==
    /\ MainSpec \in Specs /\ MainSpec.ordered
    /\ NoSpec \notin Specs /\ Nothing \notin Nat /\ OtherConfig \in Nat
    /\ \A g \in Specs :
          /\ g.block # Nothing /\ g.ordered \in BOOLEAN
          /\ g.config \in Nat \cup {Nothing} /\ (g.ordered => g.config \in Nat)

VARIABLES db,           \* [trie, blocks, canon, headBlock, headHeader, config]
          rules,        \* the chain: number -> whether the fork was in force
          stage,        \* "down", "setup", "load", "rewind" or "up"
          todo,         \* the records SetupGenesisBlock has still to write
          outcome,      \* what it returns: [err, config, rewindTo]
          frozen,       \* the blocks of the ancient store
          unchecked, halfway    \* see above

genesisVars == <<db, rules, stage, todo, outcome, frozen, unchecked, halfway>>

Empty == [trie |-> {}, blocks |-> {}, canon |-> Nothing, headBlock |-> Nothing,
          headHeader |-> Nothing, config |-> Nothing]

Returns(err, config, writes) == [err |-> err, config |-> config, rewindTo |-> 0, writes |-> writes]

\* Mutant: the block is found before it is stored.
CommitGenesisFirst(g) ==
    IF ~g.ordered THEN Returns("fork order", g.config, << <<"trie", g.block>> >>)
    ELSE Returns("", g.config,
                 << <<"trie", g.block>>, <<"canon", g.block>>, <<"blocks", g.block>>,
                    <<"headBlock", 0>>, <<"headHeader", 0>>, <<"config", g.config>> >>)

(* ToBlock commits the state; the records follow one by one. *)
CommitGenesis(g) ==
    IF ~g.ordered THEN Returns("fork order", g.config, << <<"trie", g.block>> >>)
    ELSE Returns("", g.config,
                 << <<"trie", g.block>>, <<"blocks", g.block>>, <<"canon", g.block>>,
                    <<"headBlock", 0>>, <<"headHeader", 0>>, <<"config", g.config>> >>)

configOrDefault(spec, stored) ==
    IF spec # NoSpec THEN spec.config
    ELSE IF stored = MainSpec.block THEN MainSpec.config ELSE OtherConfig

(* CheckCompatible: a fork differs that one of the configurations has      *)
(* passed; the chain is to go back to the block before it.                 *)
Lower(a, b) == IF a < b THEN a ELSE b
Incompatible(a, b, height) == a # b /\ Lower(a, b) <= height
RewindTo(a, b) == IF Lower(a, b) > 0 THEN Lower(a, b) - 1 ELSE 0

MustRewind(stored, new, height) ==
    Incompatible(stored, new, height) /\ height # 0 /\ RewindTo(stored, new) # 0

(* The block is there, perhaps in the ancient store, and its state is not. *)
Restored(g, stored) == IF g.block # stored THEN Returns("mismatch", g.config, <<>>) ELSE CommitGenesis(g)

(* What SetupGenesisBlock does; to read the header of a canonical genesis  *)
(* that is not stored ends in a nil pointer.                               *)
SetupGenesisBlock(spec) ==
    LET stored == db.canon
        g == IF spec = NoSpec THEN MainSpec ELSE spec
        new == configOrDefault(spec, stored)
    IN  IF spec # NoSpec /\ spec.config = Nothing THEN Returns("no config", OtherConfig, <<>>)
        ELSE IF stored = Nothing THEN CommitGenesis(g)
        ELSE IF stored \notin db.blocks THEN Returns("nil header", new, <<>>)
        ELSE IF stored \notin db.trie THEN Restored(g, stored)
        ELSE IF spec # NoSpec /\ spec.block # stored THEN Returns("mismatch", spec.config, <<>>)
        ELSE IF spec # NoSpec /\ ~spec.ordered THEN Returns("fork order", new, <<>>)
        ELSE IF db.config = Nothing THEN Returns("", new, << <<"config", new>> >>)
        ELSE IF spec = NoSpec /\ stored # MainSpec.block THEN Returns("", db.config, <<>>)
        ELSE IF db.headHeader = Nothing THEN Returns("missing number", new, <<>>)
        ELSE IF MustRewind(db.config, new, db.headHeader)
             THEN [Returns("incompatible", new, <<>>) EXCEPT !.rewindTo = RewindTo(db.config, new)]
        ELSE Returns("", new, << <<"config", new>> >>)

-----------------------------------------------------------------------------
GenesisInit ==
    /\ db = Empty /\ rules = <<>> /\ frozen = 0
    /\ stage = "down" /\ todo = <<>> /\ outcome = <<>>
    /\ unchecked = FALSE /\ halfway = FALSE

Start(spec) ==
    LET setup == SetupGenesisBlock(spec)
    IN  /\ stage = "down"
        /\ stage' = "setup"
        /\ todo' = setup.writes
        /\ outcome' = [err |-> setup.err, config |-> setup.config, rewindTo |-> setup.rewindTo]
        /\ unchecked' = (unchecked \/ /\ setup.writes # <<>> /\ setup.err = "" /\ rules # <<>>
                                      /\ \/ db.config = Nothing
                                         \/ /\ Incompatible(db.config, setup.config, db.headHeader)
                                            /\ RewindTo(db.config, setup.config) = 0)
        /\ UNCHANGED <<db, rules, frozen, halfway>>

(* Write* of the accessors: one record *)
Write ==
    /\ stage = "setup" /\ todo # <<>>
    /\ todo' = Tail(todo)
    /\ LET field == Head(todo)[1]
           value == Head(todo)[2]
       IN  db' = IF field \in {"trie", "blocks"} THEN [db EXCEPT ![field] = @ \cup {value}]
                 ELSE [db EXCEPT ![field] = value]
    /\ UNCHANGED <<rules, stage, outcome, frozen, unchecked, halfway>>

(* The caller goes on without an error, and with a ConfigCompatError *)
Return ==
    /\ stage = "setup" /\ todo = <<>>
    /\ stage' = IF outcome.err \in {"", "incompatible"} THEN "load" ELSE "down"
    /\ UNCHANGED <<db, rules, todo, outcome, frozen, unchecked, halfway>>

(* NewBlockChain: where all heads are the genesis block, the head header   *)
(* is read back from the ancient store; where one is missing, the chain    *)
(* starts over and its heads are written.                                  *)
Load ==
    /\ stage = "load"
    /\ stage' = IF outcome.err = "" THEN "up" ELSE "rewind"
    /\ \/ /\ db.headHeader = Nothing
          /\ db' = [db EXCEPT !.headBlock = 0, !.headHeader = 0]
          /\ rules' = <<>> /\ frozen' = 0
       \/ /\ db.headHeader # Nothing
          /\ db' = IF db.headBlock = 0 /\ db.headHeader = 0 THEN [db EXCEPT !.headHeader = frozen] ELSE db
          /\ UNCHANGED <<rules, frozen>>
    /\ UNCHANGED <<todo, outcome, unchecked, halfway>>

(* The caller's answer to a ConfigCompatError: SetHead, then the           *)
(* configuration is written; the node may die in between.                  *)
Rewind ==
    /\ stage = "rewind"
    /\ \/ /\ Len(rules) > outcome.rewindTo
          /\ rules' = SubSeq(rules, 1, outcome.rewindTo)
          /\ db' = [db EXCEPT !.headBlock = Lower(@, outcome.rewindTo), !.headHeader = outcome.rewindTo]
          /\ frozen' = Lower(frozen, outcome.rewindTo)
          /\ UNCHANGED stage
       \/ /\ Len(rules) <= outcome.rewindTo
          /\ db' = [db EXCEPT !.config = outcome.config]
          /\ stage' = "up"
          /\ UNCHANGED <<rules, frozen>>
    /\ UNCHANGED <<todo, outcome, unchecked, halfway>>

(* Blocks are imported under the configuration the node was started with.  *)
Import ==
    /\ stage = "up" /\ Len(rules) < MaxHeight
    /\ rules' = Append(rules, Len(rules) + 1 >= outcome.config)
    /\ db' = [db EXCEPT !.headBlock = Len(rules'), !.headHeader = Len(rules')]
    /\ UNCHANGED <<stage, todo, outcome, frozen, unchecked, halfway>>

Die ==
    /\ stage # "down"
    /\ stage' = "down" /\ todo' = <<>>
    /\ halfway' = (halfway \/ (stage \in {"setup", "load"} /\ db.config # Nothing /\ db.headHeader = Nothing))
    /\ UNCHANGED <<db, rules, outcome, frozen, unchecked>>

(* The key-value store is lost and the ancient store, with all blocks, is  *)
(* not.                                                                    *)
LoseStore ==
    /\ stage = "down" /\ rules # <<>>
    /\ db' = [Empty EXCEPT !.canon = db.canon, !.blocks = {db.canon}]
    /\ frozen' = Len(rules)
    /\ UNCHANGED <<rules, stage, todo, outcome, unchecked, halfway>>

GenesisNext ==
    \/ \E spec \in Specs \cup {NoSpec} : Start(spec)
    \/ Write \/ Return \/ Load \/ Rewind \/ Import \/ Die \/ LoseStore

GenesisSpec == GenesisInit /\ [][GenesisNext]_genesisVars

-----------------------------------------------------------------------------
(* Whenever a node died, it can be started again with the genesis block it *)
(* has: no order of the records leaves a database that is refused.         *)
StartsAgain ==
    stage = "down" /\ ~halfway =>
        \A spec \in Specs : spec.ordered /\ db.canon \in {Nothing, spec.block} =>
            SetupGenesisBlock(spec).err \in {"", "incompatible"}

(* The stored configuration is the one the blocks of the chain were        *)
(* imported under, over any changes of it, rewinds and deaths.             *)
RulesMatch ==
    stage = "up" /\ ~unchecked =>
        \A n \in DOMAIN rules : rules[n] = (n >= db.config)

(* After any deaths and reconfigurations the database can be used, under   *)
(* the rules it was made with.                                             *)
DatabaseUsable == StartsAgain /\ RulesMatch
=============================================================================
