--------------------------- MODULE SequentialProofs --------------------------
(***************************************************************************)
(* Proofs about the parts that one goroutine at a time uses.               *)
(* GenesisSetup: whichever specifications a node is started with and       *)
(* wherever it dies, its database stays usable.  ForkID: whatever forks    *)
(* two nodes have, the filter tells a peer that agrees on those passed     *)
(* from one that diverged.  TxList: the map, the heap and the cache of a   *)
(* list stay one ordered set of transactions, and every call returns and   *)
(* leaves what TxListSpec says of that set.                                *)
(***************************************************************************)
EXTENDS GenesisSetup, ForkID, TxList, FiniteSetTheorems, SequenceTheorems,
        WellFoundedInduction, TLAPS

\* The records of a genesis block in the order Commit writes them.
Records(g) ==
    << <<"trie", g.block>>, <<"blocks", g.block>>, <<"canon", g.block>>,
       <<"headBlock", 0>>, <<"headHeader", 0>>, <<"config", g.config>> >>

Rest(g, k) == SubSeq(Records(g), k, 6)

ConfigRecord(c) == << <<"config", c>> >>
TrieRecord(g) == << <<"trie", g.block>> >>

Block == {g.block : g \in Specs}
OrNothing(S) == S \cup {Nothing}

\* The chain was imported under configuration c.
Under(c) == \A n \in 1..Len(rules) : rules[n] = (n >= c)

Database ==
    [trie : SUBSET Block, blocks : SUBSET OrNothing(Block), canon : OrNothing(Block),
     headBlock : OrNothing(Nat), headHeader : OrNothing(Nat), config : OrNothing(Nat)]

GenesisType ==
    /\ db \in Database
    /\ rules \in Seq(BOOLEAN) /\ frozen \in 0..Len(rules)
    /\ stage \in {"down", "setup", "load", "rewind", "up"}
    /\ unchecked \in BOOLEAN /\ halfway \in BOOLEAN

\* What the order of the records secures: a canonical block is stored, a
\* configuration is preceded by the state of that block; a chain needs a
\* genesis block; and the head header is missing beside a configuration only
\* while a node starts.
StoreInv ==
    /\ db.canon # Nothing => db.canon \in db.blocks
    /\ db.config # Nothing => db.canon # Nothing /\ db.canon \in db.trie
    /\ db.canon = Nothing => rules = <<>>
    /\ db.config = Nothing => db.headHeader \in {Nothing, 0}
    /\ db.config # Nothing /\ db.headHeader = Nothing /\ ~halfway =>
          stage \in {"setup", "load"} /\ outcome.err = ""

\* The stored configuration is the chain's, and the head header its length.
ChainInv ==
    ~unchecked /\ db.config # Nothing =>
        /\ Under(db.config)
        /\ db.headHeader # Nothing => Len(rules) = db.headHeader

\* How far the records of g are written when the k-th comes next.
Written(g, k) ==
    /\ db.config = Nothing
    /\ db.canon \in {Nothing, g.block}
    /\ k > 1 => g.block \in db.trie
    /\ k > 2 => g.block \in db.blocks
    /\ k > 3 => db.canon = g.block

\* The last records are still to be written, or all are.
Proceeds ==
    \/ todo = <<>> /\ db.config = outcome.config
    \/ /\ todo = ConfigRecord(outcome.config)
       /\ db.canon # Nothing /\ db.canon \in db.trie
    \/ \E g \in Specs, k \in 1..6 :
          /\ g.ordered /\ outcome.config = g.config
          /\ todo = Rest(g, k)
          /\ Written(g, k)

\* A rewind goes below the fork of both configurations.
GoesBack ==
    /\ outcome.config \in Nat /\ outcome.rewindTo \in Nat
    /\ db.config \in Nat /\ db.headHeader # Nothing
    /\ outcome.rewindTo < db.config /\ outcome.rewindTo < outcome.config

\* What SetupGenesisBlock returned, and what it has yet to write.
SetupInv ==
    stage = "setup" =>
        /\ outcome.err = "" =>
              /\ outcome.config \in Nat /\ Proceeds
              /\ ~unchecked => Under(outcome.config)
              /\ ~unchecked /\ db.config = Nothing => rules = <<>>
        /\ outcome.err = "incompatible" => todo = <<>> /\ GoesBack
        /\ outcome.err \notin {"", "incompatible"} =>
              todo = <<>> \/ \E g \in Specs : todo = TrieRecord(g)

\* The node runs under the stored configuration once it has written it.
StartInv ==
    /\ stage \in {"load", "rewind"} => outcome.err \in {"", "incompatible"}
    /\ stage = "rewind" => outcome.err = "incompatible"
    /\ stage = "up" \/ (stage = "load" /\ outcome.err = "") =>
          outcome.config \in Nat /\ db.config = outcome.config
    /\ stage \in {"load", "rewind"} /\ outcome.err = "incompatible" => GoesBack
    /\ stage = "up" => db.headHeader # Nothing

GenesisInv == GenesisType /\ StoreInv /\ ChainInv /\ SetupInv /\ StartInv

-----------------------------------------------------------------------------

\* A sequence with a first record, and what is left without it.
LEMMA NextRecord ==
    ASSUME NEW g, NEW k \in 1..6
    PROVE  /\ Rest(g, k) # <<>> /\ Head(Rest(g, k)) = Records(g)[k]
           /\ Tail(Rest(g, k)) = Rest(g, k + 1)
  <1>1. Records(g) \in Seq({Records(g)[i] : i \in 1..6}) /\ Len(Records(g)) = 6
    BY DEF Records
  <1> DEFINE R == Records(g)
             S == {R[i] : i \in 1..6}
  <1>2. R \in Seq(S) /\ Len(R) = 6
    BY <1>1
  <1> HIDE DEF R, S
  <1>3. k \in 1..Len(R) /\ k \in 1..6 /\ 6 \in k..Len(R)
    BY <1>2
  <1>4. Head(SubSeq(R, k, 6)) = R[k] /\ Tail(SubSeq(R, k, 6)) = SubSeq(R, k + 1, 6)
    BY <1>2, <1>3, HeadTailOfSubSeq
  <1>5. SubSeq(R, k, 6) # <<>>
    <2>1. Len(SubSeq(R, k, 6)) = 7 - k
      BY <1>2, <1>3
    <2>2. 7 - k # 0 /\ Len(<<>>) = 0
      OBVIOUS
    <2> QED BY <2>1, <2>2
  <1> QED BY <1>4, <1>5 DEF R, Rest

\* Which records come before the k-th, and before the one after it.
LEMMA Before ==
    ASSUME NEW k \in 1..6
    PROVE  /\ k # 6 => k + 1 \in 1..6
           /\ k + 1 > 2 => k = 2 \/ k > 2
           /\ (k + 1 > 1 => k = 1 \/ k > 1) /\ (k + 1 > 3 => k = 3 \/ k > 3)
           /\ (k = 3 => k > 2) /\ (k = 6 => k > 1 /\ k > 2 /\ k > 3)
           /\ (k = 2 => k > 1) /\ (k = 4 => k > 3) /\ (k = 5 => k > 3) /\ (k > 3 => k # 3)
           /\ (k = 6 => k + 1 = 7 /\ k # 1 /\ k # 3)
  OBVIOUS

\* The records, one by one.
LEMMA RecordsAre ==
    ASSUME NEW g
    PROVE  /\ Records(g)[1] = <<"trie", g.block>> /\ Records(g)[2] = <<"blocks", g.block>>
           /\ Records(g)[3] = <<"canon", g.block>> /\ Records(g)[4] = <<"headBlock", 0>>
           /\ Records(g)[5] = <<"headHeader", 0>> /\ Records(g)[6] = <<"config", g.config>>
           /\ Rest(g, 7) = <<>> /\ Rest(g, 1) = Records(g)
  <1>1. /\ Records(g)[1] = <<"trie", g.block>> /\ Records(g)[2] = <<"blocks", g.block>>
        /\ Records(g)[3] = <<"canon", g.block>> /\ Records(g)[4] = <<"headBlock", 0>>
        /\ Records(g)[5] = <<"headHeader", 0>> /\ Records(g)[6] = <<"config", g.config>>
    BY DEF Records
  <1>2. Records(g) \in Seq({Records(g)[i] : i \in 1..6}) /\ Len(Records(g)) = 6
    BY DEF Records
  <1>3. ASSUME NEW S, NEW r \in Seq(S), Len(r) = 6
        PROVE  SubSeq(r, 7, 6) = <<>> /\ SubSeq(r, 1, 6) = r
    BY <1>3
  <1> QED BY <1>1, <1>2, <1>3 DEF Rest

\* What SetupGenesisBlock may find: an error; a genesis block to write, in
\* order or not; a configuration to write; nothing to do; a chain to rewind.
LEMMA SetupCases ==
    ASSUME GenesisType, StoreInv, NEW spec \in Specs \cup {NoSpec}
    PROVE  LET setup == SetupGenesisBlock(spec)
           IN  \/ setup.err \notin {"", "incompatible"} /\ setup.writes = <<>>
               \/ \E g \in Specs : setup = Returns("fork order", g.config, TrieRecord(g))
               \/ \E g \in Specs :
                     /\ g.ordered /\ setup = Returns("", g.config, Records(g))
                     /\ Written(g, 1)
               \/ \E new \in Nat :
                     /\ setup = Returns("", new, ConfigRecord(new))
                     /\ db.canon # Nothing /\ db.canon \in db.trie
                     /\ db.config # Nothing =>
                           db.headHeader # Nothing /\ ~MustRewind(db.config, new, db.headHeader)
               \/ setup = Returns("", db.config, <<>>) /\ db.config # Nothing
               \/ \E new \in Nat :
                     /\ setup = [Returns("incompatible", new, <<>>)
                                   EXCEPT !.rewindTo = RewindTo(db.config, new)]
                     /\ db.config # Nothing /\ db.headHeader # Nothing
                     /\ MustRewind(db.config, new, db.headHeader)
  <1> DEFINE stored == db.canon
             g      == IF spec = NoSpec THEN MainSpec ELSE spec
             new    == configOrDefault(spec, stored)
             setup  == SetupGenesisBlock(spec)
  <1>1. g \in Specs /\ (g.ordered => g.config \in Nat) /\ (spec # NoSpec => spec = g)
    BY GenesisAssumption
  <1>0. ASSUME NEW e, NEW c, e \notin {"", "incompatible"}, NEW s, s = Returns(e, c, <<>>)
        PROVE  s.err \notin {"", "incompatible"} /\ s.writes = <<>>
    BY <1>0 DEF Returns
  <1>2. CASE spec # NoSpec /\ spec.config = Nothing
    <2>1. setup = Returns("no config", OtherConfig, <<>>)
      BY <1>2 DEF SetupGenesisBlock
    <2>2. setup.err \notin {"", "incompatible"} /\ setup.writes = <<>>
      BY <1>0, <2>1
    <2> QED BY <2>2
  <1>3. ASSUME ~(spec # NoSpec /\ spec.config = Nothing),
               setup = CommitGenesis(g), db.config = Nothing, stored \in {Nothing, g.block}
        PROVE  \/ \E h \in Specs : setup = Returns("fork order", h.config, TrieRecord(h))
               \/ \E h \in Specs :
                     h.ordered /\ setup = Returns("", h.config, Records(h)) /\ Written(h, 1)
    <2>1. CASE ~g.ordered
      BY <1>1, <1>3, <2>1 DEF CommitGenesis, TrieRecord
    <2>2. CASE g.ordered
      <3>1. CommitGenesis(g) = Returns("", g.config, Records(g))
        BY <2>2 DEF CommitGenesis, Records
      <3>2. Written(g, 1)
        BY <1>3 DEF Written
      <3> QED BY <1>1, <1>3, <2>2, <3>1, <3>2
    <2> QED BY <2>1, <2>2
  <1>4. CASE ~(spec # NoSpec /\ spec.config = Nothing) /\ stored = Nothing
    <2>1. setup = CommitGenesis(g)
      BY <1>4 DEF SetupGenesisBlock
    <2>2. db.config = Nothing
      BY <1>4 DEF StoreInv
    <2> QED BY <1>3, <1>4, <2>1, <2>2
  <1>5. CASE ~(spec # NoSpec /\ spec.config = Nothing) /\ stored # Nothing /\ stored \notin db.trie
    <2>1. setup = Restored(g, stored) /\ db.config = Nothing
      BY <1>5 DEF SetupGenesisBlock, StoreInv
    <2>2. CASE g.block # stored
      <3>1. setup = Returns("mismatch", g.config, <<>>)
        BY <2>1, <2>2 DEF Restored
      <3>2. setup.err \notin {"", "incompatible"} /\ setup.writes = <<>>
        BY <1>0, <3>1
      <3> QED BY <3>2
    <2>3. CASE g.block = stored
      <3>1. setup = CommitGenesis(g)
        BY <2>1, <2>3 DEF Restored
      <3> QED BY <1>3, <1>5, <2>1, <2>3, <3>1
    <2> QED BY <2>2, <2>3
  <1>6. CASE ~(spec # NoSpec /\ spec.config = Nothing) /\ stored # Nothing /\ stored \in db.trie
    <2>1. stored \in db.blocks
      BY <1>6 DEF StoreInv
    <2>2. CASE spec # NoSpec /\ (spec.block # stored \/ ~spec.ordered)
      <3>1. \/ setup = Returns("mismatch", spec.config, <<>>)
            \/ setup = Returns("fork order", new, <<>>)
        BY <1>6, <2>1, <2>2 DEF SetupGenesisBlock
      <3>2. setup.err \notin {"", "incompatible"} /\ setup.writes = <<>>
        BY <1>0, <3>1
      <3> QED BY <3>2
    <2>3. CASE ~(spec # NoSpec /\ (spec.block # stored \/ ~spec.ordered))
      <3>1. new \in Nat
        BY <1>1, <2>3, GenesisAssumption DEF configOrDefault
      <3>2. CASE db.config = Nothing
        <4>1. setup = Returns("", new, ConfigRecord(new))
          BY <1>6, <2>1, <2>3, <3>2 DEF SetupGenesisBlock, ConfigRecord
        <4> QED BY <1>6, <3>1, <3>2, <4>1
      <3>3. CASE db.config # Nothing /\ spec = NoSpec /\ stored # MainSpec.block
        <4>1. setup = Returns("", db.config, <<>>)
          BY <1>6, <2>1, <2>3, <3>3 DEF SetupGenesisBlock
        <4> QED BY <3>3, <4>1
      <3>4. CASE db.config # Nothing /\ ~(spec = NoSpec /\ stored # MainSpec.block)
        <4>1. CASE db.headHeader = Nothing
          <5>1. setup = Returns("missing number", new, <<>>)
            BY <1>6, <2>1, <2>3, <3>4, <4>1 DEF SetupGenesisBlock
          <5>2. setup.err \notin {"", "incompatible"} /\ setup.writes = <<>>
            BY <1>0, <5>1
          <5> QED BY <5>2
        <4>2. CASE db.headHeader # Nothing /\ MustRewind(db.config, new, db.headHeader)
          <5>1. setup = [Returns("incompatible", new, <<>>)
                           EXCEPT !.rewindTo = RewindTo(db.config, new)]
            BY <1>6, <2>1, <2>3, <3>4, <4>2 DEF SetupGenesisBlock
          <5> QED BY <3>1, <3>4, <4>2, <5>1
        <4>3. CASE db.headHeader # Nothing /\ ~MustRewind(db.config, new, db.headHeader)
          <5>1. setup = Returns("", new, ConfigRecord(new))
            BY <1>6, <2>1, <2>3, <3>4, <4>3 DEF SetupGenesisBlock, ConfigRecord
          <5> QED BY <1>6, <3>1, <3>4, <4>3, <5>1
        <4> QED BY <4>1, <4>2, <4>3
      <3> QED BY <3>2, <3>3, <3>4
    <2> QED BY <2>2, <2>3
  <1> QED BY <1>2, <1>4, <1>5, <1>6

\* An empty chain was imported under any configuration.
LEMMA UnderNone ==
    ASSUME rules = <<>>, NEW c
    PROVE  Under(c)
  <1>1. \A n \in 1..0 : FALSE
    OBVIOUS
  <1>2. Len(rules) = 0
    OBVIOUS
  <1> QED BY <1>1, <1>2 DEF Under

\* A configuration that is not incompatible, or that is written over the
\* configuration of a chain of height 0, is one the chain was imported under.
LEMMA CompatibleUnder ==
    ASSUME GenesisType, NEW new \in Nat, db.config \in Nat, db.headHeader \in Nat,
           Under(db.config), Len(rules) = db.headHeader,
           ~Incompatible(db.config, new, db.headHeader)
    PROVE  Under(new)
  <1>1. db.config = new \/ (db.config > Len(rules) /\ new > Len(rules))
    BY DEF Incompatible, Lower
  <1>2. ASSUME db.config > Len(rules), new > Len(rules)
        PROVE  Under(new)
    <2> SUFFICES ASSUME NEW n \in 1..Len(rules)
                 PROVE  rules[n] = (n >= new)
      BY DEF Under
    <2>1. Len(rules) \in Nat
      BY LenProperties DEF GenesisType
    <2>2. ~(n >= new) /\ ~(n >= db.config)
      BY <1>2, <2>1
    <2>3. rules[n] = (n >= db.config)
      BY DEF Under
    <2> QED BY <2>2, <2>3
  <1> QED BY <1>1, <1>2

-----------------------------------------------------------------------------
LEMMA InitKeepsInv == GenesisInit => GenesisInv
  <1> SUFFICES ASSUME GenesisInit PROVE GenesisInv
    OBVIOUS
  <1>1. GenesisType
    <2>1. db \in Database
      BY DEF GenesisInit, Empty, Database, OrNothing
    <2>2. rules \in Seq(BOOLEAN) /\ Len(rules) = 0 /\ 0 \in 0..0 /\ frozen = 0
      BY DEF GenesisInit
    <2> QED BY <2>1, <2>2 DEF GenesisInit, GenesisType
  <1>2. StoreInv /\ ChainInv /\ SetupInv /\ StartInv
    BY DEF GenesisInit, StoreInv, ChainInv, SetupInv, StartInv, Empty
  <1> QED BY <1>1, <1>2 DEF GenesisInv

\* What is left of a start: SetupGenesisBlock writes nothing itself.
LEMMA StartKeepsInv ==
    ASSUME GenesisInv, NEW spec \in Specs \cup {NoSpec}, Start(spec)
    PROVE  GenesisInv'
  <1> DEFINE setup == SetupGenesisBlock(spec)
  <1>1. /\ stage = "down" /\ stage' = "setup" /\ todo' = setup.writes
        /\ outcome' = [err |-> setup.err, config |-> setup.config, rewindTo |-> setup.rewindTo]
        /\ db' = db /\ rules' = rules /\ frozen' = frozen /\ halfway' = halfway
    BY DEF Start
  <1>2. unchecked' = (unchecked \/ /\ setup.writes # <<>> /\ setup.err = "" /\ rules # <<>>
                                   /\ \/ db.config = Nothing
                                      \/ /\ Incompatible(db.config, setup.config, db.headHeader)
                                         /\ RewindTo(db.config, setup.config) = 0)
    BY DEF Start
  <1>3. GenesisType /\ StoreInv /\ ChainInv
    BY DEF GenesisInv
  <1>4. \/ setup.err \notin {"", "incompatible"} /\ setup.writes = <<>>
        \/ \E g \in Specs : setup = Returns("fork order", g.config, TrieRecord(g))
        \/ \E g \in Specs :
              /\ g.ordered /\ setup = Returns("", g.config, Records(g))
              /\ Written(g, 1)
        \/ \E new \in Nat :
              /\ setup = Returns("", new, ConfigRecord(new))
              /\ db.canon # Nothing /\ db.canon \in db.trie
              /\ db.config # Nothing =>
                    db.headHeader # Nothing /\ ~MustRewind(db.config, new, db.headHeader)
        \/ setup = Returns("", db.config, <<>>) /\ db.config # Nothing
        \/ \E new \in Nat :
              /\ setup = [Returns("incompatible", new, <<>>)
                            EXCEPT !.rewindTo = RewindTo(db.config, new)]
              /\ db.config # Nothing /\ db.headHeader # Nothing
              /\ MustRewind(db.config, new, db.headHeader)
    BY <1>3, SetupCases
  <1> HIDE DEF setup
  <1>5. unchecked' \in BOOLEAN /\ (~unchecked' => ~unchecked)
    BY <1>2, <1>3, Zenon DEF GenesisType
  <1>6. GenesisType'
    BY <1>1, <1>3, <1>5 DEF GenesisType
  <1>7. StoreInv'
    BY <1>1, <1>3 DEF StoreInv
  <1>8. ChainInv'
    BY <1>1, <1>3, <1>5 DEF ChainInv, Under
  <1>9. StartInv'
    BY <1>1 DEF StartInv
  <1>10. SetupInv'
    <2>1. CASE setup.err \notin {"", "incompatible"} /\ setup.writes = <<>>
      BY <1>1, <2>1 DEF SetupInv
    <2>2. ASSUME NEW g \in Specs, setup = Returns("fork order", g.config, TrieRecord(g))
          PROVE  SetupInv'
      <3>1. outcome'.err = "fork order" /\ todo' = TrieRecord(g)
        BY <1>1, <2>2 DEF Returns
      <3> QED BY <3>1 DEF SetupInv, TrieRecord
    <2>3. ASSUME NEW g \in Specs, g.ordered, setup = Returns("", g.config, Records(g)), Written(g, 1)
          PROVE  SetupInv'
      <3>1. /\ outcome'.err = "" /\ outcome'.config = g.config /\ todo' = Records(g)
            /\ setup.err = "" /\ setup.writes = Records(g)
        BY <1>1, <2>3 DEF Returns
      <3>2. Records(g) # <<>> /\ Rest(g, 1) = Records(g)
        BY NextRecord, RecordsAre
      <3>3. ~unchecked' => rules' = <<>>
        BY <1>1, <1>2, <2>3, <3>1, <3>2 DEF Written
      <3>4. ~unchecked' => Under(outcome.config)'
        BY <3>3 DEF Under
      <3>5. Proceeds'
        <4>1. Written(g, 1)'
          BY <1>1, <2>3 DEF Written
        <4>2. 1 \in 1..6
          OBVIOUS
        <4>3. g.ordered /\ outcome'.config = g.config /\ todo' = Rest(g, 1)
          BY <2>3, <3>1, <3>2
        <4> QED BY <4>1, <4>2, <4>3 DEF Proceeds
      <3>6. outcome'.config \in Nat
        BY <2>3, <3>1, GenesisAssumption
      <3> QED BY <3>1, <3>3, <3>4, <3>5, <3>6 DEF SetupInv
    <2>4. ASSUME NEW new \in Nat, setup = Returns("", new, ConfigRecord(new)),
                 db.canon # Nothing, db.canon \in db.trie,
                 db.config # Nothing =>
                    db.headHeader # Nothing /\ ~MustRewind(db.config, new, db.headHeader)
          PROVE  SetupInv'
      <3>1. /\ outcome'.err = "" /\ outcome'.config = new /\ todo' = ConfigRecord(new)
            /\ setup.err = "" /\ setup.writes # <<>> /\ setup.config = new
        BY <1>1, <2>4 DEF Returns, ConfigRecord
      <3>2. ~unchecked' /\ db'.config = Nothing => rules' = <<>>
        BY <1>1, <1>2, <3>1
      <3>3. ASSUME ~unchecked' PROVE Under(new)
        <4>1. CASE rules = <<>>
          BY <4>1, UnderNone
        <4>2. CASE rules # <<>>
          <5>1. /\ db.config # Nothing
                /\ ~(/\ Incompatible(db.config, new, db.headHeader)
                     /\ RewindTo(db.config, new) = 0)
            BY <1>2, <3>1, <3>3, <4>2
          <5>2. db.config \in Nat /\ db.headHeader \in Nat
            BY <1>3, <2>4, <5>1 DEF GenesisType, Database, OrNothing
          <5>3. Under(db.config) /\ Len(rules) = db.headHeader
            BY <1>3, <1>5, <2>4, <3>3, <5>1 DEF ChainInv
          <5>4. db.headHeader # 0
            BY <1>3, <4>2, <5>3, EmptySeq DEF GenesisType
          <5>5. ~Incompatible(db.config, new, db.headHeader)
            BY <2>4, <5>1, <5>4 DEF MustRewind
          <5> QED BY <1>3, <5>2, <5>3, <5>5, CompatibleUnder
        <4> QED BY <4>1, <4>2
      <3>4. Proceeds'
        BY <1>1, <2>4, <3>1 DEF Proceeds, ConfigRecord
      <3>5. ~unchecked' => Under(outcome.config)'
        BY <1>1, <3>1, <3>3 DEF Under
      <3> QED BY <3>1, <3>2, <3>4, <3>5 DEF SetupInv
    <2>5. CASE setup = Returns("", db.config, <<>>) /\ db.config # Nothing
      <3>1. outcome'.err = "" /\ outcome'.config = db.config /\ todo' = <<>>
        BY <1>1, <2>5 DEF Returns
      <3>2. Proceeds' /\ db.config \in Nat
        BY <1>1, <1>3, <2>5, <3>1 DEF Proceeds, GenesisType, Database, OrNothing
      <3>3. ~unchecked' => Under(outcome.config)'
        BY <1>1, <1>3, <1>5, <2>5, <3>1 DEF ChainInv, Under
      <3> QED BY <1>1, <2>5, <3>1, <3>2, <3>3 DEF SetupInv
    <2>6. ASSUME NEW new \in Nat,
                 setup = [Returns("incompatible", new, <<>>)
                            EXCEPT !.rewindTo = RewindTo(db.config, new)],
                 db.config # Nothing, db.headHeader # Nothing,
                 MustRewind(db.config, new, db.headHeader)
          PROVE  SetupInv'
      <3>1. /\ outcome'.err = "incompatible" /\ outcome'.config = new /\ todo' = <<>>
            /\ outcome'.rewindTo = RewindTo(db.config, new)
        BY <1>1, <2>6 DEF Returns
      <3>2. db.config \in Nat
        BY <1>3, <2>6 DEF GenesisType, Database, OrNothing
      <3>3. /\ RewindTo(db.config, new) \in Nat
            /\ RewindTo(db.config, new) < db.config /\ RewindTo(db.config, new) < new
        BY <2>6, <3>2 DEF MustRewind, RewindTo, Lower
      <3>4. GoesBack'
        BY <1>1, <2>6, <3>1, <3>2, <3>3 DEF GoesBack
      <3> QED BY <3>1, <3>4 DEF SetupInv
    <2> QED BY <1>4, <2>1, <2>2, <2>3, <2>4, <2>5, <2>6
  <1> QED BY <1>6, <1>7, <1>8, <1>9, <1>10 DEF GenesisInv

\* A single record, and what is left without it.
LEMMA OneRecord ==
    ASSUME NEW x
    PROVE  Head(<<x>>) = x /\ Tail(<<x>>) = <<>>
  <1>1. <<x>> \in Seq({x}) /\ Len(<<x>>) = 1 /\ <<x>> # <<>> /\ Head(<<x>>) = x
    OBVIOUS
  <1>2. Tail(<<x>>) \in Seq({x}) /\ Len(Tail(<<x>>)) = 0
    BY <1>1, HeadTailProperties
  <1> QED BY <1>1, <1>2, EmptySeq

\* A record of a block, or of a number, leaves the other records alone.
LEMMA UpdateBlock ==
    ASSUME NEW d \in Database, NEW b \in Block
    PROVE  /\ LET e == [d EXCEPT !.trie = @ \cup {b}]
              IN  /\ e \in Database /\ e.trie = d.trie \cup {b} /\ e.blocks = d.blocks
                  /\ e.canon = d.canon /\ e.headBlock = d.headBlock
                  /\ e.headHeader = d.headHeader /\ e.config = d.config
           /\ LET e == [d EXCEPT !.blocks = @ \cup {b}]
              IN  /\ e \in Database /\ e.trie = d.trie /\ e.blocks = d.blocks \cup {b}
                  /\ e.canon = d.canon /\ e.headBlock = d.headBlock
                  /\ e.headHeader = d.headHeader /\ e.config = d.config
           /\ LET e == [d EXCEPT !.canon = b]
              IN  /\ e \in Database /\ e.trie = d.trie /\ e.blocks = d.blocks
                  /\ e.canon = b /\ e.headBlock = d.headBlock
                  /\ e.headHeader = d.headHeader /\ e.config = d.config
  BY DEF Database, OrNothing

LEMMA UpdateNumber ==
    ASSUME NEW d \in Database, NEW n \in Nat
    PROVE  /\ LET e == [d EXCEPT !.headBlock = n]
              IN  /\ e \in Database /\ e.trie = d.trie /\ e.blocks = d.blocks
                  /\ e.canon = d.canon /\ e.headBlock = n
                  /\ e.headHeader = d.headHeader /\ e.config = d.config
           /\ LET e == [d EXCEPT !.headHeader = n]
              IN  /\ e \in Database /\ e.trie = d.trie /\ e.blocks = d.blocks
                  /\ e.canon = d.canon /\ e.headBlock = d.headBlock
                  /\ e.headHeader = n /\ e.config = d.config
           /\ LET e == [d EXCEPT !.config = n]
              IN  /\ e \in Database /\ e.trie = d.trie /\ e.blocks = d.blocks
                  /\ e.canon = d.canon /\ e.headBlock = d.headBlock
                  /\ e.headHeader = d.headHeader /\ e.config = n
  BY DEF Database, OrNothing

\* One record is written.
LEMMA WriteRecord ==
    ASSUME Write, NEW f, NEW v, Head(todo) = <<f, v>>
    PROVE  /\ stage = "setup" /\ todo # <<>> /\ todo' = Tail(todo)
           /\ f \in {"trie", "blocks"} => db' = [db EXCEPT ![f] = @ \cup {v}]
           /\ f \notin {"trie", "blocks"} => db' = [db EXCEPT ![f] = v]
           /\ rules' = rules /\ stage' = stage /\ outcome' = outcome
           /\ frozen' = frozen /\ unchecked' = unchecked /\ halfway' = halfway
  <1>1. Head(todo)[1] = f /\ Head(todo)[2] = v
    OBVIOUS
  <1> QED BY <1>1 DEF Write

\* The configuration is written over the last one, or is the first.
LEMMA WriteConfigKeepsInv ==
    ASSUME GenesisInv, Write, outcome.err = "", todo = ConfigRecord(outcome.config),
           db.canon # Nothing, db.canon \in db.trie
    PROVE  GenesisInv'
  <1>1. Head(todo) = <<"config", outcome.config>> /\ Tail(todo) = <<>>
    BY OneRecord DEF ConfigRecord
  <1>2. /\ stage = "setup" /\ todo' = <<>>
        /\ db' = [db EXCEPT !.config = outcome.config]
        /\ rules' = rules /\ stage' = stage /\ outcome' = outcome
        /\ frozen' = frozen /\ unchecked' = unchecked /\ halfway' = halfway
    BY <1>1, WriteRecord
  <1>3. GenesisType /\ StoreInv /\ ChainInv /\ SetupInv
    BY DEF GenesisInv
  <1>4. /\ outcome.config \in Nat
        /\ ~unchecked => Under(outcome.config)
        /\ ~unchecked /\ db.config = Nothing => rules = <<>>
    BY <1>2, <1>3 DEF SetupInv
  <1>5. db \in Database
    BY <1>3 DEF GenesisType
  <1>6. /\ db' \in Database
        /\ db'.config = outcome.config /\ db'.canon = db.canon /\ db'.trie = db.trie
        /\ db'.blocks = db.blocks /\ db'.headHeader = db.headHeader
    BY <1>2, <1>4, <1>5, UpdateNumber
  <1>7. GenesisType'
    BY <1>2, <1>3, <1>6 DEF GenesisType
  <1>8. StoreInv'
    BY <1>2, <1>3, <1>4, <1>6, GenesisAssumption DEF StoreInv
  <1>9. ChainInv'
    <2> SUFFICES ASSUME ~unchecked' PROVE (ChainInv)'
      BY DEF ChainInv
    <2>1. Under(db.config)'
      BY <1>2, <1>4, <1>6 DEF Under
    <2>2. db.headHeader # Nothing => Len(rules) = db.headHeader
      <3>1. CASE db.config = Nothing
        <4>1. rules = <<>> /\ db.headHeader \in {Nothing, 0}
          BY <1>2, <1>3, <1>4, <3>1 DEF StoreInv
        <4> QED BY <4>1
      <3>2. CASE db.config # Nothing
        BY <1>2, <1>3, <3>2 DEF ChainInv
      <3> QED BY <3>1, <3>2
    <2> QED BY <1>2, <1>6, <2>1, <2>2 DEF ChainInv
  <1>10. SetupInv'
    <2>1. Proceeds'
      BY <1>2, <1>6 DEF Proceeds
    <2>2. ~unchecked' => Under(outcome.config)'
      BY <1>2, <1>4 DEF Under
    <2>3. outcome'.err = "" /\ outcome'.config \in Nat /\ db'.config # Nothing
      BY <1>2, <1>4, <1>6, GenesisAssumption
    <2> QED BY <2>1, <2>2, <2>3 DEF SetupInv
  <1>11. StartInv'
    BY <1>2 DEF StartInv
  <1> QED BY <1>7, <1>8, <1>9, <1>10, <1>11 DEF GenesisInv

\* What the k-th record of a genesis block changes.
LEMMA WriteOfGenesis ==
    ASSUME db \in Database, Write, NEW g \in Specs, g.config \in Nat,
           NEW k \in 1..6, Head(todo) = Records(g)[k]
    PROVE  /\ db' \in Database
           /\ db'.trie = IF k = 1 THEN db.trie \cup {g.block} ELSE db.trie
           /\ db'.blocks = IF k = 2 THEN db.blocks \cup {g.block} ELSE db.blocks
           /\ db'.canon = IF k = 3 THEN g.block ELSE db.canon
           /\ db'.headHeader = IF k = 5 THEN 0 ELSE db.headHeader
           /\ db'.config = IF k = 6 THEN g.config ELSE db.config
  <1>1. g.block \in Block /\ 0 \in Nat
    BY DEF Block
  <1>2. /\ Records(g)[1] = <<"trie", g.block>> /\ Records(g)[2] = <<"blocks", g.block>>
        /\ Records(g)[3] = <<"canon", g.block>> /\ Records(g)[4] = <<"headBlock", 0>>
        /\ Records(g)[5] = <<"headHeader", 0>> /\ Records(g)[6] = <<"config", g.config>>
    BY RecordsAre
  <1>3. CASE k = 1
    <2>1. Head(todo) = <<"trie", g.block>>
      BY <1>2, <1>3
    <2>2. db' = [db EXCEPT !.trie = @ \cup {g.block}]
      BY <2>1, WriteRecord
    <2>3. /\ db' \in Database
          /\ db'.trie = db.trie \cup {g.block}
          /\ db'.blocks = db.blocks
          /\ db'.canon = db.canon
          /\ db'.headHeader = db.headHeader
          /\ db'.config = db.config
      BY <1>1, <2>2, UpdateBlock
    <2> QED BY <1>3, <2>3
  <1>4. CASE k = 2
    <2>1. Head(todo) = <<"blocks", g.block>>
      BY <1>2, <1>4
    <2>2. db' = [db EXCEPT !.blocks = @ \cup {g.block}]
      BY <2>1, WriteRecord
    <2>3. /\ db' \in Database
          /\ db'.trie = db.trie
          /\ db'.blocks = db.blocks \cup {g.block}
          /\ db'.canon = db.canon
          /\ db'.headHeader = db.headHeader
          /\ db'.config = db.config
      BY <1>1, <2>2, UpdateBlock
    <2> QED BY <1>4, <2>3
  <1>5. CASE k = 3
    <2>1. Head(todo) = <<"canon", g.block>>
      BY <1>2, <1>5
    <2>2. db' = [db EXCEPT !.canon = g.block]
      BY <2>1, WriteRecord
    <2>3. /\ db' \in Database
          /\ db'.trie = db.trie
          /\ db'.blocks = db.blocks
          /\ db'.canon = g.block
          /\ db'.headHeader = db.headHeader
          /\ db'.config = db.config
      BY <1>1, <2>2, UpdateBlock
    <2> QED BY <1>5, <2>3
  <1>6. CASE k = 4
    <2>1. Head(todo) = <<"headBlock", 0>>
      BY <1>2, <1>6
    <2>2. db' = [db EXCEPT !.headBlock = 0]
      BY <2>1, WriteRecord
    <2>3. /\ db' \in Database
          /\ db'.trie = db.trie
          /\ db'.blocks = db.blocks
          /\ db'.canon = db.canon
          /\ db'.headHeader = db.headHeader
          /\ db'.config = db.config
      BY <1>1, <2>2, UpdateNumber
    <2> QED BY <1>6, <2>3
  <1>7. CASE k = 5
    <2>1. Head(todo) = <<"headHeader", 0>>
      BY <1>2, <1>7
    <2>2. db' = [db EXCEPT !.headHeader = 0]
      BY <2>1, WriteRecord
    <2>3. /\ db' \in Database
          /\ db'.trie = db.trie
          /\ db'.blocks = db.blocks
          /\ db'.canon = db.canon
          /\ db'.headHeader = 0
          /\ db'.config = db.config
      BY <1>1, <2>2, UpdateNumber
    <2> QED BY <1>7, <2>3
  <1>8. CASE k = 6
    <2>1. Head(todo) = <<"config", g.config>>
      BY <1>2, <1>8
    <2>2. db' = [db EXCEPT !.config = g.config]
      BY <2>1, WriteRecord
    <2>3. /\ db' \in Database
          /\ db'.trie = db.trie
          /\ db'.blocks = db.blocks
          /\ db'.canon = db.canon
          /\ db'.headHeader = db.headHeader
          /\ db'.config = g.config
      BY <1>1, <2>2, UpdateNumber
    <2> QED BY <1>8, <2>3
  <1> QED BY <1>3, <1>4, <1>5, <1>6, <1>7, <1>8

\* The k-th record of a genesis block: each finds those before it in place.
LEMMA WriteGenesisKeepsInv ==
    ASSUME GenesisInv, Write, outcome.err = "", NEW g \in Specs, NEW k \in 1..6,
           g.ordered, outcome.config = g.config,
           todo = Rest(g, k), Written(g, k)
    PROVE  GenesisInv'
  <1>1. Head(todo) = Records(g)[k] /\ Tail(todo) = Rest(g, k + 1)
    BY NextRecord
  <1>2. /\ stage = "setup" /\ todo' = Rest(g, k + 1)
        /\ rules' = rules /\ stage' = stage /\ outcome' = outcome
        /\ frozen' = frozen /\ unchecked' = unchecked /\ halfway' = halfway
    BY <1>1 DEF Write
  <1>3. GenesisType /\ StoreInv /\ ChainInv /\ SetupInv /\ db \in Database
    BY DEF GenesisInv, GenesisType
  <1>4. /\ outcome.config \in Nat
        /\ ~unchecked => Under(outcome.config) /\ rules = <<>>
        /\ g.block # Nothing /\ g.block \in Block
    BY <1>2, <1>3, GenesisAssumption DEF SetupInv, Written, Block
  <1>5. /\ Records(g)[1] = <<"trie", g.block>> /\ Records(g)[2] = <<"blocks", g.block>>
        /\ Records(g)[3] = <<"canon", g.block>> /\ Records(g)[4] = <<"headBlock", 0>>
        /\ Records(g)[5] = <<"headHeader", 0>> /\ Records(g)[6] = <<"config", g.config>>
        /\ Rest(g, 7) = <<>>
    BY RecordsAre
  <1>6. /\ db' \in Database
        /\ db'.trie = IF k = 1 THEN db.trie \cup {g.block} ELSE db.trie
        /\ db'.blocks = IF k = 2 THEN db.blocks \cup {g.block} ELSE db.blocks
        /\ db'.canon = IF k = 3 THEN g.block ELSE db.canon
        /\ db'.headHeader = IF k = 5 THEN 0 ELSE db.headHeader
        /\ db'.config = IF k = 6 THEN g.config ELSE db.config
    BY <1>1, <1>3, <1>4, WriteOfGenesis
  <1>7. GenesisType'
    BY <1>2, <1>3, <1>6 DEF GenesisType
  <1>8. StoreInv'
    <2>1. db'.canon # Nothing => db'.canon \in db'.blocks
      BY <1>3, <1>6, Before DEF StoreInv, Written
    <2>2. db'.config # Nothing => db'.canon # Nothing /\ db'.canon \in db'.trie
      <3>1. CASE k # 6
        BY <1>6, <3>1 DEF Written
      <3>2. CASE k = 6
        <4>1. k > 1 /\ k > 3
          BY <3>2, Before
        <4>2. db.canon = g.block /\ g.block \in db.trie
          BY <4>1, Zenon DEF Written
        <4>3. db'.canon = db.canon /\ db'.trie = db.trie
          BY <1>6, <3>2, Before
        <4> QED BY <1>4, <4>2, <4>3
      <3> QED BY <3>1, <3>2
    <2>3. db'.canon = Nothing => rules' = <<>>
      BY <1>2, <1>3, <1>4, <1>6 DEF StoreInv
    <2>4. db'.config = Nothing => db'.headHeader \in {Nothing, 0}
      BY <1>3, <1>6 DEF StoreInv, Written
    <2> QED BY <1>2, <2>1, <2>2, <2>3, <2>4 DEF StoreInv
  <1>9. ChainInv'
    <2>1. CASE k # 6
      BY <1>6, <2>1 DEF ChainInv, Written
    <2>2. ASSUME k = 6, ~unchecked
          PROVE  Under(db.config)' /\ (db'.headHeader # Nothing => Len(rules') = db'.headHeader)
      <3>1. Under(db.config)'
        BY <1>2, <1>4, <1>6, <2>2 DEF Under
      <3>2. Len(rules') = 0 /\ db.headHeader \in {Nothing, 0}
        BY <1>2, <1>3, <1>4, <2>2 DEF StoreInv, Written
      <3> QED BY <1>6, <2>2, <3>1, <3>2
    <2> QED BY <1>2, <2>1, <2>2 DEF ChainInv
  <1>10. SetupInv'
    <2>1. Proceeds'
      <3>1. CASE k = 6
        BY <1>2, <1>5, <1>6, <3>1, Before DEF Proceeds
      <3>2. CASE k # 6
        <4>1. Written(g, k + 1)'
          BY <1>4, <1>6, <3>2, Before DEF Written
        <4>2. k + 1 \in 1..6
          BY <3>2, Before
        <4> QED BY <1>2, <4>1, <4>2 DEF Proceeds
      <3> QED BY <3>1, <3>2
    <2>2. ~unchecked' => Under(outcome.config)' /\ rules' = <<>>
      BY <1>2, <1>4 DEF Under
    <2> QED BY <1>2, <1>4, <2>1, <2>2 DEF SetupInv
  <1>11. StartInv'
    BY <1>2 DEF StartInv
  <1> QED BY <1>7, <1>8, <1>9, <1>10, <1>11 DEF GenesisInv
\* The state of a genesis block whose forks are out of order.
LEMMA WriteTrieKeepsInv ==
    ASSUME GenesisInv, Write, outcome.err \notin {"", "incompatible"},
           NEW g \in Specs, todo = TrieRecord(g)
    PROVE  GenesisInv'
  <1>1. Head(todo) = <<"trie", g.block>> /\ Tail(todo) = <<>>
    BY OneRecord DEF TrieRecord
  <1>2. /\ stage = "setup" /\ todo' = <<>>
        /\ db' = [db EXCEPT !.trie = @ \cup {g.block}]
        /\ rules' = rules /\ stage' = stage /\ outcome' = outcome
        /\ frozen' = frozen /\ unchecked' = unchecked /\ halfway' = halfway
    BY <1>1, WriteRecord
  <1>3. GenesisType /\ StoreInv /\ ChainInv /\ db \in Database /\ g.block \in Block
    BY DEF GenesisInv, GenesisType, Block
  <1>4. /\ db' \in Database /\ db'.trie = db.trie \cup {g.block} /\ db'.blocks = db.blocks
        /\ db'.canon = db.canon /\ db'.headHeader = db.headHeader /\ db'.config = db.config
    BY <1>2, <1>3, UpdateBlock
  <1>5. GenesisType'
    BY <1>2, <1>3, <1>4 DEF GenesisType
  <1>6. StoreInv'
    BY <1>2, <1>3, <1>4 DEF StoreInv
  <1>7. ChainInv'
    BY <1>2, <1>3, <1>4 DEF ChainInv, Under
  <1>8. SetupInv' /\ StartInv'
    BY <1>2 DEF SetupInv, StartInv
  <1> QED BY <1>5, <1>6, <1>7, <1>8 DEF GenesisInv

LEMMA WriteKeepsInv ==
    ASSUME GenesisInv, Write
    PROVE  GenesisInv'
  <1>1. stage = "setup" /\ todo # <<>> /\ SetupInv
    BY DEF Write, GenesisInv
  <1>2. CASE outcome.err = ""
    <2>1. \/ /\ todo = ConfigRecord(outcome.config)
             /\ db.canon # Nothing /\ db.canon \in db.trie
          \/ \E g \in Specs, k \in 1..6 :
                /\ g.ordered /\ outcome.config = g.config
                /\ todo = Rest(g, k)
                /\ Written(g, k)
      BY <1>1, <1>2 DEF SetupInv, Proceeds
    <2> QED BY <1>2, <2>1, WriteConfigKeepsInv, WriteGenesisKeepsInv
  <1>3. CASE outcome.err # ""
    <2>1. outcome.err # "incompatible" /\ \E g \in Specs : todo = TrieRecord(g)
      BY <1>1, <1>3 DEF SetupInv
    <2> QED BY <1>3, <2>1, WriteTrieKeepsInv
  <1> QED BY <1>2, <1>3

\* All is written when SetupGenesisBlock returns without an error.
LEMMA ReturnKeepsInv ==
    ASSUME GenesisInv, Return
    PROVE  GenesisInv'
  <1>1. /\ stage = "setup" /\ todo = <<>>
        /\ stage' = IF outcome.err \in {"", "incompatible"} THEN "load" ELSE "down"
        /\ db' = db /\ rules' = rules /\ todo' = todo /\ outcome' = outcome
        /\ frozen' = frozen /\ unchecked' = unchecked /\ halfway' = halfway
    BY DEF Return
  <1>2. GenesisType /\ StoreInv /\ ChainInv /\ SetupInv
    BY DEF GenesisInv
  <1>3. outcome.err = "" => outcome.config \in Nat /\ db.config = outcome.config
    <2> SUFFICES ASSUME outcome.err = ""
                 PROVE  outcome.config \in Nat /\ db.config = outcome.config
      OBVIOUS
    <2>1. outcome.config \in Nat /\ Proceeds
      BY <1>1, <1>2 DEF SetupInv
    <2>2. ConfigRecord(outcome.config) # <<>>
      BY DEF ConfigRecord
    <2>3. ~ \E g \in Specs, k \in 1..6 : todo = Rest(g, k)
      BY <1>1, NextRecord
    <2> QED BY <1>1, <2>1, <2>2, <2>3 DEF Proceeds
  <1>4. outcome.err = "incompatible" => GoesBack
    BY <1>1, <1>2 DEF SetupInv
  <1>5. GenesisType'
    BY <1>1, <1>2 DEF GenesisType
  <1>6. StoreInv'
    BY <1>1, <1>2, <1>4 DEF StoreInv, GoesBack
  <1>7. ChainInv'
    BY <1>1, <1>2 DEF ChainInv, Under
  <1>8. SetupInv'
    BY <1>1 DEF SetupInv
  <1>9. StartInv'
    BY <1>1, <1>3, <1>4 DEF StartInv, GoesBack
  <1> QED BY <1>5, <1>6, <1>7, <1>8, <1>9 DEF GenesisInv

\* The chain starts over, or finds its head in the ancient store.
LEMMA LoadKeepsInv ==
    ASSUME GenesisInv, Load
    PROVE  GenesisInv'
  <1>1. /\ stage = "load" /\ stage' = IF outcome.err = "" THEN "up" ELSE "rewind"
        /\ todo' = todo /\ outcome' = outcome /\ unchecked' = unchecked /\ halfway' = halfway
    BY DEF Load
  <1>2. GenesisType /\ StoreInv /\ ChainInv /\ StartInv /\ db \in Database /\ 0 \in Nat
    BY DEF GenesisInv, GenesisType
  <1>3. /\ outcome.err \in {"", "incompatible"}
        /\ outcome.err = "" => outcome.config \in Nat /\ db.config = outcome.config
        /\ outcome.err = "incompatible" => GoesBack
    BY <1>1, <1>2 DEF StartInv
  <1>4. db.config \in Nat /\ db.config # Nothing
    BY <1>3, GenesisAssumption DEF GoesBack
  <1>5. SetupInv'
    BY <1>1 DEF SetupInv
  <1>6. CASE db.headHeader = Nothing
    <2>1. /\ db' = [db EXCEPT !.headBlock = 0, !.headHeader = 0]
          /\ rules' = <<>> /\ frozen' = 0
      BY <1>6 DEF Load
    <2>2. /\ db' \in Database /\ db'.trie = db.trie /\ db'.blocks = db.blocks
          /\ db'.canon = db.canon /\ db'.headHeader = 0 /\ db'.config = db.config
      <3> DEFINE e == [db EXCEPT !.headBlock = 0]
      <3>1. /\ e \in Database /\ e.trie = db.trie /\ e.blocks = db.blocks
            /\ e.canon = db.canon /\ e.config = db.config
        BY <1>2, UpdateNumber
      <3>2. db' = [e EXCEPT !.headHeader = 0]
        BY <2>1
      <3> HIDE DEF e
      <3> QED BY <1>2, <3>1, <3>2, UpdateNumber
    <2>3. rules' \in Seq(BOOLEAN) /\ Len(rules') = 0 /\ 0 \in 0..0
      BY <2>1
    <2>4. GenesisType'
      BY <1>1, <1>2, <2>1, <2>2, <2>3 DEF GenesisType
    <2>5. 0 # Nothing
      BY GenesisAssumption
    <2>6. StoreInv'
      BY <1>2, <1>4, <2>1, <2>2, <2>5 DEF StoreInv
    <2>7. ChainInv'
      <3>1. \A n \in 1..0 : FALSE
        OBVIOUS
      <3> QED BY <2>2, <2>3, <3>1 DEF ChainInv, Under
    <2>8. outcome.err = ""
      BY <1>3, <1>6 DEF GoesBack
    <2>9. StartInv'
      BY <1>1, <1>3, <2>2, <2>5, <2>8 DEF StartInv
    <2> QED BY <1>5, <2>4, <2>6, <2>7, <2>9 DEF GenesisInv
  <1>7. CASE db.headHeader # Nothing
    <2>1. /\ db' = IF db.headBlock = 0 /\ db.headHeader = 0
                   THEN [db EXCEPT !.headHeader = frozen] ELSE db
          /\ rules' = rules /\ frozen' = frozen
      BY <1>7 DEF Load
    <2>2. Len(rules) \in Nat /\ frozen \in 0..Len(rules) /\ frozen \in Nat
      BY <1>2, LenProperties DEF GenesisType
    <2>3. /\ db' \in Database /\ db'.trie = db.trie /\ db'.blocks = db.blocks
          /\ db'.canon = db.canon /\ db'.config = db.config
          /\ db'.headHeader = db.headHeader \/ (db.headHeader = 0 /\ db'.headHeader = frozen)
      BY <1>2, <2>1, <2>2, UpdateNumber
    <2>4. db'.headHeader # Nothing
      BY <1>7, <2>2, <2>3, GenesisAssumption
    <2>5. GenesisType'
      BY <1>1, <1>2, <2>1, <2>3 DEF GenesisType
    <2>6. StoreInv'
      BY <1>2, <1>4, <2>1, <2>3, <2>4 DEF StoreInv
    <2>7. ChainInv'
      <3>1. ~unchecked => Under(db.config) /\ Len(rules) = db.headHeader
        BY <1>2, <1>4, <1>7 DEF ChainInv
      <3>2. ~unchecked => Len(rules) = db'.headHeader
        BY <2>2, <2>3, <3>1
      <3> QED BY <1>1, <2>1, <2>3, <3>1, <3>2 DEF ChainInv, Under
    <2>8. StartInv'
      BY <1>1, <1>3, <2>3, <2>4 DEF StartInv, GoesBack
    <2> QED BY <1>5, <2>5, <2>6, <2>7, <2>8 DEF GenesisInv
  <1> QED BY <1>6, <1>7
\* The chain goes back to below both forks before the configuration changes.
LEMMA RewindKeepsInv ==
    ASSUME GenesisInv, Rewind
    PROVE  GenesisInv'
  <1> DEFINE r == outcome.rewindTo
  <1>1. /\ stage = "rewind" /\ todo' = todo /\ outcome' = outcome
        /\ unchecked' = unchecked /\ halfway' = halfway
    BY DEF Rewind
  <1>2. GenesisType /\ StoreInv /\ ChainInv /\ StartInv /\ db \in Database
    BY DEF GenesisInv, GenesisType
  <1>3. outcome.err = "incompatible" /\ GoesBack
    BY <1>1, <1>2 DEF StartInv
  <1>4. /\ outcome.config \in Nat /\ r \in Nat /\ db.config \in Nat /\ db.headHeader # Nothing
        /\ r < db.config /\ r < outcome.config /\ db.config # Nothing
    BY <1>3, GenesisAssumption DEF GoesBack
  <1>5. /\ Len(rules) \in Nat /\ rules \in Seq(BOOLEAN) /\ frozen \in 0..Len(rules)
        /\ r # Nothing /\ outcome.config # Nothing
    BY <1>2, <1>4, LenProperties, GenesisAssumption DEF GenesisType
  <1> HIDE DEF r
  <1>6. CASE /\ Len(rules) > outcome.rewindTo
             /\ rules' = SubSeq(rules, 1, outcome.rewindTo)
             /\ db' = [db EXCEPT !.headBlock = Lower(@, outcome.rewindTo),
                                 !.headHeader = outcome.rewindTo]
             /\ frozen' = Lower(frozen, outcome.rewindTo)
             /\ UNCHANGED stage
    <2>1. /\ Len(rules) > r /\ rules' = SubSeq(rules, 1, r) /\ frozen' = Lower(frozen, r)
          /\ db' = [db EXCEPT !.headBlock = Lower(@, r), !.headHeader = r] /\ stage' = stage
      BY <1>6 DEF r
    <2>2. /\ rules' \in Seq(BOOLEAN) /\ Len(rules') = r
          /\ \A n \in 1..r : rules'[n] = rules[n]
      <3>1. ASSUME NEW q \in Seq(BOOLEAN), NEW m \in Nat, m < Len(q)
            PROVE  /\ SubSeq(q, 1, m) \in Seq(BOOLEAN) /\ Len(SubSeq(q, 1, m)) = m
                   /\ \A n \in 1..m : SubSeq(q, 1, m)[n] = q[n]
        BY <3>1
      <3> QED BY <1>4, <1>5, <2>1, <3>1
    <2>3. frozen' \in 0..r
      BY <1>4, <1>5, <2>1 DEF Lower
    <2>4. /\ db' \in Database /\ db'.trie = db.trie /\ db'.blocks = db.blocks
          /\ db'.canon = db.canon /\ db'.config = db.config /\ db'.headHeader = r
      <3>1. db.headBlock \in OrNothing(Nat) /\ Lower(db.headBlock, r) \in OrNothing(Nat)
        BY <1>2, <1>4 DEF Database, OrNothing, Lower
      <3> DEFINE low == Lower(db.headBlock, r)
      <3>2. db' = [db EXCEPT !.headBlock = low, !.headHeader = r] /\ low \in OrNothing(Nat)
        BY <2>1, <3>1
      <3> HIDE DEF low
      <3> QED BY <1>2, <1>4, <3>2 DEF Database, OrNothing
    <2>5. GenesisType'
      BY <1>1, <1>2, <2>1, <2>2, <2>3, <2>4 DEF GenesisType
    <2>6. StoreInv'
      BY <1>2, <1>4, <1>5, <2>4 DEF StoreInv
    <2>7. ChainInv'
      <3>1. ~unchecked => Under(db.config)
        BY <1>2, <1>4 DEF ChainInv
      <3>2. 1..r \subseteq 1..Len(rules)
        BY <1>4, <1>5, <2>1
      <3>3. ~unchecked => Under(db.config)'
        BY <2>2, <2>4, <3>1, <3>2 DEF Under
      <3> QED BY <1>1, <2>2, <2>4, <3>3 DEF ChainInv
    <2>8. SetupInv'
      BY <1>1, <2>1 DEF SetupInv
    <2>9. StartInv'
      BY <1>1, <1>3, <1>4, <1>5, <2>1, <2>4 DEF StartInv, GoesBack, r
    <2> QED BY <2>5, <2>6, <2>7, <2>8, <2>9 DEF GenesisInv
  <1>7. CASE /\ Len(rules) <= outcome.rewindTo
             /\ db' = [db EXCEPT !.config = outcome.config]
             /\ stage' = "up"
             /\ UNCHANGED <<rules, frozen>>
    <2>1. Len(rules) <= r /\ stage' = "up" /\ rules' = rules /\ frozen' = frozen
      BY <1>7 DEF r
    <2>2. /\ db' \in Database /\ db'.trie = db.trie /\ db'.blocks = db.blocks
          /\ db'.canon = db.canon /\ db'.config = outcome.config /\ db'.headHeader = db.headHeader
      BY <1>2, <1>4, <1>7, UpdateNumber
    <2>3. GenesisType'
      BY <1>1, <1>2, <2>1, <2>2 DEF GenesisType
    <2>4. StoreInv'
      BY <1>2, <1>4, <1>5, <2>1, <2>2 DEF StoreInv
    <2>5. ~unchecked => Under(outcome.config)
      <3> SUFFICES ASSUME ~unchecked, NEW n \in 1..Len(rules)
                   PROVE  rules[n] = (n >= outcome.config)
        BY DEF Under
      <3>1. rules[n] = (n >= db.config)
        BY <1>2, <1>4 DEF ChainInv, Under
      <3>2. ~(n >= db.config) /\ ~(n >= outcome.config)
        BY <1>4, <1>5, <2>1
      <3> QED BY <3>1, <3>2
    <2>6. ChainInv'
      BY <1>1, <1>2, <1>4, <2>1, <2>2, <2>5 DEF ChainInv, Under
    <2>7. SetupInv' /\ StartInv'
      BY <1>1, <1>4, <2>1, <2>2 DEF SetupInv, StartInv
    <2> QED BY <2>3, <2>4, <2>6, <2>7 DEF GenesisInv
  <1> QED BY <1>6, <1>7 DEF Rewind

\* A block is imported under the stored configuration.
LEMMA ImportKeepsInv ==
    ASSUME GenesisInv, Import
    PROVE  GenesisInv'
  <1>1. /\ stage = "up" /\ rules' = Append(rules, Len(rules) + 1 >= outcome.config)
        /\ db' = [db EXCEPT !.headBlock = Len(rules'), !.headHeader = Len(rules')]
        /\ stage' = stage /\ todo' = todo /\ outcome' = outcome
        /\ frozen' = frozen /\ unchecked' = unchecked /\ halfway' = halfway
    BY DEF Import
  <1>2. GenesisType /\ StoreInv /\ ChainInv /\ StartInv /\ db \in Database
    BY DEF GenesisInv, GenesisType
  <1>3. outcome.config \in Nat /\ db.config = outcome.config /\ db.headHeader # Nothing
    BY <1>1, <1>2 DEF StartInv
  <1>4. Len(rules) \in Nat /\ rules \in Seq(BOOLEAN) /\ frozen \in 0..Len(rules)
    BY <1>2, LenProperties DEF GenesisType
  <1>5. (Len(rules) + 1 >= outcome.config) \in BOOLEAN
    OBVIOUS
  <1>6. /\ rules' \in Seq(BOOLEAN) /\ Len(rules') = Len(rules) + 1
        /\ \A n \in 1..Len(rules) : rules'[n] = rules[n]
        /\ rules'[Len(rules) + 1] = (Len(rules) + 1 >= outcome.config)
    BY <1>1, <1>4, <1>5, AppendProperties
  <1>7. Len(rules') \in Nat /\ Len(rules') # Nothing /\ db.config # Nothing
    BY <1>3, <1>4, <1>6, GenesisAssumption
  <1>8. /\ db' \in Database /\ db'.trie = db.trie /\ db'.blocks = db.blocks
        /\ db'.canon = db.canon /\ db'.config = db.config /\ db'.headHeader = Len(rules')
    <2>1. ASSUME NEW d \in Database, NEW n \in Nat
          PROVE  LET e == [d EXCEPT !.headBlock = n, !.headHeader = n]
                 IN  /\ e \in Database /\ e.trie = d.trie /\ e.blocks = d.blocks
                     /\ e.canon = d.canon /\ e.config = d.config /\ e.headHeader = n
      BY <2>1 DEF Database, OrNothing
    <2> QED BY <1>1, <1>2, <1>7, <2>1
  <1>9. frozen' \in 0..Len(rules')
    BY <1>1, <1>4, <1>6
  <1>10. GenesisType'
    BY <1>1, <1>2, <1>6, <1>8, <1>9 DEF GenesisType
  <1>11. StoreInv'
    BY <1>2, <1>7, <1>8 DEF StoreInv
  <1>12. ChainInv'
    <2>1. ASSUME ~unchecked, NEW n \in 1..Len(rules')
          PROVE  rules'[n] = (n >= db'.config)
      <3>1. CASE n \in 1..Len(rules)
        BY <1>2, <1>6, <1>7, <1>8, <2>1, <3>1 DEF ChainInv, Under
      <3>2. CASE n = Len(rules) + 1
        BY <1>3, <1>6, <1>8, <3>2
      <3> QED BY <1>4, <1>6, <3>1, <3>2
    <2> QED BY <1>1, <1>8, <2>1 DEF ChainInv, Under
  <1>13. SetupInv' /\ StartInv'
    BY <1>1, <1>3, <1>7, <1>8 DEF SetupInv, StartInv
  <1> QED BY <1>10, <1>11, <1>12, <1>13 DEF GenesisInv

\* What a node that dies leaves half written, the next start makes up for.
LEMMA DieKeepsInv ==
    ASSUME GenesisInv, Die
    PROVE  GenesisInv'
  <1>1. /\ stage' = "down" /\ db' = db /\ rules' = rules /\ outcome' = outcome
        /\ frozen' = frozen /\ unchecked' = unchecked
        /\ halfway' = (halfway \/ (/\ stage \in {"setup", "load"}
                                   /\ db.config # Nothing /\ db.headHeader = Nothing))
    BY DEF Die
  <1>2. GenesisType /\ StoreInv /\ ChainInv
    BY DEF GenesisInv
  <1>3. halfway' \in BOOLEAN
    BY <1>1, Zenon
  <1>4. GenesisType'
    BY <1>1, <1>2, <1>3 DEF GenesisType
  <1>5. StoreInv'
    <2>1. ~(db.config # Nothing /\ db.headHeader = Nothing /\ ~halfway')
      BY <1>1, <1>2, Zenon DEF StoreInv
    <2> QED BY <1>1, <1>2, <2>1 DEF StoreInv
  <1>6. ChainInv'
    BY <1>1, <1>2 DEF ChainInv, Under
  <1>7. SetupInv' /\ StartInv'
    BY <1>1 DEF SetupInv, StartInv
  <1> QED BY <1>4, <1>5, <1>6, <1>7 DEF GenesisInv

\* The ancient store keeps the genesis block and the chain.
LEMMA LoseStoreKeepsInv ==
    ASSUME GenesisInv, LoseStore
    PROVE  GenesisInv'
  <1>1. /\ stage = "down" /\ rules # <<>>
        /\ db' = [Empty EXCEPT !.canon = db.canon, !.blocks = {db.canon}]
        /\ frozen' = Len(rules) /\ rules' = rules /\ stage' = stage /\ outcome' = outcome
        /\ unchecked' = unchecked /\ halfway' = halfway
    BY DEF LoseStore
  <1>2. GenesisType /\ StoreInv /\ db \in Database
    BY DEF GenesisInv, GenesisType
  <1>3. db.canon \in OrNothing(Block)
    BY <1>2 DEF Database
  <1>4. /\ db' \in Database /\ db'.blocks = {db.canon} /\ db'.canon = db.canon
        /\ db'.headHeader = Nothing /\ db'.config = Nothing
    BY <1>1, <1>3 DEF Empty, Database, OrNothing
  <1>5. Len(rules) \in 0..Len(rules)
    BY <1>2, LenProperties DEF GenesisType
  <1>6. GenesisType'
    BY <1>1, <1>2, <1>4, <1>5 DEF GenesisType
  <1>7. StoreInv'
    BY <1>1, <1>2, <1>4 DEF StoreInv
  <1>8. ChainInv' /\ SetupInv' /\ StartInv'
    BY <1>1, <1>4 DEF ChainInv, SetupInv, StartInv
  <1> QED BY <1>6, <1>7, <1>8 DEF GenesisInv
LEMMA NextKeepsInv == GenesisInv /\ [GenesisNext]_genesisVars => GenesisInv'
  <1> SUFFICES ASSUME GenesisInv, [GenesisNext]_genesisVars PROVE GenesisInv'
    OBVIOUS
  <1>1. ASSUME NEW spec \in Specs \cup {NoSpec}, Start(spec) PROVE GenesisInv'
    BY <1>1, StartKeepsInv
  <1>2. CASE Write
    BY <1>2, WriteKeepsInv
  <1>3. CASE Return
    BY <1>3, ReturnKeepsInv
  <1>4. CASE Load
    BY <1>4, LoadKeepsInv
  <1>5. CASE Rewind
    BY <1>5, RewindKeepsInv
  <1>6. CASE Import
    BY <1>6, ImportKeepsInv
  <1>7. CASE Die
    BY <1>7, DieKeepsInv
  <1>8. CASE LoseStore
    BY <1>8, LoseStoreKeepsInv
  <1>9. CASE UNCHANGED genesisVars
    <2>1. /\ db' = db /\ rules' = rules /\ stage' = stage /\ todo' = todo /\ outcome' = outcome
          /\ frozen' = frozen /\ unchecked' = unchecked /\ halfway' = halfway
      BY <1>9 DEF genesisVars
    <2>2. GenesisType' /\ StoreInv' /\ ChainInv' /\ StartInv'
      BY <2>1 DEF GenesisInv, GenesisType, StoreInv, ChainInv, StartInv, GoesBack, Under
    <2>3. SetupInv'
      BY <2>1 DEF GenesisInv, SetupInv, Proceeds, Written, GoesBack, Under
    <2> QED BY <2>2, <2>3 DEF GenesisInv
  <1> QED BY <1>1, <1>2, <1>3, <1>4, <1>5, <1>6, <1>7, <1>8, <1>9 DEF GenesisNext

\* A node that is down finds a database its genesis block is not refused for.
LEMMA InvStartsAgain == GenesisInv => StartsAgain
  <1> SUFFICES ASSUME GenesisInv, stage = "down", ~halfway,
                      NEW spec \in Specs, spec.ordered, db.canon \in {Nothing, spec.block}
               PROVE  SetupGenesisBlock(spec).err \in {"", "incompatible"}
    BY DEF StartsAgain
  <1> DEFINE new == configOrDefault(spec, db.canon)
  <1>1. spec # NoSpec /\ spec.config # Nothing
    BY GenesisAssumption
  <1>2. /\ db.canon # Nothing => db.canon \in db.blocks
        /\ db.config # Nothing => db.headHeader # Nothing
    BY DEF GenesisInv, StoreInv
  <1>3. CommitGenesis(spec).err = ""
    BY DEF CommitGenesis, Returns
  <1>4. CASE db.canon = Nothing
    <2>1. SetupGenesisBlock(spec) = CommitGenesis(spec)
      BY <1>1, <1>4 DEF SetupGenesisBlock
    <2> QED BY <1>3, <2>1
  <1>5. CASE db.canon # Nothing /\ db.canon \notin db.trie
    <2>1. SetupGenesisBlock(spec) = CommitGenesis(spec)
      BY <1>1, <1>2, <1>5 DEF SetupGenesisBlock, Restored
    <2> QED BY <1>3, <2>1
  <1>6. CASE db.canon # Nothing /\ db.canon \in db.trie
    <2>1. \/ SetupGenesisBlock(spec) = Returns("", new, << <<"config", new>> >>)
          \/ SetupGenesisBlock(spec) = [Returns("incompatible", new, <<>>)
                                          EXCEPT !.rewindTo = RewindTo(db.config, new)]
      BY <1>1, <1>2, <1>6 DEF SetupGenesisBlock
    <2>2. Returns("", new, << <<"config", new>> >>).err = ""
      BY DEF Returns
    <2>3. [Returns("incompatible", new, <<>>)
             EXCEPT !.rewindTo = RewindTo(db.config, new)].err = "incompatible"
      BY DEF Returns
    <2> QED BY <2>1, <2>2, <2>3
  <1> QED BY <1>4, <1>5, <1>6

\* A chain that is up was imported under the stored configuration.
LEMMA InvRulesMatch == GenesisInv => RulesMatch
  <1> SUFFICES ASSUME GenesisInv, stage = "up", ~unchecked, NEW n \in DOMAIN rules
               PROVE  rules[n] = (n >= db.config)
    BY DEF RulesMatch
  <1>1. db.config \in Nat /\ db.config # Nothing
    BY GenesisAssumption DEF GenesisInv, StartInv
  <1>2. n \in 1..Len(rules)
    BY LenProperties DEF GenesisInv, GenesisType
  <1> QED BY <1>1, <1>2 DEF GenesisInv, ChainInv, Under

\* However often a node dies while it writes its genesis block or changes
\* its configuration, and whichever specifications it is started with, it can
\* be started again with the genesis block it has, and the configuration
\* SetupGenesisBlock and the rewind leave is the one the blocks were imported
\* under.
THEOREM DatabaseStaysUsable == GenesisSpec => []DatabaseUsable
  <1>1. GenesisInit => GenesisInv
    BY InitKeepsInv
  <1>2. GenesisInv /\ [GenesisNext]_genesisVars => GenesisInv'
    BY NextKeepsInv
  <1>3. GenesisInv => DatabaseUsable
    BY InvStartsAgain, InvRulesMatch DEF DatabaseUsable
  <1> QED BY <1>1, <1>2, <1>3, PTL DEF GenesisSpec

-----------------------------------------------------------------------------
(* Fork identifiers *)

Precedes == {ss \in Nat \X Nat : ss[1] < ss[2]}

LEMMA FirstOfBlocks ==
    ASSUME NEW blocks \in SUBSET Nat, blocks # {}
    PROVE  First(blocks) \in blocks /\ \A f \in blocks : First(blocks) <= f
<1>1. IsWellFoundedOn(Precedes, Nat)
  BY NatLessThanWellFounded, Zenon DEF OpToRel, Precedes
<1>2. PICK low \in blocks : \A f \in blocks : ~(<<f, low>> \in Precedes)
  BY <1>1, WFMin, Zenon
<1>3. \A f \in blocks : low <= f
  <2> SUFFICES ASSUME NEW f \in blocks, f < low PROVE FALSE
    OBVIOUS
  <2>1. <<f, low>> \in Nat \X Nat /\ <<f, low>>[1] < <<f, low>>[2]
    OBVIOUS
  <2>2. <<f, low>> \in Precedes
    BY <2>1, Zenon DEF Precedes
  <2> QED BY <1>2, <2>2
<1> QED BY <1>3, Zenon DEF First

Node == [config : [Rules -> ForkBlocks \cup {NoBlock}], head : 0..MaxHead]

LEMMA ForksAreBlocks ==
    ASSUME NEW node \in Node
    PROVE  /\ node.head \in 0..MaxHead
           /\ Forks(node) \subseteq 1..MaxHead
<1>1. node.head \in 0..MaxHead /\ node.config \in [Rules -> ForkBlocks \cup {NoBlock}]
  BY DEF Node
<1>2. \A r \in Rules : node.config[r] \in ForkBlocks \cup {NoBlock}
  BY <1>1
<1>3. \A f \in Forks(node) : f \in ForkBlocks /\ f # 0
  BY <1>2 DEF Forks, gatherForks
<1>4. \A f \in ForkBlocks : f \in 0..MaxHead
  BY ForkAssumption
<1>5. ASSUME NEW f \in Forks(node) PROVE f \in 1..MaxHead
  <2>1. f \in 0..MaxHead /\ f # 0
    BY <1>3, <1>4, Zenon
  <2> QED BY <2>1, ForkAssumption
<1> QED BY <1>1, <1>5

(* What a peer says of itself: the forks up to its head, and the next one. *)
LEMMA IdOfNode ==
    ASSUME NEW node \in Node
    PROVE  /\ newID(node).hash = {f \in Forks(node) : f <= node.head}
           /\ \/ newID(node).next = 0 /\ \A f \in Forks(node) : f <= node.head
              \/ /\ newID(node).next \in Forks(node) /\ newID(node).next > node.head
                 /\ \A f \in Forks(node) : f > node.head => newID(node).next <= f
<1> DEFINE passed == {f \in Forks(node) : f <= node.head}
           ahead == Forks(node) \ passed
<1>1. newID(node) = [hash |-> passed, next |-> IF ahead = {} THEN 0 ELSE First(ahead)]
  BY DEF newID, Forks
<1>2. newID(node).hash = passed /\ newID(node).next = IF ahead = {} THEN 0 ELSE First(ahead)
  BY <1>1
<1>3. Forks(node) \subseteq Nat /\ node.head \in Nat
  BY ForksAreBlocks, ForkAssumption
<1>4. CASE ahead = {}
  BY <1>2, <1>3, <1>4
<1>5. CASE ahead # {}
  <2>1. First(ahead) \in ahead /\ \A f \in ahead : First(ahead) <= f
    BY <1>3, <1>5, FirstOfBlocks
  <2> QED BY <1>2, <1>3, <1>5, <2>1
<1> QED BY <1>4, <1>5

(* The filter's position, and the place of a checksum it knows: the first  *)
(* fork that did not go into it.                                           *)
Position(node) == First({f \in Forks(node) \cup {Never} : node.head <= f})
Known(node, sum) == {f \in Forks(node) \cup {Never} : {g \in Forks(node) : g < f} = sum}

LEMMA PositionOfNode ==
    ASSUME NEW node \in Node
    PROVE  /\ Position(node) \in Forks(node) \cup {Never} /\ node.head <= Position(node)
           /\ \A f \in Forks(node) \cup {Never} : node.head <= f => Position(node) <= f
<1> DEFINE S == {f \in Forks(node) \cup {Never} : node.head <= f}
<1>1. S \in SUBSET Nat /\ Never \in S
  BY ForksAreBlocks, ForkAssumption DEF Never
<1>2. First(S) \in S /\ \A f \in S : First(S) <= f
  BY <1>1, FirstOfBlocks
<1> QED BY <1>2 DEF Position

LEMMA KnownOnce ==
    ASSUME NEW node \in Node, NEW sum, NEW f \in Known(node, sum), NEW g \in Known(node, sum)
    PROVE  f = g
<1>1. Forks(node) \subseteq 1..MaxHead /\ MaxHead \in Nat
  BY ForksAreBlocks, ForkAssumption
<1>2. ASSUME NEW a \in Known(node, sum), NEW b \in Known(node, sum), a < b PROVE FALSE
  <2>1. a \in Forks(node) /\ b \in 1..Never
    BY <1>1, <1>2 DEF Known, Never
  <2>2. a \in {h \in Forks(node) : h < b} /\ a \notin {h \in Forks(node) : h < a}
    BY <1>1, <1>2, <2>1 DEF Never
  <2> QED BY <2>2 DEF Known
<1>3. f \in Nat /\ g \in Nat
  BY <1>1 DEF Known, Never
<1> QED BY <1>2, <1>3

LEMMA FilterAnswer ==
    ASSUME NEW node \in Node, NEW id
    PROVE  /\ Known(node, id.hash) = {} => newFilter(node, id) # "ok"
           /\ \A there \in Known(node, id.hash) :
                 (newFilter(node, id) = "ok") <=>
                    /\ there = Position(node) => ~(id.next > 0 /\ node.head >= id.next)
                    /\ there < Position(node) => there = id.next
<1> DEFINE known == Known(node, id.hash)
           here == Position(node)
           there == CHOOSE f \in known : TRUE
<1>1. newFilter(node, id) =
        IF known = {} THEN "local incompatible or stale"
        ELSE IF there = here
             THEN IF id.next > 0 /\ node.head >= id.next
                  THEN "local incompatible or stale" ELSE "ok"
        ELSE IF there < here /\ there # id.next THEN "remote stale"
        ELSE "ok"
  <2> DEFINE forks == Forks(node)
             at == {f \in DOMAIN Sums(forks) : Sums(forks)[f] = id.hash}
  <2>1. at = known
    BY DEF Sums, Known
  <2>2. newFilter(node, id) =
          IF at = {} THEN "local incompatible or stale"
          ELSE IF (CHOOSE f \in at : TRUE) = here
               THEN IF id.next > 0 /\ node.head >= id.next
                    THEN "local incompatible or stale" ELSE "ok"
          ELSE IF (CHOOSE f \in at : TRUE) < here /\ (CHOOSE f \in at : TRUE) # id.next THEN "remote stale"
          ELSE "ok"
    BY Zenon DEF newFilter, Forks, Position, Stale
  <2>3. (CHOOSE f \in at : TRUE) = there
    BY <2>1, Zenon
  <2> HIDE DEF at, known, there, here
  <2> QED BY <2>1, <2>2, <2>3, Zenon
<1>2. known = {} => newFilter(node, id) # "ok"
  BY <1>1
<1>3. ASSUME NEW f \in known
      PROVE  (newFilter(node, id) = "ok") <=>
                /\ f = here => ~(id.next > 0 /\ node.head >= id.next)
                /\ f < here => f = id.next
  <2>1. there \in known
    BY <1>3, Zenon
  <2>2. there = f
    BY <2>1, KnownOnce
  <2>3. f \in Nat /\ here \in Nat
    BY ForksAreBlocks, PositionOfNode, ForkAssumption DEF Known, Never
  <2>4. known # {}
    BY <1>3
  <2> HIDE DEF here, there, known
  <2>5. newFilter(node, id) =
          IF f = here
             THEN IF id.next > 0 /\ node.head >= id.next
                  THEN "local incompatible or stale" ELSE "ok"
          ELSE IF f < here /\ f # id.next THEN "remote stale"
          ELSE "ok"
    BY <1>1, <2>2, <2>4, Zenon
  <2>6. CASE f = here
    <3>1. newFilter(node, id) = IF id.next > 0 /\ node.head >= id.next
                                THEN "local incompatible or stale" ELSE "ok"
      BY <2>5, <2>6, Zenon
    <3>2. ~(f < here)
      BY <2>3, <2>6
    <3> QED BY <2>6, <3>1, <3>2
  <2>7. CASE f # here
    <3>1. newFilter(node, id) = IF f < here /\ f # id.next THEN "remote stale" ELSE "ok"
      BY <2>5, <2>7, Zenon
    <3> QED BY <2>7, <3>1
  <2> QED BY <2>6, <2>7
<1> QED BY <1>2, <1>3

(* The heart of it, in either direction. *)
LEMMA FilterAccepts ==
    ASSUME NEW node \in Node, NEW peer \in Node,
           node.head \notin Forks(node) \cup Forks(peer),
           peer.head \notin Forks(node) \cup Forks(peer),
           \A f \in Forks(node) \cup Forks(peer) :
              f <= node.head \/ f <= peer.head => f \in Forks(node) /\ f \in Forks(peer)
    PROVE  newFilter(node, newID(peer)) = "ok"
<1> DEFINE A == Forks(node)
           B == Forks(peer)
           id == newID(peer)
           there == First({f \in A \cup {Never} : f > peer.head})
           here == Position(node)
<1>1. /\ A \subseteq 1..MaxHead /\ B \subseteq 1..MaxHead /\ MaxHead \in Nat
      /\ node.head \in 0..MaxHead /\ peer.head \in 0..MaxHead
  BY ForksAreBlocks, ForkAssumption
<1>2. /\ there \in A \cup {Never} /\ there > peer.head
      /\ \A f \in A \cup {Never} : f > peer.head => there <= f
  <2> DEFINE S == {f \in A \cup {Never} : f > peer.head}
  <2>1. S \in SUBSET Nat /\ Never \in S
    BY <1>1 DEF Never
  <2>2. First(S) \in S /\ \A f \in S : First(S) <= f
    BY <2>1, FirstOfBlocks
  <2> QED BY <2>2
<1>3. here \in A \cup {Never} /\ node.head <= here
      /\ \A f \in A \cup {Never} : node.head <= f => here <= f
  BY PositionOfNode
<1>4. id.hash = {f \in B : f <= peer.head}
      /\ \/ id.next = 0 /\ \A f \in B : f <= peer.head
         \/ id.next \in B /\ id.next > peer.head /\ \A f \in B : f > peer.head => id.next <= f
  BY IdOfNode
<1> HIDE DEF A, B, id, there, here
<1>5. {g \in A : g < there} = id.hash
  <2>1. ASSUME NEW g \in A, g < there PROVE g \in B /\ g <= peer.head
    <3>1. g <= peer.head
      BY <1>1, <1>2, <2>1 DEF Never
    <3> QED BY <3>1 DEF A, B
  <2>2. ASSUME NEW g \in B, g <= peer.head PROVE g \in A /\ g < there
    BY <1>1, <1>2, <2>2 DEF A, B, Never
  <2> QED BY <1>4, <2>1, <2>2
<1>6. there \in Known(node, id.hash)
  BY <1>2, <1>5 DEF Known, A
<1>7. there = here => ~(id.next > 0 /\ node.head >= id.next)
  <2> SUFFICES ASSUME there = here, id.next > 0, node.head >= id.next PROVE FALSE
    OBVIOUS
  <2>1. id.next \in B /\ id.next > peer.head
    BY <1>4
  <2>2. id.next \in A
    BY <2>1 DEF A, B
  <2>3. here <= id.next
    BY <1>2, <2>1, <2>2
  <2>4. node.head = id.next
    <3>1. id.next \in 1..MaxHead
      BY <1>1, <2>1, Zenon
    <3>2. here \in 1..Never
      BY <1>1, <1>3 DEF Never
    <3> QED BY <1>1, <1>3, <2>3, <3>1, <3>2 DEF Never
  <2> QED BY <2>2, <2>4 DEF A
<1>8. there < here => there = id.next
  <2> SUFFICES ASSUME there < here PROVE there = id.next
    OBVIOUS
  <2>1. there \in A /\ there < node.head
    BY <1>1, <1>2, <1>3 DEF Never
  <2>2. there \in B
    BY <2>1, <1>1 DEF A, B
  <2>3. id.next \in B /\ id.next > peer.head /\ id.next <= there
    BY <1>1, <1>2, <1>4, <2>2
  <2>4. id.next \in A
    BY <1>1, <2>1, <2>3 DEF A, B
  <2>5. there <= id.next
    BY <1>2, <2>3, <2>4
  <2>6. there \in 1..MaxHead /\ id.next \in 1..MaxHead
    BY <1>1, <2>1, <2>3, Zenon
  <2> QED BY <1>1, <2>3, <2>5, <2>6
<1> QED BY <1>6, <1>7, <1>8, FilterAnswer DEF id, here

LEMMA FilterRejects ==
    ASSUME NEW node \in Node, NEW peer \in Node,
           NEW f \in (Forks(node) \ Forks(peer)) \cup (Forks(peer) \ Forks(node)),
           f < node.head, f <= peer.head
    PROVE  newFilter(node, newID(peer)) # "ok"
<1> DEFINE A == Forks(node)
           B == Forks(peer)
           id == newID(peer)
           here == Position(node)
<1>1. /\ A \subseteq 1..MaxHead /\ B \subseteq 1..MaxHead /\ MaxHead \in Nat
      /\ node.head \in 0..MaxHead /\ peer.head \in 0..MaxHead
  BY ForksAreBlocks, ForkAssumption
<1>2. here \in A \cup {Never} /\ node.head <= here
  BY PositionOfNode
<1>3. id.hash = {g \in B : g <= peer.head} /\ (id.next = 0 \/ (id.next \in B /\ id.next > peer.head))
  BY IdOfNode
<1>4. CASE Known(node, id.hash) = {}
  BY <1>4, FilterAnswer
<1>5. CASE Known(node, id.hash) # {}
  <2>1. PICK there \in Known(node, id.hash) : TRUE
    BY <1>5
  <2> HIDE DEF A, B, id, here
  <2>2. there \in A \cup {Never} /\ {g \in A : g < there} = {g \in B : g <= peer.head}
    BY <1>3, <2>1 DEF Known, A
  <2>3. f \in A /\ f \notin B
    BY <2>2 DEF A, B
  <2>4. there <= f
    BY <1>1, <2>2, <2>3 DEF Never
  <2>5. there < here /\ there # id.next
    BY <1>1, <1>2, <1>3, <2>2, <2>3, <2>4 DEF Never
  <2> QED BY <2>1, <2>5, FilterAnswer DEF id, here
<1> QED BY <1>4, <1>5

NodesOK == local \in Node /\ remote \in Node

LEMMA NodesFilter == NodesOK => FilterExact
<1> SUFFICES ASSUME NodesOK PROVE FilterExact
  OBVIOUS
<1>1. AcceptedBetweenForks
  <2> SUFFICES ASSUME Compatible,
                      {local.head, remote.head} \cap (Forks(local) \cup Forks(remote)) = {}
               PROVE  newFilter(local, newID(remote)) = "ok" /\ newFilter(remote, newID(local)) = "ok"
    BY Zenon DEF AcceptedBetweenForks
  <2>1. /\ Forks(local) \subseteq 1..MaxHead /\ Forks(remote) \subseteq 1..MaxHead
        /\ local.head \in 0..MaxHead /\ remote.head \in 0..MaxHead
    BY ForksAreBlocks DEF NodesOK
  <2>2. \A f \in Forks(local) \cup Forks(remote) :
            f <= local.head \/ f <= remote.head => f \in Forks(local) /\ f \in Forks(remote)
    BY <2>1 DEF Compatible, Differ
  <2>3. newFilter(local, newID(remote)) = "ok"
    BY <2>2, FilterAccepts DEF NodesOK
  <2>4. newFilter(remote, newID(local)) = "ok"
    BY <2>2, FilterAccepts DEF NodesOK
  <2> QED BY <2>3, <2>4
<1>2. DivergedRejected
  BY FilterRejects DEF DivergedRejected, Differ, NodesOK
<1> QED BY <1>1, <1>2 DEF FilterExact

(* Whatever the fork schedules of the two nodes and however far each has   *)
(* got, a filter accepts a peer whose forks agree up to both heads and     *)
(* turns away one that has passed a fork that only one of them knows       *)
(* (newID, newFilter), between fork blocks.                                *)
THEOREM FiltersAreExact == ForkInit /\ [][ForkNext]_forkVars => []FilterExact
<1>1. ForkInit => NodesOK
  BY ForkAssumption DEF ForkInit, NodesOK, Node
<1>2. NodesOK /\ [ForkNext]_forkVars => NodesOK'
  BY ForkAssumption DEF NodesOK, Node, ForkNext, LocalHead, RemoteHead, forkVars
<1>3. NodesOK => FilterExact
  BY NodesFilter
<1> QED BY <1>1, <1>2, <1>3, PTL

-----------------------------------------------------------------------------
(* Lists of transactions                                                   *)

LEMMA LeastOf ==
    ASSUME NEW S \in SUBSET Nat, S # {}
    PROVE  \E n \in S : \A k \in S : n <= k
<1>1. IsWellFoundedOn(Precedes, Nat)
  BY NatLessThanWellFounded, Zenon DEF OpToRel, Precedes
<1>2. PICK low \in S : \A n \in S : ~(<<n, low>> \in Precedes)
  BY <1>1, WFMin, Zenon
<1>3. \A n \in S : low <= n
  <2> SUFFICES ASSUME NEW n \in S, n < low PROVE FALSE
    OBVIOUS
  <2>1. <<n, low>> \in Nat \X Nat /\ <<n, low>>[1] < <<n, low>>[2]
    OBVIOUS
  <2>2. <<n, low>> \in Precedes
    BY <2>1, Zenon DEF Precedes
  <2> QED BY <1>2, <2>2
<1> QED BY <1>3

LEMMA DownClosed ==
    ASSUME NEW n \in Nat, NEW S \in SUBSET (1..n),
           \A i \in S : \A j \in 1..i : j \in S
    PROVE  Cardinality(S) \in 0..n /\ S = 1..Cardinality(S)
<1> DEFINE T == (1..(n + 1)) \ S
<1>1. T \in SUBSET Nat /\ n + 1 \in T
  OBVIOUS
<1>2. PICK k \in T : \A j \in T : k <= j
  BY <1>1, LeastOf
<1>3. k \in 1..(n + 1) /\ S = 1..(k - 1)
  <2>1. k \in 1..(n + 1) /\ k \notin S
    OBVIOUS
  <2>2. ASSUME NEW i \in S PROVE i \in 1..(k - 1)
    BY <2>1, <2>2
  <2>3. ASSUME NEW i \in 1..(k - 1) PROVE i \in S
    BY <1>2, <2>1, <2>3
  <2> QED BY <2>1, <2>2, <2>3
<1>4. Cardinality(1..(k - 1)) = k - 1
  BY <1>3, FS_Interval
<1> QED BY <1>3, <1>4

Rising(s, n) ==
    /\ n \in Nat /\ s \in [1..n -> Nat]
    /\ \A i, j \in 1..n : i < j => s[i] < s[j]

LEMMA Distances ==
    ASSUME NEW s, NEW n, Rising(s, n), NEW i \in 1..n, NEW j \in i..n
    PROVE  s[i] + (j - i) <= s[j]
<1> DEFINE T == {k \in i..n : ~(s[i] + (k - i) <= s[k])}
<1> SUFFICES ASSUME T # {} PROVE FALSE
  OBVIOUS
<1>1. n \in Nat /\ s \in [1..n -> Nat]
  BY DEF Rising
<1>2. T \in SUBSET Nat
  BY <1>1
<1>3. PICK k \in T : \A l \in T : k <= l
  BY <1>2, LeastOf
<1>4. k \in i..n /\ k # i /\ s[i] \in Nat
  BY <1>1
<1>5. k - 1 \in i..n /\ k - 1 \notin T
  BY <1>1, <1>3, <1>4
<1>6. s[i] + ((k - 1) - i) <= s[k - 1]
  BY <1>5
<1>7. s[k - 1] < s[k] /\ s[k - 1] \in Nat /\ s[k] \in Nat
  BY <1>1, <1>4, <1>5 DEF Rising
<1> QED BY <1>1, <1>3, <1>4, <1>6, <1>7, SMTT(20)

-----------------------------------------------------------------------------
InOrder(m) == [i \in 1..Len(m.index) |-> m.items[m.index[i]]]

MapOK(m) ==
    /\ m = [items |-> m.items, index |-> m.index, cache |-> m.cache]
    /\ DOMAIN m.items \subseteq Nat
    /\ m.items \in [DOMAIN m.items -> Tx]
    /\ \A n \in DOMAIN m.items : m.items[n].nonce = n
    /\ m.index \in Seq(Nat)
    /\ Rising(m.index, Len(m.index))
    /\ DOMAIN m.items = {m.index[i] : i \in 1..Len(m.index)}
    /\ m.cache = Nil \/ m.cache = InOrder(m)

LEMMA Enumerated ==
    ASSUME NEW m, MapOK(m)
    PROVE  /\ Len(m.index) \in Nat
           /\ InOrder(m) \in [1..Len(m.index) -> Items(m)]
           /\ InOrder(m) \in Seq(Items(m)) /\ Len(InOrder(m)) = Len(m.index)
           /\ \A i \in 1..Len(m.index) : /\ m.index[i] \in DOMAIN m.items /\ m.index[i] \in Nat
                                         /\ InOrder(m)[i] = m.items[m.index[i]]
                                         /\ InOrder(m)[i].nonce = m.index[i]
           /\ \A t \in Items(m) : /\ t.nonce \in DOMAIN m.items /\ m.items[t.nonce] = t
                                  /\ t.nonce \in Nat
                                  /\ \E i \in 1..Len(m.index) : t = InOrder(m)[i] /\ t.nonce = m.index[i]
           /\ Items(m) \subseteq Tx
           /\ \A i, j \in 1..Len(m.index) : InOrder(m)[i] = InOrder(m)[j] => i = j
<1> DEFINE n == Len(m.index)
           o == InOrder(m)
<1>1. n \in Nat /\ m.index \in [1..n -> Nat]
  BY DEF MapOK, Rising
<1>2. \A i \in 1..n : m.index[i] \in DOMAIN m.items /\ m.index[i] \in Nat
  BY <1>1 DEF MapOK
<1>3. \A i \in 1..n : /\ o[i] = m.items[m.index[i]] /\ o[i] \in Items(m)
                      /\ o[i].nonce = m.index[i]
  BY <1>2 DEF InOrder, Items, MapOK
<1>4. o \in [1..n -> Items(m)]
  BY <1>3 DEF InOrder
<1>5. o \in Seq(Items(m)) /\ Len(o) = n
  BY <1>1, <1>4
<1>6. ASSUME NEW t \in Items(m)
      PROVE  /\ t.nonce \in DOMAIN m.items /\ m.items[t.nonce] = t
             /\ t.nonce \in Nat
             /\ \E i \in 1..n : t = o[i] /\ t.nonce = m.index[i]
             /\ t \in Tx
  <2>1. PICK k \in DOMAIN m.items : t = m.items[k]
    BY DEF Items
  <2>2. t.nonce = k /\ t \in Tx /\ k \in Nat
    BY <2>1 DEF MapOK
  <2>3. PICK i \in 1..n : k = m.index[i]
    BY DEF MapOK
  <2> QED BY <1>3, <2>1, <2>2, <2>3
<1>7. ASSUME NEW i \in 1..n, NEW j \in 1..n, o[i] = o[j] PROVE i = j
  <2>1. m.index[i] = m.index[j]
    BY <1>3, <1>7
  <2>2. m.index[i] \in Nat /\ m.index[j] \in Nat
    BY <1>2
  <2> QED BY <1>1, <2>1, <2>2 DEF MapOK, Rising
<1> QED BY <1>1, <1>2, <1>3, <1>4, <1>5, <1>6, <1>7

\* What is before the i-th transaction are the i - 1 first.
LEMMA Ranks ==
    ASSUME NEW m, MapOK(m), NEW i \in 1..Len(m.index)
    PROVE  Cardinality({t \in Items(m) : t.nonce < InOrder(m)[i].nonce}) = i - 1
<1> DEFINE n == Len(m.index)
           o == InOrder(m)
           S == {t \in Items(m) : t.nonce < o[i].nonce}
           f == [j \in 1..(i - 1) |-> o[j]]
<1>1. n \in Nat /\ i \in Nat /\ \A j \in 1..(i - 1) : j \in 1..n
  BY Enumerated
<1>2. \A j \in 1..n : j < i <=> o[j] \in S
  <2> SUFFICES ASSUME NEW j \in 1..n PROVE j < i <=> o[j] \in S
    OBVIOUS
  <2>1. /\ o[j] \in Items(m) /\ o[j].nonce = m.index[j] /\ o[i].nonce = m.index[i]
        /\ m.index[i] \in Nat /\ m.index[j] \in Nat
    BY Enumerated
  <2>2. /\ j < i => m.index[j] < m.index[i]
        /\ i < j => m.index[i] < m.index[j]
    BY DEF MapOK, Rising
  <2> QED BY <1>1, <2>1, <2>2
<1>3. f \in Injection(1..(i - 1), S)
  <2>1. f \in [1..(i - 1) -> S]
    BY <1>1, <1>2
  <2>2. \A j, k \in 1..(i - 1) : f[j] = f[k] => j = k
    BY <1>1, Enumerated
  <2> QED BY <2>1, <2>2 DEF Injection, IsInjective
<1>4. f \in Surjection(1..(i - 1), S)
  <2>1. ASSUME NEW t \in S PROVE \E j \in 1..(i - 1) : f[j] = t
    <3>1. PICK j \in 1..n : t = o[j]
      BY Enumerated
    <3>2. j \in 1..(i - 1)
      BY <1>1, <1>2, <3>1
    <3> QED BY <3>1, <3>2
  <2> QED BY <1>3, <2>1 DEF Surjection, Injection
<1>5. Cardinality(S) = Cardinality(1..(i - 1))
  BY <1>3, <1>4, FS_Bijection, FS_Interval, <1>1 DEF Bijection, ExistsBijection
<1>6. Cardinality(1..(i - 1)) = i - 1
  BY <1>1, FS_Interval
<1> QED BY <1>5, <1>6
LEMMA Sizes ==
    ASSUME NEW m, MapOK(m)
    PROVE  /\ IsFiniteSet(Items(m)) /\ Cardinality(Items(m)) = Len(m.index)
           /\ IsFiniteSet(DOMAIN m.items) /\ Cardinality(DOMAIN m.items) = Len(m.index)
<1> DEFINE n == Len(m.index)
<1>1. n \in Nat /\ IsFiniteSet(1..n) /\ Cardinality(1..n) = n
  BY Enumerated, FS_Interval
<1>2. InOrder(m) \in Bijection(1..n, Items(m))
  <2>1. InOrder(m) \in [1..n -> Items(m)]
    BY Enumerated
  <2>2. \A i, j \in 1..n : InOrder(m)[i] = InOrder(m)[j] => i = j
    BY Enumerated
  <2>3. \A t \in Items(m) : \E i \in 1..n : InOrder(m)[i] = t
    BY Enumerated
  <2> QED BY <2>1, <2>2, <2>3 DEF Bijection, Injection, Surjection, IsInjective
<1>3. m.index \in Bijection(1..n, DOMAIN m.items)
  <2>1. m.index \in [1..n -> DOMAIN m.items]
    BY Enumerated DEF MapOK, Rising
  <2>2. \A i, j \in 1..n : m.index[i] = m.index[j] => i = j
    <3> SUFFICES ASSUME NEW i \in 1..n, NEW j \in 1..n, m.index[i] = m.index[j], i # j PROVE FALSE
      OBVIOUS
    <3>1. m.index[i] \in Nat /\ (i < j \/ j < i)
      BY <1>1, Enumerated
    <3>2. Rising(m.index, n)
      BY DEF MapOK
    <3> QED BY <3>1, <3>2 DEF Rising
  <2>3. \A k \in DOMAIN m.items : \E i \in 1..n : m.index[i] = k
    BY DEF MapOK
  <2> QED BY <2>1, <2>2, <2>3 DEF Bijection, Injection, Surjection, IsInjective
<1> QED BY <1>1, <1>2, <1>3, FS_Bijection DEF ExistsBijection

\* Two orders of the same transactions are the same.
OrderOf(s, n, S) ==
    /\ s \in [1..n -> S]
    /\ \A t \in S : \E i \in 1..n : s[i] = t
    /\ \A i, j \in 1..n : i < j => s[i].nonce < s[j].nonce

LEMMA Strict ==
    ASSUME NEW a \in Nat, NEW b \in Nat, a < b
    PROVE  ~(b < a) /\ b # a
OBVIOUS

LEMMA NotBoth ==
    ASSUME NEW a \in Nat, NEW b \in Nat, a < b, b < a
    PROVE  FALSE
OBVIOUS

LEMMA OneOrder ==
    ASSUME NEW n \in Nat, NEW S, NEW s, NEW o,
           \A t \in S : t.nonce \in Nat, OrderOf(s, n, S), OrderOf(o, n, S)
    PROVE  s = o
<1> USE DEF OrderOf
<1> DEFINE T == {i \in 1..n : s[i] # o[i]}
<1> SUFFICES ASSUME T # {} PROVE FALSE
  <2>1. T = {} => \A i \in 1..n : s[i] = o[i]
    OBVIOUS
  <2>2. s = [i \in 1..n |-> s[i]] /\ o = [i \in 1..n |-> o[i]]
    OBVIOUS
  <2>3. (\A i \in 1..n : s[i] = o[i]) => [i \in 1..n |-> s[i]] = [i \in 1..n |-> o[i]]
    OBVIOUS
  <2> HIDE DEF T
  <2> QED BY <2>1, <2>2, <2>3, Zenon
<1>1. T \in SUBSET Nat
  OBVIOUS
<1>2. PICK i \in T : \A j \in T : i <= j
  BY <1>1, LeastOf
<1>3. \A j \in 1..n : j < i => s[j] = o[j]
  BY <1>2
<1>4. PICK j \in 1..n : o[j] = s[i]
  OBVIOUS
<1>5. PICK k \in 1..n : s[k] = o[i]
  OBVIOUS
<1>6. s[i] # o[i] /\ i \in 1..n /\ i # j /\ i # k
  BY <1>4, <1>5
<1>7. /\ s[i].nonce \in Nat /\ s[j].nonce \in Nat /\ s[k].nonce \in Nat
      /\ o[i].nonce \in Nat /\ o[j].nonce \in Nat /\ o[k].nonce \in Nat
  BY <1>6
<1>8. j > i
  <2> SUFFICES ASSUME j < i PROVE FALSE
    BY <1>6
  <2>1. s[j] = s[i]
    BY <1>3, <1>4
  <2>2. s[j].nonce < s[i].nonce
    BY <1>6
  <2>3. s[i].nonce < s[j].nonce
    BY <2>1, <2>2, Zenon
  <2> QED BY <1>7, <2>2, <2>3, NotBoth, Zenon
<1>9. k > i
  <2> SUFFICES ASSUME k < i PROVE FALSE
    BY <1>6
  <2>1. o[k] = o[i]
    BY <1>3, <1>5
  <2>2. o[k].nonce < o[i].nonce
    BY <1>6
  <2>3. o[i].nonce < o[k].nonce
    BY <2>1, <2>2, Zenon
  <2> QED BY <1>7, <2>2, <2>3, NotBoth, Zenon
<1>10. o[i].nonce < o[j].nonce /\ s[i].nonce < s[k].nonce
  BY <1>6, <1>8, <1>9
<1>11. o[i].nonce < s[i].nonce /\ s[i].nonce < o[i].nonce
  BY <1>4, <1>5, <1>10
<1> QED BY <1>7, <1>11, NotBoth, Zenon

\* A rising enumeration of a finite set leaves nothing out.
LEMMA OntoBySize ==
    ASSUME NEW S, IsFiniteSet(S), NEW s \in [1..Cardinality(S) -> S],
           \A i, j \in 1..Cardinality(S) : s[i] = s[j] => i = j
    PROVE  \A t \in S : \E i \in 1..Cardinality(S) : s[i] = t
<1>1. Cardinality(S) \in Nat
  BY FS_CardinalityType
<1>2. s \in Injection(1..Cardinality(S), S)
  BY DEF Injection, IsInjective
<1>3. Cardinality(1..Cardinality(S)) = Cardinality(S)
  BY <1>1, FS_Interval
<1>4. s \in Surjection(1..Cardinality(S), S)
  BY <1>2, <1>3, FS_Injection
<1> QED BY <1>4 DEF Surjection

LEMMA SortedIsInOrder ==
    ASSUME NEW m, MapOK(m)
    PROVE  SortedByNonce(Items(m)) = InOrder(m)
<1> DEFINE n == Len(m.index)
           S == Items(m)
           o == InOrder(m)
           P(s) == \A i, j \in DOMAIN s : i < j => s[i].nonce < s[j].nonce
           s == SortedByNonce(S)
<1>1. n \in Nat /\ Cardinality(S) = n /\ IsFiniteSet(S) /\ o \in [1..n -> S]
  BY Enumerated, Sizes
<1>2. P(o)
  <2> SUFFICES ASSUME NEW i \in 1..n, NEW j \in 1..n, i < j PROVE o[i].nonce < o[j].nonce
    BY <1>1
  <2>1. o[i].nonce = m.index[i] /\ o[j].nonce = m.index[j]
    BY Enumerated, SMTT(20)
  <2> QED BY <2>1 DEF MapOK, Rising
<1>3. s \in [1..n -> S] /\ P(s)
  <2>1. s = CHOOSE q \in [1..Cardinality(S) -> S] : P(q)
    BY DEF SortedByNonce
  <2>2. \E q \in [1..Cardinality(S) -> S] : P(q)
    BY <1>1, <1>2
  <2> QED BY <1>1, <2>1, <2>2
<1>4. \A t \in S : t.nonce \in Nat
  BY Enumerated
<1>5. \A i, j \in 1..n : i < j => s[i].nonce < s[j].nonce
  BY <1>3
<1>6. \A i, j \in 1..n : i < j => o[i].nonce < o[j].nonce
  BY <1>1, <1>2
<1>7. \A i, j \in 1..n : s[i] = s[j] => i = j
  <2> SUFFICES ASSUME NEW i \in 1..n, NEW j \in 1..n, s[i] = s[j], i # j PROVE FALSE
    OBVIOUS
  <2>1. s[i].nonce \in Nat /\ s[i].nonce = s[j].nonce
    BY <1>3, <1>4
  <2>2. s[i].nonce < s[j].nonce \/ s[j].nonce < s[i].nonce
    BY <1>1, <1>5
  <2> QED BY <2>1, <2>2
<1>8. \A t \in S : \E i \in 1..n : s[i] = t
  BY <1>1, <1>3, <1>7, OntoBySize
<1>9. \A t \in S : \E i \in 1..n : o[i] = t
  BY Enumerated
<1>10. s \in [1..n -> S]
  BY <1>3
<1>11. OrderOf(s, n, S) /\ OrderOf(o, n, S)
  BY <1>1, <1>5, <1>6, <1>8, <1>9, <1>10 DEF OrderOf
<1> HIDE DEF n, S, o, s, P
<1>12. s = o
  BY <1>1, <1>4, <1>11, OneOrder, Zenon
<1> QED BY <1>12 DEF n, S, o, s

\* The least k of them are the first k: what sorts the nonces that a filter left.
LEMMA AscendingRises ==
    ASSUME NEW S \in SUBSET Nat, IsFiniteSet(S)
    PROVE  /\ Cardinality(S) \in Nat
           /\ Rising(Ascending(S), Cardinality(S))
           /\ S = {Ascending(S)[i] : i \in 1..Cardinality(S)}
<1> DEFINE c == Cardinality(S)
           P(q) == \A i, j \in DOMAIN q : i < j => q[i] < q[j]
           lower(x) == {y \in S : y < x}
           rank == [x \in S |-> Cardinality(lower(x)) + 1]
<1>1. c \in Nat
  BY FS_CardinalityType
<1>2. ASSUME NEW x \in S
      PROVE  IsFiniteSet(lower(x)) /\ Cardinality(lower(x)) \in Nat /\ Cardinality(lower(x)) < c
  <2>1. lower(x) \in SUBSET S /\ x \notin lower(x)
    OBVIOUS
  <2>2. lower(x) # S
    BY <2>1
  <2> QED BY <1>1, <2>1, <2>2, FS_Subset, FS_CardinalityType
<1>3. ASSUME NEW x \in S, NEW y \in S, x < y
      PROVE  Cardinality(lower(x)) < Cardinality(lower(y))
  <2>1. lower(x) \in SUBSET lower(y) /\ x \in lower(y) /\ x \notin lower(x)
    <3>1. x \in Nat /\ y \in Nat
      OBVIOUS
    <3>2. \A z \in S : z < x => z < y
      BY <1>3
    <3>3. lower(x) \subseteq lower(y)
      BY <3>2
    <3>4. x \in lower(y) /\ ~(x < x)
      BY <1>3, <3>1
    <3> QED BY <3>3, <3>4
  <2>2. lower(x) # lower(y)
    BY <2>1
  <2> QED BY <1>2, <2>1, <2>2, FS_Subset
<1>4. rank \in [S -> 1..c]
  BY <1>1, <1>2
<1>5. \A x, y \in S : x < y => rank[x] < rank[y]
  BY <1>2, <1>3
<1>6. rank \in Injection(S, 1..c)
  <2>1. \A x, y \in S : rank[x] = rank[y] => x = y
    <3> SUFFICES ASSUME NEW x \in S, NEW y \in S, rank[x] = rank[y], x # y PROVE FALSE
      OBVIOUS
    <3>1. x < y \/ y < x
      OBVIOUS
    <3>2. rank[x] \in Nat /\ rank[y] \in Nat
      BY <1>4
    <3> HIDE DEF rank
    <3> QED BY <1>5, <3>1, <3>2
  <2> QED BY <1>4, <2>1 DEF Injection, IsInjective
<1>7. rank \in Surjection(S, 1..c)
  BY <1>1, <1>6, FS_Interval, FS_Injection
<1> HIDE DEF rank
<1> DEFINE q == [i \in 1..c |-> CHOOSE x \in S : rank[x] = i]
<1>8. \A i \in 1..c : q[i] \in S /\ rank[q[i]] = i
  <2> SUFFICES ASSUME NEW i \in 1..c PROVE q[i] \in S /\ rank[q[i]] = i
    OBVIOUS
  <2>1. \E x \in S : rank[x] = i
    BY <1>7 DEF Surjection
  <2> QED BY <2>1
<1>9. q \in [1..c -> S]
  BY <1>8
<1>10. P(q)
  <2> SUFFICES ASSUME NEW i \in 1..c, NEW j \in 1..c, i < j PROVE q[i] < q[j]
    BY <1>9
  <2>1. /\ q[i] \in S /\ q[j] \in S /\ q[i] \in Nat /\ q[j] \in Nat
        /\ rank[q[i]] = i /\ rank[q[j]] = j
    BY <1>8
  <2> HIDE DEF q
  <2>2. q[i] # q[j]
    BY <2>1
  <2>3. ~(q[j] < q[i])
    BY <1>5, <2>1
  <2> QED BY <2>1, <2>2, <2>3
<1> DEFINE s == Ascending(S)
<1>11. s \in [1..c -> S] /\ P(s)
  <2>1. s = CHOOSE r \in [1..c -> S] : P(r)
    BY DEF Ascending
  <2> HIDE DEF q
  <2>2. \E r \in [1..c -> S] : P(r)
    BY <1>9, <1>10
  <2> QED BY <2>1, <2>2
<1> HIDE DEF s, q
<1>12. \A i, j \in 1..c : i < j => s[i] < s[j]
  BY <1>11
<1>13. \A i, j \in 1..c : s[i] = s[j] => i = j
  <2> SUFFICES ASSUME NEW i \in 1..c, NEW j \in 1..c, s[i] = s[j], i # j PROVE FALSE
    OBVIOUS
  <2>1. s[i] \in Nat /\ s[j] \in Nat
    BY <1>11
  <2>2. i < j \/ j < i
    BY <1>1
  <2> QED BY <1>12, <2>1, <2>2
<1>14. \A t \in S : \E i \in 1..c : s[i] = t
  BY <1>11, <1>13, OntoBySize
<1>15. S = {s[i] : i \in 1..c}
  BY <1>11, <1>14
<1> QED BY <1>1, <1>11, <1>12, <1>15 DEF Rising, s

LEMMA EmptyMap == MapOK(newTxSortedMap) /\ Items(newTxSortedMap) = {}
<1> DEFINE m == newTxSortedMap
<1>1. /\ m = [items |-> m.items, index |-> m.index, cache |-> m.cache]
      /\ m.items = [n \in {} |-> Nil] /\ m.index = <<>> /\ m.cache = Nil
  BY DEF newTxSortedMap
<1>2. DOMAIN m.items = {} /\ m.items \in [{} -> Tx]
  BY <1>1
<1>3. Len(m.index) = 0 /\ m.index \in Seq(Nat) /\ m.index \in [1..0 -> Nat]
  BY <1>1
<1>4. Rising(m.index, Len(m.index))
  BY <1>3 DEF Rising
<1>5. {m.index[i] : i \in 1..Len(m.index)} = {}
  BY <1>3
<1> QED BY <1>1, <1>2, <1>3, <1>4, <1>5 DEF MapOK, Items

LEMMA PushedRises ==
    ASSUME NEW s \in Seq(Nat), Rising(s, Len(s)), NEW x \in Nat,
           \A i \in 1..Len(s) : s[i] # x
    PROVE  /\ Pushed(s, x) \in Seq(Nat) /\ Len(Pushed(s, x)) = Len(s) + 1
           /\ Rising(Pushed(s, x), Len(s) + 1)
           /\ {Pushed(s, x)[i] : i \in 1..(Len(s) + 1)} = {s[i] : i \in 1..Len(s)} \cup {x}
<1> DEFINE n == Len(s)
           S == {i \in DOMAIN s : s[i] < x}
           k == Cardinality(S)
           p == Pushed(s, x)
<1>1. n \in Nat /\ DOMAIN s = 1..n /\ s \in [1..n -> Nat]
  OBVIOUS
<1>2. k \in 0..n /\ S = 1..k
  <2>1. S \in SUBSET (1..n)
    BY <1>1
  <2>2. ASSUME NEW i \in S, NEW j \in 1..i PROVE j \in S
    <3>1. i \in 1..n /\ j \in 1..n /\ s[i] < x /\ s[i] \in Nat /\ s[j] \in Nat
      BY <1>1
    <3>2. j < i => s[j] < s[i]
      BY <3>1 DEF Rising
    <3>3. s[j] < x
      BY <3>1, <3>2
    <3> QED BY <1>1, <3>1, <3>3
  <2> HIDE DEF S
  <2> QED BY <1>1, <2>1, <2>2, DownClosed
<1>3. \A i \in 1..n : i <= k <=> s[i] < x
  <2>1. \A i \in 1..n : i \in S <=> s[i] < x
    BY <1>1
  <2> HIDE DEF S, k
  <2> QED BY <1>1, <1>2, <2>1
<1>4. p = [i \in 1..(n + 1) |-> IF i <= k THEN s[i] ELSE IF i = k + 1 THEN x ELSE s[i - 1]]
  BY DEF Pushed
<1> HIDE DEF S, k, p
<1>5. /\ \A i \in 1..k : p[i] = s[i] /\ s[i] \in Nat /\ s[i] < x
      /\ p[k + 1] = x
      /\ \A i \in (k + 2)..(n + 1) : p[i] = s[i - 1] /\ s[i - 1] \in Nat /\ x < s[i - 1]
  <2>1. k \in Nat /\ k <= n
    BY <1>1, <1>2
  <2>2. \A i \in 1..k : i \in 1..n /\ p[i] = s[i] /\ s[i] \in Nat /\ s[i] < x
    BY <1>1, <1>3, <1>4, <2>1
  <2>3. p[k + 1] = x
    BY <1>1, <1>4, <2>1
  <2>4. ASSUME NEW i \in (k + 2)..(n + 1)
        PROVE  p[i] = s[i - 1] /\ s[i - 1] \in Nat /\ x < s[i - 1]
    <3>1. i \in 1..(n + 1) /\ i - 1 \in 1..n /\ ~(i <= k) /\ i # k + 1 /\ ~(i - 1 <= k)
      BY <1>1, <2>1
    <3>2. s[i - 1] \in Nat /\ ~(s[i - 1] < x) /\ s[i - 1] # x
      BY <1>1, <1>3, <3>1
    <3> QED BY <1>4, <3>1, <3>2
  <2> QED BY <2>2, <2>3, <2>4
<1>6. p \in [1..(n + 1) -> Nat]
  <2>1. \A i \in 1..(n + 1) : i \in 1..k \/ i = k + 1 \/ i \in (k + 2)..(n + 1)
    BY <1>1, <1>2
  <2>2. \A i \in 1..(n + 1) : p[i] \in Nat
    BY <1>5, <2>1
  <2> QED BY <1>4, <2>2
<1>7. ASSUME NEW i \in 1..(n + 1), NEW j \in 1..(n + 1), i < j PROVE p[i] < p[j]
  <2>1. n \in Nat /\ k \in Nat /\ k <= n
    BY <1>1, <1>2
  <2>2. CASE i <= k /\ j <= k
    BY <1>1, <1>5, <1>7, <2>1, <2>2 DEF Rising
  <2>3. CASE i <= k /\ j = k + 1
    BY <1>5, <2>1, <2>3, SMTT(20)
  <2>4. CASE i <= k /\ j > k + 1
    <3>1. i \in 1..k /\ j \in (k + 2)..(n + 1)
      BY <2>1, <2>4
    <3>2. p[i] < x /\ x < p[j] /\ p[i] \in Nat /\ p[j] \in Nat
      BY <1>5, <3>1
    <3> QED BY <3>2
  <2>5. CASE i = k + 1 /\ j > k + 1
    BY <1>5, <2>1, <2>5
  <2>6. CASE i > k + 1 /\ j > k + 1
    <3>1. i - 1 \in 1..n /\ j - 1 \in 1..n /\ i - 1 < j - 1
      BY <1>7, <2>1, <2>6
    <3>2. s[i - 1] < s[j - 1]
      BY <3>1 DEF Rising
    <3> QED BY <1>5, <2>1, <2>6, <3>2
  <2> QED BY <1>7, <2>1, <2>2, <2>3, <2>4, <2>5, <2>6
<1>8. p \in Seq(Nat) /\ Len(p) = n + 1
  BY <1>1, <1>6
<1>9. {p[i] : i \in 1..(n + 1)} = {s[i] : i \in 1..n} \cup {x}
  <2>1. n \in Nat /\ k \in Nat /\ k <= n
    BY <1>1, <1>2
  <2>2. ASSUME NEW i \in 1..(n + 1) PROVE p[i] \in {s[l] : l \in 1..n} \cup {x}
    <3>1. CASE i <= k
      BY <1>5, <2>1, <3>1, SMTT(20)
    <3>2. CASE i = k + 1
      BY <1>5, <3>2
    <3>3. CASE i > k + 1
      <4>1. i - 1 \in 1..n /\ p[i] = s[i - 1]
        BY <1>5, <2>1, <3>3
      <4> QED BY <4>1
    <3> QED BY <2>1, <3>1, <3>2, <3>3
  <2>3. ASSUME NEW l \in 1..n PROVE s[l] \in {p[i] : i \in 1..(n + 1)}
    <3>1. CASE l <= k
      <4>1. l \in 1..(n + 1) /\ p[l] = s[l]
        BY <1>5, <2>1, <3>1
      <4> QED BY <4>1
    <3>2. CASE l > k
      <4>1. l + 1 \in (k + 2)..(n + 1) /\ (l + 1) - 1 = l /\ l + 1 \in 1..(n + 1)
        BY <2>1, <3>2
      <4>2. p[l + 1] = s[l]
        BY <1>5, <4>1
      <4> QED BY <4>1, <4>2
    <3> QED BY <2>1, <3>1, <3>2
  <2>4. x \in {p[i] : i \in 1..(n + 1)}
    BY <1>5, <2>1
  <2> QED BY <2>2, <2>3, <2>4
<1>10. Rising(p, n + 1)
  BY <1>1, <1>6, <1>7 DEF Rising
<1> QED BY <1>8, <1>9, <1>10 DEF p

LEMMA PutKeeps ==
    ASSUME NEW m, MapOK(m), NEW tx \in Tx
    PROVE  /\ MapOK(MapPut(m, tx))
           /\ Items(MapPut(m, tx)) = (Items(m) \ {t \in Items(m) : t.nonce = tx.nonce}) \cup {tx}
<1> DEFINE q == MapPut(m, tx)
           D == DOMAIN m.items
           e == tx.nonce
<1>1. e \in Nat
  BY TxListAssumption
<1>2. /\ q = [items |-> q.items, index |-> q.index, cache |-> q.cache]
      /\ q.items = [n \in D \cup {e} |-> IF n = e THEN tx ELSE m.items[n]]
      /\ q.index = IF e \in D THEN m.index ELSE Pushed(m.index, e)
      /\ q.cache = Nil
  BY DEF MapPut
<1>3. D \subseteq Nat /\ m.items \in [D -> Tx] /\ (\A n \in D : m.items[n].nonce = n)
      /\ m.index \in Seq(Nat) /\ Rising(m.index, Len(m.index))
      /\ D = {m.index[i] : i \in 1..Len(m.index)}
  BY DEF MapOK
<1> HIDE DEF q
<1>4. /\ DOMAIN q.items = D \cup {e} /\ q.items \in [DOMAIN q.items -> Tx]
      /\ \A n \in DOMAIN q.items : q.items[n].nonce = n
      /\ \A n \in DOMAIN q.items : q.items[n] = IF n = e THEN tx ELSE m.items[n]
  BY <1>2, <1>3
<1>5. /\ q.index \in Seq(Nat) /\ Rising(q.index, Len(q.index))
      /\ D \cup {e} = {q.index[i] : i \in 1..Len(q.index)}
  <2>1. CASE e \in D
    BY <1>2, <1>3, <2>1
  <2>2. CASE e \notin D
    <3>1. \A i \in 1..Len(m.index) : m.index[i] # e
      BY <1>3, <2>2
    <3>2. q.index = Pushed(m.index, e)
      BY <1>2, <2>2
    <3> DEFINE p == Pushed(m.index, e)
    <3>3. /\ p \in Seq(Nat) /\ Len(p) = Len(m.index) + 1
          /\ Rising(p, Len(m.index) + 1)
          /\ {p[i] : i \in 1..(Len(m.index) + 1)} = {m.index[i] : i \in 1..Len(m.index)} \cup {e}
      BY <1>1, <1>3, <3>1, PushedRises, Zenon
    <3> HIDE DEF p
    <3>4. q.index = p
      BY <3>2 DEF p
    <3>5. Rising(p, Len(p)) /\ D \cup {e} = {p[i] : i \in 1..Len(p)}
      BY <1>3, <3>3
    <3> QED BY <3>3, <3>4, <3>5
  <2> QED BY <2>1, <2>2
<1>6. MapOK(q)
  BY <1>1, <1>2, <1>3, <1>4, <1>5 DEF MapOK
<1>7. Items(q) = (Items(m) \ {t \in Items(m) : t.nonce = e}) \cup {tx}
  <2>1. ASSUME NEW t \in Items(q) PROVE t = tx \/ (t \in Items(m) /\ t.nonce # e)
    <3>1. PICK n \in D \cup {e} : t = q.items[n]
      BY <1>4 DEF Items
    <3>2. CASE n = e
      BY <1>4, <3>1, <3>2
    <3>3. CASE n # e
      BY <1>3, <1>4, <3>1, <3>3 DEF Items
    <3> QED BY <3>2, <3>3
  <2>2. tx \in Items(q)
    BY <1>4 DEF Items
  <2>3. ASSUME NEW t \in Items(m), t.nonce # e PROVE t \in Items(q)
    <3>1. PICK n \in D : t = m.items[n]
      BY DEF Items
    <3>2. n # e /\ n \in DOMAIN q.items
      BY <1>3, <1>4, <2>3, <3>1
    <3>3. t = q.items[n]
      BY <1>4, <3>1, <3>2
    <3> QED BY <3>2, <3>3 DEF Items
  <2> QED BY <2>1, <2>2, <2>3
<1> QED BY <1>6, <1>7 DEF q

LEMMA TailOf ==
    ASSUME NEW S, NEW s \in Seq(S), NEW k \in 0..Len(s)
    PROVE  /\ SubSeq(s, k + 1, Len(s)) \in Seq(S)
           /\ Len(SubSeq(s, k + 1, Len(s))) = Len(s) - k
           /\ \A i \in 1..(Len(s) - k) : SubSeq(s, k + 1, Len(s))[i] = s[i + k]
<1>1. Len(s) \in Nat /\ k \in Nat /\ k <= Len(s) /\ k + 1 \in Int /\ Len(s) \in Int
  OBVIOUS
<1>2. \A i \in (k + 1)..Len(s) : s[i] \in S
  BY <1>1
<1>3. \A i \in 1..(Len(s) - k) : (k + 1) + i - 1 = i + k
  BY <1>1
<1>4. /\ SubSeq(s, k + 1, Len(s)) \in Seq(S)
      /\ Len(SubSeq(s, k + 1, Len(s))) = IF k + 1 <= Len(s) THEN Len(s) - (k + 1) + 1 ELSE 0
      /\ \A i \in 1..(Len(s) - (k + 1) + 1) : SubSeq(s, k + 1, Len(s))[i] = s[(k + 1) + i - 1]
  BY <1>1, <1>2, SubSeqProperties
<1>5. Len(s) - (k + 1) + 1 = Len(s) - k /\ (k + 1 <= Len(s) \/ Len(s) - k = 0)
  BY <1>1
<1> QED BY <1>3, <1>4, <1>5

LEMMA HeadOf ==
    ASSUME NEW S, NEW s \in Seq(S), NEW k \in 0..Len(s)
    PROVE  /\ SubSeq(s, 1, k) \in Seq(S)
           /\ Len(SubSeq(s, 1, k)) = k
           /\ \A i \in 1..k : SubSeq(s, 1, k)[i] = s[i]
<1>1. Len(s) \in Nat /\ k \in Nat /\ k <= Len(s) /\ k \in Int /\ 1 \in Int
  OBVIOUS
<1>2. \A i \in 1..k : s[i] \in S /\ 1 + i - 1 = i
  BY <1>1
<1>3. /\ SubSeq(s, 1, k) \in Seq(S)
      /\ Len(SubSeq(s, 1, k)) = IF 1 <= k THEN k - 1 + 1 ELSE 0
      /\ \A i \in 1..(k - 1 + 1) : SubSeq(s, 1, k)[i] = s[1 + i - 1]
  BY <1>1, <1>2, SubSeqProperties
<1>4. k - 1 + 1 = k
  BY <1>1
<1> QED BY <1>1, <1>2, <1>3, <1>4

\* What Forward, Ready and Cap take out at one end is taken out of the map, the
\* heap and the cache.
LEMMA PopKeeps ==
    ASSUME NEW m, MapOK(m), NEW k \in 0..Len(m.index), NEW c,
           c = Nil \/ c = SubSeq(InOrder(m), k + 1, Len(m.index))
    PROVE  /\ MapOK(PopFirst(m, k, c))
           /\ Items(PopFirst(m, k, c)) = Items(m) \ Popped(m, k)
<1> DEFINE q == PopFirst(m, k, c)
           n == Len(m.index)
           D == DOMAIN m.items
           E == {m.index[i] : i \in 1..k}
           o == InOrder(m)
<1>1. /\ q = [items |-> q.items, index |-> q.index, cache |-> q.cache]
      /\ q.items = [x \in D \ E |-> m.items[x]]
      /\ q.index = SubSeq(m.index, k + 1, n)
      /\ q.cache = c
  BY DEF PopFirst, Delete
<1>2. D \subseteq Nat /\ m.items \in [D -> Tx] /\ (\A x \in D : m.items[x].nonce = x)
      /\ m.index \in Seq(Nat) /\ Rising(m.index, n)
      /\ D = {m.index[i] : i \in 1..n}
  BY DEF MapOK
<1>3. n \in Nat /\ o \in Seq(Items(m)) /\ Len(o) = n /\ k \in Nat /\ k <= n
  BY Enumerated
<1>4. m.index \in Seq(Nat)
  BY <1>2
<1>5. /\ q.index \in Seq(Nat) /\ Len(q.index) = n - k
      /\ \A i \in 1..(n - k) : q.index[i] = m.index[i + k]
  <2>1. /\ SubSeq(m.index, k + 1, n) \in Seq(Nat) /\ Len(SubSeq(m.index, k + 1, n)) = n - k
        /\ \A i \in 1..(n - k) : SubSeq(m.index, k + 1, n)[i] = m.index[i + k]
    BY <1>4, TailOf
  <2> QED BY <1>1, <2>1
<1>6. /\ SubSeq(o, k + 1, n) \in Seq(Items(m)) /\ Len(SubSeq(o, k + 1, n)) = n - k
      /\ \A i \in 1..(n - k) : SubSeq(o, k + 1, n)[i] = o[i + k]
  BY <1>3, TailOf
<1> HIDE DEF q, o
<1>7. Rising(q.index, Len(q.index))
  <2>1. q.index \in [1..(n - k) -> Nat] /\ n - k \in Nat
    BY <1>3, <1>5
  <2>2. ASSUME NEW i \in 1..(n - k), NEW j \in 1..(n - k), i < j PROVE q.index[i] < q.index[j]
    <3>1. i + k \in 1..n /\ j + k \in 1..n /\ i + k < j + k
      BY <1>3, <2>2
    <3>2. m.index[i + k] < m.index[j + k]
      BY <1>2, <3>1 DEF Rising
    <3> QED BY <1>5, <3>2
  <2> QED BY <1>5, <2>1, <2>2 DEF Rising
<1>8. D \ E = {q.index[i] : i \in 1..(n - k)}
  <2>1. ASSUME NEW x \in D \ E PROVE x \in {q.index[i] : i \in 1..(n - k)}
    <3>1. PICK i \in 1..n : x = m.index[i]
      BY <1>2
    <3>2. i - k \in 1..(n - k) /\ (i - k) + k = i
      BY <1>3, <3>1
    <3>3. x = q.index[i - k]
      BY <1>5, <3>1, <3>2
    <3> QED BY <3>2, <3>3
  <2>2. ASSUME NEW i \in 1..(n - k) PROVE q.index[i] \in D \ E
    <3>1. i + k \in 1..n /\ q.index[i] = m.index[i + k]
      BY <1>3, <1>5
    <3>2. ASSUME NEW j \in 1..k PROVE m.index[j] # m.index[i + k]
      <4>1. j \in 1..n /\ j < i + k
        BY <1>3
      <4>2. m.index[j] < m.index[i + k] /\ m.index[j] \in Nat /\ m.index[i + k] \in Nat
        BY <1>2, <3>1, <4>1 DEF Rising
      <4> QED BY <4>2
    <3> QED BY <1>2, <3>1, <3>2
  <2> QED BY <2>1, <2>2
<1>9. /\ DOMAIN q.items = D \ E
      /\ q.items \in [D \ E -> Tx]
      /\ \A x \in D \ E : q.items[x] = m.items[x] /\ q.items[x].nonce = x
  BY <1>1, <1>2
<1>10. q.cache = Nil \/ q.cache = InOrder(q)
  <2> SUFFICES ASSUME c = SubSeq(o, k + 1, n) PROVE c = InOrder(q)
    BY <1>1 DEF o
  <2>1. InOrder(q) = [i \in 1..(n - k) |-> q.items[q.index[i]]]
    BY <1>5 DEF InOrder
  <2>2. c = [i \in 1..(n - k) |-> c[i]]
    BY <1>6, SMTT(20)
  <2>3. ASSUME NEW i \in 1..(n - k) PROVE c[i] = q.items[q.index[i]]
    <3>1. i + k \in 1..n /\ q.index[i] = m.index[i + k] /\ q.index[i] \in D \ E
      <4>1. i + k \in 1..n
        BY <1>3
      <4>2. q.index[i] = m.index[i + k]
        BY <1>5
      <4> HIDE DEF D, E
      <4> QED BY <1>8, <4>1, <4>2
    <3>2. o[i + k] = m.items[m.index[i + k]]
      BY <3>1 DEF o, InOrder
    <3> QED BY <1>6, <1>9, <3>1, <3>2
  <2> QED BY <2>1, <2>2, <2>3
<1>11. MapOK(q)
  BY <1>1, <1>2, <1>5, <1>7, <1>8, <1>9, <1>10 DEF MapOK
<1>12. Items(q) = Items(m) \ Popped(m, k)
  <2>1. Popped(m, k) = {m.items[x] : x \in E}
    BY DEF Popped
  <2>2. E \subseteq D
    BY <1>2, <1>3
  <2>3. Items(q) = {m.items[x] : x \in D \ E}
    BY <1>9 DEF Items
  <2>4. \A x, y \in D : m.items[x] = m.items[y] => x = y
    BY <1>2
  <2>5. Items(m) = {m.items[x] : x \in D}
    BY DEF Items
  <2> HIDE DEF D, E
  <2>6. ASSUME NEW t \in {m.items[x] : x \in D \ E} PROVE t \in Items(m) /\ t \notin {m.items[x] : x \in E}
    BY <2>2, <2>4, <2>5
  <2> QED BY <2>1, <2>2, <2>3, <2>4, <2>5, <2>6
<1> QED BY <1>11, <1>12 DEF q

\* The first k are those that P is true of.
LEMMA PoppedAre ==
    ASSUME NEW m, MapOK(m), NEW k \in 0..Len(m.index), NEW S \in SUBSET Items(m),
           \A i \in 1..Len(m.index) : i <= k <=> InOrder(m)[i] \in S
    PROVE  Popped(m, k) = S
<1>1. Len(m.index) \in Nat /\ k \in Nat /\ k <= Len(m.index)
  BY Enumerated
<1>2. Popped(m, k) = {InOrder(m)[i] : i \in 1..k}
  <2>1. \A i \in 1..k : i \in 1..Len(m.index)
    BY <1>1
  <2>2. \A i \in 1..k : InOrder(m)[i] = m.items[m.index[i]]
    BY <2>1, Enumerated
  <2> QED BY <2>2 DEF Popped
<1>3. ASSUME NEW t \in S PROVE t \in {InOrder(m)[i] : i \in 1..k}
  <2>1. PICK i \in 1..Len(m.index) : t = InOrder(m)[i]
    BY Enumerated
  <2> QED BY <1>1, <2>1
<1>4. ASSUME NEW i \in 1..k PROVE InOrder(m)[i] \in S
  BY <1>1
<1> QED BY <1>2, <1>3, <1>4

LEMMA ForwardKeeps ==
    ASSUME NEW m, MapOK(m), NEW threshold \in Nat
    PROVE  /\ MapOK(MapForward(m, threshold))
           /\ Popped(m, ForwardCount(m, threshold)) = {t \in Items(m) : t.nonce < threshold}
           /\ Items(MapForward(m, threshold)) = Items(m) \ {t \in Items(m) : t.nonce < threshold}
<1> DEFINE n == Len(m.index)
           S == {i \in DOMAIN m.index : m.index[i] < threshold}
           k == Cardinality(S)
           c == IF m.cache = Nil THEN Nil ELSE SubSeq(m.cache, k + 1, Len(m.cache))
           B == {t \in Items(m) : t.nonce < threshold}
<1>1. n \in Nat /\ DOMAIN m.index = 1..n /\ Rising(m.index, n)
  BY DEF MapOK
<1>2. k \in 0..n /\ S = 1..k
  <2>1. S \in SUBSET (1..n)
    BY <1>1
  <2>2. ASSUME NEW i \in S, NEW j \in 1..i PROVE j \in S
    <3>1. i \in 1..n /\ j \in 1..n /\ m.index[i] < threshold
          /\ m.index[i] \in Nat /\ m.index[j] \in Nat
      BY <1>1 DEF Rising
    <3>2. j < i => m.index[j] < m.index[i]
      BY <1>1, <3>1 DEF Rising
    <3>3. m.index[j] < threshold
      BY <3>1, <3>2
    <3> QED BY <1>1, <3>1, <3>3
  <2> HIDE DEF S
  <2> QED BY <1>1, <2>1, <2>2, DownClosed
<1>3. \A i \in 1..n : i <= k <=> m.index[i] < threshold
  <2>1. \A i \in 1..n : i \in S <=> m.index[i] < threshold
    BY <1>1
  <2> HIDE DEF S, k
  <2> QED BY <1>1, <1>2, <2>1
<1>4. ForwardCount(m, threshold) = k /\ MapForward(m, threshold) = PopFirst(m, k, c)
  BY DEF ForwardCount, MapForward
<1> HIDE DEF S, k
<1>5. \A i \in 1..n : i <= k <=> InOrder(m)[i] \in B
  <2> SUFFICES ASSUME NEW i \in 1..n PROVE i <= k <=> InOrder(m)[i] \in B
    OBVIOUS
  <2>1. InOrder(m)[i] \in Items(m) /\ InOrder(m)[i].nonce = m.index[i]
    BY Enumerated
  <2> QED BY <1>3, <2>1
<1>6. B \in SUBSET Items(m)
  OBVIOUS
<1> HIDE DEF B
<1>7. Popped(m, k) = B
  BY <1>2, <1>5, <1>6, PoppedAre
<1>8. c = Nil \/ c = SubSeq(InOrder(m), k + 1, n)
  <2>1. m.cache = Nil \/ m.cache = InOrder(m)
    BY DEF MapOK
  <2>2. Len(InOrder(m)) = n
    BY Enumerated
  <2> QED BY <2>1, <2>2
<1> HIDE DEF c
<1>9. MapOK(PopFirst(m, k, c)) /\ Items(PopFirst(m, k, c)) = Items(m) \ Popped(m, k)
  BY <1>2, <1>8, PopKeeps
<1> QED BY <1>4, <1>7, <1>9 DEF B

LEMMA FilterKeeps ==
    ASSUME NEW m, MapOK(m), NEW S
    PROVE  /\ MapOK(MapFilter(m, S))
           /\ Items(MapFilter(m, S)) = Items(m) \ S
<1> DEFINE q == MapFilter(m, S)
           D == DOMAIN m.items
           left == {n \in D : m.items[n] \notin S}
           c == Cardinality(left)
<1>1. D \subseteq Nat /\ m.items \in [D -> Tx] /\ (\A x \in D : m.items[x].nonce = x)
  BY DEF MapOK
<1>2. CASE left = D
  <2>1. q = m
    BY <1>2 DEF MapFilter
  <2>2. \A n \in D : m.items[n] \notin S
    BY <1>2
  <2>3. Items(m) = Items(m) \ S
    BY <2>2 DEF Items
  <2> QED BY <2>1, <2>3
<1>3. CASE left # D
  <2>1. /\ q = [items |-> q.items, index |-> q.index, cache |-> q.cache]
        /\ q.items = [x \in D \ (D \ left) |-> m.items[x]]
        /\ q.index = Ascending(left) /\ q.cache = Nil
    BY <1>3 DEF MapFilter, Delete
  <2>2. D \ (D \ left) = left /\ left \in SUBSET D /\ left \in SUBSET Nat
    BY <1>1
  <2>3. IsFiniteSet(left)
    <3> HIDE DEF left
    <3> QED BY <2>2, Sizes, FS_Subset
  <2> HIDE DEF q
  <2>4. /\ DOMAIN q.items = left /\ q.items \in [left -> Tx]
        /\ \A x \in left : q.items[x] = m.items[x] /\ q.items[x].nonce = x
    <3> HIDE DEF left
    <3> QED BY <1>1, <2>1, <2>2
  <2>5. /\ c \in Nat /\ Rising(q.index, c) /\ left = {q.index[i] : i \in 1..c}
    <3> HIDE DEF left
    <3> QED BY <2>1, <2>2, <2>3, AscendingRises
  <2>6. q.index \in Seq(Nat) /\ Len(q.index) = c
    <3> HIDE DEF c
    <3>1. q.index \in [1..c -> Nat] /\ c \in Nat
      BY <2>5 DEF Rising
    <3> QED BY <3>1
  <2>7. MapOK(q)
    <3> HIDE DEF left, c, D
    <3> QED BY <2>1, <2>2, <2>4, <2>5, <2>6 DEF MapOK
  <2>8. Items(q) = Items(m) \ S
    <3>1. Items(q) = {m.items[x] : x \in left}
      <4> HIDE DEF left
      <4> QED BY <2>4 DEF Items
    <3> QED BY <3>1 DEF Items
  <2> QED BY <2>7, <2>8 DEF q
<1> QED BY <1>2, <1>3

LEMMA CapKeeps ==
    ASSUME NEW m, MapOK(m), NEW threshold \in Nat
    PROVE  /\ MapOK(MapCap(m, threshold))
           /\ CapDrops(m, threshold)
                = {t \in Items(m) : Cardinality({u \in Items(m) : u.nonce < t.nonce}) >= threshold}
           /\ Items(MapCap(m, threshold)) = Items(m) \ CapDrops(m, threshold)
<1> DEFINE q == MapCap(m, threshold)
           n == Len(m.index)
           D == DOMAIN m.items
           o == InOrder(m)
           drops == CapDrops(m, threshold)
           rank(t) == Cardinality({u \in Items(m) : u.nonce < t.nonce})
           E == {t.nonce : t \in drops}
<1>1. /\ n \in Nat /\ Cardinality(D) = n
      /\ o \in [1..n -> Items(m)] /\ o \in Seq(Items(m)) /\ Len(o) = n
      /\ \A i \in 1..n : /\ m.index[i] \in D /\ m.index[i] \in Nat
                         /\ o[i] = m.items[m.index[i]] /\ o[i].nonce = m.index[i]
      /\ \A t \in Items(m) : \E i \in 1..n : t = o[i]
      /\ \A i, j \in 1..n : o[i] = o[j] => i = j
  BY Enumerated, Sizes
<1>2. D \subseteq Nat /\ m.items \in [D -> Tx] /\ (\A x \in D : m.items[x].nonce = x)
      /\ m.index \in Seq(Nat) /\ Rising(m.index, n)
      /\ D = {m.index[i] : i \in 1..n}
  BY DEF MapOK
<1>3. drops = {o[i] : i \in (threshold + 1)..n}
  <2>1. \A i \in (threshold + 1)..n : o[i] = m.items[m.index[i]]
    BY <1>1
  <2> QED BY <1>1, <2>1, SMTT(20) DEF CapDrops
<1>4. drops = {t \in Items(m) : rank(t) >= threshold}
  <2>1. \A i \in 1..n : rank(o[i]) = i - 1
    BY Ranks
  <2> HIDE DEF rank, o, drops
  <2>2. ASSUME NEW t \in drops PROVE t \in Items(m) /\ rank(t) >= threshold
    <3>1. PICK i \in (threshold + 1)..n : t = o[i]
      BY <1>3
    <3>2. i \in 1..n /\ i - 1 >= threshold
      BY <1>1, <3>1
    <3> QED BY <1>1, <2>1, <3>1, <3>2
  <2>3. ASSUME NEW t \in Items(m), rank(t) >= threshold PROVE t \in drops
    <3>1. PICK i \in 1..n : t = o[i]
      BY <1>1
    <3>2. i - 1 >= threshold
      BY <2>1, <2>3, <3>1
    <3>3. i \in (threshold + 1)..n
      BY <1>1, <3>2
    <3> QED BY <1>3, <3>1, <3>3
  <2> QED BY <2>2, <2>3
<1>5. MapOK(q) /\ Items(q) = Items(m) \ drops
  <2>1. CASE n <= threshold
    <3>1. q = m
      BY <1>1, <2>1 DEF MapCap
    <3>2. (threshold + 1)..n = {}
      BY <1>1, <2>1
    <3>3. drops = {}
      BY <1>3, <3>2
    <3> QED BY <3>1, <3>3
  <2>2. CASE ~(n <= threshold)
    <3> DEFINE k == threshold
    <3>1. k \in 0..n /\ k < n /\ k \in Nat
      BY <1>1, <2>2
    <3>2. /\ q = [items |-> q.items, index |-> q.index, cache |-> q.cache]
          /\ q.items = [x \in D \ E |-> m.items[x]]
          /\ q.index = SubSeq(m.index, 1, k)
          /\ q.cache = IF m.cache = Nil THEN Nil
                       ELSE SubSeq(m.cache, 1, Len(m.cache) - Cardinality(drops))
      BY <1>1, <2>2 DEF MapCap, Delete
    <3>3. Cardinality(drops) = n - k
      <4> DEFINE f == [i \in (k + 1)..n |-> o[i]]
      <4>1. \A i \in (k + 1)..n : i \in 1..n /\ o[i] \in drops
        <5>1. \A i \in (k + 1)..n : i \in 1..n
          BY <3>1
        <5>2. \A i \in (k + 1)..n : o[i] \in drops
          <6> HIDE DEF drops, o
          <6> QED BY <1>3
        <5> QED BY <5>1, <5>2
      <4> HIDE DEF drops, o
      <4>2. f \in [(k + 1)..n -> drops]
        BY <4>1
      <4>3. \A i, j \in (k + 1)..n : f[i] = f[j] => i = j
        BY <1>1, <4>1
      <4>4. \A t \in drops : \E i \in (k + 1)..n : f[i] = t
        BY <1>3
      <4> HIDE DEF f
      <4>5. f \in Bijection((k + 1)..n, drops)
        BY <4>2, <4>3, <4>4 DEF Bijection, Injection, Surjection, IsInjective
      <4>6. IsFiniteSet((k + 1)..n) /\ Cardinality((k + 1)..n) = n - k
        <5>1. k + 1 \in Int /\ n \in Int /\ ~(k + 1 > n) /\ n - (k + 1) + 1 = n - k
          BY <3>1
        <5> QED BY <5>1, FS_Interval
      <4> QED BY <4>5, <4>6, FS_Bijection DEF ExistsBijection
    <3>4. E = {m.index[i] : i \in (k + 1)..n}
      <4>1. \A i \in (k + 1)..n : o[i].nonce = m.index[i]
        BY <1>1, <3>1
      <4> HIDE DEF drops, o
      <4> QED BY <1>3, <4>1
    <3>5. /\ q.index \in Seq(Nat) /\ Len(q.index) = k
          /\ \A i \in 1..k : q.index[i] = m.index[i]
      <4>1. m.index \in Seq(Nat)
        BY <1>2
      <4> QED BY <3>1, <3>2, <4>1, HeadOf
    <3>6. /\ SubSeq(o, 1, k) \in Seq(Items(m)) /\ Len(SubSeq(o, 1, k)) = k
          /\ \A i \in 1..k : SubSeq(o, 1, k)[i] = o[i]
      BY <1>1, <3>1, HeadOf
    <3> HIDE DEF q, o, drops, E
    <3>7. D \ E = {m.index[i] : i \in 1..k}
      <4>1. ASSUME NEW x \in D \ E PROVE x \in {m.index[i] : i \in 1..k}
        <5>1. PICK i \in 1..n : x = m.index[i]
          BY <1>2
        <5>2. i \in 1..k
          BY <3>1, <3>4, <5>1
        <5> QED BY <5>1, <5>2
      <4>2. ASSUME NEW i \in 1..k PROVE m.index[i] \in D \ E
        <5>1. i \in 1..n
          BY <3>1
        <5>2. ASSUME NEW j \in (k + 1)..n PROVE m.index[j] # m.index[i]
          <6>1. j \in 1..n /\ i < j
            BY <3>1
          <6>2. m.index[i] < m.index[j] /\ m.index[i] \in Nat /\ m.index[j] \in Nat
            BY <1>2, <5>1, <6>1 DEF Rising
          <6> QED BY <6>2
        <5> QED BY <1>1, <3>4, <5>1, <5>2
      <4> QED BY <4>1, <4>2
    <3>8. /\ DOMAIN q.items = D \ E /\ q.items \in [D \ E -> Tx]
          /\ \A x \in D \ E : q.items[x] = m.items[x] /\ q.items[x].nonce = x
      BY <1>2, <3>2
    <3>9. Rising(q.index, k)
      <4>1. q.index \in [1..k -> Nat]
        BY <3>1, <3>5
      <4>2. ASSUME NEW i \in 1..k, NEW j \in 1..k, i < j PROVE q.index[i] < q.index[j]
        <5>1. i \in 1..n /\ j \in 1..n
          BY <3>1
        <5>2. m.index[i] < m.index[j]
          BY <1>2, <4>2, <5>1 DEF Rising
        <5> QED BY <3>5, <5>2
      <4> QED BY <3>1, <4>1, <4>2 DEF Rising
    <3>10. D \ E = {q.index[i] : i \in 1..k}
      BY <3>5, <3>7
    <3>11. q.cache = Nil \/ q.cache = InOrder(q)
      <4> SUFFICES ASSUME m.cache = o, m.cache # Nil PROVE q.cache = InOrder(q)
        <5>1. m.cache = Nil \/ m.cache = o
          BY DEF MapOK, o
        <5> QED BY <3>2, <5>1
      <4>1. q.cache = SubSeq(o, 1, k)
        <5>1. Len(o) - Cardinality(drops) = k
          BY <1>1, <3>1, <3>3
        <5> QED BY <3>2, <5>1
      <4>2. InOrder(q) = [i \in 1..k |-> q.items[q.index[i]]]
        BY <3>5 DEF InOrder
      <4>3. q.cache = [i \in 1..k |-> q.cache[i]]
        BY <3>6, <4>1
      <4>4. ASSUME NEW i \in 1..k PROVE q.cache[i] = q.items[q.index[i]]
        <5>1. i \in 1..n
          BY <3>1
        <5>2. q.index[i] = m.index[i] /\ q.index[i] \in D \ E
          BY <3>5, <3>10
        <5>3. o[i] = m.items[m.index[i]]
          BY <1>1, <5>1
        <5> QED BY <3>6, <3>8, <4>1, <5>2, <5>3
      <4> QED BY <4>2, <4>3, <4>4
    <3>12. MapOK(q)
      BY <1>2, <3>2, <3>5, <3>8, <3>9, <3>10, <3>11 DEF MapOK
    <3>13. Items(q) = Items(m) \ drops
      <4>1. Items(q) = {m.items[x] : x \in D \ E}
        BY <3>8 DEF Items
      <4>2. Items(m) = {m.items[x] : x \in D}
        BY DEF Items
      <4>3. drops \subseteq Items(m)
        BY <1>4
      <4>4. \A x \in D : x \in E <=> m.items[x] \in drops
        <5> SUFFICES ASSUME NEW x \in D PROVE x \in E <=> m.items[x] \in drops
          OBVIOUS
        <5>1. m.items[x] \in drops => x \in E
          BY <1>2 DEF E
        <5>2. ASSUME x \in E PROVE m.items[x] \in drops
          <6>1. PICK t \in drops : x = t.nonce
            BY <5>2 DEF E
          <6>2. m.items[t.nonce] = t
            BY <4>3, Enumerated
          <6> QED BY <6>1, <6>2
        <5> QED BY <5>1, <5>2
      <4> HIDE DEF D
      <4> QED BY <4>1, <4>2, <4>4
    <3> QED BY <3>12, <3>13
  <2> QED BY <2>1, <2>2
<1> QED BY <1>4, <1>5 DEF q, drops

LEMMA RemovedAt ==
    ASSUME NEW s \in Seq(Nat), Rising(s, Len(s)), NEW p \in 1..Len(s)
    PROVE  /\ SeqX!RemoveFirst(s, s[p]) \in Seq(Nat)
           /\ Len(SeqX!RemoveFirst(s, s[p])) = Len(s) - 1
           /\ \A i \in 1..(Len(s) - 1) :
                SeqX!RemoveFirst(s, s[p])[i] = IF i < p THEN s[i] ELSE s[i + 1]
<1> DEFINE n == Len(s)
           I == {i \in 1..Len(s) : s[i] = s[p]}
           a == SubSeq(s, 1, p - 1)
           b == SubSeq(s, p + 1, Len(s))
<1>1. n \in Nat /\ p \in 1..n /\ \A i \in 1..n : s[i] \in Nat
  OBVIOUS
<1>2. I = {p}
  <2>1. ASSUME NEW i \in 1..n, s[i] = s[p] PROVE i = p
    <3>1. i < p => s[i] < s[p]
      BY DEF Rising
    <3>2. p < i => s[p] < s[i]
      BY DEF Rising
    <3> QED BY <1>1, <2>1, <3>1, <3>2
  <2> QED BY <2>1
<1>3. SeqX!Min(I) = p
  <2>1. \A x \in {p} : (\A y \in {p} : x <= y) /\ x = p
    BY <1>1
  <2> HIDE DEF I
  <2> QED BY <1>2, <2>1 DEF SeqX!Min
<1>4. SeqX!SelectInSeq(s, LAMBDA v : v = s[p]) = p
  <2>1. I # {}
    BY <1>2
  <2> QED BY <1>3, <2>1 DEF SeqX!SelectInSeq
<1>5. SeqX!RemoveFirst(s, s[p]) = a \o b
  <2>1. \E i \in 1..Len(s) : s[i] = s[p]
    OBVIOUS
  <2> QED BY <1>4, <2>1 DEF SeqX!RemoveFirst, SeqX!RemoveAt
<1>6. a \in Seq(Nat) /\ Len(a) = p - 1 /\ \A i \in 1..(p - 1) : a[i] = s[i]
  <2>1. p - 1 \in 0..Len(s)
    BY <1>1
  <2> QED BY <2>1, HeadOf
<1>7. b \in Seq(Nat) /\ Len(b) = n - p /\ \A i \in 1..(n - p) : b[i] = s[i + p]
  <2>1. p \in 0..Len(s)
    BY <1>1
  <2> QED BY <2>1, TailOf
<1> HIDE DEF a, b
<1>8. a \o b \in Seq(Nat) /\ Len(a \o b) = n - 1
  <2>1. a \o b \in Seq(Nat) /\ Len(a \o b) = Len(a) + Len(b)
    <3>1. a \in Seq(Nat) /\ b \in Seq(Nat)
      BY <1>6, <1>7
    <3> QED BY <3>1, ConcatProperties
  <2>2. (p - 1) + (n - p) = n - 1
    BY <1>1
  <2> QED BY <1>6, <1>7, <2>1, <2>2
<1>9. ASSUME NEW i \in 1..(n - 1) PROVE (a \o b)[i] = IF i < p THEN s[i] ELSE s[i + 1]
  <2>1. (a \o b)[i] = IF i <= Len(a) THEN a[i] ELSE b[i - Len(a)]
    <3>1. a \in Seq(Nat) /\ b \in Seq(Nat)
      BY <1>6, <1>7
    <3>2. i \in 1..(Len(a) + Len(b))
      BY <1>1, <1>6, <1>7
    <3> QED BY <3>1, <3>2, ConcatProperties
  <2>2. CASE i < p
    <3>1. i \in 1..(p - 1) /\ i <= Len(a)
      BY <1>1, <1>6, <2>2
    <3> QED BY <1>6, <2>1, <2>2, <3>1
  <2>3. CASE ~(i < p)
    <3>1. ~(i <= Len(a)) /\ i - Len(a) \in 1..(n - p) /\ (i - Len(a)) + p = i + 1
      BY <1>1, <1>6, <2>3
    <3> QED BY <1>7, <2>1, <2>3, <3>1
  <2> QED BY <2>2, <2>3
<1> QED BY <1>5, <1>8, <1>9

LEMMA RemoveKeeps ==
    ASSUME NEW m, MapOK(m), NEW e \in Nat
    PROVE  /\ MapOK(MapRemove(m, e))
           /\ Items(MapRemove(m, e)) = Items(m) \ {t \in Items(m) : t.nonce = e}
           /\ e \in DOMAIN m.items <=> {t \in Items(m) : t.nonce = e} # {}
<1> DEFINE q == MapRemove(m, e)
           n == Len(m.index)
           D == DOMAIN m.items
           S == {t \in Items(m) : t.nonce = e}
<1>1. D \subseteq Nat /\ m.items \in [D -> Tx] /\ (\A x \in D : m.items[x].nonce = x)
      /\ m.index \in Seq(Nat) /\ Rising(m.index, n)
      /\ D = {m.index[i] : i \in 1..n}
  BY DEF MapOK
<1>2. e \in D <=> S # {}
  <2>1. ASSUME e \in D PROVE S # {}
    <3>1. m.items[e] \in Items(m) /\ m.items[e].nonce = e
      BY <1>1, <2>1 DEF Items
    <3> QED BY <3>1
  <2>2. ASSUME NEW t \in S PROVE e \in D
    BY Enumerated
  <2> QED BY <2>1, <2>2
<1>3. CASE e \notin D
  <2>1. q = m /\ S = {}
    BY <1>2, <1>3 DEF MapRemove
  <2> HIDE DEF S
  <2> QED BY <1>2, <2>1 DEF S
<1>4. CASE e \in D
  <2>1. /\ q = [items |-> q.items, index |-> q.index, cache |-> q.cache]
        /\ q.items = [x \in D \ {e} |-> m.items[x]]
        /\ q.index = SeqX!RemoveFirst(m.index, e) /\ q.cache = Nil
    BY <1>4 DEF MapRemove, Delete
  <2>2. PICK p \in 1..n : e = m.index[p]
    BY <1>1, <1>4
  <2>3. m.index \in Seq(Nat) /\ Rising(m.index, n) /\ n \in Nat
    BY <1>1
  <2>4. /\ q.index \in Seq(Nat) /\ Len(q.index) = n - 1
        /\ \A i \in 1..(n - 1) : q.index[i] = IF i < p THEN m.index[i] ELSE m.index[i + 1]
    <3>1. q.index = SeqX!RemoveFirst(m.index, m.index[p])
      BY <2>1, <2>2
    <3> HIDE DEF q
    <3> QED BY <2>3, <3>1, RemovedAt
  <2> HIDE DEF q
  <2>5. Rising(q.index, Len(q.index))
    <3>1. q.index \in [1..(n - 1) -> Nat] /\ n - 1 \in Nat
      <4>1. n - 1 \in Nat
        BY <2>2, <2>3
      <4>2. q.index \in Seq(Nat) /\ Len(q.index) = n - 1
        BY <2>4
      <4> HIDE DEF n
      <4> QED BY <4>1, <4>2
    <3>2. ASSUME NEW i \in 1..(n - 1), NEW j \in 1..(n - 1), i < j PROVE q.index[i] < q.index[j]
      <4> DEFINE at(l) == IF l < p THEN l ELSE l + 1
      <4>1. at(i) \in 1..n /\ at(j) \in 1..n /\ at(i) < at(j)
        BY <2>2, <2>3, <3>2
      <4>2. m.index[at(i)] < m.index[at(j)]
        BY <2>3, <4>1 DEF Rising
      <4>3. q.index[i] = m.index[at(i)] /\ q.index[j] = m.index[at(j)]
        BY <2>4
      <4> QED BY <4>2, <4>3
    <3> QED BY <2>4, <3>1, <3>2 DEF Rising
  <2>6. D \ {e} = {q.index[i] : i \in 1..(n - 1)}
    <3>1. ASSUME NEW x \in D \ {e} PROVE x \in {q.index[i] : i \in 1..(n - 1)}
      <4>1. PICK i \in 1..n : x = m.index[i]
        BY <1>1
      <4>2. i # p
        BY <2>2, <4>1
      <4>3. CASE i < p
        <5>1. i \in 1..(n - 1)
          BY <2>2, <2>3, <4>3
        <5>2. q.index[i] = x
          BY <2>4, <4>1, <4>3, <5>1
        <5> QED BY <5>1, <5>2
      <4>4. CASE i > p
        <5>1. i - 1 \in 1..(n - 1) /\ ~(i - 1 < p) /\ (i - 1) + 1 = i
          BY <2>2, <2>3, <4>1, <4>4
        <5>2. q.index[i - 1] = x
          BY <2>4, <4>1, <5>1
        <5> QED BY <5>1, <5>2
      <4> QED BY <4>2, <4>3, <4>4
    <3>2. ASSUME NEW i \in 1..(n - 1) PROVE q.index[i] \in D \ {e}
      <4>1. CASE i < p
        <5>1. i \in 1..n
          BY <2>2, <2>3
        <5>2. q.index[i] = m.index[i]
          BY <2>4, <4>1
        <5>3. m.index[i] < e
          BY <2>2, <2>3, <4>1, <5>1 DEF Rising
        <5>4. m.index[i] \in D /\ m.index[i] \in Nat
          BY <1>1, <5>1
        <5> QED BY <5>2, <5>3, <5>4
      <4>2. CASE ~(i < p)
        <5>1. i + 1 \in 1..n /\ p < i + 1
          BY <2>2, <2>3, <4>2
        <5>2. q.index[i] = m.index[i + 1] /\ e < m.index[i + 1]
          BY <2>2, <2>3, <2>4, <4>2, <5>1 DEF Rising
        <5>3. m.index[i + 1] \in D /\ m.index[i + 1] \in Nat
          BY <1>1, <5>1
        <5> QED BY <5>2, <5>3
      <4> QED BY <4>1, <4>2
    <3> QED BY <3>1, <3>2
  <2>7. /\ DOMAIN q.items = D \ {e} /\ q.items \in [D \ {e} -> Tx]
        /\ \A x \in D \ {e} : q.items[x] = m.items[x] /\ q.items[x].nonce = x
    BY <1>1, <2>1
  <2>8. D \ {e} \subseteq Nat
    BY <1>1
  <2>9. MapOK(q)
    <3> HIDE DEF D
    <3> QED BY <2>1, <2>4, <2>5, <2>6, <2>7, <2>8 DEF MapOK
  <2>10. Items(q) = Items(m) \ S
    <3>1. Items(q) = {m.items[x] : x \in D \ {e}}
      BY <2>7 DEF Items
    <3>2. Items(m) = {m.items[x] : x \in D}
      BY DEF Items
    <3>3. \A x \in D : m.items[x] \in S <=> x = e
      BY <1>1, <3>2
    <3> HIDE DEF D, S
    <3> QED BY <3>1, <3>2, <3>3
  <2> QED BY <1>2, <2>9, <2>10 DEF q
<1> QED BY <1>3, <1>4

LEMMA ReadyKeeps ==
    ASSUME NEW m, MapOK(m), NEW start \in Nat,
           NEW l, l.txs = Items(m)
    PROVE  /\ MapOK(MapReady(m, start))
           /\ Popped(m, ReadyCount(m, start)) = Readies(l, start)
           /\ Items(MapReady(m, start)) = Items(m) \ Readies(l, start)
<1> DEFINE n == Len(m.index)
           o == InOrder(m)
           N == {t.nonce : t \in Items(m)}
           R == {t \in Items(m) :
                  /\ \E u \in Items(m) : u.nonce <= start
                  /\ \A u \in Items(m) : \A x \in u.nonce..t.nonce : x \in N}
           k == ReadyCount(m, start)
<1>1. /\ n \in Nat
      /\ \A i \in 1..n : /\ m.index[i] \in Nat /\ o[i] \in Items(m) /\ o[i].nonce = m.index[i]
      /\ \A t \in Items(m) : \E i \in 1..n : t = o[i]
  BY Enumerated
<1>2. Rising(m.index, n) /\ m.index \in Seq(Nat)
  BY DEF MapOK
<1>3. Readies(l, start) = R
  BY DEF Readies, Nonces
<1> HIDE DEF o
<1>4. /\ \A i \in 1..n : m.index[i] \in N
      /\ \A x \in N : \E i \in 1..n : x = m.index[i]
  BY <1>1
<1>5. CASE n = 0 \/ m.index[1] > start
  <2>1. m.index = <<>> \/ m.index[1] > start
    BY <1>2, <1>5
  <2>2. k = 0
    BY <2>1 DEF ReadyCount
  <2>3. MapReady(m, start) = m
    BY <2>2 DEF MapReady
  <2>4. Popped(m, k) = {}
    BY <2>2 DEF Popped
  <2>5. ASSUME NEW u \in Items(m), u.nonce <= start PROVE FALSE
    <3>1. PICK i \in 1..n : u = o[i]
      BY <1>1
    <3>2. 1 \in 1..n /\ m.index[1] > start /\ u.nonce = m.index[i]
      BY <1>1, <1>5, <3>1
    <3>3. m.index[1] = m.index[i] \/ m.index[1] < m.index[i]
      BY <1>2, <3>1, <3>2 DEF Rising
    <3>4. m.index[1] \in Nat /\ m.index[i] \in Nat
      BY <1>1, <3>2
    <3>5. m.index[i] <= start
      BY <2>5, <3>2
    <3> QED BY <3>2, <3>3, <3>4, <3>5
  <2>6. R = {}
    BY <2>5
  <2> QED BY <1>3, <2>2, <2>3, <2>4, <2>6
<1>6. CASE ~(n = 0 \/ m.index[1] > start)
  <2> DEFINE first == m.index[1]
             S == {i \in DOMAIN m.index : m.index[i] = m.index[1] + i - 1}
  <2>1. 1 \in 1..n /\ first \in Nat /\ first <= start
    BY <1>1, <1>6
  <2>2. k = Cardinality(S)
    <3>1. m.index # <<>>
      BY <1>6
    <3> QED BY <1>6, <3>1 DEF ReadyCount
  <2>3. S \in SUBSET (1..n) /\ \A i \in 1..n : i \in S <=> m.index[i] = first + i - 1
    BY <1>2
  <2> HIDE DEF S, k
  <2>4. ASSUME NEW i \in S, NEW j \in 1..i PROVE j \in S
    <3>1. i \in 1..n /\ j \in 1..n /\ i \in j..n /\ j \in 1..n
      BY <2>3, <1>1
    <3>2. m.index[1] + (j - 1) <= m.index[j]
      BY <1>2, <2>1, <3>1, Distances
    <3>3. m.index[j] + (i - j) <= m.index[i]
      BY <1>2, <3>1, Distances
    <3>4. m.index[i] = first + i - 1 /\ m.index[j] \in Nat
      BY <1>1, <2>3, <3>1
    <3>5. m.index[j] = first + j - 1
      <4> DEFINE b == m.index[j]
                 c == m.index[i]
      <4>1. first \in Nat /\ b \in Nat /\ i \in Nat /\ j \in Nat
        BY <1>1, <2>1, <3>1, <3>4
      <4>2. first + (j - 1) <= b /\ b + (i - j) <= c /\ c = first + i - 1
        BY <3>2, <3>3, <3>4
      <4> HIDE DEF first, b, c
      <4>3. b = first + j - 1
        BY <4>1, <4>2
      <4> QED BY <4>3 DEF b
    <3> QED BY <2>3, <3>1, <3>5
  <2>5. k \in 0..n /\ S = 1..k
    BY <1>1, <2>2, <2>3, <2>4, DownClosed
  <2>6. 1 \in S
    BY <2>1, <2>3
  <2>7. k # 0
    BY <2>5, <2>6
  <2>8. MapReady(m, start) = PopFirst(m, k, Nil)
    BY <2>7 DEF MapReady, k
  <2>9. ASSUME NEW i \in 1..k, NEW u \in Items(m), NEW x \in u.nonce..o[i].nonce PROVE x \in N
    <3>1. PICK j \in 1..n : u = o[j]
      BY <1>1
    <3>2. i \in S /\ i \in 1..n
      BY <2>3, <2>5
    <3>3. o[i].nonce = first + i - 1
      BY <1>1, <2>3, <3>2
    <3>4. u.nonce = m.index[j] /\ first <= m.index[j] /\ m.index[j] \in Nat
      BY <1>1, <1>2, <2>1, <3>1, SMTT(20) DEF Rising
    <3> DEFINE p == x - first + 1
    <3>5. p \in 1..i /\ x = first + p - 1
      <4>1. first \in Nat /\ i \in Nat /\ u.nonce \in Nat /\ first <= u.nonce
        BY <1>1, <2>1, <3>2, <3>4
      <4>2. x \in u.nonce..(first + i - 1)
        BY <3>3
      <4> HIDE DEF first
      <4> QED BY <4>1, <4>2
    <3>6. p \in S /\ p \in 1..n
      BY <2>4, <2>3, <3>2, <3>5
    <3>7. x = m.index[p]
      BY <2>3, <3>5, <3>6
    <3> QED BY <1>4, <3>6, <3>7
  <2>10. ASSUME NEW i \in 1..n, \A x \in first..m.index[i] : x \in N PROVE i \in S
    <3> DEFINE T == {j \in 1..i : m.index[j] # first + j - 1}
    <3> SUFFICES ASSUME T # {} PROVE FALSE
      <4>1. i \in 1..i
        OBVIOUS
      <4> QED BY <2>3, <4>1
    <3>1. T \in SUBSET Nat
      OBVIOUS
    <3>2. PICK j \in T : \A z \in T : j <= z
      BY <3>1, LeastOf
    <3>3. j \in 1..i /\ m.index[j] # first + j - 1 /\ j # 1 /\ j \in 1..n
      BY <1>1, <2>1
    <3>4. j - 1 \in 1..i /\ j - 1 \in 1..n /\ j - 1 \notin T
      BY <1>1, <3>2, <3>3
    <3>5. m.index[j - 1] = first + (j - 1) - 1
      BY <3>4
    <3>6. m.index[j - 1] < m.index[j] /\ m.index[j] \in Nat /\ m.index[i] \in Nat
          /\ (m.index[j] = m.index[i] \/ m.index[j] < m.index[i])
      <4>1. m.index[j] \in Nat /\ m.index[i] \in Nat
        BY <1>1, <3>3
      <4>2. j - 1 < j /\ (j = i \/ j < i)
        BY <3>3
      <4>3. m.index[j - 1] < m.index[j]
        BY <1>2, <3>3, <3>4, <4>2 DEF Rising
      <4>4. j < i => m.index[j] < m.index[i]
        BY <1>2, <3>3 DEF Rising
      <4> QED BY <4>1, <4>2, <4>3, <4>4
    <3> DEFINE x == first + j - 1
    <3>7. x \in first..m.index[i] /\ m.index[j - 1] < x /\ x < m.index[j] /\ x \in Nat
      <4> DEFINE a == m.index[j - 1]
                 b == m.index[j]
                 c == m.index[i]
      <4>1. first \in Nat /\ b \in Nat /\ c \in Nat /\ j \in Nat /\ j # 1 /\ j >= 1
        BY <2>1, <3>3, <3>6
      <4>2. a = first + (j - 1) - 1 /\ a < b /\ b # first + j - 1 /\ (b = c \/ b < c)
        BY <3>3, <3>5, <3>6
      <4> HIDE DEF first, a, b, c
      <4>3. x \in first..c /\ a < x /\ x < b /\ x \in Nat
        BY <4>1, <4>2
      <4> QED BY <4>3 DEF a, b, c
    <3>8. PICK p \in 1..n : x = m.index[p]
      BY <1>4, <2>10, <3>7
    <3>9. m.index[p] \in Nat /\ m.index[j - 1] \in Nat /\ m.index[j] \in Nat /\ p \in Nat /\ j \in Nat
      BY <1>1, <3>3, <3>4
    <3>10. ~(p < j - 1) /\ p # j - 1
      <4>1. p < j - 1 => m.index[p] < m.index[j - 1]
        BY <1>2, <3>4 DEF Rising
      <4>2. m.index[j - 1] < m.index[p]
        BY <3>7, <3>8
      <4>3. ~(m.index[p] < m.index[j - 1]) /\ m.index[p] # m.index[j - 1]
        BY <3>9, <4>2, Strict, Zenon
      <4> QED BY <4>1, <4>3
    <3>11. ~(j < p) /\ p # j
      <4>1. j < p => m.index[j] < m.index[p]
        BY <1>2, <3>3 DEF Rising
      <4>2. m.index[p] < m.index[j]
        BY <3>7, <3>8
      <4>3. ~(m.index[j] < m.index[p]) /\ m.index[p] # m.index[j]
        BY <3>9, <4>2, Strict, Zenon
      <4> QED BY <4>1, <4>3
    <3> QED BY <3>9, <3>10, <3>11
  <2>11. \A i \in 1..n : i <= k <=> o[i] \in R
    <3> SUFFICES ASSUME NEW i \in 1..n PROVE i <= k <=> o[i] \in R
      OBVIOUS
    <3>1. o[1] \in Items(m) /\ o[1].nonce = first /\ o[i] \in Items(m) /\ o[i].nonce = m.index[i]
      BY <1>1, <2>1
    <3>2. \E u \in Items(m) : u.nonce <= start
      BY <2>1, <3>1
    <3>3. ASSUME i <= k PROVE o[i] \in R
      <4>1. i \in 1..k
        BY <2>5, <3>3
      <4> QED BY <2>9, <3>1, <3>2, <4>1
    <3>4. ASSUME o[i] \in R PROVE i <= k
      <4>1. \A x \in first..m.index[i] : x \in N
        BY <3>1, <3>4
      <4>2. i \in S
        BY <2>10, <4>1
      <4> QED BY <2>5, <4>2
    <3> QED BY <3>3, <3>4
  <2>12. R \in SUBSET Items(m)
    OBVIOUS
  <2> HIDE DEF R
  <2>13. Popped(m, k) = R
    BY <2>5, <2>11, <2>12, PoppedAre DEF o
  <2>14. MapOK(PopFirst(m, k, Nil)) /\ Items(PopFirst(m, k, Nil)) = Items(m) \ Popped(m, k)
    BY <2>5, PopKeeps
  <2> QED BY <1>3, <2>8, <2>13, <2>14 DEF k
<1> QED BY <1>5, <1>6

LEMMA FlattenKeeps ==
    ASSUME NEW m, MapOK(m)
    PROVE  /\ MapOK(MapFlatten(m))
           /\ Items(MapFlatten(m)) = Items(m)
           /\ MapFlatten(m).cache = SortedByNonce(Items(m))
<1> DEFINE q == MapFlatten(m)
<1>1. SortedByNonce(Items(m)) = InOrder(m)
  BY SortedIsInOrder
<1>2. CASE m.cache # Nil
  BY <1>1, <1>2 DEF MapFlatten, MapOK
<1>3. CASE m.cache = Nil
  <2>1. m = [items |-> m.items, index |-> m.index, cache |-> m.cache]
    BY DEF MapOK
  <2>2. q = [m EXCEPT !.cache = InOrder(m)]
    BY <1>1, <1>3 DEF MapFlatten
  <2>3. q = [items |-> m.items, index |-> m.index, cache |-> InOrder(m)]
    BY <2>1, <2>2
  <2> HIDE DEF q
  <2>4. q.items = m.items /\ q.index = m.index /\ q.cache = InOrder(m)
    BY <2>3
  <2>5. InOrder(q) = InOrder(m) /\ Items(q) = Items(m)
    BY <2>4 DEF InOrder, Items
  <2>6. MapOK(q)
    BY <2>3, <2>4, <2>5 DEF MapOK
  <2> QED BY <1>1, <2>4, <2>5, <2>6 DEF q
<1> QED BY <1>2, <1>3

-----------------------------------------------------------------------------
(* The operators of TxListOps are the same for both.                       *)

LEMMA SameOps ==
    /\ \A l, tx : Abstract!Accepts(l, tx) = Accepts(l, tx)
    /\ \A l, tx : Abstract!Replaced(l, tx) = Replaced(l, tx)
    /\ \A l, tx : Abstract!Insert(l, tx) = Insert(l, tx)
    /\ \A l, S : Abstract!Without(l, S) = Without(l, S)
    /\ \A l, S : Abstract!After(l, S) = After(l, S)
    /\ \A l, c, g : Abstract!Drops(l, c, g) = Drops(l, c, g)
    /\ \A l, c, g : Abstract!Invalids(l, c, g) = Invalids(l, c, g)
    /\ \A l, c, g : Abstract!Filtered(l, c, g) = Filtered(l, c, g)
    /\ \A l, n : Abstract!Below(l, n) = Below(l, n)
    /\ \A l, n : Abstract!Beyond(l, n) = Beyond(l, n)
    /\ \A l, n : Abstract!Readies(l, n) = Readies(l, n)
    /\ \A S : Abstract!SortedByNonce(S) = SortedByNonce(S)
<1>1. \A l, tx : Abstract!Accepts(l, tx) = Accepts(l, tx)
  BY DEF Abstract!Accepts, Accepts
<1>2. \A l, tx : Abstract!Replaced(l, tx) = Replaced(l, tx)
  BY DEF Abstract!Replaced, Replaced
<1>3. \A l, tx : Abstract!Insert(l, tx) = Insert(l, tx)
  BY DEF Abstract!Insert, Insert, Abstract!Replaced, Replaced
<1>4. \A l, S : Abstract!Without(l, S) = Without(l, S)
  BY DEF Abstract!Without, Without
<1>5. \A l, S : Abstract!After(l, S) = After(l, S)
  BY DEF Abstract!After, After
<1>6. \A l, c, g : Abstract!Drops(l, c, g) = Drops(l, c, g)
  BY DEF Abstract!Drops, Drops, Abstract!InLimits, InLimits
<1>7. \A l, c, g : Abstract!Invalids(l, c, g) = Invalids(l, c, g)
  BY <1>5, <1>6 DEF Abstract!Invalids, Invalids
<1>8. \A l, c, g : Abstract!Filtered(l, c, g) = Filtered(l, c, g)
  BY <1>6, <1>7 DEF Abstract!Filtered, Filtered, Abstract!InLimits, InLimits
<1>9. \A l, n : Abstract!Below(l, n) = Below(l, n)
  BY DEF Abstract!Below, Below
<1>10. \A l, n : Abstract!Beyond(l, n) = Beyond(l, n)
  BY DEF Abstract!Beyond, Beyond, Abstract!Cardinality, Cardinality, Abstract!IsFiniteSet, IsFiniteSet
<1>11. \A l, n : Abstract!Readies(l, n) = Readies(l, n)
  BY DEF Abstract!Readies, Readies, Abstract!Nonces, Nonces
<1>12. \A S : Abstract!SortedByNonce(S) = SortedByNonce(S)
  <2> SUFFICES ASSUME NEW S PROVE Abstract!SortedByNonce(S) = SortedByNonce(S)
    OBVIOUS
  <2> DEFINE Sorted(n) == CHOOSE s \in [1..n -> S] : \A i, j \in DOMAIN s : i < j => s[i].nonce < s[j].nonce
  <2>1. SortedByNonce(S) = Sorted(Cardinality(S))
    BY DEF SortedByNonce
  <2>2. Abstract!SortedByNonce(S) = Sorted(Abstract!Cardinality(S))
    BY DEF Abstract!SortedByNonce
  <2>3. Abstract!Cardinality(S) = Cardinality(S)
    BY DEF Abstract!Cardinality, Cardinality
  <2> HIDE DEF Sorted
  <2> QED BY <2>1, <2>2, <2>3
<1> QED BY <1>1, <1>2, <1>3, <1>4, <1>5, <1>6, <1>7, <1>8, <1>9, <1>10, <1>11, <1>12

ListInv == MapOK(txs)

LEMMA Fields ==
    /\ list = [strict |-> strict, txs |-> Items(txs), costcap |-> costcap, gascap |-> gascap]
    /\ list.strict = strict /\ list.txs = Items(txs)
    /\ list.costcap = costcap /\ list.gascap = gascap
    /\ list' = [strict |-> strict', txs |-> Items(txs'), costcap |-> costcap', gascap |-> gascap']
<1>1. list = [strict |-> strict, txs |-> Items(txs), costcap |-> costcap, gascap |-> gascap]
  BY DEF list
<1>2. /\ list.strict = strict /\ list.txs = Items(txs)
      /\ list.costcap = costcap /\ list.gascap = gascap
  BY DEF list
<1>3. list' = [strict |-> strict', txs |-> Items(txs'), costcap |-> costcap', gascap |-> gascap']
  BY DEF list, Items
<1> QED BY <1>1, <1>2, <1>3

LEMMA WithoutIs ==
    ASSUME NEW S
    PROVE  Without(list, S) = [strict |-> strict, txs |-> Items(txs) \ S,
                               costcap |-> costcap, gascap |-> gascap]
BY DEF Without, list

LEMMA ListInitially == ListInit => ListInv /\ Abstract!Init
<1> SUFFICES ASSUME ListInit PROVE ListInv /\ Abstract!Init
  OBVIOUS
<1>1. ListInv /\ Items(txs) = {}
  BY EmptyMap DEF ListInit, ListInv
<1>2. list = Abstract!newTxList(strict) /\ strict \in BOOLEAN /\ ret = <<>>
  BY <1>1 DEF ListInit, list, Abstract!newTxList
<1> QED BY <1>1, <1>2 DEF Abstract!Init

\* Each call keeps the map in order, and is that of the specification.
LEMMA AddStep ==
    ASSUME ListInv, NEW tx \in Tx, Add(tx)
    PROVE  ListInv' /\ Abstract!Add(tx)
<1>1. CASE Accepts(list, tx)
  <2>1. /\ ret' = <<"add", tx, TRUE, Replaced(list, tx)>> /\ txs' = MapPut(txs, tx)
        /\ costcap' = (IF costcap < tx.cost THEN tx.cost ELSE costcap)
        /\ gascap' = (IF gascap < tx.gas THEN tx.gas ELSE gascap)
        /\ strict' = strict
    BY <1>1 DEF Add
  <2>2. MapOK(txs') /\ Items(txs') = (Items(txs) \ Replaced(list, tx)) \cup {tx}
    BY <2>1, PutKeeps, Fields DEF ListInv, Replaced
  <2>3. Insert(list, tx) = [strict |-> strict, txs |-> (Items(txs) \ Replaced(list, tx)) \cup {tx},
                            costcap |-> IF costcap < tx.cost THEN tx.cost ELSE costcap,
                            gascap |-> IF gascap < tx.gas THEN tx.gas ELSE gascap]
    <3> DEFINE R == Replaced(list, tx)
    <3>1. Insert(list, tx) = [list EXCEPT !.txs = (@ \ R) \cup {tx},
                                !.costcap = IF @ < tx.cost THEN tx.cost ELSE @,
                                !.gascap  = IF @ < tx.gas THEN tx.gas ELSE @]
      BY DEF Insert
    <3> HIDE DEF R
    <3>2. Insert(list, tx) = [strict |-> strict, txs |-> (Items(txs) \ R) \cup {tx},
                            costcap |-> IF costcap < tx.cost THEN tx.cost ELSE costcap,
                            gascap |-> IF gascap < tx.gas THEN tx.gas ELSE gascap]
      BY <3>1, Fields
    <3> QED BY <3>2 DEF R
  <2>4. list' = Insert(list, tx)
    BY <2>1, <2>2, <2>3, Fields
  <2> QED BY <1>1, <2>1, <2>2, <2>4, SameOps DEF ListInv, Abstract!Add
<1>2. CASE ~Accepts(list, tx)
  <2>1. /\ ret' = <<"add", tx, FALSE, {}>>
        /\ strict' = strict /\ txs' = txs /\ costcap' = costcap /\ gascap' = gascap
    BY <1>2 DEF Add
  <2>2. list' = list
    BY <2>1, Fields
  <2> QED BY <1>2, <2>1, <2>2, SameOps DEF ListInv, Abstract!Add
<1> QED BY <1>1, <1>2

LEMMA ForwardStep ==
    ASSUME ListInv, NEW n \in Limit, Forward(n)
    PROVE  ListInv' /\ Abstract!Take("forward", n, Abstract!Below(list, n))
<1>1. /\ ret' = <<"forward", n, Popped(txs, ForwardCount(txs, n))>>
      /\ txs' = MapForward(txs, n)
      /\ strict' = strict /\ costcap' = costcap /\ gascap' = gascap /\ n \in Nat
  BY TxListAssumption DEF Forward
<1>2. /\ MapOK(txs') /\ Popped(txs, ForwardCount(txs, n)) = Below(list, n)
      /\ Items(txs') = Items(txs) \ Below(list, n)
  BY <1>1, ForwardKeeps, Fields DEF ListInv, Below
<1>3. list' = Without(list, Below(list, n))
  BY <1>1, <1>2, Fields, WithoutIs
<1>4. ret' = <<"forward", n, Below(list, n)>>
  BY <1>1, <1>2
<1> QED BY <1>2, <1>3, <1>4, SameOps DEF ListInv, Abstract!Take

LEMMA CapStep ==
    ASSUME ListInv, NEW n \in Limit, Cap(n)
    PROVE  ListInv' /\ Abstract!Take("cap", n, Abstract!Beyond(list, n))
<1>1. /\ ret' = <<"cap", n, CapDrops(txs, n)>>
      /\ txs' = MapCap(txs, n)
      /\ strict' = strict /\ costcap' = costcap /\ gascap' = gascap /\ n \in Nat
  BY TxListAssumption DEF Cap
<1>2. /\ MapOK(txs') /\ CapDrops(txs, n) = Beyond(list, n)
      /\ Items(txs') = Items(txs) \ Beyond(list, n)
  BY <1>1, CapKeeps, Fields DEF ListInv, Beyond
<1>3. list' = Without(list, Beyond(list, n))
  BY <1>1, <1>2, Fields, WithoutIs
<1>4. ret' = <<"cap", n, Beyond(list, n)>>
  BY <1>1, <1>2
<1> QED BY <1>2, <1>3, <1>4, SameOps DEF ListInv, Abstract!Take

LEMMA ReadyStep ==
    ASSUME ListInv, NEW n \in Limit, Ready(n)
    PROVE  ListInv' /\ Abstract!Take("ready", n, Abstract!Readies(list, n))
<1>1. /\ ret' = <<"ready", n, Popped(txs, ReadyCount(txs, n))>>
      /\ txs' = MapReady(txs, n)
      /\ strict' = strict /\ costcap' = costcap /\ gascap' = gascap /\ n \in Nat
  BY TxListAssumption DEF Ready
<1>2. /\ MapOK(txs') /\ Popped(txs, ReadyCount(txs, n)) = Readies(list, n)
      /\ Items(txs') = Items(txs) \ Readies(list, n)
  BY <1>1, ReadyKeeps, Fields DEF ListInv
<1>3. list' = Without(list, Readies(list, n))
  BY <1>1, <1>2, Fields, WithoutIs
<1>4. ret' = <<"ready", n, Readies(list, n)>>
  BY <1>1, <1>2
<1> QED BY <1>2, <1>3, <1>4, SameOps DEF ListInv, Abstract!Take

LEMMA FlattenStep ==
    ASSUME ListInv, Flatten
    PROVE  ListInv' /\ Abstract!Flatten
<1>1. /\ txs' = MapFlatten(txs) /\ ret' = <<"sorted", MapFlatten(txs).cache>>
      /\ strict' = strict /\ costcap' = costcap /\ gascap' = gascap
  BY DEF Flatten
<1>2. /\ MapOK(txs') /\ Items(txs') = Items(txs)
      /\ MapFlatten(txs).cache = SortedByNonce(list.txs)
  BY <1>1, FlattenKeeps, Fields DEF ListInv
<1>3. list' = list
  BY <1>1, <1>2, Fields
<1> QED BY <1>1, <1>2, <1>3, SameOps DEF ListInv, Abstract!Flatten

LEMMA RemoveStep ==
    ASSUME ListInv, NEW tx \in Tx, RemoveTx(tx)
    PROVE  ListInv' /\ Abstract!Remove(tx)
<1> DEFINE m == MapRemove(txs, tx.nonce)
           later == {t \in Items(m) : strict /\ t.nonce > tx.nonce}
           removed == tx.nonce \in DOMAIN txs.items
           S == Replaced(list, tx)
<1>1. /\ ret' = (IF removed THEN <<"remove", tx, TRUE, later>> ELSE <<"remove", tx, FALSE, {}>>)
      /\ txs' = (IF removed THEN MapFilter(m, later) ELSE txs)
      /\ strict' = strict /\ costcap' = costcap /\ gascap' = gascap
      /\ tx.nonce \in Nat
  BY TxListAssumption DEF RemoveTx
<1>2. S = {t \in Items(txs) : t.nonce = tx.nonce}
  BY Fields DEF Replaced
<1>3. /\ MapOK(m) /\ Items(m) = Items(txs) \ S
      /\ removed <=> S # {}
  BY <1>1, <1>2, RemoveKeeps DEF ListInv
<1>4. After(list, S) = {t \in Items(txs) \ S : strict /\ \E s \in S : s.nonce < t.nonce}
  BY Fields DEF After
<1>5. \A s \in S : s.nonce = tx.nonce
  BY <1>2
<1>6. CASE removed
  <2>1. PICK s \in S : TRUE
    BY <1>3, <1>6
  <2>2. s.nonce = tx.nonce
    BY <1>5
  <2> HIDE DEF m, S
  <2>3. later = After(list, S)
    <3>1. \A t \in Items(m) : t.nonce > tx.nonce <=> \E z \in S : z.nonce < t.nonce
      <4> SUFFICES ASSUME NEW t \in Items(m) PROVE t.nonce > tx.nonce <=> \E z \in S : z.nonce < t.nonce
        OBVIOUS
      <4>1. t.nonce \in Nat
        BY <1>3, Enumerated
      <4>2. ASSUME t.nonce > tx.nonce PROVE s.nonce < t.nonce
        BY <1>1, <2>2, <4>1, <4>2
      <4>3. ASSUME NEW z \in S, z.nonce < t.nonce PROVE t.nonce > tx.nonce
        <5>1. tx.nonce < t.nonce
          BY <1>5, <4>3
        <5> QED BY <1>1, <4>1, <5>1
      <4> QED BY <4>2, <4>3
    <3> QED BY <1>3, <1>4, <3>1
  <2> HIDE DEF later
  <2>4. txs' = MapFilter(m, later)
    BY <1>1, <1>6
  <2>5. MapOK(txs') /\ Items(txs') = Items(m) \ later
    BY <1>3, <2>4, FilterKeeps
  <2>6. Items(txs') = Items(txs) \ (S \cup After(list, S))
    BY <1>3, <2>3, <2>5
  <2>7. list' = Without(list, S \cup After(list, S))
    BY <1>1, <2>6, Fields, WithoutIs
  <2>8. S # {} /\ ret' = <<"remove", tx, TRUE, After(list, S)>>
    BY <1>1, <1>6, <2>1, <2>3
  <2> QED BY <2>5, <2>7, <2>8, SameOps DEF ListInv, Abstract!Remove, S
<1>7. CASE ~removed
  <2>1. S = {} /\ txs' = txs /\ ret' = <<"remove", tx, FALSE, {}>>
    BY <1>1, <1>3, <1>7
  <2>2. After(list, S) = {}
    BY <1>4, <2>1
  <2> HIDE DEF S
  <2>3. list' = Without(list, S \cup After(list, S))
    <3>1. Items(txs') = Items(txs) \ (S \cup After(list, S))
      BY <2>1, <2>2
    <3> QED BY <1>1, <3>1, Fields, WithoutIs
  <2> QED BY <2>1, <2>3, SameOps DEF ListInv, Abstract!Remove, S
<1> QED BY <1>6, <1>7

LEMMA FilterStep ==
    ASSUME ListInv, NEW c \in Limit, NEW g \in Limit, Filter(c, g)
    PROVE  ListInv' /\ Abstract!Filter(c, g)
<1>1. InLimits(list, c, g) <=> (costcap <= c /\ gascap <= g)
  BY Fields DEF InLimits
<1>2. CASE InLimits(list, c, g)
  <2>1. /\ ret' = <<"filter", c, g, {}, {}>>
        /\ strict' = strict /\ txs' = txs /\ costcap' = costcap /\ gascap' = gascap
    BY <1>1, <1>2 DEF Filter
  <2>2. Drops(list, c, g) = {} /\ Filtered(list, c, g) = list
    BY <1>2 DEF Drops, Filtered
  <2>3. Invalids(list, c, g) = {}
    BY <2>2 DEF Invalids, After
  <2>4. list' = list
    BY <2>1, Fields
  <2> QED BY <2>1, <2>2, <2>3, <2>4, SameOps DEF ListInv, Abstract!Filter
<1>3. CASE ~InLimits(list, c, g)
  <2> DEFINE removed == {t \in Items(txs) : t.cost > c \/ t.gas > g}
             m == MapFilter(txs, removed)
             invalids == {t \in Items(m) : \E r \in removed : r.nonce < t.nonce}
             I == IF strict THEN invalids ELSE {}
  <2>1. /\ costcap' = c /\ gascap' = g /\ strict' = strict
        /\ ret' = <<"filter", c, g, removed, I>>
        /\ txs' = (IF strict THEN MapFilter(m, invalids) ELSE m)
    BY <1>1, <1>3 DEF Filter
  <2>2. Drops(list, c, g) = removed
    BY <1>3, Fields DEF Drops
  <2> HIDE DEF removed
  <2>3. MapOK(m) /\ Items(m) = Items(txs) \ removed
    BY FilterKeeps DEF ListInv
  <2>4. Invalids(list, c, g) = I
    <3>1. Invalids(list, c, g) = {t \in Items(m) : strict /\ \E r \in removed : r.nonce < t.nonce}
      BY <2>2, <2>3, Fields DEF Invalids, After
    <3> HIDE DEF m
    <3> QED BY <3>1
  <2> HIDE DEF m, invalids
  <2>5. MapOK(txs') /\ Items(txs') = Items(txs) \ (removed \cup I)
    <3>1. CASE strict
      <4>1. txs' = MapFilter(m, invalids) /\ I = invalids
        BY <2>1, <3>1
      <4>2. MapOK(txs') /\ Items(txs') = Items(m) \ invalids
        BY <2>3, <4>1, FilterKeeps
      <4> QED BY <2>3, <4>1, <4>2
    <3>2. CASE ~strict
      BY <2>1, <2>3, <3>2
    <3> QED BY <3>1, <3>2
  <2> HIDE DEF I
  <2>6. Filtered(list, c, g) = [strict |-> strict, txs |-> Items(txs) \ (removed \cup I),
                                costcap |-> c, gascap |-> g]
    <3>1. Filtered(list, c, g) = [list EXCEPT !.txs = @ \ (removed \cup I), !.costcap = c, !.gascap = g]
      BY <1>3, <2>2, <2>4 DEF Filtered
    <3> QED BY <3>1, Fields
  <2>7. list' = Filtered(list, c, g)
    BY <2>1, <2>5, <2>6, Fields
  <2> QED BY <2>1, <2>2, <2>4, <2>5, <2>7, SameOps DEF ListInv, Abstract!Filter
<1> QED BY <1>2, <1>3

LEMMA ListStep ==
    ListInv /\ [ListNext]_listVars => ListInv' /\ [Abstract!Next]_(Abstract!vars)
<1> SUFFICES ASSUME ListInv, [ListNext]_listVars
             PROVE  ListInv' /\ [Abstract!Next]_(Abstract!vars)
  OBVIOUS
<1>1. CASE UNCHANGED listVars
  <2>1. txs' = txs /\ strict' = strict /\ costcap' = costcap /\ gascap' = gascap /\ ret' = ret
    BY <1>1 DEF listVars
  <2>2. list' = list
    BY <2>1, Fields
  <2> QED BY <2>1, <2>2 DEF ListInv, Abstract!vars
<1>2. ASSUME NEW tx \in Tx, Add(tx) PROVE ListInv' /\ Abstract!Next
  BY <1>2, AddStep DEF Abstract!Next
<1>3. ASSUME NEW tx \in Tx, RemoveTx(tx) PROVE ListInv' /\ Abstract!Next
  BY <1>3, RemoveStep DEF Abstract!Next
<1>4. ASSUME NEW n \in Limit, Forward(n) PROVE ListInv' /\ Abstract!Next
  BY <1>4, ForwardStep DEF Abstract!Next
<1>5. ASSUME NEW n \in Limit, Cap(n) PROVE ListInv' /\ Abstract!Next
  BY <1>5, CapStep DEF Abstract!Next
<1>6. ASSUME NEW n \in Limit, Ready(n) PROVE ListInv' /\ Abstract!Next
  BY <1>6, ReadyStep DEF Abstract!Next
<1>7. ASSUME NEW c \in Limit, NEW g \in Limit, Filter(c, g) PROVE ListInv' /\ Abstract!Next
  BY <1>7, FilterStep DEF Abstract!Next
<1>8. CASE Flatten
  BY <1>8, FlattenStep DEF Abstract!Next
<1> QED BY <1>1, <1>2, <1>3, <1>4, <1>5, <1>6, <1>7, <1>8 DEF ListNext

\* ImplementsTxListSpec: whatever sequence of calls the pool makes ...
THEOREM ListImplementsSpec == ListInit /\ [][ListNext]_listVars => ImplementsTxListSpec
<1>1. ListInit => ListInv /\ Abstract!Init
  BY ListInitially
<1>2. ListInv /\ [ListNext]_listVars => ListInv' /\ [Abstract!Next]_(Abstract!vars)
  BY ListStep
<1> QED BY <1>1, <1>2, PTL DEF ImplementsTxListSpec, Abstract!Spec

-----------------------------------------------------------------------------
(* Filter does not look at the transactions when the high-water marks are  *)
(* within the limits: the marks have to cover every transaction.           *)

Covered == \A t \in Items(txs) : t.cost <= costcap /\ t.gas <= gascap

CapsInv == ListInv /\ costcap \in Nat /\ gascap \in Nat /\ Covered

\* After a call of Filter every transaction is within its limits.
FilterLeaves ==
    \A c, g \in Limit : Filter(c, g) => \A t \in Items(txs') : t.cost <= c /\ t.gas <= g

\* A list of which only something is taken keeps to its marks.
LEMMA FewerCovered ==
    ASSUME CapsInv, NEW S, list' = Without(list, S)
    PROVE  costcap' = costcap /\ gascap' = gascap /\ Covered'
<1>1. [strict |-> strict', txs |-> Items(txs'), costcap |-> costcap', gascap |-> gascap']
        = [strict |-> strict, txs |-> Items(txs) \ S, costcap |-> costcap, gascap |-> gascap]
  BY Fields, WithoutIs
<1>2. costcap' = costcap /\ gascap' = gascap /\ Items(txs') = Items(txs) \ S
  BY <1>1
<1> QED BY <1>2 DEF CapsInv, Covered, Items

LEMMA AddCovers ==
    ASSUME CapsInv, NEW tx \in Tx, Add(tx)
    PROVE  costcap' \in Nat /\ gascap' \in Nat /\ Covered'
<1>1. tx.cost \in Nat /\ tx.gas \in Nat /\ costcap \in Nat /\ gascap \in Nat /\ MapOK(txs)
  BY TxListAssumption DEF CapsInv, ListInv
<1>2. \A t \in Items(txs) : /\ t.cost \in Nat /\ t.gas \in Nat
                            /\ t.cost <= costcap /\ t.gas <= gascap
  BY <1>1, TxListAssumption, Enumerated DEF CapsInv, Covered
<1>3. CASE Accepts(list, tx)
  <2>1. /\ costcap' = (IF costcap < tx.cost THEN tx.cost ELSE costcap)
        /\ gascap' = (IF gascap < tx.gas THEN tx.gas ELSE gascap)
        /\ txs' = MapPut(txs, tx)
    BY <1>3 DEF Add
  <2>2. /\ costcap' \in Nat /\ costcap <= costcap' /\ tx.cost <= costcap'
        /\ gascap' \in Nat /\ gascap <= gascap' /\ tx.gas <= gascap'
    BY <1>1, <2>1
  <2>3. \A t \in Items(txs') : t \in Items(txs) \/ t = tx
    BY <1>1, <2>1, PutKeeps
  <2>4. ASSUME NEW t \in Items(txs') PROVE t.cost <= costcap' /\ t.gas <= gascap'
    <3>1. CASE t = tx
      BY <2>2, <3>1
    <3>2. CASE t \in Items(txs)
      <4>1. /\ t.cost \in Nat /\ t.gas \in Nat /\ t.cost <= costcap /\ t.gas <= gascap
        BY <1>2, <3>2
      <4> QED BY <1>1, <2>2, <4>1
    <3> QED BY <2>3, <3>1, <3>2
  <2> QED BY <2>2, <2>4 DEF Covered, Items
<1>4. CASE ~Accepts(list, tx)
  BY <1>1, <1>4 DEF Add, CapsInv, Covered, Items
<1> QED BY <1>3, <1>4

LEMMA FilterCovers ==
    ASSUME CapsInv, NEW c \in Limit, NEW g \in Limit, Filter(c, g)
    PROVE  /\ costcap' \in Nat /\ gascap' \in Nat /\ Covered'
           /\ \A t \in Items(txs') : t.cost <= c /\ t.gas <= g
<1>1. c \in Nat /\ g \in Nat /\ costcap \in Nat /\ gascap \in Nat /\ MapOK(txs) /\ ListInv
  BY TxListAssumption DEF CapsInv, ListInv
<1>2. \A t \in Items(txs) : /\ t.cost \in Nat /\ t.gas \in Nat
                            /\ t.cost <= costcap /\ t.gas <= gascap
  BY <1>1, TxListAssumption, Enumerated DEF CapsInv, Covered
<1>3. CASE costcap <= c /\ gascap <= g
  <2>1. txs' = txs /\ costcap' = costcap /\ gascap' = gascap
    BY <1>3 DEF Filter
  <2>2. \A t \in Items(txs) : t.cost <= c /\ t.gas <= g
    BY <1>1, <1>2, <1>3
  <2>3. Covered'
    BY <2>1 DEF CapsInv, Covered, Items
  <2>4. Items(txs') = Items(txs)
    BY <2>1
  <2> QED BY <1>1, <2>1, <2>2, <2>3, <2>4
<1>4. CASE ~(costcap <= c /\ gascap <= g)
  <2>1. costcap' = c /\ gascap' = g
    BY <1>4 DEF Filter
  <2>2. ~InLimits(list, c, g)
    BY <1>4, Fields DEF InLimits
  <2> DEFINE D == Drops(list, c, g)
             I == Invalids(list, c, g)
  <2>3. list' = [list EXCEPT !.txs = @ \ (D \cup I), !.costcap = c, !.gascap = g]
    <3>1. list' = Filtered(list, c, g)
      BY <1>1, FilterStep, SameOps DEF Abstract!Filter
    <3> QED BY <2>2, <3>1 DEF Filtered
  <2>4. D = {t \in Items(txs) : t.cost > c \/ t.gas > g}
    BY <2>2, Fields DEF Drops
  <2> HIDE DEF D, I
  <2>5. Items(txs') = Items(txs) \ (D \cup I)
    <3>1. list'.txs = Items(txs')
      BY Fields
    <3>2. [list EXCEPT !.txs = @ \ (D \cup I), !.costcap = c, !.gascap = g].txs = Items(txs) \ (D \cup I)
      BY Fields
    <3> QED BY <2>3, <3>1, <3>2
  <2>6. ASSUME NEW t \in Items(txs') PROVE t.cost <= c /\ t.gas <= g
    <3>1. t \in Items(txs) /\ t \notin D
      BY <2>5
    <3>2. t.cost \in Nat /\ t.gas \in Nat /\ ~(t.cost > c) /\ ~(t.gas > g)
      BY <1>2, <2>4, <3>1
    <3> QED BY <1>1, <3>2
  <2>7. Covered'
    BY <2>1, <2>6 DEF Covered, Items
  <2> QED BY <1>1, <2>1, <2>6, <2>7
<1> QED BY <1>3, <1>4

LEMMA CapsStep == CapsInv /\ [ListNext]_listVars => CapsInv' /\ [FilterLeaves]_listVars
<1> SUFFICES ASSUME CapsInv, [ListNext]_listVars
             PROVE  CapsInv' /\ [FilterLeaves]_listVars
  OBVIOUS
<1>1. ListInv /\ ListInv' /\ costcap \in Nat /\ gascap \in Nat
  BY ListStep DEF CapsInv
<1>2. FilterLeaves
  BY FilterCovers DEF FilterLeaves
<1>3. costcap' \in Nat /\ gascap' \in Nat /\ Covered'
  <2>1. CASE UNCHANGED listVars
    BY <1>1, <2>1 DEF CapsInv, Covered, Items, listVars
  <2>2. ASSUME NEW tx \in Tx, Add(tx) PROVE costcap' \in Nat /\ gascap' \in Nat /\ Covered'
    BY <2>2, AddCovers
  <2>3. ASSUME NEW tx \in Tx, RemoveTx(tx) PROVE costcap' \in Nat /\ gascap' \in Nat /\ Covered'
    <3>1. \E S : list' = Without(list, S)
      BY <1>1, <2>3, RemoveStep, SameOps DEF Abstract!Remove
    <3> QED BY <1>1, <3>1, FewerCovered
  <2>4. ASSUME NEW n \in Limit, Forward(n) PROVE costcap' \in Nat /\ gascap' \in Nat /\ Covered'
    <3>1. list' = Without(list, Below(list, n))
      BY <1>1, <2>4, ForwardStep, SameOps DEF Abstract!Take
    <3> QED BY <1>1, <3>1, FewerCovered
  <2>5. ASSUME NEW n \in Limit, Cap(n) PROVE costcap' \in Nat /\ gascap' \in Nat /\ Covered'
    <3>1. list' = Without(list, Beyond(list, n))
      BY <1>1, <2>5, CapStep, SameOps DEF Abstract!Take
    <3> QED BY <1>1, <3>1, FewerCovered
  <2>6. ASSUME NEW n \in Limit, Ready(n) PROVE costcap' \in Nat /\ gascap' \in Nat /\ Covered'
    <3>1. list' = Without(list, Readies(list, n))
      BY <1>1, <2>6, ReadyStep, SameOps DEF Abstract!Take
    <3> QED BY <1>1, <3>1, FewerCovered
  <2>7. ASSUME NEW c \in Limit, NEW g \in Limit, Filter(c, g)
        PROVE  costcap' \in Nat /\ gascap' \in Nat /\ Covered'
    BY <2>7, FilterCovers
  <2>8. CASE Flatten
    <3>1. MapOK(txs) /\ txs' = MapFlatten(txs) /\ costcap' = costcap /\ gascap' = gascap
      BY <1>1, <2>8 DEF Flatten, ListInv
    <3>2. Items(txs') = Items(txs)
      BY <3>1, FlattenKeeps
    <3>3. \A t \in Items(txs') : t.cost <= costcap' /\ t.gas <= gascap'
      BY <3>1, <3>2 DEF CapsInv, Covered
    <3> QED BY <1>1, <3>1, <3>3 DEF Covered, Items
  <2> QED BY <2>1, <2>2, <2>3, <2>4, <2>5, <2>6, <2>7, <2>8 DEF ListNext
<1> QED BY <1>1, <1>2, <1>3 DEF CapsInv

\* FilterLeaves: whatever was added and removed before, a list that Filter
\* returns from, at once or after a search, holds nothing the account cannot
\* pay for or the block has no gas for.
THEOREM FilterLeavesPayable == ListInit /\ [][ListNext]_listVars => [][FilterLeaves]_listVars
<1>1. ListInit => CapsInv
  <2> SUFFICES ASSUME ListInit PROVE CapsInv
    OBVIOUS
  <2>1. ListInv /\ Items(txs) = {} /\ costcap = 0 /\ gascap = 0
    BY ListInitially, EmptyMap DEF ListInit
  <2> QED BY <2>1 DEF CapsInv, Covered
<1> QED BY <1>1, CapsStep, PTL
=============================================================================
