--------------------------- MODULE FastSyncProofs --------------------------
(***************************************************************************)
(* Proofs about FastSync and the Freezer below it.                         *)
(*                                                                         *)
(* First the tables alone: they stay aligned through interleaved appends,  *)
(* cuts, failures and crashes, and start-up leaves them behind the fast    *)
(* block (AncientInv, TablesStayFit).  On top of that the two stores: the  *)
(* key-value store and the ancient store together never lose a block of    *)
(* the chain, and a database this code wrote opens again after any crash   *)
(* (TypeInv, which holds throughout, and BlockInv, which says where the    *)
(* blocks are; BlocksNeverLost).  Each action has a lemma of its own that  *)
(* it keeps each invariant.                                                *)
(*                                                                         *)
(* AncientInv and BlockInv are claimed of the time before a rewind goes    *)
(* below what the appending goroutine is at (raced); raced never turns     *)
(* FALSE again.                                                            *)
(***************************************************************************)
EXTENDS FastSync, SequenceTheorems, WellFoundedInduction, TLAPS

Block == Numbers \X (Versions \cup {None})

\* The goroutine that appends: the freezer, or InsertReceiptChain.
FreezeWriter ==
    [pc : {"loop", "append", "sync", "canonical", "side"}, kind : {"freeze"},
     first : Nat, done : Seq(Block), limit : Nat,
     blk : Block \cup {None}, k : 0..Len(Tables)]
FastWriter ==
    [pc : {"loop", "append", "undo", "undone", "head", "canonical", "side", "live", "liveHead"},
     kind : {"fast"}, prev : Numbers, last : Numbers, limit : Numbers,
     blocks : SUBSET Block, done : Seq(Block),
     blk : Block \cup {None}, k : 0..Len(Tables)]

Writers == {Idle} \cup FreezeWriter \cup FastWriter
Cuts == {Idle} \cup [pc : {"cut"}, items : Nat, left : SUBSET Names]
Rewinds == {Idle} \cup [pc : {"step"}, target : Nat, gone : SUBSET Block] \cup [pc : {"roll"}]

Typed ==
    /\ table \in [Names -> Seq(Block)] /\ frozen \in Nat
    /\ canon \in [Numbers -> Versions \cup {None}] /\ chain \in [Numbers -> Versions \cup {None}]
    /\ kvHeader \subseteq Block /\ kvBody \subseteq Block
    /\ hdr \in Numbers /\ fast \in Numbers /\ full \in Numbers /\ dbFull \in Numbers
    /\ st \in {"open", "closed", "refused"}
    /\ w \in Writers /\ trn \in Cuts /\ rew \in Rewinds
    /\ w.pc = "append" => w.blk \in Block /\ w.k \in 1..Len(Tables)
    /\ st # "open" => w = Idle /\ trn = Idle /\ rew = Idle

\* The database is never told of a head above the current block, and the
\* fast block is only taken from blocks that went to the tables.
HeadsOrdered ==
    /\ dbFull <= full
    /\ w.pc = "head" => Ancients # {}

\* An item is the block of its number, the same one in every table that
\* reaches it.
ItemsAgree ==
    \A t \in Names : \A n \in 1..Len(table[t]) :
        /\ table[t][n][1] = n - 1
        /\ \A u \in Names : n <= Len(table[u]) => table[t][n] = table[u][n]

\* How far each table is: all of them as frozen says; with one more block, in
\* the tables AppendAncient has filled; cut, in those TruncateAncients has cut.
Even == \A t \in Names : Len(table[t]) = frozen
HalfAppended ==
    \A i \in 1..Len(Tables) :
        /\ i < w.k => Len(table[Tables[i]]) = frozen + 1 /\ table[Tables[i]][frozen + 1] = w.blk
        /\ i >= w.k => Len(table[Tables[i]]) = frozen
HalfCut == \A t \in Names : Len(table[t]) = IF t \in trn.left THEN frozen ELSE trn.items

TablesAt ==
    st = "open" =>
        /\ trn = Idle /\ w.pc # "append" => Even
        /\ w.pc = "append" => trn = Idle /\ w.blk[1] = frozen /\ HalfAppended
        /\ trn # Idle => trn.items < frozen /\ HalfCut

\* While the tables are cut nothing can be appended: it is the appending
\* goroutine itself that cuts, or a rewind does, below which there is neither
\* a block to freeze nor one that fast sync writes.
CutAlone ==
    trn # Idle =>
        \/ w.pc = "undone"
        \/ /\ rew # Idle /\ hdr < trn.items /\ dbFull < trn.items
           /\ w # Idle => w.kind = "fast" /\ \A b \in w.blocks : b[1] < trn.items

AncientInv == Typed /\ HeadsOrdered /\ ItemsAgree /\ TablesAt /\ CutAlone

FreezerInv == ~raced => AncientInv

-----------------------------------------------------------------------------
(* Least and greatest numbers *)

Less == {ss \in Nat \X Nat : ss[1] < ss[2]}

LEMMA LeastNat ==
    ASSUME NEW S \in SUBSET Nat, S # {}
    PROVE  \E n \in S : \A m \in S : n <= m
  <1>1. IsWellFoundedOn(Less, Nat)
    BY NatLessThanWellFounded, Zenon DEF OpToRel, Less
  <1>2. PICK low \in S : \A n \in S : ~(<<n, low>> \in Less)
    BY <1>1, WFMin, Zenon
  <1>3. \A n \in S : low <= n
    <2> SUFFICES ASSUME NEW n \in S, n < low PROVE FALSE
      OBVIOUS
    <2>1. <<n, low>> \in Nat \X Nat /\ <<n, low>>[1] < <<n, low>>[2]
      OBVIOUS
    <2>2. <<n, low>> \in Less
      BY <2>1, Zenon DEF Less
    <2> QED BY <1>2, <2>2
  <1> QED BY <1>3

LEMMA MinOfNats ==
    ASSUME NEW S \in SUBSET Nat, S # {}
    PROVE  Min(S) \in S /\ \A m \in S : Min(S) <= m
  BY LeastNat, Zenon DEF Min

LEMMA MaxOfNats ==
    ASSUME NEW b \in Nat, NEW S \in SUBSET (0..b), S # {}
    PROVE  Max(S) \in S /\ \A m \in S : Max(S) >= m
  <1> DEFINE T == {b - n : n \in S}
  <1>1. PICK low \in T : \A m \in T : low <= m
    <2>1. T \in SUBSET Nat
      OBVIOUS
    <2>2. PICK x \in S : TRUE
      OBVIOUS
    <2>3. b - x \in T
      OBVIOUS
    <2> QED BY <2>1, <2>3, LeastNat, Zenon
  <1>2. PICK n \in S : low = b - n
    OBVIOUS
  <1>3. \A m \in S : n >= m
    <2> TAKE m \in S
    <2>1. b - n <= b - m
      BY <1>1, <1>2
    <2> QED BY <2>1
  <1> QED BY <1>3, Zenon DEF Max

LEMMA MinOfPair ==
    ASSUME NEW a \in Nat, NEW b \in Nat
    PROVE  Min({a, b}) = IF a <= b THEN a ELSE b
  <1>1. {a, b} \in SUBSET Nat /\ {a, b} # {}
    OBVIOUS
  <1>2. Min({a, b}) \in {a, b} /\ Min({a, b}) <= a /\ Min({a, b}) <= b
    BY <1>1, MinOfNats
  <1> QED BY <1>2

\* A cut keeps the first items.
LEMMA CutKeeps ==
    ASSUME NEW X, NEW q \in Seq(X), NEW n \in Nat
    PROVE  /\ Cut(q, n) \in Seq(X)
           /\ Len(Cut(q, n)) = IF n <= Len(q) THEN n ELSE Len(q)
           /\ \A i \in 1..Len(Cut(q, n)) : Cut(q, n)[i] = q[i]
           /\ Len(q) <= n => Cut(q, n) = q
  <1> DEFINE m == Min({n, Len(q)})
  <1>1. Len(q) \in Nat
    OBVIOUS
  <1>2. m \in Nat /\ m <= Len(q) /\ m = IF n <= Len(q) THEN n ELSE Len(q)
    BY <1>1, MinOfPair
  <1>3. Cut(q, n) = SubSeq(q, 1, m)
    BY DEF Cut
  <1> HIDE DEF m
  <1>4. /\ SubSeq(q, 1, m) \in Seq(X) /\ Len(SubSeq(q, 1, m)) = m
        /\ \A i \in 1..m : SubSeq(q, 1, m)[i] = q[i]
        /\ m = Len(q) => SubSeq(q, 1, m) = q
    BY <1>1, <1>2
  <1> QED BY <1>1, <1>2, <1>3, <1>4

\* The last number of a set of blocks.
LEMMA LastOfBlocks ==
    ASSUME NEW S \in SUBSET Block, S # {}
    PROVE  LastOf(S) \in Numbers
  <1> DEFINE T == {b[1] : b \in S}
  <1>1. T \in SUBSET (0..Height) /\ T # {} /\ Height \in Nat
    BY FreezerAssumption DEF Block, Numbers
  <1>2. Max(T) \in T
    BY <1>1, MaxOfNats
  <1> QED BY <1>1, <1>2 DEF LastOf, Numbers

-----------------------------------------------------------------------------
(* The appending goroutine *)

LEMMA TablesNamed ==
    /\ Len(Tables) \in Nat /\ 1 \in 1..Len(Tables)
    /\ \A i \in 1..Len(Tables) : Tables[i] \in Names
    /\ \A t \in Names : \E i \in 1..Len(Tables) : t = Tables[i]
    /\ \A i, j \in 1..Len(Tables) : Tables[i] = Tables[j] => i = j
    /\ "hashes" \in Names /\ "headers" \in Names /\ "bodies" \in Names
  <1>1. /\ Tables \in Seq(STRING) /\ IsInjective(Tables)
        /\ {"hashes", "headers", "bodies"} \subseteq Names
    BY FreezerAssumption DEF Names
  <1>2. Len(Tables) \in Nat /\ DOMAIN Tables = 1..Len(Tables)
    BY <1>1
  <1>3. \A i, j \in 1..Len(Tables) : Tables[i] = Tables[j] => i = j
    BY <1>1, <1>2 DEF IsInjective
  <1>4. /\ \A i \in 1..Len(Tables) : Tables[i] \in Names
        /\ \A t \in Names : \E i \in 1..Len(Tables) : t = Tables[i]
    BY <1>2 DEF Names, Range
  <1>5. "hashes" \in Names /\ "headers" \in Names /\ "bodies" \in Names
    BY <1>1
  <1>6. PICK i \in 1..Len(Tables) : "hashes" = Tables[i]
    BY <1>4, <1>5
  <1>7. 1 \in 1..Len(Tables)
    BY <1>2, <1>6
  <1> QED BY <1>2, <1>3, <1>4, <1>5, <1>7

\* A block is handed to AppendAncient, and what is known of it is dropped.
LEMMA HandOverTyped ==
    ASSUME NEW b \in Block, w \in FreezeWriter \cup FastWriter
    PROVE  /\ HandOver(b) \in Writers /\ HandOver(b).pc = "append"
           /\ HandOver(b).blk = b /\ HandOver(b).k = 1
           /\ HandOver(b).kind = w.kind
  <1>1. 1 \in 0..Len(Tables)
    BY TablesNamed
  <1>2. CASE w \in FreezeWriter
    BY <1>1, <1>2 DEF FreezeWriter, HandOver, Writers
  <1>3. CASE w \in FastWriter
    BY <1>1, <1>3 DEF FastWriter, HandOver, Writers
  <1> QED BY <1>2, <1>3

LEMMA TakeBackTyped ==
    ASSUME w.blk \in Block, w \in FreezeWriter \cup FastWriter
    PROVE  /\ Appended \in Writers /\ Appended.pc = "loop"
           /\ w.kind = "freeze" => AppendFailed \in Writers /\ AppendFailed.pc = "sync"
  <1>1. 0 \in 0..Len(Tables)
    BY TablesNamed
  <1>2. CASE w \in FreezeWriter
    <2>1. Append(w.done, w.blk) \in Seq(Block)
      BY <1>2 DEF FreezeWriter
    <2>2. TakeBack("loop") \in FreezeWriter /\ TakeBack("sync") \in FreezeWriter
      BY <1>1, <1>2 DEF FreezeWriter, TakeBack
    <2>3. TakeBack("loop").pc = "loop" /\ TakeBack("sync").pc = "sync" /\ TakeBack("loop").done = w.done
      BY <1>2 DEF FreezeWriter, TakeBack
    <2>4. Appended = [TakeBack("loop") EXCEPT !.done = Append(w.done, w.blk)]
      BY <2>3 DEF Appended
    <2> QED BY <2>1, <2>2, <2>3, <2>4 DEF FreezeWriter, AppendFailed, Writers
  <1>3. CASE w \in FastWriter
    <2>1. Append(w.done, w.blk) \in Seq(Block)
      BY <1>3 DEF FastWriter
    <2>2. TakeBack("loop") \in FastWriter /\ w.kind # "freeze"
      BY <1>1, <1>3 DEF FastWriter, TakeBack
    <2>3. TakeBack("loop").pc = "loop" /\ TakeBack("loop").done = w.done
      BY <1>3 DEF FastWriter, TakeBack
    <2>4. Appended = [TakeBack("loop") EXCEPT !.done = Append(w.done, w.blk)]
      BY <2>3 DEF Appended
    <2> QED BY <2>1, <2>2, <2>3, <2>4 DEF FastWriter, Writers
  <1> QED BY <1>2, <1>3
LEMMA WriterKinds ==
    ASSUME w \in Writers
    PROVE  /\ w.pc # "idle" => w \in FreezeWriter \cup FastWriter
           /\ w.pc = "idle" <=> w = Idle
           /\ w \in FreezeWriter => w.kind = "freeze"
           /\ w \in FastWriter => w.kind = "fast"
           /\ w.pc \in {"undo", "undone", "head", "live", "liveHead"} => w \in FastWriter
           /\ w # Idle /\ w.kind = "freeze" => w \in FreezeWriter
           /\ w # Idle /\ w.kind = "fast" => w \in FastWriter
  BY DEF Writers, FreezeWriter, FastWriter, Idle

LEMMA FreezeMoves ==
    ASSUME w \in FreezeWriter, NEW p \in {"loop", "append", "sync", "canonical", "side"}
    PROVE  [w EXCEPT !.pc = p] \in Writers /\ [w EXCEPT !.pc = p].pc = p
  BY DEF FreezeWriter, Writers

LEMMA FastMoves ==
    ASSUME w \in FastWriter,
           NEW p \in {"loop", "append", "undo", "undone", "head", "canonical", "side", "live", "liveHead"}
    PROVE  LET x == [w EXCEPT !.pc = p]
           IN  /\ x \in Writers /\ x.pc = p /\ x.kind = "fast" /\ x # Idle
               /\ x.blocks = w.blocks /\ x.limit = w.limit
  BY DEF FastWriter, Writers, Idle

-----------------------------------------------------------------------------
(* Steps that leave the tables alone *)

LEMMA Untouched ==
    ASSUME AncientInv, table' = table, frozen' = frozen, trn' = trn, st' = st,
           w' = w \/ (w.pc # "append" /\ w'.pc # "append")
    PROVE  ItemsAgree' /\ TablesAt'
  <1>0. ItemsAgree /\ TablesAt
    BY DEF AncientInv
  <1>1. ItemsAgree'
    BY <1>0 DEF ItemsAgree
  <1>2. (Even' <=> Even) /\ (HalfCut' <=> HalfCut)
    BY DEF Even, HalfCut
  <1>3. CASE w' = w
    <2>1. HalfAppended' <=> HalfAppended
      BY <1>3 DEF HalfAppended
    <2> QED BY <1>0, <1>1, <1>2, <1>3, <2>1 DEF TablesAt
  <1>4. CASE w.pc # "append" /\ w'.pc # "append"
    BY <1>0, <1>1, <1>2, <1>4 DEF TablesAt
  <1> QED BY <1>1, <1>3, <1>4

\* Nor do the heads or the database matter while nothing is cut.
LEMMA NotCut ==
    ASSUME trn' = Idle
    PROVE  CutAlone'
  BY DEF CutAlone

\* What AncientInv says of a cut that is under way.
LEMMA WhileCut ==
    ASSUME AncientInv, trn # Idle
    PROVE  /\ st = "open" /\ w.pc # "append"
           /\ w.pc = "undone" => w \in FastWriter
           /\ \/ w.pc = "undone"
              \/ /\ rew # Idle /\ hdr < trn.items /\ dbFull < trn.items
                 /\ w # Idle => w \in FastWriter /\ \A b \in w.blocks : b[1] < trn.items
           /\ trn.items < frozen /\ trn.items \in Nat
  <1>1. Typed /\ TablesAt /\ CutAlone
    BY DEF AncientInv
  <1>2. st = "open" /\ w \in Writers /\ trn \in Cuts
    BY <1>1 DEF Typed
  <1>3. w.pc # "append" /\ trn.items < frozen
    BY <1>1, <1>2 DEF TablesAt
  <1>4. trn.items \in Nat
    BY <1>2 DEF Cuts
  <1>5. w.pc = "undone" => w \in FastWriter
    BY <1>2, WriterKinds
  <1>6. w # Idle /\ w.kind = "fast" => w \in FastWriter
    BY <1>2, WriterKinds
  <1> QED BY <1>1, <1>2, <1>3, <1>4, <1>5, <1>6 DEF CutAlone

LEMMA ImportKeeps ==
    ASSUME AncientInv, Import
    PROVE  AncientInv'
  <1>1. Typed /\ HeadsOrdered
    BY DEF AncientInv
  <1>2. /\ st = "open" /\ rew = Idle /\ full < Height /\ (w # Idle => w.kind = "freeze")
        /\ table' = table /\ frozen' = frozen
        /\ st' = st /\ w' = w /\ trn' = trn /\ rew' = rew
    BY DEF Import, tables, control
  <1>3. PICK v \in Candidates(full + 1), side \in {{}, Versions} :
          LET stored == {<<full + 1, x>> : x \in side \cup {v}}
          IN  /\ kvHeader' = kvHeader \cup stored /\ kvBody' = kvBody \cup stored
              /\ canon' = [canon EXCEPT ![full + 1] = v] /\ chain' = [chain EXCEPT ![full + 1] = v]
              /\ full' = full + 1 /\ dbFull' = full + 1
              /\ \/ hdr' = full + 1 /\ fast' = full + 1
                 \/ hdr' = hdr /\ fast' = fast
    BY DEF Import
  <1>4. v \in Versions /\ side \subseteq Versions
    BY FreezerAssumption DEF Candidates
  <1>5. full + 1 \in Numbers
    BY <1>1, <1>2, FreezerAssumption DEF Typed, Numbers
  <1>6. Typed'
    <2>1. {<<full + 1, x>> : x \in side \cup {v}} \subseteq Block
      BY <1>4, <1>5 DEF Block
    <2>2. kvHeader' \subseteq Block /\ kvBody' \subseteq Block
      BY <1>1, <1>3, <2>1 DEF Typed
    <2>3. canon' \in [Numbers -> Versions \cup {None}] /\ chain' \in [Numbers -> Versions \cup {None}]
      BY <1>1, <1>3, <1>4 DEF Typed
    <2>4. hdr' \in Numbers /\ fast' \in Numbers /\ full' \in Numbers /\ dbFull' \in Numbers
      BY <1>1, <1>3, <1>5 DEF Typed
    <2> QED BY <1>1, <1>2, <2>2, <2>3, <2>4 DEF Typed
  <1>7. HeadsOrdered'
    <2>1. dbFull' <= full'
      BY <1>3, <1>5, FreezerAssumption DEF Numbers
    <2> QED BY <1>1, <1>2, <2>1 DEF HeadsOrdered, Ancients
  <1>8. trn = Idle
    <2>1. w \in Writers
      BY <1>1 DEF Typed
    <2>2. w.pc = "undone" => w # Idle /\ w.kind = "fast"
      BY <2>1, WriterKinds
    <2>3. w.pc # "undone"
      BY <1>2, <2>2
    <2>4. ASSUME trn # Idle PROVE w.pc = "undone" \/ rew # Idle
      BY <2>4, WhileCut
    <2> QED BY <1>2, <2>3, <2>4
  <1> QED BY <1>2, <1>6, <1>7, <1>8, Untouched, NotCut DEF AncientInv

LEMMA ImportHeaderKeeps ==
    ASSUME AncientInv, ImportHeader
    PROVE  AncientInv'
  <1>1. Typed /\ HeadsOrdered /\ CutAlone
    BY DEF AncientInv
  <1>2. /\ st = "open" /\ rew = Idle /\ hdr < Height /\ hdr' = hdr + 1
        /\ table' = table /\ frozen' = frozen /\ kvBody' = kvBody
        /\ fast' = fast /\ full' = full /\ dbFull' = dbFull
        /\ st' = st /\ w' = w /\ trn' = trn /\ rew' = rew
    BY DEF ImportHeader, tables, control
  <1>3. PICK v \in Candidates(hdr + 1) :
          /\ kvHeader' = kvHeader \cup {<<hdr + 1, v>>}
          /\ canon' = [n \in Numbers |-> IF n <= hdr THEN canon[n]
                                         ELSE IF n = hdr + 1 THEN v ELSE None]
          /\ chain' = [chain EXCEPT ![hdr + 1] = v]
    BY DEF ImportHeader
  <1>4. v \in Versions /\ hdr + 1 \in Numbers
    BY <1>1, <1>2, FreezerAssumption DEF Candidates, Typed, Numbers
  <1>5. Typed'
    <2>1. kvHeader' \subseteq Block
      BY <1>1, <1>3, <1>4 DEF Typed, Block
    <2>2. canon' \in [Numbers -> Versions \cup {None}] /\ chain' \in [Numbers -> Versions \cup {None}]
      BY <1>1, <1>3, <1>4 DEF Typed
    <2> QED BY <1>1, <1>2, <1>4, <2>1, <2>2 DEF Typed
  <1>6. HeadsOrdered' /\ CutAlone'
    BY <1>1, <1>2 DEF HeadsOrdered, CutAlone, Ancients
  <1> QED BY <1>2, <1>5, <1>6, Untouched DEF AncientInv
\* The appending goroutine goes on, as the freezer or as fast sync.
LEMMA FreezerGoesOn ==
    ASSUME AncientInv, st = "open", w \in FreezeWriter, w.pc # "append",
           NEW p \in {"loop", "sync", "canonical", "side"},
           w' = [w EXCEPT !.pc = p] \/ w' = Idle,
           table' = table, frozen' = frozen, trn' = trn, st' = st, rew' = rew,
           hdr' = hdr, fast' = fast, full' = full, dbFull' = dbFull,
           canon' \in [Numbers -> Versions \cup {None}], chain' = chain,
           kvHeader' \subseteq kvHeader, kvBody' \subseteq kvBody
    PROVE  AncientInv'
  <1>1. Typed /\ HeadsOrdered /\ w \in Writers
    BY DEF AncientInv, Typed
  <1>2. w' \in Writers /\ w'.pc # "append" /\ w'.pc # "head"
    <2>1. CASE w' = Idle
      BY <2>1 DEF Idle, Writers
    <2>2. CASE w' = [w EXCEPT !.pc = p]
      <3>1. w' \in Writers /\ w'.pc = p
        BY <2>2, FreezeMoves
      <3> QED BY <3>1
    <2> QED BY <2>1, <2>2
  <1>3. Typed'
    BY <1>1, <1>2 DEF Typed
  <1>4. HeadsOrdered'
    BY <1>1, <1>2 DEF HeadsOrdered
  <1>5. trn = Idle
    <2>1. w.kind = "freeze" /\ w # Idle /\ w.pc # "undone"
      BY DEF FreezeWriter, Idle
    <2>2. ASSUME trn # Idle PROVE FALSE
      <3>1. w \in FastWriter
        BY <2>1, <2>2, WhileCut
      <3> QED BY <2>1, <3>1 DEF FastWriter
    <2> QED BY <2>2
  <1> QED BY <1>2, <1>3, <1>4, <1>5, Untouched, NotCut DEF AncientInv

LEMMA FastSyncGoesOn ==
    ASSUME AncientInv, st = "open", w \in FastWriter, w.pc # "append",
           NEW p \in {"loop", "undo", "head", "canonical", "side", "live", "liveHead"},
           w' = [w EXCEPT !.pc = p] \/ w' = Idle, w.pc = "undone" => trn = Idle,
           p = "head" => Ancients # {},
           table' = table, frozen' = frozen, trn' = trn, st' = st, rew' = rew,
           hdr' = hdr, fast' \in Numbers, full' = full, dbFull' = dbFull,
           canon' \in [Numbers -> Versions \cup {None}], chain' = chain,
           kvHeader' \subseteq Block, kvBody' \subseteq Block
    PROVE  AncientInv'
  <1>1. Typed /\ HeadsOrdered /\ w \in Writers
    BY DEF AncientInv, Typed
  <1>2. /\ w' \in Writers /\ w'.pc # "append"
        /\ w'.pc = "head" => Ancients' # {}
        /\ w' = Idle \/ (w'.kind = "fast" /\ w'.blocks = w.blocks)
    <2>1. CASE w' = Idle
      BY <2>1 DEF Idle, Writers
    <2>2. CASE w' = [w EXCEPT !.pc = p]
      <3>1. /\ w' \in Writers /\ w'.pc = p /\ w'.kind = "fast"
            /\ w'.blocks = w.blocks /\ w'.limit = w.limit
        BY <2>2, FastMoves
      <3> QED BY <3>1 DEF Ancients
    <2> QED BY <2>1, <2>2
  <1>3. Typed'
    BY <1>1, <1>2 DEF Typed
  <1>4. HeadsOrdered'
    BY <1>1, <1>2 DEF HeadsOrdered
  <1>5. CutAlone'
    <2>1. ASSUME trn # Idle PROVE CutAlone'
      <3>1. w.pc # "undone"
        BY <2>1
      <3>2. /\ rew # Idle /\ hdr < trn.items /\ dbFull < trn.items
            /\ \A b \in w.blocks : b[1] < trn.items
        <4>1. w # Idle
          BY DEF FastWriter, Idle
        <4> QED BY <2>1, <3>1, <4>1, WhileCut
      <3> QED BY <1>2, <3>2 DEF CutAlone
    <2> QED BY <2>1, NotCut
  <1> QED BY <1>2, <1>3, <1>4, <1>5, Untouched DEF AncientInv

-----------------------------------------------------------------------------
LEMMA FreezeCheckKeeps ==
    ASSUME AncientInv, FreezeCheck
    PROVE  AncientInv'
  <1>1. Typed /\ HeadsOrdered /\ st = "open" /\ w = Idle
    BY DEF AncientInv, FreezeCheck
  <1>2. /\ dbFull >= ImmutabilityThreshold /\ dbFull - ImmutabilityThreshold > frozen
        /\ table' = table /\ frozen' = frozen /\ canon' = canon /\ kvHeader' = kvHeader
        /\ kvBody' = kvBody /\ hdr' = hdr /\ fast' = fast /\ full' = full /\ dbFull' = dbFull
        /\ st' = st /\ trn' = trn /\ rew' = rew /\ chain' = chain
    BY DEF FreezeCheck, kv, heads, tables, history
  <1> DEFINE limit == Min({dbFull - ImmutabilityThreshold, frozen + freezerBatchLimit})
  <1>3. w' = [pc |-> "loop", kind |-> "freeze", first |-> frozen,
              done |-> <<>>, blk |-> None, k |-> 0, limit |-> limit]
    BY DEF FreezeCheck
  <1>4. dbFull \in Nat /\ frozen \in Nat /\ ImmutabilityThreshold \in Nat /\ freezerBatchLimit \in Nat
    BY <1>1, FreezerAssumption DEF Typed, Numbers
  <1>5. limit \in Nat
    <2>1. dbFull - ImmutabilityThreshold \in Nat /\ frozen + freezerBatchLimit \in Nat
      BY <1>2, <1>4
    <2> QED BY <2>1, MinOfPair
  <1>6. 0 \in 0..Len(Tables) /\ <<>> \in Seq(Block)
    BY TablesNamed
  <1> HIDE DEF limit
  <1>7. w' \in Writers /\ w'.pc = "loop"
    BY <1>3, <1>4, <1>5, <1>6 DEF FreezeWriter, Writers
  <1>8. Typed' /\ HeadsOrdered'
    BY <1>1, <1>2, <1>7 DEF Typed, HeadsOrdered
  <1>9. trn = Idle
    <2>1. ASSUME trn # Idle PROVE FALSE
      <3>1. w.pc # "undone"
        BY <1>1 DEF Idle
      <3>2. dbFull < trn.items /\ trn.items < frozen /\ trn.items \in Nat
        BY <2>1, <3>1, WhileCut
      <3> QED BY <1>2, <1>4, <3>2
    <2> QED BY <2>1
  <1>10. w.pc # "append"
    BY <1>1 DEF Idle
  <1> QED BY <1>2, <1>7, <1>8, <1>9, <1>10, Untouched, NotCut DEF AncientInv

\* Deleting leaves typed stores.
LEMMA DeleteTyped ==
    ASSUME Typed, NEW blocks, DeleteFrozen(blocks)
    PROVE  /\ canon' \in [Numbers -> Versions \cup {None}]
           /\ kvHeader' \subseteq kvHeader /\ kvBody' \subseteq kvBody
  BY DEF Typed, DeleteFrozen

LEMMA FreezeStepsKeep ==
    ASSUME AncientInv, FreezeSync \/ FreezeDeleteCanonical \/ FreezeDeleteSide
    PROVE  AncientInv'
  <1>1. Typed /\ w \in Writers
    BY DEF AncientInv, Typed
  <1>2. canon \in [Numbers -> Versions \cup {None}]
    BY <1>1 DEF Typed
  <1>3. CASE FreezeSync
    <2>1. /\ st = "open" /\ w.pc = "sync" /\ w.kind = "freeze" /\ w' = [w EXCEPT !.pc = "canonical"]
          /\ table' = table /\ frozen' = frozen /\ canon' = canon /\ kvHeader' = kvHeader
          /\ kvBody' = kvBody /\ hdr' = hdr /\ fast' = fast /\ full' = full /\ dbFull' = dbFull
          /\ st' = st /\ trn' = trn /\ rew' = rew /\ chain' = chain
      BY <1>3 DEF FreezeSync, kv, heads, history
    <2>2. w \in FreezeWriter
      BY <1>1, <2>1, WriterKinds
    <2> QED BY <1>2, <2>1, <2>2, FreezerGoesOn
  <1>4. CASE FreezeDeleteCanonical
    <2>1. /\ st = "open" /\ w.pc = "canonical" /\ w.kind = "freeze" /\ w' = [w EXCEPT !.pc = "side"]
          /\ DeleteFrozen({b \in Range(w.done) : b[1] # 0})
          /\ table' = table /\ frozen' = frozen
          /\ hdr' = hdr /\ fast' = fast /\ full' = full /\ dbFull' = dbFull
          /\ st' = st /\ trn' = trn /\ rew' = rew /\ chain' = chain
      BY <1>4 DEF FreezeDeleteCanonical, tables, heads, history
    <2>2. w \in FreezeWriter
      BY <1>1, <2>1, WriterKinds
    <2>3. /\ canon' \in [Numbers -> Versions \cup {None}]
          /\ kvHeader' \subseteq kvHeader /\ kvBody' \subseteq kvBody
      BY <1>1, <2>1, DeleteTyped
    <2> QED BY <2>1, <2>2, <2>3, FreezerGoesOn
  <1>5. CASE FreezeDeleteSide
    <2>1. /\ st = "open" /\ w.pc = "side" /\ w.kind = "freeze" /\ w' = Idle
          /\ kvHeader' \subseteq kvHeader /\ kvBody' \subseteq kvBody
          /\ table' = table /\ frozen' = frozen /\ canon' = canon
          /\ hdr' = hdr /\ fast' = fast /\ full' = full /\ dbFull' = dbFull
          /\ st' = st /\ trn' = trn /\ rew' = rew /\ chain' = chain
      BY <1>5 DEF FreezeDeleteSide, tables, heads, history
    <2>2. w \in FreezeWriter
      BY <1>1, <2>1, WriterKinds
    <2> QED BY <1>2, <2>1, <2>2, FreezerGoesOn
  <1> QED BY <1>3, <1>4, <1>5
\* The steps of InsertReceiptChain beside AppendAncient and the cuts.
LEMMA FastStepsKeep ==
    ASSUME AncientInv,
           \/ WriteAncientStops \/ AncientWritten \/ UpdateHead \/ Undone
           \/ DeleteWritten \/ DeleteBeside \/ WriteLive \/ UpdateLiveHead
    PROVE  AncientInv'
  <1>1. Typed /\ HeadsOrdered /\ w \in Writers
    BY DEF AncientInv, Typed
  <1>2. /\ canon \in [Numbers -> Versions \cup {None}] /\ fast \in Numbers
        /\ kvHeader \subseteq Block /\ kvBody \subseteq Block
    BY <1>1 DEF Typed
  <1>3. ASSUME w \in FastWriter PROVE w.blocks \subseteq Block /\ w.last \in Numbers
    BY <1>3 DEF FastWriter
  <1>4. CASE WriteAncientStops
    <2>1. /\ st = "open" /\ w.pc = "loop" /\ w.kind = "fast" /\ w' = [w EXCEPT !.pc = "undo"]
          /\ table' = table /\ frozen' = frozen /\ canon' = canon /\ kvHeader' = kvHeader
          /\ kvBody' = kvBody /\ hdr' = hdr /\ fast' = fast /\ full' = full /\ dbFull' = dbFull
          /\ st' = st /\ trn' = trn /\ rew' = rew /\ chain' = chain
      BY <1>4 DEF WriteAncientStops, tables, kv, heads, history
    <2>2. w \in FastWriter
      BY <1>1, <2>1, WriterKinds
    <2> QED BY <1>2, <2>1, <2>2, FastSyncGoesOn
  <1>5. CASE AncientWritten
    <2>1. /\ st = "open" /\ w.pc = "loop" /\ w.kind = "fast"
          /\ w' = [w EXCEPT !.pc = IF Ancients = {} THEN "live" ELSE "head"]
          /\ table' = table /\ frozen' = frozen /\ canon' = canon /\ kvHeader' = kvHeader
          /\ kvBody' = kvBody /\ hdr' = hdr /\ fast' = fast /\ full' = full /\ dbFull' = dbFull
          /\ st' = st /\ trn' = trn /\ rew' = rew /\ chain' = chain
      BY <1>5 DEF AncientWritten, kv, heads, history
    <2>2. w \in FastWriter
      BY <1>1, <2>1, WriterKinds
    <2> QED BY <1>2, <2>1, <2>2, FastSyncGoesOn
  <1>6. CASE UpdateHead
    <2>1. /\ st = "open" /\ w.pc = "head"
          /\ \/ fast' = LastOf(Ancients) /\ w' = [w EXCEPT !.pc = "canonical"]
             \/ fast' = fast /\ w' = [w EXCEPT !.pc = "undo"]
          /\ table' = table /\ frozen' = frozen /\ canon' = canon /\ kvHeader' = kvHeader
          /\ kvBody' = kvBody /\ hdr' = hdr /\ full' = full /\ dbFull' = dbFull
          /\ st' = st /\ trn' = trn /\ rew' = rew /\ chain' = chain
      BY <1>6 DEF UpdateHead, tables, kv, history
    <2>2. w \in FastWriter
      BY <1>1, <2>1, WriterKinds
    <2>3. Ancients # {} /\ Ancients \in SUBSET Block
      BY <1>1, <1>3, <2>1, <2>2 DEF HeadsOrdered, Ancients
    <2>4. fast' \in Numbers
      BY <1>2, <2>1, <2>3, LastOfBlocks
    <2> QED BY <1>2, <2>1, <2>2, <2>4, FastSyncGoesOn
  <1>7. CASE Undone
    <2>1. /\ st = "open" /\ w.pc = "undone" /\ trn = Idle /\ w' = Idle
          /\ table' = table /\ frozen' = frozen /\ canon' = canon /\ kvHeader' = kvHeader
          /\ kvBody' = kvBody /\ hdr' = hdr /\ fast' = fast /\ full' = full /\ dbFull' = dbFull
          /\ st' = st /\ trn' = trn /\ rew' = rew /\ chain' = chain
      BY <1>7 DEF Undone, tables, kv, heads, history
    <2>2. w \in FastWriter
      BY <1>1, <2>1, WriterKinds
    <2> QED BY <1>2, <2>1, <2>2, FastSyncGoesOn
  <1>8. CASE DeleteWritten
    <2>1. /\ st = "open" /\ w.pc = "canonical" /\ w.kind = "fast" /\ w' = [w EXCEPT !.pc = "side"]
          /\ DeleteFrozen({b \in Range(w.done) : b[1] # 0})
          /\ table' = table /\ frozen' = frozen
          /\ hdr' = hdr /\ fast' = fast /\ full' = full /\ dbFull' = dbFull
          /\ st' = st /\ trn' = trn /\ rew' = rew /\ chain' = chain
      BY <1>8 DEF DeleteWritten, tables, heads, history
    <2>2. w \in FastWriter
      BY <1>1, <2>1, WriterKinds
    <2>3. /\ canon' \in [Numbers -> Versions \cup {None}]
          /\ kvHeader' \subseteq Block /\ kvBody' \subseteq Block
      BY <1>1, <1>2, <2>1, DeleteTyped
    <2> QED BY <1>2, <2>1, <2>2, <2>3, FastSyncGoesOn
  <1>9. CASE DeleteBeside
    <2>1. /\ st = "open" /\ w.pc = "side" /\ w.kind = "fast" /\ w' = [w EXCEPT !.pc = "live"]
          /\ kvHeader' \subseteq kvHeader /\ kvBody' \subseteq kvBody
          /\ table' = table /\ frozen' = frozen /\ canon' = canon
          /\ hdr' = hdr /\ fast' = fast /\ full' = full /\ dbFull' = dbFull
          /\ st' = st /\ trn' = trn /\ rew' = rew /\ chain' = chain
      BY <1>9 DEF DeleteBeside, tables, heads, history
    <2>2. w \in FastWriter
      BY <1>1, <2>1, WriterKinds
    <2>3. kvHeader' \subseteq Block /\ kvBody' \subseteq Block
      BY <1>2, <2>1
    <2> QED BY <1>2, <2>1, <2>2, <2>3, FastSyncGoesOn
  <1>10. CASE WriteLive
    <2>1. /\ st = "open" /\ w.pc = "live"
          /\ w' = [w EXCEPT !.pc = "liveHead"] \/ w' = Idle
          /\ kvBody' \subseteq kvBody \cup w.blocks
          /\ table' = table /\ frozen' = frozen /\ canon' = canon /\ kvHeader' = kvHeader
          /\ hdr' = hdr /\ fast' = fast /\ full' = full /\ dbFull' = dbFull
          /\ st' = st /\ trn' = trn /\ rew' = rew /\ chain' = chain
      BY <1>10 DEF WriteLive, tables, heads, history
    <2>2. w \in FastWriter
      BY <1>1, <2>1, WriterKinds
    <2>3. kvBody' \subseteq Block
      BY <1>2, <1>3, <2>1, <2>2
    <2> QED BY <1>2, <2>1, <2>2, <2>3, FastSyncGoesOn
  <1>11. CASE UpdateLiveHead
    <2>1. /\ st = "open" /\ w.pc = "liveHead" /\ w' = Idle
          /\ fast' = w.last \/ fast' = fast
          /\ table' = table /\ frozen' = frozen /\ canon' = canon /\ kvHeader' = kvHeader
          /\ kvBody' = kvBody /\ hdr' = hdr /\ full' = full /\ dbFull' = dbFull
          /\ st' = st /\ trn' = trn /\ rew' = rew /\ chain' = chain
      BY <1>11 DEF UpdateLiveHead, tables, kv, history
    <2>2. w \in FastWriter
      BY <1>1, <2>1, WriterKinds
    <2>3. fast' \in Numbers
      BY <1>2, <1>3, <2>1, <2>2
    <2> QED BY <1>2, <2>1, <2>2, <2>3, FastSyncGoesOn
  <1> QED BY <1>4, <1>5, <1>6, <1>7, <1>8, <1>9, <1>10, <1>11

-----------------------------------------------------------------------------
(* Heads and rewinds that start or end *)

LEMMA HeadsKeep ==
    ASSUME AncientInv, FastSyncCommitHead \/ SetHead \/ SetHeadDone \/ RollbackDone
    PROVE  AncientInv'
  <1>1. Typed /\ HeadsOrdered /\ CutAlone
    BY DEF AncientInv
  <1>2. w \in Writers /\ rew \in Rewinds /\ fast \in Numbers /\ full \in Numbers
        /\ dbFull \in Numbers /\ Numbers \subseteq Nat
        /\ canon \in [Numbers -> Versions \cup {None}] /\ kvHeader \subseteq Block /\ kvBody \subseteq Block
    BY <1>1 DEF Typed, Numbers
  <1>3. CASE FastSyncCommitHead
    <2>1. /\ w = Idle /\ rew = Idle /\ full = 0 /\ full' = fast
          /\ table' = table /\ frozen' = frozen /\ canon' = canon /\ kvHeader' = kvHeader
          /\ kvBody' = kvBody /\ hdr' = hdr /\ fast' = fast /\ dbFull' = dbFull
          /\ st' = st /\ w' = w /\ trn' = trn /\ rew' = rew /\ chain' = chain
      BY <1>3 DEF FastSyncCommitHead, tables, kv, control, history
    <2>2. Typed'
      BY <1>1, <2>1 DEF Typed
    <2>3. dbFull' <= full'
      BY <1>1, <1>2, <2>1 DEF HeadsOrdered
    <2>4. HeadsOrdered' /\ CutAlone'
      BY <1>1, <2>1, <2>3 DEF HeadsOrdered, CutAlone, Ancients
    <2> QED BY <2>1, <2>2, <2>4, Untouched DEF AncientInv
  <1>4. CASE SetHead
    <2>1. /\ rew = Idle /\ st = "open"
          /\ table' = table /\ frozen' = frozen /\ canon' = canon /\ kvHeader' = kvHeader
          /\ kvBody' = kvBody /\ hdr' = hdr /\ fast' = fast /\ full' = full /\ dbFull' = dbFull
          /\ st' = st /\ w' = w /\ trn' = trn /\ chain' = chain
      BY <1>4 DEF SetHead, tables, kv, heads
    <2>2. PICK target \in 0..(hdr - 1) : rew' = [pc |-> "step", target |-> target, gone |-> {}]
      BY <1>4 DEF SetHead
    <2>3. rew' \in Rewinds
      BY <2>2 DEF Rewinds
    <2>4. Typed'
      BY <1>1, <2>1, <2>3 DEF Typed
    <2>5. HeadsOrdered' /\ CutAlone'
      BY <1>1, <2>1 DEF HeadsOrdered, CutAlone, Ancients
    <2> QED BY <2>1, <2>4, <2>5, Untouched DEF AncientInv
  <1>5. CASE SetHeadDone
    <2>1. /\ trn = Idle /\ st = "open" /\ rew' = Idle /\ DeleteFrozen(rew.gone)
          /\ table' = table /\ frozen' = frozen
          /\ hdr' = hdr /\ fast' = fast /\ full' = full /\ dbFull' = dbFull
          /\ st' = st /\ w' = w /\ trn' = trn /\ chain' = chain
      BY <1>5 DEF SetHeadDone, tables, heads
    <2>2. /\ canon' \in [Numbers -> Versions \cup {None}]
          /\ kvHeader' \subseteq Block /\ kvBody' \subseteq Block
      BY <1>1, <1>2, <2>1, DeleteTyped
    <2>3. Typed'
      BY <1>1, <2>1, <2>2 DEF Typed, Rewinds
    <2>4. HeadsOrdered'
      BY <1>1, <2>1 DEF HeadsOrdered, Ancients
    <2> QED BY <2>1, <2>3, <2>4, NotCut, Untouched DEF AncientInv
  <1>6. CASE RollbackDone
    <2>1. /\ trn = Idle /\ st = "open" /\ rew' = Idle
          /\ table' = table /\ frozen' = frozen /\ canon' = canon /\ kvHeader' = kvHeader
          /\ kvBody' = kvBody /\ hdr' = hdr /\ fast' = fast /\ full' = full /\ dbFull' = dbFull
          /\ st' = st /\ w' = w /\ trn' = trn /\ chain' = chain
      BY <1>6 DEF RollbackDone, tables, kv, heads, history
    <2>2. Typed'
      BY <1>1, <2>1 DEF Typed, Rewinds
    <2>3. HeadsOrdered'
      BY <1>1, <2>1 DEF HeadsOrdered, Ancients
    <2> QED BY <2>1, <2>2, <2>3, NotCut, Untouched DEF AncientInv
  <1> QED BY <1>3, <1>4, <1>5, <1>6
LEMMA InsertReceiptChainKeeps ==
    ASSUME AncientInv, InsertReceiptChain
    PROVE  AncientInv'
  <1>1. Typed /\ HeadsOrdered
    BY DEF AncientInv
  <1>2. /\ st = "open" /\ w = Idle
        /\ table' = table /\ frozen' = frozen /\ canon' = canon /\ kvHeader' = kvHeader
        /\ kvBody' = kvBody /\ hdr' = hdr /\ fast' = fast /\ full' = full /\ dbFull' = dbFull
        /\ st' = st /\ trn' = trn /\ rew' = rew /\ chain' = chain
    BY DEF InsertReceiptChain, tables, kv, heads, history
  <1>0. PICK last \in (fast + 1)..hdr : \E limit \in fast..last :
          w' = [pc |-> "loop", kind |-> "fast", prev |-> fast, last |-> last, limit |-> limit,
                blocks |-> {<<n, chain[n]>> : n \in (fast + 1)..last},
                done |-> <<>>, blk |-> None, k |-> 0]
    BY DEF InsertReceiptChain
  <1>3. PICK limit \in fast..last :
          w' = [pc |-> "loop", kind |-> "fast", prev |-> fast, last |-> last, limit |-> limit,
                blocks |-> {<<n, chain[n]>> : n \in (fast + 1)..last},
                done |-> <<>>, blk |-> None, k |-> 0]
    BY <1>0
  <1>4. fast \in 0..Height /\ hdr \in 0..Height /\ Height \in Nat
    BY <1>1, FreezerAssumption DEF Typed, Numbers
  <1>5. last \in Numbers /\ limit \in Numbers /\ fast \in Numbers /\ (fast + 1)..last \subseteq Numbers
    BY <1>4 DEF Numbers
  <1> DEFINE blocks == {<<n, chain[n]>> : n \in (fast + 1)..last}
  <1>6. blocks \in SUBSET Block /\ \A b \in blocks : b[1] <= hdr /\ b[1] \in Nat
    BY <1>1, <1>4, <1>5 DEF Typed, Block
  <1>7. 0 \in 0..Len(Tables) /\ <<>> \in Seq(Block)
    BY TablesNamed
  <1>8. w' = [pc |-> "loop", kind |-> "fast", prev |-> fast, last |-> last, limit |-> limit,
              blocks |-> blocks, done |-> <<>>, blk |-> None, k |-> 0]
    BY <1>3
  <1> HIDE DEF blocks
  <1>9. w' \in Writers /\ w'.pc = "loop" /\ w'.kind = "fast" /\ w'.blocks = blocks
    BY <1>5, <1>6, <1>7, <1>8 DEF FastWriter, Writers
  <1>10. Typed' /\ HeadsOrdered'
    BY <1>1, <1>2, <1>9 DEF Typed, HeadsOrdered
  <1>11. w.pc = "idle"
    BY <1>2 DEF Idle
  <1>12. CutAlone'
    <2>1. ASSUME trn # Idle PROVE CutAlone'
      <3>1. rew # Idle /\ hdr < trn.items /\ dbFull < trn.items /\ trn.items \in Nat
        BY <1>11, <2>1, WhileCut
      <3>2. \A b \in blocks : b[1] < trn.items
        BY <1>4, <1>6, <3>1
      <3> QED BY <1>2, <1>9, <3>1, <3>2 DEF CutAlone
    <2> QED BY <1>2, <2>1, NotCut
  <1> QED BY <1>2, <1>9, <1>10, <1>11, <1>12, Untouched DEF AncientInv

-----------------------------------------------------------------------------
(* AppendAncient *)

\* It begins with even tables, and with the block they are to hold next.
LEMMA HandOverKeeps ==
    ASSUME AncientInv, st = "open", w \in FreezeWriter \cup FastWriter, w.pc = "loop",
           NEW b \in Block, b[1] = frozen, trn = Idle, w' = HandOver(b),
           table' = table, frozen' = frozen, canon' = canon, kvHeader' = kvHeader,
           kvBody' = kvBody, hdr' = hdr, fast' = fast, full' = full, dbFull' = dbFull,
           st' = st, trn' = trn, rew' = rew, chain' = chain
    PROVE  AncientInv'
  <1>1. Typed /\ HeadsOrdered /\ ItemsAgree /\ TablesAt
    BY DEF AncientInv
  <1>2. w' \in Writers /\ w'.pc = "append" /\ w'.blk = b /\ w'.k = 1
    BY HandOverTyped
  <1>3. 1 \in 1..Len(Tables) /\ Len(Tables) \in Nat
    BY TablesNamed
  <1>4. Typed'
    BY <1>1, <1>2, <1>3 DEF Typed
  <1>5. HeadsOrdered' /\ ItemsAgree'
    BY <1>1, <1>2 DEF HeadsOrdered, ItemsAgree
  <1>6. Even
    BY <1>1 DEF TablesAt
  <1>7. HalfAppended'
    BY <1>2, <1>3, <1>6, TablesNamed DEF HalfAppended, Even
  <1>8. TablesAt'
    BY <1>2, <1>7 DEF TablesAt
  <1> QED BY <1>4, <1>5, <1>8, NotCut DEF AncientInv

LEMMA FreezeReadKeeps ==
    ASSUME AncientInv, FreezeRead
    PROVE  AncientInv'
  <1> DEFINE b == <<frozen, canon[frozen]>>
  <1>1. Typed
    BY DEF AncientInv
  <1>2. /\ st = "open" /\ w.pc = "loop" /\ w.kind = "freeze"
        /\ table' = table /\ frozen' = frozen /\ canon' = canon /\ kvHeader' = kvHeader
        /\ kvBody' = kvBody /\ hdr' = hdr /\ fast' = fast /\ full' = full /\ dbFull' = dbFull
        /\ st' = st /\ trn' = trn /\ rew' = rew /\ chain' = chain
        /\ \/ b \in kvHeader /\ w' = HandOver(b)
           \/ w' = [w EXCEPT !.pc = "sync"]
    BY DEF FreezeRead, tables, kv, heads, history
  <1>3. w \in Writers /\ kvHeader \subseteq Block /\ canon \in [Numbers -> Versions \cup {None}]
    BY <1>1 DEF Typed
  <1>4. w \in FreezeWriter
    BY <1>2, <1>3, WriterKinds
  <1>5. CASE w' = [w EXCEPT !.pc = "sync"]
    BY <1>2, <1>3, <1>4, <1>5, FreezerGoesOn
  <1>6. CASE b \in kvHeader /\ w' = HandOver(b)
    <2>1. b \in Block /\ b[1] = frozen
      BY <1>3, <1>6
    <2>2. trn = Idle
      <3>1. w.kind = "freeze" /\ w # Idle /\ w.pc # "undone"
        BY <1>4 DEF FreezeWriter, Idle
      <3>2. ASSUME trn # Idle PROVE w \in FastWriter
        BY <3>1, <3>2, WhileCut
      <3> QED BY <3>1, <3>2 DEF FastWriter
    <2> HIDE DEF b
    <2> QED BY <1>2, <1>4, <1>6, <2>1, <2>2, HandOverKeeps
  <1> QED BY <1>2, <1>5, <1>6

\* Cuts leave an item where it is, or take it away.
LEMMA CutTables ==
    ASSUME Typed, ItemsAgree, NEW c, \A t \in Names : c[t] \in Nat,
           table' = [t \in Names |-> Cut(table[t], c[t])]
    PROVE  /\ table' \in [Names -> Seq(Block)]
           /\ \A t \in Names :
                 /\ Len(table'[t]) = IF c[t] <= Len(table[t]) THEN c[t] ELSE Len(table[t])
                 /\ \A n \in 1..Len(table'[t]) : table'[t][n] = table[t][n]
           /\ ItemsAgree'
  <1>1. \A t \in Names : table[t] \in Seq(Block) /\ Len(table[t]) \in Nat /\ c[t] \in Nat
    BY DEF Typed
  <1>2. \A t \in Names :
          /\ table'[t] \in Seq(Block)
          /\ Len(table'[t]) = IF c[t] <= Len(table[t]) THEN c[t] ELSE Len(table[t])
          /\ \A n \in 1..Len(table'[t]) : table'[t][n] = table[t][n]
    <2> TAKE t \in Names
    <2> DEFINE q == table[t]
               m == c[t]
    <2>1. table'[t] = Cut(q, m) /\ q \in Seq(Block) /\ m \in Nat
      BY <1>1
    <2> HIDE DEF q, m
    <2>2. /\ Cut(q, m) \in Seq(Block)
          /\ Len(Cut(q, m)) = IF m <= Len(q) THEN m ELSE Len(q)
          /\ \A i \in 1..Len(Cut(q, m)) : Cut(q, m)[i] = q[i]
      BY <2>1, CutKeeps
    <2> QED BY <2>1, <2>2 DEF q, m
  <1>3. \A t \in Names : 1..Len(table'[t]) \subseteq 1..Len(table[t])
    BY <1>1, <1>2
  <1>4. ItemsAgree'
    <2> SUFFICES ASSUME NEW t \in Names, NEW n \in 1..Len(table'[t])
                 PROVE  /\ table'[t][n][1] = n - 1
                        /\ \A u \in Names : n <= Len(table'[u]) => table'[t][n] = table'[u][n]
      BY DEF ItemsAgree
    <2>1. n \in 1..Len(table[t]) /\ table'[t][n] = table[t][n]
      BY <1>2, <1>3
    <2>2. ASSUME NEW u \in Names, n <= Len(table'[u])
          PROVE  n \in 1..Len(table[u]) /\ n <= Len(table[u]) /\ table'[u][n] = table[u][n]
      <3>1. Len(table'[u]) \in Nat /\ n \in 1..Len(table'[u])
        BY <1>1, <1>2, <2>2, <2>1
      <3> QED BY <1>1, <1>2, <1>3, <3>1
    <2> QED BY <2>1, <2>2 DEF ItemsAgree
  <1> QED BY <1>2, <1>4

\* The shortest table.
LEMMA ShortestTable ==
    ASSUME Typed
    PROVE  /\ Shortest \in Nat /\ \A t \in Names : Shortest <= Len(table[t])
           /\ \E t \in Names : Shortest = Len(table[t])
  <1> DEFINE S == {Len(table[t]) : t \in Names}
  <1>1. \A t \in Names : Len(table[t]) \in Nat
    BY DEF Typed
  <1>2. "hashes" \in Names
    BY TablesNamed
  <1>3. S \in SUBSET Nat /\ S # {}
    BY <1>1, <1>2, Zenon
  <1>4. Shortest = Min(S)
    BY DEF Shortest
  <1>5. Min(S) \in S /\ \A m \in S : Min(S) <= m
    <2> HIDE DEF S
    <2> QED BY <1>3, MinOfNats
  <1> QED BY <1>1, <1>3, <1>4, <1>5

\* A process that ends leaves its tables as they are, or cut.
LEMMA EndKeeps ==
    ASSUME AncientInv, ProcessEnds, table' \in [Names -> Seq(Block)], ItemsAgree', frozen' \in Nat,
           canon' = canon, kvHeader' = kvHeader, kvBody' = kvBody,
           hdr' = hdr, fast' = fast, full' = full, dbFull' = dbFull, chain' = chain
    PROVE  AncientInv'
  <1>1. st' = "closed" /\ w' = Idle /\ trn' = Idle /\ rew' = Idle
    BY DEF ProcessEnds
  <1>2. Typed /\ HeadsOrdered
    BY DEF AncientInv
  <1>3. w' \in Writers /\ trn' \in Cuts /\ rew' \in Rewinds /\ w'.pc = "idle"
    BY <1>1 DEF Writers, Cuts, Rewinds, Idle
  <1>4. Typed'
    BY <1>1, <1>2, <1>3 DEF Typed
  <1>5. HeadsOrdered' /\ TablesAt'
    BY <1>1, <1>2, <1>3 DEF HeadsOrdered, TablesAt
  <1> QED BY <1>1, <1>4, <1>5, NotCut DEF AncientInv
LEMMA WriteAncientKeeps ==
    ASSUME AncientInv, WriteAncient
    PROVE  AncientInv'
  <1> DEFINE b == IF frozen < NextBlock[1] THEN ReadBlock(ReadCanonicalHash(frozen)) ELSE NextBlock
  <1>1. Typed
    BY DEF AncientInv
  <1>2. /\ st = "open" /\ w.pc = "loop" /\ w.kind = "fast" /\ Remaining # {}
        /\ table' = table /\ frozen' = frozen /\ canon' = canon /\ kvHeader' = kvHeader
        /\ kvBody' = kvBody /\ hdr' = hdr /\ fast' = fast /\ full' = full /\ dbFull' = dbFull
        /\ chain' = chain
        /\ \/ ProcessEnds
           \/ /\ b # None /\ b[1] = frozen /\ w' = HandOver(b)
              /\ st' = st /\ trn' = trn /\ rew' = rew
    BY DEF WriteAncient, tables, kv, heads, history
  <1>3. w \in Writers /\ table \in [Names -> Seq(Block)] /\ frozen \in Nat
    BY <1>1 DEF Typed
  <1>4. w \in FastWriter
    BY <1>2, <1>3, WriterKinds
  <1>5. CASE ProcessEnds
    <2>1. ItemsAgree'
      BY <1>2 DEF AncientInv, ItemsAgree
    <2>2. table' \in [Names -> Seq(Block)] /\ frozen' \in Nat
      BY <1>2, <1>3
    <2> QED BY <1>2, <1>5, <2>1, <2>2, EndKeeps
  <1>6. CASE /\ b # None /\ b[1] = frozen /\ w' = HandOver(b)
             /\ st' = st /\ trn' = trn /\ rew' = rew
    <2>1. NextBlock \in w.blocks /\ NextBlock \in Block /\ NextBlock[1] \in 0..Height
      <3>1. Remaining \subseteq w.blocks /\ Remaining \subseteq Block
        BY <1>4 DEF FastWriter, Remaining, Ancients
      <3> DEFINE S == {x[1] : x \in Remaining}
      <3>2. S \in SUBSET Nat /\ S # {}
        BY <1>2, <3>1, FreezerAssumption DEF Block, Numbers
      <3>3. PICK n \in S : \A m \in S : n <= m
        <4> HIDE DEF S
        <4> QED BY <3>2, LeastNat
      <3>4. \E x \in Remaining : \A y \in Remaining : x[1] <= y[1]
        BY <3>3
      <3>5. NextBlock \in Remaining
        BY <3>4, Zenon DEF NextBlock
      <3> QED BY <3>1, <3>5 DEF Block, Numbers
    <2>2. trn = Idle
      <3>1. w.pc # "undone" /\ w # Idle
        BY <1>2 DEF Idle
      <3>2. ASSUME trn # Idle PROVE FALSE
        <4>1. NextBlock[1] < trn.items /\ trn.items < frozen /\ trn.items \in Nat
          BY <2>1, <3>1, <3>2, WhileCut
        <4>2. ~(frozen < NextBlock[1]) /\ NextBlock[1] # frozen
          BY <1>3, <2>1, <4>1
        <4> QED BY <1>6, <4>2
      <3> QED BY <3>2
    <2>3. b \in Block
      <3>1. CASE frozen < NextBlock[1]
        <4>1. frozen \in Numbers
          BY <1>3, <2>1, <3>1, FreezerAssumption DEF Numbers
        <4>2. \A t \in Names, n \in Numbers : Ancient(t, n) \in Block \cup {None}
          <5> TAKE t \in Names, n \in Numbers
          <5>1. table[t] \in Seq(Block) /\ n \in Nat
            BY <1>3, FreezerAssumption DEF Numbers
          <5>2. ASSUME NEW q \in Seq(Block), n < Len(q) PROVE q[n + 1] \in Block
            <6>1. n + 1 \in 1..Len(q)
              BY <5>1, <5>2
            <6> QED BY <5>2, <6>1
          <5> QED BY <5>1, <5>2 DEF Ancient
        <4>3. ReadCanonicalHash(frozen) \in Block \cup {None}
          BY <1>1, <4>1, <4>2, TablesNamed DEF ReadCanonicalHash, Typed, Block
        <4>4. \A x \in Block : ReadBody(x) \in Block \cup {None}
          BY <4>2, TablesNamed DEF ReadBody, Block
        <4>5. ReadBlock(ReadCanonicalHash(frozen)) \in Block \cup {None}
          BY <4>3, <4>4 DEF ReadBlock
        <4> QED BY <1>6, <3>1, <4>5
      <3>2. CASE ~(frozen < NextBlock[1])
        BY <2>1, <3>2
      <3> QED BY <3>1, <3>2
    <2> HIDE DEF b
    <2> QED BY <1>2, <1>4, <1>6, <2>2, <2>3, HandOverKeeps
  <1> QED BY <1>2, <1>5, <1>6

\* One more table holds the block, or the last one does.
LEMMA AppendAncientKeeps ==
    ASSUME AncientInv, AppendAncient
    PROVE  AncientInv'
  <1> DEFINE t == Tables[w.k]
  <1>1. Typed /\ HeadsOrdered /\ ItemsAgree /\ TablesAt
    BY DEF AncientInv
  <1>2. /\ st = "open" /\ w.pc = "append" /\ Len(table[t]) = frozen
        /\ table' = [table EXCEPT ![t] = Append(@, w.blk)]
        /\ canon' = canon /\ kvHeader' = kvHeader
        /\ kvBody' = kvBody /\ hdr' = hdr /\ fast' = fast /\ full' = full /\ dbFull' = dbFull
        /\ st' = st /\ trn' = trn /\ rew' = rew /\ chain' = chain
        /\ IF w.k = Len(Tables)
           THEN frozen' = frozen + 1 /\ w' = Appended
           ELSE frozen' = frozen /\ w' = [w EXCEPT !.k = @ + 1]
    BY DEF AppendAncient, kv, heads, history
  <1>3. /\ w \in Writers /\ table \in [Names -> Seq(Block)] /\ frozen \in Nat
        /\ w.blk \in Block /\ w.k \in 1..Len(Tables)
    BY <1>1, <1>2 DEF Typed
  <1>4. w \in FreezeWriter \cup FastWriter
    BY <1>2, <1>3, WriterKinds
  <1>5. trn = Idle /\ w.blk[1] = frozen /\ HalfAppended
    BY <1>1, <1>2 DEF TablesAt
  <1>6. t \in Names /\ Len(Tables) \in Nat
    BY <1>3, TablesNamed
  <1>7. /\ table' \in [Names -> Seq(Block)]
        /\ Len(table'[t]) = frozen + 1 /\ table'[t][frozen + 1] = w.blk
        /\ \A n \in 1..frozen : table'[t][n] = table[t][n]
        /\ \A u \in Names : u # t => table'[u] = table[u]
    <2>1. table[t] \in Seq(Block) /\ table'[t] = Append(table[t], w.blk)
      BY <1>2, <1>3, <1>6
    <2>2. ASSUME NEW q \in Seq(Block), Len(q) = frozen
          PROVE  /\ Append(q, w.blk) \in Seq(Block) /\ Len(Append(q, w.blk)) = frozen + 1
                 /\ Append(q, w.blk)[frozen + 1] = w.blk
                 /\ \A n \in 1..frozen : Append(q, w.blk)[n] = q[n]
      BY <1>3, <2>2
    <2> HIDE DEF t
    <2> QED BY <1>2, <1>3, <1>6, <2>1, <2>2
  <1> HIDE DEF t
  <1>8. \A u \in Names : u # t =>
          \/ Len(table[u]) = frozen
          \/ Len(table[u]) = frozen + 1 /\ table[u][frozen + 1] = w.blk
    <2> TAKE u \in Names
    <2>1. PICK i \in 1..Len(Tables) : u = Tables[i]
      BY TablesNamed
    <2>2. i < w.k \/ i >= w.k
      BY <1>3, <1>6
    <2> QED BY <1>5, <2>1, <2>2 DEF HalfAppended
  <1>9. ItemsAgree'
    <2> SUFFICES ASSUME NEW u \in Names, NEW n \in 1..Len(table'[u])
                 PROVE  /\ table'[u][n][1] = n - 1
                        /\ \A v \in Names : n <= Len(table'[v]) => table'[u][n] = table'[v][n]
      BY DEF ItemsAgree
    <2>1. \A v \in Names : /\ Len(table'[v]) \in {frozen, frozen + 1}
                            /\ Len(table[v]) \in {frozen, frozen + 1}
      <3> TAKE v \in Names
      <3>1. CASE v = t
        BY <1>2, <1>7, <3>1
      <3>2. CASE v # t
        BY <1>7, <1>8, <3>2
      <3> QED BY <3>1, <3>2
    <2>2. CASE n \in 1..frozen
      <3>1. \A v \in Names : table'[v][n] = table[v][n] /\ n <= Len(table[v]) /\ n \in 1..Len(table[v])
        <4> TAKE v \in Names
        <4>1. table'[v][n] = table[v][n]
          <5>1. CASE v = t
            BY <1>7, <2>2, <5>1
          <5>2. CASE v # t
            BY <1>7, <5>2
          <5> QED BY <5>1, <5>2
        <4>2. Len(table[v]) \in {frozen, frozen + 1}
          BY <2>1
        <4> QED BY <1>3, <2>2, <4>1, <4>2
      <3> QED BY <1>1, <3>1 DEF ItemsAgree
    <2>3. CASE n = frozen + 1
      <3>1. \A v \in Names : n <= Len(table'[v]) => table'[v][n] = w.blk
        <4> TAKE v \in Names
        <4>1. CASE v = t
          BY <1>7, <2>3, <4>1
        <4>2. CASE v # t
          <5>1. table'[v] = table[v]
            BY <1>7, <4>2
          <5>2. ASSUME Len(table[v]) = frozen, n <= Len(table[v]) PROVE FALSE
            BY <1>3, <2>3, <5>2
          <5> QED BY <1>8, <2>3, <4>2, <5>1, <5>2
        <4> QED BY <4>1, <4>2
      <3>2. n <= Len(table'[u])
        BY <1>3, <2>1, <2>3
      <3> QED BY <1>3, <1>5, <2>3, <3>1, <3>2
    <2> QED BY <1>3, <2>1, <2>2, <2>3
  <1>10. CASE w.k = Len(Tables)
    <2>1. frozen' = frozen + 1 /\ w' = Appended
      BY <1>2, <1>10
    <2>2. w' \in Writers /\ w'.pc = "loop"
      BY <1>3, <1>4, <2>1, TakeBackTyped
    <2>3. Typed'
      BY <1>1, <1>2, <1>3, <1>7, <2>1, <2>2 DEF Typed
    <2>4. HeadsOrdered'
      BY <1>1, <1>2, <2>2 DEF HeadsOrdered
    <2>5. Even'
      <3> SUFFICES ASSUME NEW u \in Names PROVE Len(table'[u]) = frozen + 1
        BY <2>1 DEF Even
      <3>1. CASE u = t
        BY <1>7, <3>1
      <3>2. CASE u # t
        <4>1. PICK i \in 1..Len(Tables) : u = Tables[i]
          BY TablesNamed
        <4>2. i < w.k
          BY <1>6, <1>10, <3>2, <4>1 DEF t
        <4>3. Len(table[u]) = frozen + 1
          BY <1>5, <4>1, <4>2 DEF HalfAppended
        <4> QED BY <1>7, <3>2, <4>3
      <3> QED BY <3>1, <3>2
    <2>6. TablesAt'
      BY <1>2, <1>5, <2>2, <2>5 DEF TablesAt
    <2> QED BY <1>2, <1>5, <1>9, <2>3, <2>4, <2>6, NotCut DEF AncientInv
  <1>11. CASE w.k # Len(Tables)
    <2>1. frozen' = frozen /\ w' = [w EXCEPT !.k = w.k + 1]
      BY <1>2, <1>11
    <2>2. w.k + 1 \in 1..Len(Tables) /\ w.k + 1 \in 0..Len(Tables)
      BY <1>3, <1>6, <1>11
    <2>3. w' \in Writers /\ w'.pc = "append" /\ w'.blk = w.blk /\ w'.k = w.k + 1
      <3>1. CASE w \in FreezeWriter
        BY <1>2, <2>1, <2>2, <3>1 DEF FreezeWriter, Writers
      <3>2. CASE w \in FastWriter
        BY <1>2, <2>1, <2>2, <3>2 DEF FastWriter, Writers
      <3> QED BY <1>4, <3>1, <3>2
    <2>4. Typed'
      BY <1>1, <1>2, <1>3, <1>7, <2>1, <2>2, <2>3 DEF Typed
    <2>5. HeadsOrdered'
      BY <1>1, <1>2, <2>3 DEF HeadsOrdered
    <2>6. HalfAppended'
      <3> SUFFICES ASSUME NEW i \in 1..Len(Tables)
                   PROVE  /\ i < w.k + 1 => /\ Len(table'[Tables[i]]) = frozen + 1
                                            /\ table'[Tables[i]][frozen + 1] = w.blk
                          /\ i >= w.k + 1 => Len(table'[Tables[i]]) = frozen
        BY <2>1, <2>3 DEF HalfAppended
      <3>1. CASE i = w.k
        BY <1>3, <1>7, <3>1 DEF t
      <3>2. CASE i # w.k
        <4>1. Tables[i] \in Names /\ Tables[i] # t
          BY <1>3, <3>2, TablesNamed DEF t
        <4>2. table'[Tables[i]] = table[Tables[i]]
          BY <1>7, <4>1
        <4>3. (i < w.k + 1 => i < w.k) /\ (i >= w.k + 1 => i >= w.k)
          BY <1>3, <3>2
        <4> QED BY <1>5, <4>2, <4>3 DEF HalfAppended
      <3> QED BY <3>1, <3>2
    <2>7. TablesAt'
      BY <1>2, <1>5, <2>1, <2>3, <2>6 DEF TablesAt
    <2> QED BY <1>2, <1>5, <1>9, <2>4, <2>5, <2>7, NotCut DEF AncientInv
  <1> QED BY <1>10, <1>11

\* repair: all tables are as long as the shortest.
LEMMA RepairKeeps ==
    ASSUME Typed, ItemsAgree, RepairTables
    PROVE  table' \in [Names -> Seq(Block)] /\ frozen' \in Nat /\ ItemsAgree' /\ Even'
  <1> DEFINE c == [t \in Names |-> Shortest]
  <1>1. /\ table' = [t \in Names |-> Cut(table[t], Shortest)] /\ frozen' = Shortest
    BY DEF RepairTables
  <1>2. /\ Shortest \in Nat /\ \A t \in Names : Shortest <= Len(table[t])
    BY ShortestTable
  <1>3. (\A t \in Names : c[t] = Shortest) /\ table' = [t \in Names |-> Cut(table[t], c[t])]
    BY <1>1
  <1> HIDE DEF c
  <1>4. /\ table' \in [Names -> Seq(Block)] /\ ItemsAgree'
        /\ \A t \in Names : Len(table'[t]) = IF c[t] <= Len(table[t]) THEN c[t] ELSE Len(table[t])
    BY <1>2, <1>3, CutTables
  <1>5. \A t \in Names : Len(table'[t]) = Shortest
    BY <1>2, <1>3, <1>4
  <1> QED BY <1>1, <1>2, <1>4, <1>5 DEF Even

LEMMA AppendAncientFailsKeeps ==
    ASSUME AncientInv, AppendAncientFails
    PROVE  AncientInv'
  <1>1. Typed /\ HeadsOrdered /\ ItemsAgree /\ TablesAt
    BY DEF AncientInv
  <1>2. /\ st = "open" /\ w.pc = "append" /\ RepairTables
        /\ canon' = canon /\ kvHeader' = kvHeader /\ kvBody' = kvBody
        /\ hdr' = hdr /\ fast' = fast /\ full' = full /\ dbFull' = dbFull /\ chain' = chain
        /\ \/ w.kind = "freeze" /\ w' = AppendFailed /\ st' = st /\ trn' = trn /\ rew' = rew
           \/ ProcessEnds
    BY DEF AppendAncientFails, kv, heads
  <1>3. table' \in [Names -> Seq(Block)] /\ frozen' \in Nat /\ ItemsAgree' /\ Even'
    BY <1>1, <1>2, RepairKeeps
  <1>4. CASE ProcessEnds
    BY <1>2, <1>3, <1>4, EndKeeps
  <1>5. CASE w.kind = "freeze" /\ w' = AppendFailed /\ st' = st /\ trn' = trn /\ rew' = rew
    <2>1. w \in Writers /\ w.blk \in Block
      BY <1>1, <1>2 DEF Typed
    <2>2. w' \in Writers /\ w'.pc = "sync"
      BY <1>2, <1>5, <2>1, WriterKinds, TakeBackTyped
    <2>3. trn = Idle
      BY <1>1, <1>2 DEF TablesAt
    <2>4. Typed'
      BY <1>1, <1>2, <1>3, <1>5, <2>2 DEF Typed
    <2>5. HeadsOrdered'
      BY <1>1, <1>2, <2>2 DEF HeadsOrdered
    <2>6. TablesAt'
      BY <1>3, <1>5, <2>2, <2>3 DEF TablesAt
    <2> QED BY <1>3, <1>5, <2>3, <2>4, <2>5, <2>6, NotCut DEF AncientInv
  <1> QED BY <1>2, <1>4, <1>5

-----------------------------------------------------------------------------
(* TruncateAncients *)

LEMMA TruncateTableKeeps ==
    ASSUME AncientInv, TruncateTable
    PROVE  AncientInv'
  <1>1. Typed /\ HeadsOrdered /\ ItemsAgree /\ TablesAt /\ CutAlone
    BY DEF AncientInv
  <1>2. /\ trn.pc = "cut" /\ frozen' = frozen
        /\ canon' = canon /\ kvHeader' = kvHeader /\ kvBody' = kvBody
        /\ hdr' = hdr /\ fast' = fast /\ full' = full /\ dbFull' = dbFull /\ chain' = chain
        /\ st' = st /\ w' = w /\ rew' = rew
    BY DEF TruncateTable, kv, heads
  <1>3. PICK t \in trn.left : /\ table' = [table EXCEPT ![t] = Cut(table[t], trn.items)]
                             /\ trn' = [trn EXCEPT !.left = trn.left \ {t}]
    BY DEF TruncateTable
  <1>4. trn \in [pc : {"cut"}, items : Nat, left : SUBSET Names] /\ trn # Idle
    BY <1>1, <1>2 DEF Typed, Cuts, Idle
  <1>5. /\ trn' \in [pc : {"cut"}, items : Nat, left : SUBSET Names]
        /\ trn'.items = trn.items /\ trn'.left = trn.left \ {t} /\ trn'.pc = "cut"
    BY <1>3, <1>4
  <1>6. trn' \in Cuts /\ trn' # Idle
    BY <1>5 DEF Cuts, Idle
  <1>7. trn.items \in Nat /\ t \in Names /\ frozen \in Nat /\ table \in [Names -> Seq(Block)]
    BY <1>1, <1>3, <1>4 DEF Typed
  <1>8. trn.items < frozen /\ HalfCut /\ w.pc # "append"
    BY <1>1, <1>4, WhileCut DEF TablesAt
  <1> DEFINE c == [u \in Names |-> IF u = t THEN trn.items ELSE Len(table[u])]
  <1>9. \A u \in Names : table[u] \in Seq(Block) /\ Len(table[u]) \in Nat
    BY <1>7
  <1>10. \A u \in Names : c[u] \in Nat
    BY <1>7, <1>9
  <1>11. table' = [u \in Names |-> Cut(table[u], c[u])]
    <2>1. \A u \in Names : u # t => Cut(table[u], c[u]) = table[u]
      <3> TAKE u \in Names
      <3>1. Cut(table[u], Len(table[u])) = table[u]
        BY <1>9, CutKeeps
      <3> QED BY <3>1
    <2>2. table' = [u \in Names |-> IF u = t THEN Cut(table[t], trn.items) ELSE table[u]]
      BY <1>3, <1>7
    <2>3. c[t] = trn.items
      BY <1>7
    <2> HIDE DEF c
    <2> QED BY <2>1, <2>2, <2>3
  <1>12. (\A u \in Names : u # t => c[u] = Len(table[u])) /\ c[t] = trn.items
    BY <1>7
  <1> HIDE DEF c
  <1>13. /\ table' \in [Names -> Seq(Block)] /\ ItemsAgree'
         /\ \A u \in Names : Len(table'[u]) = IF c[u] <= Len(table[u]) THEN c[u] ELSE Len(table[u])
    BY <1>1, <1>10, <1>11, CutTables
  <1>14. HalfCut'
    <2>1. Len(table[t]) = frozen
      BY <1>3, <1>7, <1>8 DEF HalfCut
    <2>2. Len(table'[t]) = trn.items
      BY <1>7, <1>8, <1>12, <1>13, <2>1
    <2>3. \A u \in Names : u # t => Len(table'[u]) = Len(table[u])
      BY <1>9, <1>12, <1>13
    <2> QED BY <1>2, <1>5, <1>8, <2>2, <2>3 DEF HalfCut
  <1>15. Typed'
    <2>1. st = "open"
      BY <1>1, <1>4, WhileCut
    <2> QED BY <1>1, <1>2, <1>6, <1>13, <2>1 DEF Typed
  <1>16. HeadsOrdered' /\ CutAlone'
    BY <1>1, <1>2, <1>4, <1>5 DEF HeadsOrdered, CutAlone, Ancients
  <1>17. TablesAt'
    BY <1>2, <1>5, <1>6, <1>8, <1>14 DEF TablesAt
  <1> QED BY <1>13, <1>15, <1>16, <1>17 DEF AncientInv

LEMMA TruncateDoneKeeps ==
    ASSUME AncientInv, TruncateDone
    PROVE  AncientInv'
  <1>1. Typed /\ HeadsOrdered /\ ItemsAgree /\ TablesAt
    BY DEF AncientInv
  <1>2. /\ trn.pc = "cut" /\ trn.left = {} /\ frozen' = trn.items /\ trn' = Idle
        /\ table' = table /\ canon' = canon /\ kvHeader' = kvHeader /\ kvBody' = kvBody
        /\ hdr' = hdr /\ fast' = fast /\ full' = full /\ dbFull' = dbFull /\ chain' = chain
        /\ st' = st /\ w' = w /\ rew' = rew
    BY DEF TruncateDone, kv, heads
  <1>3. trn # Idle
    BY <1>2 DEF Idle
  <1>4. trn.items \in Nat /\ w.pc # "append" /\ st = "open" /\ HalfCut
    BY <1>1, <1>3, WhileCut DEF TablesAt
  <1>5. Even'
    BY <1>2, <1>4 DEF Even, HalfCut
  <1>6. Typed'
    BY <1>1, <1>2, <1>4 DEF Typed, Cuts
  <1>7. HeadsOrdered' /\ ItemsAgree' /\ TablesAt'
    BY <1>1, <1>2, <1>4, <1>5 DEF HeadsOrdered, ItemsAgree, TablesAt, Ancients
  <1> QED BY <1>2, <1>6, <1>7, NotCut DEF AncientInv

\* A cut starts on tables that nothing is being appended to.
LEMMA CutStarts ==
    ASSUME AncientInv, st = "open", trn = Idle, NEW n \in Nat, TruncateStart(n),
           table' = table, frozen' = frozen, st' = st,
           w' = w \/ (w.pc # "append" /\ w'.pc # "append"),
           trn' # Idle => w.pc # "append"
    PROVE  /\ ItemsAgree' /\ TablesAt' /\ trn' \in Cuts
           /\ trn' # Idle => trn'.items = n
  <1>1. Typed /\ ItemsAgree /\ TablesAt
    BY DEF AncientInv
  <1>2. table \in [Names -> Seq(Block)] /\ frozen \in Nat
    BY <1>1 DEF Typed
  <1>3. CASE frozen <= n
    <2>1. trn' = trn
      BY <1>3 DEF TruncateStart
    <2> QED BY <2>1, Untouched DEF Cuts
  <1>4. CASE ~(frozen <= n)
    <2>1. trn' = [pc |-> "cut", items |-> n, left |-> Names]
      BY <1>4 DEF TruncateStart
    <2>2. trn' \in Cuts /\ trn' # Idle /\ trn'.items = n /\ trn'.left = Names /\ n < frozen
      BY <1>2, <1>4, <2>1 DEF Cuts, Idle
    <2>3. w.pc # "append" /\ w'.pc # "append"
      BY <2>2
    <2>4. Even
      BY <1>1, <2>3 DEF TablesAt
    <2>5. HalfCut'
      BY <2>2, <2>4 DEF HalfCut, Even
    <2>6. ItemsAgree'
      BY <1>1 DEF ItemsAgree
    <2> QED BY <2>2, <2>3, <2>5, <2>6 DEF TablesAt
  <1> QED BY <1>3, <1>4

LEMMA UndoKeeps ==
    ASSUME AncientInv, Undo
    PROVE  AncientInv'
  <1>1. Typed /\ HeadsOrdered /\ w \in Writers
    BY DEF AncientInv, Typed
  <1>2. /\ st = "open" /\ w.pc = "undo" /\ trn = Idle /\ TruncateStart(w.prev + 1)
        /\ w' = [w EXCEPT !.pc = "undone"]
        /\ table' = table /\ frozen' = frozen /\ canon' = canon /\ kvHeader' = kvHeader
        /\ kvBody' = kvBody /\ hdr' = hdr /\ fast' = fast /\ full' = full /\ dbFull' = dbFull
        /\ st' = st /\ rew' = rew /\ chain' = chain
    BY DEF Undo, tables, kv, heads, history
  <1>3. w \in FastWriter
    BY <1>1, <1>2, WriterKinds
  <1>4. w.prev + 1 \in Nat
    BY <1>3, FreezerAssumption DEF FastWriter, Numbers
  <1>5. w' \in Writers /\ w'.pc = "undone"
    BY <1>2, <1>3, FastMoves
  <1>6. ItemsAgree' /\ TablesAt' /\ trn' \in Cuts
    BY <1>2, <1>4, <1>5, CutStarts
  <1>7. Typed'
    BY <1>1, <1>2, <1>5, <1>6 DEF Typed
  <1>8. HeadsOrdered' /\ CutAlone'
    BY <1>1, <1>2, <1>5 DEF HeadsOrdered, CutAlone
  <1> QED BY <1>6, <1>7, <1>8 DEF AncientInv

LEMMA SetHeadStepKeeps ==
    ASSUME AncientInv, SetHeadStep, ~raced'
    PROVE  AncientInv'
  <1> DEFINE parent == <<hdr - 1, chain[hdr - 1]>>
             block == IF ReadBlock(parent) = None THEN 0 ELSE hdr - 1
  <1>1. Typed /\ HeadsOrdered
    BY DEF AncientInv
  <1>2. /\ st = "open" /\ rew.pc = "step" /\ trn = Idle /\ hdr > rew.target
        /\ full' = (IF hdr - 1 < full THEN block ELSE full)
        /\ dbFull' = (IF hdr - 1 < full THEN block ELSE dbFull)
        /\ fast' = (IF hdr - 1 < fast THEN block ELSE fast)
        /\ hdr' = hdr - 1
        /\ TruncateStart(hdr + 1) \/ trn' = trn
        /\ raced' = (raced \/ (w # Idle /\ (trn' # Idle \/ hdr <= w.limit)))
        /\ rew' = [rew EXCEPT !.gone = @ \cup {<<hdr, chain[hdr]>>}]
        /\ table' = table /\ frozen' = frozen /\ canon' = canon /\ kvHeader' = kvHeader
        /\ kvBody' = kvBody /\ st' = st /\ w' = w /\ chain' = chain
    BY DEF SetHeadStep, tables, kv
  <1>3. /\ rew \in [pc : {"step"}, target : Nat, gone : SUBSET Block]
        /\ hdr \in 0..Height /\ Height \in Nat /\ full \in Nat /\ fast \in Nat /\ dbFull \in Nat
        /\ fast \in Numbers /\ full \in Numbers /\ dbFull \in Numbers
        /\ chain \in [Numbers -> Versions \cup {None}]
    BY <1>1, <1>2, FreezerAssumption DEF Typed, Rewinds, Idle, Numbers
  <1>4. hdr >= 1 /\ hdr - 1 \in Numbers /\ hdr \in Numbers /\ hdr + 1 \in Nat
    BY <1>2, <1>3 DEF Numbers
  <1>5. block \in Numbers /\ block <= hdr - 1 /\ block \in Nat
    BY <1>3, <1>4 DEF Numbers
  <1> HIDE DEF block
  <1>6. /\ full' \in Numbers /\ dbFull' \in Numbers /\ fast' \in Numbers
        /\ dbFull' <= full' /\ dbFull' <= hdr - 1
    <2>1. full' \in Numbers /\ dbFull' \in Numbers /\ fast' \in Numbers
      BY <1>2, <1>3, <1>5
    <2>2. dbFull <= full
      BY <1>1 DEF HeadsOrdered
    <2>3. CASE hdr - 1 < full
      <3>1. full' = block /\ dbFull' = block
        BY <1>2, <2>3
      <3> QED BY <1>5, <2>1, <3>1
    <2>4. CASE ~(hdr - 1 < full)
      <3>1. full' = full /\ dbFull' = dbFull
        BY <1>2, <2>4
      <3> QED BY <1>3, <1>4, <2>1, <2>2, <2>4, <3>1
    <2> QED BY <2>3, <2>4
  <1>7. rew' \in Rewinds /\ rew' # Idle
    <2>1. <<hdr, chain[hdr]>> \in Block
      BY <1>3, <1>4 DEF Block
    <2>2. rew' \in [pc : {"step"}, target : Nat, gone : SUBSET Block]
      BY <1>2, <1>3, <2>1
    <2> QED BY <2>2 DEF Rewinds, Idle
  <1>8. trn' # Idle => w = Idle /\ w.pc # "append"
    <2>1. trn' # Idle => w = Idle
      BY <1>2, Zenon
    <2> QED BY <2>1 DEF Idle
  <1>9. ItemsAgree' /\ TablesAt' /\ trn' \in Cuts /\ (trn' # Idle => trn'.items = hdr + 1)
    <2>1. CASE TruncateStart(hdr + 1)
      BY <1>2, <1>4, <1>8, <2>1, CutStarts
    <2>2. CASE trn' = trn
      BY <1>2, <2>2, Untouched DEF Cuts
    <2> QED BY <1>2, <2>1, <2>2
  <1>10. Typed'
    BY <1>1, <1>2, <1>4, <1>6, <1>7, <1>9 DEF Typed
  <1>11. HeadsOrdered'
    BY <1>1, <1>2, <1>6 DEF HeadsOrdered, Ancients
  <1>12. CutAlone'
    <2>1. hdr' < hdr + 1 /\ dbFull' < hdr + 1
      <3>1. dbFull' \in Nat
        BY <1>6, <1>3 DEF Numbers
      <3> QED BY <1>2, <1>3, <1>6, <3>1
    <2>2. ASSUME trn' # Idle
          PROVE  rew' # Idle /\ hdr' < trn'.items /\ dbFull' < trn'.items /\ w' = Idle
      BY <1>2, <1>7, <1>8, <1>9, <2>1, <2>2
    <2> QED BY <2>2 DEF CutAlone
  <1> QED BY <1>9, <1>10, <1>11, <1>12 DEF AncientInv

\* Stepping a head back leaves a number that is not above it, nor below low.
LEMMA RolledBackTo ==
    ASSUME NEW h \in Numbers, NEW low \in Nat, NEW hash
    PROVE  /\ RolledBack(h, low, hash) \in Numbers
           /\ h <= low => RolledBack(h, low, hash) = h
           /\ h > low => RolledBack(h, low, hash) >= low
           /\ (h > low /\ \A n \in Numbers : hash[n] = <<n, chain[n]>>)
                  => RolledBack(h, low, hash) = low
  <1> DEFINE S == {low} \cup {n \in (low + 1)..h : hash[n] # <<n, chain[n]>>}
  <1>1. h \in 0..Height /\ h \in Nat /\ Height \in Nat
    BY FreezerAssumption DEF Numbers
  <1>2. CASE h <= low
    <2>1. RolledBack(h, low, hash) = h /\ ~(h > low)
      BY <1>1, <1>2 DEF RolledBack
    <2> QED BY <1>2, <2>1
  <1>3. CASE ~(h <= low)
    <2>1. RolledBack(h, low, hash) = Max(S)
      BY <1>3 DEF RolledBack
    <2>2. S \in SUBSET (0..Height) /\ S # {} /\ low \in S
      BY <1>1, <1>3
    <2>3. (\A n \in Numbers : hash[n] = <<n, chain[n]>>) => S = {low}
      BY <1>1, <1>3 DEF Numbers
    <2> HIDE DEF S
    <2>4. Max(S) \in S /\ Max(S) >= low
      BY <1>1, <2>2, MaxOfNats
    <2>5. Max(S) \in Numbers
      BY <2>2, <2>4 DEF Numbers
    <2> QED BY <1>3, <2>1, <2>3, <2>4, <2>5
  <1> QED BY <1>2, <1>3

LEMMA RollbackKeeps ==
    ASSUME AncientInv, Rollback, ~raced'
    PROVE  AncientInv'
  <1>1. Typed /\ HeadsOrdered
    BY DEF AncientInv
  <1>2. /\ st = "open" /\ rew = Idle /\ trn = Idle /\ full = 0
        /\ raced' = (raced \/ (w # Idle /\ (trn' # Idle \/ hdr' < w.prev)))
        /\ table' = table /\ frozen' = frozen /\ canon' = canon /\ kvHeader' = kvHeader
        /\ kvBody' = kvBody /\ full' = full /\ dbFull' = dbFull
        /\ st' = st /\ w' = w /\ chain' = chain
    BY DEF Rollback, tables, kv
  <1> DEFINE hash == [n \in Numbers |-> <<n, chain[n]>>]
  <1>3. PICK low \in 0..(hdr - 1) :
          /\ hdr' = RolledBack(hdr, low, hash) /\ fast' = RolledBack(fast, low, hash)
          /\ rew' = [pc |-> "roll"] /\ TruncateStart(low + 1)
    BY DEF Rollback
  <1>4. hdr \in Numbers /\ fast \in Numbers /\ dbFull \in Nat /\ low \in Nat /\ low + 1 \in Nat /\ hdr > low
    BY <1>1, FreezerAssumption DEF Typed, Numbers
  <1>5. \A n \in Numbers : hash[n] = <<n, chain[n]>>
    OBVIOUS
  <1> HIDE DEF hash
  <1>6. hdr' = low /\ hdr' \in Numbers /\ fast' \in Numbers
    BY <1>3, <1>4, <1>5, RolledBackTo
  <1>7. dbFull = 0
    BY <1>1, <1>2, <1>4 DEF HeadsOrdered
  <1>8. trn' # Idle => w = Idle /\ w.pc # "append"
    <2>1. trn' # Idle => w = Idle
      BY <1>2, Zenon
    <2> QED BY <2>1 DEF Idle
  <1>9. ItemsAgree' /\ TablesAt' /\ trn' \in Cuts /\ (trn' # Idle => trn'.items = low + 1)
    BY <1>2, <1>3, <1>4, <1>8, CutStarts
  <1>10. rew' \in Rewinds /\ rew' # Idle
    BY <1>3 DEF Rewinds, Idle
  <1>11. Typed'
    BY <1>1, <1>2, <1>6, <1>9, <1>10 DEF Typed
  <1>12. HeadsOrdered'
    BY <1>1, <1>2 DEF HeadsOrdered, Ancients
  <1>13. CutAlone'
    <2>1. hdr' < low + 1 /\ dbFull' < low + 1
      BY <1>2, <1>4, <1>6, <1>7
    <2>2. ASSUME trn' # Idle
          PROVE  rew' # Idle /\ hdr' < trn'.items /\ dbFull' < trn'.items /\ w' = Idle
      BY <1>2, <1>8, <1>9, <1>10, <2>1, <2>2
    <2> QED BY <2>2 DEF CutAlone
  <1> QED BY <1>9, <1>11, <1>12, <1>13 DEF AncientInv

-----------------------------------------------------------------------------
(* Crashes, and opening *)

LEMMA CrashKeeps ==
    ASSUME AncientInv, Crash
    PROVE  AncientInv'
  <1>1. Typed /\ ItemsAgree
    BY DEF AncientInv
  <1>2. /\ ProcessEnds /\ frozen' = frozen /\ canon' = canon /\ kvHeader' = kvHeader
        /\ kvBody' = kvBody /\ hdr' = hdr /\ fast' = fast /\ full' = full /\ dbFull' = dbFull
        /\ chain' = chain
    BY DEF Crash, kv, heads
  <1>3. PICK keep \in [Names -> 0..(Height + 1)] :
          table' = [t \in Names |-> Cut(table[t], keep[t])]
    BY DEF Crash
  <1>4. \A t \in Names : keep[t] \in Nat
    BY FreezerAssumption
  <1>5. table' \in [Names -> Seq(Block)] /\ ItemsAgree'
    BY <1>1, <1>3, <1>4, CutTables
  <1>6. frozen' \in Nat
    BY <1>1, <1>2 DEF Typed
  <1> QED BY <1>2, <1>5, <1>6, EndKeeps

LEMMA CutTwice ==
    ASSUME NEW X, NEW q \in Seq(X), NEW n \in Nat, NEW m \in Nat, m <= n
    PROVE  Cut(Cut(q, n), m) = Cut(q, m)
  <1>1. /\ Cut(q, n) \in Seq(X)
        /\ Len(Cut(q, n)) = IF n <= Len(q) THEN n ELSE Len(q)
        /\ \A i \in 1..Len(Cut(q, n)) : Cut(q, n)[i] = q[i]
    BY CutKeeps
  <1> DEFINE r == Cut(q, n)
  <1>2. r \in Seq(X) /\ Len(r) \in Nat /\ Len(q) \in Nat
    BY <1>1
  <1> HIDE DEF r
  <1>3. /\ Cut(r, m) \in Seq(X)
        /\ Len(Cut(r, m)) = IF m <= Len(r) THEN m ELSE Len(r)
        /\ \A i \in 1..Len(Cut(r, m)) : Cut(r, m)[i] = r[i]
    BY <1>2, CutKeeps
  <1>4. /\ Cut(q, m) \in Seq(X)
        /\ Len(Cut(q, m)) = IF m <= Len(q) THEN m ELSE Len(q)
        /\ \A i \in 1..Len(Cut(q, m)) : Cut(q, m)[i] = q[i]
    BY CutKeeps
  <1>5. Len(r) = (IF n <= Len(q) THEN n ELSE Len(q)) /\ \A i \in 1..Len(r) : r[i] = q[i]
    BY <1>1 DEF r
  <1>6. Len(Cut(r, m)) = Len(Cut(q, m))
    BY <1>2, <1>3, <1>4, <1>5
  <1>7. \A i \in 1..Len(Cut(q, m)) : Cut(r, m)[i] = Cut(q, m)[i]
    <2> TAKE i \in 1..Len(Cut(q, m))
    <2>1. i \in 1..Len(r)
      BY <1>2, <1>3, <1>6
    <2> QED BY <1>3, <1>4, <1>5, <1>6, <2>1
  <1>8. Cut(r, m) = Cut(q, m)
    <2> DEFINE a == Cut(r, m)
               b == Cut(q, m)
    <2>1. a \in Seq(X) /\ b \in Seq(X) /\ Len(a) = Len(b) /\ \A i \in 1..Len(b) : a[i] = b[i]
      BY <1>3, <1>4, <1>6, <1>7
    <2> HIDE DEF a, b
    <2>2. a = b
      BY <2>1, SeqEqual
    <2> QED BY <2>2 DEF a, b
  <1> QED BY <1>8 DEF r

\* The tables never hold more blocks than there are numbers.
LEMMA TablesBounded ==
    ASSUME Typed, ItemsAgree, NEW t \in Names, Len(table[t]) > 0
    PROVE  Len(table[t]) - 1 \in Numbers
  <1> DEFINE n == Len(table[t])
  <1>1. table[t] \in Seq(Block) /\ n \in 1..Len(table[t])
    BY DEF Typed
  <1>2. table[t][n] \in Block /\ table[t][n][1] = n - 1
    BY <1>1 DEF ItemsAgree
  <1> QED BY <1>2 DEF Block

\* A database that is opened has even tables, which end at its fast block or
\* before; one that is refused is left as it was found.
LEMMA OpenKeeps ==
    ASSUME AncientInv, Open
    PROVE  AncientInv' /\ (st' = "open" => frozen' <= fast' + 1)
  <1> DEFINE n == Shortest
             tab == [t \in Names |-> Cut(table[t], n)]
             empty == hdr = 0 /\ fast = 0 /\ dbFull = 0 /\ n > 0
             hdr1 == IF empty THEN n - 1 ELSE hdr
             fast1 == IF empty THEN n - 1 ELSE fast
             hash == [i \in Numbers |-> IF i < n THEN tab["hashes"][i + 1] ELSE <<i, canon[i]>>]
             behind == Behind(fast1, n)
             low == Min(behind)
             kept == IF behind = {} THEN n ELSE Min({n, low + 1})
  <1>1. Typed /\ HeadsOrdered /\ ItemsAgree
    BY DEF AncientInv
  <1>2. /\ st = "closed" /\ canon' = canon /\ kvHeader' = kvHeader /\ kvBody' = kvBody
        /\ w' = w /\ trn' = trn /\ rew' = rew
    BY DEF Open, kv
  <1>3. w = Idle /\ trn = Idle /\ rew = Idle /\ w.pc # "append" /\ w.pc # "head"
    BY <1>1, <1>2 DEF Typed, Idle
  <1>4. CASE st' = "refused" /\ UNCHANGED <<tables, heads, chain, stale>>
    <2>1. /\ table' = table /\ frozen' = frozen /\ hdr' = hdr /\ fast' = fast
          /\ full' = full /\ dbFull' = dbFull /\ chain' = chain
      BY <1>4 DEF tables, heads
    <2>2. Typed'
      BY <1>1, <1>2, <1>3, <1>4, <2>1 DEF Typed
    <2>3. HeadsOrdered' /\ ItemsAgree' /\ TablesAt'
      BY <1>1, <1>2, <1>3, <1>4, <2>1 DEF HeadsOrdered, ItemsAgree, TablesAt
    <2> QED BY <1>2, <1>3, <1>4, <2>2, <2>3, NotCut DEF AncientInv
  <1>5. CASE /\ st' = "open"
             /\ table' = [t \in Names |-> Cut(tab[t], kept)]
             /\ frozen' = kept
             /\ chain' = [i \in Numbers |-> IF empty /\ i < n THEN hash[i][2] ELSE chain[i]]
             /\ hdr' = IF behind = {} THEN hdr1 ELSE RolledBack(hdr1, low, hash)
             /\ fast' = IF behind = {} THEN fast1 ELSE RolledBack(fast1, low, hash)
             /\ dbFull' = IF behind = {} THEN dbFull ELSE RolledBack(dbFull, low, hash)
             /\ full' = dbFull'
    <2>1. /\ hdr \in Numbers /\ fast \in Numbers /\ dbFull \in Numbers /\ Numbers \subseteq Nat
          /\ table \in [Names -> Seq(Block)] /\ chain \in [Numbers -> Versions \cup {None}]
          /\ "hashes" \in Names
      BY <1>1, TablesNamed DEF Typed, Numbers
    <2>2. /\ n \in Nat /\ \A t \in Names : n <= Len(table[t]) /\ Len(table[t]) \in Nat
          /\ n > 0 => n - 1 \in Numbers
      <3>1. /\ n \in Nat /\ \A t \in Names : n <= Len(table[t])
            /\ \E t \in Names : n = Len(table[t])
        BY <1>1, ShortestTable
      <3>2. \A t \in Names : Len(table[t]) \in Nat
        BY <2>1
      <3> HIDE DEF n
      <3>3. n > 0 => n - 1 \in Numbers
        BY <1>1, <3>1, TablesBounded
      <3> QED BY <3>1, <3>2, <3>3
    <2>3. chain' \in [Numbers -> Versions \cup {None}]
      <3>1. /\ tab["hashes"] \in Seq(Block) /\ Len(tab["hashes"]) = n
        <4> DEFINE q == table["hashes"]
        <4>1. q \in Seq(Block) /\ tab["hashes"] = Cut(q, n) /\ n <= Len(q) /\ n \in Nat
          BY <2>1, <2>2
        <4> HIDE DEF q, n, tab
        <4>2. Cut(q, n) \in Seq(Block) /\ Len(Cut(q, n)) = IF n <= Len(q) THEN n ELSE Len(q)
          BY <4>1, CutKeeps
        <4> QED BY <4>1, <4>2
      <3> HIDE DEF n, tab
      <3>2. \A i \in Numbers : i < n => hash[i] \in Block
        <4> SUFFICES ASSUME NEW i \in Numbers, i < n PROVE tab["hashes"][i + 1] \in Block
          OBVIOUS
        <4>1. i + 1 \in 1..Len(tab["hashes"])
          BY <2>1, <2>2, <3>1
        <4> QED BY <3>1, <4>1
      <3>3. \A i \in Numbers : i < n => hash[i][2] \in Versions \cup {None}
        <4> HIDE DEF hash
        <4> QED BY <3>2 DEF Block
      <3> HIDE DEF hash, empty
      <3> QED BY <1>5, <2>1, <3>3
    <2> HIDE DEF n, tab, hash
    <2>4. hdr1 \in Numbers /\ fast1 \in Numbers
      BY <2>1, <2>2
    <2> HIDE DEF empty, hdr1, fast1
    <2>5. /\ behind \in SUBSET Nat
          /\ fast1 \in behind \/ n <= fast1 + 1
      BY <2>1, <2>2, <2>4 DEF Behind
    <2> HIDE DEF behind
    <2>6. ASSUME behind # {} PROVE low \in Nat /\ \A h \in behind : low <= h
      BY <2>5, <2>6, MinOfNats
    <2> HIDE DEF low
    <2>7. kept \in Nat /\ kept <= n /\ (behind # {} => kept <= low + 1)
      <3>1. CASE behind = {}
        BY <2>2, <3>1
      <3>2. CASE behind # {}
        <4>1. low + 1 \in Nat /\ n \in Nat
          BY <2>2, <2>6, <3>2
        <4>2. Min({n, low + 1}) = IF n <= low + 1 THEN n ELSE low + 1
          BY <4>1, MinOfPair
        <4> QED BY <3>2, <4>1, <4>2
      <3> QED BY <3>1, <3>2
    <2> HIDE DEF kept
    <2>8. hdr' \in Numbers /\ fast' \in Numbers /\ dbFull' \in Numbers
      <3>1. CASE behind = {}
        BY <1>5, <2>1, <2>4, <3>1
      <3>2. CASE behind # {}
        BY <1>5, <2>1, <2>4, <2>6, <3>2, RolledBackTo
      <3> QED BY <3>1, <3>2
    <2>9. frozen' <= fast' + 1
      <3>1. CASE behind = {}
        BY <1>5, <2>1, <2>2, <2>4, <2>5, <2>7, <3>1
      <3>2. CASE behind # {}
        <4>1. fast' = RolledBack(fast1, low, hash) /\ low \in Nat
          BY <1>5, <2>6, <3>2
        <4>2. (fast1 <= low => fast' = fast1) /\ (fast1 > low => fast' >= low)
          BY <2>4, <4>1, RolledBackTo
        <4>3. kept <= low + 1 /\ (fast1 \in behind => low <= fast1)
          BY <2>6, <2>7, <3>2
        <4> QED BY <1>5, <2>1, <2>2, <2>4, <2>5, <2>7, <2>8, <4>1, <4>2, <4>3
      <3> QED BY <3>1, <3>2
    <2> DEFINE c == [t \in Names |-> kept]
    <2>10. \A t \in Names : c[t] = kept
      OBVIOUS
    <2>11. table' = [t \in Names |-> Cut(table[t], c[t])]
      <3>1. \A t \in Names : Cut(tab[t], kept) = Cut(table[t], kept)
        <4> TAKE t \in Names
        <4>1. tab[t] = Cut(table[t], n)
          BY DEF tab
        <4>2. table[t] \in Seq(Block)
          BY <2>1
        <4>3. Cut(Cut(table[t], n), kept) = Cut(table[t], kept)
          BY <2>2, <2>7, <4>2, CutTwice
        <4> QED BY <4>1, <4>3
      <3> HIDE DEF c
      <3> QED BY <1>5, <2>10, <3>1
    <2> HIDE DEF c
    <2>12. /\ table' \in [Names -> Seq(Block)] /\ ItemsAgree'
           /\ \A t \in Names : Len(table'[t]) = IF c[t] <= Len(table[t]) THEN c[t] ELSE Len(table[t])
      BY <1>1, <2>7, <2>10, <2>11, CutTables
    <2>13. Even'
      <3>1. \A t \in Names : Len(table'[t]) = kept
        BY <2>2, <2>7, <2>10, <2>12
      <3> QED BY <1>5, <3>1 DEF Even
    <2>14. Typed'
      <3>1. full' \in Numbers /\ frozen' \in Nat
        BY <1>5, <2>7, <2>8
      <3> QED BY <1>1, <1>2, <1>3, <1>5, <2>3, <2>8, <2>12, <3>1 DEF Typed
    <2>15. HeadsOrdered'
      BY <1>2, <1>3, <1>5, <2>1, <2>8 DEF HeadsOrdered
    <2>16. TablesAt'
      BY <1>2, <1>3, <2>13 DEF TablesAt
    <2> QED BY <1>2, <1>3, <2>9, <2>12, <2>14, <2>15, <2>16, NotCut DEF AncientInv
  <1>6. \/ st' = "refused" /\ UNCHANGED <<tables, heads, chain, stale>>
        \/ /\ st' = "open"
           /\ table' = [t \in Names |-> Cut(tab[t], kept)]
           /\ frozen' = kept
           /\ chain' = [i \in Numbers |-> IF empty /\ i < n THEN hash[i][2] ELSE chain[i]]
           /\ hdr' = IF behind = {} THEN hdr1 ELSE RolledBack(hdr1, low, hash)
           /\ fast' = IF behind = {} THEN fast1 ELSE RolledBack(fast1, low, hash)
           /\ dbFull' = IF behind = {} THEN dbFull ELSE RolledBack(dbFull, low, hash)
           /\ full' = dbFull'
    BY Zenon DEF Open
  <1> QED BY <1>4, <1>5, <1>6

-----------------------------------------------------------------------------
(* The invariant and the theorem *)

LEMMA InitHolds == Init => FreezerInv
  <1> SUFFICES ASSUME Init PROVE AncientInv
    BY DEF FreezerInv
  <1> DEFINE v == CHOOSE x \in Versions : TRUE
  <1>1. /\ table = [t \in Names |-> <<>>] /\ frozen = 0
        /\ canon = [n \in Numbers |-> IF n = 0 THEN v ELSE None] /\ chain = canon
        /\ kvHeader = {<<0, v>>} /\ kvBody = kvHeader
        /\ hdr = 0 /\ fast = 0 /\ full = 0 /\ dbFull = 0
        /\ st = "open" /\ w = Idle /\ trn = Idle /\ rew = Idle
    BY DEF Init
  <1>2. v \in Versions
    BY FreezerAssumption
  <1>3. 0 \in Numbers
    BY FreezerAssumption DEF Numbers
  <1> HIDE DEF v
  <1>4. table \in [Names -> Seq(Block)] /\ \A t \in Names : Len(table[t]) = 0
    BY <1>1
  <1>5. kvHeader \subseteq Block
    BY <1>1, <1>2, <1>3 DEF Block
  <1>6. Typed
    BY <1>1, <1>2, <1>3, <1>4, <1>5 DEF Typed, Writers, Cuts, Rewinds, Idle
  <1>7. HeadsOrdered
    BY <1>1 DEF HeadsOrdered, Idle
  <1>8. ItemsAgree
    BY <1>4 DEF ItemsAgree
  <1>9. TablesAt /\ CutAlone
    BY <1>1, <1>4 DEF TablesAt, CutAlone, Even, Idle
  <1> QED BY <1>6, <1>7, <1>8, <1>9 DEF AncientInv

\* A rewind that was too deep is never undone.
LEMMA RacedStays ==
    ASSUME Next, raced
    PROVE  raced'
  <1>1. CASE Import \/ FreezeCheck \/ FreezeRead \/ AppendAncient \/ AppendAncientFails
             \/ FreezeSync \/ FreezeDeleteCanonical \/ FreezeDeleteSide
    BY <1>1 DEF Import, FreezeCheck, FreezeRead, AppendAncient, AppendAncientFails, FreezeSync,
                FreezeDeleteCanonical, FreezeDeleteSide, history
  <1>2. CASE TruncateTable \/ SetHeadStep \/ Rollback
    BY <1>2, Zenon DEF TruncateTable, SetHeadStep, Rollback
  <1>3. CASE TruncateDone \/ SetHead \/ SetHeadDone \/ ImportHeader \/ InsertReceiptChain
             \/ WriteAncient \/ WriteAncientStops \/ AncientWritten
    BY <1>3 DEF TruncateDone, SetHead, SetHeadDone, ImportHeader, InsertReceiptChain,
                WriteAncient, WriteAncientStops, AncientWritten, history
  <1>4. CASE UpdateHead \/ Undo \/ Undone \/ DeleteWritten \/ DeleteBeside
             \/ WriteLive \/ UpdateLiveHead \/ FastSyncCommitHead \/ RollbackDone \/ Crash \/ Open
    BY <1>4 DEF UpdateHead, Undo, Undone, DeleteWritten, DeleteBeside, WriteLive, UpdateLiveHead,
                FastSyncCommitHead, RollbackDone, Crash, Open, history
  <1> QED BY <1>1, <1>2, <1>3, <1>4, Zenon DEF Next

LEMMA NextKeeps ==
    ASSUME FreezerInv, [Next]_vars
    PROVE  FreezerInv'
  <1> SUFFICES ASSUME ~raced' PROVE AncientInv'
    BY DEF FreezerInv
  <1>1. CASE Next
    <2>1. AncientInv
      BY <1>1, RacedStays, Zenon DEF FreezerInv
    <2>2. CASE Import \/ ImportHeader
      BY <2>1, <2>2, ImportKeeps, ImportHeaderKeeps
    <2>3. CASE \/ FreezeCheck \/ FreezeRead \/ FreezeSync \/ FreezeDeleteCanonical \/ FreezeDeleteSide
      BY <2>1, <2>3, FreezeCheckKeeps, FreezeReadKeeps, FreezeStepsKeep
    <2>4. CASE AppendAncient \/ AppendAncientFails
      BY <2>1, <2>4, AppendAncientKeeps, AppendAncientFailsKeeps
    <2>5. CASE TruncateTable \/ TruncateDone
      BY <2>1, <2>5, TruncateTableKeeps, TruncateDoneKeeps
    <2>6. CASE SetHead \/ SetHeadDone \/ FastSyncCommitHead \/ RollbackDone
      BY <2>1, <2>6, HeadsKeep
    <2>7. CASE SetHeadStep \/ Rollback
      BY <2>1, <2>7, SetHeadStepKeeps, RollbackKeeps
    <2>8. CASE InsertReceiptChain \/ WriteAncient \/ Undo
      BY <2>1, <2>8, InsertReceiptChainKeeps, WriteAncientKeeps, UndoKeeps
    <2>9. CASE \/ WriteAncientStops \/ AncientWritten \/ UpdateHead \/ Undone
               \/ DeleteWritten \/ DeleteBeside \/ WriteLive \/ UpdateLiveHead
      BY <2>1, <2>9, FastStepsKeep
    <2>10. CASE Crash \/ Open
      BY <2>1, <2>10, CrashKeeps, OpenKeeps
    <2> QED BY <1>1, <2>2, <2>3, <2>4, <2>5, <2>6, <2>7, <2>8, <2>9, <2>10, Zenon DEF Next
  <1>2. CASE UNCHANGED vars
    <2>1. /\ table' = table /\ frozen' = frozen /\ canon' = canon /\ kvHeader' = kvHeader
          /\ kvBody' = kvBody /\ hdr' = hdr /\ fast' = fast /\ full' = full /\ dbFull' = dbFull
          /\ st' = st /\ w' = w /\ trn' = trn /\ rew' = rew /\ chain' = chain /\ raced' = raced
      BY <1>2 DEF vars, tables, kv, heads, control, history
    <2>2. AncientInv
      BY <2>1 DEF FreezerInv
    <2>3. Typed' /\ HeadsOrdered' /\ CutAlone'
      BY <2>1, <2>2 DEF AncientInv, Typed, HeadsOrdered, CutAlone, Ancients
    <2> QED BY <2>1, <2>2, <2>3, Untouched DEF AncientInv
  <1> QED BY <1>1, <1>2

\* What the invariant says of tables that nothing is being done to.
LEMMA InvAligned == FreezerInv => TablesAligned
  <1> SUFFICES ASSUME AncientInv, st = "open", trn = Idle, w.pc # "append",
                      NEW t \in Names
               PROVE  /\ Len(table[t]) = frozen
                      /\ \A n \in 1..frozen : /\ table[t][n] = table["hashes"][n]
                                             /\ table[t][n][1] = n - 1
    BY DEF FreezerInv, TablesAligned
  <1>1. Typed /\ ItemsAgree /\ Even
    BY DEF AncientInv, TablesAt
  <1>2. Len(table[t]) = frozen /\ Len(table["hashes"]) = frozen /\ "hashes" \in Names
    BY <1>1, TablesNamed DEF Even
  <1>3. frozen \in Nat
    BY <1>1 DEF Typed
  <1>4. \A n \in 1..frozen : n <= frozen
    BY <1>3
  <1> QED BY <1>1, <1>2, <1>4 DEF ItemsAgree

\* Only Open takes a database from closed to open.
LEMMA OpenedBehindHead ==
    ASSUME FreezerInv, Next
    PROVE  AncientsBehindHead
  <1> SUFFICES ASSUME st = "closed", st' = "open", ~raced
               PROVE  frozen' <= fast' + 1
    BY DEF AncientsBehindHead
  <1>1. Open
    BY DEF Next, Import, FreezeCheck, FreezeRead, AppendAncient, AppendAncientFails, FreezeSync,
           FreezeDeleteCanonical, FreezeDeleteSide, TruncateTable, TruncateDone, SetHead, SetHeadStep,
           SetHeadDone, ImportHeader, InsertReceiptChain, WriteAncient, WriteAncientStops,
           AncientWritten, UpdateHead, Undo, Undone, DeleteWritten, DeleteBeside, WriteLive,
           UpdateLiveHead, FastSyncCommitHead, Rollback, RollbackDone, Crash
  <1> QED BY <1>1, OpenKeeps DEF FreezerInv

(* However appends, cuts, failed writes, crashes and starts interleave, and *)
(* whatever the heights, tables, batch limits and threshold are: tables     *)
(* nothing is being done to all hold frozen items, the same block at every  *)
(* number, and a start-up never leaves them ahead of the fast block         *)
(* (AppendAncient with its repair, TruncateAncients, NewBlockChain).        *)
THEOREM TablesStayFit == Spec => TablesFit
  <1>1. Init => FreezerInv
    BY InitHolds
  <1>2. FreezerInv /\ [Next]_vars => FreezerInv'
    BY NextKeeps
  <1>3. FreezerInv' => TablesAligned'
    BY InvAligned, PTL
  <1>4. FreezerInv /\ [Next]_vars => [TablesAligned' /\ AncientsBehindHead]_vars
    <2> SUFFICES ASSUME FreezerInv, Next PROVE TablesAligned' /\ AncientsBehindHead
      OBVIOUS
    <2>1. FreezerInv'
      BY NextKeeps
    <2> QED BY <1>3, <2>1, OpenedBehindHead
  <1> QED BY <1>1, <1>2, <1>4, PTL DEF Spec, TablesFit

-----------------------------------------------------------------------------
(* What has its type whatever is raced *)

Stored == Numbers \X Versions

TablesTyped ==
    /\ table \in [Names -> Seq(Stored)] /\ tsync \in [Names -> Nat] /\ frozen \in 0..(Height + 1)
    /\ \A t \in Names : tsync[t] <= Len(table[t]) /\ Len(table[t]) <= Height + 1
StoreTyped ==
    /\ canon \in [Numbers -> Versions \cup {None}] /\ chain \in [Numbers -> Versions \cup {None}]
    /\ kvHeader \subseteq Stored /\ kvBody \subseteq Stored /\ stale \subseteq Numbers
HeadsTyped == hdr \in Numbers /\ fast \in Numbers /\ full \in Numbers /\ dbFull \in Numbers
ControlTyped ==
    /\ st \in {"open", "closed", "refused"}
    /\ w \in Writers /\ trn \in Cuts /\ rew \in Rewinds
    /\ w.pc = "head" => Ancients # {}
    /\ trn # Idle => trn.items <= Height
    /\ w.pc = "append" => w.blk \in Stored /\ w.k \in 1..Len(Tables) /\ frozen <= Height
    /\ st # "open" => w = Idle

TypeInv == TablesTyped /\ StoreTyped /\ HeadsTyped /\ ControlTyped

LEMMA NumbersAre ==
    /\ Numbers = 0..Height /\ Height \in Nat /\ 0 \in Numbers /\ Numbers \subseteq Nat
    /\ Stored \subseteq Block
  BY FreezerAssumption DEF Numbers, Stored, Block

\* A cut of the tables, and what it leaves.
LEMMA CutStored ==
    ASSUME TablesTyped, NEW c, \A t \in Names : c[t] \in Nat
    PROVE  \A t \in Names :
              /\ Cut(table[t], c[t]) \in Seq(Stored)
              /\ Len(Cut(table[t], c[t])) = IF c[t] <= Len(table[t]) THEN c[t] ELSE Len(table[t])
              /\ Len(Cut(table[t], c[t])) <= Height + 1
  <1> TAKE t \in Names
  <1> DEFINE q == table[t]
             m == c[t]
  <1>1. q \in Seq(Stored) /\ m \in Nat /\ Len(q) <= Height + 1 /\ Len(q) \in Nat
    BY DEF TablesTyped
  <1> HIDE DEF q, m
  <1>2. Cut(q, m) \in Seq(Stored) /\ Len(Cut(q, m)) = IF m <= Len(q) THEN m ELSE Len(q)
    BY <1>1, CutKeeps
  <1>3. Len(Cut(q, m)) <= Height + 1
    BY <1>1, <1>2, NumbersAre
  <1> QED BY <1>2, <1>3 DEF q, m

\* The shortest table, whatever is raced.
LEMMA ShortestStored ==
    ASSUME TablesTyped
    PROVE  /\ Shortest \in Nat /\ \A t \in Names : Shortest <= Len(table[t]) /\ Len(table[t]) \in Nat
           /\ \E t \in Names : Shortest = Len(table[t])
           /\ Shortest <= Height + 1
  <1> DEFINE S == {Len(table[t]) : t \in Names}
  <1>1. \A t \in Names : Len(table[t]) \in Nat
    BY DEF TablesTyped
  <1>2. "hashes" \in Names
    BY TablesNamed
  <1>3. S \in SUBSET Nat /\ S # {}
    BY <1>1, <1>2, Zenon
  <1>4. Shortest = Min(S)
    BY DEF Shortest
  <1>5. Min(S) \in S /\ \A m \in S : Min(S) <= m
    <2> HIDE DEF S
    <2> QED BY <1>3, MinOfNats
  <1> QED BY <1>1, <1>3, <1>4, <1>5 DEF TablesTyped

LEMMA RepairStored ==
    ASSUME TablesTyped, RepairTables
    PROVE  TablesTyped'
  <1>1. /\ table' = [t \in Names |-> Cut(table[t], Shortest)]
        /\ tsync' = [t \in Names |-> Min({tsync[t], Shortest})] /\ frozen' = Shortest
    BY DEF RepairTables
  <1>2. /\ Shortest \in Nat /\ \A t \in Names : Shortest <= Len(table[t])
        /\ Shortest <= Height + 1
    BY ShortestStored
  <1> DEFINE c == [t \in Names |-> Shortest]
  <1>3. \A t \in Names : c[t] = Shortest /\ c[t] \in Nat
    BY <1>2
  <1> HIDE DEF c
  <1>4. \A t \in Names : /\ Cut(table[t], Shortest) \in Seq(Stored)
                         /\ Len(Cut(table[t], Shortest)) = Shortest
    BY <1>2, <1>3, CutStored
  <1>5. \A t \in Names : Min({tsync[t], Shortest}) \in Nat /\ Min({tsync[t], Shortest}) <= Shortest
    <2> TAKE t \in Names
    <2>1. tsync[t] \in Nat
      BY DEF TablesTyped
    <2> QED BY <1>2, <2>1, MinOfPair
  <1>6. Shortest \in 0..(Height + 1)
    BY <1>2, NumbersAre
  <1>7. \A t \in Names : /\ table'[t] = Cut(table[t], Shortest) /\ table'[t] \in Seq(Stored)
                         /\ tsync'[t] \in Nat /\ tsync'[t] <= Shortest /\ Len(table'[t]) = Shortest
    BY <1>1, <1>4, <1>5
  <1>8. table' \in [Names -> Seq(Stored)] /\ tsync' \in [Names -> Nat]
    BY <1>1, <1>7
  <1> QED BY <1>1, <1>2, <1>6, <1>7, <1>8 DEF TablesTyped

-----------------------------------------------------------------------------
(* What Open works with *)

Empty == hdr = 0 /\ fast = 0 /\ dbFull = 0 /\ Shortest > 0
HdrFound == IF Empty THEN Shortest - 1 ELSE hdr
FastFound == IF Empty THEN Shortest - 1 ELSE fast
HashFound == [i \in Numbers |-> IF i < Shortest THEN [t \in Names |-> Cut(table[t], Shortest)]["hashes"][i + 1]
                                ELSE <<i, canon[i]>>]
HeadsBehind == Behind(FastFound, Shortest)
Lowest == Min(HeadsBehind)
KeptItems == IF HeadsBehind = {} THEN Shortest ELSE Min({Shortest, Lowest + 1})
Found(head) == IF HeadsBehind = {} THEN head ELSE RolledBack(head, Lowest, HashFound)

Opened ==
    /\ st' = "open"
    /\ table' = [t \in Names |-> Cut([u \in Names |-> Cut(table[u], Shortest)][t], KeptItems)]
    /\ tsync' = [t \in Names |-> KeptItems]
    /\ frozen' = KeptItems
    /\ chain' = [i \in Numbers |-> IF Empty /\ i < Shortest THEN HashFound[i][2] ELSE chain[i]]
    /\ hdr' = Found(HdrFound) /\ fast' = Found(FastFound) /\ dbFull' = Found(dbFull)
    /\ full' = dbFull'
    /\ stale' = {i \in stale : i < KeptItems}

LEMMA OpenSays ==
    ASSUME Open
    PROVE  /\ st = "closed" /\ canon' = canon /\ kvHeader' = kvHeader /\ kvBody' = kvBody
           /\ w' = w /\ trn' = trn /\ rew' = rew
           /\ \/ /\ Refused(Shortest, [t \in Names |-> Cut(table[t], Shortest)])
                 /\ st' = "refused" /\ table' = table /\ tsync' = tsync /\ frozen' = frozen
                 /\ hdr' = hdr /\ fast' = fast /\ full' = full /\ dbFull' = dbFull
                 /\ chain' = chain /\ stale' = stale
              \/ /\ ~Refused(Shortest, [t \in Names |-> Cut(table[t], Shortest)])
                 /\ Opened
  <1>1. /\ st = "closed" /\ canon' = canon /\ kvHeader' = kvHeader /\ kvBody' = kvBody
        /\ w' = w /\ trn' = trn /\ rew' = rew
    BY DEF Open, kv
  <1>2. \/ /\ Refused(Shortest, [t \in Names |-> Cut(table[t], Shortest)])
           /\ st' = "refused" /\ UNCHANGED <<tables, heads, chain, stale>>
        \/ /\ ~Refused(Shortest, [t \in Names |-> Cut(table[t], Shortest)])
           /\ Opened
    BY Zenon DEF Open, Opened, Empty, HdrFound, FastFound, HashFound, HeadsBehind, Lowest, KeptItems, Found
  <1>3. UNCHANGED <<tables, heads, chain, stale>> =>
          /\ table' = table /\ tsync' = tsync /\ frozen' = frozen
          /\ hdr' = hdr /\ fast' = fast /\ full' = full /\ dbFull' = dbFull
          /\ chain' = chain /\ stale' = stale
    BY DEF tables, heads
  <1> QED BY <1>1, <1>2, <1>3, Zenon

\* What it keeps and finds has its type.
LEMMA OpenFinds ==
    ASSUME TablesTyped, HeadsTyped
    PROVE  /\ Shortest \in 0..(Height + 1) /\ KeptItems \in Nat /\ KeptItems <= Shortest
           /\ HdrFound \in Numbers /\ FastFound \in Numbers
           /\ HeadsBehind # {} => /\ Lowest \in Nat /\ Lowest \in HeadsBehind
                                  /\ \A h \in HeadsBehind : Lowest <= h
                                  /\ Lowest + 1 < Shortest /\ KeptItems = Lowest + 1
           /\ \A h \in Numbers : Found(h) \in Numbers
           /\ \A i \in Numbers : i < Shortest => HashFound[i] \in Stored /\ HashFound[i] = table["hashes"][i + 1]
  <1>1. /\ Shortest \in Nat /\ \A t \in Names : Shortest <= Len(table[t]) /\ Len(table[t]) \in Nat
        /\ Shortest <= Height + 1
    BY ShortestStored
  <1>2. /\ hdr \in Nat /\ fast \in Nat /\ dbFull \in Nat
        /\ hdr \in Numbers /\ fast \in Numbers /\ Height \in Nat
    BY NumbersAre DEF HeadsTyped
  <1>3. HdrFound \in Numbers /\ FastFound \in Numbers
    BY <1>1, <1>2, NumbersAre DEF HdrFound, FastFound, Empty
  <1>4. HeadsBehind \in SUBSET Nat /\ \A h \in HeadsBehind : h + 1 < Shortest
    BY <1>2, <1>3, NumbersAre DEF HeadsBehind, Behind
  <1>5. ASSUME HeadsBehind # {}
        PROVE  /\ Lowest \in Nat /\ Lowest \in HeadsBehind
               /\ \A h \in HeadsBehind : Lowest <= h
               /\ Lowest + 1 < Shortest /\ KeptItems = Lowest + 1
    <2>1. Lowest \in HeadsBehind /\ \A h \in HeadsBehind : Lowest <= h
      BY <1>4, <1>5, MinOfNats DEF Lowest
    <2>2. Lowest \in Nat /\ Lowest + 1 < Shortest /\ Lowest + 1 \in Nat
      BY <1>4, <2>1
    <2>3. KeptItems = Min({Shortest, Lowest + 1})
      BY <1>5 DEF KeptItems
    <2>4. KeptItems = IF Shortest <= Lowest + 1 THEN Shortest ELSE Lowest + 1
      BY <1>1, <2>2, <2>3, MinOfPair
    <2> QED BY <1>1, <2>1, <2>2, <2>4
  <1>6. KeptItems \in Nat /\ KeptItems <= Shortest
    <2>1. CASE HeadsBehind = {}
      BY <1>1, <2>1 DEF KeptItems
    <2>2. CASE HeadsBehind # {}
      BY <1>1, <1>5, <2>2
    <2> QED BY <2>1, <2>2
  <1>7. \A h \in Numbers : Found(h) \in Numbers
    BY <1>5, RolledBackTo DEF Found
  <1>8. ASSUME NEW i \in Numbers, i < Shortest
        PROVE  HashFound[i] \in Stored /\ HashFound[i] = table["hashes"][i + 1]
    <2> DEFINE q == table["hashes"]
    <2>1. q \in Seq(Stored) /\ Shortest <= Len(q) /\ i \in Nat
      BY <1>1, TablesNamed, NumbersAre DEF TablesTyped
    <2>2. HashFound[i] = Cut(q, Shortest)[i + 1]
      BY <1>8, TablesNamed DEF HashFound
    <2> HIDE DEF q
    <2>3. /\ Cut(q, Shortest) \in Seq(Stored) /\ Len(Cut(q, Shortest)) = Shortest
          /\ \A j \in 1..Len(Cut(q, Shortest)) : Cut(q, Shortest)[j] = q[j]
      BY <1>1, <2>1, CutKeeps
    <2>4. i + 1 \in 1..Shortest
      BY <1>1, <1>8, <2>1
    <2>5. Cut(q, Shortest)[i + 1] = q[i + 1]
      BY <2>3, <2>4
    <2>6. i + 1 \in 1..Len(q)
      BY <1>1, <2>1, <2>4
    <2> QED BY <2>1, <2>2, <2>5, <2>6 DEF q
  <1>9. Shortest \in 0..(Height + 1)
    BY <1>1, NumbersAre
  <1> QED BY <1>3, <1>5, <1>6, <1>7, <1>8, <1>9

\* The tables of an opened database.
LEMMA OpenedTables ==
    ASSUME TablesTyped, HeadsTyped, Opened
    PROVE  /\ TablesTyped'
           /\ \A t \in Names : Len(table'[t]) = KeptItems /\ tsync'[t] = KeptItems
           /\ \A t \in Names : \A j \in 1..KeptItems : table'[t][j] = table[t][j]
  <1>1. /\ Shortest \in Nat /\ \A t \in Names : Shortest <= Len(table[t])
        /\ Shortest <= Height + 1
    BY ShortestStored
  <1>2. KeptItems \in Nat /\ KeptItems <= Shortest
    BY OpenFinds
  <1>3. /\ table' = [t \in Names |-> Cut([u \in Names |-> Cut(table[u], Shortest)][t], KeptItems)]
        /\ tsync' = [t \in Names |-> KeptItems]
        /\ frozen' = KeptItems
    BY DEF Opened
  <1>4. \A t \in Names : /\ table'[t] \in Seq(Stored) /\ Len(table'[t]) = KeptItems
                         /\ \A j \in 1..KeptItems : table'[t][j] = table[t][j]
    <2> TAKE t \in Names
    <2> DEFINE q == table[t]
    <2>1. q \in Seq(Stored) /\ Shortest <= Len(q)
      BY <1>1 DEF TablesTyped
    <2>2. table'[t] = Cut(Cut(q, Shortest), KeptItems)
      BY <1>3
    <2> HIDE DEF q
    <2>3. table'[t] = Cut(q, KeptItems)
      BY <1>1, <1>2, <2>1, <2>2, CutTwice
    <2>4. /\ Cut(q, KeptItems) \in Seq(Stored)
          /\ Len(Cut(q, KeptItems)) = IF KeptItems <= Len(q) THEN KeptItems ELSE Len(q)
          /\ \A i \in 1..Len(Cut(q, KeptItems)) : Cut(q, KeptItems)[i] = q[i]
      BY <1>2, <2>1, CutKeeps
    <2>5. KeptItems <= Len(q)
      BY <1>1, <1>2, <2>1
    <2> QED BY <2>3, <2>4, <2>5 DEF q
  <1>5. KeptItems \in 0..(Height + 1)
    BY <1>1, <1>2, NumbersAre
  <1>6. table' \in [Names -> Seq(Stored)] /\ tsync' \in [Names -> Nat] /\ \A t \in Names : tsync'[t] = KeptItems
    BY <1>2, <1>3, <1>4
  <1>7. TablesTyped'
    BY <1>2, <1>3, <1>4, <1>5, <1>6, NumbersAre DEF TablesTyped
  <1> QED BY <1>4, <1>6, <1>7

LEMMA TablesStayTyped ==
    ASSUME TypeInv, Next
    PROVE  TablesTyped'
  <1>1. TablesTyped /\ ControlTyped
    BY DEF TypeInv
  <1>2. CASE Import \/ FreezeCheck \/ FreezeRead \/ FreezeDeleteCanonical \/ FreezeDeleteSide \/ SetHead
             \/ SetHeadStep \/ SetHeadDone \/ ImportHeader \/ InsertReceiptChain \/ WriteAncient
    <2>1. table' = table /\ tsync' = tsync /\ frozen' = frozen
      BY <1>2 DEF Import, FreezeCheck, FreezeRead, FreezeDeleteCanonical, FreezeDeleteSide, SetHead,
             SetHeadStep, SetHeadDone, ImportHeader, InsertReceiptChain, WriteAncient, tables
    <2> QED BY <1>1, <2>1 DEF TablesTyped
  <1>3. CASE WriteAncientStops \/ UpdateHead \/ Undo \/ Undone \/ DeleteWritten \/ DeleteBeside \/ WriteLive
             \/ UpdateLiveHead \/ FastSyncCommitHead \/ Rollback \/ RollbackDone
    <2>1. table' = table /\ tsync' = tsync /\ frozen' = frozen
      BY <1>3 DEF WriteAncientStops, UpdateHead, Undo, Undone, DeleteWritten, DeleteBeside, WriteLive,
             UpdateLiveHead, FastSyncCommitHead, Rollback, RollbackDone, tables
    <2> QED BY <1>1, <2>1 DEF TablesTyped
  <1>4. CASE AppendAncient
    <2> DEFINE t == Tables[w.k]
    <2>1. /\ w.pc = "append" /\ Len(table[t]) = frozen /\ tsync' = tsync
          /\ table' = [table EXCEPT ![t] = Append(@, w.blk)]
          /\ frozen' = frozen + 1 \/ frozen' = frozen
      BY <1>4 DEF AppendAncient
    <2>2. w.blk \in Stored /\ w.k \in 1..Len(Tables) /\ frozen <= Height
      BY <1>1, <2>1 DEF ControlTyped
    <2>3. t \in Names /\ table[t] \in Seq(Stored) /\ frozen \in Nat /\ frozen' \in 0..(Height + 1)
      <3>1. t \in Names
        BY <2>2, TablesNamed
      <3>2. frozen \in 0..(Height + 1) /\ table[t] \in Seq(Stored)
        BY <1>1, <3>1 DEF TablesTyped
      <3>3. frozen' \in 0..(Height + 1)
        BY <2>1, <2>2, <3>2, NumbersAre
      <3> QED BY <3>1, <3>2, <3>3
    <2>4. ASSUME NEW q \in Seq(Stored), Len(q) = frozen
          PROVE  Append(q, w.blk) \in Seq(Stored) /\ Len(Append(q, w.blk)) = frozen + 1
      BY <2>2, <2>4
    <2> HIDE DEF t
    <2>5. Append(table[t], w.blk) \in Seq(Stored) /\ Len(Append(table[t], w.blk)) = frozen + 1
      BY <2>1, <2>3, <2>4
    <2>6. \A u \in Names : /\ table'[u] = IF u = t THEN Append(table[t], w.blk) ELSE table[u]
                           /\ tsync'[u] <= Len(table'[u]) /\ Len(table'[u]) <= Height + 1
      <3>1. \A u \in Names : table'[u] = IF u = t THEN Append(table[t], w.blk) ELSE table[u]
        BY <1>1, <2>1 DEF TablesTyped
      <3>2. \A u \in Names : tsync[u] \in Nat /\ tsync[u] <= Len(table[u]) /\ Len(table[u]) <= Height + 1
        BY <1>1 DEF TablesTyped
      <3>3. tsync[t] <= frozen + 1
        BY <2>1, <2>3, <3>2
      <3> QED BY <2>1, <2>2, <2>3, <2>5, <3>1, <3>2, <3>3, NumbersAre
    <2>7. table' \in [Names -> Seq(Stored)]
      BY <1>1, <2>1, <2>5 DEF TablesTyped
    <2> QED BY <1>1, <2>1, <2>3, <2>6, <2>7 DEF TablesTyped
  <1>5. CASE AppendAncientFails
    BY <1>1, <1>5, RepairStored DEF AppendAncientFails
  <1>6. CASE FreezeSync \/ AncientWritten
    <2>1. /\ table' = table /\ frozen' = frozen
          /\ tsync' = tsync \/ tsync' = [t \in Names |-> Len(table[t])]
      BY <1>6 DEF FreezeSync, AncientWritten
    <2>2. \A t \in Names : Len(table[t]) \in Nat
      BY <1>1 DEF TablesTyped
    <2>3. tsync' \in [Names -> Nat] /\ \A t \in Names : tsync'[t] <= Len(table[t])
      BY <1>1, <2>1, <2>2 DEF TablesTyped
    <2> QED BY <1>1, <2>1, <2>3 DEF TablesTyped
  <1>7. CASE TruncateTable
    <2>1. trn.pc = "cut" /\ frozen' = frozen
      BY <1>7 DEF TruncateTable
    <2>2. trn.items \in Nat /\ trn.left \in SUBSET Names
      BY <1>1, <2>1 DEF ControlTyped, Cuts, Idle
    <2>3. PICK t \in trn.left : /\ table' = [table EXCEPT ![t] = Cut(@, trn.items)]
                               /\ tsync' = [tsync EXCEPT ![t] = Min({@, trn.items})]
      BY <1>7 DEF TruncateTable
    <2> DEFINE c == [u \in Names |-> trn.items]
    <2>4. \A u \in Names : c[u] = trn.items /\ c[u] \in Nat
      BY <2>2
    <2> HIDE DEF c
    <2>5. \A u \in Names : /\ Cut(table[u], trn.items) \in Seq(Stored)
                           /\ Len(Cut(table[u], trn.items)) =
                                 IF trn.items <= Len(table[u]) THEN trn.items ELSE Len(table[u])
                           /\ Len(Cut(table[u], trn.items)) <= Height + 1
      BY <1>1, <2>4, CutStored
    <2>6. \A u \in Names : Min({tsync[u], trn.items}) = IF tsync[u] <= trn.items THEN tsync[u] ELSE trn.items
      <3> TAKE u \in Names
      <3>1. tsync[u] \in Nat
        BY <1>1 DEF TablesTyped
      <3> QED BY <2>2, <3>1, MinOfPair
    <2>7. \A u \in Names : tsync[u] \in Nat /\ Len(table[u]) \in Nat /\ tsync[u] <= Len(table[u])
                           /\ Len(table[u]) <= Height + 1
      BY <1>1 DEF TablesTyped
    <2>8. table' \in [Names -> Seq(Stored)] /\ tsync' \in [Names -> Nat]
      BY <1>1, <2>2, <2>3, <2>5, <2>6, <2>7 DEF TablesTyped
    <2>9. \A u \in Names : tsync'[u] <= Len(table'[u]) /\ Len(table'[u]) <= Height + 1
      <3> TAKE u \in Names
      <3>1. CASE u = t
        <4>1. table'[u] = Cut(table[u], trn.items) /\ tsync'[u] = Min({tsync[u], trn.items})
          BY <1>1, <2>3, <3>1 DEF TablesTyped
        <4>2. /\ Len(table'[u]) = IF trn.items <= Len(table[u]) THEN trn.items ELSE Len(table[u])
              /\ tsync'[u] = IF tsync[u] <= trn.items THEN tsync[u] ELSE trn.items
              /\ Len(table'[u]) <= Height + 1
          BY <2>5, <2>6, <4>1
        <4>3. trn.items \in Nat /\ tsync[u] \in Nat /\ Len(table[u]) \in Nat /\ tsync[u] <= Len(table[u])
          BY <2>2, <2>7
        <4> QED BY <4>2, <4>3
      <3>2. CASE u # t
        <4>1. table'[u] = table[u] /\ tsync'[u] = tsync[u]
          BY <1>1, <2>3, <3>2 DEF TablesTyped
        <4> QED BY <2>7, <4>1
      <3> QED BY <3>1, <3>2
    <2> QED BY <1>1, <2>1, <2>8, <2>9 DEF TablesTyped
  <1>8. CASE TruncateDone
    <2>1. table' = table /\ tsync' = tsync /\ frozen' = trn.items /\ trn.pc = "cut"
      BY <1>8 DEF TruncateDone
    <2>2. trn.items \in Nat /\ trn.items <= Height
      BY <1>1, <2>1 DEF ControlTyped, Cuts, Idle
    <2>3. frozen' \in 0..(Height + 1)
      BY <2>1, <2>2, NumbersAre
    <2> QED BY <1>1, <2>1, <2>3 DEF TablesTyped
  <1>9. CASE Crash
    <2>1. PICK keep \in [Names -> 0..(Height + 1)] :
            /\ \A t \in Names : keep[t] \in tsync[t]..Len(table[t])
            /\ table' = [t \in Names |-> Cut(table[t], keep[t])]
      BY <1>9 DEF Crash
    <2>2. tsync' = tsync /\ frozen' = frozen
      BY <1>9 DEF Crash
    <2>3. \A t \in Names : keep[t] \in Nat /\ tsync[t] <= keep[t] /\ keep[t] <= Len(table[t])
      <3> TAKE t \in Names
      <3>1. tsync[t] \in Nat /\ Len(table[t]) \in Nat /\ keep[t] \in tsync[t]..Len(table[t])
        BY <1>1, <2>1 DEF TablesTyped
      <3> QED BY <3>1
    <2>4. \A t \in Names : /\ Cut(table[t], keep[t]) \in Seq(Stored)
                           /\ Len(Cut(table[t], keep[t])) = keep[t]
                           /\ Len(Cut(table[t], keep[t])) <= Height + 1
      BY <1>1, <2>3, CutStored
    <2> QED BY <1>1, <2>1, <2>2, <2>3, <2>4 DEF TablesTyped
  <1>10. CASE Open
    <2>1. HeadsTyped
      BY DEF TypeInv
    <2>2. \/ table' = table /\ tsync' = tsync /\ frozen' = frozen
          \/ Opened
      BY <1>10, OpenSays, Zenon
    <2> QED BY <1>1, <2>1, <2>2, OpenedTables DEF TablesTyped
  <1> QED BY <1>2, <1>3, <1>4, <1>5, <1>6, <1>7, <1>8, <1>9, <1>10, Zenon DEF Next

\* A table has a stored block at each of its numbers, which is not None.
LEMMA AncientStored ==
    ASSUME TablesTyped, NEW t \in Names, NEW n \in Numbers
    PROVE  /\ Len(table[t]) \in Nat
           /\ n < Len(table[t]) => /\ Ancient(t, n) = table[t][n + 1] /\ Ancient(t, n) \in Stored
                                   /\ Ancient(t, n) # None
           /\ ~(n < Len(table[t])) => Ancient(t, n) = None
  <1> DEFINE q == table[t]
  <1>1. q \in Seq(Stored) /\ n \in Nat
    BY NumbersAre DEF TablesTyped
  <1> HIDE DEF q
  <1>2. ASSUME n < Len(q) PROVE q[n + 1] \in Stored /\ q[n + 1] # None
    <2>1. n + 1 \in 1..Len(q)
      BY <1>1, <1>2
    <2>2. q[n + 1] \in Stored
      BY <1>1, <2>1
    <2>3. None \notin Stored
      BY FreezerAssumption, NumbersAre DEF Stored
    <2> QED BY <2>2, <2>3
  <1> QED BY <1>1, <1>2 DEF q, Ancient

\* Only what is stored has a header.
LEMMA HeaderStored ==
    ASSUME TablesTyped, StoreTyped, NEW b \in Block, HasHeader(b)
    PROVE  b \in Stored
  <1>1. b[1] \in Numbers /\ b # None
    BY FreezerAssumption, NumbersAre DEF Block
  <1>2. Ancient("hashes", b[1]) \in Stored \/ Ancient("hashes", b[1]) = None
    BY <1>1, AncientStored, TablesNamed
  <1> QED BY <1>1, <1>2 DEF HasHeader, StoreTyped

\* What is deleted leaves the rest.
LEMMA DeleteStored ==
    ASSUME StoreTyped, NEW blocks, DeleteFrozen(blocks), chain' = chain, stale' \subseteq Numbers
    PROVE  StoreTyped'
  BY DEF StoreTyped, DeleteFrozen

LEMMA StoreStaysTyped ==
    ASSUME TypeInv, Next
    PROVE  StoreTyped'
  <1>1. TablesTyped /\ StoreTyped /\ HeadsTyped /\ ControlTyped
    BY DEF TypeInv
  <1>2. CASE FreezeCheck \/ FreezeRead \/ AppendAncient \/ AppendAncientFails \/ FreezeSync \/ TruncateTable
             \/ SetHead \/ SetHeadStep \/ InsertReceiptChain \/ WriteAncient
    <2>1. canon' = canon /\ chain' = chain /\ kvHeader' = kvHeader /\ kvBody' = kvBody /\ stale' = stale
      BY <1>2 DEF FreezeCheck, FreezeRead, AppendAncient, AppendAncientFails, FreezeSync, TruncateTable,
             SetHead, SetHeadStep, InsertReceiptChain, WriteAncient, kv, history
    <2> QED BY <1>1, <2>1 DEF StoreTyped
  <1>3. CASE WriteAncientStops \/ AncientWritten \/ UpdateHead \/ Undo \/ Undone \/ UpdateLiveHead
             \/ FastSyncCommitHead \/ Rollback \/ RollbackDone \/ Crash
    <2>1. canon' = canon /\ chain' = chain /\ kvHeader' = kvHeader /\ kvBody' = kvBody /\ stale' = stale
      BY <1>3 DEF WriteAncientStops, AncientWritten, UpdateHead, Undo, Undone, UpdateLiveHead,
             FastSyncCommitHead, Rollback, RollbackDone, Crash, kv, history
    <2> QED BY <1>1, <2>1 DEF StoreTyped
  <1>4. CASE Import
    <2>1. stale' = stale /\ full < Height
      BY <1>4 DEF Import
    <2>2. PICK v \in Candidates(full + 1), side \in {{}, Versions} :
            LET stored == {<<full + 1, x>> : x \in side \cup {v}}
            IN  /\ kvHeader' = kvHeader \cup stored /\ kvBody' = kvBody \cup stored
                /\ canon' = [canon EXCEPT ![full + 1] = v] /\ chain' = [chain EXCEPT ![full + 1] = v]
      BY <1>4 DEF Import
    <2>3. v \in Versions /\ side \subseteq Versions
      BY FreezerAssumption DEF Candidates
    <2>4. full + 1 \in Numbers
      BY <1>1, <2>1, NumbersAre DEF HeadsTyped
    <2>5. {<<full + 1, x>> : x \in side \cup {v}} \subseteq Stored
      BY <2>3, <2>4 DEF Stored
    <2> QED BY <1>1, <2>1, <2>2, <2>3, <2>5 DEF StoreTyped
  <1>5. CASE ImportHeader
    <2>1. stale' = stale /\ hdr < Height /\ kvBody' = kvBody
      BY <1>5 DEF ImportHeader
    <2>2. PICK v \in Candidates(hdr + 1) :
          /\ kvHeader' = kvHeader \cup {<<hdr + 1, v>>}
          /\ canon' = [n \in Numbers |-> IF n <= hdr THEN canon[n]
                                         ELSE IF n = hdr + 1 THEN v ELSE None]
          /\ chain' = [chain EXCEPT ![hdr + 1] = v]
      BY <1>5 DEF ImportHeader
    <2>3. v \in Versions
      BY FreezerAssumption DEF Candidates
    <2>4. hdr + 1 \in Numbers
      BY <1>1, <2>1, NumbersAre DEF HeadsTyped
    <2>5. <<hdr + 1, v>> \in Stored
      BY <2>3, <2>4 DEF Stored
    <2> QED BY <1>1, <2>1, <2>2, <2>3, <2>5 DEF StoreTyped
  <1>6. CASE FreezeDeleteCanonical \/ DeleteWritten
    <2>1. /\ DeleteFrozen({b \in Range(w.done) : b[1] # 0}) /\ chain' = chain /\ stale' = stale
      BY <1>6 DEF FreezeDeleteCanonical, DeleteWritten, history
    <2>2. stale' \subseteq Numbers
      BY <1>1, <2>1 DEF StoreTyped
    <2> QED BY <1>1, <2>1, <2>2, DeleteStored
  <1>7. CASE FreezeDeleteSide \/ DeleteBeside
    <2>1. /\ kvHeader' \subseteq kvHeader /\ kvBody' \subseteq kvBody
          /\ canon' = canon /\ chain' = chain /\ stale' = stale
      BY <1>7 DEF FreezeDeleteSide, DeleteBeside, history
    <2> QED BY <1>1, <2>1 DEF StoreTyped
  <1>8. CASE WriteLive
    <2> DEFINE live == w.blocks \ Ancients
    <2>1. /\ w.pc = "live" /\ kvBody' = kvBody \cup IF \A b \in live : HasHeader(b) THEN live ELSE {}
          /\ kvHeader' = kvHeader /\ canon' = canon /\ chain' = chain /\ stale' = stale
      BY <1>8 DEF WriteLive, history
    <2>2. w \in FastWriter
      BY <1>1, <2>1, WriterKinds DEF ControlTyped
    <2>3. live \subseteq Block
      BY <2>2 DEF FastWriter
    <2>4. kvBody' \subseteq Stored
      <3>1. CASE \A b \in live : HasHeader(b)
        <4>1. live \subseteq Stored
          BY <1>1, <2>3, <3>1, HeaderStored
        <4> QED BY <1>1, <2>1, <4>1 DEF StoreTyped
      <3>2. CASE ~\A b \in live : HasHeader(b)
        BY <1>1, <2>1, <3>2 DEF StoreTyped
      <3> QED BY <3>1, <3>2
    <2> QED BY <1>1, <2>1, <2>4 DEF StoreTyped
  <1>9. CASE SetHeadDone
    <2>1. DeleteFrozen(rew.gone) /\ chain' = chain /\ stale' \subseteq stale \cup Numbers
      BY <1>9 DEF SetHeadDone
    <2>2. stale' \subseteq Numbers
      BY <1>1, <2>1 DEF StoreTyped
    <2> QED BY <1>1, <2>1, <2>2, DeleteStored
  <1>10. CASE TruncateDone
    <2>1. /\ kvHeader' = kvHeader /\ kvBody' = kvBody /\ canon' = canon /\ chain' = chain
          /\ stale' \subseteq stale
      BY <1>10 DEF TruncateDone, kv
    <2> QED BY <1>1, <2>1 DEF StoreTyped
  <1>11. CASE Open
    <2>1. canon' = canon /\ kvHeader' = kvHeader /\ kvBody' = kvBody
      BY <1>11, OpenSays
    <2>2. chain' \in [Numbers -> Versions \cup {None}] /\ stale' \subseteq stale
      <3>1. CASE chain' = chain /\ stale' = stale
        BY <1>1, <3>1 DEF StoreTyped
      <3>2. CASE Opened
        <4>1. \A i \in Numbers : i < Shortest => HashFound[i][2] \in Versions
          BY <1>1, OpenFinds DEF Stored
        <4> QED BY <1>1, <3>2, <4>1 DEF Opened, StoreTyped
      <3> QED BY <1>11, <3>1, <3>2, OpenSays, Zenon
    <2> QED BY <1>1, <2>1, <2>2 DEF StoreTyped
  <1> QED BY <1>2, <1>3, <1>4, <1>5, <1>6, <1>7, <1>8, <1>9, <1>10, <1>11, Zenon DEF Next

\* Heads stay numbers.
LEMMA HeadsStayTyped ==
    ASSUME TypeInv, Next
    PROVE  HeadsTyped'
  <1>1. TablesTyped /\ StoreTyped /\ HeadsTyped /\ ControlTyped
    BY DEF TypeInv
  <1>2. CASE FreezeCheck \/ FreezeRead \/ AppendAncient \/ AppendAncientFails \/ FreezeSync \/ TruncateTable
             \/ TruncateDone \/ SetHead \/ SetHeadDone \/ InsertReceiptChain \/ WriteAncient
    <2>1. hdr' = hdr /\ fast' = fast /\ full' = full /\ dbFull' = dbFull
      BY <1>2 DEF FreezeCheck, FreezeRead, AppendAncient, AppendAncientFails, FreezeSync, TruncateTable,
             TruncateDone, SetHead, SetHeadDone, InsertReceiptChain, WriteAncient, heads
    <2> QED BY <1>1, <2>1 DEF HeadsTyped
  <1>3. CASE WriteAncientStops \/ AncientWritten \/ Undo \/ Undone \/ WriteLive \/ RollbackDone \/ Crash
             \/ FreezeDeleteCanonical \/ FreezeDeleteSide \/ DeleteWritten \/ DeleteBeside
    <2>1. hdr' = hdr /\ fast' = fast /\ full' = full /\ dbFull' = dbFull
      BY <1>3 DEF WriteAncientStops, AncientWritten, Undo, Undone, WriteLive, RollbackDone, Crash,
             FreezeDeleteCanonical, FreezeDeleteSide, DeleteWritten, DeleteBeside, heads
    <2> QED BY <1>1, <2>1 DEF HeadsTyped
  <1>4. CASE Import
    <2>1. /\ full < Height /\ full' = full + 1 /\ dbFull' = full + 1
          /\ \/ hdr' = full + 1 /\ fast' = full + 1
             \/ hdr' = hdr /\ fast' = fast
      BY <1>4 DEF Import
    <2>2. full + 1 \in Numbers
      BY <1>1, <2>1, NumbersAre DEF HeadsTyped
    <2> QED BY <1>1, <2>1, <2>2 DEF HeadsTyped
  <1>5. CASE ImportHeader
    <2>1. /\ hdr < Height /\ hdr' = hdr + 1 /\ fast' = fast /\ full' = full /\ dbFull' = dbFull
      BY <1>5 DEF ImportHeader
    <2>2. hdr + 1 \in Numbers
      BY <1>1, <2>1, NumbersAre DEF HeadsTyped
    <2> QED BY <1>1, <2>1, <2>2 DEF HeadsTyped
  <1>6. CASE UpdateHead
    <2>1. /\ w.pc = "head" /\ fast' \in {fast, LastOf(Ancients)}
          /\ hdr' = hdr /\ full' = full /\ dbFull' = dbFull
      BY <1>6 DEF UpdateHead
    <2>2. w \in FastWriter /\ Ancients # {}
      BY <1>1, <2>1, WriterKinds DEF ControlTyped
    <2>3. Ancients \in SUBSET Block
      BY <2>2 DEF FastWriter, Ancients
    <2>4. LastOf(Ancients) \in Numbers
      BY <2>2, <2>3, LastOfBlocks
    <2> QED BY <1>1, <2>1, <2>4 DEF HeadsTyped
  <1>7. CASE UpdateLiveHead
    <2>1. /\ w.pc = "liveHead" /\ fast' \in {fast, w.last}
          /\ hdr' = hdr /\ full' = full /\ dbFull' = dbFull
      BY <1>7 DEF UpdateLiveHead
    <2>2. w.last \in Numbers
      BY <1>1, <2>1, WriterKinds DEF ControlTyped, FastWriter
    <2> QED BY <1>1, <2>1, <2>2 DEF HeadsTyped
  <1>8. CASE FastSyncCommitHead
    <2>1. hdr' = hdr /\ fast' = fast /\ full' = fast /\ dbFull' = dbFull
      BY <1>8 DEF FastSyncCommitHead
    <2> QED BY <1>1, <2>1 DEF HeadsTyped
  <1>9. CASE SetHeadStep
    <2>1. /\ hdr > rew.target /\ rew.pc = "step" /\ hdr' = hdr - 1
          /\ full' \in {0, hdr - 1, full} /\ dbFull' \in {0, hdr - 1, dbFull} /\ fast' \in {0, hdr - 1, fast}
      BY <1>9 DEF SetHeadStep
    <2>2. rew.target \in Nat
      BY <1>1, <2>1 DEF ControlTyped, Rewinds, Idle
    <2>3. hdr - 1 \in Numbers
      BY <1>1, <2>1, <2>2, NumbersAre DEF HeadsTyped
    <2> QED BY <1>1, <2>1, <2>3, NumbersAre DEF HeadsTyped
  <1>10. CASE Rollback
    <2>1. full' = full /\ dbFull' = dbFull
      BY <1>10 DEF Rollback
    <2> DEFINE hash == [n \in Numbers |-> <<n, chain[n]>>]
    <2>2. PICK low \in 0..(hdr - 1) : hdr' = RolledBack(hdr, low, hash) /\ fast' = RolledBack(fast, low, hash)
      BY <1>10, Zenon DEF Rollback
    <2> HIDE DEF hash
    <2>3. low \in Nat
      BY <1>1, NumbersAre DEF HeadsTyped
    <2>4. hdr' \in Numbers /\ fast' \in Numbers
      BY <1>1, <2>2, <2>3, RolledBackTo DEF HeadsTyped
    <2> QED BY <1>1, <2>1, <2>4 DEF HeadsTyped
  <1>11. CASE Open
    <2>1. CASE hdr' = hdr /\ fast' = fast /\ full' = full /\ dbFull' = dbFull
      BY <1>1, <2>1 DEF HeadsTyped
    <2>2. CASE Opened
      <3>1. hdr' = Found(HdrFound) /\ fast' = Found(FastFound) /\ dbFull' = Found(dbFull) /\ full' = dbFull'
        BY <2>2 DEF Opened
      <3>2. HdrFound \in Numbers /\ FastFound \in Numbers /\ \A h \in Numbers : Found(h) \in Numbers
        BY <1>1, OpenFinds
      <3> QED BY <1>1, <3>1, <3>2 DEF HeadsTyped
    <2> QED BY <1>11, <2>1, <2>2, OpenSays, Zenon
  <1> QED BY <1>2, <1>3, <1>4, <1>5, <1>6, <1>7, <1>8, <1>9, <1>10, <1>11, Zenon DEF Next

\* What InsertReceiptChain starts with.
LEMMA SyncStarts ==
    ASSUME HeadsTyped, StoreTyped, InsertReceiptChain
    PROVE  /\ w' \in FastWriter /\ w'.pc = "loop" /\ w'.done = <<>> /\ w'.blk = None
           /\ w'.prev = fast /\ w'.last \in (fast + 1)..hdr /\ w'.limit \in fast..w'.last
           /\ w'.blocks = {<<n, chain[n]>> : n \in (fast + 1)..w'.last}
  <1>1. PICK last \in (fast + 1)..hdr : \E limit \in fast..last :
          w' = [pc |-> "loop", kind |-> "fast", prev |-> fast, last |-> last, limit |-> limit,
                blocks |-> {<<n, chain[n]>> : n \in (fast + 1)..last},
                done |-> <<>>, blk |-> None, k |-> 0]
    BY DEF InsertReceiptChain
  <1>2. PICK limit \in fast..last :
          w' = [pc |-> "loop", kind |-> "fast", prev |-> fast, last |-> last, limit |-> limit,
                blocks |-> {<<n, chain[n]>> : n \in (fast + 1)..last},
                done |-> <<>>, blk |-> None, k |-> 0]
    BY <1>1
  <1>3. fast \in 0..Height /\ hdr \in 0..Height /\ Height \in Nat
    BY NumbersAre DEF HeadsTyped
  <1>4. last \in Numbers /\ limit \in Numbers /\ fast \in Numbers /\ (fast + 1)..last \subseteq Numbers
    BY <1>3 DEF Numbers
  <1> DEFINE blocks == {<<n, chain[n]>> : n \in (fast + 1)..last}
  <1>5. blocks \in SUBSET Block
    BY <1>4 DEF StoreTyped, Block
  <1>6. 0 \in 0..Len(Tables) /\ <<>> \in Seq(Block)
    BY TablesNamed
  <1>7. w' = [pc |-> "loop", kind |-> "fast", prev |-> fast, last |-> last, limit |-> limit,
              blocks |-> blocks, done |-> <<>>, blk |-> None, k |-> 0]
    BY <1>2
  <1>8. blocks = {<<n, chain[n]>> : n \in (fast + 1)..last}
    OBVIOUS
  <1> HIDE DEF blocks
  <1>9. w' \in FastWriter
    BY <1>4, <1>5, <1>6, <1>7 DEF FastWriter
  <1> QED BY <1>1, <1>2, <1>7, <1>8, <1>9

\* The next block is one of the call's.
LEMMA NextBlockOf ==
    ASSUME w \in FastWriter, Remaining # {}
    PROVE  /\ NextBlock \in Remaining /\ \A x \in Remaining : NextBlock[1] <= x[1]
           /\ NextBlock \in w.blocks /\ NextBlock \in Block /\ NextBlock[1] \in Numbers
           /\ NextBlock[1] <= w.limit
  <1>1. /\ Remaining \subseteq w.blocks /\ Remaining \subseteq Block
        /\ \A x \in Remaining : x[1] <= w.limit
    BY DEF FastWriter, Remaining, Ancients
  <1> DEFINE S == {x[1] : x \in Remaining}
  <1>2. S \in SUBSET Nat /\ S # {}
    BY <1>1, FreezerAssumption DEF Block, Numbers
  <1>3. PICK n \in S : \A m \in S : n <= m
    <2> HIDE DEF S
    <2> QED BY <1>2, LeastNat
  <1>4. \E x \in Remaining : \A y \in Remaining : x[1] <= y[1]
    BY <1>3
  <1>5. NextBlock \in Remaining /\ \A x \in Remaining : NextBlock[1] <= x[1]
    BY <1>4, Zenon DEF NextBlock
  <1> QED BY <1>1, <1>5 DEF Block

\* What writeAncient hands over is stored.
LEMMA HandedOver ==
    ASSUME TablesTyped, StoreTyped, w \in FastWriter, WriteAncient, ~ProcessEnds
    PROVE  \E b \in Stored :
              /\ b[1] = frozen /\ w' = HandOver(b)
              /\ b = IF frozen < NextBlock[1] THEN ReadBlock(ReadCanonicalHash(frozen)) ELSE NextBlock
  <1> DEFINE b == IF frozen < NextBlock[1] THEN ReadBlock(ReadCanonicalHash(frozen)) ELSE NextBlock
  <1>1. /\ Remaining # {} /\ HasHeader(NextBlock)
        /\ b # None /\ b[1] = frozen /\ w' = HandOver(b)
    BY DEF WriteAncient
  <1>2. NextBlock \in Stored /\ NextBlock[1] \in Numbers
    BY <1>1, NextBlockOf, HeaderStored
  <1>3. ASSUME frozen < NextBlock[1] PROVE b \in Stored
    <2>1. frozen \in Numbers
      BY <1>2, <1>3, NumbersAre DEF TablesTyped
    <2>2. \A t \in Names, n \in Numbers : Ancient(t, n) \in Stored \cup {None}
      BY AncientStored
    <2>3. ReadCanonicalHash(frozen) \in Stored \cup {None}
      BY <2>1, <2>2, TablesNamed DEF ReadCanonicalHash, StoreTyped, Stored
    <2>4. \A x \in Stored : ReadBody(x) \in Stored \cup {None}
      BY <2>2, TablesNamed DEF ReadBody, Stored
    <2>5. ReadBlock(ReadCanonicalHash(frozen)) \in Stored \cup {None}
      BY <2>3, <2>4 DEF ReadBlock
    <2> QED BY <1>1, <1>3, <2>5
  <1>4. b \in Stored
    BY <1>2, <1>3
  <1> HIDE DEF b
  <1>5. \E x \in Stored : x[1] = frozen /\ w' = HandOver(x) /\ x = b
    BY <1>1, <1>4
  <1> QED BY <1>5 DEF b

\* A cut that starts, if one does.
LEMMA CutTyped ==
    ASSUME TablesTyped, NEW n \in Nat, TruncateStart(n)
    PROVE  /\ trn' \in Cuts /\ (trn' # Idle => trn'.items <= Height /\ trn'.items = n /\ n < frozen)
           /\ frozen <= n => trn' = Idle
  <1>1. frozen \in Nat /\ frozen <= Height + 1 /\ Height \in Nat
    BY NumbersAre DEF TablesTyped
  <1>2. CASE frozen <= n
    BY <1>2 DEF TruncateStart, Cuts
  <1>3. CASE ~(frozen <= n)
    <2>1. trn' = [pc |-> "cut", items |-> n, left |-> Names]
      BY <1>3 DEF TruncateStart
    <2>2. trn' \in Cuts /\ trn'.items = n
      BY <2>1 DEF Cuts
    <2>3. n <= Height
      BY <1>1, <1>3
    <2> QED BY <1>1, <1>3, <2>2, <2>3
  <1> QED BY <1>2, <1>3

\* Steps of one goroutine leave the others alone.
LEMMA ControlMoves ==
    ASSUME ControlTyped, st = "open", st' = st, trn' = trn, rew' = rew, w' \in Writers, w'.pc # "append",
           w'.pc = "head" => Ancients' # {}
    PROVE  ControlTyped'
  BY DEF ControlTyped

LEMMA ControlStaysTyped ==
    ASSUME TypeInv, Next
    PROVE  ControlTyped'
  <1>1. TablesTyped /\ StoreTyped /\ HeadsTyped /\ ControlTyped /\ w \in Writers
    BY DEF TypeInv, ControlTyped
  <1>2. CASE Import \/ ImportHeader \/ FastSyncCommitHead
    <2>1. st' = st /\ w' = w /\ trn' = trn /\ rew' = rew /\ frozen' = frozen
      BY <1>2 DEF Import, ImportHeader, FastSyncCommitHead, control, tables
    <2> QED BY <1>1, <2>1 DEF ControlTyped, Ancients
  <1>3. CASE SetHeadDone \/ RollbackDone \/ SetHead
    <2>1. st = "open" /\ st' = st /\ w' = w /\ trn' = trn /\ frozen' = frozen
      BY <1>3 DEF SetHeadDone, RollbackDone, SetHead, tables
    <2>2. rew' \in Rewinds
      <3>1. CASE SetHeadDone \/ RollbackDone
        BY <3>1 DEF SetHeadDone, RollbackDone, Rewinds
      <3>2. CASE SetHead
        <4>1. PICK target \in 0..(hdr - 1) : rew' = [pc |-> "step", target |-> target, gone |-> {}]
          BY <3>2 DEF SetHead
        <4> QED BY <4>1 DEF Rewinds
      <3> QED BY <1>3, <3>1, <3>2
    <2> QED BY <1>1, <2>1, <2>2 DEF ControlTyped, Ancients
  <1>4. CASE FreezeCheck
    <2> DEFINE limit == Min({dbFull - ImmutabilityThreshold, frozen + freezerBatchLimit})
    <2>1. /\ st = "open" /\ dbFull - ImmutabilityThreshold > frozen
          /\ st' = st /\ trn' = trn /\ rew' = rew
          /\ w' = [pc |-> "loop", kind |-> "freeze", first |-> frozen,
                   done |-> <<>>, blk |-> None, k |-> 0, limit |-> limit]
      BY <1>4 DEF FreezeCheck
    <2>2. dbFull \in Nat /\ frozen \in Nat /\ ImmutabilityThreshold \in Nat /\ freezerBatchLimit \in Nat
      BY <1>1, FreezerAssumption, NumbersAre DEF HeadsTyped, TablesTyped
    <2>3. limit \in Nat
      <3>1. dbFull - ImmutabilityThreshold \in Nat /\ frozen + freezerBatchLimit \in Nat
        BY <2>1, <2>2
      <3> QED BY <3>1, MinOfPair
    <2>4. 0 \in 0..Len(Tables) /\ <<>> \in Seq(Block)
      BY TablesNamed
    <2> HIDE DEF limit
    <2>5. w' \in Writers /\ w'.pc = "loop"
      BY <2>1, <2>2, <2>3, <2>4 DEF FreezeWriter, Writers
    <2> QED BY <1>1, <2>1, <2>5, ControlMoves
  <1>5. CASE FreezeRead
    <2> DEFINE b == <<frozen, canon[frozen]>>
    <2>1. /\ st = "open" /\ w.pc = "loop" /\ w.kind = "freeze" /\ frozen' = frozen
          /\ st' = st /\ trn' = trn /\ rew' = rew
          /\ \/ b \in kvHeader /\ w' = HandOver(b)
             \/ w' = [w EXCEPT !.pc = "sync"]
      BY <1>5 DEF FreezeRead, tables
    <2>2. w \in FreezeWriter
      BY <1>1, <2>1, WriterKinds
    <2>3. CASE b \in kvHeader /\ w' = HandOver(b)
      <3>1. b \in Stored /\ b \in Block /\ b[1] = frozen /\ b[1] \in Numbers
        BY <1>1, <2>3, NumbersAre DEF StoreTyped, Stored
      <3>2. frozen <= Height
        BY <3>1, NumbersAre
      <3> HIDE DEF b
      <3>3. w' \in Writers /\ w'.pc = "append" /\ w'.blk = b /\ w'.k = 1
        BY <2>2, <2>3, <3>1, HandOverTyped
      <3> QED BY <1>1, <2>1, <3>1, <3>2, <3>3, TablesNamed DEF ControlTyped
    <2>4. CASE w' = [w EXCEPT !.pc = "sync"]
      <3>1. w' \in Writers /\ w'.pc = "sync"
        BY <2>2, <2>4, FreezeMoves
      <3> QED BY <1>1, <2>1, <3>1, ControlMoves
    <2> QED BY <2>1, <2>3, <2>4
  <1>6. CASE AppendAncient
    <2>1. /\ st = "open" /\ w.pc = "append" /\ st' = st /\ trn' = trn /\ rew' = rew
          /\ IF w.k = Len(Tables)
             THEN frozen' = frozen + 1 /\ w' = Appended
             ELSE frozen' = frozen /\ w' = [w EXCEPT !.k = @ + 1]
      BY <1>6 DEF AppendAncient
    <2>2. w.blk \in Stored /\ w.blk \in Block /\ w.k \in 1..Len(Tables) /\ frozen <= Height
      BY <1>1, <2>1, NumbersAre DEF ControlTyped
    <2>3. w \in FreezeWriter \cup FastWriter
      BY <1>1, <2>1, WriterKinds
    <2>4. CASE w.k = Len(Tables)
      <3>1. w' \in Writers /\ w'.pc = "loop"
        BY <2>1, <2>2, <2>3, <2>4, TakeBackTyped
      <3> QED BY <1>1, <2>1, <3>1, ControlMoves
    <2>5. CASE w.k # Len(Tables)
      <3>1. w.k + 1 \in 1..Len(Tables) /\ w.k + 1 \in 0..Len(Tables)
        BY <2>2, <2>5, TablesNamed
      <3>2. w' \in Writers /\ w'.pc = "append" /\ w'.blk = w.blk /\ w'.k = w.k + 1
        <4>1. CASE w \in FreezeWriter
          BY <2>1, <2>5, <3>1, <4>1 DEF FreezeWriter, Writers
        <4>2. CASE w \in FastWriter
          BY <2>1, <2>5, <3>1, <4>2 DEF FastWriter, Writers
        <4> QED BY <2>3, <4>1, <4>2
      <3> QED BY <1>1, <2>1, <2>2, <2>5, <3>1, <3>2 DEF ControlTyped
    <2> QED BY <2>4, <2>5
  <1>7. CASE AppendAncientFails
    <2>1. /\ st = "open" /\ w.pc = "append"
          /\ \/ w.kind = "freeze" /\ w' = AppendFailed /\ st' = st /\ trn' = trn /\ rew' = rew
             \/ ProcessEnds
      BY <1>7 DEF AppendAncientFails
    <2>2. w.blk \in Block
      BY <1>1, <2>1, NumbersAre DEF ControlTyped
    <2>3. w \in FreezeWriter \cup FastWriter
      BY <1>1, <2>1, WriterKinds
    <2>4. CASE w.kind = "freeze" /\ w' = AppendFailed /\ st' = st /\ trn' = trn /\ rew' = rew
      <3>1. w' \in Writers /\ w'.pc = "sync"
        BY <2>2, <2>3, <2>4, TakeBackTyped
      <3> QED BY <1>1, <2>1, <2>4, <3>1, ControlMoves
    <2>5. CASE ProcessEnds
      BY <1>1, <2>5 DEF ProcessEnds, ControlTyped, Writers, Cuts, Rewinds, Idle
    <2> QED BY <2>1, <2>4, <2>5
  <1>8. CASE FreezeSync \/ FreezeDeleteCanonical \/ FreezeDeleteSide
    <2>1. /\ st = "open" /\ w.kind = "freeze" /\ w.pc \in {"sync", "canonical", "side"}
          /\ st' = st /\ trn' = trn /\ rew' = rew
          /\ w' = Idle \/ w' = [w EXCEPT !.pc = "canonical"] \/ w' = [w EXCEPT !.pc = "side"]
      BY <1>8 DEF FreezeSync, FreezeDeleteCanonical, FreezeDeleteSide
    <2>2. w \in FreezeWriter
      BY <1>1, <2>1, WriterKinds
    <2>3. w' \in Writers /\ w'.pc \in {"idle", "canonical", "side"}
      <3>1. CASE w' = Idle
        BY <3>1 DEF Writers, Idle
      <3>2. ASSUME NEW p \in {"canonical", "side"}, w' = [w EXCEPT !.pc = p]
            PROVE  w' \in Writers /\ w'.pc = p
        BY <2>2, <3>2, FreezeMoves
      <3> QED BY <2>1, <3>1, <3>2
    <2> QED BY <1>1, <2>1, <2>3, ControlMoves
  <1>9. CASE TruncateTable
    <2>1. /\ trn.pc = "cut" /\ st' = st /\ w' = w /\ rew' = rew /\ frozen' = frozen
          /\ \E t \in trn.left : trn' = [trn EXCEPT !.left = @ \ {t}]
      BY <1>9 DEF TruncateTable
    <2>2. trn \in [pc : {"cut"}, items : Nat, left : SUBSET Names] /\ trn # Idle
      BY <1>1, <2>1 DEF ControlTyped, Cuts, Idle
    <2>3. trn' \in Cuts /\ trn'.items = trn.items
      BY <2>1, <2>2 DEF Cuts
    <2> QED BY <1>1, <2>1, <2>2, <2>3 DEF ControlTyped, Ancients
  <1>10. CASE TruncateDone
    <2>1. trn.pc = "cut" /\ st' = st /\ w' = w /\ rew' = rew /\ frozen' = trn.items /\ trn' = Idle
      BY <1>10 DEF TruncateDone
    <2>2. trn.items <= Height
      BY <1>1, <2>1 DEF ControlTyped, Idle
    <2> QED BY <1>1, <2>1, <2>2 DEF ControlTyped, Ancients, Cuts
  <1>11. CASE SetHeadStep
    <2>1. /\ rew.pc = "step" /\ trn = Idle /\ st' = st /\ w' = w /\ frozen' = frozen
          /\ TruncateStart(hdr + 1) \/ trn' = trn
          /\ rew' = [rew EXCEPT !.gone = @ \cup {<<hdr, chain[hdr]>>}]
      BY <1>11 DEF SetHeadStep, tables
    <2>2. rew \in [pc : {"step"}, target : Nat, gone : SUBSET Block] /\ <<hdr, chain[hdr]>> \in Block
      BY <1>1, <2>1, NumbersAre DEF ControlTyped, Rewinds, Idle, Block, HeadsTyped, StoreTyped
    <2>3. rew' \in Rewinds
      BY <2>1, <2>2 DEF Rewinds
    <2>4. trn' \in Cuts /\ (trn' # Idle => trn'.items <= Height)
      <3>1. hdr + 1 \in Nat
        BY <1>1, NumbersAre DEF HeadsTyped
      <3> QED BY <1>1, <2>1, <3>1, CutTyped DEF Cuts
    <2> QED BY <1>1, <2>1, <2>3, <2>4 DEF ControlTyped, Ancients
  <1>12. CASE Rollback
    <2>1. /\ st' = st /\ w' = w /\ frozen' = frozen /\ rew' = [pc |-> "roll"]
          /\ \E low \in 0..(hdr - 1) : TruncateStart(low + 1)
      BY <1>12, Zenon DEF Rollback, tables
    <2>2. trn' \in Cuts /\ (trn' # Idle => trn'.items <= Height)
      <3>1. PICK low \in 0..(hdr - 1) : TruncateStart(low + 1)
        BY <2>1
      <3>2. low + 1 \in Nat
        BY <3>1
      <3> QED BY <1>1, <3>1, <3>2, CutTyped
    <2>3. rew' \in Rewinds
      BY <2>1 DEF Rewinds
    <2> QED BY <1>1, <2>1, <2>2, <2>3 DEF ControlTyped, Ancients
  <1>13. CASE InsertReceiptChain
    <2>1. st = "open" /\ st' = st /\ trn' = trn /\ rew' = rew
      BY <1>13 DEF InsertReceiptChain
    <2>2. w' \in Writers /\ w'.pc = "loop"
      BY <1>1, <1>13, SyncStarts DEF Writers
    <2> QED BY <1>1, <2>1, <2>2, ControlMoves
  <1>14. CASE WriteAncient
    <2>1. /\ st = "open" /\ w.pc = "loop" /\ w.kind = "fast" /\ frozen' = frozen
          /\ ProcessEnds \/ (st' = st /\ trn' = trn /\ rew' = rew)
      BY <1>14 DEF WriteAncient, tables
    <2>2. w \in FastWriter
      BY <1>1, <2>1, WriterKinds
    <2>3. CASE ProcessEnds
      BY <1>1, <2>3 DEF ProcessEnds, ControlTyped, Writers, Cuts, Rewinds, Idle
    <2>4. CASE ~ProcessEnds
      <3>1. PICK b \in Stored : b[1] = frozen /\ w' = HandOver(b)
        BY <1>1, <1>14, <2>2, <2>4, HandedOver
      <3>2. w' \in Writers /\ w'.pc = "append" /\ w'.blk = b /\ w'.k = 1
        BY <2>2, <3>1, HandOverTyped, NumbersAre
      <3>3. frozen <= Height
        BY <3>1, NumbersAre DEF Stored
      <3> QED BY <1>1, <2>1, <2>4, <3>1, <3>2, <3>3, TablesNamed DEF ControlTyped
    <2> QED BY <2>3, <2>4
  <1>15. CASE WriteAncientStops \/ Undone \/ DeleteWritten \/ DeleteBeside \/ WriteLive \/ UpdateLiveHead
    <2>1. /\ st = "open" /\ st' = st /\ trn' = trn /\ rew' = rew
          /\ w.pc \in {"loop", "canonical", "side", "live", "liveHead", "undone"}
          /\ w.pc \in {"loop", "canonical", "side"} => w.kind = "fast"
          /\ \/ w' = Idle
             \/ \E p \in {"undo", "side", "live", "liveHead"} : w' = [w EXCEPT !.pc = p]
      BY <1>15 DEF WriteAncientStops, Undone, DeleteWritten, DeleteBeside, WriteLive, UpdateLiveHead
    <2>2. w \in FastWriter
      BY <1>1, <2>1, WriterKinds
    <2>3. w' \in Writers /\ w'.pc \in {"idle", "undo", "side", "live", "liveHead"}
      <3>1. CASE w' = Idle
        BY <3>1 DEF Writers, Idle
      <3>2. ASSUME NEW p \in {"undo", "side", "live", "liveHead"}, w' = [w EXCEPT !.pc = p]
            PROVE  w' \in Writers /\ w'.pc = p
        BY <2>2, <3>2, FastMoves
      <3> QED BY <2>1, <3>1, <3>2
    <2> QED BY <1>1, <2>1, <2>3, ControlMoves
  <1>16. CASE AncientWritten
    <2>1. /\ st = "open" /\ st' = st /\ trn' = trn /\ rew' = rew /\ w.pc = "loop" /\ w.kind = "fast"
          /\ \/ w' = [w EXCEPT !.pc = "live"]
             \/ w' = [w EXCEPT !.pc = "head"] /\ Ancients # {}
      BY <1>16 DEF AncientWritten
    <2>2. w \in FastWriter
      BY <1>1, <2>1, WriterKinds
    <2>3. /\ w' \in Writers /\ w'.pc \in {"head", "live"} /\ w'.blocks = w.blocks /\ w'.limit = w.limit
          /\ w'.pc = "head" => Ancients # {}
      <3>1. ASSUME NEW p \in {"head", "live"}, w' = [w EXCEPT !.pc = p]
            PROVE  w' \in Writers /\ w'.pc = p /\ w'.blocks = w.blocks /\ w'.limit = w.limit
        BY <2>2, <3>1, FastMoves
      <3> QED BY <2>1, <3>1
    <2> QED BY <1>1, <2>1, <2>3, ControlMoves DEF Ancients
  <1>17. CASE UpdateHead
    <2>1. /\ st = "open" /\ st' = st /\ trn' = trn /\ rew' = rew /\ w.pc = "head"
          /\ w' = [w EXCEPT !.pc = "canonical"] \/ w' = [w EXCEPT !.pc = "undo"]
      BY <1>17 DEF UpdateHead
    <2>2. w \in FastWriter
      BY <1>1, <2>1, WriterKinds
    <2>3. w' \in Writers /\ w'.pc \in {"canonical", "undo"}
      <3>1. ASSUME NEW p \in {"canonical", "undo"}, w' = [w EXCEPT !.pc = p]
            PROVE  w' \in Writers /\ w'.pc = p
        BY <2>2, <3>1, FastMoves
      <3> QED BY <2>1, <3>1
    <2> QED BY <1>1, <2>1, <2>3, ControlMoves
  <1>18. CASE Undo
    <2>1. /\ st = "open" /\ st' = st /\ rew' = rew /\ w.pc = "undo" /\ frozen' = frozen
          /\ w' = [w EXCEPT !.pc = "undone"] /\ TruncateStart(w.prev + 1)
      BY <1>18 DEF Undo, tables
    <2>2. w \in FastWriter
      BY <1>1, <2>1, WriterKinds
    <2>3. w' \in Writers /\ w'.pc = "undone"
      BY <2>1, <2>2, FastMoves
    <2>4. w.prev + 1 \in Nat
      BY <2>2, NumbersAre DEF FastWriter
    <2>5. trn' \in Cuts /\ (trn' # Idle => trn'.items <= Height)
      BY <1>1, <2>1, <2>4, CutTyped
    <2> QED BY <1>1, <2>1, <2>3, <2>5 DEF ControlTyped
  <1>19. CASE Crash
    BY <1>1, <1>19 DEF Crash, ProcessEnds, ControlTyped, Writers, Cuts, Rewinds, Idle
  <1>20. CASE Open
    <2>1. /\ st = "closed" /\ w' = w /\ trn' = trn /\ rew' = rew
          /\ st' \in {"open", "refused"}
      BY <1>20, OpenSays DEF Opened
    <2>2. w = Idle
      BY <1>1, <2>1 DEF ControlTyped
    <2>3. w'.pc = "idle"
      BY <2>1, <2>2 DEF Idle
    <2> QED BY <1>1, <2>1, <2>2, <2>3 DEF ControlTyped
  <1> QED BY <1>2, <1>3, <1>4, <1>5, <1>6, <1>7, <1>8, <1>9, <1>10, <1>11, <1>12, <1>13, <1>14,
             <1>15, <1>16, <1>17, <1>18, <1>19, <1>20, Zenon DEF Next

LEMMA TypeInit == Init => TypeInv
  <1> SUFFICES ASSUME Init PROVE TypeInv
    OBVIOUS
  <1> DEFINE v == CHOOSE x \in Versions : TRUE
  <1>1. /\ table = [t \in Names |-> <<>>] /\ tsync = [t \in Names |-> 0] /\ frozen = 0
        /\ canon = [n \in Numbers |-> IF n = 0 THEN v ELSE None] /\ chain = canon
        /\ kvHeader = {<<0, v>>} /\ kvBody = kvHeader
        /\ hdr = 0 /\ fast = 0 /\ full = 0 /\ dbFull = 0 /\ stale = {}
        /\ st = "open" /\ w = Idle /\ trn = Idle /\ rew = Idle
    BY DEF Init
  <1>2. v \in Versions
    BY FreezerAssumption
  <1> HIDE DEF v
  <1>3. \A t \in Names : table[t] = <<>> /\ table[t] \in Seq(Stored) /\ Len(table[t]) = 0 /\ tsync[t] = 0
    BY <1>1
  <1>4. 0 \in 0..(Height + 1) /\ 0 <= Height + 1
    BY NumbersAre
  <1>5. TablesTyped
    BY <1>1, <1>3, <1>4 DEF TablesTyped
  <1>6. StoreTyped
    BY <1>1, <1>2, NumbersAre DEF StoreTyped, Stored
  <1>7. HeadsTyped
    BY <1>1, NumbersAre DEF HeadsTyped
  <1>8. ControlTyped
    BY <1>1 DEF ControlTyped, Writers, Cuts, Rewinds, Idle
  <1> QED BY <1>5, <1>6, <1>7, <1>8 DEF TypeInv

LEMMA TypeStays == TypeInv /\ [Next]_vars => TypeInv'
  <1> SUFFICES ASSUME TypeInv, [Next]_vars PROVE TypeInv'
    OBVIOUS
  <1>1. CASE Next
    BY <1>1, TablesStayTyped, StoreStaysTyped, HeadsStayTyped, ControlStaysTyped DEF TypeInv
  <1>2. CASE UNCHANGED vars
    <2>1. /\ table' = table /\ tsync' = tsync /\ frozen' = frozen /\ canon' = canon /\ kvHeader' = kvHeader
          /\ kvBody' = kvBody /\ hdr' = hdr /\ fast' = fast /\ full' = full /\ dbFull' = dbFull
          /\ st' = st /\ w' = w /\ trn' = trn /\ rew' = rew /\ chain' = chain /\ stale' = stale
      BY <1>2 DEF vars, tables, kv, heads, control, history
    <2>2. TablesTyped' /\ StoreTyped' /\ HeadsTyped'
      BY <2>1 DEF TypeInv, TablesTyped, StoreTyped, HeadsTyped
    <2>3. ControlTyped'
      BY <2>1 DEF TypeInv, ControlTyped, Ancients
    <2> QED BY <2>2, <2>3 DEF TypeInv
  <1> QED BY <1>1, <1>2

LEMMA TypeInvTypeOK == TypeInv => TypeOK
  <1> SUFFICES ASSUME TypeInv PROVE TypeOK
    OBVIOUS
  <1>1. TablesTyped /\ StoreTyped /\ HeadsTyped /\ ControlTyped
    BY DEF TypeInv
  <1>2. \A t \in Names : tsync[t] \in 0..Len(table[t])
    <2> TAKE t \in Names
    <2>1. tsync[t] \in Nat /\ Len(table[t]) \in Nat /\ tsync[t] <= Len(table[t])
      BY <1>1 DEF TablesTyped
    <2> QED BY <2>1
  <1>3. {hdr, fast, full, dbFull} \subseteq Numbers
    BY <1>1 DEF HeadsTyped
  <1> QED BY <1>1, <1>2, <1>3 DEF TypeOK, TablesTyped, StoreTyped, ControlTyped, Stored

-----------------------------------------------------------------------------
(* Where the blocks are *)

TheBlock(n) == <<n, chain[n]>>
OnChain(n) == n <= hdr \/ n <= full
WithBody(n) == n <= fast \/ n <= full

\* Where a block of the chain is: in the key-value store, or synced in every
\* table; and no table has another block at its number.
Kept(n) ==
    /\ canon[n] = chain[n] /\ TheBlock(n) \in kvHeader
    /\ WithBody(n) => TheBlock(n) \in kvBody
InTables(n) == \A t \in Names : n < tsync[t] /\ table[t][n + 1] = TheBlock(n)
Agrees(n) == \A t \in Names : n < Len(table[t]) => table[t][n + 1] = TheBlock(n)

OfFreezer == w # Idle /\ w.kind = "freeze"
OfSync == w # Idle /\ w.kind = "fast"
Filling == OfSync /\ w.pc \in {"loop", "append", "head", "undo", "undone"}

Covered == \A n \in Numbers : OnChain(n) => Kept(n) \/ InTables(n)
Agreeing ==
    /\ \A n \in Numbers : OnChain(n) => n \in stale \/ Agrees(n)
    /\ 0 \notin stale /\ canon[0] = chain[0]

\* Above the chain the tables hold what a rewind has left, and what fast sync
\* is writing.
Ended ==
    st = "open" /\ (rew = Idle \/ (rew.pc = "roll" /\ trn = Idle)) =>
        \A t \in Names : \A n \in Numbers :
            n < Len(table[t]) => OnChain(n) \/ n \in stale \/ (Filling /\ n <= w.limit)

\* InsertReceiptChain, from the fast block it found; what it puts in the
\* tables is the chain only when it has moved the fast block.
Syncing ==
    OfSync =>
        /\ w.blocks = {TheBlock(n) : n \in (w.prev + 1)..w.last}
        /\ w.prev <= w.limit /\ w.limit <= w.last /\ w.prev < w.last
        /\ w.prev <= hdr /\ full = 0
        /\ IF Filling THEN fast = w.prev ELSE w.limit <= fast
        /\ ~Filling \/ w.pc = "head" => Ancients \subseteq Range(w.done)
        /\ w.pc = "undone" => IF trn = Idle THEN frozen <= w.prev + 1 ELSE trn.items = w.prev + 1
        /\ w.pc = "liveHead" /\ hdr >= w.last => w.blocks \ Ancients \subseteq kvBody
Freezing ==
    OfFreezer =>
        /\ w.limit <= dbFull
        /\ \A n \in w.first..(frozen - 1) : \E b \in Range(w.done) : b[1] = n

\* What has been written is the chain, in every table, and synced before
\* anything is deleted for it.
Held ==
    /\ w # Idle /\ w.pc \notin {"undo", "undone"} =>
           \A b \in Range(w.done) :
               /\ b = TheBlock(b[1]) /\ b[1] <= w.limit
               /\ \A t \in Names : b[1] < Len(table[t]) /\ table[t][b[1] + 1] = b
    /\ w.pc \in {"head", "canonical", "side"} =>
           \A b \in Range(w.done) : \A t \in Names : b[1] < tsync[t]
    /\ w.pc = "append" => w.blk = TheBlock(frozen) /\ frozen <= w.limit

HeadsKnown ==
    /\ dbFull \in {0, full} /\ fast <= hdr
    /\ full > 0 => fast <= full
    /\ full > 0 /\ dbFull = 0 => fast = full

\* Until there is a head block in the database, start-up may go back to the
\* fast block: what is above it has to be in the key-value store.
Pending == dbFull = 0 => \A n \in Numbers : fast < n /\ n <= hdr => Kept(n)
Strays ==
    \A n \in Numbers : OnChain(n) /\ ~Agrees(n) => n <= fast \/ (n = fast + 1 /\ dbFull = 0)
Short ==
    st = "open" /\ dbFull = 0 =>
        /\ trn # Idle => trn.items <= fast + 2
        /\ trn = Idle \/ w.pc = "undone" =>
               \A t \in Names : Len(table[t]) <= fast + 2 \/ (Filling /\ Len(table[t]) <= w.limit + 1)

Rewinding ==
    /\ rew.pc = "step" =>
           /\ \A b \in rew.gone : b[1] > hdr
           /\ rew.gone # {} \/ hdr <= rew.target => full <= hdr
    /\ rew.pc = "roll" => full = 0 /\ (trn # Idle => trn.items <= hdr + 1)

BlockInv ==
    /\ Covered /\ Agreeing /\ Ended /\ Syncing /\ Freezing /\ Held /\ HeadsKnown
    /\ Pending /\ Strays /\ Short /\ Rewinding /\ st # "refused"

\* The task of the appending goroutine, which its steps do not change.
SameTask ==
    /\ w # Idle /\ w' # Idle /\ w'.kind = w.kind /\ w'.limit = w.limit
    /\ w.kind = "fast" => w'.prev = w.prev /\ w'.last = w.last /\ w'.blocks = w.blocks
    /\ w.kind = "freeze" => w'.first = w.first

LEMMA WriterIs ==
    ASSUME NEW x \in Writers
    PROVE  /\ x.pc = "idle" <=> x = Idle
           /\ x # Idle => /\ x.kind \in {"freeze", "fast"} /\ x.limit \in Nat
                          /\ x.done \in Seq(Block)
           /\ x # Idle /\ x.kind = "freeze" =>
                  /\ x \in FreezeWriter /\ x.first \in Nat
                  /\ x.pc \in {"loop", "append", "sync", "canonical", "side"}
           /\ x # Idle /\ x.kind = "fast" =>
                  /\ x \in FastWriter /\ x.prev \in Nat /\ x.last \in Nat /\ x.blocks \subseteq Block
                  /\ x.pc \in {"loop", "append", "undo", "undone", "head", "canonical", "side",
                               "live", "liveHead"}
  <1>1. CASE x = Idle
    BY <1>1 DEF Idle
  <1>2. CASE x \in FreezeWriter
    BY <1>2 DEF FreezeWriter, Idle
  <1>3. CASE x \in FastWriter
    BY <1>3, NumbersAre DEF FastWriter, Idle
  <1> QED BY <1>1, <1>2, <1>3 DEF Writers

LEMMA TaskMoves ==
    ASSUME w \in Writers, w # Idle, NEW p, p # "idle", w' = [w EXCEPT !.pc = p]
    PROVE  SameTask /\ w'.pc = p /\ w'.done = w.done /\ w'.blk = w.blk
  <1>1. CASE w \in FreezeWriter
    BY <1>1 DEF FreezeWriter, SameTask, Idle
  <1>2. CASE w \in FastWriter
    BY <1>2 DEF FastWriter, SameTask, Idle
  <1> QED BY <1>1, <1>2 DEF Writers

LEMMA TaskHandedOver ==
    ASSUME w \in Writers, w # Idle, NEW b, w' = HandOver(b)
    PROVE  SameTask /\ w'.pc = "append" /\ w'.done = w.done /\ w'.blk = b
  <1>1. CASE w \in FreezeWriter
    BY <1>1 DEF FreezeWriter, SameTask, Idle, HandOver
  <1>2. CASE w \in FastWriter
    BY <1>2 DEF FastWriter, SameTask, Idle, HandOver
  <1> QED BY <1>1, <1>2 DEF Writers

LEMMA TaskTakenBack ==
    ASSUME w \in Writers, w # Idle
    PROVE  /\ w' = Appended => SameTask /\ w'.pc = "loop" /\ w'.done = Append(w.done, w.blk)
           /\ w' = AppendFailed => SameTask /\ w'.pc = "sync" /\ w'.done = w.done
           /\ w' = [w EXCEPT !.k = @ + 1] => SameTask /\ w'.pc = w.pc /\ w'.done = w.done /\ w'.blk = w.blk
  <1>1. CASE w \in FreezeWriter
    BY <1>1 DEF FreezeWriter, SameTask, Idle, Appended, AppendFailed, TakeBack
  <1>2. CASE w \in FastWriter
    BY <1>2 DEF FastWriter, SameTask, Idle, Appended, AppendFailed, TakeBack
  <1> QED BY <1>1, <1>2 DEF Writers

\* Numbers, as the solvers need them.
LEMMA NumbersKnown ==
    ASSUME TypeInv
    PROVE  /\ hdr \in Nat /\ fast \in Nat /\ full \in Nat /\ dbFull \in Nat /\ frozen \in Nat
           /\ hdr <= Height /\ fast <= Height /\ full <= Height /\ dbFull <= Height
           /\ frozen <= Height + 1 /\ w \in Writers
           /\ \A t \in Names : /\ table[t] \in Seq(Stored) /\ Len(table[t]) \in Nat /\ tsync[t] \in Nat
                               /\ tsync[t] <= Len(table[t]) /\ Len(table[t]) <= Height + 1
  BY NumbersAre DEF TypeInv, TablesTyped, HeadsTyped, ControlTyped

\* How long the tables are while the database is open.
LEMMA Lengths ==
    ASSUME AncientInv, st = "open", NEW t \in Names
    PROVE  /\ w.pc # "append" => Len(table[t]) <= frozen
           /\ w.pc # "append" /\ trn = Idle => Len(table[t]) = frozen
           /\ w.pc = "append" => /\ trn = Idle /\ w.blk[1] = frozen /\ w # Idle
                                 /\ Len(table[t]) <= frozen + 1 /\ frozen <= Len(table[t])
           /\ trn # Idle => /\ w.pc # "append" /\ trn.items \in Nat /\ trn.items < frozen
                            /\ Len(table[t]) = IF t \in trn.left THEN frozen ELSE trn.items
  <1>1. Typed /\ TablesAt
    BY DEF AncientInv
  <1>2. frozen \in Nat /\ w \in Writers /\ trn \in Cuts
    BY <1>1 DEF Typed
  <1>3. ASSUME w.pc = "append"
        PROVE  /\ trn = Idle /\ w.blk[1] = frozen /\ w # Idle
               /\ Len(table[t]) \in {frozen, frozen + 1}
    <2>1. trn = Idle /\ w.blk[1] = frozen /\ HalfAppended
      BY <1>1, <1>3 DEF TablesAt
    <2>2. PICK i \in 1..Len(Tables) : t = Tables[i]
      BY TablesNamed
    <2>3. w.k \in 1..Len(Tables)
      BY <1>1, <1>3 DEF Typed
    <2>4. Len(table[t]) \in {frozen, frozen + 1}
      BY <2>1, <2>2, <2>3 DEF HalfAppended
    <2> QED BY <1>3, <2>1, <2>4 DEF Idle
  <1>4. ASSUME trn # Idle
        PROVE  /\ w.pc # "append" /\ trn.items \in Nat /\ trn.items < frozen
               /\ Len(table[t]) = IF t \in trn.left THEN frozen ELSE trn.items
    <2>1. w.pc # "append" /\ trn.items < frozen /\ HalfCut
      BY <1>1, <1>3, <1>4 DEF TablesAt
    <2>2. trn.items \in Nat
      BY <1>2, <1>4 DEF Cuts
    <2> QED BY <2>1, <2>2 DEF HalfCut
  <1>5. w.pc # "append" /\ trn = Idle => Len(table[t]) = frozen
    BY <1>1 DEF TablesAt, Even
  <1> QED BY <1>2, <1>3, <1>4, <1>5

-----------------------------------------------------------------------------
(* Steps of the appending goroutine that leave the blocks where they are *)

\* What does not depend on the goroutines.
BlocksInv == Covered /\ Agreeing /\ HeadsKnown /\ Pending /\ Strays
\* What does.
WorkInv == Ended /\ Syncing /\ Freezing /\ Held /\ Short /\ Rewinding /\ st # "refused"

LEMMA TwoParts == BlockInv <=> BlocksInv /\ WorkInv
  BY DEF BlockInv, BlocksInv, WorkInv

LEMMA TwoPartsNext == BlockInv' <=> BlocksInv' /\ WorkInv'
  BY DEF BlockInv, BlocksInv, WorkInv

\* The tables may be synced meanwhile.
SameBlocks ==
    /\ table' = table /\ \A t \in Names : tsync[t] <= tsync'[t]
    /\ canon' = canon /\ kvHeader' = kvHeader /\ kvBody' = kvBody
    /\ chain' = chain /\ stale' = stale
    /\ hdr' = hdr /\ fast' = fast /\ full' = full /\ dbFull' = dbFull

LEMMA SameBlocksKeep ==
    ASSUME TypeInv, TypeInv', BlocksInv, SameBlocks
    PROVE  BlocksInv'
  <1>1. Covered /\ Agreeing /\ HeadsKnown /\ Pending /\ Strays
    BY DEF BlocksInv
  <1>2. \A n \in Numbers : /\ OnChain(n)' <=> OnChain(n)
                           /\ Kept(n)' <=> Kept(n)
                           /\ Agrees(n)' <=> Agrees(n)
    BY DEF SameBlocks, OnChain, Kept, WithBody, Agrees, TheBlock
  <1>3. ASSUME NEW n \in Numbers, InTables(n)
        PROVE  InTables(n)'
    <2>1. n \in Nat /\ \A t \in Names : tsync[t] \in Nat /\ tsync'[t] \in Nat
      BY NumbersAre DEF TypeInv, TablesTyped
    <2> QED BY <1>3, <2>1 DEF SameBlocks, InTables, TheBlock
  <1>4. Covered'
    BY <1>1, <1>2, <1>3 DEF Covered
  <1>5. Agreeing' /\ HeadsKnown' /\ Pending' /\ Strays'
    BY <1>1, <1>2 DEF SameBlocks, Agreeing, HeadsKnown, Pending, Strays
  <1> QED BY <1>4, <1>5 DEF BlocksInv

\* The goroutine goes on with its task.
LEMMA WriterGoesOn ==
    ASSUME TypeInv, TypeInv', BlocksInv, WorkInv, SameBlocks, SameTask,
           w'.done = w.done, frozen' = frozen, st' = st, trn' = trn, rew' = rew,
           Filling' <=> Filling,
           w.pc \in {"undo", "undone"} => w'.pc = "undo",
           w'.pc \notin {"undone", "liveHead"},
           w'.pc = "head" => Ancients \subseteq Range(w.done),
           w'.pc \in {"head", "canonical", "side"} =>
               \A b \in Range(w.done) : \A t \in Names : b[1] < tsync'[t],
           w'.pc = "append" => w'.blk = TheBlock(frozen) /\ frozen <= w.limit
    PROVE  BlockInv'
  <1>1. BlocksInv'
    BY SameBlocksKeep
  <1>2. Ended /\ Syncing /\ Freezing /\ Held /\ Short /\ Rewinding /\ st # "refused"
    BY DEF WorkInv
  <1>3. (OfSync' <=> OfSync) /\ (OfFreezer' <=> OfFreezer)
    BY DEF SameTask, OfSync, OfFreezer
  <1>4. \A n \in Numbers : OnChain(n)' <=> OnChain(n)
    BY DEF SameBlocks, OnChain
  <1>5. \A n : TheBlock(n)' = TheBlock(n)
    BY DEF SameBlocks, TheBlock
  <1>6. Ended'
    BY <1>2, <1>4 DEF Ended, SameBlocks, SameTask
  <1>7. OfSync => Ancients' = Ancients
    BY DEF Ancients, SameTask, OfSync
  <1>8. Syncing'
    BY <1>2, <1>3, <1>5, <1>7 DEF Syncing, SameBlocks, SameTask, Filling, OfSync
  <1>9. Freezing'
    BY <1>2, <1>3 DEF Freezing, SameBlocks, SameTask, OfFreezer
  <1>10. Held'
    <2>1. w # Idle /\ w' # Idle /\ w'.limit = w.limit /\ table' = table
      BY DEF SameTask, SameBlocks
    <2> QED BY <1>2, <1>5, <2>1 DEF Held
  <1>11. Short'
    BY <1>2 DEF Short, SameBlocks, SameTask
  <1>12. Rewinding'
    BY <1>2 DEF Rewinding, SameBlocks
  <1> QED BY <1>1, <1>2, <1>6, <1>8, <1>9, <1>10, <1>11, <1>12, TwoPartsNext DEF WorkInv

LEMMA FreezerAlone ==
    ASSUME AncientInv, w # Idle, w.kind = "freeze"
    PROVE  trn = Idle
  <1>1. w \in Writers
    BY DEF AncientInv, Typed
  <1>2. w \notin FastWriter
    BY DEF FastWriter
  <1> QED BY <1>1, <1>2, WhileCut

\* What some table does not reach is in the key-value store, and the chain
\* has a block there.
LEMMA KeptAbove ==
    ASSUME TypeInv, BlockInv, NEW n \in Numbers, OnChain(n),
           NEW t \in Names, Len(table[t]) <= n
    PROVE  Kept(n) /\ TheBlock(n) \in Stored /\ canon[n] # None /\ TheBlock(n) = <<n, canon[n]>>
  <1>1. ~InTables(n)
    <2>1. n \in Nat /\ tsync[t] \in Nat /\ Len(table[t]) \in Nat /\ tsync[t] <= Len(table[t])
      BY NumbersAre, NumbersKnown DEF TypeInv, TablesTyped
    <2> QED BY <2>1 DEF InTables
  <1>2. Kept(n)
    BY <1>1 DEF BlockInv, Covered
  <1>3. TheBlock(n) \in Stored /\ canon[n] = chain[n]
    BY <1>2 DEF Kept, TypeInv, StoreTyped
  <1> QED BY <1>2, <1>3, FreezerAssumption DEF TheBlock, Stored

LEMMA FreezeReadCovers ==
    ASSUME TypeInv, TypeInv', AncientInv, BlockInv, FreezeRead
    PROVE  BlockInv'
  <1> DEFINE b == <<frozen, canon[frozen]>>
  <1>1. /\ st = "open" /\ w.pc = "loop" /\ w.kind = "freeze"
        /\ w' = IF frozen < w.limit /\ b \in kvHeader \cap kvBody THEN HandOver(b) ELSE [w EXCEPT !.pc = "sync"]
        /\ st' = st /\ trn' = trn /\ rew' = rew /\ frozen' = frozen /\ SameBlocks
    <2>1. /\ st = "open" /\ w.pc = "loop" /\ w.kind = "freeze"
          /\ w' = IF frozen < w.limit /\ b \in kvHeader \cap kvBody THEN HandOver(b) ELSE [w EXCEPT !.pc = "sync"]
      BY Zenon DEF FreezeRead
    <2>2. st' = st /\ trn' = trn /\ rew' = rew /\ frozen' = frozen /\ SameBlocks
      BY NumbersKnown DEF FreezeRead, SameBlocks, tables, kv, heads, history
    <2> QED BY <2>1, <2>2
  <1>2. w # Idle /\ w \in Writers /\ OfFreezer /\ ~Filling /\ trn = Idle
    BY <1>1, NumbersKnown, FreezerAlone DEF Idle, OfFreezer, OfSync, Filling
  <1>3. BlocksInv /\ WorkInv
    BY TwoParts
  <1>4. CASE frozen < w.limit /\ b \in kvHeader \cap kvBody
    <2>1. SameTask /\ w'.pc = "append" /\ w'.done = w.done /\ w'.blk = b
      BY <1>1, <1>2, <1>4, TaskHandedOver
    <2>6. frozen <= w.limit /\ w.limit \in Nat
      <3>1. w.limit \in Nat
        BY <1>2, WriterIs
      <3> QED BY <1>4, <3>1, NumbersKnown
    <2>2. frozen \in Numbers /\ OnChain(frozen)
      <3>1. w.limit <= dbFull /\ (dbFull = 0 \/ dbFull = full)
        BY <1>2 DEF BlockInv, Freezing, HeadsKnown
      <3>2. frozen < dbFull /\ dbFull <= full
        BY <1>4, <2>6, <3>1, NumbersKnown
      <3> QED BY <3>2, NumbersKnown, NumbersAre DEF OnChain
    <2>3. Len(table["hashes"]) <= frozen
      BY <1>1, TablesNamed, Lengths, NumbersKnown
    <2>4. b = TheBlock(frozen)
      BY <2>2, <2>3, TablesNamed, KeptAbove
    <2>5. ~Filling'
      BY <1>1, <2>1 DEF SameTask, Filling, OfSync
    <2> QED BY <1>1, <1>2, <1>3, <2>1, <2>4, <2>5, <2>6, WriterGoesOn
  <1>5. CASE ~(frozen < w.limit /\ b \in kvHeader \cap kvBody)
    <2>1. SameTask /\ w'.pc = "sync" /\ w'.done = w.done
      BY <1>1, <1>2, <1>5, TaskMoves
    <2>2. ~Filling'
      BY <1>1, <2>1 DEF SameTask, Filling, OfSync
    <2> QED BY <1>1, <1>2, <1>3, <2>1, <2>2, WriterGoesOn
  <1> QED BY <1>4, <1>5

LEMMA FreezeSyncCovers ==
    ASSUME TypeInv, TypeInv', AncientInv, BlockInv, FreezeSync
    PROVE  BlockInv'
  <1>1. /\ st = "open" /\ w.pc = "sync" /\ w.kind = "freeze" /\ w' = [w EXCEPT !.pc = "canonical"]
        /\ st' = st /\ trn' = trn /\ rew' = rew /\ frozen' = frozen
        /\ \A t \in Names : tsync'[t] = Len(table[t])
    BY DEF FreezeSync
  <1>2. SameBlocks
    BY <1>1, NumbersKnown DEF FreezeSync, SameBlocks, kv, heads, history
  <1>3. w # Idle /\ w \in Writers /\ ~Filling
    BY <1>1, NumbersKnown DEF Idle, OfSync, Filling
  <1>4. BlocksInv /\ WorkInv
    BY TwoParts
  <1>5. SameTask /\ w'.pc = "canonical" /\ w'.done = w.done
    BY <1>1, <1>3, TaskMoves
  <1>6. ~Filling'
    BY <1>1, <1>5 DEF SameTask, Filling, OfSync
  <1>7. \A b \in Range(w.done) : \A t \in Names : b[1] < tsync'[t]
    BY <1>1, <1>3, <1>4 DEF WorkInv, Held
  <1> QED BY <1>1, <1>2, <1>3, <1>4, <1>5, <1>6, <1>7, WriterGoesOn

LEMMA WriteAncientStopsCovers ==
    ASSUME TypeInv, TypeInv', AncientInv, BlockInv, WriteAncientStops
    PROVE  BlockInv'
  <1>1. /\ st = "open" /\ w.pc = "loop" /\ w.kind = "fast" /\ w' = [w EXCEPT !.pc = "undo"]
        /\ st' = st /\ trn' = trn /\ rew' = rew /\ frozen' = frozen /\ SameBlocks
    BY NumbersKnown DEF WriteAncientStops, SameBlocks, tables, kv, heads, history
  <1>2. w # Idle /\ w \in Writers /\ Filling
    BY <1>1, NumbersKnown DEF Idle, OfSync, Filling
  <1>3. BlocksInv /\ WorkInv
    BY TwoParts
  <1>4. SameTask /\ w'.pc = "undo" /\ w'.done = w.done
    BY <1>1, <1>2, TaskMoves
  <1>5. Filling'
    BY <1>1, <1>4 DEF SameTask, Filling, OfSync
  <1> QED BY <1>1, <1>2, <1>3, <1>4, <1>5, WriterGoesOn

\* A process that has ended holds nothing.
LEMMA ClosedCovers ==
    ASSUME BlocksInv', st' = "closed", w' = Idle, trn' = Idle, rew' = Idle
    PROVE  BlockInv'
  <1>1. w'.pc = "idle" /\ rew'.pc = "idle" /\ ~OfSync' /\ ~OfFreezer'
    BY DEF Idle, OfSync, OfFreezer
  <1>2. Ended' /\ Syncing' /\ Freezing' /\ Held' /\ Short' /\ Rewinding'
    BY <1>1 DEF Ended, Syncing, Freezing, Held, Short, Rewinding
  <1> QED BY <1>2, TwoPartsNext DEF WorkInv

\* What InsertReceiptChain reads to fill the tables up to its own blocks is
\* the chain.
LEMMA BelowIsChain ==
    ASSUME TypeInv, AncientInv, BlockInv, st = "open", w.pc = "loop", w \in FastWriter, Remaining # {},
           NEW b \in Stored, b[1] = frozen,
           b = IF frozen < NextBlock[1] THEN ReadBlock(ReadCanonicalHash(frozen)) ELSE NextBlock
    PROVE  b = TheBlock(frozen) /\ frozen <= w.limit
  <1>1. w # Idle /\ w \in Writers /\ OfSync /\ Filling /\ w.prev \in Nat /\ w.last \in Nat /\ w.limit \in Nat
    <2>1. w # Idle /\ w \in Writers /\ w.kind = "fast"
      BY NumbersKnown DEF FastWriter, Idle
    <2> QED BY <2>1, WriterIs DEF OfSync, Filling
  <1>2. /\ w.blocks = {TheBlock(n) : n \in (w.prev + 1)..w.last}
        /\ w.prev <= w.limit /\ w.limit <= w.last /\ w.prev <= hdr
    BY <1>1 DEF BlockInv, Syncing
  <1>3. /\ NextBlock \in w.blocks /\ NextBlock[1] \in Numbers /\ NextBlock[1] <= w.limit
        /\ \A x \in Remaining : NextBlock[1] <= x[1]
    BY NextBlockOf
  <1>4. NextBlock = TheBlock(NextBlock[1])
    BY <1>2, <1>3 DEF TheBlock
  <1>5. frozen \in Nat /\ frozen \in Numbers /\ NextBlock[1] \in Nat
    BY <1>3, NumbersAre, NumbersKnown DEF Stored
  <1>6. CASE ~(frozen < NextBlock[1])
    BY <1>3, <1>4, <1>6
  <1>7. CASE frozen < NextBlock[1]
    <2>1. /\ Len(table["hashes"]) <= frozen /\ Len(table["bodies"]) <= frozen
      BY Lengths, TablesNamed
    <2>2. frozen <= w.prev
      <3> SUFFICES ASSUME w.prev < frozen PROVE FALSE
        BY <1>1, <1>5
      <3>1. frozen \in (w.prev + 1)..w.last /\ frozen <= w.limit
        BY <1>1, <1>2, <1>3, <1>5, <1>7
      <3>2. TheBlock(frozen) \in w.blocks /\ TheBlock(frozen)[1] = frozen
        BY <1>2, <3>1 DEF TheBlock
      <3>3. TheBlock(frozen) \notin Remaining
        BY <1>3, <1>5, <1>7, <3>2
      <3>4. TheBlock(frozen) \in Range(w.done)
        BY <3>1, <3>2, <3>3 DEF Remaining, Ancients
      <3>5. frozen < Len(table["hashes"])
        BY <1>1, <3>2, <3>4, TablesNamed DEF BlockInv, Held
      <3> QED BY <2>1, <3>5, <1>5, NumbersKnown, TablesNamed
    <2>3. OnChain(frozen) /\ frozen <= w.limit
      BY <1>1, <1>2, <1>5, <2>2, NumbersKnown DEF OnChain
    <2>4. /\ canon[frozen] # None /\ TheBlock(frozen) = <<frozen, canon[frozen]>>
      BY <1>5, <2>1, <2>3, KeptAbove, TablesNamed
    <2>5. Ancient("hashes", frozen) = None /\ Ancient("bodies", frozen) = None
      BY <1>5, <2>1, TablesNamed, AncientStored, NumbersKnown DEF TypeInv
    <2>6. ReadCanonicalHash(frozen) = TheBlock(frozen)
      BY <2>4, <2>5 DEF ReadCanonicalHash
    <2>7. b = ReadBlock(TheBlock(frozen)) /\ b # None
      <3>1. b # None
        BY FreezerAssumption DEF Stored, Numbers
      <3> QED BY <1>7, <2>6, <3>1
    <2>8. b = ReadBody(TheBlock(frozen))
      BY <2>7 DEF ReadBlock
    <2>9. b = TheBlock(frozen)
      BY <2>5, <2>7, <2>8 DEF ReadBody, TheBlock
    <2> QED BY <2>3, <2>9
  <1> QED BY <1>6, <1>7

LEMMA WriteAncientCovers ==
    ASSUME TypeInv, TypeInv', AncientInv, BlockInv, WriteAncient
    PROVE  BlockInv'
  <1>1. /\ st = "open" /\ w.pc = "loop" /\ w.kind = "fast" /\ Remaining # {}
        /\ frozen' = frozen /\ SameBlocks
        /\ ProcessEnds \/ (st' = st /\ trn' = trn /\ rew' = rew)
    BY NumbersKnown DEF WriteAncient, SameBlocks, tables, kv, heads, history
  <1>2. w # Idle /\ w \in Writers /\ w \in FastWriter /\ Filling
    <2>1. w # Idle /\ w \in Writers
      BY <1>1, NumbersKnown DEF Idle
    <2> QED BY <1>1, <2>1, WriterIs DEF Filling, OfSync
  <1>3. BlocksInv /\ WorkInv
    BY TwoParts
  <1>4. CASE ProcessEnds
    BY <1>1, <1>3, <1>4, SameBlocksKeep, ClosedCovers DEF ProcessEnds
  <1>5. CASE ~ProcessEnds
    <2>1. PICK b \in Stored :
              /\ b[1] = frozen /\ w' = HandOver(b)
              /\ b = IF frozen < NextBlock[1] THEN ReadBlock(ReadCanonicalHash(frozen)) ELSE NextBlock
      BY <1>2, <1>5, HandedOver DEF TypeInv
    <2>2. b = TheBlock(frozen) /\ frozen <= w.limit
      BY <1>1, <1>2, <2>1, BelowIsChain
    <2>3. SameTask /\ w'.pc = "append" /\ w'.done = w.done /\ w'.blk = b
      BY <1>2, <2>1, TaskHandedOver
    <2>4. Filling'
      BY <1>1, <2>3 DEF SameTask, Filling, OfSync
    <2> QED BY <1>1, <1>2, <1>3, <1>5, <2>2, <2>3, <2>4, WriterGoesOn
  <1> QED BY <1>4, <1>5

LEMMA AncientWrittenCovers ==
    ASSUME TypeInv, TypeInv', AncientInv, BlockInv, AncientWritten
    PROVE  BlockInv'
  <1>1. /\ st = "open" /\ w.pc = "loop" /\ w.kind = "fast" /\ Remaining = {}
        /\ w' = [w EXCEPT !.pc = IF Ancients = {} THEN "live" ELSE "head"]
        /\ tsync' = IF Ancients = {} THEN tsync ELSE [t \in Names |-> Len(table[t])]
        /\ st' = st /\ trn' = trn /\ rew' = rew /\ frozen' = frozen /\ table' = table
    BY DEF AncientWritten
  <1>2. SameBlocks
    <2>1. \A t \in Names : tsync[t] <= tsync'[t]
      BY <1>1, NumbersKnown
    <2> QED BY <1>1, <2>1 DEF AncientWritten, SameBlocks, kv, heads, history
  <1>3. w # Idle /\ w \in Writers /\ w \in FastWriter /\ Filling /\ OfSync
    <2>1. w # Idle /\ w \in Writers
      BY <1>1, NumbersKnown DEF Idle
    <2> QED BY <1>1, <2>1, WriterIs DEF Filling, OfSync
  <1>4. BlocksInv /\ WorkInv
    BY TwoParts
  <1>5. Ancients \subseteq Range(w.done)
    BY <1>1 DEF Remaining
  <1>6. CASE Ancients # {}
    <2>1. SameTask /\ w'.pc = "head" /\ w'.done = w.done
      BY <1>1, <1>3, <1>6, TaskMoves
    <2>2. Filling'
      BY <1>1, <2>1 DEF SameTask, Filling, OfSync
    <2>3. \A b \in Range(w.done) : \A t \in Names : b[1] < tsync'[t]
      BY <1>1, <1>3, <1>4, <1>6 DEF WorkInv, Held
    <2> QED BY <1>1, <1>2, <1>3, <1>4, <1>5, <2>1, <2>2, <2>3, WriterGoesOn
  <1>7. CASE Ancients = {}
    <2>1. SameTask /\ w'.pc = "live" /\ w'.done = w.done
      BY <1>1, <1>3, <1>7, TaskMoves
    <2>2. ~Filling' /\ OfSync' /\ ~OfFreezer'
      BY <1>1, <2>1 DEF SameTask, Filling, OfSync, OfFreezer
    <2>3. w.prev \in Nat /\ w.last \in Nat /\ w.limit \in Nat
      BY <1>1, <1>3, WriterIs
    <2>4. w.limit = w.prev /\ fast = w.prev /\ w.prev <= hdr
      <3>1. /\ w.blocks = {TheBlock(n) : n \in (w.prev + 1)..w.last} /\ w.prev <= w.limit
            /\ w.prev < w.last /\ w.prev <= hdr /\ fast = w.prev
        BY <1>3, <1>4 DEF WorkInv, Syncing
      <3>2. TheBlock(w.prev + 1) \in w.blocks /\ TheBlock(w.prev + 1)[1] = w.prev + 1
        BY <2>3, <3>1 DEF TheBlock
      <3>3. ~(w.prev + 1 <= w.limit)
        BY <1>7, <3>2 DEF Ancients
      <3> QED BY <2>3, <3>1, <3>3
    <2>5. BlocksInv'
      BY <1>2, <1>4, SameBlocksKeep
    <2>6. Ended'
      <3> SUFFICES ASSUME rew = Idle \/ (rew.pc = "roll" /\ trn = Idle),
                          NEW t \in Names, NEW n \in Numbers, n < Len(table[t])
                   PROVE  OnChain(n)' \/ n \in stale
        BY <1>1, <1>2 DEF Ended, SameBlocks
      <3>1. OnChain(n) \/ n \in stale \/ n <= w.limit
        BY <1>1, <1>4 DEF WorkInv, Ended
      <3>2. n <= w.limit => n <= hdr
        BY <2>3, <2>4, NumbersAre, NumbersKnown
      <3> QED BY <1>2, <3>1, <3>2 DEF OnChain, SameBlocks
    <2>7. Syncing'
      <3>1. \A n : TheBlock(n)' = TheBlock(n)
        BY <1>2 DEF SameBlocks, TheBlock
      <3>2. Ancients' = {}
        BY <1>3, <1>7, <2>1 DEF Ancients, SameTask, OfSync
      <3>3. w.limit <= fast
        BY <2>3, <2>4
      <3> QED BY <1>2, <1>3, <1>4, <2>1, <2>2, <3>1, <3>2, <3>3 DEF WorkInv, Syncing, SameBlocks, SameTask, OfSync
    <2>8. Freezing'
      BY <2>2 DEF Freezing
    <2>9. Held'
      BY <1>1, <1>2, <1>3, <1>4, <2>1 DEF WorkInv, Held, SameBlocks, SameTask, TheBlock
    <2>10. Short'
      <3> SUFFICES ASSUME dbFull = 0
                   PROVE  /\ trn # Idle => trn.items <= fast + 2
                          /\ trn = Idle => \A t \in Names : Len(table[t]) <= fast + 2
        BY <1>1, <1>2, <2>1 DEF Short, SameBlocks
      <3>1. /\ trn # Idle => trn.items <= fast + 2
            /\ trn = Idle => \A t \in Names : Len(table[t]) <= fast + 2 \/ Len(table[t]) <= w.limit + 1
        BY <1>1, <1>4 DEF WorkInv, Short
      <3> QED BY <2>3, <2>4, <3>1, NumbersKnown
    <2>11. Rewinding'
      BY <1>1, <1>2, <1>4 DEF WorkInv, Rewinding, SameBlocks
    <2> QED BY <1>1, <2>5, <2>6, <2>7, <2>8, <2>9, <2>10, <2>11, TwoPartsNext DEF WorkInv
  <1> QED BY <1>6, <1>7

\* A goroutine that begins has written nothing.
LEMMA WriterStarts ==
    ASSUME TypeInv, TypeInv', BlockInv, SameBlocks, st = "open", w = Idle,
           w' # Idle, w'.pc = "loop", w'.done = <<>>,
           st' = st, trn' = trn, rew' = rew, Syncing', Freezing'
    PROVE  BlockInv'
  <1>1. BlocksInv /\ WorkInv /\ ~Filling /\ w.pc = "idle"
    BY TwoParts DEF Filling, OfSync, Idle
  <1>2. BlocksInv'
    BY <1>1, SameBlocksKeep
  <1>3. Ended'
    BY <1>1 DEF WorkInv, Ended, SameBlocks, OnChain
  <1>4. Range(w'.done) = {}
    BY DEF Range
  <1>5. Held'
    BY <1>4 DEF Held
  <1>6. Short'
    BY <1>1 DEF WorkInv, Short, SameBlocks
  <1>7. Rewinding'
    BY <1>1 DEF WorkInv, Rewinding, SameBlocks
  <1> QED BY <1>1, <1>2, <1>3, <1>5, <1>6, <1>7, TwoPartsNext DEF WorkInv

LEMMA FreezeCheckCovers ==
    ASSUME TypeInv, TypeInv', AncientInv, BlockInv, FreezeCheck
    PROVE  BlockInv'
  <1> DEFINE limit == Min({dbFull - ImmutabilityThreshold, frozen + freezerBatchLimit})
  <1>1. /\ st = "open" /\ w = Idle /\ dbFull - ImmutabilityThreshold > frozen
        /\ w' = [pc |-> "loop", kind |-> "freeze", first |-> frozen,
                 done |-> <<>>, blk |-> None, k |-> 0, limit |-> limit]
        /\ st' = st /\ trn' = trn /\ rew' = rew /\ frozen' = frozen
    BY DEF FreezeCheck, tables
  <1>2. SameBlocks
    BY NumbersKnown DEF FreezeCheck, SameBlocks, tables, kv, heads, history
  <1>3. limit <= dbFull
    <2>1. dbFull \in Nat /\ frozen \in Nat /\ ImmutabilityThreshold \in Nat /\ freezerBatchLimit \in Nat
      BY FreezerAssumption, NumbersKnown
    <2>2. dbFull - ImmutabilityThreshold \in Nat /\ frozen + freezerBatchLimit \in Nat
      BY <1>1, <2>1
    <2> QED BY <2>1, <2>2, MinOfPair
  <1> HIDE DEF limit
  <1>4. /\ w' # Idle /\ w'.pc = "loop" /\ w'.done = <<>> /\ w'.kind = "freeze"
        /\ w'.limit = limit /\ w'.first = frozen
    BY <1>1 DEF Idle
  <1>5. Syncing' /\ Freezing'
    <2>1. w'.first..(frozen' - 1) = {}
      BY <1>1, <1>4, NumbersKnown
    <2> QED BY <1>2, <1>3, <1>4, <2>1 DEF Syncing, Freezing, OfSync, SameBlocks
  <1> QED BY <1>1, <1>2, <1>4, <1>5, WriterStarts

LEMMA InsertReceiptChainCovers ==
    ASSUME TypeInv, TypeInv', AncientInv, BlockInv, InsertReceiptChain
    PROVE  BlockInv'
  <1>1. st = "open" /\ w = Idle /\ full = 0 /\ st' = st /\ trn' = trn /\ rew' = rew /\ frozen' = frozen
    BY DEF InsertReceiptChain, tables
  <1>2. SameBlocks
    BY NumbersKnown DEF InsertReceiptChain, SameBlocks, tables, kv, heads, history
  <1>3. /\ w' \in FastWriter /\ w'.pc = "loop" /\ w'.done = <<>>
        /\ w'.prev = fast /\ w'.last \in (fast + 1)..hdr /\ w'.limit \in fast..w'.last
        /\ w'.blocks = {<<n, chain[n]>> : n \in (fast + 1)..w'.last}
    BY SyncStarts DEF TypeInv
  <1>4. w' # Idle /\ w'.kind = "fast" /\ OfSync' /\ Filling' /\ ~OfFreezer'
    BY <1>3 DEF FastWriter, Idle, OfSync, Filling, OfFreezer
  <1>5. fast <= hdr
    BY DEF BlockInv, HeadsKnown
  <1>6. Syncing'
    <2>1. w'.blocks = {TheBlock(n)' : n \in (w'.prev + 1)..w'.last}
      BY <1>2, <1>3 DEF TheBlock, SameBlocks
    <2>2. w'.prev <= w'.limit /\ w'.limit <= w'.last /\ w'.prev < w'.last
      BY <1>3, NumbersKnown
    <2> QED BY <1>1, <1>2, <1>3, <1>4, <1>5, <2>1, <2>2 DEF Syncing, SameBlocks
  <1>7. Freezing'
    BY <1>4 DEF Freezing
  <1> QED BY <1>1, <1>2, <1>3, <1>4, <1>6, <1>7, WriterStarts

LEMMA UndoCovers ==
    ASSUME TypeInv, TypeInv', AncientInv, BlockInv, Undo
    PROVE  BlockInv'
  <1>1. /\ st = "open" /\ w.pc = "undo" /\ trn = Idle /\ w' = [w EXCEPT !.pc = "undone"]
        /\ TruncateStart(w.prev + 1) /\ st' = st /\ rew' = rew /\ frozen' = frozen
    BY DEF Undo, tables
  <1>2. SameBlocks
    BY NumbersKnown DEF Undo, SameBlocks, tables, kv, heads, history
  <1>3. w # Idle /\ w \in Writers /\ w.kind = "fast" /\ Filling /\ OfSync
    <2>1. w # Idle /\ w \in Writers
      BY <1>1, NumbersKnown DEF Idle
    <2> QED BY <1>1, <2>1, WriterIs DEF Filling, OfSync
  <1>4. SameTask /\ w'.pc = "undone" /\ w'.done = w.done
    BY <1>1, <1>3, TaskMoves
  <1>5. Filling' /\ OfSync' /\ ~OfFreezer'
    BY <1>3, <1>4 DEF SameTask, Filling, OfSync, OfFreezer
  <1>6. BlocksInv /\ WorkInv /\ w.prev \in Nat
    BY <1>3, TwoParts, WriterIs
  <1>7. IF frozen <= w.prev + 1 THEN trn' = Idle ELSE trn' # Idle /\ trn'.items = w.prev + 1
    BY <1>1 DEF TruncateStart, Idle
  <1>8. BlocksInv'
    BY <1>2, <1>6, SameBlocksKeep
  <1>9. Ended'
    BY <1>1, <1>2, <1>4, <1>5, <1>6 DEF WorkInv, Ended, SameBlocks, SameTask, OnChain
  <1>10. Syncing'
    <2>1. Ancients' = Ancients
      BY <1>3, <1>4 DEF Ancients, SameTask
    <2>2. /\ w.blocks = {TheBlock(n) : n \in (w.prev + 1)..w.last}
          /\ w.prev <= w.limit /\ w.limit <= w.last /\ w.prev < w.last
          /\ w.prev <= hdr /\ full = 0 /\ fast = w.prev
      BY <1>3, <1>6 DEF WorkInv, Syncing
    <2>3. w'.blocks = {TheBlock(n)' : n \in (w'.prev + 1)..w'.last}
      BY <1>2, <1>3, <1>4, <2>2 DEF SameBlocks, TheBlock, SameTask
    <2> QED BY <1>1, <1>2, <1>3, <1>4, <1>5, <1>7, <2>1, <2>2, <2>3 DEF Syncing, SameBlocks, SameTask
  <1>11. Freezing' /\ Held'
    BY <1>4, <1>5 DEF Freezing, Held
  <1>12. fast = w.prev /\ w.prev <= hdr
    BY <1>3, <1>6 DEF WorkInv, Syncing
  <1>13. Short'
    <2>1. dbFull = 0 => \A t \in Names : Len(table[t]) <= fast + 2 \/ Len(table[t]) <= w.limit + 1
      BY <1>1, <1>6 DEF WorkInv, Short
    <2>2. trn' # Idle => trn'.items <= fast + 2
      BY <1>6, <1>7, <1>12, NumbersKnown
    <2> QED BY <1>1, <1>2, <1>4, <1>5, <2>1, <2>2 DEF Short, SameBlocks, SameTask
  <1>14. Rewinding'
    <2>1. trn' # Idle => trn'.items <= hdr + 1
      BY <1>6, <1>7, <1>12, NumbersKnown
    <2> QED BY <1>1, <1>2, <1>6, <2>1 DEF WorkInv, Rewinding, SameBlocks
  <1> QED BY <1>1, <1>6, <1>8, <1>9, <1>10, <1>11, <1>13, <1>14, TwoPartsNext DEF WorkInv

\* Where tables, chain and heads are as they were.
SameTables ==
    /\ table' = table /\ tsync' = tsync /\ frozen' = frozen /\ chain' = chain /\ stale' = stale
    /\ hdr' = hdr /\ fast' = fast /\ full' = full /\ dbFull' = dbFull
    /\ st' = st /\ trn' = trn /\ rew' = rew

\* The goroutine has come to its end.
LEMMA WriterRests ==
    ASSUME WorkInv, SameTables, ~Filling, w.pc # "undone", w' = Idle
    PROVE  WorkInv'
  <1>1. w'.pc = "idle" /\ ~OfSync' /\ ~OfFreezer' /\ ~Filling'
    BY DEF Idle, OfSync, OfFreezer, Filling
  <1>2. Syncing' /\ Freezing' /\ Held'
    BY <1>1 DEF Syncing, Freezing, Held
  <1>3. Ended' /\ Short' /\ Rewinding'
    BY <1>1 DEF WorkInv, Ended, Short, Rewinding, SameTables, OnChain
  <1> QED BY <1>2, <1>3 DEF WorkInv, SameTables

\* It goes on after it has deleted or written what it had to.
LEMMA WriterCloses ==
    ASSUME WorkInv, SameTables, SameTask, w'.done = w.done, ~Filling,
           w.pc \in {"canonical", "side", "live"}, w'.pc \in {"side", "live", "liveHead"},
           w'.pc = "side" => w.pc = "canonical",
           w'.pc = "liveHead" => w.blocks \ Ancients \subseteq kvBody'
    PROVE  WorkInv'
  <1>1. (OfSync' <=> OfSync) /\ (OfFreezer' <=> OfFreezer) /\ ~Filling'
    BY DEF SameTask, OfSync, OfFreezer, Filling
  <1>2. \A n : TheBlock(n)' = TheBlock(n)
    BY DEF SameTables, TheBlock
  <1>3. OfSync => Ancients' = Ancients
    BY DEF Ancients, SameTask, OfSync
  <1>4. Syncing'
    BY <1>1, <1>2, <1>3 DEF WorkInv, Syncing, SameTables, SameTask, OfSync
  <1>5. Freezing'
    BY <1>1 DEF WorkInv, Freezing, SameTables, SameTask, OfFreezer
  <1>6. Held'
    <2>1. w # Idle /\ w' # Idle /\ w'.limit = w.limit /\ table' = table /\ tsync' = tsync
      BY DEF SameTask, SameTables
    <2> QED BY <1>2, <2>1 DEF WorkInv, Held
  <1>7. Ended' /\ Short' /\ Rewinding'
    BY <1>1 DEF WorkInv, Ended, Short, Rewinding, SameTables, OnChain
  <1> QED BY <1>4, <1>5, <1>6, <1>7 DEF WorkInv, SameTables

LEMMA WriteLiveCovers ==
    ASSUME TypeInv, TypeInv', AncientInv, BlockInv, WriteLive
    PROVE  BlockInv'
  <1> DEFINE live == w.blocks \ Ancients
  <1>1. /\ st = "open" /\ w.pc = "live"
        /\ kvBody' = kvBody \cup IF \A b \in live : HasHeader(b) THEN live ELSE {}
        /\ \/ w' = Idle
           \/ w' = [w EXCEPT !.pc = "liveHead"] /\ live \subseteq kvBody'
        /\ canon' = canon /\ kvHeader' = kvHeader
    BY DEF WriteLive
  <1>2. SameTables
    BY DEF WriteLive, SameTables, tables, heads, history
  <1>3. BlocksInv /\ WorkInv /\ w # Idle /\ w \in Writers /\ ~Filling
    BY <1>1, TwoParts, NumbersKnown DEF Idle, Filling
  <1>4. kvBody \subseteq kvBody'
    BY <1>1
  <1>5. BlocksInv'
    <2>1. \A n \in Numbers : /\ OnChain(n)' <=> OnChain(n)
                             /\ Kept(n) => Kept(n)'
                             /\ InTables(n)' <=> InTables(n)
                             /\ Agrees(n)' <=> Agrees(n)
      BY <1>1, <1>2, <1>4 DEF SameTables, OnChain, Kept, WithBody, InTables, Agrees, TheBlock
    <2>2. Covered' /\ Pending'
      BY <1>2, <1>3, <2>1 DEF BlocksInv, Covered, Pending, SameTables
    <2>3. Agreeing' /\ HeadsKnown' /\ Strays'
      BY <1>1, <1>2, <1>3, <2>1 DEF BlocksInv, Agreeing, HeadsKnown, Strays, SameTables
    <2> QED BY <2>2, <2>3 DEF BlocksInv
  <1>6. CASE w' = Idle
    BY <1>1, <1>2, <1>3, <1>5, <1>6, WriterRests, TwoPartsNext
  <1>7. CASE w' = [w EXCEPT !.pc = "liveHead"] /\ live \subseteq kvBody'
    <2>1. SameTask /\ w'.pc = "liveHead" /\ w'.done = w.done
      BY <1>3, <1>7, TaskMoves
    <2> QED BY <1>1, <1>2, <1>3, <1>5, <1>7, <2>1, WriterCloses, TwoPartsNext
  <1> QED BY <1>1, <1>6, <1>7

LEMMA UndoneCovers ==
    ASSUME TypeInv, TypeInv', AncientInv, BlockInv, Undone
    PROVE  BlockInv'
  <1>1. /\ st = "open" /\ w.pc = "undone" /\ trn = Idle /\ w' = Idle
        /\ st' = st /\ trn' = trn /\ rew' = rew
    BY DEF Undone
  <1>2. SameBlocks
    BY NumbersKnown DEF Undone, SameBlocks, tables, kv, heads, history
  <1>3. BlocksInv /\ WorkInv /\ w # Idle /\ w \in Writers /\ OfSync /\ Filling /\ w.prev \in Nat
    <2>1. w # Idle /\ w \in Writers
      BY <1>1, NumbersKnown DEF Idle
    <2>2. w.kind = "fast"
      BY <1>1, <2>1, WriterIs
    <2> QED BY <1>1, <2>1, <2>2, TwoParts, WriterIs DEF Filling, OfSync
  <1>4. frozen <= w.prev + 1 /\ w.prev <= hdr /\ fast = w.prev
    BY <1>1, <1>3 DEF WorkInv, Syncing
  <1>5. \A t \in Names : Len(table[t]) <= w.prev + 1
    BY <1>1, <1>4, Lengths, NumbersKnown
  <1>6. w'.pc = "idle" /\ ~OfSync' /\ ~OfFreezer' /\ ~Filling'
    BY <1>1 DEF Idle, OfSync, OfFreezer, Filling
  <1>7. Ended'
    <2>1. \A t \in Names : \A n \in Numbers : n < Len(table[t]) => n <= hdr
      BY <1>3, <1>4, <1>5, NumbersKnown, NumbersAre
    <2> QED BY <1>2, <2>1 DEF Ended, SameBlocks, OnChain
  <1>8. Short'
    <2>1. \A t \in Names : Len(table[t]) <= fast + 2
      BY <1>3, <1>4, <1>5, NumbersKnown
    <2> QED BY <1>1, <1>2, <2>1 DEF Short, SameBlocks
  <1>9. Syncing' /\ Freezing' /\ Held'
    BY <1>1, <1>6 DEF Syncing, Freezing, Held
  <1>10. Rewinding'
    BY <1>1, <1>2, <1>3 DEF WorkInv, Rewinding, SameBlocks
  <1>11. BlocksInv'
    BY <1>2, <1>3, SameBlocksKeep
  <1> QED BY <1>1, <1>3, <1>7, <1>8, <1>9, <1>10, <1>11, TwoPartsNext DEF WorkInv

-----------------------------------------------------------------------------
(* Deletions *)

\* A deletion harms nothing if what it takes is not on the chain, or is in
\* the tables and below what start-up may have to go back to.
LEMMA DeletesCover ==
    ASSUME TypeInv, BlocksInv, SameTables, NEW X,
           kvHeader' = kvHeader \ X, kvBody' = kvBody \ X, canon'[0] = canon[0],
           \A n \in Numbers : OnChain(n) =>
               \/ canon'[n] = canon[n] /\ TheBlock(n) \notin X
               \/ InTables(n) /\ (dbFull = 0 => n <= fast)
    PROVE  BlocksInv'
  <1>1. Covered /\ Agreeing /\ HeadsKnown /\ Pending /\ Strays
    BY DEF BlocksInv
  <1>2. \A n \in Numbers : /\ OnChain(n)' <=> OnChain(n)
                           /\ InTables(n)' <=> InTables(n)
                           /\ Agrees(n)' <=> Agrees(n)
    BY DEF SameTables, OnChain, InTables, Agrees, TheBlock
  <1>3. \A n \in Numbers : Kept(n) /\ canon'[n] = canon[n] /\ TheBlock(n) \notin X => Kept(n)'
    BY DEF SameTables, Kept, WithBody, TheBlock
  <1>4. Covered'
    BY <1>1, <1>2, <1>3 DEF Covered
  <1>5. Agreeing' /\ HeadsKnown' /\ Strays'
    BY <1>1, <1>2 DEF Agreeing, HeadsKnown, Strays, SameTables
  <1>6. Pending'
    <2> SUFFICES ASSUME dbFull = 0, NEW n \in Numbers, fast < n, n <= hdr PROVE Kept(n)'
      BY DEF Pending, SameTables
    <2>1. Kept(n) /\ OnChain(n)
      BY <1>1 DEF Pending, OnChain
    <2>2. ~(n <= fast)
      BY NumbersKnown, NumbersAre
    <2> QED BY <1>3, <2>1, <2>2
  <1> QED BY <1>4, <1>5, <1>6 DEF BlocksInv

\* What has been written is in the tables.
LEMMA WrittenIsSafe ==
    ASSUME TypeInv, BlockInv, w.pc \in {"canonical", "side"}, NEW b \in Range(w.done)
    PROVE  /\ b[1] \in Numbers /\ b = TheBlock(b[1]) /\ InTables(b[1])
           /\ b[1] # 0 /\ dbFull = 0 => b[1] <= fast
  <1>1. w # Idle /\ w \in Writers
    BY NumbersKnown DEF Idle
  <1>2. w.done \in Seq(Block) /\ w.limit \in Nat
    BY <1>1, WriterIs
  <1>3. b \in Block /\ b[1] \in Numbers /\ b[1] \in Nat
    BY <1>2, NumbersAre DEF Range, Block
  <1>4. /\ b = TheBlock(b[1]) /\ b[1] <= w.limit
        /\ \A t \in Names : table[t][b[1] + 1] = b /\ b[1] < tsync[t]
    BY <1>1 DEF BlockInv, Held
  <1>5. InTables(b[1])
    BY <1>4 DEF InTables
  <1>6. CASE w.kind = "freeze"
    <2>1. w.limit <= dbFull
      BY <1>1, <1>6 DEF BlockInv, Freezing, OfFreezer
    <2>2. b[1] # 0 /\ dbFull = 0 => FALSE
      BY <1>2, <1>3, <1>4, <2>1
    <2> QED BY <1>3, <1>4, <1>5, <2>2
  <1>7. CASE w.kind = "fast"
    <2>1. w.limit <= fast
      BY <1>1, <1>7 DEF BlockInv, Syncing, OfSync, Filling
    <2>2. b[1] <= fast
      BY <1>2, <1>3, <1>4, <2>1, NumbersKnown
    <2> QED BY <1>3, <1>4, <1>5, <2>2
  <1> QED BY <1>1, <1>6, <1>7, WriterIs

LEMMA CanonicalDeletesCover ==
    ASSUME TypeInv, BlockInv, SameTables, w.pc = "canonical",
           DeleteFrozen({b \in Range(w.done) : b[1] # 0})
    PROVE  BlocksInv'
  <1> DEFINE X == {b \in Range(w.done) : b[1] # 0}
  <1>1. /\ kvHeader' = kvHeader \ X /\ kvBody' = kvBody \ X
        /\ canon' = [n \in Numbers |-> IF \E b \in X : b[1] = n THEN None ELSE canon[n]]
    BY DEF DeleteFrozen
  <1>2. canon'[0] = canon[0]
    BY <1>1, NumbersAre
  <1>3. ASSUME NEW n \in Numbers
        PROVE  \/ canon'[n] = canon[n] /\ TheBlock(n) \notin X
               \/ InTables(n) /\ (dbFull = 0 => n <= fast)
    <2>1. CASE \E b \in X : b[1] = n
      BY <2>1, WrittenIsSafe
    <2>2. CASE ~ \E b \in X : b[1] = n
      BY <1>1, <2>2 DEF TheBlock
    <2> QED BY <2>1, <2>2
  <1> HIDE DEF X
  <1> QED BY <1>1, <1>2, <1>3, TwoParts, DeletesCover

LEMMA SideDeletesCover ==
    ASSUME TypeInv, BlockInv, SameTables, w.pc = "side", NEW X,
           \A b \in X : \E c \in Range(w.done) : b[1] = c[1] /\ c[1] # 0,
           kvHeader' = kvHeader \ X, kvBody' = kvBody \ X, canon' = canon
    PROVE  BlocksInv'
  <1>1. ASSUME NEW n \in Numbers, TheBlock(n) \in X
        PROVE  InTables(n) /\ (dbFull = 0 => n <= fast)
    <2>1. PICK c \in Range(w.done) : c[1] = n /\ c[1] # 0
      BY <1>1 DEF TheBlock
    <2> QED BY <2>1, WrittenIsSafe
  <1> QED BY <1>1, TwoParts, DeletesCover

LEMMA FreezeDeleteCanonicalCovers ==
    ASSUME TypeInv, TypeInv', AncientInv, BlockInv, FreezeDeleteCanonical
    PROVE  BlockInv'
  <1>1. /\ st = "open" /\ w.pc = "canonical" /\ w.kind = "freeze"
        /\ DeleteFrozen({b \in Range(w.done) : b[1] # 0}) /\ w' = [w EXCEPT !.pc = "side"]
    BY DEF FreezeDeleteCanonical
  <1>2. SameTables
    BY DEF FreezeDeleteCanonical, SameTables, tables, heads, history
  <1>3. WorkInv /\ w # Idle /\ w \in Writers /\ ~Filling
    BY <1>1, TwoParts, NumbersKnown DEF Idle, Filling
  <1>4. SameTask /\ w'.pc = "side" /\ w'.done = w.done
    BY <1>1, <1>3, TaskMoves
  <1> QED BY <1>1, <1>2, <1>3, <1>4, CanonicalDeletesCover, WriterCloses, TwoPartsNext

LEMMA DeleteWrittenCovers ==
    ASSUME TypeInv, TypeInv', AncientInv, BlockInv, DeleteWritten
    PROVE  BlockInv'
  <1>1. /\ st = "open" /\ w.pc = "canonical" /\ w.kind = "fast"
        /\ DeleteFrozen({b \in Range(w.done) : b[1] # 0}) /\ w' = [w EXCEPT !.pc = "side"]
    BY DEF DeleteWritten
  <1>2. SameTables
    BY DEF DeleteWritten, SameTables, tables, heads, history
  <1>3. WorkInv /\ w # Idle /\ w \in Writers /\ ~Filling
    BY <1>1, TwoParts, NumbersKnown DEF Idle, Filling
  <1>4. SameTask /\ w'.pc = "side" /\ w'.done = w.done
    BY <1>1, <1>3, TaskMoves
  <1> QED BY <1>1, <1>2, <1>3, <1>4, CanonicalDeletesCover, WriterCloses, TwoPartsNext

LEMMA FreezeDeleteSideCovers ==
    ASSUME TypeInv, TypeInv', AncientInv, BlockInv, FreezeDeleteSide
    PROVE  BlockInv'
  <1> DEFINE gone == {b \in kvHeader : b[1] # 0 /\ b[1] \in w.first..(frozen - 1)}
  <1>1. /\ st = "open" /\ w.pc = "side" /\ w.kind = "freeze"
        /\ kvHeader' = kvHeader \ gone /\ kvBody' = kvBody \ gone /\ canon' = canon /\ w' = Idle
    BY DEF FreezeDeleteSide
  <1>2. SameTables
    BY DEF FreezeDeleteSide, SameTables, tables, heads, history
  <1>3. WorkInv /\ w # Idle /\ ~Filling
    BY <1>1, TwoParts DEF Idle, Filling
  <1>4. \A b \in gone : \E c \in Range(w.done) : b[1] = c[1] /\ c[1] # 0
    BY <1>1, <1>3 DEF WorkInv, Freezing, OfFreezer
  <1> HIDE DEF gone
  <1> QED BY <1>1, <1>2, <1>3, <1>4, SideDeletesCover, WriterRests, TwoPartsNext

LEMMA DeleteBesideCovers ==
    ASSUME TypeInv, TypeInv', AncientInv, BlockInv, DeleteBeside
    PROVE  BlockInv'
  <1> DEFINE gone == {b \in kvHeader : b[1] # 0 /\ \E c \in Range(w.done) : b[1] = c[1]}
  <1>1. /\ st = "open" /\ w.pc = "side" /\ w.kind = "fast"
        /\ kvHeader' = kvHeader \ gone /\ kvBody' = kvBody \ gone /\ canon' = canon
        /\ w' = [w EXCEPT !.pc = "live"]
    BY DEF DeleteBeside
  <1>2. SameTables
    BY DEF DeleteBeside, SameTables, tables, heads, history
  <1>3. WorkInv /\ w # Idle /\ w \in Writers /\ ~Filling
    BY <1>1, TwoParts, NumbersKnown DEF Idle, Filling
  <1>4. \A b \in gone : \E c \in Range(w.done) : b[1] = c[1] /\ c[1] # 0
    OBVIOUS
  <1>5. SameTask /\ w'.pc = "live" /\ w'.done = w.done
    BY <1>1, <1>3, TaskMoves
  <1> HIDE DEF gone
  <1> QED BY <1>1, <1>2, <1>3, <1>4, <1>5, SideDeletesCover, WriterCloses, TwoPartsNext

\* SetHead deletes what is above its target, and leaves it in the tables.
LEMMA SetHeadDoneCovers ==
    ASSUME TypeInv, TypeInv', AncientInv, BlockInv, SetHeadDone
    PROVE  BlockInv'
  <1> DEFINE above == {n \in Numbers : n > hdr /\ n < frozen}
  <1>1. /\ st = "open" /\ rew.pc = "step" /\ trn = Idle /\ hdr <= rew.target
        /\ DeleteFrozen(rew.gone) /\ stale' = stale \cup above /\ rew' = Idle
        /\ st' = st /\ w' = w /\ trn' = trn /\ chain' = chain
        /\ table' = table /\ tsync' = tsync /\ frozen' = frozen
        /\ hdr' = hdr /\ fast' = fast /\ full' = full /\ dbFull' = dbFull
    BY DEF SetHeadDone, tables, heads
  <1>2. BlocksInv /\ WorkInv
    BY TwoParts
  <1>3. full <= hdr /\ \A b \in rew.gone : b[1] > hdr
    BY <1>1, <1>2 DEF WorkInv, Rewinding
  <1>4. \A n \in Numbers : OnChain(n) => n <= hdr /\ ~(n > hdr)
    BY <1>3, NumbersAre, NumbersKnown DEF OnChain
  <1>5. \A n \in Numbers : OnChain(n) => canon'[n] = canon[n] /\ TheBlock(n) \notin rew.gone
    BY <1>1, <1>3, <1>4 DEF DeleteFrozen, TheBlock
  <1>6. kvHeader' = kvHeader \ rew.gone /\ kvBody' = kvBody \ rew.gone
    BY <1>1 DEF DeleteFrozen
  <1>7. OnChain(0) /\ 0 \notin above
    BY NumbersKnown DEF OnChain
  <1>8. BlocksInv'
    <2>1. \A n \in Numbers : /\ OnChain(n)' <=> OnChain(n)
                             /\ InTables(n)' <=> InTables(n)
                             /\ Agrees(n)' <=> Agrees(n)
                             /\ OnChain(n) /\ Kept(n) => Kept(n)'
      BY <1>1, <1>5, <1>6 DEF OnChain, InTables, Agrees, Kept, WithBody, TheBlock
    <2>2. Covered' /\ Strays' /\ HeadsKnown'
      BY <1>1, <1>2, <2>1 DEF BlocksInv, Covered, Strays, HeadsKnown
    <2>3. Pending'
      BY <1>1, <1>2, <2>1 DEF BlocksInv, Pending, OnChain
    <2>4. Agreeing'
      BY <1>1, <1>2, <1>5, <1>7, <2>1, NumbersAre DEF BlocksInv, Agreeing
    <2> QED BY <2>2, <2>3, <2>4 DEF BlocksInv
  <1>9. Ended'
    <2> SUFFICES ASSUME NEW t \in Names, NEW n \in Numbers, n < Len(table[t])
                 PROVE  n <= hdr \/ n \in stale' \/ (Filling /\ n <= w.limit) \/ n <= full
      BY <1>1 DEF Ended, OnChain, Filling, OfSync
    <2>1. n \in Nat
      BY NumbersAre
    <2>2. CASE n < frozen
      BY <1>1, <2>1, <2>2, NumbersKnown
    <2>3. CASE ~(n < frozen)
      <3>1. w.pc = "append" /\ n = frozen
        BY <1>1, <2>1, <2>3, Lengths, NumbersKnown
      <3>2. w # Idle /\ w \in Writers
        BY <3>1, NumbersKnown DEF Idle
      <3>3. n <= w.limit /\ w.limit \in Nat
        BY <1>2, <3>1, <3>2, WriterIs DEF WorkInv, Held
      <3>4. CASE w.kind = "fast"
        BY <3>1, <3>2, <3>3, <3>4 DEF Filling, OfSync
      <3>5. CASE w.kind = "freeze"
        <4>1. w.limit <= dbFull /\ dbFull \in {0, full}
          BY <1>2, <3>2, <3>5 DEF WorkInv, BlocksInv, Freezing, OfFreezer, HeadsKnown
        <4> QED BY <2>1, <3>3, <4>1, NumbersKnown
      <3> QED BY <3>2, <3>4, <3>5, WriterIs
    <2> QED BY <2>2, <2>3
  <1>10. Syncing'
    <2>1. Ancients' = Ancients /\ \A n : TheBlock(n)' = TheBlock(n)
      BY <1>1 DEF Ancients, TheBlock
    <2>2. OfSync /\ w.pc = "liveHead" /\ hdr >= w.last => w.blocks \ Ancients \subseteq kvBody'
      <3> SUFFICES ASSUME OfSync, w.pc = "liveHead", hdr >= w.last, NEW b \in w.blocks \ Ancients
                   PROVE  b \in kvBody'
        OBVIOUS
      <3>1. b \in kvBody /\ \E n \in (w.prev + 1)..w.last : b = TheBlock(n)
        BY <1>2 DEF WorkInv, Syncing
      <3>2. w.prev \in Nat /\ w.last \in Nat
        BY NumbersKnown, WriterIs DEF OfSync
      <3>3. ~(b[1] > hdr)
        BY <3>1, <3>2, NumbersKnown DEF TheBlock
      <3> QED BY <1>3, <1>6, <3>1, <3>3
    <2> QED BY <1>1, <1>2, <2>1, <2>2 DEF WorkInv, Syncing, OfSync, Filling
  <1>11. Freezing' /\ Held' /\ Short'
    BY <1>1, <1>2 DEF WorkInv, Freezing, Held, Short, OfFreezer, OfSync, Filling, TheBlock
  <1>12. Rewinding'
    BY <1>1 DEF Rewinding, Idle
  <1> QED BY <1>1, <1>2, <1>8, <1>9, <1>10, <1>11, <1>12, TwoPartsNext DEF WorkInv

-----------------------------------------------------------------------------
(* The tables grow *)

LEMMA RangeAppend ==
    ASSUME NEW s \in Seq(Block), NEW e \in Block
    PROVE  Range(Append(s, e)) = Range(s) \cup {e}
  <1>1. /\ Append(s, e) \in Seq(Block) /\ Len(Append(s, e)) = Len(s) + 1 /\ Len(s) \in Nat
        /\ \A i \in 1..Len(s) : Append(s, e)[i] = s[i]
        /\ Append(s, e)[Len(s) + 1] = e
    OBVIOUS
  <1>2. DOMAIN s = 1..Len(s) /\ DOMAIN Append(s, e) = 1..(Len(s) + 1)
    BY <1>1
  <1>3. 1..(Len(s) + 1) = 1..Len(s) \cup {Len(s) + 1}
    BY <1>1
  <1> QED BY <1>1, <1>2, <1>3 DEF Range

\* One table gets the block of the chain it is filled up to.
LEMMA OneAppended ==
    ASSUME TypeInv, BlockInv, NEW t \in Names, Len(table[t]) = frozen, w.pc = "append",
           table' = [table EXCEPT ![t] = Append(@, w.blk)]
    PROVE  /\ \A u \in Names, n \in Numbers :
                 /\ n < Len(table[u]) => n < Len(table'[u]) /\ table'[u][n + 1] = table[u][n + 1]
                 /\ n < Len(table'[u]) =>
                        n < Len(table[u]) \/ (n = frozen /\ table'[u][n + 1] = TheBlock(frozen))
           /\ \A u \in Names : Len(table'[u]) = Len(table[u]) \/ Len(table'[u]) = frozen + 1
           /\ Len(table'[t]) = frozen + 1 /\ table'[t][frozen + 1] = w.blk
  <1>1. /\ frozen \in Nat /\ Numbers \subseteq Nat /\ table[t] \in Seq(Stored) /\ w.blk \in Stored
        /\ w.blk = TheBlock(frozen)
    BY NumbersKnown, NumbersAre DEF TypeInv, ControlTyped, BlockInv, Held
  <1> DEFINE q == table[t]
  <1>2. table'[t] = Append(q, w.blk) /\ \A u \in Names : u # t => table'[u] = table[u]
    BY DEF TypeInv, TablesTyped
  <1>3. q \in Seq(Stored) /\ Len(q) = frozen
    BY <1>1
  <1> HIDE DEF q
  <1>4. /\ Len(Append(q, w.blk)) = frozen + 1 /\ Append(q, w.blk)[frozen + 1] = w.blk
        /\ \A i \in 1..frozen : Append(q, w.blk)[i] = q[i]
    BY <1>1, <1>3
  <1>5. ASSUME NEW n \in Numbers
        PROVE  /\ n < frozen => n < Len(table'[t]) /\ table'[t][n + 1] = table[t][n + 1]
               /\ n < Len(table'[t]) => n < frozen \/ (n = frozen /\ table'[t][n + 1] = TheBlock(frozen))
    <2>1. n \in Nat /\ (n < frozen => n + 1 \in 1..frozen) /\ (n < frozen + 1 => n < frozen \/ n = frozen)
      BY <1>1
    <2>2. n < frozen => table'[t][n + 1] = q[n + 1]
      BY <1>2, <1>4, <2>1
    <2> QED BY <1>1, <1>2, <1>4, <2>1, <2>2 DEF q
  <1> QED BY <1>1, <1>2, <1>4, <1>5

LEMMA AppendAncientCovers ==
    ASSUME TypeInv, TypeInv', AncientInv, AncientInv', BlockInv, AppendAncient
    PROVE  BlockInv'
  <1> DEFINE t == Tables[w.k]
  <1>1. /\ st = "open" /\ w.pc = "append" /\ Len(table[t]) = frozen
        /\ table' = [table EXCEPT ![t] = Append(@, w.blk)]
        /\ IF w.k = Len(Tables)
           THEN frozen' = frozen + 1 /\ w' = Appended
           ELSE frozen' = frozen /\ w' = [w EXCEPT !.k = @ + 1]
        /\ tsync' = tsync /\ canon' = canon /\ kvHeader' = kvHeader /\ kvBody' = kvBody
        /\ hdr' = hdr /\ fast' = fast /\ full' = full /\ dbFull' = dbFull /\ chain' = chain /\ stale' = stale
        /\ st' = st /\ trn' = trn /\ rew' = rew
    BY DEF AppendAncient, kv, heads, history
  <1>2. BlocksInv /\ WorkInv /\ w # Idle /\ w \in Writers /\ t \in Names
    <2>1. w.k \in 1..Len(Tables)
      BY <1>1 DEF TypeInv, ControlTyped
    <2> QED BY <1>1, <2>1, TwoParts, NumbersKnown, TablesNamed DEF Idle
  <1> HIDE DEF t
  <1>3. /\ \A u \in Names, n \in Numbers :
              /\ n < Len(table[u]) => n < Len(table'[u]) /\ table'[u][n + 1] = table[u][n + 1]
              /\ n < Len(table'[u]) =>
                     n < Len(table[u]) \/ (n = frozen /\ table'[u][n + 1] = TheBlock(frozen))
        /\ \A u \in Names : Len(table'[u]) = Len(table[u]) \/ Len(table'[u]) = frozen + 1
        /\ Len(table'[t]) = frozen + 1 /\ table'[t][frozen + 1] = w.blk
    BY <1>1, <1>2, OneAppended
  <1>4. /\ w.blk = TheBlock(frozen) /\ frozen <= w.limit /\ w.blk[1] = frozen
        /\ w.limit \in Nat /\ frozen \in Nat /\ frozen \in Numbers /\ trn = Idle
        /\ w.done \in Seq(Block) /\ w.blk \in Block
    <2>1. w.blk \in Stored /\ w.blk = TheBlock(frozen) /\ frozen <= w.limit
      BY <1>1, <1>2 DEF TypeInv, ControlTyped, WorkInv, Held
    <2>2. w.blk[1] = frozen
      BY <2>1 DEF TheBlock
    <2>3. trn = Idle
      BY <1>1, <1>2, Lengths
    <2>4. frozen \in Numbers
      BY <2>1, <2>2 DEF Stored
    <2> QED BY <1>2, <2>1, <2>2, <2>3, <2>4, WriterIs, NumbersKnown, NumbersAre
  <1>5. /\ SameTask /\ w'.pc \in {"loop", "append"}
        /\ w'.pc = "append" => w'.done = w.done /\ w'.blk = w.blk /\ frozen' = frozen
        /\ w'.pc = "loop" => w'.done = Append(w.done, w.blk) /\ frozen' = frozen + 1
    <2>1. CASE w.k = Len(Tables)
      BY <1>1, <1>2, <2>1, TaskTakenBack
    <2>2. CASE w.k # Len(Tables)
      BY <1>1, <1>2, <2>2, TaskTakenBack
    <2> QED BY <2>1, <2>2
  <1>6. (OfSync' <=> OfSync) /\ (OfFreezer' <=> OfFreezer) /\ (Filling' <=> OfSync) /\ (Filling <=> OfSync)
    BY <1>1, <1>5 DEF SameTask, OfSync, OfFreezer, Filling
  <1>7. OfFreezer => w.limit <= dbFull /\ frozen <= dbFull /\ frozen <= full
    <2> SUFFICES ASSUME OfFreezer PROVE w.limit <= dbFull /\ frozen <= dbFull /\ frozen <= full
      OBVIOUS
    <2>1. w.limit <= dbFull /\ dbFull \in {0, full}
      BY <1>2 DEF WorkInv, BlocksInv, Freezing, HeadsKnown
    <2> QED BY <1>4, <2>1, NumbersKnown
  <1>8. OfFreezer \/ OfSync
    BY <1>2, WriterIs DEF OfFreezer, OfSync
  <1>9. \A n : TheBlock(n)' = TheBlock(n)
    BY <1>1 DEF TheBlock
  <1>10. BlocksInv'
    <2>1. ASSUME NEW n \in Numbers, InTables(n)
          PROVE  InTables(n)'
      <3>1. ASSUME NEW u \in Names PROVE n < tsync'[u] /\ table'[u][n + 1] = TheBlock(n)
        <4>1. n < tsync[u] /\ table[u][n + 1] = TheBlock(n)
          BY <2>1 DEF InTables
        <4>2. n < Len(table[u])
          BY <4>1, NumbersKnown, NumbersAre
        <4> QED BY <1>1, <1>3, <4>1, <4>2
      <3> QED BY <1>9, <3>1 DEF InTables
    <2>2. ASSUME NEW n \in Numbers, Agrees(n) PROVE Agrees(n)'
      <3>1. \A u \in Names : n < Len(table'[u]) => table'[u][n + 1] = TheBlock(n)
        BY <1>3, <2>2 DEF Agrees
      <3> QED BY <1>9, <3>1 DEF Agrees
    <2>3. \A n \in Numbers : (OnChain(n)' <=> OnChain(n)) /\ (Kept(n)' <=> Kept(n))
      BY <1>1 DEF OnChain, Kept, WithBody, TheBlock
    <2>4. Covered' /\ Agreeing' /\ Strays'
      BY <1>1, <1>2, <2>1, <2>2, <2>3 DEF BlocksInv, Covered, Agreeing, Strays
    <2>5. HeadsKnown' /\ Pending'
      BY <1>1, <1>2, <2>3 DEF BlocksInv, HeadsKnown, Pending
    <2> QED BY <2>4, <2>5 DEF BlocksInv
  <1>11. Ended'
    <2> SUFFICES ASSUME rew = Idle \/ (rew.pc = "roll" /\ trn = Idle),
                        NEW u \in Names, NEW n \in Numbers, n < Len(table'[u])
                 PROVE  OnChain(n) \/ n \in stale \/ (OfSync /\ n <= w.limit)
      BY <1>1, <1>5, <1>6 DEF Ended, SameTask, OnChain
    <2>1. CASE n < Len(table[u])
      BY <1>1, <1>2, <1>6, <2>1 DEF WorkInv, Ended
    <2>2. CASE n = frozen
      BY <1>4, <1>7, <1>8, <2>2 DEF OnChain
    <2> QED BY <1>3, <2>1, <2>2
  <1>12. Syncing'
    <2>1. OfSync => Ancients' = Ancients
      BY <1>5 DEF Ancients, SameTask, OfSync
    <2> QED BY <1>1, <1>2, <1>5, <1>6, <1>9, <2>1 DEF WorkInv, Syncing, SameTask, OfSync
  <1>13. w'.pc = "loop" => Range(w'.done) = Range(w.done) \cup {w.blk}
    <2>1. Range(Append(w.done, w.blk)) = Range(w.done) \cup {w.blk}
      BY <1>4, RangeAppend, Zenon
    <2> QED BY <1>5, <2>1
  <1>14. Freezing'
    <2> SUFFICES ASSUME OfFreezer
                 PROVE  \A n \in w.first..(frozen' - 1) : \E b \in Range(w'.done) : b[1] = n
      BY <1>1, <1>5, <1>6, <1>7 DEF Freezing, SameTask, OfFreezer
    <2>1. \A n \in w.first..(frozen - 1) : \E b \in Range(w.done) : b[1] = n
      BY <1>2 DEF WorkInv, Freezing
    <2>2. CASE w'.pc = "append"
      BY <1>5, <2>1, <2>2
    <2>3. CASE w'.pc = "loop"
      <3> TAKE n \in w.first..(frozen' - 1)
      <3>1. w.first \in Nat
        BY <1>2, WriterIs DEF OfFreezer
      <3>2. n \in w.first..(frozen - 1) \/ n = frozen
        BY <1>4, <1>5, <2>3, <3>1
      <3> QED BY <1>4, <1>13, <2>1, <2>3, <3>2
    <2> QED BY <1>5, <2>2, <2>3
  <1>15. Held'
    <2>1. \A b \in Range(w.done) :
             /\ b = TheBlock(b[1]) /\ b[1] <= w.limit
             /\ \A u \in Names : b[1] < Len(table'[u]) /\ table'[u][b[1] + 1] = b
      <3> TAKE b \in Range(w.done)
      <3>1. /\ b = TheBlock(b[1]) /\ b[1] <= w.limit
            /\ \A u \in Names : b[1] < Len(table[u]) /\ table[u][b[1] + 1] = b
        BY <1>1, <1>2 DEF WorkInv, Held
      <3>2. b[1] \in Numbers
        BY <1>4 DEF Range, Block
      <3> QED BY <1>3, <3>1, <3>2
    <2>2. CASE w'.pc = "append"
      BY <1>1, <1>4, <1>5, <1>9, <2>1, <2>2 DEF Held, SameTask
    <2>3. CASE w'.pc = "loop"
      <3>1. \A u \in Names : frozen < Len(table'[u]) /\ table'[u][frozen + 1] = w.blk
        <4> TAKE u \in Names
        <4>1. Len(table'[u]) = frozen + 1
          BY <1>1, <1>4, <1>5, <2>3 DEF AncientInv, TablesAt, Even
        <4>2. table'[u][frozen + 1] = table'[t][frozen + 1]
          <5>1. frozen + 1 \in 1..Len(table'[u]) /\ frozen + 1 <= Len(table'[t])
            BY <1>3, <1>4, <4>1
          <5> QED BY <1>2, <5>1 DEF AncientInv, ItemsAgree
        <4> QED BY <1>3, <1>4, <4>1, <4>2
      <3>2. w'.limit = w.limit
        BY <1>5 DEF SameTask
      <3> QED BY <1>4, <1>9, <1>13, <2>1, <2>3, <3>1, <3>2 DEF Held
    <2> QED BY <1>5, <2>2, <2>3
  <1>16. Short'
    <2> SUFFICES ASSUME dbFull = 0, NEW u \in Names
                 PROVE  Len(table'[u]) <= fast + 2 \/ (OfSync /\ Len(table'[u]) <= w.limit + 1)
      BY <1>1, <1>4, <1>5, <1>6 DEF Short, SameTask
    <2>1. Len(table[u]) <= fast + 2 \/ (OfSync /\ Len(table[u]) <= w.limit + 1)
      BY <1>1, <1>2, <1>4, <1>6 DEF WorkInv, Short
    <2>2. OfFreezer => frozen + 1 <= fast + 2
      BY <1>4, <1>7, NumbersKnown
    <2>3. frozen + 1 <= w.limit + 1
      BY <1>4
    <2> QED BY <1>3, <1>8, <2>1, <2>2, <2>3
  <1>17. Rewinding'
    BY <1>1, <1>2 DEF WorkInv, Rewinding
  <1> QED BY <1>1, <1>2, <1>10, <1>11, <1>12, <1>14, <1>15, <1>16, <1>17, TwoPartsNext DEF WorkInv

-----------------------------------------------------------------------------
(* The tables are cut *)

\* What is left of the tables is what was there.
Shortened ==
    \A t \in Names, n \in Numbers :
        n < Len(table'[t]) => n < Len(table[t]) /\ table'[t][n + 1] = table[t][n + 1]

LEMMA CutShortens ==
    ASSUME TypeInv, NEW t \in Names, NEW m \in Nat, NEW s, s = Cut(table[t], m)
    PROVE  /\ Len(s) = IF m <= Len(table[t]) THEN m ELSE Len(table[t])
           /\ \A n \in Numbers : n < Len(s) => n < Len(table[t]) /\ s[n + 1] = table[t][n + 1]
           /\ \A n \in Numbers : n < m /\ n < Len(table[t]) => n < Len(s)
  <1> DEFINE q == table[t]
  <1>1. q \in Seq(Stored) /\ Len(q) \in Nat
    BY NumbersKnown
  <1>2. s = Cut(q, m)
    OBVIOUS
  <1> HIDE DEF q
  <1>3. /\ Len(Cut(q, m)) = IF m <= Len(q) THEN m ELSE Len(q)
        /\ \A i \in 1..Len(Cut(q, m)) : Cut(q, m)[i] = q[i]
    BY <1>1, CutKeeps
  <1>4. \A n \in Numbers : n < Len(s) => n < Len(q) /\ s[n + 1] = q[n + 1]
    <2> TAKE n \in Numbers
    <2> HAVE n < Len(s)
    <2>1. n \in Nat /\ Len(s) \in Nat /\ Len(s) <= Len(q)
      BY <1>1, <1>2, <1>3, NumbersAre
    <2>2. n + 1 \in 1..Len(s)
      BY <2>1
    <2> QED BY <1>1, <1>2, <1>3, <2>1, <2>2
  <1> QED BY <1>1, <1>2, <1>3, <1>4, NumbersAre DEF q

\* A cut harms nothing if what it takes out of the tables is kept.
LEMMA ShorterCovers ==
    ASSUME TypeInv, TypeInv', BlocksInv, Shortened,
           canon' = canon, kvHeader' = kvHeader, kvBody' = kvBody, chain' = chain,
           hdr' = hdr, fast' = fast, full' = full, dbFull' = dbFull,
           stale' \subseteq stale,
           \A n \in stale \ stale' : \A t \in Names : ~(n < Len(table'[t])),
           \A n \in Numbers : OnChain(n) /\ InTables(n) => Kept(n) \/ \A t \in Names : n < tsync'[t]
    PROVE  BlocksInv'
  <1>1. Covered /\ Agreeing /\ HeadsKnown /\ Pending /\ Strays
    BY DEF BlocksInv
  <1>2. \A n \in Numbers : (OnChain(n)' <=> OnChain(n)) /\ (Kept(n)' <=> Kept(n))
    BY DEF OnChain, Kept, WithBody, TheBlock
  <1>3. \A n \in Numbers : Agrees(n) => Agrees(n)'
    BY DEF Shortened, Agrees, TheBlock
  <1>4. ASSUME NEW n \in Numbers, InTables(n), \A t \in Names : n < tsync'[t]
        PROVE  InTables(n)'
    <2> SUFFICES ASSUME NEW t \in Names PROVE table'[t][n + 1] = TheBlock(n)
      BY <1>4 DEF InTables, TheBlock
    <2>1. n \in Nat /\ tsync'[t] \in Nat /\ Len(table'[t]) \in Nat /\ tsync'[t] <= Len(table'[t])
      BY NumbersAre DEF TypeInv, TablesTyped
    <2>2. n < Len(table'[t])
      BY <1>4, <2>1
    <2> QED BY <1>4, <2>2 DEF Shortened, InTables
  <1>5. Covered'
    BY <1>1, <1>2, <1>4 DEF Covered
  <1>6. Agreeing'
    <2>1. \A n \in Numbers : OnChain(n)' => n \in stale' \/ Agrees(n)'
      <3> TAKE n \in Numbers
      <3>1. n \in stale /\ n \notin stale' => Agrees(n)'
        BY DEF Agrees
      <3> QED BY <1>1, <1>2, <1>3, <3>1 DEF Agreeing
    <2> QED BY <1>1, <2>1 DEF Agreeing
  <1>7. HeadsKnown' /\ Pending' /\ Strays'
    BY <1>1, <1>2, <1>3 DEF HeadsKnown, Pending, Strays
  <1> QED BY <1>5, <1>6, <1>7 DEF BlocksInv

LEMMA CrashCovers ==
    ASSUME TypeInv, TypeInv', AncientInv, BlockInv, Crash
    PROVE  BlockInv'
  <1>1. PICK keep \in [Names -> 0..(Height + 1)] :
           /\ \A t \in Names : keep[t] \in tsync[t]..Len(table[t])
           /\ table' = [t \in Names |-> Cut(table[t], keep[t])]
    BY DEF Crash
  <1>2. /\ tsync' = tsync /\ canon' = canon /\ kvHeader' = kvHeader /\ kvBody' = kvBody
        /\ hdr' = hdr /\ fast' = fast /\ full' = full /\ dbFull' = dbFull /\ chain' = chain /\ stale' = stale
        /\ st' = "closed" /\ w' = Idle /\ trn' = Idle /\ rew' = Idle
    BY DEF Crash, ProcessEnds, kv, heads
  <1>3. Shortened
    <2> SUFFICES ASSUME NEW t \in Names
                 PROVE  \A n \in Numbers : n < Len(table'[t]) =>
                            n < Len(table[t]) /\ table'[t][n + 1] = table[t][n + 1]
      BY DEF Shortened
    <2>1. keep[t] \in Nat /\ table'[t] = Cut(table[t], keep[t])
      BY <1>1, NumbersAre
    <2> QED BY <2>1, CutShortens
  <1>4. BlocksInv'
    BY <1>2, <1>3, TwoParts, ShorterCovers DEF InTables
  <1> QED BY <1>2, <1>4, ClosedCovers

LEMMA AppendAncientFailsCovers ==
    ASSUME TypeInv, TypeInv', AncientInv, BlockInv, AppendAncientFails
    PROVE  BlockInv'
  <1>1. /\ st = "open" /\ w.pc = "append" /\ RepairTables
        /\ \/ w.kind = "freeze" /\ w' = AppendFailed /\ st' = st /\ trn' = trn /\ rew' = rew
           \/ ProcessEnds
        /\ canon' = canon /\ kvHeader' = kvHeader /\ kvBody' = kvBody
        /\ hdr' = hdr /\ fast' = fast /\ full' = full /\ dbFull' = dbFull /\ chain' = chain /\ stale' = stale
    BY DEF AppendAncientFails, kv, heads
  <1>2. BlocksInv /\ WorkInv /\ w # Idle /\ w \in Writers
    BY <1>1, TwoParts, NumbersKnown DEF Idle
  <1>3. /\ Shortest \in Nat /\ \A t \in Names : Shortest <= Len(table[t]) /\ Len(table[t]) \in Nat
        /\ \E t \in Names : Shortest = Len(table[t])
    BY ShortestStored DEF TypeInv
  <1>4. /\ table' = [t \in Names |-> Cut(table[t], Shortest)]
        /\ tsync' = [t \in Names |-> Min({tsync[t], Shortest})] /\ frozen' = Shortest
    BY <1>1 DEF RepairTables
  <1>5. /\ Shortened
        /\ \A t \in Names : Len(table'[t]) = Shortest
        /\ \A t \in Names, n \in Numbers : n < Shortest => table'[t][n + 1] = table[t][n + 1]
    <2>1. ASSUME NEW t \in Names
          PROVE  /\ Len(table'[t]) = Shortest
                 /\ \A n \in Numbers : n < Len(table'[t]) =>
                        n < Len(table[t]) /\ table'[t][n + 1] = table[t][n + 1]
      <3>1. table'[t] = Cut(table[t], Shortest)
        BY <1>4
      <3>2. Shortest \in Nat /\ Shortest <= Len(table[t])
        BY <1>3
      <3> QED BY <3>1, <3>2, CutShortens
    <2> QED BY <2>1 DEF Shortened
  <1>6. \A n \in Numbers : InTables(n) => \A t \in Names : n < tsync'[t]
    <2> SUFFICES ASSUME NEW n \in Numbers, InTables(n), NEW t \in Names PROVE n < tsync'[t]
      OBVIOUS
    <2>1. PICK u \in Names : Shortest = Len(table[u])
      BY <1>3
    <2>2. n < tsync[u] /\ n < tsync[t] /\ n \in Nat /\ tsync[t] \in Nat
      BY NumbersAre, NumbersKnown DEF InTables
    <2>3. n < Shortest
      BY <1>3, <2>1, <2>2, NumbersKnown
    <2>4. tsync'[t] = IF tsync[t] <= Shortest THEN tsync[t] ELSE Shortest
      BY <1>3, <1>4, <2>2, MinOfPair
    <2> QED BY <2>2, <2>3, <2>4
  <1>7. BlocksInv'
    BY <1>1, <1>2, <1>5, <1>6, ShorterCovers
  <1>8. CASE ProcessEnds
    BY <1>7, <1>8, ClosedCovers DEF ProcessEnds
  <1>9. CASE w.kind = "freeze" /\ w' = AppendFailed /\ st' = st /\ trn' = trn /\ rew' = rew
    <2>1. SameTask /\ w'.pc = "sync" /\ w'.done = w.done
      BY <1>2, <1>9, TaskTakenBack
    <2>2. OfFreezer /\ OfFreezer' /\ ~OfSync' /\ ~Filling /\ ~Filling'
      BY <1>2, <1>9, <2>1 DEF OfFreezer, OfSync, Filling, SameTask
    <2>3. trn = Idle /\ w.done \in Seq(Block) /\ w.first \in Nat
      BY <1>2, <1>9, FreezerAlone, WriterIs
    <2>4. frozen' <= frozen
      <3>1. HalfAppended /\ w.k \in 1..Len(Tables)
        BY <1>1 DEF AncientInv, Typed, TablesAt
      <3>2. Tables[w.k] \in Names /\ w.k >= w.k
        BY <3>1, TablesNamed
      <3>3. Len(table[Tables[w.k]]) = frozen
        BY <3>1, <3>2 DEF HalfAppended
      <3> QED BY <1>3, <1>4, <3>2, <3>3
    <2>5. Ended'
      <3> SUFFICES ASSUME rew = Idle \/ (rew.pc = "roll" /\ trn = Idle),
                          NEW t \in Names, NEW n \in Numbers, n < Len(table'[t])
                   PROVE  OnChain(n) \/ n \in stale
        BY <1>1, <1>9 DEF Ended, OnChain
      <3>1. n < Len(table[t])
        BY <1>5 DEF Shortened
      <3> QED BY <1>1, <1>2, <2>2, <3>1 DEF WorkInv, Ended
    <2>6. Syncing'
      BY <2>2 DEF Syncing
    <2>7. Freezing'
      <3>1. w.limit <= dbFull /\ \A n \in w.first..(frozen - 1) : \E b \in Range(w.done) : b[1] = n
        BY <1>2, <2>2 DEF WorkInv, Freezing
      <3>2. \A n \in w.first..(frozen' - 1) : n \in w.first..(frozen - 1)
        BY <1>3, <1>4, <2>3, <2>4, NumbersKnown
      <3> QED BY <1>1, <1>9, <2>1, <3>1, <3>2 DEF Freezing, SameTask
    <2>8. Held'
      <3>1. \A b \in Range(w.done) :
               /\ b = TheBlock(b[1]) /\ b[1] <= w.limit
               /\ \A t \in Names : b[1] < Len(table'[t]) /\ table'[t][b[1] + 1] = b
        <4> TAKE b \in Range(w.done)
        <4>1. /\ b = TheBlock(b[1]) /\ b[1] <= w.limit
              /\ \A t \in Names : b[1] < Len(table[t]) /\ table[t][b[1] + 1] = b
          BY <1>1, <1>2 DEF WorkInv, Held
        <4>2. b[1] \in Numbers
          BY <2>3 DEF Range, Block
        <4>3. b[1] < Shortest
          BY <1>3, <4>1
        <4> QED BY <1>5, <4>1, <4>2, <4>3
      <3>2. \A n : TheBlock(n)' = TheBlock(n)
        BY <1>1 DEF TheBlock
      <3> QED BY <2>1, <3>1, <3>2 DEF Held, SameTask
    <2>9. Short'
      <3>1. dbFull = 0 => \A t \in Names : Len(table[t]) <= fast + 2
        BY <1>1, <1>2, <2>2, <2>3 DEF WorkInv, Short
      <3>2. dbFull = 0 => \A t \in Names : Len(table'[t]) <= fast + 2
        BY <1>3, <1>5, <3>1, NumbersKnown
      <3> QED BY <1>1, <1>9, <2>3, <3>2 DEF Short
    <2>10. Rewinding'
      BY <1>1, <1>2, <1>9 DEF WorkInv, Rewinding
    <2> QED BY <1>1, <1>2, <1>7, <1>9, <2>5, <2>6, <2>7, <2>8, <2>9, <2>10, TwoPartsNext DEF WorkInv
  <1> QED BY <1>1, <1>8, <1>9

\* What a cut of the tables takes is in the key-value store: it begins above
\* the head, or above the fast block of a database without a head block.
LEMMA KeptBeyondCut ==
    ASSUME TypeInv, AncientInv, BlockInv, trn # Idle,
           NEW n \in Numbers, OnChain(n), trn.items <= n
    PROVE  Kept(n)
  <1>1. /\ st = "open" /\ trn.items \in Nat /\ n \in Nat
        /\ \/ w.pc = "undone" /\ w \in FastWriter
           \/ hdr < trn.items /\ dbFull < trn.items
    BY WhileCut, NumbersAre
  <1>2. HeadsKnown /\ Pending /\ Syncing
    BY DEF BlockInv
  <1>3. CASE w.pc = "undone" /\ w \in FastWriter
    <2>1. w # Idle /\ w.kind = "fast" /\ OfSync /\ Filling /\ w.prev \in Nat
      BY <1>3, NumbersAre DEF FastWriter, Idle, OfSync, Filling
    <2>2. trn.items = w.prev + 1 /\ fast = w.prev /\ full = 0 /\ dbFull = 0
      BY <1>2, <1>3, <2>1 DEF Syncing, HeadsKnown
    <2>3. fast < n /\ n <= hdr
      BY <1>1, <2>1, <2>2, NumbersKnown DEF OnChain
    <2> QED BY <1>2, <2>2, <2>3 DEF Pending
  <1>4. CASE hdr < trn.items /\ dbFull < trn.items
    <2>1. n <= full /\ n # 0
      BY <1>1, <1>4, NumbersKnown DEF OnChain
    <2>2. dbFull = 0
      BY <1>1, <1>2, <1>4, <2>1, NumbersKnown DEF HeadsKnown
    <2>3. full > 0 /\ fast = full /\ fast <= hdr
      BY <1>1, <1>2, <2>1, <2>2, NumbersKnown DEF HeadsKnown
    <2> QED BY <1>1, <1>4, <2>1, <2>3, NumbersKnown
  <1> QED BY <1>1, <1>3, <1>4

LEMMA TruncateTableCovers ==
    ASSUME TypeInv, TypeInv', AncientInv, BlockInv, TruncateTable
    PROVE  BlockInv'
  <1>1. /\ st = "open" /\ trn.pc = "cut"
        /\ canon' = canon /\ kvHeader' = kvHeader /\ kvBody' = kvBody /\ frozen' = frozen
        /\ hdr' = hdr /\ fast' = fast /\ full' = full /\ dbFull' = dbFull /\ chain' = chain /\ stale' = stale
        /\ st' = st /\ w' = w /\ rew' = rew
    BY DEF TruncateTable, kv, heads
  <1>2. PICK t \in trn.left :
           /\ table' = [table EXCEPT ![t] = Cut(@, trn.items)]
           /\ tsync' = [tsync EXCEPT ![t] = Min({@, trn.items})]
           /\ trn' = [trn EXCEPT !.left = @ \ {t}]
    BY DEF TruncateTable
  <1>3. /\ trn # Idle /\ trn.items \in Nat /\ t \in Names
        /\ trn' # Idle /\ trn'.items = trn.items
    <2>1. trn \in [pc : {"cut"}, items : Nat, left : SUBSET Names] /\ trn # Idle
      BY <1>1 DEF TypeInv, ControlTyped, Cuts, Idle
    <2> QED BY <1>2, <2>1 DEF Idle
  <1>4. BlocksInv /\ WorkInv
    BY TwoParts
  <1>5. /\ table'[t] = Cut(table[t], trn.items) /\ \A u \in Names : u # t => table'[u] = table[u]
        /\ tsync'[t] = Min({tsync[t], trn.items}) /\ \A u \in Names : u # t => tsync'[u] = tsync[u]
    BY <1>2, <1>3 DEF TypeInv, TablesTyped
  <1>6. /\ Len(table'[t]) <= Len(table[t])
        /\ \A n \in Numbers : n < Len(table'[t]) => n < Len(table[t]) /\ table'[t][n + 1] = table[t][n + 1]
        /\ \A n \in Numbers : n < trn.items /\ n < Len(table[t]) => n < Len(table'[t])
    <2>1. Len(table'[t]) = IF trn.items <= Len(table[t]) THEN trn.items ELSE Len(table[t])
      BY <1>3, <1>5, CutShortens
    <2>2. Len(table'[t]) <= Len(table[t])
      BY <1>3, <2>1, NumbersKnown
    <2> QED BY <1>3, <1>5, <2>2, CutShortens
  <1>7. tsync'[t] = IF tsync[t] <= trn.items THEN tsync[t] ELSE trn.items
    BY <1>3, <1>5, MinOfPair, NumbersKnown
  <1>8. Shortened /\ \A u \in Names : Len(table'[u]) <= Len(table[u])
    BY <1>5, <1>6, NumbersKnown DEF Shortened
  <1>9. BlocksInv'
    <2>1. ASSUME NEW n \in Numbers, OnChain(n), InTables(n)
          PROVE  Kept(n) \/ \A u \in Names : n < tsync'[u]
      <3>1. CASE trn.items <= n
        BY <1>3, <2>1, <3>1, KeptBeyondCut
      <3>2. CASE n < trn.items
        BY <1>5, <1>7, <2>1, <3>2 DEF InTables
      <3> QED BY <1>3, <3>1, <3>2, NumbersAre
    <2> QED BY <1>1, <1>4, <1>8, <2>1, ShorterCovers
  <1>10. Ended'
    <2> SUFFICES ASSUME rew = Idle, NEW u \in Names, NEW n \in Numbers, n < Len(table'[u])
                 PROVE  OnChain(n) \/ n \in stale \/ (Filling /\ n <= w.limit)
      BY <1>1, <1>3 DEF Ended, OnChain, Filling, OfSync
    <2>1. n < Len(table[u])
      BY <1>8 DEF Shortened
    <2> QED BY <1>1, <1>4, <2>1 DEF WorkInv, Ended
  <1>11. Syncing' /\ Freezing'
    BY <1>1, <1>3, <1>4 DEF WorkInv, Syncing, Freezing, OfSync, OfFreezer, Filling, Ancients, TheBlock
  <1>12. Held'
    <2>1. w.pc = "undone" => w.pc \notin {"head", "canonical", "side", "append"}
      OBVIOUS
    <2>2. CASE w = Idle
      BY <1>1, <2>2 DEF Held, Idle
    <2>3. CASE w.pc = "undone"
      BY <1>1, <2>3 DEF Held
    <2>4. CASE w # Idle /\ w.pc # "undone"
      <3>1. w \in FastWriter /\ w.pc # "append" /\ \A b \in w.blocks : b[1] < trn.items
        BY <1>3, <2>4, WhileCut
      <3>2. w.prev \in Nat /\ w.last \in Nat /\ w.limit \in Nat /\ w.done \in Seq(Block) /\ OfSync
        BY <2>4, <3>1, NumbersAre DEF FastWriter, OfSync
      <3>3. w.limit < trn.items
        <4>1. w.blocks = {TheBlock(n) : n \in (w.prev + 1)..w.last} /\ w.prev < w.last /\ w.limit <= w.last
          BY <1>4, <3>2 DEF WorkInv, Syncing
        <4>2. w.last \in (w.prev + 1)..w.last
          BY <3>2, <4>1
        <4>3. TheBlock(w.last) \in w.blocks /\ TheBlock(w.last)[1] = w.last
          BY <4>1, <4>2 DEF TheBlock
        <4>4. w.last < trn.items
          BY <3>1, <4>3
        <4> QED BY <1>3, <3>2, <4>1, <4>4
      <3>4. ASSUME w.pc \notin {"undo", "undone"}, NEW b \in Range(w.done)
            PROVE  /\ b = TheBlock(b[1]) /\ b[1] <= w.limit
                   /\ \A u \in Names : b[1] < Len(table'[u]) /\ table'[u][b[1] + 1] = b
        <4>1. /\ b = TheBlock(b[1]) /\ b[1] <= w.limit
              /\ \A u \in Names : b[1] < Len(table[u]) /\ table[u][b[1] + 1] = b
          BY <1>4, <2>4, <3>4 DEF WorkInv, Held
        <4>2. b[1] \in Numbers /\ b[1] < trn.items
          BY <1>3, <3>2, <3>3, <4>1, NumbersAre DEF Range, Block
        <4> QED BY <1>5, <1>6, <4>1, <4>2
      <3>5. ASSUME w.pc \in {"head", "canonical", "side"}, NEW b \in Range(w.done)
            PROVE  \A u \in Names : b[1] < tsync'[u]
        <4>1. b[1] <= w.limit /\ \A u \in Names : b[1] < tsync[u]
          BY <1>4, <2>4, <3>5 DEF WorkInv, Held
        <4>2. b[1] \in Nat /\ b[1] < trn.items
          BY <1>3, <3>2, <3>3, <4>1, NumbersAre DEF Range, Block
        <4> QED BY <1>5, <1>7, <4>1, <4>2
      <3> QED BY <1>1, <3>1, <3>4, <3>5 DEF Held, TheBlock
    <2> QED BY <2>2, <2>3, <2>4
  <1>13. Short'
    <2> SUFFICES ASSUME dbFull = 0
                 PROVE  /\ trn.items <= fast + 2
                        /\ w.pc = "undone" => \A u \in Names : Len(table'[u]) <= fast + 2
                                                 \/ (Filling /\ Len(table'[u]) <= w.limit + 1)
      BY <1>1, <1>3 DEF Short, Filling, OfSync
    <2>1. /\ trn.items <= fast + 2
          /\ w.pc = "undone" => \A u \in Names : Len(table[u]) <= fast + 2
                                   \/ (Filling /\ Len(table[u]) <= w.limit + 1)
      BY <1>1, <1>3, <1>4 DEF WorkInv, Short
    <2>2. w \in Writers /\ (Filling => w.limit \in Nat)
      BY NumbersKnown, WriterIs DEF Filling, OfSync
    <2>3. \A u \in Names : Len(table'[u]) \in Nat /\ Len(table[u]) \in Nat
      BY DEF TypeInv, TablesTyped
    <2> QED BY <1>8, <2>1, <2>2, <2>3, NumbersKnown
  <1>14. Rewinding'
    BY <1>1, <1>3, <1>4 DEF WorkInv, Rewinding
  <1> QED BY <1>1, <1>4, <1>9, <1>10, <1>11, <1>12, <1>13, <1>14, TwoPartsNext DEF WorkInv

LEMMA TruncateDoneCovers ==
    ASSUME TypeInv, TypeInv', AncientInv, BlockInv, TruncateDone
    PROVE  BlockInv'
  <1>1. /\ st = "open" /\ trn.pc = "cut" /\ trn.left = {} /\ frozen' = trn.items
        /\ stale' = stale \ {n \in Numbers : n >= trn.items} /\ trn' = Idle
        /\ table' = table /\ tsync' = tsync /\ canon' = canon /\ kvHeader' = kvHeader /\ kvBody' = kvBody
        /\ hdr' = hdr /\ fast' = fast /\ full' = full /\ dbFull' = dbFull /\ chain' = chain
        /\ st' = st /\ w' = w /\ rew' = rew
    BY DEF TruncateDone, kv, heads
  <1>2. BlocksInv /\ WorkInv /\ trn # Idle
    BY <1>1, TwoParts DEF Idle
  <1>3. /\ trn.items \in Nat /\ w.pc # "append" /\ (w # Idle => w \in FastWriter)
        /\ w.pc = "undone" \/ rew # Idle
    <2>1. w.pc = "undone" => w \in FastWriter
      BY <1>2, WhileCut
    <2> QED BY <1>2, <2>1, WhileCut
  <1>4. \A t \in Names : Len(table[t]) = trn.items
    BY <1>1, <1>2, Lengths
  <1>5. \A n \in Numbers : n >= trn.items => ~(n < trn.items)
    BY <1>3, NumbersAre
  <1>6. BlocksInv'
    <2>1. Shortened
      BY <1>1 DEF Shortened
    <2>2. \A n \in stale \ stale' : \A t \in Names : ~(n < Len(table'[t]))
      BY <1>1, <1>4, <1>5
    <2>3. \A n \in Numbers : InTables(n) => \A t \in Names : n < tsync'[t]
      BY <1>1 DEF InTables
    <2> QED BY <1>1, <1>2, <2>1, <2>2, <2>3, ShorterCovers
  <1>7. ASSUME w.pc = "undone"
        PROVE  /\ OfSync /\ Filling /\ ~OfFreezer /\ w.prev \in Nat
               /\ trn.items = w.prev + 1 /\ w.prev <= hdr /\ fast = w.prev
    <2>1. w # Idle /\ w \in Writers
      BY <1>7, NumbersKnown DEF Idle
    <2>2. OfSync /\ Filling /\ ~OfFreezer /\ w.prev \in Nat
      BY <1>3, <1>7, <2>1, NumbersAre DEF FastWriter, OfSync, Filling, OfFreezer
    <2> QED BY <1>2, <1>7, <2>2 DEF WorkInv, Syncing
  <1>8. rew.pc = "roll" => trn.items <= hdr + 1
    BY <1>2 DEF WorkInv, Rewinding
  <1>9. Ended'
    <2> SUFFICES ASSUME rew = Idle \/ rew.pc = "roll", NEW n \in Numbers, n < trn.items
                 PROVE  n <= hdr
      BY <1>1, <1>4 DEF Ended, OnChain
    <2>1. CASE w.pc = "undone"
      BY <1>3, <1>7, <2>1, NumbersKnown, NumbersAre
    <2>2. CASE w.pc # "undone"
      <3>1. trn.items <= hdr + 1
        BY <1>3, <1>8, <2>2
      <3> QED BY <1>3, <3>1, NumbersKnown, NumbersAre
    <2> QED BY <2>1, <2>2
  <1>10. Syncing'
    <2>1. w.pc = "undone" => frozen' <= w.prev + 1
      BY <1>1, <1>7
    <2> QED BY <1>1, <1>2, <2>1 DEF WorkInv, Syncing, OfSync, Filling, Ancients, TheBlock
  <1>11. Freezing'
    BY <1>1, <1>3 DEF Freezing, OfFreezer, FastWriter
  <1>12. Held'
    BY <1>1, <1>2, <1>3 DEF WorkInv, Held, TheBlock
  <1>13. Short'
    <2>1. dbFull = 0 => trn.items <= fast + 2
      BY <1>1, <1>2 DEF WorkInv, Short
    <2> QED BY <1>1, <1>4, <2>1 DEF Short
  <1>14. Rewinding'
    BY <1>1, <1>2 DEF WorkInv, Rewinding
  <1> QED BY <1>1, <1>2, <1>6, <1>9, <1>10, <1>11, <1>12, <1>13, <1>14, TwoPartsNext DEF WorkInv

-----------------------------------------------------------------------------
(* Heads that move, and rewinds that begin or end *)

LEMMA SetHeadCovers ==
    ASSUME TypeInv, TypeInv', AncientInv, BlockInv, SetHead
    PROVE  BlockInv'
  <1>1. /\ st = "open" /\ rew = Idle /\ st' = st /\ trn' = trn /\ w' = w /\ frozen' = frozen
        /\ table' = table /\ tsync' = tsync /\ canon' = canon /\ kvHeader' = kvHeader /\ kvBody' = kvBody
        /\ hdr' = hdr /\ fast' = fast /\ full' = full /\ dbFull' = dbFull /\ chain' = chain /\ stale' = stale
    BY DEF SetHead, tables, kv, heads
  <1>2. PICK target \in 0..(hdr - 1) : rew' = [pc |-> "step", target |-> target, gone |-> {}]
    BY DEF SetHead
  <1>3. /\ rew'.pc = "step" /\ rew'.gone = {} /\ rew'.target < hdr /\ rew' # Idle
    BY <1>2, NumbersKnown DEF Idle
  <1>4. BlocksInv /\ WorkInv
    BY TwoParts
  <1>5. BlocksInv'
    BY <1>1, <1>4, NumbersKnown, SameBlocksKeep DEF SameBlocks
  <1>6. Ended' /\ Rewinding'
    <2>1. ~(hdr <= rew'.target)
      BY <1>2, <1>3, NumbersKnown
    <2> QED BY <1>1, <1>3, <2>1 DEF Ended, Rewinding
  <1>7. Syncing' /\ Freezing' /\ Held'
    BY <1>1, <1>4 DEF WorkInv, Syncing, Freezing, Held, OfSync, OfFreezer, Filling, Ancients, TheBlock
  <1>8. Short'
    BY <1>1, <1>4 DEF WorkInv, Short, OfSync, Filling
  <1> QED BY <1>1, <1>4, <1>5, <1>6, <1>7, <1>8, TwoPartsNext DEF WorkInv

LEMMA RollbackDoneCovers ==
    ASSUME TypeInv, TypeInv', AncientInv, BlockInv, RollbackDone
    PROVE  BlockInv'
  <1>1. /\ st = "open" /\ rew.pc = "roll" /\ trn = Idle /\ rew' = Idle
        /\ st' = st /\ trn' = trn /\ w' = w /\ frozen' = frozen
        /\ table' = table /\ tsync' = tsync /\ canon' = canon /\ kvHeader' = kvHeader /\ kvBody' = kvBody
        /\ hdr' = hdr /\ fast' = fast /\ full' = full /\ dbFull' = dbFull /\ chain' = chain /\ stale' = stale
    BY DEF RollbackDone, tables, kv, heads, history
  <1>2. BlocksInv /\ WorkInv
    BY TwoParts
  <1>3. BlocksInv'
    BY <1>1, <1>2, NumbersKnown, SameBlocksKeep DEF SameBlocks
  <1>4. Ended' /\ Rewinding'
    <2>1. Ended'
      BY <1>1, <1>2 DEF WorkInv, Ended, OnChain, OfSync, Filling
    <2>2. rew'.pc = "idle"
      BY <1>1 DEF Idle
    <2> QED BY <2>1, <2>2 DEF Rewinding
  <1>5. Syncing' /\ Freezing' /\ Held'
    BY <1>1, <1>2 DEF WorkInv, Syncing, Freezing, Held, OfSync, OfFreezer, Filling, Ancients, TheBlock
  <1>6. Short'
    BY <1>1, <1>2 DEF WorkInv, Short, OfSync, Filling
  <1> QED BY <1>1, <1>2, <1>3, <1>4, <1>5, <1>6, TwoPartsNext DEF WorkInv

LEMMA FastSyncCommitHeadCovers ==
    ASSUME TypeInv, TypeInv', AncientInv, BlockInv, FastSyncCommitHead
    PROVE  BlockInv'
  <1>1. /\ st = "open" /\ rew = Idle /\ w = Idle /\ full = 0 /\ full' = fast
        /\ st' = st /\ trn' = trn /\ w' = w /\ rew' = rew /\ frozen' = frozen
        /\ table' = table /\ tsync' = tsync /\ canon' = canon /\ kvHeader' = kvHeader /\ kvBody' = kvBody
        /\ hdr' = hdr /\ fast' = fast /\ dbFull' = dbFull /\ chain' = chain /\ stale' = stale
    BY DEF FastSyncCommitHead, tables, kv, control, history
  <1>2. BlocksInv /\ WorkInv
    BY TwoParts
  <1>3. fast <= hdr /\ dbFull = 0
    BY <1>1, <1>2 DEF BlocksInv, HeadsKnown
  <1>4. \A n \in Numbers : /\ OnChain(n)' <=> OnChain(n)
                           /\ WithBody(n)' <=> WithBody(n)
    BY <1>1, <1>3, NumbersAre, NumbersKnown DEF OnChain, WithBody
  <1>5. \A n \in Numbers : /\ Kept(n)' <=> Kept(n)
                           /\ Agrees(n)' <=> Agrees(n)
                           /\ InTables(n)' <=> InTables(n)
    <2> TAKE n \in Numbers
    <2>1. WithBody(n)' <=> WithBody(n)
      BY <1>4
    <2> QED BY <1>1, <2>1 DEF Kept, Agrees, InTables, TheBlock
  <1>6. Covered' /\ Agreeing' /\ Pending' /\ Strays'
    <2>1. Covered'
      BY <1>2, <1>4, <1>5 DEF BlocksInv, Covered
    <2>2. Agreeing'
      BY <1>1, <1>2, <1>4, <1>5 DEF BlocksInv, Agreeing
    <2>3. Pending' /\ Strays'
      BY <1>1, <1>2, <1>4, <1>5 DEF BlocksInv, Pending, Strays
    <2> QED BY <2>1, <2>2, <2>3
  <1>7. HeadsKnown'
    BY <1>1, <1>3, NumbersKnown DEF HeadsKnown
  <1>8. Ended'
    <2> SUFFICES ASSUME NEW t \in Names, NEW n \in Numbers, n < Len(table[t])
                 PROVE  OnChain(n) \/ n \in stale
      BY <1>1, <1>4 DEF Ended
    <2> QED BY <1>1, <1>2 DEF WorkInv, Ended, Filling, OfSync
  <1>9. Syncing' /\ Freezing' /\ Held'
    BY <1>1, <1>2 DEF WorkInv, Syncing, Freezing, Held, OfSync, OfFreezer, Idle
  <1>10. Short'
    BY <1>1, <1>2 DEF WorkInv, Short, OfSync, Filling
  <1>11. Rewinding'
    BY <1>1 DEF Rewinding, Idle
  <1> QED BY <1>1, <1>2, <1>6, <1>7, <1>8, <1>9, <1>10, <1>11, TwoPartsNext DEF BlocksInv, WorkInv

\* The fast block moves up to a block whose ancestors are written.
LEMMA FastMovesUp ==
    ASSUME TypeInv, TypeInv', BlocksInv, full = 0, fast < fast', fast' <= hdr,
           table' = table, tsync' = tsync, canon' = canon, kvHeader' = kvHeader, kvBody' = kvBody,
           chain' = chain, stale' = stale, hdr' = hdr, full' = full, dbFull' = dbFull,
           \A n \in Numbers : fast < n /\ n <= fast' => TheBlock(n) \in kvBody \/ InTables(n)
    PROVE  BlocksInv'
  <1>1. Covered /\ Agreeing /\ HeadsKnown /\ Pending /\ Strays
    BY DEF BlocksInv
  <1>2. fast \in Nat /\ fast' \in Nat /\ hdr \in Nat /\ dbFull = 0 /\ Numbers \subseteq Nat
    BY <1>1, NumbersKnown, NumbersAre DEF TypeInv, HeadsTyped, HeadsKnown
  <1>3. \A n \in Numbers : (OnChain(n)' <=> OnChain(n)) /\ (Agrees(n)' <=> Agrees(n))
                           /\ (InTables(n)' <=> InTables(n))
    BY DEF OnChain, Agrees, InTables, TheBlock
  <1>4. ASSUME NEW n \in Numbers, Kept(n), ~InTables(n)
        PROVE  Kept(n)'
    <2>1. WithBody(n)' => TheBlock(n) \in kvBody
      <3>1. CASE n <= fast
        BY <1>4, <3>1 DEF Kept, WithBody
      <3>2. CASE n > fast
        <4>1. WithBody(n)' => n <= fast'
          BY <1>2, <3>2 DEF WithBody
        <4> QED BY <1>2, <1>4, <3>2, <4>1
      <3> QED BY <1>2, <3>1, <3>2
    <2> QED BY <1>4, <2>1 DEF Kept, TheBlock
  <1>5. Covered'
    BY <1>1, <1>3, <1>4 DEF Covered
  <1>6. Agreeing' /\ HeadsKnown'
    BY <1>1, <1>2, <1>3 DEF Agreeing, HeadsKnown
  <1>7. Pending'
    <2> SUFFICES ASSUME NEW n \in Numbers, fast' < n, n <= hdr PROVE Kept(n)'
      BY DEF Pending
    <2>1. fast < n /\ ~(n <= fast') /\ ~(n <= full)
      BY <1>2
    <2>2. Kept(n)
      BY <1>1, <1>2, <2>1 DEF Pending
    <2> QED BY <2>1, <2>2 DEF Kept, TheBlock, WithBody
  <1>8. Strays'
    <2> SUFFICES ASSUME NEW n \in Numbers, OnChain(n), ~Agrees(n) PROVE n <= fast'
      BY <1>3 DEF Strays
    <2>1. n <= fast \/ n = fast + 1
      BY <1>1 DEF Strays
    <2> QED BY <1>2, <2>1
  <1> QED BY <1>5, <1>6, <1>7, <1>8 DEF BlocksInv

\* updateHead is asked for the last block of the tables' part.
LEMMA AncientsEnd ==
    ASSUME TypeInv, BlockInv, OfSync, Ancients # {}
    PROVE  /\ LastOf(Ancients) = w.limit /\ w.limit \in Nat /\ w.prev \in Nat
           /\ \A n \in Nat : w.prev < n /\ n <= w.limit => TheBlock(n) \in Ancients
  <1>1. w \in Writers /\ w # Idle /\ w.kind = "fast"
    BY NumbersKnown DEF OfSync
  <1>2. w.limit \in Nat /\ w.prev \in Nat /\ w.last \in Nat /\ w.blocks \subseteq Block
    BY <1>1, WriterIs
  <1>3. /\ w.blocks = {TheBlock(n) : n \in (w.prev + 1)..w.last}
        /\ w.prev <= w.limit /\ w.limit <= w.last
    BY DEF BlockInv, Syncing
  <1>4. \A n \in Nat : w.prev < n /\ n <= w.limit => TheBlock(n) \in Ancients
    <2> SUFFICES ASSUME NEW n \in Nat, w.prev < n, n <= w.limit PROVE TheBlock(n) \in Ancients
      OBVIOUS
    <2>1. n \in (w.prev + 1)..w.last
      BY <1>2, <1>3
    <2> QED BY <1>3, <2>1 DEF Ancients, TheBlock
  <1>5. w.limit > w.prev
    <2>1. PICK b \in Ancients : TRUE
      OBVIOUS
    <2>2. PICK n \in (w.prev + 1)..w.last : b = TheBlock(n)
      BY <1>3, <2>1 DEF Ancients
    <2>3. b[1] = n /\ b[1] <= w.limit
      BY <2>1, <2>2 DEF Ancients, TheBlock
    <2> QED BY <1>2, <2>3
  <1> DEFINE S == {b[1] : b \in Ancients}
  <1>6. S \subseteq 0..w.limit /\ w.limit \in S
    <2>1. TheBlock(w.limit) \in Ancients /\ TheBlock(w.limit)[1] = w.limit
      BY <1>2, <1>4, <1>5 DEF TheBlock
    <2>2. \A b \in Ancients : b[1] \in 0..w.limit
      BY <1>2, NumbersAre DEF Ancients, Block
    <2> QED BY <2>1, <2>2
  <1>7. Max(S) \in S /\ \A m \in S : Max(S) >= m
    BY <1>2, <1>6, MaxOfNats
  <1>8. Max(S) = w.limit
    <2> HIDE DEF S
    <2>1. Max(S) \in 0..w.limit /\ Max(S) >= w.limit
      BY <1>6, <1>7
    <2> QED BY <1>2, <2>1
  <1> QED BY <1>2, <1>4, <1>8 DEF LastOf

LEMMA UpdateHeadCovers ==
    ASSUME TypeInv, TypeInv', AncientInv, BlockInv, UpdateHead
    PROVE  BlockInv'
  <1>1. /\ st = "open" /\ rew = Idle /\ w.pc = "head" /\ st' = st /\ trn' = trn /\ rew' = rew
        /\ table' = table /\ tsync' = tsync /\ frozen' = frozen
        /\ canon' = canon /\ kvHeader' = kvHeader /\ kvBody' = kvBody
        /\ hdr' = hdr /\ full' = full /\ dbFull' = dbFull /\ chain' = chain /\ stale' = stale
    BY DEF UpdateHead, tables, kv, history
  <1>2. BlocksInv /\ WorkInv
    BY TwoParts
  <1>3. w # Idle /\ w \in Writers /\ OfSync /\ Filling /\ ~OfFreezer /\ Ancients # {}
    <2>1. w # Idle /\ w \in Writers
      BY <1>1, NumbersKnown DEF Idle
    <2>2. w.kind = "fast"
      BY <1>1, <2>1, WriterIs
    <2> QED BY <1>1, <2>1, <2>2 DEF OfSync, OfFreezer, Filling, TypeInv, ControlTyped
  <1>4. /\ LastOf(Ancients) = w.limit /\ w.limit \in Nat /\ w.prev \in Nat
        /\ \A n \in Nat : w.prev < n /\ n <= w.limit => TheBlock(n) \in Ancients
    BY <1>3, AncientsEnd
  <1>5. CASE hdr >= w.limit /\ fast < w.limit
    <2>1. fast' = w.limit /\ w' = [w EXCEPT !.pc = "canonical"]
      BY <1>4, <1>5 DEF UpdateHead, CanUpdateHead
    <2>2. SameTask /\ w'.pc = "canonical" /\ w'.done = w.done /\ w'.blk = w.blk
      BY <1>3, <2>1, TaskMoves
    <2>3. OfSync' /\ ~Filling' /\ ~OfFreezer'
      BY <1>3, <2>2 DEF SameTask, OfSync, Filling, OfFreezer
    <2>4. fast = w.prev /\ full = 0 /\ dbFull = 0 /\ Ancients \subseteq Range(w.done)
      BY <1>1, <1>2, <1>3 DEF WorkInv, BlocksInv, Syncing, HeadsKnown
    <2>5. BlocksInv'
      <3>1. ASSUME NEW n \in Numbers, fast < n, n <= fast'
            PROVE  InTables(n)
        <4>1. TheBlock(n) \in Range(w.done) /\ TheBlock(n)[1] = n
          BY <1>4, <2>1, <2>4, <3>1, NumbersAre DEF TheBlock
        <4>2. \A t \in Names : n < Len(table[t]) /\ table[t][n + 1] = TheBlock(n) /\ n < tsync[t]
          BY <1>1, <1>2, <1>3, <4>1 DEF WorkInv, Held
        <4> QED BY <4>2 DEF InTables
      <3> QED BY <1>1, <1>2, <1>4, <1>5, <2>1, <2>4, <3>1, FastMovesUp, NumbersKnown
    <2>6. Ended'
      <3> SUFFICES ASSUME NEW t \in Names, NEW n \in Numbers, n < Len(table[t])
                   PROVE  OnChain(n) \/ n \in stale
        BY <1>1 DEF Ended, OnChain
      <3>1. OnChain(n) \/ n \in stale \/ n <= w.limit
        BY <1>1, <1>2 DEF WorkInv, Ended
      <3> QED BY <1>4, <1>5, <3>1, NumbersAre, NumbersKnown DEF OnChain
    <2>7. Syncing' /\ Freezing'
      <3>1. Ancients' = Ancients
        BY <1>3, <2>2 DEF Ancients, SameTask, OfSync
      <3>2. w'.limit <= fast'
        BY <1>4, <2>1, <2>2 DEF SameTask
      <3> QED BY <1>1, <1>2, <1>3, <2>2, <2>3, <2>4, <3>1, <3>2
              DEF WorkInv, Syncing, Freezing, SameTask, OfSync, TheBlock
    <2>8. Held'
      BY <1>1, <1>2, <1>3, <2>2 DEF WorkInv, Held, SameTask, TheBlock
    <2>9. Short'
      <3> SUFFICES ASSUME dbFull = 0
                   PROVE  /\ trn # Idle => trn.items <= fast' + 2
                          /\ trn = Idle => \A t \in Names : Len(table[t]) <= fast' + 2
        BY <1>1, <2>2 DEF Short
      <3>1. trn # Idle => trn.items <= fast + 2 /\ trn.items \in Nat
        BY <1>1, <1>2, WhileCut DEF WorkInv, Short
      <3>2. trn = Idle => \A t \in Names : Len(table[t]) <= fast + 2 \/ Len(table[t]) <= w.limit + 1
        BY <1>1, <1>2 DEF WorkInv, Short
      <3> QED BY <1>4, <1>5, <2>1, <3>1, <3>2, NumbersKnown
    <2>10. Rewinding'
      BY <1>1 DEF Rewinding, Idle
    <2> QED BY <1>1, <1>2, <2>5, <2>6, <2>7, <2>8, <2>9, <2>10, TwoPartsNext DEF WorkInv
  <1>6. CASE ~(hdr >= w.limit /\ fast < w.limit)
    <2>1. fast' = fast /\ w' = [w EXCEPT !.pc = "undo"]
      BY <1>4, <1>6 DEF UpdateHead, CanUpdateHead
    <2>2. SameTask /\ w'.pc = "undo" /\ w'.done = w.done /\ w'.blk = w.blk
      BY <1>3, <2>1, TaskMoves
    <2>3. Filling'
      BY <1>3, <2>2 DEF SameTask, OfSync, Filling
    <2>4. SameBlocks
      BY <1>1, <2>1, NumbersKnown DEF SameBlocks
    <2> QED BY <1>1, <1>2, <1>3, <2>2, <2>3, <2>4, WriterGoesOn
  <1> QED BY <1>5, <1>6

LEMMA UpdateLiveHeadCovers ==
    ASSUME TypeInv, TypeInv', AncientInv, BlockInv, UpdateLiveHead
    PROVE  BlockInv'
  <1>1. /\ st = "open" /\ rew = Idle /\ w.pc = "liveHead" /\ st' = st /\ trn' = trn /\ rew' = rew
        /\ table' = table /\ tsync' = tsync /\ frozen' = frozen
        /\ canon' = canon /\ kvHeader' = kvHeader /\ kvBody' = kvBody
        /\ hdr' = hdr /\ full' = full /\ dbFull' = dbFull /\ chain' = chain /\ stale' = stale
        /\ w' = Idle
    BY DEF UpdateLiveHead, tables, kv, history
  <1>2. BlocksInv /\ WorkInv
    BY TwoParts
  <1>3. w # Idle /\ w \in Writers /\ OfSync /\ ~Filling
    <2>1. w # Idle /\ w \in Writers
      BY <1>1, NumbersKnown DEF Idle
    <2>2. w.kind = "fast"
      BY <1>1, <2>1, WriterIs
    <2> QED BY <1>1, <2>1, <2>2 DEF OfSync, Filling
  <1>4. w.limit \in Nat /\ w.prev \in Nat /\ w.last \in Nat
    BY <1>3, WriterIs DEF OfSync
  <1>5. BlocksInv' /\ fast <= fast' /\ fast' \in Nat
    <2>1. CASE hdr >= w.last /\ fast < w.last
      <3>1. fast' = w.last
        BY <2>1 DEF UpdateLiveHead, CanUpdateHead
      <3>2. /\ w.limit <= fast /\ full = 0 /\ w.blocks \ Ancients \subseteq kvBody
            /\ w.blocks = {TheBlock(n) : n \in (w.prev + 1)..w.last} /\ w.prev <= w.limit
        BY <1>1, <1>2, <1>3, <2>1 DEF WorkInv, Syncing
      <3>3. ASSUME NEW n \in Numbers, fast < n, n <= fast'
            PROVE  TheBlock(n) \in kvBody
        <4>1. n \in (w.prev + 1)..w.last /\ ~(n <= w.limit)
          BY <1>4, <3>1, <3>2, <3>3, NumbersAre, NumbersKnown
        <4>2. TheBlock(n) \in w.blocks \ Ancients
          BY <3>2, <4>1 DEF Ancients, TheBlock
        <4> QED BY <3>2, <4>2
      <3>4. fast < fast' /\ fast' <= hdr
        BY <1>4, <2>1, <3>1, NumbersKnown
      <3> QED BY <1>1, <1>2, <1>4, <3>1, <3>2, <3>3, <3>4, FastMovesUp, NumbersKnown
    <2>2. CASE ~(hdr >= w.last /\ fast < w.last)
      <3>1. fast' = fast
        BY <2>2 DEF UpdateLiveHead, CanUpdateHead
      <3>2. SameBlocks
        BY <1>1, <3>1, NumbersKnown DEF SameBlocks
      <3> QED BY <1>2, <3>1, <3>2, SameBlocksKeep, NumbersKnown
    <2> QED BY <2>1, <2>2
  <1>6. Ended'
    BY <1>1, <1>2, <1>3 DEF WorkInv, Ended, OnChain
  <1>7. Syncing' /\ Freezing' /\ Held'
    BY <1>1 DEF Syncing, Freezing, Held, OfSync, OfFreezer, Idle
  <1>8. Short'
    <2> SUFFICES ASSUME dbFull = 0
                 PROVE  /\ trn # Idle => trn.items <= fast' + 2
                        /\ trn = Idle => \A t \in Names : Len(table[t]) <= fast' + 2
      BY <1>1 DEF Short, Idle
    <2>1. trn # Idle => trn.items <= fast + 2 /\ trn.items \in Nat
      BY <1>1, <1>2, WhileCut DEF WorkInv, Short
    <2>2. trn = Idle => \A t \in Names : Len(table[t]) <= fast + 2
      BY <1>1, <1>2, <1>3 DEF WorkInv, Short
    <2> QED BY <1>5, <2>1, <2>2, NumbersKnown
  <1>9. Rewinding'
    BY <1>1 DEF Rewinding, Idle
  <1> QED BY <1>1, <1>2, <1>5, <1>6, <1>7, <1>8, <1>9, TwoPartsNext DEF WorkInv

-----------------------------------------------------------------------------
(* Imports *)

\* The block that is imported: its number and what becomes of the heads.
Imported(m, v) ==
    /\ m = full + 1 /\ m \in Numbers /\ v \in Versions
    /\ full < hdr => v = chain[m]
    /\ full >= hdr \/ full > 0
    /\ st = "open" /\ rew = Idle /\ (w # Idle => w.kind = "freeze")
    /\ kvHeader \subseteq kvHeader' /\ kvBody \subseteq kvBody'
    /\ <<m, v>> \in kvHeader' /\ <<m, v>> \in kvBody'
    /\ canon' = [canon EXCEPT ![m] = v] /\ chain' = [chain EXCEPT ![m] = v]
    /\ full' = m /\ dbFull' = m
    /\ \/ ReadCanonicalHash(m) # <<m, v>> /\ hdr' = m /\ fast' = m
       \/ ReadCanonicalHash(m) = <<m, v>> /\ hdr' = hdr /\ fast' = fast
    /\ table' = table /\ tsync' = tsync /\ frozen' = frozen /\ stale' = stale
    /\ st' = st /\ w' = w /\ trn' = trn /\ rew' = rew

LEMMA ImportSays ==
    ASSUME TypeInv, Import
    PROVE  \E m, v : Imported(m, v)
  <1>1. full \in Nat /\ full + 1 \in Numbers
    BY NumbersKnown, NumbersAre DEF Import
  <1>2. \A n \in Numbers : Candidates(n) \subseteq Versions
    BY FreezerAssumption DEF Candidates
  <1>3. PICK v \in Candidates(full + 1), side \in {{}, Versions} :
           LET b == <<full + 1, v>>
               stored == {<<full + 1, x>> : x \in side \cup {v}}
           IN  /\ full < hdr => v = chain[full + 1]
               /\ kvHeader' = kvHeader \cup stored
               /\ kvBody' = kvBody \cup stored
               /\ canon' = [canon EXCEPT ![full + 1] = v]
               /\ chain' = [chain EXCEPT ![full + 1] = v]
               /\ full' = full + 1 /\ dbFull' = full + 1
               /\ IF ReadCanonicalHash(full + 1) # b
                  THEN hdr' = full + 1 /\ fast' = full + 1
                  ELSE UNCHANGED <<hdr, fast>>
    BY DEF Import
  <1>4. /\ st = "open" /\ rew = Idle /\ (full >= hdr \/ full > 0) /\ (w # Idle => w.kind = "freeze")
        /\ table' = table /\ tsync' = tsync /\ frozen' = frozen /\ stale' = stale
        /\ st' = st /\ w' = w /\ trn' = trn /\ rew' = rew
    BY DEF Import, tables, control
  <1>5. v \in Versions
    BY <1>1, <1>2, <1>3
  <1>6. Imported(full + 1, v)
    BY <1>1, <1>3, <1>4, <1>5 DEF Imported
  <1> QED BY <1>6

LEMMA ImportCovers ==
    ASSUME TypeInv, TypeInv', AncientInv, BlockInv, Import
    PROVE  BlockInv'
  <1>1. PICK m, v : Imported(m, v)
    BY ImportSays
  <1>2. /\ m = full + 1 /\ m \in Numbers /\ m \in Nat /\ v \in Versions
        /\ full < hdr => v = chain[m]
        /\ full >= hdr \/ full > 0
        /\ st = "open" /\ rew = Idle /\ (w # Idle => w.kind = "freeze")
        /\ full' = m /\ dbFull' = m
        /\ table' = table /\ tsync' = tsync /\ frozen' = frozen /\ stale' = stale
        /\ st' = st /\ w' = w /\ trn' = trn /\ rew' = rew
    BY <1>1, NumbersAre DEF Imported
  <1>3. /\ hdr \in Nat /\ fast \in Nat /\ full \in Nat /\ dbFull \in Nat /\ frozen \in Nat /\ w \in Writers
        /\ hdr' \in Nat /\ fast' \in Nat /\ m > full
    BY <1>2, NumbersKnown, NumbersAre DEF TypeInv, HeadsTyped
  <1>4. \/ ReadCanonicalHash(m) # <<m, v>> /\ hdr' = m /\ fast' = m
        \/ ReadCanonicalHash(m) = <<m, v>> /\ hdr' = hdr /\ fast' = fast
    BY <1>1 DEF Imported
  <1>5. BlocksInv /\ WorkInv
    BY TwoParts
  <1>6. trn = Idle /\ w.pc # "undone" /\ ~Filling /\ ~OfSync
    <2>1. w # Idle => trn = Idle /\ w.pc # "undone"
      BY <1>2, <1>3, FreezerAlone, WriterIs
    <2>2. w = Idle => trn = Idle /\ w.pc # "undone"
      BY <1>2, WhileCut DEF Idle
    <2> QED BY <1>2, <2>1, <2>2 DEF Filling, OfSync
  \* What does not change, away from m.
  <1>7. ASSUME NEW n \in Numbers, n # m
        PROVE  /\ TheBlock(n)' = TheBlock(n) /\ canon'[n] = canon[n] /\ chain'[n] = chain[n]
               /\ Agrees(n)' <=> Agrees(n)
               /\ InTables(n)' <=> InTables(n)
               /\ OnChain(n)' => OnChain(n)
               /\ WithBody(n)' => WithBody(n)
               /\ Kept(n) => Kept(n)'
    <2>1. /\ canon'[n] = canon[n] /\ chain'[n] = chain[n]
      BY <1>1, <1>7 DEF Imported, TypeInv, StoreTyped
    <2>2. TheBlock(n)' = TheBlock(n)
      BY <2>1 DEF TheBlock
    <2>3. (Agrees(n)' <=> Agrees(n)) /\ (InTables(n)' <=> InTables(n))
      BY <1>2, <2>2 DEF Agrees, InTables
    <2>4. (OnChain(n)' => OnChain(n)) /\ (WithBody(n)' => WithBody(n))
      BY <1>2, <1>3, <1>4, <1>7, NumbersAre DEF OnChain, WithBody
    <2>5. Kept(n) => Kept(n)'
      BY <1>1, <2>1, <2>2, <2>4 DEF Kept, Imported
    <2> QED BY <2>1, <2>2, <2>3, <2>4, <2>5
  <1>8. TheBlock(m)' = <<m, v>> /\ Kept(m)'
    <2>1. canon'[m] = v /\ chain'[m] = v
      BY <1>1, <1>2 DEF Imported, TypeInv, StoreTyped
    <2>2. TheBlock(m)' = <<m, v>>
      BY <2>1 DEF TheBlock
    <2> QED BY <1>1, <2>1, <2>2 DEF Kept, Imported
  <1>9. full < hdr => TheBlock(m) = <<m, v>> /\ OnChain(m)
    BY <1>2, <1>3 DEF TheBlock, OnChain
  <1>10. ASSUME NEW t \in Names, NEW n \in Numbers, n < Len(table[t])
         PROVE  OnChain(n) \/ n \in stale
    BY <1>2, <1>5, <1>6, <1>10 DEF WorkInv, Ended
  <1>11. Covered'
    BY <1>2, <1>5, <1>7, <1>8 DEF BlocksInv, Covered
  <1>12. Agreeing'
    <2>1. 0 \notin stale /\ canon'[0] = chain'[0]
      BY <1>2, <1>3, <1>5, <1>7, NumbersAre DEF BlocksInv, Agreeing
    <2>2. m \in stale \/ Agrees(m)'
      <3>1. CASE full < hdr
        <4>1. m \in stale \/ Agrees(m)
          BY <1>2, <1>5, <1>9, <3>1 DEF BlocksInv, Agreeing
        <4> QED BY <1>2, <1>8, <1>9, <3>1, <4>1 DEF Agrees
      <3>2. CASE ~(full < hdr)
        <4>1. ~OnChain(m)
          BY <1>2, <1>3, <3>2 DEF OnChain
        <4>2. m \in stale \/ \A t \in Names : ~(m < Len(table[t]))
          BY <1>2, <1>10, <4>1
        <4> QED BY <1>2, <4>2 DEF Agrees
      <3> QED BY <3>1, <3>2
    <2>3. \A n \in Numbers : OnChain(n)' => n \in stale \/ Agrees(n)'
      BY <1>2, <1>5, <1>7, <2>2 DEF BlocksInv, Agreeing
    <2> QED BY <1>2, <2>1, <2>3 DEF Agreeing
  <1>13. /\ dbFull \in {0, full} /\ fast <= hdr
         /\ full > 0 => fast <= full
         /\ full > 0 /\ dbFull = 0 => fast = full
    BY <1>5 DEF BlocksInv, HeadsKnown
  <1>14. HeadsKnown' /\ Pending' /\ Short'
    <2>1. dbFull' # 0
      BY <1>2, <1>3
    <2>2. HeadsKnown'
      BY <1>2, <1>3, <1>4, <1>13 DEF HeadsKnown
    <2> QED BY <2>1, <2>2 DEF Pending, Short
  <1>15. ASSUME w # Idle
         PROVE  /\ OfFreezer /\ w.limit \in Nat /\ w.limit <= full /\ w.limit < m
                /\ w.pc = "append" => w.blk = TheBlock(frozen) /\ frozen <= w.limit
    <2>1. OfFreezer /\ w.limit \in Nat
      BY <1>2, <1>3, <1>15, WriterIs DEF OfFreezer
    <2>2. w.limit <= dbFull /\ (w.pc = "append" => w.blk = TheBlock(frozen) /\ frozen <= w.limit)
      BY <1>5, <2>1 DEF WorkInv, Freezing, Held
    <2>3. w.limit <= full
      BY <1>3, <1>13, <2>1, <2>2
    <2> QED BY <1>2, <1>3, <2>1, <2>2, <2>3
  <1>16. ASSUME ReadCanonicalHash(m) = <<m, v>>
         PROVE  Agrees(m)'
    <2> SUFFICES ASSUME NEW t \in Names, m < Len(table[t])
                 PROVE  table[t][m + 1] = <<m, v>>
      BY <1>2, <1>8 DEF Agrees
    <2>1. Len(table[t]) \in Nat /\ Len(table["hashes"]) \in Nat /\ "hashes" \in Names
      BY NumbersKnown, TablesNamed
    <2>2. CASE m < Len(table["hashes"])
      <3>1. Ancient("hashes", m) = table["hashes"][m + 1] /\ Ancient("hashes", m) # None
        BY <1>2, <2>1, <2>2, AncientStored DEF TypeInv
      <3>2. table["hashes"][m + 1] = <<m, v>>
        BY <1>16, <3>1 DEF ReadCanonicalHash
      <3>3. m + 1 \in 1..Len(table[t]) /\ m + 1 <= Len(table["hashes"])
        BY <1>2, <2>1, <2>2
      <3> QED BY <2>1, <3>2, <3>3 DEF AncientInv, ItemsAgree
    <2>3. CASE ~(m < Len(table["hashes"]))
      <3>1. w.pc # "append" => Len(table[t]) = Len(table["hashes"])
        BY <1>2, <1>6, <2>1, Lengths
      <3>2. w.pc = "append" => Len(table[t]) <= frozen + 1 /\ w # Idle
        BY <1>2, Lengths
      <3>3. w.pc = "append" => ~(m < Len(table[t]))
        BY <1>2, <1>3, <1>15, <2>1, <3>2
      <3> QED BY <2>3, <3>1, <3>3
    <2> QED BY <2>2, <2>3
  <1>17. Strays'
    <2> SUFFICES ASSUME NEW n \in Numbers, OnChain(n)', ~Agrees(n)'
                 PROVE  n <= fast'
      BY DEF Strays
    <2>1. CASE hdr' = m /\ fast' = m
      BY <1>2, <2>1 DEF OnChain
    <2>2. CASE ReadCanonicalHash(m) = <<m, v>> /\ hdr' = hdr /\ fast' = fast
      <3>1. n # m
        BY <1>16, <2>2
      <3>2. n <= fast \/ (n = fast + 1 /\ dbFull = 0)
        BY <1>5, <1>7, <3>1 DEF BlocksInv, Strays
      <3>3. ~(n = fast + 1 /\ dbFull = 0)
        BY <1>2, <1>3, <1>13, <3>1
      <3> QED BY <2>2, <3>2, <3>3
    <2> QED BY <1>4, <2>1, <2>2
  <1>18. Ended'
    <2> SUFFICES ASSUME NEW t \in Names, NEW n \in Numbers, n < Len(table[t]), n \notin stale
                 PROVE  n <= hdr' \/ n <= m
      BY <1>2 DEF Ended, OnChain
    <2>1. OnChain(n) /\ n \in Nat
      BY <1>10, NumbersAre
    <2>2. CASE hdr' = hdr
      BY <1>2, <1>3, <2>1, <2>2 DEF OnChain
    <2>3. CASE ReadCanonicalHash(m) # <<m, v>> /\ n > m
      <3>1. full < hdr /\ full > 0 /\ TheBlock(m) = <<m, v>> /\ OnChain(m)
        BY <1>2, <1>3, <1>9, <2>1, <2>3 DEF OnChain
      <3>2. "hashes" \in Names /\ Len(table["hashes"]) \in Nat
        BY NumbersKnown, TablesNamed
      <3>3. canon[m] = v => m < Len(table["hashes"])
        <4>1. ~(m < Len(table["hashes"])) => Ancient("hashes", m) = None
          BY <1>2, <3>2, AncientStored DEF TypeInv
        <4> QED BY <1>2, <2>3, <4>1, FreezerAssumption DEF ReadCanonicalHash
      <3>4. m < Len(table["hashes"]) => table["hashes"][m + 1] # <<m, v>>
        <4>1. m < Len(table["hashes"]) =>
                  Ancient("hashes", m) = table["hashes"][m + 1] /\ Ancient("hashes", m) # None
          BY <1>2, <3>2, AncientStored DEF TypeInv
        <4> QED BY <2>3, <4>1 DEF ReadCanonicalHash
      <3>5. ~InTables(m)
        <4>1. InTables(m) => m < tsync["hashes"] /\ table["hashes"][m + 1] = <<m, v>>
          BY <3>1, <3>2 DEF InTables
        <4>2. tsync["hashes"] \in Nat /\ tsync["hashes"] <= Len(table["hashes"])
          BY <3>2, NumbersKnown
        <4> QED BY <1>2, <3>2, <3>4, <4>1, <4>2
      <3>6. Kept(m) /\ canon[m] = v
        BY <1>2, <1>5, <3>1, <3>5 DEF BlocksInv, Covered, Kept, TheBlock
      <3>7. ~Agrees(m)
        BY <3>1, <3>2, <3>3, <3>4, <3>6 DEF Agrees
      <3>8. m = fast + 1 /\ dbFull = 0
        BY <1>2, <1>3, <1>5, <1>13, <3>1, <3>7 DEF BlocksInv, Strays
      <3>9. Len(table[t]) <= fast + 2
        BY <1>2, <1>5, <1>6, <3>8 DEF WorkInv, Short
      <3>10. Len(table[t]) \in Nat
        BY NumbersKnown
      <3> QED BY <1>2, <1>3, <2>1, <2>3, <3>8, <3>9, <3>10
    <2> QED BY <1>2, <1>4, <2>1, <2>2, <2>3
  <1>19. Syncing' /\ Freezing'
    <2>1. Syncing'
      BY <1>2, <1>6 DEF Syncing, OfSync
    <2>2. Freezing'
      BY <1>2, <1>3, <1>5, <1>15 DEF WorkInv, Freezing, OfFreezer
    <2> QED BY <2>1, <2>2
  <1>20. Held'
    <2>1. CASE w = Idle
      <3>1. w'.pc = "idle" /\ w' = Idle
        BY <1>2, <2>1 DEF Idle
      <3> QED BY <3>1 DEF Held
    <2>2. CASE w # Idle
      <3>1. ASSUME NEW b \in Range(w.done), w.pc \notin {"undo", "undone"}
            PROVE  /\ b = TheBlock(b[1])' /\ b[1] <= w.limit
                   /\ \A t \in Names : b[1] < Len(table[t]) /\ table[t][b[1] + 1] = b
        <4>1. /\ b = TheBlock(b[1]) /\ b[1] <= w.limit
              /\ \A t \in Names : b[1] < Len(table[t]) /\ table[t][b[1] + 1] = b
          BY <1>5, <2>2, <3>1 DEF WorkInv, Held
        <4>2. b[1] \in Numbers /\ b[1] # m
          <5>1. w.done \in Seq(Block)
            BY <1>3, <2>2, WriterIs
          <5>2. b \in Block
            BY <5>1 DEF Range
          <5>3. b[1] \in Numbers /\ b[1] \in Nat /\ w.limit \in Nat /\ w.limit < m
            BY <1>15, <2>2, <5>2, NumbersAre DEF Block
          <5> QED BY <1>2, <4>1, <5>3
        <4> QED BY <1>7, <4>1, <4>2
      <3>2. w.pc = "append" => w.blk = <<frozen, chain'[frozen]>> /\ frozen <= w.limit
        <4> SUFFICES ASSUME w.pc = "append"
                     PROVE  w.blk = <<frozen, chain'[frozen]>> /\ frozen <= w.limit
          OBVIOUS
        <4>1. w.blk = TheBlock(frozen) /\ frozen <= w.limit
          BY <1>15, <2>2
        <4>2. frozen \in Numbers /\ frozen # m
          <5>1. frozen \in Nat /\ frozen < m
            BY <1>2, <1>3, <1>15, <2>2, <4>1
          <5> QED BY <1>2, <5>1, NumbersAre
        <4> QED BY <1>7, <4>1, <4>2 DEF TheBlock
      <3>3. w.pc \in {"head", "canonical", "side"} => \A b \in Range(w.done) : \A t \in Names : b[1] < tsync[t]
        BY <1>5, <2>2 DEF WorkInv, Held
      <3> QED BY <1>2, <3>1, <3>2, <3>3 DEF Held, TheBlock
    <2> QED BY <2>1, <2>2
  <1>21. Rewinding'
    BY <1>2 DEF Rewinding, Idle
  <1> QED BY <1>2, <1>5, <1>11, <1>12, <1>14, <1>17, <1>18, <1>19, <1>20, <1>21, TwoPartsNext
          DEF BlocksInv, WorkInv

LEMMA ImportHeaderCovers ==
    ASSUME TypeInv, TypeInv', AncientInv, BlockInv, ImportHeader
    PROVE  BlockInv'
  <1>0. PICK m \in Nat : m = hdr + 1
    BY NumbersKnown
  <1>1. /\ st = "open" /\ rew = Idle /\ full = 0 /\ hdr < Height
        /\ (w # Idle => w.kind = "fast" /\ hdr >= w.last)
        /\ table' = table /\ tsync' = tsync /\ frozen' = frozen /\ stale' = stale
        /\ st' = st /\ w' = w /\ trn' = trn /\ rew' = rew
        /\ kvBody' = kvBody /\ fast' = fast /\ full' = full /\ dbFull' = dbFull /\ hdr' = m
    BY <1>0 DEF ImportHeader, tables, control
  <1>2. /\ hdr \in Nat /\ fast \in Nat /\ frozen \in Nat /\ w \in Writers
        /\ m \in Nat /\ m \in Numbers /\ hdr < m
    BY <1>1, <1>0, NumbersKnown, NumbersAre
  <1>3. PICK v \in Candidates(m) :
           /\ kvHeader' = kvHeader \cup {<<m, v>>}
           /\ canon' = [n \in Numbers |-> IF n <= hdr THEN canon[n]
                                          ELSE IF n = m THEN v ELSE None]
           /\ chain' = [chain EXCEPT ![m] = v]
    BY <1>0 DEF ImportHeader
  <1>4. BlocksInv /\ WorkInv
    BY TwoParts
  <1>5. dbFull = 0 /\ fast <= hdr
    BY <1>1, <1>4 DEF BlocksInv, HeadsKnown
  <1>6. ASSUME w # Idle
        PROVE  /\ OfSync /\ ~OfFreezer /\ w.limit \in Nat /\ w.last \in Nat /\ w.prev \in Nat
               /\ w.limit <= w.last /\ w.last <= hdr /\ w.prev <= hdr /\ w.done \in Seq(Block)
    <2>1. OfSync /\ ~OfFreezer
      BY <1>1, <1>6 DEF OfSync, OfFreezer
    <2>2. w.limit \in Nat /\ w.last \in Nat /\ w.prev \in Nat /\ w.done \in Seq(Block)
      BY <1>1, <1>2, <1>6, WriterIs
    <2>3. w.limit <= w.last /\ w.prev <= hdr
      BY <1>4, <2>1 DEF WorkInv, Syncing
    <2> QED BY <1>1, <1>2, <1>6, <2>1, <2>2, <2>3
  <1>7. trn = Idle \/ w.pc = "undone"
    BY <1>1, WhileCut
  \* What does not change, up to the head there was.
  <1>8. ASSUME NEW n \in Numbers, n <= hdr
        PROVE  /\ TheBlock(n)' = TheBlock(n) /\ canon'[n] = canon[n] /\ chain'[n] = chain[n]
               /\ Agrees(n)' <=> Agrees(n)
               /\ InTables(n)' <=> InTables(n)
               /\ OnChain(n)
               /\ Kept(n) => Kept(n)'
    <2>1. canon'[n] = canon[n] /\ chain'[n] = chain[n]
      BY <1>2, <1>3, <1>8, NumbersAre DEF TypeInv, StoreTyped
    <2>2. TheBlock(n)' = TheBlock(n)
      BY <2>1 DEF TheBlock
    <2>3. (Agrees(n)' <=> Agrees(n)) /\ (InTables(n)' <=> InTables(n)) /\ OnChain(n)
      BY <1>1, <1>8, <2>2 DEF Agrees, InTables, OnChain
    <2>4. WithBody(n)' <=> WithBody(n)
      BY <1>1 DEF WithBody
    <2>5. Kept(n) => Kept(n)'
      BY <1>1, <1>3, <2>1, <2>2, <2>4 DEF Kept
    <2> QED BY <2>1, <2>2, <2>3, <2>5
  <1>9. ASSUME NEW n \in Numbers, n <= m
        PROVE  n <= hdr \/ n = m
    BY <1>2, <1>9, <1>0, NumbersAre
  <1>10. \A n \in Numbers : OnChain(n)' => n <= m
    BY <1>1, <1>2, NumbersAre DEF OnChain
  <1>11. Kept(m)'
    <2>1. canon'[m] = v /\ chain'[m] = v
      BY <1>2, <1>3 DEF TypeInv, StoreTyped
    <2>2. TheBlock(m)' = <<m, v>>
      BY <2>1 DEF TheBlock
    <2>3. ~WithBody(m)'
      BY <1>1, <1>2, <1>5 DEF WithBody
    <2> QED BY <1>3, <2>1, <2>2, <2>3 DEF Kept
  <1>12. ASSUME NEW t \in Names, m < Len(table[t])
         PROVE  m \in stale
    <2>1. OnChain(m) \/ m \in stale \/ (Filling /\ m <= w.limit)
      BY <1>1, <1>2, <1>4, <1>12 DEF WorkInv, Ended
    <2>2. ~OnChain(m)
      BY <1>1, <1>2 DEF OnChain
    <2>3. ~(Filling /\ m <= w.limit)
      BY <1>2, <1>6 DEF Filling, OfSync
    <2> QED BY <2>1, <2>2, <2>3
  <1>13. Covered'
    <2> SUFFICES ASSUME NEW n \in Numbers, OnChain(n)' PROVE Kept(n)' \/ InTables(n)'
      BY DEF Covered
    <2>1. n <= hdr \/ n = m
      BY <1>9, <1>10
    <2>2. CASE n <= hdr
      BY <1>4, <1>8, <2>2 DEF BlocksInv, Covered
    <2> QED BY <1>11, <2>1, <2>2
  <1>14. Agreeing'
    <2>1. 0 \notin stale /\ canon'[0] = chain'[0]
      BY <1>2, <1>4, <1>8, NumbersAre DEF BlocksInv, Agreeing
    <2>2. ASSUME NEW n \in Numbers, OnChain(n)', n \notin stale
          PROVE  Agrees(n)'
      <3>1. n <= hdr \/ n = m
        BY <1>9, <1>10, <2>2
      <3>2. CASE n <= hdr
        BY <1>4, <1>8, <2>2, <3>2 DEF BlocksInv, Agreeing
      <3>3. CASE n = m
        BY <1>1, <1>12, <2>2, <3>3 DEF Agrees
      <3> QED BY <3>1, <3>2, <3>3
    <2> QED BY <1>1, <2>1, <2>2 DEF Agreeing
  <1>15. HeadsKnown'
    BY <1>1, <1>2, <1>5 DEF HeadsKnown
  <1>16. Pending'
    <2> SUFFICES ASSUME NEW n \in Numbers, fast < n, n <= m PROVE Kept(n)'
      BY <1>1 DEF Pending
    <2>1. CASE n <= hdr
      BY <1>4, <1>5, <1>8, <2>1 DEF BlocksInv, Pending
    <2> QED BY <1>9, <1>11, <2>1
  <1>17. ASSUME NEW t \in Names, m < Len(table[t])
         PROVE  m <= fast + 1
    <2>1. Len(table[t]) <= fast + 2 \/ (Filling /\ Len(table[t]) <= w.limit + 1)
      BY <1>1, <1>4, <1>5, <1>7 DEF WorkInv, Short
    <2>2. ~(Filling /\ Len(table[t]) <= w.limit + 1)
      BY <1>2, <1>6, <1>17, NumbersKnown DEF Filling, OfSync
    <2> QED BY <1>2, <1>17, <2>1, <2>2, NumbersKnown
  <1>18. Strays'
    <2> SUFFICES ASSUME NEW n \in Numbers, OnChain(n)', ~Agrees(n)'
                 PROVE  n <= fast \/ n = fast + 1
      BY <1>1, <1>5 DEF Strays
    <2>1. n <= hdr \/ n = m
      BY <1>9, <1>10
    <2>2. CASE n <= hdr
      BY <1>4, <1>8, <2>2 DEF BlocksInv, Strays
    <2>3. CASE n = m
      <3>1. \E t \in Names : m < Len(table[t])
        BY <1>1, <2>3 DEF Agrees
      <3> QED BY <1>2, <1>17, <2>3, <3>1
    <2> QED BY <2>1, <2>2, <2>3
  <1>19. Ended'
    <2> SUFFICES ASSUME NEW t \in Names, NEW n \in Numbers, n < Len(table[t])
                 PROVE  OnChain(n)' \/ n \in stale \/ (Filling /\ n <= w.limit)
      BY <1>1 DEF Ended, Filling, OfSync
    <2>1. OnChain(n) \/ n \in stale \/ (Filling /\ n <= w.limit)
      BY <1>1, <1>4 DEF WorkInv, Ended
    <2>2. OnChain(n) => OnChain(n)'
      BY <1>1, <1>2, NumbersAre DEF OnChain
    <2> QED BY <2>1, <2>2
  <1>20. Freezing' /\ Syncing' /\ Held'
    <2>1. CASE w = Idle
      BY <1>1, <2>1 DEF Syncing, Freezing, Held, OfSync, OfFreezer, Idle
    <2>2. CASE w # Idle
      <3>1. Freezing'
        BY <1>1, <1>6, <2>2 DEF Freezing, OfFreezer
      <3>2. \A n \in (w.prev + 1)..w.last : TheBlock(n)' = TheBlock(n)
        <4> TAKE n \in (w.prev + 1)..w.last
        <4>1. n \in Numbers /\ n <= hdr
          BY <1>1, <1>2, <1>6, <2>2, NumbersAre
        <4> QED BY <1>8, <4>1
      <3>3. Syncing'
        <4>1. w.blocks = {TheBlock(n) : n \in (w.prev + 1)..w.last}
          BY <1>4, <1>6, <2>2 DEF WorkInv, Syncing
        <4>2. w.blocks = {<<n, chain'[n]>> : n \in (w.prev + 1)..w.last}
          BY <3>2, <4>1 DEF TheBlock
        <4>3. w.prev <= hdr' /\ hdr >= w.last
          BY <1>1, <1>2, <1>6, <2>2
        <4> QED BY <1>1, <1>4, <1>6, <2>2, <4>2, <4>3
                DEF WorkInv, Syncing, OfSync, Filling, Ancients, TheBlock
      <3>4. Held'
        <4>1. ASSUME NEW b \in Range(w.done), w.pc \notin {"undo", "undone"}
              PROVE  /\ b = <<b[1], chain'[b[1]]>> /\ b[1] <= w.limit
                     /\ \A t \in Names : b[1] < Len(table[t]) /\ table[t][b[1] + 1] = b
          <5>1. /\ b = TheBlock(b[1]) /\ b[1] <= w.limit
                /\ \A t \in Names : b[1] < Len(table[t]) /\ table[t][b[1] + 1] = b
            BY <1>4, <2>2, <4>1 DEF WorkInv, Held
          <5>2. b \in Block
            BY <1>6, <2>2 DEF Range
          <5>3. b[1] \in Numbers /\ b[1] <= hdr
            BY <1>2, <1>6, <2>2, <5>1, <5>2, NumbersAre DEF Block
          <5> QED BY <1>8, <5>1, <5>3 DEF TheBlock
        <4>2. ASSUME w.pc = "append"
              PROVE  w.blk = <<frozen, chain'[frozen]>> /\ frozen <= w.limit
          <5>1. w.blk = TheBlock(frozen) /\ frozen <= w.limit
            BY <1>4, <4>2 DEF WorkInv, Held
          <5>2. frozen \in Numbers /\ frozen <= hdr
            BY <1>1, <1>2, <1>6, <2>2, <5>1, NumbersAre
          <5> QED BY <1>8, <5>1, <5>2 DEF TheBlock
        <4>3. w.pc \in {"head", "canonical", "side"} => \A b \in Range(w.done) : \A t \in Names : b[1] < tsync[t]
          BY <1>4, <2>2 DEF WorkInv, Held
        <4> QED BY <1>1, <4>1, <4>2, <4>3 DEF Held, TheBlock
      <3> QED BY <3>1, <3>3, <3>4
    <2> QED BY <2>1, <2>2
  <1>21. Short'
    BY <1>1, <1>4 DEF WorkInv, Short, Filling, OfSync
  <1>22. Rewinding'
    BY <1>1 DEF Rewinding, Idle
  <1> QED BY <1>1, <1>4, <1>13, <1>14, <1>15, <1>16, <1>18, <1>19, <1>20, <1>21, <1>22, TwoPartsNext
          DEF BlocksInv, WorkInv

-----------------------------------------------------------------------------
(* Rewinding *)

\* What the accessors make of a block of the chain.
LEMMA ChainReads ==
    ASSUME TypeInv, AncientInv, BlockInv, NEW n \in Numbers, OnChain(n)
    PROVE  /\ TheBlock(n) # None
           /\ ReadHeader(TheBlock(n)) = TheBlock(n)
           /\ WithBody(n) => ReadBody(TheBlock(n)) = TheBlock(n)
           /\ Agrees(n) => ReadCanonicalHash(n) = TheBlock(n)
  <1> DEFINE b == TheBlock(n)
  <1>1. b[1] = n /\ b[2] = chain[n] /\ chain[n] \in Versions \cup {None} /\ b # None
    BY FreezerAssumption DEF TheBlock, TypeInv, StoreTyped, Numbers
  <1>2. Kept(n) \/ InTables(n)
    BY DEF BlockInv, Covered
  <1>3. \A t \in Names : /\ n < Len(table[t]) => Ancient(t, n) = table[t][n + 1] /\ Ancient(t, n) # None
                         /\ ~(n < Len(table[t])) => Ancient(t, n) = None
                         /\ Len(table[t]) \in Nat /\ tsync[t] \in Nat /\ tsync[t] <= Len(table[t])
    BY AncientStored, NumbersKnown DEF TypeInv
  <1>4. "hashes" \in Names /\ "headers" \in Names /\ "bodies" \in Names
    BY TablesNamed
  <1>5. InTables(n) => \A t \in Names : Ancient(t, n) = b /\ n < Len(table[t])
    <2> SUFFICES ASSUME InTables(n), NEW t \in Names PROVE Ancient(t, n) = b /\ n < Len(table[t])
      OBVIOUS
    <2>1. n < tsync[t] /\ table[t][n + 1] = b
      BY DEF InTables
    <2>2. n < Len(table[t])
      BY <1>3, <2>1, NumbersAre
    <2> QED BY <1>3, <2>1, <2>2
  <1>6. Kept(n) => /\ b \in kvHeader /\ canon[n] = chain[n] /\ chain[n] # None
                   /\ WithBody(n) => b \in kvBody
    BY FreezerAssumption DEF Kept, TypeInv, StoreTyped, Stored, TheBlock
  <1>7. ReadHeader(b) = b
    BY <1>1, <1>2, <1>4, <1>5, <1>6 DEF ReadHeader
  <1>8. WithBody(n) => ReadBody(b) = b
    <2>1. Ancient("bodies", n) # None /\ Ancient("hashes", n) = b => Ancient("bodies", n) = b
      <3> SUFFICES ASSUME Ancient("bodies", n) # None, Ancient("hashes", n) = b
                   PROVE  Ancient("bodies", n) = b
        OBVIOUS
      <3>1. /\ n < Len(table["bodies"]) /\ n < Len(table["hashes"])
            /\ Ancient("bodies", n) = table["bodies"][n + 1]
            /\ Ancient("hashes", n) = table["hashes"][n + 1]
        BY <1>1, <1>3, <1>4
      <3>2. n + 1 \in 1..Len(table["bodies"]) /\ n + 1 <= Len(table["hashes"])
        BY <1>3, <1>4, <3>1, NumbersAre
      <3> QED BY <1>4, <3>1, <3>2 DEF AncientInv, ItemsAgree
    <2>2. CASE InTables(n)
      BY <1>1, <1>4, <1>5, <2>2 DEF ReadBody
    <2>3. CASE Kept(n)
      BY <1>1, <1>6, <2>1, <2>3 DEF ReadBody
    <2> QED BY <1>2, <2>2, <2>3
  <1>9. Agrees(n) => ReadCanonicalHash(n) = b
    <2> SUFFICES ASSUME Agrees(n) PROVE ReadCanonicalHash(n) = b
      OBVIOUS
    <2>1. CASE n < Len(table["hashes"])
      BY <1>3, <1>4, <2>1 DEF Agrees, ReadCanonicalHash
    <2>2. CASE ~(n < Len(table["hashes"]))
      <3>1. Kept(n) /\ Ancient("hashes", n) = None
        BY <1>2, <1>3, <1>4, <1>5, <2>2
      <3> QED BY <1>6, <3>1 DEF ReadCanonicalHash, TheBlock
    <2> QED BY <2>1, <2>2
  <1> QED BY <1>1, <1>7, <1>8, <1>9

\* The heads go back to a block below the current header.
SteppedBack(h) ==
    /\ h \in Numbers /\ h < hdr /\ hdr' = h
    /\ full' = (IF h < full THEN h ELSE full)
    /\ dbFull' = (IF h < full THEN h ELSE dbFull)
    /\ fast' = (IF h < fast THEN h ELSE fast)
    /\ table' = table /\ tsync' = tsync /\ frozen' = frozen
    /\ canon' = canon /\ kvHeader' = kvHeader /\ kvBody' = kvBody
    /\ chain' = chain /\ stale' = stale /\ st' = st /\ w' = w

LEMMA SetHeadSays ==
    ASSUME TypeInv, AncientInv, BlockInv, SetHeadStep, ~raced'
    PROVE  \E h \in Numbers :
              /\ SteppedBack(h) /\ hdr = h + 1
              /\ st = "open" /\ rew.pc = "step" /\ trn = Idle
              /\ rew'.pc = "step" /\ rew' # Idle /\ rew'.gone = rew.gone \cup {<<hdr, chain[hdr]>>}
              /\ trn' = Idle => frozen <= hdr + 1
              /\ trn' # Idle => trn'.items = hdr + 1 /\ frozen > hdr + 1
              /\ w # Idle => trn' = Idle /\ ~(hdr <= w.limit)
  <1>1. /\ st = "open" /\ rew.pc = "step" /\ trn = Idle /\ hdr > rew.target /\ rew \in Rewinds
        /\ rew' = [rew EXCEPT !.gone = @ \cup {<<hdr, chain[hdr]>>}] /\ hdr' = hdr - 1
        /\ table' = table /\ tsync' = tsync /\ frozen' = frozen
        /\ canon' = canon /\ kvHeader' = kvHeader /\ kvBody' = kvBody
        /\ chain' = chain /\ stale' = stale /\ st' = st /\ w' = w
    BY DEF SetHeadStep, tables, kv, TypeInv, ControlTyped
  <1>2. /\ rew.target \in Nat /\ rew'.pc = "step" /\ rew'.gone = rew.gone \cup {<<hdr, chain[hdr]>>}
        /\ rew' # Idle
    <2>1. rew \in [pc : {"step"}, target : Nat, gone : SUBSET Block]
      BY <1>1 DEF Rewinds, Idle
    <2>2. rew'.pc = "step" /\ rew'.gone = rew.gone \cup {<<hdr, chain[hdr]>>}
      BY <1>1, <2>1
    <2> QED BY <2>1, <2>2 DEF Idle
  <1>3. PICK h \in Numbers : h = hdr - 1 /\ hdr = h + 1
    <2>1. hdr - 1 \in Numbers
      BY <1>1, <1>2, NumbersKnown, NumbersAre
    <2> QED BY <2>1, NumbersKnown
  <1>4. WithBody(h) => ReadBlock(TheBlock(h)) # None
    <2>1. OnChain(h)
      BY <1>3, NumbersKnown, NumbersAre DEF OnChain
    <2> QED BY <2>1, ChainReads DEF ReadBlock
  <1>5. LET block == IF ReadBlock(TheBlock(h)) = None THEN 0 ELSE h
        IN  /\ full' = IF h < full THEN block ELSE full
            /\ dbFull' = IF h < full THEN block ELSE dbFull
            /\ fast' = IF h < fast THEN block ELSE fast
    BY <1>3 DEF SetHeadStep, TheBlock
  <1>6. (h < full \/ h < fast) => WithBody(h)
    BY NumbersKnown, NumbersAre DEF WithBody
  <1>7. SteppedBack(h)
    <2>1. h < hdr /\ hdr' = h
      BY <1>1, <1>3, NumbersAre
    <2> QED BY <1>1, <1>4, <1>5, <1>6, <2>1 DEF SteppedBack
  <1>8. /\ trn' = Idle => frozen <= hdr + 1
        /\ trn' # Idle => trn'.items = hdr + 1 /\ frozen > hdr + 1
    <2>1. CASE hdr + 1 <= frozen
      <3>1. trn' = IF frozen <= hdr + 1 THEN Idle ELSE [pc |-> "cut", items |-> hdr + 1, left |-> Names]
        BY <2>1 DEF SetHeadStep, TruncateStart
      <3> QED BY <3>1, NumbersKnown DEF Idle
    <2>2. CASE ~(hdr + 1 <= frozen)
      <3>1. trn' = trn
        BY <2>2 DEF SetHeadStep
      <3> QED BY <1>1, <2>2, <3>1, NumbersKnown
    <2> QED BY <2>1, <2>2
  <1>9. w # Idle => trn' = Idle /\ ~(hdr <= w.limit)
    BY DEF SetHeadStep
  <1> QED BY <1>1, <1>2, <1>3, <1>7, <1>8, <1>9

LEMMA SteppedBackCovers ==
    ASSUME TypeInv, BlocksInv, NEW h \in Numbers, SteppedBack(h)
    PROVE  BlocksInv'
  <1>1. Covered /\ Agreeing /\ HeadsKnown /\ Pending /\ Strays
    BY DEF BlocksInv
  <1>2. hdr \in Nat /\ fast \in Nat /\ full \in Nat /\ dbFull \in Nat /\ h \in Nat /\ Numbers \subseteq Nat
    BY NumbersKnown, NumbersAre
  <1>3. /\ h < hdr /\ hdr' = h
        /\ full' = (IF h < full THEN h ELSE full)
        /\ dbFull' = (IF h < full THEN h ELSE dbFull)
        /\ fast' = (IF h < fast THEN h ELSE fast)
    BY DEF SteppedBack
  <1>4. ASSUME NEW n \in Numbers, OnChain(n)'
        PROVE  n <= h /\ OnChain(n) /\ (WithBody(n)' => WithBody(n))
    BY <1>2, <1>3, <1>4 DEF OnChain, WithBody
  <1>5. ASSUME NEW n \in Numbers, OnChain(n)'
        PROVE  (Kept(n) => Kept(n)') /\ (Agrees(n)' <=> Agrees(n)) /\ (InTables(n)' <=> InTables(n))
    <2>1. WithBody(n)' => WithBody(n)
      BY <1>4, <1>5
    <2> QED BY <2>1 DEF SteppedBack, Kept, Agrees, InTables, TheBlock
  <1>6. Covered'
    BY <1>1, <1>4, <1>5 DEF Covered
  <1>7. Agreeing'
    BY <1>1, <1>4, <1>5 DEF Agreeing, SteppedBack
  <1>8. HeadsKnown'
    BY <1>1, <1>2, <1>3 DEF HeadsKnown
  <1>9. Pending'
    <2> SUFFICES ASSUME dbFull' = 0, NEW n \in Numbers, fast' < n, n <= h PROVE Kept(n)'
      BY <1>3 DEF Pending
    <2>1. OnChain(n)'
      BY <1>3 DEF OnChain
    <2>2. fast < n /\ n <= hdr /\ dbFull = 0
      BY <1>2, <1>3
    <2> QED BY <1>1, <1>5, <2>1, <2>2 DEF Pending
  <1>10. Strays'
    <2> SUFFICES ASSUME NEW n \in Numbers, OnChain(n)', ~Agrees(n)'
                 PROVE  n <= fast' \/ (n = fast' + 1 /\ dbFull' = 0)
      BY DEF Strays
    <2>1. n <= h /\ (n <= fast \/ (n = fast + 1 /\ dbFull = 0))
      BY <1>1, <1>4, <1>5 DEF Strays
    <2> QED BY <1>1, <1>2, <1>3, <2>1 DEF HeadsKnown
  <1> QED BY <1>6, <1>7, <1>8, <1>9, <1>10 DEF BlocksInv

LEMMA SetHeadStepCovers ==
    ASSUME TypeInv, TypeInv', AncientInv, BlockInv, SetHeadStep, ~raced'
    PROVE  BlockInv'
  <1>1. PICK h \in Numbers :
              /\ SteppedBack(h) /\ hdr = h + 1
              /\ st = "open" /\ rew.pc = "step" /\ trn = Idle
              /\ rew'.pc = "step" /\ rew' # Idle /\ rew'.gone = rew.gone \cup {<<hdr, chain[hdr]>>}
              /\ trn' = Idle => frozen <= hdr + 1
              /\ trn' # Idle => trn'.items = hdr + 1 /\ frozen > hdr + 1
              /\ w # Idle => trn' = Idle /\ ~(hdr <= w.limit)
    BY SetHeadSays
  <1>2. BlocksInv /\ WorkInv
    BY TwoParts
  <1>3. BlocksInv'
    BY <1>1, <1>2, SteppedBackCovers
  <1>4. /\ hdr \in Nat /\ fast \in Nat /\ full \in Nat /\ dbFull \in Nat /\ frozen \in Nat /\ h \in Nat
        /\ w \in Writers
        /\ hdr = h + 1 /\ hdr' = h
        /\ full' = (IF h < full THEN h ELSE full)
        /\ dbFull' = (IF h < full THEN h ELSE dbFull)
        /\ fast' = (IF h < fast THEN h ELSE fast)
        /\ table' = table /\ tsync' = tsync /\ frozen' = frozen /\ kvBody' = kvBody
        /\ chain' = chain /\ stale' = stale /\ st' = st /\ w' = w
    BY <1>1, NumbersKnown, NumbersAre DEF SteppedBack
  <1>5. w # Idle => w.limit \in Nat /\ w.limit <= h /\ trn' = Idle
    BY <1>1, <1>4, WriterIs
  <1>6. Ended' /\ Rewinding'
    <2>1. \A b \in rew'.gone : b[1] > h
      <3>1. \A b \in rew.gone : b[1] > hdr /\ b[1] \in Nat
        <4>1. rew.gone \subseteq Block
          BY <1>1 DEF TypeInv, ControlTyped, Rewinds, Idle
        <4> QED BY <1>1, <1>2, <4>1, NumbersAre DEF WorkInv, Rewinding, Block
      <3> QED BY <1>1, <1>4, <3>1
    <2>2. full' <= h
      BY <1>4
    <2> QED BY <1>1, <1>4, <2>1, <2>2 DEF Ended, Rewinding
  <1>7. Syncing'
    <2> SUFFICES ASSUME OfSync PROVE Syncing'
      BY <1>4 DEF Syncing, OfSync
    <2>1. w # Idle /\ w.kind = "fast" /\ w.prev \in Nat /\ w.last \in Nat /\ w.limit \in Nat /\ w.limit <= h
          /\ trn' = Idle
      BY <1>4, <1>5, WriterIs DEF OfSync
    <2>2. /\ w.blocks = {TheBlock(n) : n \in (w.prev + 1)..w.last}
          /\ w.prev <= w.limit /\ w.limit <= w.last /\ w.prev < w.last
          /\ w.prev <= hdr /\ full = 0
          /\ IF Filling THEN fast = w.prev ELSE w.limit <= fast
          /\ ~Filling \/ w.pc = "head" => Ancients \subseteq Range(w.done)
          /\ w.pc = "undone" => frozen <= w.prev + 1
          /\ w.pc = "liveHead" /\ hdr >= w.last => w.blocks \ Ancients \subseteq kvBody
      BY <1>1, <1>2 DEF WorkInv, Syncing
    <2>3. w.prev <= hdr' /\ full' = 0 /\ (hdr' >= w.last => hdr >= w.last)
          /\ (fast = w.prev => fast' = w.prev) /\ (w.limit <= fast => w.limit <= fast')
      BY <1>4, <2>1, <2>2
    <2>4. (Filling' <=> Filling) /\ (OfSync' <=> OfSync) /\ Ancients' = Ancients
      BY <1>4 DEF Filling, OfSync, Ancients
    <2>5. w'.blocks = {TheBlock(n)' : n \in (w.prev + 1)..w.last}
      BY <1>4, <2>2 DEF TheBlock
    <2> QED BY <1>1, <1>4, <2>1, <2>2, <2>3, <2>4, <2>5 DEF Syncing
  <1>8. Freezing'
    <2> SUFFICES ASSUME OfFreezer PROVE Freezing'
      BY <1>4 DEF Freezing, OfFreezer
    <2>1. w.limit \in Nat /\ w.limit <= h /\ w.limit <= dbFull
      BY <1>2, <1>5 DEF WorkInv, Freezing, OfFreezer
    <2>2. w.limit <= dbFull'
      BY <1>4, <2>1
    <2> QED BY <1>2, <1>4, <2>2 DEF WorkInv, Freezing, OfFreezer
  <1>9. Held'
    BY <1>2, <1>4 DEF WorkInv, Held, TheBlock
  <1>10. Short'
    <2> SUFFICES ASSUME dbFull' = 0
                 PROVE  /\ trn' # Idle => trn'.items <= fast' + 2
                        /\ trn' = Idle \/ w.pc = "undone" =>
                               \A t \in Names : Len(table[t]) <= fast' + 2
                                                \/ (Filling /\ Len(table[t]) <= w.limit + 1)
      BY <1>4 DEF Short, Filling, OfSync
    <2>1. fast' = h \/ (fast' = fast /\ fast < h /\ dbFull = 0)
      BY <1>4
    <2>2. dbFull = 0 => \A t \in Names : Len(table[t]) <= fast + 2
                                         \/ (Filling /\ Len(table[t]) <= w.limit + 1)
      BY <1>1, <1>2 DEF WorkInv, Short
    <2>3. ASSUME trn' # Idle
          PROVE  trn'.items <= fast' + 2
      <3>1. w = Idle /\ w.pc # "append" /\ ~Filling
        BY <1>1, <2>3 DEF Idle, Filling, OfSync
      <3>2. \A t \in Names : Len(table[t]) = frozen
        BY <1>1, <3>1, Lengths
      <3>3. dbFull = 0 => frozen <= fast + 2
        BY <2>2, <3>1, <3>2, TablesNamed
      <3> QED BY <1>1, <1>4, <2>1, <2>3, <3>3
    <2>4. ASSUME trn' = Idle, NEW t \in Names
          PROVE  Len(table[t]) <= fast' + 2 \/ (Filling /\ Len(table[t]) <= w.limit + 1)
      <3>1. Len(table[t]) \in Nat /\ frozen <= hdr + 1
        BY <1>1, <2>4, NumbersKnown
      <3>2. Len(table[t]) <= h + 2
        <4>1. CASE w.pc = "append"
          <5>1. w # Idle /\ Len(table[t]) <= frozen + 1
            BY <1>1, <4>1, Lengths
          <5>2. frozen <= w.limit
            BY <1>2, <4>1 DEF WorkInv, Held
          <5> QED BY <1>4, <1>5, <3>1, <5>1, <5>2
        <4>2. CASE w.pc # "append"
          BY <1>1, <1>4, <3>1, <4>2, Lengths
        <4> QED BY <4>1, <4>2
      <3> QED BY <1>4, <2>1, <2>2, <3>1, <3>2
    <2>5. w.pc = "undone" => trn' = Idle
      BY <1>1 DEF Idle
    <2> QED BY <2>3, <2>4, <2>5
  <1> QED BY <1>2, <1>3, <1>4, <1>6, <1>7, <1>8, <1>9, <1>10, TwoPartsNext DEF WorkInv

LEMMA RollbackSays ==
    ASSUME TypeInv, BlockInv, Rollback, ~raced'
    PROVE  \E low \in Numbers :
              /\ SteppedBack(low)
              /\ st = "open" /\ rew = Idle /\ trn = Idle /\ full = 0 /\ dbFull = 0
              /\ full' = 0 /\ dbFull' = 0 /\ rew' = [pc |-> "roll"]
              /\ trn' = Idle => frozen <= low + 1
              /\ trn' # Idle => trn'.items = low + 1 /\ frozen > low + 1
              /\ w # Idle => trn' = Idle /\ ~(low < w.prev)
  <1>1. /\ st = "open" /\ rew = Idle /\ trn = Idle /\ full = 0
        /\ table' = table /\ tsync' = tsync /\ frozen' = frozen
        /\ canon' = canon /\ kvHeader' = kvHeader /\ kvBody' = kvBody
        /\ full' = full /\ dbFull' = dbFull
        /\ chain' = chain /\ stale' = stale /\ st' = st /\ w' = w
    BY DEF Rollback, tables, kv
  <1> DEFINE hash == [n \in Numbers |-> <<n, chain[n]>>]
  <1>2. PICK low \in 0..(hdr - 1) :
           /\ hdr' = RolledBack(hdr, low, hash)
           /\ fast' = RolledBack(fast, low, hash)
           /\ rew' = [pc |-> "roll"]
           /\ TruncateStart(low + 1)
    BY DEF Rollback
  <1>3. /\ low \in Numbers /\ low \in Nat /\ low < hdr /\ hdr \in Numbers /\ fast \in Numbers
        /\ fast \in Nat
    BY <1>2, NumbersKnown, NumbersAre
  <1>4. \A n \in Numbers : hash[n] = <<n, chain[n]>>
    OBVIOUS
  <1> HIDE DEF hash
  <1>5. hdr' = low /\ fast' = IF low < fast THEN low ELSE fast
    <2>1. hdr' = low
      BY <1>2, <1>3, <1>4, RolledBackTo, NumbersAre
    <2>2. CASE low < fast
      <3>1. fast > low
        BY <1>3, <2>2
      <3>2. RolledBack(fast, low, hash) = low
        BY <1>3, <1>4, <3>1, RolledBackTo
      <3> QED BY <1>2, <2>1, <2>2, <3>2
    <2>3. CASE ~(low < fast)
      <3>1. fast <= low
        BY <1>3, <2>3
      <3>2. RolledBack(fast, low, hash) = fast
        BY <1>3, <3>1, RolledBackTo
      <3> QED BY <1>2, <2>1, <2>3, <3>2
    <2> QED BY <2>2, <2>3
  <1>6. dbFull = 0
    BY <1>1 DEF BlockInv, HeadsKnown
  <1>7. SteppedBack(low)
    BY <1>1, <1>3, <1>5, <1>6 DEF SteppedBack
  <1>8. /\ trn' = Idle => frozen <= low + 1
        /\ trn' # Idle => trn'.items = low + 1 /\ frozen > low + 1
    <2>1. trn' = IF frozen <= low + 1 THEN Idle ELSE [pc |-> "cut", items |-> low + 1, left |-> Names]
      BY <1>2 DEF TruncateStart
    <2> QED BY <1>3, <2>1, NumbersKnown DEF Idle
  <1>9. w # Idle => trn' = Idle /\ ~(low < w.prev)
    BY <1>5 DEF Rollback
  <1> QED BY <1>1, <1>2, <1>3, <1>6, <1>7, <1>8, <1>9

LEMMA RollbackCovers ==
    ASSUME TypeInv, TypeInv', AncientInv, BlockInv, Rollback, ~raced'
    PROVE  BlockInv'
  <1>1. PICK low \in Numbers :
              /\ SteppedBack(low)
              /\ st = "open" /\ rew = Idle /\ trn = Idle /\ full = 0 /\ dbFull = 0
              /\ full' = 0 /\ dbFull' = 0 /\ rew' = [pc |-> "roll"]
              /\ trn' = Idle => frozen <= low + 1
              /\ trn' # Idle => trn'.items = low + 1 /\ frozen > low + 1
              /\ w # Idle => trn' = Idle /\ ~(low < w.prev)
    BY RollbackSays
  <1>2. BlocksInv /\ WorkInv
    BY TwoParts
  <1>3. BlocksInv'
    BY <1>1, <1>2, SteppedBackCovers
  <1>4. /\ hdr \in Nat /\ fast \in Nat /\ frozen \in Nat /\ low \in Nat /\ w \in Writers
        /\ low < hdr /\ hdr' = low /\ fast' = (IF low < fast THEN low ELSE fast)
        /\ table' = table /\ tsync' = tsync /\ frozen' = frozen /\ kvBody' = kvBody
        /\ chain' = chain /\ stale' = stale /\ st' = st /\ w' = w
    BY <1>1, NumbersKnown, NumbersAre DEF SteppedBack
  <1>5. ASSUME NEW t \in Names
        PROVE  /\ Len(table[t]) \in Nat
               /\ w.pc # "append" => Len(table[t]) = frozen
               /\ w.pc = "append" => w # Idle /\ Len(table[t]) <= frozen + 1 /\ frozen <= w.limit
    <2>1. w.pc = "append" => frozen <= w.limit
      BY <1>2 DEF WorkInv, Held
    <2> QED BY <1>1, <2>1, Lengths, NumbersKnown
  <1>6. Ended'
    <2> SUFFICES ASSUME trn' = Idle, NEW t \in Names, NEW n \in Numbers, n < Len(table[t]), ~(n <= low)
                 PROVE  n \in stale \/ (Filling /\ n <= w.limit)
      <3>1. rew' # Idle /\ hdr' = low
        BY <1>1, <1>4 DEF Idle
      <3> QED BY <1>4, <3>1 DEF Ended, OnChain, Filling, OfSync
    <2>1. frozen <= low + 1 /\ n \in Nat
      BY <1>1, NumbersAre
    <2>2. w.pc = "append" /\ n = frozen
      BY <1>4, <1>5, <2>1
    <2>3. w # Idle /\ frozen <= w.limit
      BY <1>5, <2>2
    <2>4. CASE w.kind = "fast"
      BY <2>2, <2>3, <2>4 DEF Filling, OfSync
    <2>5. CASE w.kind # "fast"
      <3>1. OfFreezer /\ w.limit \in Nat
        BY <1>4, <2>3, <2>5, WriterIs DEF OfFreezer
      <3>2. w.limit <= 0
        BY <1>1, <1>2, <3>1 DEF WorkInv, Freezing
      <3> QED BY <1>4, <2>1, <2>2, <2>3, <3>1, <3>2
    <2> QED BY <2>4, <2>5
  <1>7. Syncing'
    <2> SUFFICES ASSUME OfSync PROVE Syncing'
      BY <1>4 DEF Syncing, OfSync
    <2>1. /\ w # Idle /\ w.kind = "fast" /\ w.prev \in Nat /\ w.last \in Nat /\ w.limit \in Nat
          /\ w.done \in Seq(Block)
          /\ trn' = Idle /\ w.prev <= low /\ frozen <= low + 1
      BY <1>1, <1>4, WriterIs DEF OfSync
    <2>2. /\ w.blocks = {TheBlock(n) : n \in (w.prev + 1)..w.last}
          /\ w.prev <= w.limit /\ w.limit <= w.last /\ w.prev < w.last
          /\ IF Filling THEN fast = w.prev ELSE w.limit <= fast
          /\ ~Filling \/ w.pc = "head" => Ancients \subseteq Range(w.done)
          /\ w.pc = "undone" => frozen <= w.prev + 1
          /\ w.pc = "liveHead" /\ hdr >= w.last => w.blocks \ Ancients \subseteq kvBody
      BY <1>1, <1>2 DEF WorkInv, Syncing
    <2>3. ~Filling => w.limit <= low
      <3> SUFFICES ASSUME ~Filling, w.prev < w.limit PROVE w.limit <= low
        BY <1>4, <2>1, <2>2
      <3>1. w.limit \in (w.prev + 1)..w.last
        BY <2>1, <2>2
      <3>2. TheBlock(w.limit) \in Range(w.done) /\ TheBlock(w.limit)[1] = w.limit
        BY <2>1, <2>2, <3>1 DEF Ancients, TheBlock
      <3>3. w.pc \notin {"undo", "undone", "append"}
        BY <2>1 DEF Filling, OfSync
      <3>4. w.limit < Len(table["hashes"]) /\ "hashes" \in Names
        BY <1>2, <2>1, <3>2, <3>3, TablesNamed DEF WorkInv, Held
      <3> QED BY <1>4, <1>5, <2>1, <3>3, <3>4
    <2>4. w.prev <= hdr' /\ full' = 0 /\ (hdr' >= w.last => hdr >= w.last)
          /\ (fast = w.prev => fast' = w.prev) /\ (w.limit <= fast /\ w.limit <= low => w.limit <= fast')
      BY <1>1, <1>4, <2>1, <2>2
    <2>5. (Filling' <=> Filling) /\ (OfSync' <=> OfSync) /\ Ancients' = Ancients
      BY <1>4 DEF Filling, OfSync, Ancients
    <2>6. w'.blocks = {TheBlock(n)' : n \in (w.prev + 1)..w.last}
      BY <1>4, <2>2 DEF TheBlock
    <2> QED BY <1>1, <1>4, <2>1, <2>2, <2>3, <2>4, <2>5, <2>6 DEF Syncing
  <1>8. Freezing' /\ Held'
    BY <1>1, <1>2, <1>4 DEF WorkInv, Freezing, OfFreezer, Held, TheBlock
  <1>9. Short'
    <2> SUFFICES ASSUME TRUE
                 PROVE  /\ trn' # Idle => trn'.items <= fast' + 2
                        /\ trn' = Idle \/ w.pc = "undone" =>
                               \A t \in Names : Len(table[t]) <= fast' + 2
                                                \/ (Filling /\ Len(table[t]) <= w.limit + 1)
      BY <1>4 DEF Short, Filling, OfSync
    <2>1. \A t \in Names : Len(table[t]) <= fast + 2 \/ (Filling /\ Len(table[t]) <= w.limit + 1)
      BY <1>1, <1>2 DEF WorkInv, Short
    <2>2. ASSUME trn' # Idle
          PROVE  trn'.items <= fast' + 2
      <3>1. w = Idle /\ w.pc # "append" /\ ~Filling
        BY <1>1, <2>2 DEF Idle, Filling, OfSync
      <3>2. frozen <= fast + 2
        BY <1>5, <2>1, <3>1, TablesNamed
      <3> QED BY <1>1, <1>4, <2>2, <3>2
    <2>3. ASSUME trn' = Idle, NEW t \in Names
          PROVE  Len(table[t]) <= fast' + 2 \/ (Filling /\ Len(table[t]) <= w.limit + 1)
      <3>1. frozen <= low + 1 /\ Len(table[t]) <= frozen + 1 /\ Len(table[t]) \in Nat
        BY <1>1, <1>4, <1>5, <2>3
      <3> QED BY <1>4, <2>1, <3>1
    <2>4. w.pc = "undone" => trn' = Idle
      BY <1>1 DEF Idle
    <2> QED BY <2>2, <2>3, <2>4
  <1>10. Rewinding'
    <2>1. rew'.pc = "roll" /\ full' = 0 /\ (trn' # Idle => trn'.items <= hdr' + 1)
      BY <1>1, <1>4
    <2> QED BY <2>1 DEF Rewinding
  <1> QED BY <1>2, <1>3, <1>4, <1>6, <1>7, <1>8, <1>9, <1>10, TwoPartsNext DEF WorkInv

-----------------------------------------------------------------------------
(* Starting up *)

\* A database that was written by this code is not refused.
LEMMA NotRefused ==
    ASSUME TypeInv, BlockInv
    PROVE  ~Refused(Shortest, [t \in Names |-> Cut(table[t], Shortest)])
  <1> DEFINE tab == [t \in Names |-> Cut(table[t], Shortest)]
  <1>1. /\ Shortest \in Nat /\ \A t \in Names : Shortest <= Len(table[t])
        /\ \E t \in Names : Shortest = Len(table[t])
    BY ShortestStored DEF TypeInv
  <1>2. hdr \in Nat /\ hdr \in 0..Height /\ Height \in Nat /\ Numbers = 0..Height /\ 0 \in Numbers
    BY NumbersAre DEF TypeInv, HeadsTyped
  <1>3. ~(Shortest > 0 /\ canon[0] # None /\ tab["hashes"][1] # <<0, canon[0]>>)
    <2> SUFFICES ASSUME Shortest > 0 PROVE tab["hashes"][1] = <<0, canon[0]>>
      OBVIOUS
    <2>1. HashFound[0] = tab["hashes"][1] /\ HashFound[0] = table["hashes"][1]
      <3>1. HashFound[0] = tab["hashes"][0 + 1]
        BY <1>2 DEF HashFound
      <3>2. HashFound[0] = table["hashes"][0 + 1]
        BY <1>2, OpenFinds DEF TypeInv
      <3> QED BY <3>1, <3>2
    <2>2. OnChain(0) /\ 0 \notin stale /\ canon[0] = chain[0] /\ Agrees(0)
      <3>1. OnChain(0)
        BY <1>2 DEF OnChain
      <3> QED BY <1>2, <3>1 DEF BlockInv, Agreeing
    <2>3. table["hashes"][0 + 1] = <<0, chain[0]>>
      <3>1. "hashes" \in Names /\ 0 < Len(table["hashes"])
        <4>1. "hashes" \in Names /\ Len(table["hashes"]) \in Nat
          BY TablesNamed, NumbersKnown
        <4> QED BY <1>1, <4>1
      <3> QED BY <2>2, <3>1 DEF Agrees, TheBlock
    <2> QED BY <2>1, <2>2, <2>3
  <1>4. ~(Shortest > 0 /\ Shortest <= Height /\ canon[Shortest] = None /\ hdr > Shortest - 1)
    <2> SUFFICES ASSUME Shortest <= Height, hdr > Shortest - 1 PROVE canon[Shortest] # None
      OBVIOUS
    <2>1. Shortest \in Numbers /\ OnChain(Shortest)
      BY <1>1, <1>2 DEF OnChain
    <2>2. PICK t \in Names : Shortest = Len(table[t])
      BY <1>1
    <2>3. Len(table[t]) <= Shortest
      BY <1>1, <2>2
    <2> QED BY <2>1, <2>3, KeptAbove
  <1>5. ~(Shortest = 0 /\ hdr # 0 /\ canon[1] = None)
    <2> SUFFICES ASSUME Shortest = 0, hdr # 0 PROVE canon[1] # None
      OBVIOUS
    <2>1. 1 \in Numbers /\ OnChain(1)
      BY <1>2 DEF OnChain
    <2>2. PICK t \in Names : Shortest = Len(table[t])
      BY <1>1
    <2>3. Len(table[t]) <= 1
      BY <2>2
    <2> QED BY <2>1, <2>3, KeptAbove
  <1> QED BY <1>3, <1>4, <1>5 DEF Refused

\* Start-up keeps k items, none of them above the fast block.
LEMMA OpenedShorter ==
    ASSUME TypeInv, TypeInv', BlockInv, NEW k \in Nat, k <= fast + 1,
           \A t \in Names : /\ Len(table'[t]) = k /\ tsync'[t] = k /\ k <= Len(table[t])
                            /\ \A j \in 1..k : table'[t][j] = table[t][j],
           canon' = canon, kvHeader' = kvHeader, kvBody' = kvBody, chain' = chain,
           stale' = {i \in stale : i < k}, fast' = fast, full' = dbFull', fast <= hdr',
           full' > 0 => fast <= full',
           \A n \in Numbers : (OnChain(n)' => OnChain(n)) /\ (WithBody(n)' => WithBody(n)),
           \A n \in Numbers : OnChain(n)' /\ InTables(n) /\ k <= n => Kept(n),
           dbFull' = 0 => \A n \in Numbers : fast < n /\ n <= hdr' => Kept(n),
           st' = "open", w' = Idle, trn' = Idle, rew' = Idle
    PROVE  BlockInv'
  <1>1. Covered /\ Agreeing /\ HeadsKnown /\ Pending /\ Strays
    BY DEF BlockInv
  <1>2. fast \in Nat /\ hdr' \in Nat /\ full' \in Nat /\ Numbers \subseteq Nat /\ 0 \in Numbers
    BY NumbersKnown, NumbersAre DEF TypeInv, HeadsTyped
  <1>3. ASSUME NEW n \in Numbers, Kept(n)
        PROVE  Kept(n)'
    <2>1. WithBody(n)' => WithBody(n)
      OBVIOUS
    <2> QED BY <1>3, <2>1 DEF Kept, TheBlock
  <1>4. ASSUME NEW n \in Numbers, n < k, NEW t \in Names
        PROVE  table'[t][n + 1] = table[t][n + 1] /\ n < tsync'[t] /\ n < Len(table[t])
    <2>1. n + 1 \in 1..k /\ k <= Len(table[t]) /\ Len(table[t]) \in Nat
      BY <1>2, <1>4, NumbersKnown
    <2> QED BY <1>2, <1>4, <2>1
  <1>5. Covered'
    <2> SUFFICES ASSUME NEW n \in Numbers, OnChain(n)' PROVE Kept(n)' \/ InTables(n)'
      BY DEF Covered
    <2>1. CASE InTables(n) /\ n < k
      BY <1>4, <2>1 DEF InTables, TheBlock
    <2>2. CASE InTables(n) /\ k <= n
      BY <1>3, <2>2
    <2>3. CASE Kept(n)
      BY <1>3, <2>3
    <2>4. n < k \/ k <= n
      BY <1>2
    <2> QED BY <1>1, <2>1, <2>2, <2>3, <2>4 DEF Covered
  <1>6. Agreeing'
    <2>1. ASSUME NEW n \in Numbers, OnChain(n)', n \notin stale'
          PROVE  Agrees(n)'
      <3>1. CASE n < k
        <4>1. n \notin stale
          BY <2>1, <3>1
        <4>2. Agrees(n)
          BY <1>1, <2>1, <4>1 DEF Agreeing
        <4> QED BY <1>4, <3>1, <4>2 DEF Agrees, TheBlock
      <3>2. CASE ~(n < k)
        BY <3>2 DEF Agrees
      <3> QED BY <3>1, <3>2
    <2> QED BY <1>1, <2>1 DEF Agreeing
  <1>7. HeadsKnown'
    BY <1>2 DEF HeadsKnown
  <1>8. Pending'
    BY <1>3 DEF Pending
  <1>9. Strays'
    <2> SUFFICES ASSUME NEW n \in Numbers, ~Agrees(n)' PROVE n <= fast
      BY DEF Strays
    <2>1. n < k
      BY DEF Agrees
    <2> QED BY <1>2, <2>1
  <1>10. Ended'
    <2> SUFFICES ASSUME NEW t \in Names, NEW n \in Numbers, n < Len(table'[t]) PROVE n <= hdr'
      BY DEF Ended, OnChain
    <2> QED BY <1>2
  <1>11. Short'
    <2> SUFFICES ASSUME NEW t \in Names PROVE Len(table'[t]) <= fast + 2
      BY DEF Short
    <2> QED BY <1>2
  <1>12. Syncing' /\ Freezing' /\ Held' /\ Rewinding'
    BY DEF Syncing, Freezing, Held, Rewinding, OfSync, OfFreezer, Idle
  <1> QED BY <1>5, <1>6, <1>7, <1>8, <1>9, <1>10, <1>11, <1>12 DEF BlockInv

\* An empty key-value store takes its chain from the tables.
LEMMA OpenedEmpty ==
    ASSUME TypeInv, TypeInv', AncientInv, BlockInv, Opened, Empty,
           canon' = canon, w' = Idle, trn' = Idle, rew' = Idle
    PROVE  BlockInv'
  <1>1. /\ Shortest \in Nat /\ Shortest \in 0..(Height + 1) /\ Shortest > 0
        /\ \A t \in Names : Shortest <= Len(table[t]) /\ Len(table[t]) \in Nat
        /\ dbFull = 0 /\ HdrFound = Shortest - 1 /\ FastFound = Shortest - 1
    BY ShortestStored, NumbersAre DEF TypeInv, Empty, HdrFound, FastFound
  <1>2. HeadsBehind = {}
    <2>1. \A h : h \in {FastFound} \cup ({dbFull} \ {0}) => h = Shortest - 1
      BY <1>1
    <2> QED BY <1>1, <2>1 DEF HeadsBehind, Behind
  <1>3. /\ KeptItems = Shortest /\ hdr' = Shortest - 1 /\ fast' = Shortest - 1
        /\ dbFull' = 0 /\ full' = 0 /\ st' = "open"
        /\ stale' = {i \in stale : i < Shortest}
        /\ chain' = [i \in Numbers |-> IF i < Shortest THEN HashFound[i][2] ELSE chain[i]]
    <2>1. KeptItems = Shortest
      BY <1>2 DEF KeptItems
    <2>2. Found(HdrFound) = HdrFound /\ Found(FastFound) = FastFound /\ Found(dbFull) = dbFull
      BY <1>2 DEF Found
    <2>3. /\ st' = "open" /\ hdr' = Found(HdrFound) /\ fast' = Found(FastFound)
          /\ dbFull' = Found(dbFull) /\ full' = dbFull' /\ stale' = {i \in stale : i < KeptItems}
          /\ chain' = [i \in Numbers |-> IF Empty /\ i < Shortest THEN HashFound[i][2] ELSE chain[i]]
      BY DEF Opened
    <2>4. chain' = [i \in Numbers |-> IF i < Shortest THEN HashFound[i][2] ELSE chain[i]]
      BY <2>3
    <2> QED BY <1>1, <2>1, <2>2, <2>3, <2>4
  <1>4. \A t \in Names : /\ Len(table'[t]) = Shortest /\ tsync'[t] = Shortest
                         /\ \A j \in 1..Shortest : table'[t][j] = table[t][j]
    BY <1>3, OpenedTables DEF TypeInv
  <1>5. Numbers \subseteq Nat /\ 0 \in Numbers
    BY NumbersAre
  <1>6. ASSUME NEW n \in Numbers, n < Shortest, NEW t \in Names
        PROVE  table'[t][n + 1] = TheBlock(n)'
    <2>1. "hashes" \in Names /\ n + 1 \in 1..Shortest /\ n + 1 \in 1..Len(table[t])
          /\ n + 1 <= Len(table["hashes"]) /\ n + 1 - 1 = n
      BY <1>1, <1>5, <1>6, TablesNamed
    <2>2. table[t][n + 1] = table["hashes"][n + 1] /\ table[t][n + 1][1] = n
      <3>1. table[t][n + 1] = table["hashes"][n + 1]
        BY <2>1 DEF AncientInv, ItemsAgree
      <3>2. PICK j \in 1..Len(table[t]) : j = n + 1
        BY <2>1
      <3>3. table[t][j][1] = j - 1
        BY DEF AncientInv, ItemsAgree
      <3> QED BY <1>5, <3>1, <3>2, <3>3
    <2>3. HashFound[n] \in Stored /\ HashFound[n] = table["hashes"][n + 1]
      BY <1>6, OpenFinds DEF TypeInv
    <2>4. HashFound[n] = <<HashFound[n][1], HashFound[n][2]>>
      BY <2>3 DEF Stored
    <2>5. HashFound[n] = <<n, chain'[n]>>
      BY <1>3, <1>6, <2>2, <2>3, <2>4
    <2> QED BY <1>4, <2>1, <2>2, <2>3, <2>5 DEF TheBlock
  <1>7. ASSUME NEW n \in Numbers
        PROVE  /\ OnChain(n)' <=> n < Shortest
               /\ n < Shortest => InTables(n)'
               /\ Agrees(n)'
    <2>1. OnChain(n)' <=> n < Shortest
      BY <1>1, <1>3, <1>5 DEF OnChain
    <2>2. n < Shortest => InTables(n)'
      BY <1>4, <1>6 DEF InTables
    <2>3. Agrees(n)'
      BY <1>4, <1>6 DEF Agrees
    <2> QED BY <2>1, <2>2, <2>3
  <1>8. Covered' /\ Strays'
    BY <1>7 DEF Covered, Strays
  <1>9. Agreeing'
    <2>1. 0 \notin stale /\ canon[0] = chain[0] /\ Agrees(0)
      <3>1. OnChain(0)
        BY NumbersKnown DEF OnChain
      <3> QED BY <1>5, <3>1 DEF BlockInv, Agreeing
    <2>2. chain'[0] = HashFound[0][2] /\ HashFound[0] = table["hashes"][0 + 1]
      BY <1>1, <1>3, <1>5, OpenFinds DEF TypeInv
    <2>3. table["hashes"][0 + 1] = <<0, chain[0]>>
      <3>1. "hashes" \in Names /\ 0 < Len(table["hashes"])
        BY <1>1, TablesNamed
      <3> QED BY <2>1, <3>1 DEF Agrees, TheBlock
    <2>4. chain'[0] = chain[0] /\ 0 \notin stale'
      BY <1>3, <2>1, <2>2, <2>3
    <2> QED BY <1>7, <2>1, <2>4 DEF Agreeing
  <1>10. HeadsKnown' /\ Pending'
    <2>1. \A n \in Numbers : ~(fast' < n /\ n <= hdr')
      BY <1>1, <1>3, <1>5
    <2> QED BY <1>1, <1>3, <2>1 DEF HeadsKnown, Pending
  <1>11. Ended'
    BY <1>4, <1>7 DEF Ended
  <1>12. Short'
    <2> SUFFICES ASSUME NEW t \in Names PROVE Len(table'[t]) <= fast' + 2
      BY DEF Short
    <2> QED BY <1>1, <1>3, <1>4
  <1>13. Syncing' /\ Freezing' /\ Held' /\ Rewinding' /\ st' # "refused"
    BY <1>3 DEF Syncing, Freezing, Held, Rewinding, OfSync, OfFreezer, Idle
  <1> QED BY <1>8, <1>9, <1>10, <1>11, <1>12, <1>13 DEF BlockInv

\* What rolls back stops at b if the hashes above b are the chain's.
LEMMA RolledBackAbove ==
    ASSUME NEW h \in Numbers, NEW low \in Nat, NEW b \in Nat, low <= b, low < h, NEW hash,
           \A n \in Numbers : b < n /\ n <= h => hash[n] = <<n, chain[n]>>
    PROVE  RolledBack(h, low, hash) \in low..b /\ RolledBack(h, low, hash) <= h
  <1> DEFINE S == {low} \cup {n \in (low + 1)..h : hash[n] # <<n, chain[n]>>}
  <1>1. h \in Nat /\ h \in 0..Height /\ Height \in Nat /\ Numbers = 0..Height
    BY NumbersAre
  <1>2. S \subseteq 0..h /\ low \in S
    BY <1>1
  <1>3. \A n \in S : n <= b
    <2> SUFFICES ASSUME NEW n \in (low + 1)..h, hash[n] # <<n, chain[n]>> PROVE n <= b
      OBVIOUS
    <2>1. n \in Numbers /\ n \in Nat /\ n <= h
      BY <1>1
    <2> QED BY <2>1
  <1>4. Max(S) \in S /\ \A m \in S : Max(S) >= m
    BY <1>1, <1>2, MaxOfNats
  <1>5. RolledBack(h, low, hash) = Max(S)
    BY <1>1 DEF RolledBack
  <1> HIDE DEF S
  <1>6. Max(S) \in 0..h /\ Max(S) <= b /\ Max(S) >= low
    BY <1>2, <1>3, <1>4
  <1> QED BY <1>1, <1>5, <1>6

\* The hashes found on start-up are the chain's, but for the number after the
\* fast block when there is no head block.
LEMMA HashesFound ==
    ASSUME TypeInv, BlockInv, NEW n \in Numbers, OnChain(n), fast < n, n # fast + 1 \/ dbFull # 0
    PROVE  HashFound[n] = <<n, chain[n]>>
  <1>1. fast \in Nat /\ n \in Nat
    BY NumbersKnown, NumbersAre
  <1>2. Agrees(n)
    <2>1. ~(n <= fast \/ (n = fast + 1 /\ dbFull = 0))
      BY <1>1
    <2> QED BY <2>1 DEF BlockInv, Strays
  <1>3. /\ Shortest \in Nat /\ \A t \in Names : Shortest <= Len(table[t]) /\ Len(table[t]) \in Nat
        /\ \E t \in Names : Shortest = Len(table[t])
    BY ShortestStored DEF TypeInv
  <1>4. CASE n < Shortest
    <2>1. HashFound[n] = table["hashes"][n + 1]
      BY <1>4, OpenFinds DEF TypeInv
    <2>2. "hashes" \in Names /\ n < Len(table["hashes"])
      BY <1>1, <1>3, <1>4, TablesNamed
    <2> QED BY <1>2, <2>1, <2>2 DEF Agrees, TheBlock
  <1>5. CASE ~(n < Shortest)
    <2>1. PICK t \in Names : Shortest = Len(table[t])
      BY <1>3
    <2>2. TheBlock(n) = <<n, canon[n]>>
      BY <1>1, <1>3, <1>5, <2>1, KeptAbove
    <2>3. HashFound[n] = <<n, canon[n]>>
      BY <1>5 DEF HashFound
    <2> QED BY <2>2, <2>3 DEF TheBlock
  <1> QED BY <1>4, <1>5

\* Nothing is behind the tables.
LEMMA OpenedAsItWas ==
    ASSUME TypeInv, TypeInv', AncientInv, BlockInv, Opened, ~Empty, HeadsBehind = {},
           canon' = canon, kvHeader' = kvHeader, kvBody' = kvBody, w' = Idle, trn' = Idle, rew' = Idle
    PROVE  BlockInv'
  <1>1. /\ KeptItems = Shortest /\ HdrFound = hdr /\ FastFound = fast
        /\ Found(hdr) = hdr /\ Found(fast) = fast /\ Found(dbFull) = dbFull
    BY DEF KeptItems, HdrFound, FastFound, Found
  <1>2. /\ hdr' = hdr /\ fast' = fast /\ dbFull' = dbFull /\ full' = dbFull /\ st' = "open"
        /\ stale' = {i \in stale : i < Shortest}
    BY <1>1 DEF Opened
  <1>3. chain' = chain
    <2>1. chain' = [i \in Numbers |-> chain[i]]
      BY DEF Opened
    <2> QED BY <2>1 DEF TypeInv, StoreTyped
  <1>4. /\ Shortest \in Nat /\ \A t \in Names : Shortest <= Len(table[t]) /\ Len(table[t]) \in Nat
        /\ \E t \in Names : Shortest = Len(table[t])
    BY ShortestStored DEF TypeInv
  <1>5. \A t \in Names : /\ Len(table'[t]) = Shortest /\ tsync'[t] = Shortest
                         /\ \A j \in 1..Shortest : table'[t][j] = table[t][j]
    BY <1>1, OpenedTables DEF TypeInv
  <1>6. hdr \in Nat /\ fast \in Nat /\ full \in Nat /\ dbFull \in Nat /\ Numbers \subseteq Nat
    BY NumbersKnown, NumbersAre
  <1>7. /\ dbFull \in {0, full} /\ fast <= hdr /\ (full > 0 => fast <= full)
        /\ (full > 0 /\ dbFull = 0 => fast = full)
    BY DEF BlockInv, HeadsKnown
  <1>8. Shortest <= fast + 1
    <2>1. ~(fast + 1 < Shortest)
      BY <1>1 DEF HeadsBehind, Behind
    <2> QED BY <1>4, <1>6, <2>1
  <1>9. \A n \in Numbers : (OnChain(n)' => OnChain(n)) /\ (WithBody(n)' => WithBody(n))
    BY <1>2, <1>6, <1>7 DEF OnChain, WithBody
  <1>10. \A n \in Numbers : OnChain(n)' /\ InTables(n) /\ Shortest <= n => Kept(n)
    <2> SUFFICES ASSUME NEW n \in Numbers, InTables(n), Shortest <= n PROVE FALSE
      OBVIOUS
    <2>1. PICK t \in Names : Shortest = Len(table[t])
      BY <1>4
    <2>2. n < tsync[t] /\ tsync[t] <= Len(table[t]) /\ tsync[t] \in Nat
      BY NumbersKnown DEF InTables
    <2> QED BY <1>4, <1>6, <2>1, <2>2
  <1>11. dbFull' = 0 => \A n \in Numbers : fast < n /\ n <= hdr' => Kept(n)
    BY <1>2 DEF BlockInv, Pending
  <1> QED BY <1>2, <1>3, <1>4, <1>5, <1>6, <1>7, <1>8, <1>9, <1>10, <1>11, OpenedShorter

\* It is the fast block that the tables run ahead of.
LEMMA FastBlockBehind ==
    ASSUME TypeInv, BlockInv, ~Empty, HeadsBehind # {}
    PROVE  Lowest = fast /\ fast + 1 < Shortest /\ KeptItems = fast + 1
  <1>1. FastFound = fast
    BY DEF FastFound
  <1>2. HeadsBehind = {h \in {fast} \cup ({dbFull} \ {0}) : h + 1 < Shortest}
    BY <1>1 DEF HeadsBehind, Behind
  <1>3. /\ Lowest \in HeadsBehind /\ \A h \in HeadsBehind : Lowest <= h
        /\ Lowest + 1 < Shortest /\ KeptItems = Lowest + 1 /\ Shortest \in Nat
    BY OpenFinds, ShortestStored DEF TypeInv
  <1>4. /\ fast \in Nat /\ dbFull \in Nat /\ full \in Nat
        /\ dbFull # 0 => fast <= dbFull
    BY NumbersKnown DEF BlockInv, HeadsKnown
  <1>5. Lowest = fast \/ (Lowest = dbFull /\ dbFull # 0)
    BY <1>2, <1>3
  <1>6. Lowest = dbFull /\ dbFull # 0 => fast \in HeadsBehind
    BY <1>2, <1>3, <1>4
  <1>7. Lowest = fast
    BY <1>3, <1>4, <1>5, <1>6
  <1> QED BY <1>3, <1>7

\* Start-up goes back to the fast block, or to the header after it.
LEMMA OpenedRolledBack ==
    ASSUME TypeInv, TypeInv', AncientInv, BlockInv, Opened, ~Empty, HeadsBehind # {},
           canon' = canon, kvHeader' = kvHeader, kvBody' = kvBody, w' = Idle, trn' = Idle, rew' = Idle
    PROVE  BlockInv'
  <1>1. /\ Lowest = fast /\ fast + 1 < Shortest /\ KeptItems = fast + 1
        /\ HdrFound = hdr /\ FastFound = fast
    BY FastBlockBehind DEF HdrFound, FastFound
  <1>2. /\ hdr \in Nat /\ fast \in Nat /\ full \in Nat /\ dbFull \in Nat /\ Shortest \in Nat
        /\ hdr \in Numbers /\ fast \in Numbers /\ full \in Numbers /\ dbFull \in Numbers
        /\ Numbers \subseteq Nat
    BY NumbersKnown, NumbersAre, ShortestStored DEF TypeInv, HeadsTyped
  <1>3. /\ dbFull \in {0, full} /\ fast <= hdr /\ (full > 0 => fast <= full)
        /\ (full > 0 /\ dbFull = 0 => fast = full)
    BY DEF BlockInv, HeadsKnown
  <1>4. /\ hdr' = RolledBack(hdr, fast, HashFound) /\ fast' = RolledBack(fast, fast, HashFound)
        /\ dbFull' = RolledBack(dbFull, fast, HashFound) /\ full' = dbFull' /\ st' = "open"
        /\ stale' = {i \in stale : i < fast + 1}
    BY <1>1 DEF Opened, Found
  <1>5. chain' = chain
    <2>1. chain' = [i \in Numbers |-> chain[i]]
      BY DEF Opened
    <2> QED BY <2>1 DEF TypeInv, StoreTyped
  <1>6. fast' = fast
    BY <1>2, <1>4, RolledBackTo
  <1>7. fast <= hdr' /\ hdr' <= hdr /\ hdr' <= fast + 1 /\ (dbFull # 0 => hdr' = fast) /\ hdr' \in Nat
    <2>1. CASE hdr <= fast
      <3>1. hdr' = hdr
        BY <1>2, <1>4, <2>1, RolledBackTo
      <3> QED BY <1>2, <1>3, <2>1, <3>1
    <2>2. CASE fast < hdr /\ dbFull = 0
      <3>1. \A n \in Numbers : fast + 1 < n /\ n <= hdr => HashFound[n] = <<n, chain[n]>>
        <4> TAKE n \in Numbers
        <4>1. fast + 1 < n /\ n <= hdr => OnChain(n) /\ fast < n /\ n # fast + 1
          BY <1>2 DEF OnChain
        <4> QED BY <4>1, HashesFound
      <3>2. fast <= fast + 1 /\ fast + 1 \in Nat
        BY <1>2
      <3>3. RolledBack(hdr, fast, HashFound) \in fast..(fast + 1) /\ RolledBack(hdr, fast, HashFound) <= hdr
        BY <1>2, <2>2, <3>1, <3>2, RolledBackAbove
      <3> QED BY <1>2, <1>4, <2>2, <3>3
    <2>3. CASE fast < hdr /\ dbFull # 0
      <3>1. \A n \in Numbers : fast < n /\ n <= hdr => HashFound[n] = <<n, chain[n]>>
        <4> TAKE n \in Numbers
        <4>1. fast < n /\ n <= hdr => OnChain(n) /\ fast < n
          BY <1>2 DEF OnChain
        <4> QED BY <2>3, <4>1, HashesFound
      <3>2. fast <= fast
        BY <1>2
      <3>3. RolledBack(hdr, fast, HashFound) \in fast..fast /\ RolledBack(hdr, fast, HashFound) <= hdr
        BY <1>2, <2>3, <3>1, <3>2, RolledBackAbove
      <3> QED BY <1>2, <1>4, <2>3, <3>3
    <2> QED BY <1>2, <2>1, <2>2, <2>3
  <1>8. /\ dbFull = 0 => dbFull' = 0
        /\ dbFull # 0 => dbFull' = fast
    <2>1. CASE dbFull <= fast
      <3>1. dbFull' = dbFull
        BY <1>2, <1>4, <2>1, RolledBackTo
      <3> QED BY <1>2, <1>3, <2>1, <3>1
    <2>2. CASE fast < dbFull
      <3>1. \A n \in Numbers : fast < n /\ n <= dbFull => HashFound[n] = <<n, chain[n]>>
        <4> TAKE n \in Numbers
        <4>1. fast < n /\ n <= dbFull => OnChain(n) /\ fast < n /\ dbFull # 0
          BY <1>2, <1>3 DEF OnChain
        <4> QED BY <4>1, HashesFound
      <3>2. fast <= fast
        BY <1>2
      <3>3. RolledBack(dbFull, fast, HashFound) \in fast..fast
        BY <1>2, <2>2, <3>1, <3>2, RolledBackAbove
      <3> QED BY <1>2, <1>4, <2>2, <3>3
    <2> QED BY <1>2, <2>1, <2>2
  <1>9. \A t \in Names : /\ Len(table'[t]) = fast + 1 /\ tsync'[t] = fast + 1 /\ fast + 1 <= Len(table[t])
                         /\ \A j \in 1..(fast + 1) : table'[t][j] = table[t][j]
    <2>1. \A t \in Names : Shortest <= Len(table[t]) /\ Len(table[t]) \in Nat
      BY ShortestStored DEF TypeInv
    <2>2. \A t \in Names : fast + 1 <= Len(table[t])
      BY <1>1, <1>2, <2>1
    <2> QED BY <1>1, <2>2, OpenedTables DEF TypeInv
  <1>10. full' \in Nat /\ full' <= fast /\ full' = dbFull' /\ (full' > 0 => full' = fast)
    BY <1>2, <1>4, <1>8
  <1>11. \A n \in Numbers : (OnChain(n)' => OnChain(n)) /\ (WithBody(n)' => WithBody(n))
    BY <1>2, <1>3, <1>6, <1>7, <1>10 DEF OnChain, WithBody
  <1>12. ASSUME NEW n \in Numbers, fast < n, n <= hdr'
         PROVE  Kept(n)
    <2>1. dbFull = 0 /\ n <= hdr
      BY <1>2, <1>7, <1>12
    <2> QED BY <1>12, <2>1 DEF BlockInv, Pending
  <1>13. \A n \in Numbers : OnChain(n)' /\ InTables(n) /\ fast + 1 <= n => Kept(n)
    <2> TAKE n \in Numbers
    <2>1. OnChain(n)' /\ fast + 1 <= n => fast < n /\ n <= hdr'
      BY <1>2, <1>7, <1>10 DEF OnChain
    <2> QED BY <1>12, <2>1
  <1>14. fast + 1 \in Nat /\ fast + 1 <= fast + 1 /\ (full' > 0 => fast <= full')
    BY <1>2, <1>10
  <1> QED BY <1>4, <1>5, <1>6, <1>7, <1>9, <1>10, <1>11, <1>12, <1>13, <1>14, OpenedShorter

LEMMA OpenCovers ==
    ASSUME TypeInv, TypeInv', AncientInv, BlockInv, Open
    PROVE  BlockInv'
  <1>1. /\ st = "closed" /\ canon' = canon /\ kvHeader' = kvHeader /\ kvBody' = kvBody
        /\ w' = w /\ trn' = trn /\ rew' = rew /\ Opened
    BY NotRefused, OpenSays
  <1>2. w = Idle /\ trn = Idle /\ rew = Idle
    BY <1>1 DEF AncientInv, Typed
  <1>3. CASE Empty
    BY <1>1, <1>2, <1>3, OpenedEmpty
  <1>4. CASE ~Empty /\ HeadsBehind = {}
    BY <1>1, <1>2, <1>4, OpenedAsItWas
  <1>5. CASE ~Empty /\ HeadsBehind # {}
    BY <1>1, <1>2, <1>5, OpenedRolledBack
  <1> QED BY <1>3, <1>4, <1>5

-----------------------------------------------------------------------------
(* All steps together *)

\* Until a rewind goes too deep, the two stores have the chain between them.
StoresInv == TypeInv /\ (~raced => AncientInv /\ BlockInv)

LEMMA StoresInit == Init => StoresInv
  <1> SUFFICES ASSUME Init PROVE TypeInv /\ AncientInv /\ BlockInv
    BY DEF StoresInv
  <1>1. TypeInv /\ AncientInv
    BY TypeInit, InitHolds DEF FreezerInv, Init
  <1> DEFINE v == CHOOSE x \in Versions : TRUE
  <1>2. /\ table = [t \in Names |-> <<>>]
        /\ canon = [n \in Numbers |-> IF n = 0 THEN v ELSE None] /\ chain = canon
        /\ kvHeader = {<<0, v>>} /\ kvBody = kvHeader
        /\ hdr = 0 /\ fast = 0 /\ full = 0 /\ dbFull = 0 /\ stale = {}
        /\ st = "open" /\ w = Idle /\ trn = Idle /\ rew = Idle
    BY DEF Init
  <1> HIDE DEF v
  <1>3. \A t \in Names : Len(table[t]) = 0
    BY <1>2
  <1>4. \A n \in Numbers : OnChain(n) <=> n = 0
    BY <1>2, NumbersAre DEF OnChain
  <1>5. canon[0] = v /\ chain[0] = v /\ 0 \in Numbers
    BY <1>2, NumbersAre
  <1>6. Kept(0) /\ \A n \in Numbers : Agrees(n)
    <2>1. \A n \in Numbers, t \in Names : ~(n < Len(table[t]))
      BY <1>3, NumbersAre
    <2> QED BY <1>2, <1>5, <2>1 DEF Kept, TheBlock, Agrees
  <1>7. Covered /\ Agreeing /\ HeadsKnown /\ Pending /\ Strays
    <2>1. \A n \in Numbers : ~(0 < n /\ n <= 0)
      BY NumbersAre
    <2> QED BY <1>2, <1>4, <1>5, <1>6, <2>1 DEF Covered, Agreeing, HeadsKnown, Pending, Strays
  <1>8. Ended /\ Short
    <2>1. \A n \in Numbers, t \in Names : ~(n < Len(table[t]))
      BY <1>3, NumbersAre
    <2> QED BY <1>2, <1>3, <2>1 DEF Ended, Short
  <1>9. Syncing /\ Freezing /\ Held /\ Rewinding
    BY <1>2 DEF Syncing, Freezing, Held, Rewinding, OfSync, OfFreezer, Idle
  <1> QED BY <1>1, <1>2, <1>7, <1>8, <1>9 DEF BlockInv

LEMMA BlocksStay ==
    ASSUME TypeInv, TypeInv', AncientInv, AncientInv', BlockInv, Next, ~raced'
    PROVE  BlockInv'
  <1>1. CASE Import \/ ImportHeader
    BY <1>1, ImportCovers, ImportHeaderCovers
  <1>2. CASE FreezeCheck \/ FreezeRead \/ FreezeSync \/ FreezeDeleteCanonical \/ FreezeDeleteSide
    BY <1>2, FreezeCheckCovers, FreezeReadCovers, FreezeSyncCovers, FreezeDeleteCanonicalCovers,
       FreezeDeleteSideCovers
  <1>3. CASE AppendAncient \/ AppendAncientFails
    BY <1>3, AppendAncientCovers, AppendAncientFailsCovers
  <1>4. CASE TruncateTable \/ TruncateDone
    BY <1>4, TruncateTableCovers, TruncateDoneCovers
  <1>5. CASE SetHead \/ SetHeadStep \/ SetHeadDone
    BY <1>5, SetHeadCovers, SetHeadStepCovers, SetHeadDoneCovers
  <1>6. CASE InsertReceiptChain \/ WriteAncient \/ WriteAncientStops \/ AncientWritten
    BY <1>6, InsertReceiptChainCovers, WriteAncientCovers, WriteAncientStopsCovers, AncientWrittenCovers
  <1>7. CASE UpdateHead \/ Undo \/ Undone \/ DeleteWritten \/ DeleteBeside
    BY <1>7, UpdateHeadCovers, UndoCovers, UndoneCovers, DeleteWrittenCovers, DeleteBesideCovers
  <1>8. CASE WriteLive \/ UpdateLiveHead \/ FastSyncCommitHead
    BY <1>8, WriteLiveCovers, UpdateLiveHeadCovers, FastSyncCommitHeadCovers
  <1>9. CASE Rollback \/ RollbackDone
    BY <1>9, RollbackCovers, RollbackDoneCovers
  <1>10. CASE Crash \/ Open
    BY <1>10, CrashCovers, OpenCovers
  <1> QED BY <1>1, <1>2, <1>3, <1>4, <1>5, <1>6, <1>7, <1>8, <1>9, <1>10, Zenon DEF Next

LEMMA StoresStay ==
    ASSUME StoresInv, [Next]_vars
    PROVE  StoresInv'
  <1>1. TypeInv'
    BY TypeStays DEF StoresInv
  <1>2. FreezerInv
    BY DEF StoresInv, FreezerInv
  <1>3. FreezerInv'
    BY <1>2, NextKeeps
  <1> SUFFICES ASSUME ~raced' PROVE BlockInv'
    BY <1>1, <1>3 DEF StoresInv, FreezerInv
  <1>4. CASE Next
    <2>1. ~raced
      BY <1>4, RacedStays, Zenon
    <2> QED BY <1>1, <1>3, <1>4, <2>1, BlocksStay DEF StoresInv, FreezerInv
  <1>5. CASE UNCHANGED vars
    <2>1. /\ table' = table /\ tsync' = tsync /\ frozen' = frozen /\ canon' = canon /\ kvHeader' = kvHeader
          /\ kvBody' = kvBody /\ hdr' = hdr /\ fast' = fast /\ full' = full /\ dbFull' = dbFull
          /\ st' = st /\ w' = w /\ trn' = trn /\ rew' = rew /\ chain' = chain /\ stale' = stale
          /\ raced' = raced
      BY <1>5 DEF vars, tables, kv, heads, control, history
    <2>2. TypeInv /\ BlockInv /\ BlocksInv /\ WorkInv
      BY <2>1, TwoParts DEF StoresInv
    <2>3. BlocksInv'
      BY <1>1, <2>1, <2>2, NumbersKnown, SameBlocksKeep DEF SameBlocks
    <2>4. Ended' /\ Short' /\ Rewinding'
      BY <2>1, <2>2 DEF WorkInv, Ended, Short, Rewinding, OnChain, OfSync, Filling
    <2>5. Syncing' /\ Freezing' /\ Held'
      BY <2>1, <2>2 DEF WorkInv, Syncing, Freezing, Held, OfSync, OfFreezer, Filling, Ancients, TheBlock
    <2> QED BY <2>1, <2>2, <2>3, <2>4, <2>5, TwoPartsNext DEF WorkInv
  <1> QED BY <1>4, <1>5

\* What the accessors then answer.
LEMMA StoresRead == StoresInv => NoBlockLost
  <1> SUFFICES ASSUME StoresInv PROVE NoBlockLost
    OBVIOUS
  <1>1. TypeInv /\ TypeOK
    BY TypeInvTypeOK DEF StoresInv
  <1>2. OpensAgain
    BY DEF StoresInv, BlockInv, OpensAgain
  <1>3. BlocksReadable
    <2> SUFFICES ASSUME AncientInv, BlockInv, NEW n \in (0..hdr) \ stale
                 PROVE  /\ ReadCanonicalHash(n) = TheBlock(n)
                        /\ ReadHeader(TheBlock(n)) = TheBlock(n)
                        /\ n <= Max({fast, full}) => ReadBody(TheBlock(n)) = TheBlock(n)
      BY DEF StoresInv, BlocksReadable, TheBlock
    <2>1. n \in Numbers /\ OnChain(n)
      BY <1>1, NumbersKnown, NumbersAre DEF OnChain
    <2>2. Agrees(n)
      BY <2>1 DEF BlockInv, Agreeing
    <2>3. n <= Max({fast, full}) => WithBody(n)
      <3>1. {fast, full} \subseteq 0..Height /\ {fast, full} # {} /\ Height \in Nat
        BY <1>1, NumbersKnown, NumbersAre
      <3>2. Max({fast, full}) \in {fast, full}
        BY <3>1, MaxOfNats
      <3>3. Max({fast, full}) = fast \/ Max({fast, full}) = full
        BY <3>2
      <3> QED BY <3>3 DEF WithBody
    <2> QED BY <1>1, <2>1, <2>2, <2>3, ChainReads
  <1> QED BY <1>1, <1>2, <1>3 DEF NoBlockLost

(* Whatever the heights, tables, batch limits and threshold are, and       *)
(* however freezing, fast sync, rewinds, failed writes, crashes and starts *)
(* interleave, until a rewind goes below what the appending goroutine is   *)
(* at: every number up to the heads that no rewind left stale in the       *)
(* tables reads as its canonical block, header and, up to the fast block   *)
(* and block, body, and the database is not refused when it is opened      *)
(* again (freeze deletes what it synced; the accessors ask both stores;    *)
(* NewBlockChain).                                                         *)
THEOREM BlocksNeverLost == Spec => []NoBlockLost
  <1>1. Init => StoresInv
    BY StoresInit
  <1>2. StoresInv /\ [Next]_vars => StoresInv'
    BY StoresStay
  <1>3. StoresInv => NoBlockLost
    BY StoresRead
  <1> QED BY <1>1, <1>2, <1>3, PTL DEF Spec
=============================================================================
