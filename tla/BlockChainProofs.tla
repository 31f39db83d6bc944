-------------------------- MODULE BlockChainProofs --------------------------
(***************************************************************************)
(* Proofs about BlockChain, for every tree of blocks, every choice of      *)
(* invalid blocks and every sequence of imports, rewinds and crashes.      *)
(*                                                                         *)
(* The inductive invariant IInv says what each point of a call has secured *)
(* for the batches that are still to come.  What the head block promises   *)
(* to those who read the chain through it (its transactions can be looked  *)
(* up, the last head event named it, no imported block outweighs it, its   *)
(* state can be opened) has an inductive invariant each, on top of IInv.   *)
(***************************************************************************)
EXTENDS BlockChain, ChainTreeProofs

\* The marker of the head block is the head block in memory.
HeadsAgree == headBlock = currentBlock

\* Roots of the states that are available.
StateRoots == disk \cup MemoryRoots

\* Block b, numbered n, is a ghost or below one.
BelowGhost(b, n) == \E g \in ghosts : n <= Number[g] /\ Ancestor[g][n] = b

\* On the way to b no block was refused in vain.
Clean(b) == \A n \in 0..Number[b] : Ancestor[b][n] \in Invalid => BelowGhost(Ancestor[b][n], n)

\* Only accepted blocks with a clean chain have left a state behind.
StateInv == \A r \in StateRoots : \E b \in Header \ Invalid : r = Root[b] /\ Clean(b)

\* A stored block whose chain is not clean names a state that no accepted
\* block leaves, save itself.
BlocksInv ==
    \A b \in blocks : Clean(b) \/ \A c \in Header \ (Invalid \cup {b}) : Root[c] # Root[b]

PastInv == StateInv /\ BlocksInv

\* An insertion stands in its chain; a block whose state is committed next was
\* accepted, and like one about to become the head it is stored and its chain
\* is clean.
CallInv ==
    /\ pc \in {"import", "rewrite", "execute", "side"} =>
          1 <= next /\ next <= Number[tip] + 1
    /\ pc \in {"commit", "reorg", "head"} =>
          /\ 1 <= next /\ next <= Number[tip]
          /\ Current \in blocks /\ Clean(Current)
    /\ pc = "commit" => Current \notin Invalid

\* Number n names the ancestor of the chain being inserted, which is stored.
OnNewChain(n) == canonical[n] = Ancestor[tip][n] /\ canonical[n] \in blocks

\* Below walk the index already is the new chain, from walk on its blocks are
\* stored, and the current block is not below the last block written.
ReorgInv ==
    pc = "reorg" =>
        /\ 1 <= walk /\ walk <= Number[currentBlock] + 1
        /\ \A n \in Numbers : n < walk /\ n < next => OnNewChain(n)
        /\ \A n \in Numbers : walk <= n /\ n < next => Ancestor[tip][n] \in blocks

\* Below the block about to become the head the index is its chain.
HeadInv == pc = "head" => \A n \in Numbers : n < next => OnNewChain(n)

\* A rewind has batched blocks above both heads only.
RewindInv ==
    /\ pc # "rewind" => batch = {}
    /\ \A b \in batch : Number[b] > Number[currentBlock] /\ Number[b] > Number[currentHeader]

\* What is said of the canonical index.
IndexInv == HeadsAgree /\ HeadChainCanonical /\ HeaderOnChain /\ NoInvalidCanonical

IInv == TypeOK /\ IndexInv /\ PastInv /\ CallInv /\ ReorgInv /\ HeadInv /\ RewindInv

-----------------------------------------------------------------------------
(* Facts the steps have in common.                                         *)

\* The range of what says where an insertion stands.
LEMMA Position ==
    ASSUME TypeOK
    PROVE  Number[tip] \in 0..MaxNumber /\ MaxNumber \in Nat /\ next \in Nat /\ tip \in Header
  <1>1. tip \in Header /\ next \in 0 .. MaxNumber + 1
    BY DEF TypeOK
  <1> QED BY <1>1, HeaderTree DEF Numbers

\* The block an insertion stands at.
LEMMA CurrentInChain ==
    ASSUME tip \in Header, next \in Nat, 1 <= next, next <= Number[tip]
    PROVE  /\ next \in Numbers /\ next - 1 \in Numbers
           /\ Current \in Header /\ Number[Current] = next
           /\ Parent(Current) \in Header /\ Number[Parent(Current)] = next - 1
           /\ Parent(Current) = Ancestor[tip][next - 1]
           /\ \A n \in 0..next : Ancestor[Current][n] = Ancestor[tip][n]
  <1>1. Number[tip] \in 0..MaxNumber /\ MaxNumber \in Nat
    BY HeaderTree DEF Numbers
  <1>2. next \in Numbers /\ next - 1 \in Numbers /\ next - 1 \in 0..next
    BY <1>1 DEF Numbers
  <1>3. /\ Current \in Header /\ Number[Current] = next
        /\ \A n \in 0..next : Ancestor[Current][n] = Ancestor[tip][n]
    BY <1>2, Ancestry DEF Current
  <1>4. Number[Current] > 0
    BY <1>3
  <1>5. Parent(Current) = Ancestor[tip][next - 1]
    BY <1>2, <1>3 DEF Parent
  <1> QED BY <1>2, <1>3, <1>4, <1>5, ParentNumber

\* Steps that leave index and heads alone and delete no block.
LEMMA IndexFrame ==
    ASSUME TypeOK, IndexInv, blocks \subseteq blocks', ghosts \subseteq ghosts',
           UNCHANGED <<canonical, headVars>>
    PROVE  IndexInv'
  BY DEF IndexInv, HeadsAgree, HeadChainCanonical, HeaderOnChain, NoInvalidCanonical, headVars

\* Ghosts are never forgotten, so a clean chain stays clean.
LEMMA StaysClean ==
    ASSUME NEW b, Clean(b), ghosts \subseteq ghosts'
    PROVE  Clean(b)'
  BY DEF Clean, BelowGhost

\* Steps that store no block and commit no state.
LEMMA PastFrame ==
    ASSUME PastInv, StateRoots' \subseteq StateRoots, blocks' \subseteq blocks, ghosts \subseteq ghosts'
    PROVE  PastInv'
  <1>1. StateInv'
    BY StaysClean DEF PastInv, StateInv
  <1>2. BlocksInv'
    BY StaysClean DEF PastInv, BlocksInv
  <1> QED BY <1>1, <1>2 DEF PastInv

\* An accepted block on top of a clean chain has a clean chain.
LEMMA CleanChild ==
    ASSUME NEW b \in Header, Number[b] > 0, b \notin Invalid, Clean(Parent(b))
    PROVE  Clean(b)
  <1>1. /\ Number[b] \in Nat /\ Ancestor[b][Number[b]] = b
        /\ Number[Parent(b)] = Number[b] - 1
        /\ \A m \in 0 .. Number[b] - 1 : Ancestor[Parent(b)][m] = Ancestor[b][m]
    BY NumberRange, HeaderTree, ParentNumber
  <1>2. ASSUME NEW n \in 0..Number[b], Ancestor[b][n] \in Invalid
        PROVE  BelowGhost(Ancestor[b][n], n)
    <2>1. n \in 0..Number[Parent(b)] /\ Ancestor[Parent(b)][n] = Ancestor[b][n]
      BY <1>1, <1>2
    <2> QED BY <1>2, <2>1 DEF Clean
  <1> QED BY <1>2 DEF Clean

\* A stored block whose state is available has a clean chain: unless that state
\* was left by the block itself, which then was accepted, the block is a ghost.
LEMMA KnownClean ==
    ASSUME PastInv, NEW b \in blocks, HasState(b)
    PROVE  Clean(b)
  <1>1. PICK c \in Header \ Invalid : Root[b] = Root[c] /\ Clean(c)
    BY DEF PastInv, StateInv, StateRoots, HasState
  <1>2. CASE c = b
    BY <1>1, <1>2
  <1>3. CASE c # b
    BY <1>1, <1>3 DEF PastInv, BlocksInv
  <1> QED BY <1>2, <1>3

\* What becomes of the locals when a call ends.
LEMMA ForgetType ==
    ASSUME Forget
    PROVE  /\ loop' = "import" /\ tip' \in Header /\ lastCanon' = NoHash /\ oldHead' = NoHash
           /\ next' = 0 /\ common' = 0 /\ walk' = 0 /\ target' = 0 /\ batch' = {}
  BY HeaderTree DEF Forget

\* A call that ends without touching index and heads.
LEMMA EndsIInv ==
    ASSUME IInv, Forget, pc' \in {"idle", "load"},
           UNCHANGED <<chainVars, headVars>>,
           announced' \in Header \cup {NoHash}, torn' \in BOOLEAN,
           UNCHANGED <<ghosts, borrowed>>,
           disk' \subseteq StateRoots,
           triegc' \subseteq triegc
    PROVE  IInv'
  <1> USE DEF IInv
  <1>1. TypeOK'
    <2>1. MaxNumber \in Nat
      BY HeaderTree
    <2>2. 0 \in Numbers /\ 0 \in 0 .. MaxNumber + 1
      BY <2>1 DEF Numbers
    <2>3. StateRoots \subseteq {Root[b] : b \in Header}
      BY DEF StateRoots, MemoryRoots, TypeOK
    <2> QED BY <2>2, <2>3, ForgetType DEF TypeOK, chainVars, headVars
  <1>2. IndexInv'
    BY IndexFrame DEF chainVars
  <1>3. PastInv'
    BY PastFrame DEF StateRoots, MemoryRoots, chainVars
  <1>4. CallInv' /\ ReorgInv' /\ HeadInv'
    BY DEF CallInv, ReorgInv, HeadInv
  <1>5. RewindInv'
    BY ForgetType DEF RewindInv
  <1> QED BY <1>1, <1>2, <1>3, <1>4, <1>5

\* Return is such an end.
LEMMA ReturnIInv ==
    ASSUME IInv, Return, UNCHANGED <<chainVars, headVars, pastVars>>,
           disk' \subseteq StateRoots, triegc' \subseteq triegc
    PROVE  IInv'
  BY EndsIInv DEF Return, IInv, TypeOK, pastVars

-----------------------------------------------------------------------------
(* insertChain                                                             *)

\* A step of a call that leaves index, heads and batch alone.
LEMMA CallStepIInv ==
    ASSUME IInv, pc # "rewind", pc' # "rewind" \/ batch' = {},
           blocks \subseteq blocks', ghosts \subseteq ghosts',
           UNCHANGED <<canonical, headVars, batch>>,
           TypeOK', PastInv', CallInv', ReorgInv', HeadInv'
    PROVE  IInv'
  <1>1. IndexInv'
    BY IndexFrame DEF IInv
  <1>2. RewindInv'
    BY DEF IInv, RewindInv
  <1> QED BY <1>1, <1>2 DEF IInv

\* The zero hash is no refused block.
LEMMA NoHashAccepted == NoHash \notin Invalid
  BY BlockContent, HeaderTree

\* Last common ancestors are unique.
LEMMA CommonUnique ==
    ASSUME NEW b \in Header, NEW c \in Header, NEW n \in Numbers, NEW m \in Numbers,
           IsCommon(n, b, c), IsCommon(m, b, c)
    PROVE  n = m
  BY HeaderTree DEF IsCommon, Numbers

\* What becomes the head extends the index, directly or after a reorg that
\* starts at the last common ancestor.
LEMMA BecomeHeadInv ==
    ASSUME TypeOK, IndexInv, 1 <= next, next <= Number[tip],
           Current \in blocks, Clean(Current),
           CanBecomeHead(Current), BecomeHead(Current),
           UNCHANGED <<canonical, blocks, headVars, tip, next, ghosts>>
    PROVE  /\ pc' \in {"head", "reorg"}
           /\ oldHead' \in Header \cup {NoHash}
           /\ common' \in 0 .. MaxNumber + 1 /\ walk' \in 0 .. MaxNumber + 1
           /\ CallInv' /\ ReorgInv' /\ HeadInv'
  <1> USE DEF IndexInv, HeadsAgree
  <1>0. /\ tip \in Header /\ next \in Nat /\ currentBlock \in Header /\ MaxNumber \in Nat
        /\ Number[currentBlock] \in 0..MaxNumber
    BY HeaderTree DEF TypeOK, Numbers
  <1>1. /\ next \in Numbers /\ next - 1 \in Numbers
        /\ Current \in Header /\ Number[Current] = next
        /\ Parent(Current) \in Header /\ Number[Parent(Current)] = next - 1
        /\ Parent(Current) = Ancestor[tip][next - 1]
        /\ \A n \in 0..next : Ancestor[Current][n] = Ancestor[tip][n]
    BY <1>0, CurrentInChain
  <1>2. pc' \in {"head", "reorg"} => CallInv'
    BY DEF CallInv, Current, Clean, BelowGhost
  <1>3. \A n \in 0..Number[currentBlock] :
            canonical[n] = Ancestor[currentBlock][n] /\ canonical[n] \in blocks
    BY DEF HeadChainCanonical
  <1>4. CASE Parent(Current) = currentBlock
    <2>1. pc' = "head" /\ UNCHANGED <<oldHead, common, walk>>
      BY <1>4 DEF BecomeHead
    <2>2. ASSUME NEW n \in Numbers, n < next PROVE OnNewChain(n)
      <3>1. n \in 0..Number[currentBlock] /\ n \in 0..next-1
        <4>1. Number[currentBlock] = next - 1
          BY <1>1, <1>4
        <4>2. n \in Nat /\ next \in Nat /\ n < next
          BY <1>0, <2>2 DEF Numbers
        <4> QED BY <4>1, <4>2
      <3>2. Ancestor[Parent(Current)][n] = Ancestor[Current][n]
        <4>0. Number[Current] = next /\ next \in Nat
          BY <1>0, <1>1
        <4>1. Number[Current] > 0
          BY <4>0
        <4>2. \A m \in 0 .. Number[Current] - 1 : Ancestor[Parent(Current)][m] = Ancestor[Current][m]
          BY <1>1, <4>1, ParentNumber
        <4>3. n \in 0 .. Number[Current] - 1
          BY <4>0, <3>1
        <4> QED BY <4>2, <4>3
      <3>3. Ancestor[currentBlock][n] = Ancestor[tip][n]
        <4>1. n \in 0..next
          BY <3>1, <1>1, <1>0 DEF Numbers
        <4> QED BY <4>1, <3>2, <1>1, <1>4
      <3> QED BY <3>1, <3>3, <1>3 DEF OnNewChain
    <2>3. HeadInv' /\ ReorgInv'
      BY <2>1, <2>2 DEF HeadInv, ReorgInv, OnNewChain
    <2> QED BY <1>2, <2>1, <2>3 DEF TypeOK
  <1>5. CASE Parent(Current) # currentBlock
    <2>1. PICK k \in Numbers :
             /\ IsCommon(k, Current, currentBlock)
             /\ \A m \in k .. Number[Current] - 1 : Ancestor[Current][m] \in blocks
      BY <1>5 DEF CanBecomeHead, Connected
    <2>2. pc' = "reorg" /\ oldHead' = currentBlock
      BY <1>5 DEF BecomeHead
    <2>3. PICK j \in Numbers :
             IsCommon(j, Current, currentBlock) /\ common' = j /\ walk' = j + 1
      BY <1>5 DEF BecomeHead
    <2>4. j = k
      BY <2>1, <2>3, <1>1, <1>0, CommonUnique
    <2>5. /\ k <= next /\ k <= Number[currentBlock]
          /\ Ancestor[Current][k] = Ancestor[currentBlock][k]
          /\ k \in 0..MaxNumber
      BY <2>1, <1>1 DEF IsCommon, Numbers
    <2>6. \A m \in 0..k : Ancestor[Current][m] = Ancestor[currentBlock][m]
      BY <2>5, <1>0, <1>1, SharedAncestry
    <2>7. ASSUME NEW n \in Numbers, n < k + 1, n < next PROVE OnNewChain(n)
      <3>1. n \in 0..Number[currentBlock] /\ n \in 0..k /\ n \in 0..next
        BY <2>7, <1>1, <1>0, <2>5 DEF Numbers
      <3> QED BY <3>1, <2>6, <1>1, <1>3 DEF OnNewChain
    <2>8. ASSUME NEW n \in Numbers, k + 1 <= n, n < next PROVE Ancestor[tip][n] \in blocks
      <3>1. n \in k .. Number[Current] - 1 /\ n \in 0..next
        BY <2>8, <1>1, <1>0, <2>5 DEF Numbers
      <3> QED BY <3>1, <2>1, <1>1
    <2>9. ReorgInv' /\ HeadInv'
      <3>1. walk' = k + 1 /\ 1 <= walk' /\ walk' <= Number[currentBlock'] + 1
        BY <2>3, <2>4, <2>5, <1>0 DEF headVars
      <3> QED BY <2>2, <2>7, <2>8, <3>1 DEF ReorgInv, HeadInv, OnNewChain
    <2> QED BY <1>0, <1>2, <2>2, <2>3, <2>4, <2>5, <2>9
  <1> QED BY <1>4, <1>5

\* InsertChain keeps the invariant.
LEMMA InsertChainIInv ==
    ASSUME IInv, NEW b \in Header, NEW n \in Numbers \ {0}, InsertChain(b, n)
    PROVE  IInv'
  <1> USE DEF IInv, InsertChain, chainVars, stateVars, pastVars
  <1>1. n \in 1..MaxNumber /\ Number[b] \in 0..MaxNumber /\ MaxNumber \in Nat
    BY HeaderTree DEF Numbers
  <1>2. TypeOK'
    BY <1>1 DEF TypeOK, headVars
  <1>3. CallInv' /\ ReorgInv' /\ HeadInv'
    BY <1>1 DEF CallInv, ReorgInv, HeadInv
  <1>4. PastInv'
    BY PastFrame DEF StateRoots, MemoryRoots
  <1> QED BY <1>2, <1>3, <1>4, CallStepIInv

\* IgnoreKnown keeps the invariant.
LEMMA IgnoreKnownIInv ==
    ASSUME IInv, IgnoreKnown
    PROVE  IInv'
  <1> USE DEF IInv, IgnoreKnown, chainVars, stateVars, pastVars
  <1>1. Number[tip] \in 0..MaxNumber /\ MaxNumber \in Nat /\ next \in Nat
    BY Position
  <1>2. 1 <= next /\ next <= Number[tip]
    BY <1>1 DEF CallInv, More
  <1>3. TypeOK'
    BY <1>1, <1>2 DEF TypeOK, headVars
  <1>4. CallInv' /\ ReorgInv' /\ HeadInv'
    BY <1>1, <1>2 DEF CallInv, ReorgInv, HeadInv
  <1>5. PastInv'
    BY PastFrame DEF StateRoots, MemoryRoots
  <1> QED BY <1>3, <1>4, <1>5, CallStepIInv

\* WriteKnownBlock keeps the invariant: a known block has its state, so its
\* chain is clean.
LEMMA WriteKnownBlockIInv ==
    ASSUME IInv, WriteKnownBlock
    PROVE  IInv'
  <1> USE DEF IInv, WriteKnownBlock, chainVars, stateVars, pastVars
  <1>1. Number[tip] \in 0..MaxNumber /\ MaxNumber \in Nat /\ next \in Nat /\ tip \in Header
    BY Position
  <1>2. 1 <= next /\ next <= Number[tip]
    BY <1>1 DEF CallInv, More
  <1>3. Current \in Header
    BY <1>1, <1>2, CurrentInChain
  <1>4. Current \in blocks /\ Clean(Current)
    BY KnownClean DEF Known, HasBlockAndState
  <1>5. /\ pc' \in {"head", "reorg"}
        /\ oldHead' \in Header \cup {NoHash}
        /\ common' \in 0 .. MaxNumber + 1 /\ walk' \in 0 .. MaxNumber + 1
        /\ CallInv' /\ ReorgInv' /\ HeadInv'
    BY <1>2, <1>4, BecomeHeadInv
  <1>6. TypeOK'
    BY <1>5 DEF TypeOK, headVars
  <1>7. PastInv'
    BY PastFrame DEF StateRoots, MemoryRoots
  <1> QED BY <1>5, <1>6, <1>7, CallStepIInv

\* A block is stored with its total difficulty and its state is committed
\* next.
LEMMA StoredType ==
    ASSUME TypeOK, NEW b \in Header, Parent(b) \in Header,
           td' = [td EXCEPT ![b] = td[Parent(b)] + Difficulty[b]]
    PROVE  td' \in [Header -> Nat]
  <1>1. td \in [Header -> Nat]
    BY DEF TypeOK
  <1>2. td[Parent(b)] \in Nat /\ Difficulty[b] \in Nat
    BY <1>1, HeaderTree
  <1>3. td[Parent(b)] + Difficulty[b] \in Nat
    BY <1>2
  <1> QED BY <1>1, <1>3

\* So is a block with a clean chain that is stored.
LEMMA StoredPast ==
    ASSUME PastInv, NEW b, Clean(b), blocks' = blocks \cup {b}, UNCHANGED <<stateVars, ghosts>>
    PROVE  PastInv'
  BY DEF PastInv, StateInv, StateRoots, MemoryRoots, BlocksInv, Clean, BelowGhost, stateVars

\* StoreBlock keeps the invariant: the block was accepted before it is stored.
LEMMA StoreBlockIInv ==
    ASSUME IInv, StoreBlock
    PROVE  IInv'
  <1> USE DEF IInv, StoreBlock, stateVars, pastVars
  <1>1. Number[tip] \in 0..MaxNumber /\ MaxNumber \in Nat /\ next \in Nat /\ tip \in Header
    BY Position
  <1>2. 1 <= next /\ next <= Number[tip]
    BY <1>1 DEF CallInv, More
  <1>3. Current \in Header /\ Parent(Current) \in Header
    BY <1>1, <1>2, CurrentInChain
  <1>4. TypeOK'
    <2>1. td' \in [Header -> Nat]
      BY <1>3, StoredType
    <2> QED BY <1>3, <2>1 DEF TypeOK, headVars
  <1>5. Clean(Current)
    <2>1. Number[Current] > 0
      BY <1>1, <1>2, CurrentInChain
    <2>2. Clean(Parent(Current))
      BY KnownClean DEF Fresh, HasBlockAndState
    <2> QED BY <1>3, <2>1, <2>2, CleanChild
  <1>6. CallInv' /\ ReorgInv' /\ HeadInv'
    BY <1>1, <1>2, <1>5 DEF CallInv, ReorgInv, HeadInv, Current, Clean, BelowGhost
  <1>7. PastInv'
    <2> HIDE DEF Current
    <2> QED BY <1>5, StoredPast
  <1> QED BY <1>4, <1>6, <1>7, CallStepIInv

\* WriteBlockWithState keeps the invariant: a block mined here is valid.
LEMMA WriteBlockWithStateIInv ==
    ASSUME IInv, NEW b \in Mined, WriteBlockWithState(b)
    PROVE  IInv'
  <1> USE DEF IInv, WriteBlockWithState, stateVars, pastVars
  <1>1. b \in Header /\ b \notin Invalid /\ b # Genesis
    BY BlockContent
  <1>2. Number[b] \in 1..MaxNumber /\ MaxNumber \in Nat
    <2>1. Number[b] \in 0..MaxNumber /\ Number[b] # 0 /\ MaxNumber \in Nat
      BY <1>1, HeaderTree DEF Numbers
    <2> QED BY <2>1
  <1>3. Parent(b) \in Header
    BY <1>1, <1>2, ParentNumber
  <1>4. TypeOK'
    <2>1. td' \in [Header -> Nat]
      BY <1>1, <1>3, StoredType
    <2> QED BY <1>1, <1>2, <2>1 DEF TypeOK, headVars
  <1>5. Clean(b)
    <2>1. Clean(Parent(b))
      BY KnownClean DEF HasBlockAndState
    <2> QED BY <1>1, <1>2, <2>1, CleanChild
  <1>6. CallInv' /\ ReorgInv' /\ HeadInv'
    <2>1. Ancestor[b][Number[b]] = b
      BY <1>1, HeaderTree
    <2> QED BY <1>1, <1>2, <1>5, <2>1 DEF CallInv, ReorgInv, HeadInv, Current, Clean, BelowGhost
  <1>7. PastInv'
    BY <1>5, StoredPast
  <1> QED BY <1>4, <1>6, <1>7, CallStepIInv

\* Committing a state makes available only it and what was available.
LEMMA CommitTrieStates ==
    ASSUME TypeOK, PastInv, NEW b \in Header, b \notin Invalid, Clean(b),
           NEW flushed, NEW expired, CommitTrie(b, flushed, expired),
           UNCHANGED <<blocks, ghosts>>
    PROVE  /\ PastInv'
           /\ disk' \subseteq {Root[c] : c \in Header}
           /\ triegc' \subseteq {Root[c] : c \in Header} \X Numbers
  <1> DEFINE held  == triegc \cup {<<Root[b], Number[b]>>}
             roots == {e[1] : e \in held}
  <1>1. triegc' \subseteq held /\ disk' \subseteq disk \cup roots \cup {Root[b]}
    BY DEF CommitTrie
  <1>2. held \subseteq {Root[c] : c \in Header} \X Numbers
    <2>1. Number[b] \in Numbers /\ Root[b] \in {Root[c] : c \in Header}
      BY HeaderTree
    <2>2. triegc \subseteq {Root[c] : c \in Header} \X Numbers
      BY DEF TypeOK
    <2> QED BY <2>1, <2>2
  <1>3. roots \subseteq MemoryRoots \cup {Root[b]}
    BY DEF MemoryRoots
  <1>4. roots \subseteq {Root[c] : c \in Header}
    BY <1>2
  <1>5. StateRoots' \subseteq StateRoots \cup {Root[b]}
    BY <1>1, <1>3 DEF StateRoots, MemoryRoots
  <1>6. PastInv'
    BY <1>5 DEF PastInv, StateInv, BlocksInv, Clean, BelowGhost
  <1> QED BY <1>1, <1>2, <1>4, <1>6 DEF TypeOK

\* CommitState keeps the invariant: the state committed is an accepted block's.
LEMMA CommitStateIInv ==
    ASSUME IInv, NEW coin \in BOOLEAN, NEW flushed, NEW expired,
           CommitState(coin, flushed, expired)
    PROVE  IInv'
  <1> USE DEF IInv, CommitState, chainVars, pastVars
  <1>1. Number[tip] \in 0..MaxNumber /\ MaxNumber \in Nat /\ next \in Nat /\ tip \in Header
    BY Position
  <1>2. /\ 1 <= next /\ next <= Number[tip]
        /\ Current \in blocks /\ Current \notin Invalid /\ Clean(Current)
    BY DEF CallInv
  <1>3. Current \in Header
    BY <1>1, <1>2, CurrentInChain
  <1>4. /\ PastInv'
        /\ disk' \subseteq {Root[c] : c \in Header}
        /\ triegc' \subseteq {Root[c] : c \in Header} \X Numbers
    <2> HIDE DEF Current
    <2> QED BY <1>2, <1>3, CommitTrieStates
  <1>5. CASE ~Reorg(Current, coin)
    <2>1. /\ pc' = "execute" /\ next' = next + 1
          /\ UNCHANGED <<announced, loop, tip, lastCanon, oldHead, common, walk, target, batch>>
      BY <1>5
    <2>2. TypeOK'
      BY <1>1, <1>2, <1>4, <2>1 DEF TypeOK, headVars
    <2>3. CallInv' /\ ReorgInv' /\ HeadInv'
      BY <1>1, <1>2, <2>1 DEF CallInv, ReorgInv, HeadInv
    <2> QED BY <1>4, <2>1, <2>2, <2>3, CallStepIInv
  <1>6. CASE Reorg(Current, coin) /\ CanBecomeHead(Current)
    <2>1. /\ BecomeHead(Current)
          /\ UNCHANGED <<announced, loop, tip, next, lastCanon, target, batch>>
      BY <1>6
    <2>2. /\ pc' \in {"head", "reorg"}
          /\ oldHead' \in Header \cup {NoHash}
          /\ common' \in 0 .. MaxNumber + 1 /\ walk' \in 0 .. MaxNumber + 1
          /\ CallInv' /\ ReorgInv' /\ HeadInv'
      BY <1>2, <1>6, <2>1, BecomeHeadInv
    <2>3. TypeOK'
      BY <1>4, <2>1, <2>2 DEF TypeOK, headVars
    <2> QED BY <1>4, <2>1, <2>2, <2>3, CallStepIInv
  <1>7. CASE Reorg(Current, coin) /\ ~CanBecomeHead(Current)
    <2>1. Return /\ UNCHANGED <<chainVars, headVars, pastVars>>
      BY <1>7
    <2>2. pc' = "idle" /\ Forget /\ announced' \in Header \cup {NoHash}
      BY <2>1 DEF Return, TypeOK
    <2>3. TypeOK'
      <3>1. 0 \in Numbers /\ 0 \in 0 .. MaxNumber + 1
        BY <1>1 DEF Numbers
      <3> QED BY <1>4, <2>1, <2>2, <3>1, ForgetType DEF TypeOK, headVars
    <2>4. CallInv' /\ ReorgInv' /\ HeadInv' /\ RewindInv'
      BY <2>2, ForgetType DEF CallInv, ReorgInv, HeadInv, RewindInv
    <2>5. IndexInv'
      BY <2>1, IndexFrame
    <2> QED BY <1>4, <2>3, <2>4, <2>5
  <1> QED BY <1>5, <1>6, <1>7

\* InsertReturns keeps the invariant.
LEMMA InsertReturnsIInv ==
    ASSUME IInv, InsertReturns \/ SideRefused
    PROVE  IInv'
  BY ReturnIInv DEF InsertReturns, SideRefused, stateVars, StateRoots

-----------------------------------------------------------------------------
(* insertSideChain                                                         *)

\* SideStep keeps the invariant: a block stored unexecuted is a ghost, or no
\* accepted block has its root.
LEMMA SideStepIInv ==
    ASSUME IInv, SideStep
    PROVE  IInv'
  <1> USE DEF IInv, SideStep, stateVars
  <1>1. Number[tip] \in 0..MaxNumber /\ MaxNumber \in Nat /\ next \in Nat /\ tip \in Header
    BY Position
  <1>2. 1 <= next /\ next <= Number[tip]
    BY <1>1 DEF CallInv, More
  <1>3. Current \in Header /\ Parent(Current) \in Header
    BY <1>1, <1>2, CurrentInChain
  <1>4. TypeOK'
    <2>1. td' \in [Header -> Nat]
      BY <1>3, StoredType DEF TypeOK
    <2>2. ghosts' \subseteq Header
      BY <1>3 DEF TypeOK, UnseenGhost
    <2> QED BY <1>1, <1>2, <1>3, <2>1, <2>2 DEF TypeOK, headVars
  <1>5. CallInv' /\ ReorgInv' /\ HeadInv'
    BY <1>1, <1>2 DEF CallInv, ReorgInv, HeadInv
  <1>6. PastInv'
    <2>1. ghosts \subseteq ghosts' /\ blocks' = blocks \cup {Current}
      OBVIOUS
    <2>2. StateInv'
      BY <2>1, StaysClean DEF PastInv, StateInv, StateRoots, MemoryRoots
    <2>3. ASSUME NEW b \in blocks
          PROVE  Clean(b)' \/ \A c \in Header \ (Invalid \cup {b}) : Root[c] # Root[b]
      BY <2>1, StaysClean DEF PastInv, BlocksInv
    <2>4. ASSUME NEW b, b = Current, b \notin blocks
          PROVE  Clean(b)' \/ \A c \in Header \ (Invalid \cup {b}) : Root[c] # Root[b]
      <3> HIDE DEF Current
      <3>1. b \in Header /\ \A n \in 0..Number[b] : n <= Number[b]
        BY <1>3, <2>4, NumberRange
      <3>2. CASE b \in ghosts'
        BY <3>1, <3>2 DEF Clean, BelowGhost
      <3>3. CASE b \notin ghosts'
        BY <2>4, <3>3 DEF UnseenGhost
      <3> QED BY <3>2, <3>3
    <2>5. BlocksInv'
      BY <2>1, <2>3, <2>4 DEF BlocksInv
    <2> QED BY <2>2, <2>5 DEF PastInv
  <1>7. ghosts \subseteq ghosts'
    OBVIOUS
  <1> QED BY <1>4, <1>5, <1>6, <1>7, CallStepIInv

\* SideDone keeps the invariant: the restart is an ancestor with a state.
LEMMA SideDoneIInv ==
    ASSUME IInv, SideDone
    PROVE  IInv'
  <1> USE DEF IInv
  <1> DEFINE last == Ancestor[tip][next - 1]
  <1>1. Number[tip] \in 0..MaxNumber /\ MaxNumber \in Nat /\ next \in Nat /\ tip \in Header
    BY Position
  <1>2. 1 <= next /\ next <= Number[tip] + 1 /\ pc = "side"
    BY <1>1 DEF CallInv, SideDone
  <1>3. last \in Header /\ Number[last] \in 0..MaxNumber
    <2>1. next - 1 \in Numbers /\ next - 1 <= Number[tip]
      BY <1>1, <1>2 DEF Numbers
    <2> QED BY <1>1, <2>1, Ancestry, HeaderTree DEF Numbers
  <1>4. CASE Return
    BY <1>4, ReturnIInv DEF SideDone, stateVars, StateRoots
  <1>5. ASSUME NEW n \in Restartable(last) \ {Number[last]},
               pc' = "import", tip' = last, next' = n + 1,
               UNCHANGED <<announced, loop, lastCanon, oldHead, common, walk, target, batch>>
        PROVE  IInv'
    <2>1. n \in 0..Number[last] /\ n # Number[last]
      BY DEF Restartable
    <2>2. 1 <= n + 1 /\ n + 1 <= Number[last] /\ n + 1 \in 0 .. MaxNumber + 1
      BY <1>1, <1>3, <2>1
    <2>3. UNCHANGED <<chainVars, headVars, stateVars, pastVars>>
      BY DEF SideDone
    <2>4. TypeOK'
      BY <1>3, <1>5, <2>2, <2>3 DEF TypeOK, chainVars, headVars, stateVars, pastVars
    <2>5. CallInv' /\ ReorgInv' /\ HeadInv'
      BY <1>1, <1>3, <1>5, <2>2 DEF CallInv, ReorgInv, HeadInv
    <2>6. PastInv'
      BY <2>3, PastFrame DEF StateRoots, MemoryRoots, chainVars, stateVars, pastVars
    <2> QED BY <1>2, <1>5, <2>3, <2>4, <2>5, <2>6, CallStepIInv DEF chainVars, pastVars
  <1> QED BY <1>4, <1>5 DEF SideDone

-----------------------------------------------------------------------------
(* The batches that change the head                                        *)

\* writeHeadBlock on a block whose ancestors the index names already.
LEMMA WriteHeadBlockInv ==
    ASSUME TypeOK, IndexInv, NEW b \in Header, b \in blocks,
           b \in Invalid => BelowGhost(b, Number[b]),
           \A n \in Numbers : n < Number[b] =>
                canonical[n] = Ancestor[b][n] /\ canonical[n] \in blocks,
           WriteHeadBlock(b), UNCHANGED <<blocks, ghosts>>
    PROVE  /\ IndexInv'
           /\ canonical' \in [Numbers -> Header \cup {NoHash}]
           /\ lookup' \in [Tx -> 0..NoEntry]
           /\ {headBlock', headHeader', headFast'} \subseteq Header
           /\ {currentBlock', currentHeader', currentFastBlock'} \subseteq Header
           /\ currentBlock' = b
           /\ \A n \in Numbers : canonical'[n] = IF n = Number[b] THEN b ELSE canonical[n]
  <1> USE DEF WriteHeadBlock
  <1>1. /\ Number[b] \in Numbers /\ Number[b] \in 0..MaxNumber /\ MaxNumber \in Nat
        /\ Ancestor[b][Number[b]] = b
    BY HeaderTree DEF Numbers
  <1>2. canonical \in [Numbers -> Header \cup {NoHash}]
    BY DEF TypeOK
  <1>3. \A n \in Numbers : canonical'[n] = IF n = Number[b] THEN b ELSE canonical[n]
    BY <1>2
  <1>4. canonical' \in [Numbers -> Header \cup {NoHash}]
    BY <1>2, <1>1
  <1>5. lookup' \in [Tx -> 0..NoEntry]
    <2>1. Number[b] \in 0..NoEntry
      BY <1>1 DEF NoEntry
    <2>2. lookup \in [Tx -> 0..NoEntry]
      BY DEF TypeOK
    <2> QED BY <2>1, <2>2
  <1>6. ASSUME NEW n \in 0..Number[b]
        PROVE  canonical'[n] = Ancestor[b][n] /\ canonical'[n] \in blocks
    <2>1. n \in Numbers /\ (n < Number[b] \/ n = Number[b])
      BY <1>1 DEF Numbers
    <2> QED BY <1>1, <1>3, <2>1
  <1>7. HeadsAgree' /\ HeadChainCanonical'
    BY <1>6 DEF HeadsAgree, HeadChainCanonical
  <1>8. HeaderOnChain'
    <2>1. CASE canonical[Number[b]] # b
      BY <1>6, <2>1 DEF HeaderOnChain
    <2>2. CASE canonical[Number[b]] = b
      <3>1. canonical' = canonical /\ headHeader' = headHeader /\ currentHeader' = currentHeader
        BY <1>2, <2>2
      <3> QED BY <3>1 DEF IndexInv, HeaderOnChain
    <2> QED BY <2>1, <2>2
  <1>9. NoInvalidCanonical'
    BY <1>3 DEF IndexInv, NoInvalidCanonical, BelowGhost
  <1>10. /\ {headBlock', headHeader', headFast'} \subseteq Header
         /\ {currentBlock', currentHeader', currentFastBlock'} \subseteq Header
    BY DEF TypeOK
  <1> QED BY <1>3, <1>4, <1>5, <1>7, <1>8, <1>9, <1>10 DEF IndexInv

\* ReorgStep keeps the invariant: the index below the block written is its chain.
LEMMA ReorgStepIInv ==
    ASSUME IInv, ReorgStep
    PROVE  IInv'
  <1> USE DEF IInv
  <1> DEFINE b == Ancestor[tip][walk]
  <1>1. Number[tip] \in 0..MaxNumber /\ MaxNumber \in Nat /\ next \in Nat /\ tip \in Header
    BY Position
  <1>2. /\ pc = "reorg" /\ walk < next /\ WriteHeadBlock(b) /\ walk' = walk + 1
        /\ UNCHANGED <<blocks, td, stateVars, announced, pc, loop, tip, next, lastCanon,
                       oldHead, common, target, batch, pastVars>>
    BY DEF ReorgStep
  <1>3. /\ 1 <= next /\ next <= Number[tip] /\ Current \in blocks /\ Clean(Current)
        /\ 1 <= walk /\ walk \in Nat
        /\ \A n \in Numbers : n < walk /\ n < next => OnNewChain(n)
        /\ \A n \in Numbers : walk <= n /\ n < next => Ancestor[tip][n] \in blocks
    BY <1>2 DEF CallInv, ReorgInv, TypeOK
  <1>4. /\ next \in Numbers /\ Current \in Header /\ Number[Current] = next
        /\ \A n \in 0..next : Ancestor[Current][n] = Ancestor[tip][n]
    BY <1>1, <1>3, CurrentInChain
  <1>5. walk \in Numbers /\ walk \in 0..next /\ walk <= Number[tip] /\ walk + 1 \in 0 .. MaxNumber + 1
    BY <1>1, <1>2, <1>3 DEF Numbers
  <1>6. /\ b \in Header /\ Number[b] = walk
        /\ \A m \in 0..walk : Ancestor[b][m] = Ancestor[tip][m]
    BY <1>1, <1>5, Ancestry
  <1>7. b \in blocks /\ (b \in Invalid => BelowGhost(b, Number[b]))
    <2>1. b = Ancestor[Current][walk] /\ walk \in 0..Number[Current]
      BY <1>4, <1>5
    <2>2. b \in Invalid => BelowGhost(b, walk)
      BY <1>3, <2>1 DEF Clean
    <2> QED BY <1>2, <1>3, <1>5, <1>6, <2>2
  <1>8. ASSUME NEW n \in Numbers, n < walk
        PROVE  canonical[n] = Ancestor[b][n] /\ canonical[n] \in blocks
    <2>1. n \in 0..walk /\ n < next
      BY <1>1, <1>2, <1>3, <1>8 DEF Numbers
    <2> QED BY <1>3, <1>6, <1>8, <2>1 DEF OnNewChain
  <1>9. /\ IndexInv'
        /\ canonical' \in [Numbers -> Header \cup {NoHash}]
        /\ lookup' \in [Tx -> 0..NoEntry]
        /\ {headBlock', headHeader', headFast'} \subseteq Header
        /\ {currentBlock', currentHeader', currentFastBlock'} \subseteq Header
        /\ currentBlock' = b
        /\ \A n \in Numbers : canonical'[n] = IF n = Number[b] THEN b ELSE canonical[n]
    <2>1. UNCHANGED <<blocks, ghosts>>
      BY <1>2 DEF pastVars
    <2> HIDE DEF b
    <2> QED BY <1>2, <1>6, <1>7, <1>8, <2>1, WriteHeadBlockInv
  <1>10. TypeOK'
    BY <1>2, <1>5, <1>9 DEF TypeOK, stateVars, pastVars
  <1>11. CallInv' /\ HeadInv' /\ PastInv'
    <2>1. CallInv' /\ HeadInv'
      BY <1>2 DEF CallInv, HeadInv, pastVars, Current, Clean, BelowGhost
    <2>2. PastInv'
      BY <1>2, PastFrame DEF StateRoots, MemoryRoots, stateVars, pastVars
    <2> QED BY <2>1, <2>2
  <1>12. ReorgInv'
    <2>1. ASSUME NEW n \in Numbers, n < walk + 1, n < next
          PROVE  canonical'[n] = Ancestor[tip][n] /\ canonical'[n] \in blocks
      <3>1. n < walk \/ n = walk
        BY <1>3, <2>1 DEF Numbers
      <3> QED BY <1>3, <1>6, <1>7, <1>9, <2>1, <3>1 DEF OnNewChain
    <2>2. ASSUME NEW n \in Numbers, walk + 1 <= n, n < next
          PROVE  Ancestor[tip][n] \in blocks
      <3>1. walk <= n
        BY <1>3, <2>2 DEF Numbers
      <3> QED BY <1>3, <2>2, <3>1
    <2>3. 1 <= walk' /\ walk' <= Number[currentBlock'] + 1
      BY <1>2, <1>3, <1>6, <1>9
    <2> QED BY <1>2, <2>1, <2>2, <2>3 DEF ReorgInv, OnNewChain
  <1>13. RewindInv'
    BY <1>2 DEF RewindInv
  <1> QED BY <1>9, <1>10, <1>11, <1>12, <1>13

\* DeleteIndexes keeps the invariant: nothing up to the current block is deleted.
LEMMA DeleteIndexesIInv ==
    ASSUME IInv, DeleteIndexes
    PROVE  IInv'
  <1> USE DEF IInv
  <1>1. Number[tip] \in 0..MaxNumber /\ MaxNumber \in Nat /\ next \in Nat /\ tip \in Header
    BY Position
  <1>2. /\ pc = "reorg" /\ walk >= next /\ pc' = "head"
        /\ UNCHANGED <<blocks, td, headVars, stateVars, announced, callVars, pastVars>>
    BY DEF DeleteIndexes
  <1>3. canonical \in [Numbers -> Header \cup {NoHash}] /\ currentBlock \in Header
    BY DEF TypeOK
  <1>4. \A n \in Numbers :
            /\ canonical'[n] \in {NoHash, canonical[n]}
            /\ n <= Number[currentBlock] => canonical'[n] = canonical[n]
    <2>1. Number[currentBlock] \in Nat
      BY <1>3, HeaderTree DEF Numbers
    <2> QED BY <2>1 DEF DeleteIndexes, Numbers
  <1>5. canonical' \in [Numbers -> Header \cup {NoHash}]
    BY <1>3 DEF DeleteIndexes
  <1>6. lookup' \in [Tx -> 0..NoEntry]
    <2>1. NoEntry \in 0..NoEntry
      BY <1>1 DEF NoEntry
    <2>2. lookup \in [Tx -> 0..NoEntry]
      BY DEF TypeOK
    <2> QED BY <2>1, <2>2 DEF DeleteIndexes
  <1>7. TypeOK'
    BY <1>2, <1>5, <1>6 DEF TypeOK, headVars, stateVars, callVars, pastVars
  <1>8. IndexInv'
    <2>1. \A h \in Header : \A n \in 0..Number[h] : n \in Numbers
      BY HeaderTree DEF Numbers
    <2>2. HeadsAgree'
      BY <1>2 DEF IndexInv, HeadsAgree, headVars
    <2>3. HeadChainCanonical'
      <3>1. ASSUME NEW n \in 0..Number[headBlock]
            PROVE  canonical'[n] = Ancestor[headBlock][n] /\ canonical'[n] \in blocks
        <4>1. n \in Numbers /\ n <= Number[currentBlock]
          BY <1>3, <2>1, HeaderTree DEF IndexInv, HeadsAgree, Numbers
        <4> QED BY <1>4, <4>1 DEF IndexInv, HeadChainCanonical
      <3> QED BY <1>2, <3>1 DEF HeadChainCanonical, headVars
    <2>4. HeaderOnChain'
      <3>1. ASSUME NEW h \in {headHeader, currentHeader}, NEW n \in 0..Number[h]
            PROVE  canonical'[n] \in {NoHash, Ancestor[h][n]}
        <4>1. h \in Header
          BY DEF TypeOK
        <4> QED BY <1>4, <2>1, <4>1 DEF IndexInv, HeaderOnChain
      <3> QED BY <1>2, <3>1 DEF HeaderOnChain, headVars
    <2>5. NoInvalidCanonical'
      BY <1>2, <1>4, NoHashAccepted DEF IndexInv, NoInvalidCanonical, pastVars
    <2> QED BY <2>2, <2>3, <2>4, <2>5 DEF IndexInv
  <1>9. HeadInv'
    <2>1. ASSUME NEW n \in Numbers, n < next
          PROVE  canonical'[n] = Ancestor[tip][n] /\ canonical'[n] \in blocks
      <3>1. /\ walk <= Number[currentBlock] + 1 /\ walk \in Nat /\ Number[currentBlock] \in Nat
            /\ \A m \in Numbers : m < walk /\ m < next => OnNewChain(m)
        BY <1>2, <1>3, HeaderTree DEF ReorgInv, TypeOK, Numbers
      <3>2. n < walk /\ n <= Number[currentBlock]
        BY <1>1, <1>2, <2>1, <3>1 DEF Numbers
      <3> QED BY <1>4, <2>1, <3>1, <3>2 DEF OnNewChain
    <2> QED BY <1>2, <2>1 DEF HeadInv, OnNewChain, callVars
  <1>10. CallInv' /\ ReorgInv' /\ PastInv'
    <2>1. CallInv' /\ ReorgInv'
      BY <1>2 DEF CallInv, ReorgInv, callVars, pastVars, Current, Clean, BelowGhost
    <2>2. PastInv'
      BY <1>2, PastFrame DEF StateRoots, MemoryRoots, stateVars, pastVars
    <2> QED BY <2>1, <2>2
  <1>11. RewindInv'
    BY <1>2 DEF RewindInv, callVars, headVars
  <1> QED BY <1>7, <1>8, <1>9, <1>10, <1>11

\* WriteHead keeps the invariant: the index below the new head is its chain.
LEMMA WriteHeadIInv ==
    ASSUME IInv, WriteHead
    PROVE  IInv'
  <1> USE DEF IInv
  <1>1. Number[tip] \in 0..MaxNumber /\ MaxNumber \in Nat /\ next \in Nat /\ tip \in Header
    BY Position
  <1>2. /\ pc = "head" /\ WriteHeadBlock(Current) /\ lastCanon' = Current /\ next' = next + 1
        /\ pc' = loop /\ oldHead' = NoHash /\ common' = 0 /\ walk' = 0
        /\ borrowed' \in BOOLEAN
        /\ UNCHANGED <<blocks, td, stateVars, announced, loop, tip, target, batch, torn, ghosts>>
    BY DEF WriteHead, Borrows
  <1>3. /\ 1 <= next /\ next <= Number[tip] /\ Current \in blocks /\ Clean(Current)
        /\ \A n \in Numbers : n < next => OnNewChain(n)
    BY <1>2 DEF CallInv, HeadInv
  <1>4. /\ Current \in Header /\ Number[Current] = next
        /\ \A n \in 0..next : Ancestor[Current][n] = Ancestor[tip][n]
    BY <1>1, <1>3, CurrentInChain
  <1>5. ASSUME NEW n \in Numbers, n < Number[Current]
        PROVE  canonical[n] = Ancestor[Current][n] /\ canonical[n] \in blocks
    <2>1. n \in 0..next /\ n < next
      BY <1>1, <1>4, <1>5 DEF Numbers
    <2> QED BY <1>3, <1>4, <1>5, <2>1 DEF OnNewChain
  <1>6. /\ IndexInv'
        /\ canonical' \in [Numbers -> Header \cup {NoHash}]
        /\ lookup' \in [Tx -> 0..NoEntry]
        /\ {headBlock', headHeader', headFast'} \subseteq Header
        /\ {currentBlock', currentHeader', currentFastBlock'} \subseteq Header
    <2>1. Current \in Invalid => BelowGhost(Current, Number[Current])
      <3>1. Number[Current] \in 0..Number[Current] /\ Ancestor[Current][Number[Current]] = Current
        BY <1>4, NumberRange, HeaderTree
      <3> HIDE DEF Current
      <3> QED BY <1>3, <3>1 DEF Clean
    <2> HIDE DEF Current
    <2> QED BY <1>2, <1>3, <1>4, <1>5, <2>1, WriteHeadBlockInv
  <1>7. loop \in {"import", "rewrite", "execute"} /\ next + 1 \in 0 .. MaxNumber + 1 /\ 0 \in 0 .. MaxNumber + 1
    BY <1>1, <1>3 DEF TypeOK
  <1>8. TypeOK'
    BY <1>2, <1>4, <1>6, <1>7 DEF TypeOK, stateVars
  <1>9. CallInv' /\ ReorgInv' /\ HeadInv' /\ PastInv'
    <2>1. CallInv' /\ ReorgInv' /\ HeadInv'
      BY <1>1, <1>2, <1>3, <1>7 DEF CallInv, ReorgInv, HeadInv
    <2>2. PastInv'
      BY <1>2, PastFrame DEF StateRoots, MemoryRoots, stateVars
    <2> QED BY <2>1, <2>2
  <1>10. RewindInv'
    BY <1>2, <1>7 DEF RewindInv
  <1> QED BY <1>6, <1>8, <1>9, <1>10

-----------------------------------------------------------------------------
(* SetHead, recovery and shutdown                                          *)

LEMMA SetHeadIInv ==
    ASSUME IInv, NEW n \in Rewinds, SetHead(n)
    PROVE  IInv'
  <1> USE DEF IInv, SetHead, chainVars, stateVars, pastVars
  <1>1. n \in Numbers
    BY BlockContent
  <1>2. TypeOK'
    BY <1>1 DEF TypeOK, headVars
  <1>3. CallInv' /\ ReorgInv' /\ HeadInv' /\ PastInv'
    <2>1. CallInv' /\ ReorgInv' /\ HeadInv'
      BY DEF CallInv, ReorgInv, HeadInv
    <2>2. PastInv'
      BY PastFrame DEF StateRoots, MemoryRoots
    <2> QED BY <2>1, <2>2
  <1>4. batch' = {}
    BY DEF RewindInv
  <1> QED BY <1>2, <1>3, <1>4, CallStepIInv

\* RewindStep keeps the invariant: the heads move down their own chains.
LEMMA RewindStepIInv ==
    ASSUME IInv, RewindStep
    PROVE  IInv'
  <1> USE DEF IInv
  <1> DEFINE h      == currentHeader
             parent == IF Parent(currentHeader) \in blocks THEN Parent(currentHeader) ELSE Genesis
             moved  == IF HasState(parent) THEN parent ELSE Genesis
  <1>1. /\ pc = "rewind" /\ Number[h] > target
        /\ headHeader' = Parent(h) /\ currentHeader' = parent
        /\ batch' = batch \cup {h}
        /\ UNCHANGED <<chainVars, stateVars, announced, pc, pastVars,
                       loop, tip, next, lastCanon, oldHead, common, walk, target>>
        /\ IF Number[parent] < Number[currentBlock]
           THEN headBlock' = moved /\ currentBlock' = moved
           ELSE UNCHANGED <<headBlock, currentBlock>>
    BY DEF RewindStep
  <1>2. /\ h \in Header /\ currentBlock \in Header /\ headBlock \in Header
        /\ target \in Nat /\ MaxNumber \in Nat
        /\ Number[h] \in Nat /\ Number[currentBlock] \in Nat
    BY HeaderTree DEF TypeOK, Numbers
  <1>3. /\ Number[h] - 1 \in Numbers /\ Parent(h) \in Header
        /\ Number[Parent(h)] = Number[h] - 1
        /\ \A m \in 0 .. Number[h] - 1 : Ancestor[Parent(h)][m] = Ancestor[h][m]
    <2>1. Number[h] > 0
      BY <1>1, <1>2
    <2> QED BY <1>2, <2>1, ParentNumber
  <1>4. Genesis \in Header /\ Number[Genesis] = 0 /\ canonical[0] = Genesis /\ Genesis \in blocks
    <2>1. Genesis \in Header /\ Number[Genesis] = 0 /\ Ancestor[headBlock][0] = Genesis
      BY <1>2, RootIsGenesis
    <2>2. 0 \in 0..Number[headBlock]
      BY <1>2, HeaderTree DEF Numbers
    <2> QED BY <2>1, <2>2 DEF IndexInv, HeadChainCanonical
  <1>5. parent \in Header /\ moved \in Header /\ Number[parent] < Number[h]
        /\ Number[moved] <= Number[parent] /\ Number[parent] \in Nat /\ Number[moved] \in Nat
    BY <1>1, <1>2, <1>3, <1>4
  <1>6. TypeOK'
    <2>1. {headBlock', headHeader', headFast'} \subseteq Header
      BY <1>1, <1>3, <1>5 DEF TypeOK, RewindStep
    <2>2. {currentBlock', currentHeader', currentFastBlock'} \subseteq Header
      BY <1>1, <1>3, <1>5 DEF TypeOK, RewindStep
    <2> QED BY <1>1, <1>2, <2>1, <2>2 DEF TypeOK, chainVars, stateVars, pastVars
  <1>7. HeadsAgree'
    BY <1>1 DEF IndexInv, HeadsAgree
  <1>8. HeadChainCanonical'
    <2>1. CASE Number[parent] < Number[currentBlock] /\ moved = Genesis
      <3>1. headBlock' = Genesis /\ UNCHANGED <<canonical, blocks>>
        BY <1>1, <2>1 DEF chainVars
      <3>2. Ancestor[Genesis][0] = Genesis
        BY <1>4, RootIsGenesis
      <3>3. \A n \in 0..0 : n = 0
        OBVIOUS
      <3> QED BY <1>4, <3>1, <3>2, <3>3 DEF HeadChainCanonical
    <2>2. CASE Number[parent] < Number[currentBlock] /\ moved # Genesis
      <3>1. /\ moved = Parent(h) /\ parent = Parent(h)
            /\ headBlock' = Parent(h) /\ UNCHANGED <<canonical, blocks>>
        BY <1>1, <2>2 DEF chainVars
      <3>2. ASSUME NEW n \in 0..Number[Parent(h)]
            PROVE  canonical[n] = Ancestor[Parent(h)][n] /\ canonical[n] \in blocks
        <4>1. n \in 0..Number[currentBlock] /\ n \in 0..Number[h] /\ n \in 0 .. Number[h] - 1
          BY <1>2, <1>3, <2>2, <3>1
        <4>2. canonical[n] \in blocks
          BY <4>1 DEF IndexInv, HeadsAgree, HeadChainCanonical
        <4>3. canonical[n] # NoHash
          <5>1. blocks \subseteq Header
            BY DEF TypeOK
          <5>2. NoHash \notin Header
            BY HeaderTree
          <5> QED BY <4>2, <5>1, <5>2
        <4>4. canonical[n] = Ancestor[h][n]
          BY <4>1, <4>3 DEF IndexInv, HeaderOnChain
        <4> QED BY <1>3, <4>1, <4>2, <4>4
      <3> QED BY <3>1, <3>2 DEF HeadChainCanonical
    <2>3. CASE ~(Number[parent] < Number[currentBlock])
      BY <1>1, <2>3 DEF IndexInv, HeadChainCanonical, chainVars
    <2> QED BY <2>1, <2>2, <2>3
  <1>9. HeaderOnChain'
    <2>1. ASSUME NEW n \in 0..Number[Parent(h)]
          PROVE  canonical[n] \in {NoHash, Ancestor[Parent(h)][n]}
      <3>1. n \in 0..Number[h] /\ n \in 0 .. Number[h] - 1
        BY <1>2, <1>3
      <3> QED BY <1>3, <3>1 DEF IndexInv, HeaderOnChain
    <2>2. ASSUME NEW n \in 0..Number[Genesis]
          PROVE  canonical[n] \in {NoHash, Ancestor[Genesis][n]}
      <3>1. n = 0
        BY <1>4
      <3> QED BY <1>4, <3>1, RootIsGenesis
    <2>3. ASSUME NEW n \in 0..Number[parent]
          PROVE  canonical[n] \in {NoHash, Ancestor[parent][n]}
      BY <2>1, <2>2
    <2>4. canonical' = canonical
      BY <1>1 DEF chainVars
    <2> QED BY <1>1, <2>1, <2>3, <2>4 DEF HeaderOnChain
  <1>10. NoInvalidCanonical'
    BY <1>1 DEF IndexInv, NoInvalidCanonical, chainVars, pastVars
  <1>11. RewindInv'
    <2>1. Number[currentBlock'] < Number[h]
      BY <1>1, <1>2, <1>5
    <2>2. Number[currentBlock'] <= Number[currentBlock]
      BY <1>1, <1>2, <1>5
    <2>3. ASSUME NEW c \in batch
          PROVE  Number[c] > Number[currentBlock'] /\ Number[c] > Number[parent]
      <3>1. Number[c] > Number[currentBlock] /\ Number[c] > Number[h] /\ Number[c] \in Nat
        BY HeaderTree DEF RewindInv, TypeOK, Numbers
      <3>2. Number[currentBlock'] \in Nat
        BY <1>1, <1>2, <1>5
      <3> QED BY <1>2, <1>5, <2>2, <3>1, <3>2
    <2> QED BY <1>1, <1>5, <2>1, <2>3 DEF RewindInv
  <1>12. CallInv' /\ ReorgInv' /\ HeadInv' /\ PastInv'
    <2>1. CallInv' /\ ReorgInv' /\ HeadInv'
      BY <1>1 DEF CallInv, ReorgInv, HeadInv
    <2>2. PastInv'
      BY <1>1, PastFrame DEF StateRoots, MemoryRoots, stateVars, chainVars, pastVars
    <2> QED BY <2>1, <2>2
  <1> QED BY <1>6, <1>7, <1>8, <1>9, <1>10, <1>11, <1>12 DEF IndexInv

\* RewindDone keeps the invariant: only what lies above both heads is deleted.
LEMMA RewindDoneIInv ==
    ASSUME IInv, RewindDone
    PROVE  IInv'
  <1> USE DEF IInv
  <1>1. /\ pc = "rewind" /\ pc' = "load" /\ Forget
        /\ blocks' = blocks \ batch
        /\ UNCHANGED <<lookup, headVars, stateVars, announced, pastVars>>
    BY DEF RewindDone
  <1>2. /\ canonical \in [Numbers -> Header \cup {NoHash}] /\ currentBlock \in Header
        /\ batch \subseteq Header /\ headBlock = currentBlock
        /\ headHeader \in Header /\ currentHeader \in Header
    BY DEF TypeOK, IndexInv, HeadsAgree
  <1>3. \A h \in Header : Number[h] \in Nat /\ \A n \in 0..Number[h] : n \in Numbers
    BY NumberRange
  <1>4. \A n \in Numbers :
            /\ canonical'[n] \in {NoHash, canonical[n]}
            /\ n <= Number[currentBlock] => canonical'[n] = canonical[n]
    <2>1. ASSUME NEW n \in Numbers, n <= Number[currentBlock], NEW b \in batch
          PROVE  Number[b] # n
      <3>1. Number[b] > Number[currentBlock] /\ Number[b] \in Nat /\ Number[currentBlock] \in Nat
        BY <1>2, <1>3 DEF RewindInv
      <3> QED BY <2>1, <3>1
    <2> QED BY <2>1 DEF RewindDone
  <1>5. TypeOK'
    <2>1. canonical' \in [Numbers -> Header \cup {NoHash}]
      BY <1>2 DEF RewindDone
    <2>2. td' \in [Header -> Nat]
      BY DEF RewindDone, TypeOK
    <2>3. 0 \in Numbers /\ 0 \in 0 .. MaxNumber + 1
      BY HeaderTree DEF Numbers
    <2> QED BY <1>1, <2>1, <2>2, <2>3, ForgetType DEF TypeOK, headVars, stateVars, pastVars
  <1>6. HeadsAgree'
    BY <1>1 DEF IndexInv, HeadsAgree, headVars
  <1>7. HeadChainCanonical'
    <2>1. ASSUME NEW n \in 0..Number[headBlock]
          PROVE  canonical'[n] = Ancestor[headBlock][n] /\ canonical'[n] \in blocks'
      <3>1. n \in Numbers /\ n <= Number[currentBlock] /\ n \in Nat
        BY <1>2, <1>3
      <3>2. canonical[n] = Ancestor[headBlock][n] /\ canonical[n] \in blocks
        BY DEF IndexInv, HeadChainCanonical
      <3>3. canonical[n] \notin batch
        <4>1. Number[Ancestor[headBlock][n]] = n
          BY <1>2, <3>1, Ancestry
        <4>2. ASSUME canonical[n] \in batch PROVE FALSE
          <5>1. n > Number[currentBlock]
            BY <3>2, <4>1, <4>2 DEF RewindInv
          <5> QED BY <1>2, <1>3, <3>1, <5>1
        <4> QED BY <4>2
      <3> QED BY <1>1, <1>4, <3>1, <3>2, <3>3
    <2> QED BY <1>1, <2>1 DEF HeadChainCanonical, headVars
  <1>8. HeaderOnChain'
    <2>1. ASSUME NEW h \in {headHeader, currentHeader}, NEW n \in 0..Number[h]
          PROVE  canonical'[n] \in {NoHash, Ancestor[h][n]}
      <3>1. n \in Numbers
        BY <1>2, <1>3
      <3> QED BY <1>4, <3>1 DEF IndexInv, HeaderOnChain
    <2> QED BY <1>1, <2>1 DEF HeaderOnChain, headVars
  <1>9. NoInvalidCanonical'
    BY <1>1, <1>4, NoHashAccepted DEF IndexInv, NoInvalidCanonical, pastVars
  <1>10. CallInv' /\ ReorgInv' /\ HeadInv' /\ PastInv'
    <2>1. CallInv' /\ ReorgInv' /\ HeadInv'
      BY <1>1 DEF CallInv, ReorgInv, HeadInv
    <2>2. PastInv'
      BY <1>1, PastFrame DEF StateRoots, MemoryRoots, stateVars, pastVars
    <2> QED BY <2>1, <2>2
  <1>11. RewindInv'
    BY <1>1, ForgetType DEF RewindInv
  <1> QED BY <1>5, <1>6, <1>7, <1>8, <1>9, <1>10, <1>11 DEF IndexInv

\* LoadLastState keeps the invariant: the head moves down its own chain.
LEMMA LoadLastStateIInv ==
    ASSUME IInv, LoadLastState
    PROVE  IInv'
  <1> USE DEF IInv
  <1>1. PICK n \in Restartable(headBlock) :
          LET b == Ancestor[headBlock][n]
          IN  /\ headBlock' = b
              /\ currentBlock' = b
              /\ currentHeader' = IF headHeader \in blocks THEN headHeader ELSE b
              /\ currentFastBlock' = IF headFast \in blocks THEN headFast ELSE b
    BY DEF LoadLastState
  <1> DEFINE b == Ancestor[headBlock][n]
  <1>2. /\ pc = "load" /\ pc' = "idle" /\ announced' = NoHash
        /\ borrowed' \in BOOLEAN
        /\ UNCHANGED <<chainVars, headHeader, headFast, stateVars, callVars, torn, ghosts>>
    BY DEF LoadLastState, Borrows
  <1>3. /\ headBlock \in Header /\ n \in 0..Number[headBlock]
        /\ Number[headBlock] \in 0..MaxNumber /\ MaxNumber \in Nat
    BY HeaderTree DEF TypeOK, Restartable, Numbers
  <1>4. n \in Numbers /\ n <= Number[headBlock]
    BY <1>3 DEF Numbers
  <1>5. /\ b \in Header /\ Number[b] = n
        /\ \A m \in 0..n : Ancestor[b][m] = Ancestor[headBlock][m]
    BY <1>3, <1>4, Ancestry
  <1>6. TypeOK'
    <2>1. {headBlock', headHeader', headFast'} \subseteq Header
      BY <1>1, <1>2, <1>5 DEF TypeOK
    <2>2. {currentBlock', currentHeader', currentFastBlock'} \subseteq Header
      BY <1>1, <1>5 DEF TypeOK
    <2> QED BY <1>2, <2>1, <2>2 DEF TypeOK, chainVars, stateVars, callVars
  <1>7. ASSUME NEW m \in 0..Number[b]
        PROVE  canonical[m] = Ancestor[b][m] /\ canonical[m] \in blocks
    <2>1. m \in 0..n /\ m \in 0..Number[headBlock]
      BY <1>3, <1>5
    <2> QED BY <1>5, <2>1 DEF IndexInv, HeadChainCanonical
  <1>8. HeadsAgree' /\ HeadChainCanonical'
    BY <1>1, <1>2, <1>7 DEF HeadsAgree, HeadChainCanonical, chainVars
  <1>9. HeaderOnChain'
    <2>1. canonical' = canonical /\ headHeader' = headHeader
      BY <1>2 DEF chainVars
    <2>2. currentHeader' \in {headHeader, b}
      BY <1>1
    <2>3. \A m \in 0..Number[headHeader] : canonical[m] \in {NoHash, Ancestor[headHeader][m]}
      BY DEF IndexInv, HeaderOnChain
    <2> QED BY <1>7, <2>1, <2>2, <2>3 DEF HeaderOnChain
  <1>10. NoInvalidCanonical' /\ PastInv'
    <2>1. NoInvalidCanonical'
      BY <1>2 DEF IndexInv, NoInvalidCanonical, chainVars
    <2>2. PastInv'
      BY <1>2, PastFrame DEF StateRoots, MemoryRoots, chainVars, stateVars
    <2> QED BY <2>1, <2>2
  <1>11. CallInv' /\ ReorgInv' /\ HeadInv'
    BY <1>2 DEF CallInv, ReorgInv, HeadInv
  <1>12. RewindInv'
    BY <1>2 DEF RewindInv, callVars
  <1> QED BY <1>6, <1>8, <1>9, <1>10, <1>11, <1>12 DEF IndexInv

\* Stop keeps the invariant.
LEMMA StopIInv ==
    ASSUME IInv, Stop
    PROVE  IInv'
  <1>1. disk' \subseteq StateRoots /\ triegc' \subseteq triegc
    BY DEF Stop, StateRoots
  <1>2. announced' \in Header \cup {NoHash} /\ torn' \in BOOLEAN
    BY DEF Stop, IInv, TypeOK, pastVars
  <1> QED BY <1>1, <1>2, EndsIInv DEF Stop, pastVars

\* Crash keeps the invariant: what is lost was only in memory.
LEMMA CrashIInv ==
    ASSUME IInv, Crash
    PROVE  IInv'
  <1>1. disk' \subseteq StateRoots /\ triegc' \subseteq triegc
    BY DEF Crash, StateRoots
  <1>2. announced' \in Header \cup {NoHash}
    BY DEF Crash, IInv, TypeOK
  <1>3. torn' \in BOOLEAN
    BY Zenon DEF Crash
  <1> QED BY <1>1, <1>2, <1>3, EndsIInv DEF Crash

-----------------------------------------------------------------------------

\* The chain of a fresh database satisfies the invariant.
LEMMA InitIInv == Init => IInv
  <1> SUFFICES ASSUME Init PROVE IInv
    OBVIOUS
  <1> USE DEF Init
  <1>0. /\ Genesis \in Header /\ MaxNumber \in Nat /\ Number[Genesis] = 0
        /\ Difficulty[Genesis] \in Nat /\ Ancestor[Genesis][0] = Genesis
        /\ 0 \in Numbers /\ 0 \in 0 .. MaxNumber + 1
    <2>1. Genesis \in Header /\ MaxNumber \in Nat
      BY HeaderTree
    <2>2. Difficulty[Genesis] \in Nat
      BY HeaderTree
    <2>3. Number[Genesis] = 0 /\ Ancestor[Genesis][0] = Genesis
      BY <2>1, RootIsGenesis
    <2>4. 0 \in Numbers /\ 0 \in 0 .. MaxNumber + 1
      BY <2>1 DEF Numbers
    <2> QED BY <2>1, <2>2, <2>3, <2>4
  <1>1. TypeOK
    <2>1. td \in [Header -> Nat]
      BY <1>0
    <2>2. canonical \in [Numbers -> Header \cup {NoHash}]
      BY <1>0
    <2>3. lookup \in [Tx -> 0..NoEntry]
      <3>1. 0 \in 0..NoEntry /\ NoEntry \in 0..NoEntry
        BY <1>0 DEF NoEntry
      <3> QED BY <3>1
    <2> QED BY <1>0, <2>1, <2>2, <2>3 DEF TypeOK
  <1>2. Genesis \notin Invalid /\ NoHash \notin Invalid
    BY BlockContent, NoHashAccepted
  <1>3. IndexInv
    <2>1. \A n \in 0..0 : n = 0
      OBVIOUS
    <2>2. HeadsAgree /\ HeadChainCanonical /\ HeaderOnChain
      BY <1>0, <2>1 DEF HeadsAgree, HeadChainCanonical, HeaderOnChain
    <2>3. NoInvalidCanonical
      BY <1>0, <1>2 DEF NoInvalidCanonical
    <2> QED BY <2>2, <2>3 DEF IndexInv
  <1>4. PastInv
    <2>1. \A n \in 0..0 : n = 0
      OBVIOUS
    <2>2. Clean(Genesis)
      BY <1>0, <1>2, <2>1 DEF Clean
    <2>3. StateInv
      BY <1>0, <1>2, <2>2 DEF StateInv, StateRoots, MemoryRoots
    <2>4. BlocksInv
      BY <2>2 DEF BlocksInv
    <2> QED BY <2>3, <2>4 DEF PastInv
  <1>5. CallInv /\ ReorgInv /\ HeadInv /\ RewindInv
    BY DEF CallInv, ReorgInv, HeadInv, RewindInv
  <1> QED BY <1>1, <1>3, <1>4, <1>5 DEF IInv

\* Every step keeps the invariant.
LEMMA NextIInv == IInv /\ [Next]_vars => IInv'
  <1> SUFFICES ASSUME IInv, [Next]_vars PROVE IInv'
    OBVIOUS
  <1>1. ASSUME NEW c \in Imports, InsertChain(c[1], c[2]) PROVE IInv'
    <2>1. c[1] \in Header /\ c[2] \in Numbers \ {0}
      BY BlockContent
    <2> QED BY <1>1, <2>1, InsertChainIInv
  <1>2. ASSUME NEW b \in Mined, WriteBlockWithState(b) PROVE IInv'
    BY <1>2, WriteBlockWithStateIInv
  <1>3. ASSUME NEW coin \in BOOLEAN, NEW expired \in BOOLEAN, NEW flushed \in SUBSET MemoryRoots,
               CommitState(coin, flushed, expired)
        PROVE  IInv'
    BY <1>3, CommitStateIInv
  <1>4. ASSUME NEW n \in Rewinds, SetHead(n) PROVE IInv'
    BY <1>4, SetHeadIInv
  <1>5. CASE IgnoreKnown \/ WriteKnownBlock \/ StoreBlock \/ InsertReturns
    BY <1>5, IgnoreKnownIInv, WriteKnownBlockIInv, StoreBlockIInv, InsertReturnsIInv
  <1>6. CASE ReorgStep \/ DeleteIndexes \/ WriteHead
    BY <1>6, ReorgStepIInv, DeleteIndexesIInv, WriteHeadIInv
  <1>7. CASE SideStep \/ SideRefused \/ SideDone
    BY <1>7, SideStepIInv, InsertReturnsIInv, SideDoneIInv
  <1>8. CASE RewindStep \/ RewindDone \/ LoadLastState \/ Stop \/ Crash
    BY <1>8, RewindStepIInv, RewindDoneIInv, LoadLastStateIInv, StopIInv, CrashIInv
  <1>9. CASE UNCHANGED vars
    <2> USE <1>9 DEF vars, chainVars, headVars, stateVars, callVars, pastVars
    <2>1. TypeOK'
      BY DEF IInv, TypeOK
    <2>2. IndexInv'
      BY IndexFrame DEF IInv
    <2>3. CallInv' /\ ReorgInv' /\ HeadInv' /\ RewindInv'
      BY DEF IInv, CallInv, ReorgInv, HeadInv, RewindInv, OnNewChain, Current, Clean, BelowGhost
    <2>4. PastInv'
      BY PastFrame DEF IInv, StateRoots, MemoryRoots
    <2> QED BY <2>1, <2>2, <2>3, <2>4 DEF IInv
  <1> QED BY <1>1, <1>2, <1>3, <1>4, <1>5, <1>6, <1>7, <1>8, <1>9 DEF Next

\* What each point of a call has secured for the batches that follow.
THEOREM Inductive == Spec => []IInv
  BY InitIInv, NextIInv, PTL DEF Spec

\* The state keeps its shape (TypeOK of BlockChain).
THEOREM TypeCorrect == Spec => []TypeOK
  <1>1. IInv => TypeOK
    BY DEF IInv
  <1> QED BY <1>1, Inductive, PTL

\* Through imports, reorganisations, rewinds and a crash after any batch, the
\* canonical index up to the head block is the head's chain and is stored.
THEOREM HeadChain == Spec => []HeadChainCanonical
  <1>1. IInv => HeadChainCanonical
    BY DEF IInv, IndexInv
  <1> QED BY <1>1, Inductive, PTL

\* The header head, in memory and on disk, never contradicts the index.
THEOREM HeaderChainAgrees == Spec => []HeaderOnChain
  <1>1. IInv => HeaderOnChain
    BY DEF IInv, IndexInv
  <1> QED BY <1>1, Inductive, PTL

\* Whatever roots the authors of blocks claim, a refused block becomes canonical
\* only as a ghost or below one: below a block that was stored unexecuted with
\* the root of an accepted block while no canonical block of its height had it
\* (NoInvalidCanonical of BlockChain).
THEOREM OnlyAccepted == Spec => []NoInvalidCanonical
  <1>1. IInv => NoInvalidCanonical
    BY DEF IInv, IndexInv
  <1> QED BY <1>1, Inductive, PTL

-----------------------------------------------------------------------------
(* What the head promises *)

\* The transactions of the chain up to the head are recorded where they are.
HeadRecorded ==
    \A n \in 0 .. Number[headBlock] : \A x \in Txs[canonical[n]] : lookup[x] = n

\* So are those of the chain being inserted, below the block treated now.
NewChainRecorded ==
    \A n \in Numbers : n < next => \A x \in Txs[Ancestor[tip][n]] : lookup[x] = n

\* A reorg knows the head it leaves and where the chains part; either it has
\* written nothing yet, or the last block it wrote is the current one.
ReorgFrom ==
    /\ pc \notin {"reorg", "head"} => oldHead = NoHash
    /\ pc = "reorg" =>
          /\ oldHead \in Header /\ common \in Numbers
          /\ IsCommon(common, Current, oldHead)
          /\ \/ walk = common + 1 /\ currentBlock = oldHead
             \/ common + 1 < walk /\ walk <= next /\ currentBlock = Ancestor[tip][walk - 1]

\* The lookups of the old chain are deleted before the new head is written:
\* only if reorg wrote no block in between is the head's chain incomplete.
LookupInv ==
    /\ ReorgFrom
    /\ ~torn =>
          /\ ~(pc = "head" /\ oldHead = currentBlock) => HeadRecorded
          /\ pc = "head" => NewChainRecorded

\* Who was told of the head: the subscribers, or the call will tell them.
AnnouncedInv ==
    /\ pc = "idle" => announced \in {NoHash, currentBlock}
    /\ pc \in {"import", "rewrite", "execute", "commit", "side"} =>
          announced \in {NoHash, currentBlock} \/ lastCanon = currentBlock

\* No stored block is so far above the head that its state pushes the head's
\* out of memory.
HeadInWindow == \A b \in blocks : Number[b] < Number[currentBlock] + TriesInMemory

\* b's state is on disk, or in memory as that of a block not below b, and so it
\* stays in memory as long as b's own would.
Held(b) == Root[b] \in disk \/ \E e \in triegc : e[1] = Root[b] /\ e[2] >= Number[b]

\* A block about to become the head has its state; a head within the window
\* keeps it, unless it had only the state of a lower block.
HeldInv ==
    /\ pc \in {"reorg", "head"} => HasState(Current)
    /\ pc \in {"idle", "import", "rewrite", "execute", "commit", "side"} =>
          (~borrowed /\ HeadInWindow => Held(currentBlock))

-----------------------------------------------------------------------------
(* The head event                                                          *)

\* A call that returns tells its subscribers of the head it made.
LEMMA ReturnAnnounced ==
    ASSUME AnnouncedInv, Return, UNCHANGED headVars,
           pc \in {"import", "rewrite", "execute", "commit", "side"}
    PROVE  AnnouncedInv'
  BY DEF AnnouncedInv, Return, headVars

\* Every step keeps it.
LEMMA NextAnnounced ==
    ASSUME IInv, AnnouncedInv, [Next]_vars
    PROVE  AnnouncedInv'
  <1> USE DEF AnnouncedInv
  <1>1. ASSUME NEW c \in Imports, InsertChain(c[1], c[2]) PROVE AnnouncedInv'
    BY <1>1 DEF InsertChain, headVars
  <1>2. ASSUME NEW b \in Mined, WriteBlockWithState(b) PROVE AnnouncedInv'
    BY <1>2 DEF WriteBlockWithState, headVars
  <1>3. ASSUME NEW coin \in BOOLEAN, NEW expired \in BOOLEAN, NEW flushed \in SUBSET MemoryRoots,
               CommitState(coin, flushed, expired)
        PROVE  AnnouncedInv'
    <2>1. pc = "commit" /\ UNCHANGED headVars
      BY <1>3 DEF CommitState
    <2>2. CASE ~Reorg(Current, coin)
      BY <1>3, <2>1, <2>2 DEF CommitState, headVars
    <2>3. CASE Reorg(Current, coin) /\ CanBecomeHead(Current)
      <3>1. BecomeHead(Current)
        BY <1>3, <2>3 DEF CommitState
      <3>2. pc' \in {"head", "reorg"}
        BY <3>1 DEF BecomeHead
      <3> QED BY <3>2
    <2>4. CASE Reorg(Current, coin) /\ ~CanBecomeHead(Current)
      <3>1. Return
        BY <1>3, <2>4 DEF CommitState
      <3> QED BY <2>1, <3>1, ReturnAnnounced
    <2> QED BY <2>2, <2>3, <2>4
  <1>4. ASSUME NEW n \in Rewinds, SetHead(n) PROVE AnnouncedInv'
    BY <1>4 DEF SetHead
  <1>5. CASE IgnoreKnown
    BY <1>5 DEF IgnoreKnown, headVars
  <1>6. CASE WriteKnownBlock
    <2>1. pc' \in {"head", "reorg"}
      BY <1>6 DEF WriteKnownBlock, BecomeHead
    <2> QED BY <2>1
  <1>7. CASE StoreBlock
    BY <1>7 DEF StoreBlock, headVars
  <1>8. CASE InsertReturns \/ SideRefused
    BY <1>8, ReturnAnnounced DEF InsertReturns, SideRefused
  <1>9. CASE ReorgStep \/ DeleteIndexes
    BY <1>9 DEF ReorgStep, DeleteIndexes
  <1>10. CASE WriteHead
    <2>1. currentBlock' = Current /\ lastCanon' = Current /\ pc' = loop
      BY <1>10 DEF WriteHead, WriteHeadBlock
    <2>2. loop # "idle"
      BY DEF IInv, TypeOK
    <2> QED BY <2>1, <2>2
  <1>11. CASE SideStep
    BY <1>11 DEF SideStep, headVars
  <1>12. CASE SideDone
    <2>1. pc = "side" /\ UNCHANGED headVars
      BY <1>12 DEF SideDone
    <2>2. CASE Return
      BY <2>1, <2>2, ReturnAnnounced
    <2>3. CASE ~Return
      <3>1. pc' = "import" /\ UNCHANGED <<announced, lastCanon>>
        BY <1>12, <2>3 DEF SideDone
      <3> QED BY <2>1, <3>1 DEF headVars
    <2> QED BY <2>2, <2>3
  <1>13. CASE RewindStep \/ RewindDone \/ Stop \/ Crash
    BY <1>13 DEF RewindStep, RewindDone, Stop, Crash
  <1>14. CASE LoadLastState
    BY <1>14 DEF LoadLastState
  <1>15. CASE UNCHANGED vars
    BY <1>15 DEF vars, headVars, callVars
  <1> QED BY <1>1, <1>2, <1>3, <1>4, <1>5, <1>6, <1>7, <1>8, <1>9, <1>10, <1>11, <1>12, <1>13, <1>14,
             <1>15 DEF Next

\* No import ends with a head its subscribers were not told of: whatever calls,
\* reorganisations and crashes came before (HeadAnnounced of BlockChain).
THEOREM HeadIsAnnounced == Spec => []HeadAnnounced
  <1>1. Init => AnnouncedInv
    BY DEF Init, AnnouncedInv
  <1>2. AnnouncedInv => HeadAnnounced
    BY DEF AnnouncedInv, HeadAnnounced
  <1>3. IInv /\ AnnouncedInv /\ [Next]_vars => AnnouncedInv'
    BY NextAnnounced
  <1> QED BY <1>1, <1>2, <1>3, Inductive, PTL DEF Spec

-----------------------------------------------------------------------------
(* The heaviest block                                                      *)

\* Only two steps end the treatment of a block: one made it the head, the
\* other found it not to outweigh the head.
LEMMA NextNotSkipped ==
    ASSUME IInv, NothingHeavierSkipped, [Next]_vars
    PROVE  NothingHeavierSkipped'
  <1> USE DEF NothingHeavierSkipped
  <1>0. td \in [Header -> Nat] /\ currentBlock \in Header
    BY DEF IInv, TypeOK
  <1>1. ASSUME NEW c \in Imports, InsertChain(c[1], c[2]) PROVE NothingHeavierSkipped'
    BY <1>1 DEF InsertChain
  <1>2. ASSUME NEW b \in Mined, WriteBlockWithState(b) PROVE NothingHeavierSkipped'
    BY <1>2 DEF WriteBlockWithState
  <1>3. ASSUME NEW coin \in BOOLEAN, NEW expired \in BOOLEAN, NEW flushed \in SUBSET MemoryRoots,
               CommitState(coin, flushed, expired)
        PROVE  NothingHeavierSkipped'
    <2>1. CASE ~Reorg(Current, coin)
      <3>1. /\ pc = "commit" /\ next' = next + 1 /\ tip' = tip
            /\ UNCHANGED <<chainVars, headVars>>
        BY <1>3, <2>1 DEF CommitState
      <3>2. 1 <= next /\ next <= Number[tip] /\ next \in Nat /\ tip \in Header
        BY <3>1, Position DEF IInv, CallInv
      <3>3. Current \in Header
        BY <3>2, CurrentInChain
      <3>4. td[Current] <= td[currentBlock]
        <4>1. td[Current] \in Nat /\ td[currentBlock] \in Nat
          BY <1>0, <3>3
        <4>2. ~(td[Current] > td[currentBlock])
          BY <2>1 DEF Reorg
        <4> QED BY <4>1, <4>2
      <3>5. next' - 1 = next /\ tip' = tip
        BY <3>1, <3>2
      <3>6. Ancestor[tip'][next' - 1] = Current
        BY <3>5, Zenon DEF Current
      <3>7. td' = td /\ currentBlock' = currentBlock
        BY <3>1 DEF chainVars, headVars
      <3> QED BY <3>4, <3>6, <3>7
    <2>2. CASE Reorg(Current, coin) /\ CanBecomeHead(Current)
      <3>1. pc' \in {"head", "reorg"}
        BY <1>3, <2>2 DEF CommitState, BecomeHead
      <3> QED BY <3>1
    <2>3. CASE Reorg(Current, coin) /\ ~CanBecomeHead(Current)
      BY <1>3, <2>3 DEF CommitState, Return
    <2> QED BY <2>1, <2>2, <2>3
  <1>4. ASSUME NEW n \in Rewinds, SetHead(n) PROVE NothingHeavierSkipped'
    BY <1>4 DEF SetHead
  <1>5. CASE IgnoreKnown \/ StoreBlock \/ InsertReturns \/ SideRefused \/ SideStep
    BY <1>5 DEF IgnoreKnown, StoreBlock, InsertReturns, SideRefused, SideStep, Return
  <1>6. CASE WriteKnownBlock
    <2>1. pc' \in {"head", "reorg"}
      BY <1>6 DEF WriteKnownBlock, BecomeHead
    <2> QED BY <2>1
  <1>7. CASE ReorgStep \/ DeleteIndexes
    BY <1>7 DEF ReorgStep, DeleteIndexes
  <1>8. CASE WriteHead
    <2>1. /\ pc = "head" /\ next' = next + 1 /\ currentBlock' = Current
          /\ UNCHANGED <<td, tip>>
      BY <1>8 DEF WriteHead, WriteHeadBlock
    <2>2. 1 <= next /\ next <= Number[tip] /\ next \in Nat /\ tip \in Header
      BY <2>1, Position DEF IInv, CallInv
    <2>3. Current \in Header
      BY <2>2, CurrentInChain
    <2>4. td[Current] \in Nat
      BY <1>0, <2>3
    <2>5. td[Current] <= td[Current]
      BY <2>4
    <2>6. next' - 1 = next /\ tip' = tip
      BY <2>1, <2>2
    <2>7. Ancestor[tip'][next' - 1] = Current
      BY <2>6, Zenon DEF Current
    <2> QED BY <2>1, <2>5, <2>7
  <1>9. CASE SideDone
    BY <1>9 DEF SideDone, Return
  <1>10. CASE RewindStep \/ RewindDone \/ Stop \/ Crash \/ LoadLastState
    BY <1>10 DEF RewindStep, RewindDone, Stop, Crash, LoadLastState
  <1>11. CASE UNCHANGED vars
    BY <1>11 DEF vars, chainVars, headVars, callVars
  <1> QED BY <1>1, <1>2, <1>3, <1>4, <1>5, <1>6, <1>7, <1>8, <1>9, <1>10, <1>11 DEF Next

\* An import leaves no block behind that outweighs the head, whether it
\* executed the block, knew it or met it in a side chain
\* (NothingHeavierSkipped of BlockChain).
THEOREM HeaviestWins == Spec => []NothingHeavierSkipped
  <1>1. Init => NothingHeavierSkipped
    BY DEF Init, NothingHeavierSkipped
  <1>2. IInv /\ NothingHeavierSkipped /\ [Next]_vars => NothingHeavierSkipped'
    BY NextNotSkipped
  <1> QED BY <1>1, <1>2, Inductive, PTL DEF Spec

-----------------------------------------------------------------------------
(* The state of the head                                                   *)

\* A state that is available is held for b, unless b borrows it.
LEMMA HeldOrBorrowed ==
    ASSUME TypeOK, NEW b \in Header, HasState(b), ~Borrows(b)
    PROVE  Held(b)
  <1>1. CASE Root[b] \in disk
    BY <1>1 DEF Held
  <1>2. CASE Root[b] \notin disk
    <2>1. PICK e \in triegc : e[1] = Root[b] /\ ~(e[2] < Number[b])
      BY <1>2 DEF HasState, Borrows
    <2>2. e[2] \in Nat /\ Number[b] \in Nat
      <3>1. e[2] \in Numbers
        BY DEF TypeOK
      <3> QED BY <3>1, NumberRange DEF Numbers
    <2> QED BY <2>1, <2>2 DEF Held
  <1> QED BY <1>1, <1>2

\* What is held is available.
LEMMA HeldAvailable ==
    ASSUME NEW b, Held(b)
    PROVE  HasState(b)
  BY DEF Held, HasState, MemoryRoots

\* Committing block b's state makes it available and keeps every state held for
\* a block that is not TriesInMemory blocks or more below it.
LEMMA CommitTrieKeeps ==
    ASSUME TypeOK, NEW b \in Header, NEW flushed, NEW expired,
           CommitTrie(b, flushed, expired)
    PROVE  /\ Root[b] \in StateRoots'
           /\ \A c \in Header :
                 Held(c) /\ Number[b] < Number[c] + TriesInMemory => Held(c)'
  <1> DEFINE held == triegc \cup {<<Root[b], Number[b]>>}
             own  == <<Root[b], Number[b]>>
  <1>1. TriesInMemory \in Nat \ {0} /\ \A c \in Header : Number[c] \in Nat
    BY BlockContent, NumberRange
  <1>2. disk \subseteq disk'
    BY DEF CommitTrie
  <1>3. CASE TrieDirtyDisabled
    <2>1. Root[b] \in disk' /\ triegc' = triegc
      BY <1>3 DEF CommitTrie
    <2> QED BY <1>2, <2>1 DEF Held, StateRoots
  <1>4. CASE ~TrieDirtyDisabled
    <2>1. ASSUME NEW e \in held, e[2] \in Nat, Number[b] < e[2] + TriesInMemory
          PROVE  e \in triegc'
      <3>1. e[2] > Number[b] - TriesInMemory
        BY <1>1, <2>1
      <3> QED BY <1>4, <2>1, <3>1 DEF CommitTrie
    <2>2. Root[b] \in StateRoots'
      <3>1. own \in held /\ own[1] = Root[b] /\ own[2] = Number[b]
        OBVIOUS
      <3>2. Number[b] < Number[b] + TriesInMemory
        BY <1>1
      <3> QED BY <1>1, <2>1, <3>1, <3>2 DEF StateRoots, MemoryRoots
    <2>3. ASSUME NEW c \in Header, Held(c), Number[b] < Number[c] + TriesInMemory
          PROVE  Held(c)'
      <3>1. CASE Root[c] \in disk
        BY <1>2, <3>1 DEF Held
      <3>2. CASE Root[c] \notin disk
        <4>1. PICK e \in triegc : e[1] = Root[c] /\ e[2] >= Number[c]
          BY <2>3, <3>2 DEF Held
        <4>2. e[2] \in Nat
          BY DEF TypeOK, Numbers
        <4>3. Number[b] < e[2] + TriesInMemory /\ e \in held
          BY <1>1, <2>3, <4>1, <4>2
        <4> QED BY <2>1, <4>1, <4>2, <4>3 DEF Held
      <3> QED BY <3>1, <3>2
    <2> QED BY <2>2, <2>3
  <1> QED BY <1>3, <1>4

\* Steps that neither move the head nor change the states, and delete no
\* block, keep what is known of the head's state.
LEMMA HeldFrame ==
    ASSUME HeldInv, UNCHANGED <<stateVars, currentBlock, borrowed>>, blocks \subseteq blocks',
           pc \in {"idle", "import", "rewrite", "execute", "commit", "side"},
           pc' \in {"idle", "import", "rewrite", "execute", "commit", "side"}
    PROVE  HeldInv'
  BY DEF HeldInv, HeadInWindow, Held, stateVars

\* CommitState keeps it: a block that does not become the head leaves the
\* head's state in memory, unless it is numbered too far above it.
LEMMA CommitStateHeld ==
    ASSUME IInv, HeldInv, NEW coin, NEW flushed, NEW expired,
           CommitState(coin, flushed, expired)
    PROVE  HeldInv'
  <1>1. /\ pc = "commit" /\ CommitTrie(Current, flushed, expired)
        /\ UNCHANGED <<chainVars, headVars, pastVars>>
    BY DEF CommitState
  <1>2. /\ 1 <= next /\ next <= Number[tip] /\ next \in Nat /\ tip \in Header
        /\ Current \in blocks /\ currentBlock \in Header
    BY <1>1, Position DEF IInv, CallInv, TypeOK
  <1>3. Current \in Header
    BY <1>2, CurrentInChain
  <1>4. UNCHANGED <<blocks, currentBlock, borrowed>>
    BY <1>1 DEF chainVars, headVars, pastVars
  <1>5. /\ Root[Current] \in StateRoots'
        /\ ~borrowed /\ HeadInWindow => Held(currentBlock)'
    <2>1. HeadInWindow => Number[Current] < Number[currentBlock] + TriesInMemory
      BY <1>2 DEF HeadInWindow
    <2>2. ~borrowed /\ HeadInWindow => Held(currentBlock)
      BY <1>1 DEF HeldInv
    <2>3. /\ Root[Current] \in StateRoots'
          /\ \A c \in Header :
                Held(c) /\ Number[Current] < Number[c] + TriesInMemory => Held(c)'
      <3> HIDE DEF Current
      <3> QED BY <1>1, <1>3, CommitTrieKeeps DEF IInv
    <2>4. Held(currentBlock)' <=> \/ Root[currentBlock] \in disk'
                                 \/ \E e \in triegc' : e[1] = Root[currentBlock] /\ e[2] >= Number[currentBlock]
      BY <1>4 DEF Held
    <2> HIDE DEF Current
    <2> QED BY <1>2, <2>1, <2>2, <2>3, <2>4 DEF Held
  <1>6. CASE pc' \in {"execute", "idle"}
    BY <1>4, <1>5, <1>6 DEF HeldInv, HeadInWindow
  <1>7. CASE pc' \in {"head", "reorg"} /\ UNCHANGED <<tip, next>>
    <2>1. Current' = Current
      BY <1>7 DEF Current
    <2>2. HasState(Current)'
      BY <1>5, <2>1 DEF HasState, StateRoots, MemoryRoots
    <2> QED BY <1>7, <2>2 DEF HeldInv
  <1>8. \/ pc' \in {"execute", "idle"}
        \/ pc' \in {"head", "reorg"} /\ UNCHANGED <<tip, next>>
    BY DEF CommitState, BecomeHead, Return
  <1> QED BY <1>6, <1>7, <1>8

\* Every step keeps it.
LEMMA NextHeld ==
    ASSUME IInv, HeldInv, [Next]_vars
    PROVE  HeldInv'
  <1>1. ASSUME NEW c \in Imports, InsertChain(c[1], c[2]) PROVE HeldInv'
    BY <1>1, HeldFrame DEF InsertChain, headVars, chainVars, pastVars
  <1>2. ASSUME NEW b \in Mined, WriteBlockWithState(b) PROVE HeldInv'
    BY <1>2, HeldFrame DEF WriteBlockWithState, headVars, pastVars
  <1>3. ASSUME NEW coin \in BOOLEAN, NEW expired \in BOOLEAN, NEW flushed \in SUBSET MemoryRoots,
               CommitState(coin, flushed, expired)
        PROVE  HeldInv'
    BY <1>3, CommitStateHeld
  <1>4. ASSUME NEW n \in Rewinds, SetHead(n) PROVE HeldInv'
    BY <1>4 DEF SetHead, HeldInv
  <1>5. CASE IgnoreKnown \/ StoreBlock \/ SideStep
    BY <1>5, HeldFrame DEF IgnoreKnown, StoreBlock, SideStep, headVars, chainVars, pastVars
  <1>6. CASE WriteKnownBlock
    <2>1. pc' \in {"head", "reorg"} /\ HasState(Current) /\ UNCHANGED <<stateVars, tip, next>>
      BY <1>6 DEF WriteKnownBlock, BecomeHead, Known, HasBlockAndState
    <2> QED BY <2>1 DEF HeldInv, HasState, MemoryRoots, Current, stateVars
  <1>7. CASE InsertReturns \/ SideRefused
    BY <1>7, HeldFrame DEF InsertReturns, SideRefused, Return, headVars, chainVars, pastVars
  <1>8. CASE ReorgStep \/ DeleteIndexes
    <2>1. pc = "reorg" /\ pc' \in {"reorg", "head"} /\ UNCHANGED <<stateVars, tip, next>>
      BY <1>8 DEF ReorgStep, DeleteIndexes, callVars
    <2> QED BY <2>1 DEF HeldInv, HasState, MemoryRoots, Current, stateVars
  <1>9. CASE WriteHead
    <2>1. /\ pc = "head" /\ currentBlock' = Current /\ pc' = loop
          /\ borrowed' = Borrows(Current) /\ UNCHANGED stateVars
      BY <1>9 DEF WriteHead, WriteHeadBlock
    <2>2. loop \in {"import", "rewrite", "execute"}
      BY DEF IInv, TypeOK
    <2>3. Current \in Header
      BY <2>1, Position, CurrentInChain DEF IInv, CallInv
    <2>4. ~borrowed' => Held(Current)
      <3> HIDE DEF Current
      <3> QED BY <2>1, <2>3, HeldOrBorrowed DEF IInv, HeldInv
    <2>5. ~borrowed' => Held(currentBlock)'
      <3> HIDE DEF Current
      <3> QED BY <2>1, <2>4 DEF Held, stateVars
    <2> QED BY <2>1, <2>2, <2>5 DEF HeldInv
  <1>10. CASE SideDone
    <2>1. pc = "side" /\ pc' \in {"idle", "import"} /\ UNCHANGED <<chainVars, headVars, stateVars, pastVars>>
      BY <1>10 DEF SideDone, Return
    <2> QED BY <2>1, HeldFrame DEF chainVars, headVars, pastVars
  <1>11. CASE RewindStep \/ RewindDone
    BY <1>11 DEF RewindStep, RewindDone, HeldInv
  <1>12. CASE LoadLastState
    <2>1. PICK n \in Restartable(headBlock) :
             LET b == Ancestor[headBlock][n] IN currentBlock' = b /\ borrowed' = Borrows(b)
      BY <1>12 DEF LoadLastState
    <2> DEFINE b == Ancestor[headBlock][n]
    <2>2. HasState(b) /\ n \in 0..Number[headBlock]
      BY DEF Restartable
    <2>3. b \in Header
      BY <2>2, NumberRange, HeaderTree DEF IInv, TypeOK
    <2>4. pc' = "idle" /\ UNCHANGED stateVars
      BY <1>12 DEF LoadLastState
    <2> HIDE DEF b
    <2>5. ~borrowed' => Held(b)
      BY <2>1, <2>2, <2>3, HeldOrBorrowed DEF IInv, b
    <2>6. ~borrowed' => Held(currentBlock)'
      BY <2>1, <2>4, <2>5 DEF Held, stateVars, b
    <2> QED BY <2>4, <2>6 DEF HeldInv
  <1>13. CASE Stop \/ Crash
    BY <1>13 DEF Stop, Crash, HeldInv
  <1>14. CASE UNCHANGED vars
    BY <1>14 DEF vars, chainVars, headVars, stateVars, callVars, pastVars, HeldInv, HeadInWindow,
                 Held, HasState, MemoryRoots, Current
  <1> QED BY <1>1, <1>2, <1>3, <1>4, <1>5, <1>6, <1>7, <1>8, <1>9, <1>10, <1>11, <1>12, <1>13,
             <1>14 DEF Next

\* The state of the head can be opened between calls, after any
\* reorganisation, rewind or crash, whatever roots the blocks name, as long as
\* no stored block is TriesInMemory blocks or more above the head and the head
\* did not begin with the state of a lower block only (HeadStateAvailable of
\* BlockChain).
THEOREM HeadHasState == Spec => []HeadStateAvailable
  <1>1. Init => HeldInv
    BY DEF Init, HeldInv, Held
  <1>2. HeldInv => HeadStateAvailable
    BY HeldAvailable DEF HeldInv, HeadStateAvailable, HeadInWindow
  <1>3. IInv /\ HeldInv /\ [Next]_vars => HeldInv'
    BY NextHeld
  <1> QED BY <1>1, <1>2, <1>3, Inductive, PTL DEF Spec

-----------------------------------------------------------------------------
(* The transaction lookups                                                 *)

\* A call that leaves index, lookups and head alone and is not in a reorg.
LEMMA LookupFrame ==
    ASSUME LookupInv, UNCHANGED <<canonical, lookup, headBlock, torn>>,
           pc \notin {"reorg", "head"}, pc' \notin {"reorg", "head"},
           oldHead' = NoHash
    PROVE  LookupInv'
  BY DEF LookupInv, ReorgFrom, HeadRecorded

\* The transactions of different blocks of one chain are different.
LEMMA TxsApart ==
    ASSUME NEW b \in Header, NEW n \in Numbers, NEW m \in Numbers,
           n < m, m <= Number[b], NEW x \in Txs[Ancestor[b][n]]
    PROVE  x \notin Txs[Ancestor[b][m]]
  BY BlockContent

\* What is about to become the head finds its chain recorded below it.
LEMMA BecomeHeadLookup ==
    ASSUME IInv, IInv', LookupInv, pc \notin {"reorg", "head"},
           1 <= next, next <= Number[tip], BecomeHead(Current),
           UNCHANGED <<chainVars, headVars, torn, tip, next>>
    PROVE  LookupInv'
  <1>0. /\ tip \in Header /\ next \in Nat /\ currentBlock \in Header
        /\ headBlock = currentBlock /\ NoHash \notin Header
    BY Position, HeaderTree DEF IInv, TypeOK, IndexInv, HeadsAgree
  <1>1. /\ Current \in Header /\ Number[Current] = next
        /\ Number[Parent(Current)] = next - 1 /\ Current' = Current
    BY <1>0, CurrentInChain DEF Current
  <1>2. ~torn => HeadRecorded
    BY DEF LookupInv
  <1>3. HeadRecorded => HeadRecorded'
    BY DEF HeadRecorded, chainVars, headVars
  <1>4. oldHead = NoHash
    BY DEF LookupInv, ReorgFrom
  <1>5. CASE Parent(Current) = currentBlock
    <2>1. pc' = "head" /\ oldHead' = NoHash
      BY <1>4, <1>5 DEF BecomeHead
    <2>2. ReorgFrom'
      BY <2>1 DEF ReorgFrom
    <2>3. ASSUME HeadRecorded, NEW n \in Numbers, n < next, NEW x \in Txs[Ancestor[tip][n]]
          PROVE  lookup[x] = n
      <3>1. n \in 0..Number[headBlock]
        BY <1>0, <1>1, <1>5, <2>3 DEF Numbers
      <3>2. canonical[n] = Ancestor[tip][n]
        BY <2>1, <2>3 DEF IInv, HeadInv, OnNewChain, chainVars
      <3> QED BY <2>3, <3>1, <3>2 DEF HeadRecorded
    <2>4. HeadRecorded => NewChainRecorded'
      BY <2>3 DEF NewChainRecorded, chainVars
    <2> QED BY <1>2, <1>3, <2>1, <2>2, <2>4 DEF LookupInv
  <1>6. CASE Parent(Current) # currentBlock
    <2>1. /\ pc' = "reorg" /\ oldHead' = currentBlock
          /\ \E n \in Numbers : IsCommon(n, Current, currentBlock) /\ common' = n /\ walk' = n + 1
      BY <1>6 DEF BecomeHead
    <2>2. currentBlock' = currentBlock
      BY DEF headVars
    <2>3. ReorgFrom'
      BY <1>0, <1>1, <2>1, <2>2 DEF ReorgFrom, IsCommon
    <2> QED BY <1>2, <1>3, <2>1, <2>3 DEF LookupInv
  <1> QED BY <1>5, <1>6

\* One more block of a chain is made head: its transactions are recorded and
\* they are not those of the blocks below it.
LEMMA WriteHeadBlockRecords ==
    ASSUME IInv, NEW b \in Header, WriteHeadBlock(b),
           \A n \in Numbers : n < Number[b] =>
                /\ canonical[n] = Ancestor[b][n]
                /\ \A x \in Txs[Ancestor[b][n]] : lookup[x] = n
    PROVE  HeadRecorded'
  <1>1. /\ canonical' = [canonical EXCEPT ![Number[b]] = b]
        /\ lookup' = [x \in Tx |-> IF x \in Txs[b] THEN Number[b] ELSE lookup[x]]
        /\ headBlock' = b
    BY DEF WriteHeadBlock
  <1>2. /\ canonical \in [Numbers -> Header \cup {NoHash}]
        /\ Number[b] \in Numbers /\ Number[b] \in Nat /\ Ancestor[b][Number[b]] = b
        /\ Txs \in [Header -> SUBSET Tx]
    BY HeaderTree, NumberRange, BlockContent DEF IInv, TypeOK
  <1>3. ASSUME NEW n \in 0..Number[b], NEW x \in Txs[canonical'[n]]
        PROVE  lookup'[x] = n
    <2>1. n \in Numbers
      BY NumberRange
    <2>2. CASE n = Number[b]
      <3>1. canonical'[n] = b
        BY <1>1, <1>2, <2>2
      <3>2. x \in Txs[b] /\ x \in Tx
        BY <1>2, <1>3, <3>1
      <3> QED BY <1>1, <2>2, <3>2
    <2>3. CASE n # Number[b]
      <3>1. n < Number[b] /\ Number[b] <= Number[b]
        BY <1>2, <2>3
      <3>2. canonical'[n] = Ancestor[b][n] /\ Ancestor[b][n] \in Header
        BY <1>1, <1>2, <2>1, <2>3, <3>1, HeaderTree
      <3>3. x \in Txs[Ancestor[b][n]] /\ x \in Tx /\ lookup[x] = n
        BY <1>2, <1>3, <2>1, <3>1, <3>2
      <3>4. x \notin Txs[b]
        BY <1>2, <2>1, <3>1, <3>3, TxsApart
      <3> QED BY <1>1, <3>3, <3>4
    <2> QED BY <2>2, <2>3
  <1> QED BY <1>1, <1>3 DEF HeadRecorded

\* What reorg has written so far is recorded.
LEMMA ReorgRecorded ==
    ASSUME IInv, LookupInv, pc = "reorg", ~torn, NEW n \in Numbers, n < walk, n < next
    PROVE  /\ canonical[n] = Ancestor[tip][n]
           /\ \A x \in Txs[Ancestor[tip][n]] : lookup[x] = n
  <1>1. canonical[n] = Ancestor[tip][n] /\ walk <= Number[currentBlock] + 1
    BY DEF IInv, ReorgInv, OnNewChain
  <1>2. /\ headBlock = currentBlock /\ Number[currentBlock] \in Nat /\ walk \in Nat
        /\ n \in Nat
    BY NumberRange, HeaderTree DEF IInv, IndexInv, HeadsAgree, TypeOK, Numbers
  <1>3. n \in 0..Number[headBlock]
    BY <1>1, <1>2
  <1>4. HeadRecorded
    BY DEF LookupInv
  <1> QED BY <1>1, <1>3, <1>4 DEF HeadRecorded

\* ReorgStep keeps it.
LEMMA ReorgStepLookup ==
    ASSUME IInv, LookupInv, ReorgStep
    PROVE  LookupInv'
  <1> DEFINE b == Ancestor[tip][walk]
  <1>1. /\ pc = "reorg" /\ walk < next /\ WriteHeadBlock(b) /\ walk' = walk + 1
        /\ UNCHANGED <<pc, tip, next, oldHead, common, torn>>
        /\ currentBlock' = b
    BY DEF ReorgStep, WriteHeadBlock, pastVars
  <1>2. /\ tip \in Header /\ next \in Nat /\ walk \in Nat /\ next <= Number[tip]
        /\ Number[tip] \in 0..MaxNumber /\ MaxNumber \in Nat
    BY <1>1, Position DEF IInv, CallInv, TypeOK
  <1>3. walk \in Numbers /\ walk <= Number[tip]
    BY <1>1, <1>2 DEF Numbers
  <1>4. /\ b \in Header /\ Number[b] = walk
        /\ \A m \in 0..walk : Ancestor[b][m] = Ancestor[tip][m]
    BY <1>2, <1>3, Ancestry
  <1>5. ReorgFrom'
    <2>1. /\ oldHead \in Header /\ common \in Numbers /\ common \in Nat
          /\ IsCommon(common, Current, oldHead)
          /\ common + 1 <= walk
      BY <1>1, <1>2 DEF LookupInv, ReorgFrom, Numbers
    <2>2. Current' = Current
      BY <1>1 DEF Current
    <2>3. IsCommon(common, Current, oldHead)'
      BY <1>1, <2>1, <2>2 DEF IsCommon
    <2>4. common + 1 < walk + 1 /\ walk + 1 <= next
      BY <1>1, <1>2, <2>1
    <2>5. currentBlock' = Ancestor[tip'][walk' - 1]
      <3>1. walk' - 1 = walk /\ tip' = tip
        BY <1>1, <1>2
      <3> QED BY <1>1, <3>1, Zenon
    <2> QED BY <1>1, <2>1, <2>3, <2>4, <2>5 DEF ReorgFrom
  <1>6. ASSUME ~torn PROVE HeadRecorded'
    <2>1. ASSUME NEW n \in Numbers, n < walk
          PROVE  /\ canonical[n] = Ancestor[b][n]
                 /\ \A x \in Txs[Ancestor[b][n]] : lookup[x] = n
      <3>1. n < next /\ n \in 0..walk
        BY <1>1, <1>2, <2>1 DEF Numbers
      <3>2. Ancestor[b][n] = Ancestor[tip][n]
        BY <1>4, <3>1
      <3>3. /\ canonical[n] = Ancestor[tip][n]
            /\ \A x \in Txs[Ancestor[tip][n]] : lookup[x] = n
        BY <1>1, <1>6, <2>1, <3>1, ReorgRecorded
      <3> QED BY <3>2, <3>3
    <2> HIDE DEF b
    <2> QED BY <1>1, <1>4, <2>1, WriteHeadBlockRecords
  <1> QED BY <1>1, <1>5, <1>6 DEF LookupInv

\* DeleteIndexes keeps it: what is deleted occurs above the fork on the old
\* chain, so neither below the fork nor among what the new chain added.
LEMMA DeleteIndexesLookup ==
    ASSUME IInv, IInv', LookupInv, DeleteIndexes
    PROVE  LookupInv'
  <1>1. /\ pc = "reorg" /\ pc' = "head" /\ walk >= next
        /\ lookup' = [x \in Tx |-> IF x \in DeletedTxs \ AddedTxs THEN NoEntry ELSE lookup[x]]
        /\ UNCHANGED <<headVars, callVars, torn>>
    BY DEF DeleteIndexes, pastVars
  <1>2. /\ tip \in Header /\ next \in Nat /\ walk \in Nat /\ 1 <= next /\ next <= Number[tip]
        /\ Number[tip] \in 0..MaxNumber /\ MaxNumber \in Nat
    BY <1>1, Position DEF IInv, CallInv, TypeOK
  <1>3. /\ oldHead \in Header /\ common \in Numbers
        /\ IsCommon(common, Current, oldHead)
        /\ \/ walk = common + 1 /\ currentBlock = oldHead
           \/ common + 1 < walk /\ walk <= next /\ currentBlock = Ancestor[tip][walk - 1]
    BY <1>1 DEF LookupInv, ReorgFrom
  <1>4. /\ Current \in Header /\ Number[Current] = next
        /\ \A n \in 0..next : Ancestor[Current][n] = Ancestor[tip][n]
    BY <1>2, CurrentInChain
  <1>5. /\ common <= next /\ common <= Number[oldHead] /\ common \in Nat
        /\ \A m \in 0..common : Ancestor[Current][m] = Ancestor[oldHead][m]
    <2>1. /\ common <= Number[Current] /\ common <= Number[oldHead] /\ common \in Nat
          /\ Ancestor[Current][common] = Ancestor[oldHead][common]
      BY <1>3 DEF IsCommon, Numbers
    <2> QED BY <1>3, <1>4, <2>1, SharedAncestry
  <1>6. ASSUME ~torn, NEW n \in Numbers, n < next, NEW x \in Txs[Ancestor[tip][n]]
        PROVE  lookup'[x] = n
    <2>1. n < walk /\ n \in Nat /\ n \in 0..next /\ n <= Number[tip]
      BY <1>1, <1>2, <1>6 DEF Numbers
    <2>2. lookup[x] = n
      BY <1>1, <1>6, <2>1, ReorgRecorded
    <2>3. Ancestor[tip][n] \in Header /\ x \in Tx
      BY <1>2, <1>6, HeaderTree, BlockContent
    <2>4. x \notin DeletedTxs \ AddedTxs
      <3>1. CASE n > common
        <4>1. n \in common + 1 .. next - 1
          BY <1>2, <1>5, <1>6, <2>1, <3>1
        <4> QED BY <1>6, <4>1 DEF AddedTxs
      <3>2. CASE ~(n > common)
        <4>1. n \in 0..common
          BY <1>5, <2>1, <3>2
        <4>2. x \in Txs[Ancestor[oldHead][n]]
          BY <1>4, <1>5, <1>6, <2>1, <4>1
        <4>3. ASSUME NEW m \in common + 1 .. Number[oldHead]
              PROVE  x \notin Txs[Ancestor[oldHead][m]]
          <5>1. Number[oldHead] \in Nat /\ m \in 0..Number[oldHead]
            BY <1>3, <1>5, NumberRange
          <5>2. m \in Numbers /\ n < m /\ m <= Number[oldHead]
            BY <1>3, <1>5, <4>1, <5>1, NumberRange
          <5> QED BY <1>3, <1>6, <4>2, <5>2, TxsApart
        <4> QED BY <4>3 DEF DeletedTxs
      <3> QED BY <3>1, <3>2
    <2> QED BY <1>1, <2>2, <2>3, <2>4
  <1>7. ~torn => NewChainRecorded'
    BY <1>1, <1>6 DEF NewChainRecorded, callVars
  <1>8. ASSUME ~torn, oldHead # currentBlock PROVE HeadRecorded'
    <2>1. walk = next /\ currentBlock = Ancestor[tip][next - 1]
      BY <1>1, <1>2, <1>3, <1>8
    <2>2. next - 1 \in Numbers /\ next - 1 <= Number[tip]
      BY <1>2 DEF Numbers
    <2>3. Number[currentBlock] = next - 1 /\ headBlock = currentBlock
      BY <1>2, <2>1, <2>2, Ancestry DEF IInv, IndexInv, HeadsAgree
    <2>4. ASSUME NEW n \in 0 .. next - 1, NEW x \in Txs[canonical'[n]] PROVE lookup'[x] = n
      <3>1. n \in Numbers /\ n < next
        BY <1>2, <2>2 DEF Numbers
      <3>2. canonical'[n] = Ancestor[tip][n]
        BY <1>1, <3>1 DEF IInv, HeadInv, OnNewChain, callVars
      <3> QED BY <1>6, <1>8, <2>4, <3>1, <3>2
    <2>5. headBlock' = headBlock
      BY <1>1 DEF headVars
    <2> QED BY <2>3, <2>4, <2>5 DEF HeadRecorded
  <1>9. ReorgFrom'
    BY <1>1 DEF ReorgFrom
  <1>10. UNCHANGED <<oldHead, currentBlock, torn>>
    BY <1>1 DEF callVars, headVars
  <1> QED BY <1>1, <1>7, <1>8, <1>9, <1>10 DEF LookupInv

\* WriteHead keeps it: below the new head its chain is recorded.
LEMMA WriteHeadLookup ==
    ASSUME IInv, LookupInv, WriteHead
    PROVE  LookupInv'
  <1>1. /\ pc = "head" /\ WriteHeadBlock(Current) /\ pc' = loop /\ oldHead' = NoHash
        /\ torn' = torn
    BY DEF WriteHead
  <1>2. /\ tip \in Header /\ next \in Nat /\ 1 <= next /\ next <= Number[tip]
        /\ loop \in {"import", "rewrite", "execute"}
    BY <1>1, Position DEF IInv, CallInv, TypeOK
  <1>3. /\ Current \in Header /\ Number[Current] = next
        /\ \A n \in 0..next : Ancestor[Current][n] = Ancestor[tip][n]
    BY <1>2, CurrentInChain
  <1>4. ASSUME ~torn PROVE HeadRecorded'
    <2>1. NewChainRecorded
      BY <1>1, <1>4 DEF LookupInv
    <2>2. ASSUME NEW n \in Numbers, n < next
          PROVE  /\ canonical[n] = Ancestor[Current][n]
                 /\ \A x \in Txs[Ancestor[Current][n]] : lookup[x] = n
      <3>1. n \in 0..next
        BY <1>2, <2>2 DEF Numbers
      <3>2. Ancestor[Current][n] = Ancestor[tip][n]
        BY <1>3, <3>1
      <3>3. canonical[n] = Ancestor[tip][n]
        BY <1>1, <2>2 DEF IInv, HeadInv, OnNewChain
      <3> QED BY <2>1, <2>2, <3>2, <3>3 DEF NewChainRecorded
    <2> QED BY <1>1, <1>3, <2>2, WriteHeadBlockRecords
  <1>5. ReorgFrom'
    BY <1>1, <1>2 DEF ReorgFrom
  <1> QED BY <1>1, <1>2, <1>4, <1>5 DEF LookupInv

\* A crash between the last two batches of a reorg that wrote no block is what
\* torn stands for; after any other the head's chain is recorded.
LEMMA CrashLookup ==
    ASSUME LookupInv, Crash
    PROVE  LookupInv'
  <1>1. /\ pc' = "load" /\ oldHead' = NoHash /\ UNCHANGED <<canonical, lookup, headBlock>>
        /\ torn' = (torn \/ (pc = "head" /\ oldHead = currentBlock))
    BY DEF Crash, Forget, chainVars, headVars
  <1>2. ~torn' => ~torn /\ ~(pc = "head" /\ oldHead = currentBlock)
    BY <1>1
  <1>3. ~torn' => HeadRecorded'
    BY <1>1, <1>2 DEF LookupInv, HeadRecorded
  <1> QED BY <1>1, <1>3 DEF LookupInv, ReorgFrom

\* A rewind and a load leave the lookups and move the head down its chain.
LEMMA RewindLookup ==
    ASSUME IInv, IInv', LookupInv, RewindStep \/ RewindDone \/ LoadLastState
    PROVE  LookupInv'
  <1>1. /\ pc \in {"rewind", "load"} /\ pc' \in {"rewind", "load", "idle"}
        /\ UNCHANGED <<lookup, torn>>
    BY DEF RewindStep, RewindDone, LoadLastState, chainVars, pastVars
  <1>2. oldHead = NoHash /\ oldHead' = NoHash
    BY <1>1 DEF LookupInv, ReorgFrom, RewindStep, RewindDone, LoadLastState, Forget, callVars
  <1>3. headBlock \in Header /\ headBlock' \in Header /\ headBlock = currentBlock
    BY DEF IInv, TypeOK, IndexInv, HeadsAgree
  <1>4. Number[headBlock] \in Nat /\ Number[headBlock'] \in Nat
    BY <1>3, NumberRange
  <1>5. /\ Number[headBlock'] <= Number[headBlock]
        /\ \A n \in 0..Number[headBlock'] : canonical'[n] = canonical[n]
    <2>1. CASE RewindStep
      <3> DEFINE parent == IF Parent(currentHeader) \in blocks
                           THEN Parent(currentHeader) ELSE Genesis
      <3>1. /\ canonical' = canonical
            /\ \/ /\ Number[parent] < Number[currentBlock]
                  /\ headBlock' \in {parent, Genesis}
               \/ headBlock' = headBlock
        BY <2>1 DEF RewindStep, chainVars
      <3>2. Number[Genesis] = 0
        BY GenesisIsRoot
      <3> HIDE DEF parent
      <3>3. Number[headBlock'] <= Number[headBlock]
        BY <1>3, <1>4, <3>1, <3>2
      <3> QED BY <3>1, <3>3
    <2>2. CASE RewindDone
      <3>1. headBlock' = headBlock
        BY <2>2 DEF RewindDone, headVars
      <3>2. \A n \in 0..Number[headBlock] :
               canonical'[n] = Ancestor[headBlock][n] /\ canonical[n] = Ancestor[headBlock][n]
        BY <3>1 DEF IInv, IndexInv, HeadChainCanonical
      <3> QED BY <1>4, <3>1, <3>2
    <2>3. CASE LoadLastState
      <3>1. PICK n \in Restartable(headBlock) : headBlock' = Ancestor[headBlock][n]
        BY <2>3 DEF LoadLastState
      <3>2. n \in 0..Number[headBlock] /\ canonical' = canonical
        BY <2>3 DEF Restartable, LoadLastState, chainVars
      <3>3. Number[headBlock'] = n
        <4>1. n \in Numbers /\ n <= Number[headBlock]
          BY <1>3, <1>4, <3>2, NumberRange
        <4> QED BY <1>3, <3>1, <4>1, Ancestry
      <3> QED BY <1>4, <3>2, <3>3
    <2> QED BY <2>1, <2>2, <2>3
  <1>6. HeadRecorded => HeadRecorded'
    <2>1. \A n \in 0..Number[headBlock'] : n \in 0..Number[headBlock]
      BY <1>4, <1>5
    <2> QED BY <1>1, <1>5, <2>1 DEF HeadRecorded
  <1>7. ~torn => HeadRecorded
    BY <1>1 DEF LookupInv
  <1> QED BY <1>1, <1>2, <1>6, <1>7 DEF LookupInv, ReorgFrom

\* Every step keeps it.
LEMMA NextLookup ==
    ASSUME IInv, IInv', LookupInv, [Next]_vars
    PROVE  LookupInv'
  <1>0. pc \notin {"reorg", "head"} => oldHead = NoHash
    BY DEF LookupInv, ReorgFrom
  <1>1. ASSUME NEW c \in Imports, InsertChain(c[1], c[2]) PROVE LookupInv'
    BY <1>0, <1>1, LookupFrame DEF InsertChain, headVars, chainVars, pastVars
  <1>2. ASSUME NEW b \in Mined, WriteBlockWithState(b) PROVE LookupInv'
    BY <1>0, <1>2, LookupFrame DEF WriteBlockWithState, headVars, pastVars
  <1>3. ASSUME NEW coin \in BOOLEAN, NEW expired \in BOOLEAN, NEW flushed \in SUBSET MemoryRoots,
               CommitState(coin, flushed, expired)
        PROVE  LookupInv'
    <2>1. pc = "commit" /\ UNCHANGED <<chainVars, headVars, torn>>
      BY <1>3 DEF CommitState, pastVars
    <2>2. CASE Reorg(Current, coin) /\ CanBecomeHead(Current)
      <3>1. BecomeHead(Current) /\ UNCHANGED <<tip, next>>
        BY <1>3, <2>2 DEF CommitState
      <3>2. 1 <= next /\ next <= Number[tip]
        BY <2>1 DEF IInv, CallInv
      <3> QED BY <2>1, <3>1, <3>2, BecomeHeadLookup
    <2>3. CASE ~(Reorg(Current, coin) /\ CanBecomeHead(Current))
      <3>1. pc' \in {"execute", "idle"} /\ oldHead' = NoHash
        BY <1>0, <1>3, <2>1, <2>3 DEF CommitState, Return, Forget
      <3> QED BY <2>1, <3>1, LookupFrame DEF chainVars, headVars
    <2> QED BY <2>2, <2>3
  <1>4. ASSUME NEW n \in Rewinds, SetHead(n) PROVE LookupInv'
    BY <1>0, <1>4, LookupFrame DEF SetHead, chainVars, headVars, pastVars
  <1>5. CASE IgnoreKnown \/ StoreBlock \/ SideStep
    BY <1>0, <1>5, LookupFrame DEF IgnoreKnown, StoreBlock, SideStep, chainVars, headVars, pastVars
  <1>6. CASE WriteKnownBlock
    <2>1. /\ pc \in {"import", "rewrite", "execute"} /\ More /\ BecomeHead(Current)
          /\ UNCHANGED <<chainVars, headVars, torn, tip, next>>
      BY <1>6 DEF WriteKnownBlock, pastVars
    <2>2. 1 <= next /\ next <= Number[tip]
      BY <2>1 DEF IInv, CallInv, More
    <2> QED BY <2>1, <2>2, BecomeHeadLookup
  <1>7. CASE InsertReturns \/ SideRefused
    BY <1>7, LookupFrame DEF InsertReturns, SideRefused, Return, Forget, chainVars, headVars, pastVars
  <1>8. CASE SideDone
    <2>1. pc = "side" /\ UNCHANGED <<chainVars, headVars, torn>>
      BY <1>8 DEF SideDone, pastVars
    <2>2. pc' \in {"idle", "import"} /\ oldHead' = NoHash
      BY <1>0, <1>8, <2>1 DEF SideDone, Return, Forget
    <2> QED BY <2>1, <2>2, LookupFrame DEF chainVars, headVars
  <1>9. CASE Stop
    BY <1>9, LookupFrame DEF Stop, Forget, chainVars, headVars, pastVars
  <1>10. CASE UNCHANGED vars
    BY <1>10 DEF vars, chainVars, headVars, callVars, pastVars, LookupInv, ReorgFrom, HeadRecorded,
                 NewChainRecorded, IsCommon, Current
  <1> QED BY <1>1, <1>2, <1>3, <1>4, <1>5, <1>6, <1>7, <1>8, <1>9, <1>10, ReorgStepLookup,
             DeleteIndexesLookup, WriteHeadLookup, CrashLookup, RewindLookup DEF Next

\* Nothing is recorded of a fresh chain but the transactions of genesis.
LEMMA InitLookup == Init => LookupInv
  <1> SUFFICES ASSUME Init PROVE LookupInv
    OBVIOUS
  <1>1. Number[Genesis] = 0 /\ Genesis \in Header /\ 0 \in Numbers /\ Txs[Genesis] \subseteq Tx
    BY HeaderTree, GenesisIsRoot, BlockContent DEF Numbers
  <1>2. \A n \in 0..0 : n = 0
    OBVIOUS
  <1>3. HeadRecorded
    BY <1>1, <1>2 DEF Init, HeadRecorded
  <1> QED BY <1>3 DEF Init, LookupInv, ReorgFrom

\* Every transaction of the head's chain is found under the number of its
\* block, during every import and reorganisation and after a crash at any
\* batch but the last but one of a reorg that had written no block
\* (LookupComplete of BlockChain).
THEOREM LookupsComplete == Spec => []LookupComplete
  <1>1. IInv /\ IInv' /\ LookupInv /\ [Next]_vars => LookupInv'
    BY NextLookup
  <1>2. LookupInv => LookupComplete
    BY DEF LookupInv, LookupComplete, HeadRecorded
  <1> QED BY <1>1, <1>2, InitLookup, Inductive, PTL DEF Spec
=============================================================================
