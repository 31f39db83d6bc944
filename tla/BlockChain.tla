----------------------------- MODULE BlockChain -----------------------------
(***************************************************************************)
(* The block chain under full synchronisation (blockchain.go): importing   *)
(* and mining blocks, side chains whose parent state was pruned,           *)
(* reorganisations, the garbage collection of state tries, rewinds, clean  *)
(* shutdown, crash and recovery.                                           *)
(*                                                                         *)
(* All writers hold chainmu, so one call is in flight at a time; each      *)
(* database batch is one action and the process may die between any two.   *)
(* A state is named by its root; its trie lives in memory until it is      *)
(* flushed, and only what is on disk survives a crash.  In the map of      *)
(* the chain a header stands for its block: under full synchronisation     *)
(* header, body and total difficulty are written and deleted together.     *)
(* Chains that VerifyHeaders or ValidateBody refuse change nothing beyond  *)
(* their accepted prefix and so are not enumerated.                        *)
(***************************************************************************)
EXTENDS ChainTree

CONSTANTS
    Root,               \* Root[b]: header.Root, the state after block b
    Tx,                 \* the transactions
    Txs,                \* Txs[b]: the transactions of block b
    Invalid,            \* blocks refused when they are executed on the state their
                        \* parent's root names, or for the state that leaves
    TriesInMemory,      \* states kept in memory below the block just written
    TrieDirtyDisabled,  \* archive mode: every state is flushed at once
    \* what is asked of the chain
    Imports,            \* chains offered to InsertChain: last block, first number
    Mined,              \* blocks this node mines
    Rewinds             \* numbers SetHead is called with

ASSUME BlockContent ==
    /\ TriesInMemory \in Nat \ {0}
    /\ TrieDirtyDisabled \in BOOLEAN
    /\ Invalid \subseteq Header \ {Genesis}
    /\ Txs \in [Header -> SUBSET Tx]
    /\ DOMAIN Root = Header
    /\ Imports \subseteq Header \X (Numbers \ {0})
    /\ Mined \subseteq Header \ (Invalid \cup {Genesis})
    /\ Rewinds \subseteq Numbers
    \* a transaction occurs once on the way to a block
    /\ \A b \in Header, n, m \in Numbers :
          n < m /\ m <= Number[b] =>
             Txs[Ancestor[b][n]] \cap Txs[Ancestor[b][m]] = {}

VARIABLES
    \* the database
    blocks,             \* blocks stored, with header and total difficulty
    td,                 \* td[b]: total difficulty of block b
    canonical,          \* canonical[n]: hash of the canonical block n
    lookup,             \* lookup[x]: block number recorded for transaction x
    headBlock, headHeader, headFast,    \* the LastBlock, LastHeader and LastFast markers
    disk,               \* roots whose trie is on disk
    \* memory
    currentBlock, currentHeader, currentFastBlock,
    triegc,             \* <<root, number>>: tries held in memory
    announced,          \* block of the last ChainHeadEvent, NoHash since a (re)load
    \* the call in flight
    pc,                 \* what it does next
    loop,               \* the loop of insertChain it is in
    tip, next,          \* insertChain: last block of the chain, number to treat
    lastCanon,          \* insertChain: the last block made head
    oldHead, common, walk,  \* reorg: the head it leaves, the number of commonBlock,
                        \* the number to write next
    target, batch,      \* SetHead: the number to rewind to, blocks to delete
    \* history
    torn,               \* a crash came between the two batches that end a reorg
    ghosts,             \* blocks stored unexecuted with the root of another block,
                        \* when no canonical block of their height had it
    borrowed            \* when the head was made its state was there only as that
                        \* of a block with a lower number

headVars  == <<headBlock, headHeader, headFast, currentBlock, currentHeader, currentFastBlock>>
chainVars == <<blocks, td, canonical, lookup>>
stateVars == <<disk, triegc>>
callVars  == <<loop, tip, next, lastCanon, oldHead, common, walk, target, batch>>
pastVars  == <<torn, ghosts, borrowed>>
vars      == <<chainVars, headVars, stateVars, announced, pc, callVars, pastVars>>

-----------------------------------------------------------------------------

\* No lookup entry.
NoEntry == MaxNumber + 1

Init ==
    /\ blocks = {Genesis}
    /\ td = [b \in Header |-> IF b = Genesis THEN Difficulty[b] ELSE 0]
    /\ canonical = [n \in Numbers |-> IF n = 0 THEN Genesis ELSE NoHash]
    /\ lookup = [x \in Tx |-> IF x \in Txs[Genesis] THEN 0 ELSE NoEntry]
    /\ headBlock = Genesis /\ headHeader = Genesis /\ headFast = Genesis
    /\ currentBlock = Genesis /\ currentHeader = Genesis /\ currentFastBlock = Genesis
    /\ disk = {Root[Genesis]} /\ triegc = {}
    /\ announced = NoHash
    /\ pc = "idle" /\ loop = "import"
    /\ tip = Genesis /\ next = 0 /\ lastCanon = NoHash
    /\ oldHead = NoHash /\ common = 0 /\ walk = 0 /\ target = 0 /\ batch = {}
    /\ torn = FALSE /\ ghosts = {} /\ borrowed = FALSE

\* The locals of the call in flight are gone.
Forget ==
    /\ loop' = "import" /\ tip' = Genesis /\ next' = 0 /\ lastCanon' = NoHash
    /\ oldHead' = NoHash /\ common' = 0 /\ walk' = 0 /\ target' = 0 /\ batch' = {}

\* insertChain returns: its deferred function announces the new head.
Return ==
    /\ pc' = "idle"
    /\ announced' = IF lastCanon = currentBlock THEN currentBlock ELSE announced
    /\ Forget

MemoryRoots == {e[1] : e \in triegc}

HasState(b) == Root[b] \in disk \cup MemoryRoots

HasBlockAndState(b) == b \in blocks /\ HasState(b)

\* b's state is there only as that of a block with a lower number.
Borrows(b) ==
    /\ Root[b] \in MemoryRoots \ disk
    /\ \A e \in triegc : e[1] = Root[b] => e[2] < Number[b]

\* The block the running insertion treats now.
Current == Ancestor[tip][next]

More == next <= Number[tip]

\* The answers of ValidateBody: ErrKnownBlock, ErrPrunedAncestor, nil.
Known(b)  == HasBlockAndState(b)
Pruned(b) == ~Known(b) /\ Parent(b) \in blocks /\ ~HasState(Parent(b))
Fresh(b)  == ~Known(b) /\ HasBlockAndState(Parent(b))

-----------------------------------------------------------------------------
(***************************************************************************)
(* Head changes.                                                           *)
(***************************************************************************)

\* writeHeadBlock: one batch with the canonical entry, the transaction
\* lookups and the head markers; the header and fast heads follow only when
\* the block was not canonical already.
WriteHeadBlock(b) ==
    /\ canonical' = [canonical EXCEPT ![Number[b]] = b]
    /\ lookup' = [x \in Tx |-> IF x \in Txs[b] THEN Number[b] ELSE lookup[x]]
    /\ headBlock' = b
    /\ currentBlock' = b
    /\ IF canonical[Number[b]] # b
       THEN /\ headHeader' = b /\ headFast' = b
            /\ currentHeader' = b /\ currentFastBlock' = b
       ELSE UNCHANGED <<headHeader, headFast, currentHeader, currentFastBlock>>

\* n is the number of the last common ancestor of b and c.
IsCommon(n, b, c) ==
    /\ n <= Number[b] /\ n <= Number[c]
    /\ Ancestor[b][n] = Ancestor[c][n]
    /\ \A m \in Numbers : n < m /\ m <= Number[b] /\ m <= Number[c]
                            => Ancestor[b][m] # Ancestor[c][m]

\* reorg reads every block on the way from b and c down to their common
\* ancestor; a missing one is "invalid old chain" or "invalid new chain".
Connected(b, c) ==
    \E n \in Numbers :
        /\ IsCommon(n, b, c)
        /\ \A m \in n .. Number[b] - 1 : Ancestor[b][m] \in blocks
        /\ \A m \in n .. Number[c] - 1 : Ancestor[c][m] \in blocks

CanBecomeHead(b) == Parent(b) = currentBlock \/ Connected(b, currentBlock)

\* Make b the head: directly on top of the current block, or through reorg.
BecomeHead(b) ==
    IF Parent(b) = currentBlock
    THEN pc' = "head" /\ UNCHANGED <<oldHead, common, walk>>
    ELSE /\ pc' = "reorg"
         /\ oldHead' = currentBlock
         /\ \E n \in Numbers :
               IsCommon(n, b, currentBlock) /\ common' = n /\ walk' = n + 1

\* reorg makes the blocks of the new chain head one after the other, from
\* the oldest to the parent of the new head.
ReorgStep ==
    /\ pc = "reorg"
    /\ walk < next
    /\ WriteHeadBlock(Ancestor[tip][walk])
    /\ walk' = walk + 1
    /\ UNCHANGED <<blocks, td, stateVars, announced, pc, loop, tip, next, lastCanon,
                   oldHead, common, target, batch, pastVars>>

\* Mutant: transactions the new chain includes again are not excepted.
NoAddedTxs == {}

\* deletedTxs and addedTxs of reorg: the new head's are not among the added.
DeletedTxs == UNION {Txs[Ancestor[oldHead][n]] : n \in common + 1 .. Number[oldHead]}
AddedTxs   == UNION {Txs[Ancestor[tip][n]] : n \in common + 1 .. next - 1}

\* The last batch of reorg: the lookups of transactions that only the old
\* chain had and the canonical entries above the current block go.
DeleteIndexes ==
    /\ pc = "reorg"
    /\ walk >= next
    /\ lookup' = [x \in Tx |-> IF x \in DeletedTxs \ AddedTxs THEN NoEntry ELSE lookup[x]]
    /\ canonical' = [n \in Numbers |->
                        IF /\ n > Number[currentBlock]
                           /\ \A i \in Number[currentBlock] + 1 .. n : canonical[i] # NoHash
                        THEN NoHash ELSE canonical[n]]
    /\ pc' = "head"
    /\ UNCHANGED <<blocks, td, headVars, stateVars, announced, callVars, pastVars>>

\* Mutant: a known block made head is not remembered for the head event.
WriteHeadSilent ==
    /\ pc = "head"
    /\ WriteHeadBlock(Current)
    /\ lastCanon' = IF loop = "rewrite" THEN lastCanon ELSE Current
    /\ next' = next + 1
    /\ pc' = loop
    /\ oldHead' = NoHash /\ common' = 0 /\ walk' = 0
    /\ borrowed' = Borrows(Current)
    /\ UNCHANGED <<blocks, td, stateVars, announced, loop, tip, target, batch, torn, ghosts>>

\* The caller of reorg makes the new block the head.
WriteHead ==
    /\ pc = "head"
    /\ WriteHeadBlock(Current)
    /\ lastCanon' = Current
    /\ next' = next + 1
    /\ pc' = loop
    /\ oldHead' = NoHash /\ common' = 0 /\ walk' = 0
    /\ borrowed' = Borrows(Current)
    /\ UNCHANGED <<blocks, td, stateVars, announced, loop, tip, target, batch, torn, ghosts>>

-----------------------------------------------------------------------------
(***************************************************************************)
(* InsertChain and WriteBlockWithState.                                    *)
(***************************************************************************)

\* A contiguous chain whose first parent is stored reaches the import loop.
InsertChain(b, n) ==
    /\ pc = "idle"
    /\ n <= Number[b]
    /\ Ancestor[b][n - 1] \in blocks
    /\ pc' = "import" /\ loop' = "import"
    /\ tip' = b /\ next' = n
    /\ UNCHANGED <<chainVars, headVars, stateVars, announced,
                   lastCanon, oldHead, common, walk, target, batch, pastVars>>

\* Leading known blocks that are not heavier than the head are skipped.
IgnoreKnown ==
    /\ pc = "import"
    /\ More
    /\ Known(Current)
    /\ td[Current] <= td[currentBlock]
    /\ next' = next + 1
    /\ UNCHANGED <<chainVars, headVars, stateVars, announced, pc, loop, tip,
                   lastCanon, oldHead, common, walk, target, batch, pastVars>>

\* writeKnownBlock: from the first heavier one on, known blocks are made
\* head; so is every known block that follows an executed one.
WriteKnownBlock ==
    /\ pc \in {"import", "rewrite", "execute"}
    /\ More
    /\ Known(Current)
    /\ pc = "import" => td[Current] > td[currentBlock]
    /\ CanBecomeHead(Current)
    /\ BecomeHead(Current)
    /\ loop' = IF pc = "execute" THEN "execute" ELSE "rewrite"
    /\ UNCHANGED <<chainVars, headVars, stateVars, announced,
                   tip, next, lastCanon, target, batch, pastVars>>

\* First batch of writeBlockWithState, after the block was executed on its
\* parent's state: the block, its total difficulty and its receipts.
StoreBlock ==
    /\ pc \in {"import", "rewrite", "execute"}
    /\ More
    /\ Fresh(Current)
    /\ Current \notin Invalid
    /\ blocks' = blocks \cup {Current}
    /\ td' = [td EXCEPT ![Current] = td[Parent(Current)] + Difficulty[Current]]
    /\ pc' = "commit" /\ loop' = "execute"
    /\ UNCHANGED <<canonical, lookup, headVars, stateVars, announced,
                   tip, next, lastCanon, oldHead, common, walk, target, batch, pastVars>>

\* A block mined here, on a parent that need not be the head any more.
WriteBlockWithState(b) ==
    /\ pc = "idle"
    /\ HasBlockAndState(Parent(b))
    /\ blocks' = blocks \cup {b}
    /\ td' = [td EXCEPT ![b] = td[Parent(b)] + Difficulty[b]]
    /\ pc' = "commit" /\ loop' = "execute"
    /\ tip' = b /\ next' = Number[b]
    /\ UNCHANGED <<canonical, lookup, headVars, stateVars, announced,
                   lastCanon, oldHead, common, walk, target, batch, pastVars>>

\* Mutant: the longer chain wins, whatever it weighs.
ReorgToLonger(b, coin) ==
    Number[b] > Number[currentBlock] \/ (Number[b] = Number[currentBlock] /\ coin)

\* Whether block b becomes the head: the heavier chain wins, then the shorter
\* one, then shouldPreserve or a coin.
Reorg(b, coin) ==
    \/ td[b] > td[currentBlock]
    \/ /\ td[b] = td[currentBlock]
       /\ \/ Number[b] < Number[currentBlock]
          \/ Number[b] = Number[currentBlock] /\ coin

\* Mutant: the window of tries kept in memory is one block too short.
CommitTrieEarly(b, flushed, expired) ==
    IF TrieDirtyDisabled
    THEN disk' = disk \cup {Root[b]} /\ triegc' = triegc
    ELSE LET held == triegc \cup {<<Root[b], Number[b]>>}
         IN  /\ disk' = disk
             /\ triegc' = {e \in held : e[2] + TriesInMemory > Number[b] + 1}

\* The trie of the new block enters memory; once blocks are numbered above
\* TriesInMemory, memory may be capped (flushed), the canonical trie that
\* leaves the window may be flushed (expired), and older ones are dropped.
CommitTrie(b, flushed, expired) ==
    IF TrieDirtyDisabled
    THEN disk' = disk \cup {Root[b]} /\ triegc' = triegc
    ELSE LET held   == triegc \cup {<<Root[b], Number[b]>>}
             roots  == {e[1] : e \in held}
             chosen == Number[b] - TriesInMemory
         IN  IF Number[b] <= TriesInMemory
             THEN disk' = disk /\ triegc' = held
             ELSE /\ triegc' = {e \in held : e[2] > chosen}
                  /\ disk' = disk \cup (flushed \cap roots) \cup
                        IF expired /\ canonical[chosen] \in blocks
                        THEN {Root[canonical[chosen]]} \cap roots ELSE {}

\* The rest of writeBlockWithState up to the next batch.
CommitState(coin, flushed, expired) ==
    /\ pc = "commit"
    /\ CommitTrie(Current, flushed, expired)
    /\ IF ~Reorg(Current, coin)
       THEN /\ pc' = "execute" /\ next' = next + 1
            /\ UNCHANGED <<announced, loop, tip, lastCanon, oldHead, common, walk, target, batch>>
       ELSE IF CanBecomeHead(Current)
       THEN /\ BecomeHead(Current)
            /\ UNCHANGED <<announced, loop, tip, next, lastCanon, target, batch>>
       ELSE Return
    /\ UNCHANGED <<chainVars, headVars, pastVars>>

\* The import ends: the chain is exhausted, a block is refused, a known block
\* is not connected to the head.
InsertReturns ==
    /\ pc \in {"import", "rewrite", "execute"}
    /\ More => \/ Fresh(Current) /\ Current \in Invalid
               \/ pc # "import" /\ Pruned(Current)
               \/ /\ Known(Current)
                  /\ pc = "import" => td[Current] > td[currentBlock]
                  /\ ~CanBecomeHead(Current)
    /\ Return
    /\ UNCHANGED <<chainVars, headVars, stateVars, pastVars>>

-----------------------------------------------------------------------------
(***************************************************************************)
(* insertSideChain: blocks whose parent's state was pruned are stored      *)
(* without being executed; if they outweigh the head, the import starts    *)
(* over at the last ancestor whose state is still available.               *)
(***************************************************************************)

\* GetBlockByNumber, asked only up to the head.
CanonicalAt(n) ==
    IF n <= Number[currentBlock] /\ canonical[n] \in blocks THEN canonical[n] ELSE NoHash

\* The canonical block at b's height has b's state root: "sidechain
\* ghost-state attack".
GhostState(b) ==
    LET c == CanonicalAt(Number[b])
    IN  c \notin {b, NoHash} /\ Root[c] = Root[b]

\* The new block claims the state that another, accepted one leaves.
UnseenGhost ==
    {b \in {Current} \ blocks : \E c \in Header \ (Invalid \cup {b}) : Root[c] = Root[b]}

\* Mutant: a block with the root of the canonical one is stored all the same.
SideStepGhost ==
    /\ pc \in {"import", "side"}
    /\ More
    /\ Pruned(Current)
    /\ blocks' = blocks \cup {Current}
    /\ td' = IF Current \in blocks THEN td
             ELSE [td EXCEPT ![Current] = td[Parent(Current)] + Difficulty[Current]]
    /\ ghosts' = IF GhostState(Current) THEN ghosts ELSE ghosts \cup UnseenGhost
    /\ next' = next + 1
    /\ pc' = "side"
    /\ UNCHANGED <<canonical, lookup, headVars, stateVars, announced, loop, tip,
                   lastCanon, oldHead, common, walk, target, batch, torn, borrowed>>

SideStep ==
    /\ pc \in {"import", "side"}
    /\ More
    /\ Pruned(Current)
    /\ ~GhostState(Current)
    /\ blocks' = blocks \cup {Current}
    /\ td' = IF Current \in blocks THEN td
             ELSE [td EXCEPT ![Current] = td[Parent(Current)] + Difficulty[Current]]
    /\ ghosts' = ghosts \cup UnseenGhost
    /\ next' = next + 1
    /\ pc' = "side"
    /\ UNCHANGED <<canonical, lookup, headVars, stateVars, announced, loop, tip,
                   lastCanon, oldHead, common, walk, target, batch, torn, borrowed>>

SideRefused ==
    /\ pc \in {"import", "side"}
    /\ More
    /\ Pruned(Current)
    /\ GhostState(Current)
    /\ Return
    /\ UNCHANGED <<chainVars, headVars, stateVars, pastVars>>

\* Numbers of b's ancestors from which b can be imported again: the walk
\* down from b finds a state there, and nowhere above.
Restartable(b) ==
    {n \in 0..Number[b] :
        /\ HasState(Ancestor[b][n])
        /\ \A m \in n..Number[b] : Ancestor[b][m] \in blocks
        /\ \A m \in n + 1 .. Number[b] : ~HasState(Ancestor[b][m])}

SideDone ==
    LET last == Ancestor[tip][next - 1]
    IN  /\ pc = "side"
        /\ More => ~Pruned(Current)
        /\ \/ /\ \/ td[currentBlock] > td[last]
                 \/ Restartable(last) \subseteq {Number[last]}
              /\ Return
           \/ \E n \in Restartable(last) \ {Number[last]} :
                 /\ td[currentBlock] <= td[last]
                 /\ pc' = "import" /\ tip' = last /\ next' = n + 1
                 /\ UNCHANGED <<announced, loop, lastCanon, oldHead, common, walk, target, batch>>
        /\ UNCHANGED <<chainVars, headVars, stateVars, pastVars>>

-----------------------------------------------------------------------------
(***************************************************************************)
(* SetHead, recovery and shutdown.                                         *)
(***************************************************************************)

SetHead(n) ==
    /\ pc = "idle"
    /\ pc' = "rewind"
    /\ target' = n
    /\ UNCHANGED <<chainVars, headVars, stateVars, announced, pastVars,
                   loop, tip, next, lastCanon, oldHead, common, walk, batch>>

\* Mutant: the callback does not move the head block.
RewindStepHeaderOnly ==
    LET parent == IF Parent(currentHeader) \in blocks THEN Parent(currentHeader) ELSE Genesis
    IN  /\ pc = "rewind"
        /\ Number[currentHeader] > target
        /\ headHeader' = Parent(currentHeader)
        /\ currentHeader' = parent
        /\ batch' = batch \cup {currentHeader}
        /\ UNCHANGED <<chainVars, headBlock, currentBlock, headFast, currentFastBlock,
                       stateVars, announced, pc, pastVars,
                       loop, tip, next, lastCanon, oldHead, common, walk, target>>

\* One iteration of HeaderChain.SetHead with the callbacks of BlockChain.
\* The head block falls back to genesis when the state it would move to is
\* gone.
RewindStep ==
    LET parent == IF Parent(currentHeader) \in blocks THEN Parent(currentHeader) ELSE Genesis
        moved  == IF HasState(parent) THEN parent ELSE Genesis
    IN  /\ pc = "rewind"
        /\ Number[currentHeader] > target
        /\ IF Number[parent] < Number[currentBlock]
           THEN headBlock' = moved /\ currentBlock' = moved
           ELSE UNCHANGED <<headBlock, currentBlock>>
        /\ IF Number[parent] < Number[currentFastBlock]
           THEN headFast' = parent /\ currentFastBlock' = parent
           ELSE UNCHANGED <<headFast, currentFastBlock>>
        /\ headHeader' = Parent(currentHeader)
        /\ currentHeader' = parent
        /\ batch' = batch \cup {currentHeader}
        /\ UNCHANGED <<chainVars, stateVars, announced, pc, pastVars,
                       loop, tip, next, lastCanon, oldHead, common, walk, target>>

\* The deletions of all iterations are one batch.
RewindDone ==
    /\ pc = "rewind"
    /\ Number[currentHeader] <= target
    /\ blocks' = blocks \ batch
    /\ td' = [b \in Header |-> IF b \in batch THEN 0 ELSE td[b]]
    /\ canonical' = [n \in Numbers |->
                        IF \E b \in batch : Number[b] = n THEN NoHash ELSE canonical[n]]
    /\ pc' = "load"
    /\ Forget
    /\ UNCHANGED <<lookup, headVars, stateVars, announced, pastVars>>

\* loadLastState: the heads are read from the markers; a head block without
\* state is repaired to its last ancestor that has one.
LoadLastState ==
    /\ pc = "load"
    /\ \E n \in Restartable(headBlock) :
        LET b == Ancestor[headBlock][n]
        IN  /\ headBlock' = b
            /\ currentBlock' = b
            /\ currentHeader' = IF headHeader \in blocks THEN headHeader ELSE b
            /\ currentFastBlock' = IF headFast \in blocks THEN headFast ELSE b
            /\ borrowed' = Borrows(b)
    /\ announced' = NoHash
    /\ pc' = "idle"
    /\ UNCHANGED <<chainVars, headHeader, headFast, stateVars, callVars, torn, ghosts>>

\* Stop: the insertion in flight stops before its next block, the tries of
\* the head, its parent and the oldest one in the window are flushed, and
\* the node is started again.
Stop ==
    /\ pc \in {"idle", "execute"}
    /\ disk' = disk \cup
         {r \in MemoryRoots :
            \E offset \in {0, 1, TriesInMemory - 1} :
               Number[currentBlock] > offset /\ r = Root[canonical[Number[currentBlock] - offset]]}
    /\ triegc' = {}
    /\ pc' = "load"
    /\ Forget
    /\ UNCHANGED <<chainVars, headVars, announced, pastVars>>

\* The process dies and is started again.
Crash ==
    /\ pc # "load"
    /\ triegc' = {}
    /\ pc' = "load"
    /\ torn' = (torn \/ (pc = "head" /\ oldHead = currentBlock))
    /\ Forget
    /\ UNCHANGED <<chainVars, headVars, disk, announced, ghosts, borrowed>>

Next ==
    \/ \E c \in Imports : InsertChain(c[1], c[2])
    \/ \E b \in Mined : WriteBlockWithState(b)
    \/ IgnoreKnown
    \/ WriteKnownBlock
    \/ StoreBlock
    \/ \E coin, expired \in BOOLEAN, flushed \in SUBSET MemoryRoots :
          CommitState(coin, flushed, expired)
    \/ ReorgStep
    \/ DeleteIndexes
    \/ WriteHead
    \/ InsertReturns
    \/ SideStep
    \/ SideRefused
    \/ SideDone
    \/ \E n \in Rewinds : SetHead(n)
    \/ RewindStep
    \/ RewindDone
    \/ LoadLastState
    \/ Stop
    \/ Crash

Spec == Init /\ [][Next]_vars

-----------------------------------------------------------------------------

\* Shape of the state.
TypeOK ==
    /\ blocks \subseteq Header
    /\ td \in [Header -> Nat]
    /\ canonical \in [Numbers -> Header \cup {NoHash}]
    /\ lookup \in [Tx -> 0..NoEntry]
    /\ {headBlock, headHeader, headFast} \subseteq Header
    /\ {currentBlock, currentHeader, currentFastBlock} \subseteq Header
    /\ disk \subseteq {Root[b] : b \in Header}
    /\ triegc \subseteq {Root[b] : b \in Header} \X Numbers
    /\ {announced, lastCanon, oldHead} \subseteq Header \cup {NoHash}
    /\ pc \in {"idle", "import", "rewrite", "execute", "commit", "reorg", "head",
               "side", "rewind", "load"}
    /\ loop \in {"import", "rewrite", "execute"}
    /\ tip \in Header
    /\ {next, common, walk} \subseteq 0 .. MaxNumber + 1
    /\ target \in Numbers
    /\ batch \subseteq Header
    /\ torn \in BOOLEAN /\ borrowed \in BOOLEAN /\ ghosts \subseteq Header

\* At every moment, so after a crash at any batch too, each number up to the
\* head block names the head's ancestor in the canonical index, and that
\* ancestor is stored.
HeadChainCanonical ==
    \A n \in 0 .. Number[headBlock] :
        canonical[n] = Ancestor[headBlock][n] /\ canonical[n] \in blocks

\* The current header and the stored header marker never contradict the
\* canonical index: up to them a number names their ancestor or nothing.
HeaderOnChain ==
    \A h \in {headHeader, currentHeader} : \A n \in 0 .. Number[h] :
        canonical[n] \in {NoHash, Ancestor[h][n]}

\* A refused block gets into the canonical chain only as a ghost or below one:
\* no block is refused in vain, neither on its own root nor on its parent's,
\* unless the ghost check had nothing to compare with when it was stored.
NoInvalidCanonical ==
    \A n \in Numbers : canonical[n] \in Invalid =>
        \E g \in ghosts : n <= Number[g] /\ Ancestor[g][n] = canonical[n]

\* Between calls the state of the current block is available, unless a side
\* chain that is longer by TriesInMemory blocks (and still lighter) has
\* pushed it out of memory, or it was that of a block with a lower number.
HeadStateAvailable ==
    pc = "idle" /\ ~borrowed /\ (\A b \in blocks : Number[b] < Number[currentBlock] + TriesInMemory)
        => HasState(currentBlock)

\* Unless a crash came between the last two batches of a reorganisation to a
\* chain one block above the fork, every transaction of the canonical chain
\* up to the head is recorded with the number of its block.
LookupComplete ==
    ~torn /\ ~(pc = "head" /\ oldHead = currentBlock) =>
        \A n \in 0 .. Number[headBlock] : \A x \in Txs[canonical[n]] : lookup[x] = n

\* The block a ChainHeadEvent named last is the head once the call that sent
\* it has returned: no import ends with a head its subscribers do not know.
HeadAnnounced ==
    pc = "idle" /\ announced # NoHash => announced = currentBlock

\* When an imported block has been dealt with, the head is at least as heavy
\* as it: whether it was executed, known or part of a pruned side chain, an
\* import leaves no heavier block behind.
NothingHeavierSkipped ==
    pc \in {"rewrite", "execute"} => td[Ancestor[tip][next - 1]] <= td[currentBlock]

\* A known block met after an executed one has no transactions: otherwise
\* insertChain logs "Please file an issue, skip known block execution without
\* receipt".
KnownBlocksEmpty == pc = "execute" /\ More /\ Known(Current) => Txs[Current] = {}
=============================================================================
