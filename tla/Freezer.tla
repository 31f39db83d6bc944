------------------------------ MODULE Freezer ------------------------------
(***************************************************************************)
(* The ancient store (freezer.go) between the key-value store it takes old *)
(* blocks from and the accessors that read both (accessors_chain.go).      *)
(* Every table is the log that FreezerTable implements: items appended at  *)
(* the end, cut at the end, and after a crash any prefix from the synced   *)
(* part on.  AppendAncient and TruncateAncients go through the tables one  *)
(* by one, in two goroutines without a common lock.                        *)
(*                                                                         *)
(* A block is <<number, version>>; the chain is the version that is        *)
(* canonical at every number.  Rewinding and importing again may put       *)
(* another version at a number.                                            *)
(***************************************************************************)
EXTENDS Naturals, Sequences, FiniteSetsExt, SequencesExt

CONSTANTS
    Tables,                 \* the tables in the order AppendAncient fills them
    Versions,               \* the blocks there are for a number
    Height,                 \* bound on block numbers
    ImmutabilityThreshold,  \* params.ImmutabilityThreshold
    freezerBatchLimit,      \* blocks frozen in one go
    MaxFailures,            \* bound on failed appends and crashes
    MaxRewinds,             \* bound on rewinds
    None

ASSUME FreezerAssumption ==
    /\ {"hashes", "headers", "bodies"} \subseteq Range(Tables)
    /\ Tables \in Seq(STRING) /\ Tables[1] = "hashes" /\ IsInjective(Tables)
    /\ Height \in Nat /\ ImmutabilityThreshold \in Nat
    /\ freezerBatchLimit \in Nat \ {0} /\ Versions # {}
    /\ None \notin Versions /\ None \notin (0..Height) \X (Versions \cup {None})

VARIABLES
    table,      \* table -> the blocks it holds, in order
    tsync,      \* table -> its items at the last Sync
    frozen,     \* frozen
    canon,      \* number -> version of the canonical hash in the key-value store
    kvHeader,   \* blocks whose header and difficulty are in the key-value store
    kvBody,     \* blocks whose body and receipts are
    hdr, fast, full,    \* numbers of the current header, fast block and block
    dbFull,     \* number of the head block in the key-value store
    chain,      \* number -> the version that was last made canonical
    st,         \* "open", "closed" or "refused"
    w,          \* the goroutine that appends
    trn,        \* TruncateAncients
    rew,        \* SetHead or Rollback
    raced,      \* a rewind went below what the appending goroutine was at
    stale,      \* numbers a rewind left in the tables above its target
    failures, rewinds

tables == <<table, tsync, frozen>>
kv == <<canon, kvHeader, kvBody>>
heads == <<hdr, fast, full, dbFull>>
control == <<st, w, trn, rew>>
history == <<chain, raced, stale, failures, rewinds>>
vars == <<tables, kv, heads, control, history>>

Numbers == 0..Height
Names == Range(Tables)
Idle == [pc |-> "idle"]
(* The versions of a number are interchangeable: the first one that becomes *)
(* canonical may as well always be the same.                                *)
Candidates(n) == IF chain[n] = None THEN {CHOOSE v \in Versions : TRUE} ELSE Versions
Cut(s, n) == SubSeq(s, 1, Min({n, Len(s)}))

-----------------------------------------------------------------------------
(* The accessors: the ancient store is asked first.  Bodies, receipts and  *)
(* difficulties are trusted if the table of hashes has the block's hash.   *)

Ancient(t, n) == IF n < Len(table[t]) THEN table[t][n + 1] ELSE None

ReadCanonicalHash(n) ==
    IF Ancient("hashes", n) # None THEN Ancient("hashes", n)
    ELSE IF canon[n] # None THEN <<n, canon[n]>> ELSE None

ReadHeader(b) ==
    IF Ancient("headers", b[1]) = b \/ b \in kvHeader THEN b ELSE None

ReadBody(b) ==
    IF Ancient("bodies", b[1]) # None /\ Ancient("hashes", b[1]) = b
    THEN Ancient("bodies", b[1])
    ELSE IF b \in kvBody THEN b ELSE None

HasHeader(b) == Ancient("hashes", b[1]) = b \/ b \in kvHeader

ReadBlock(b) == IF b # None /\ ReadHeader(b) = b THEN ReadBody(b) ELSE None

-----------------------------------------------------------------------------
Init ==
    LET v == CHOOSE x \in Versions : TRUE
    IN  /\ table = [t \in Names |-> <<>>] /\ tsync = [t \in Names |-> 0] /\ frozen = 0
        /\ canon = [n \in Numbers |-> IF n = 0 THEN v ELSE None] /\ chain = canon
        /\ kvHeader = {<<0, v>>} /\ kvBody = kvHeader
        /\ hdr = 0 /\ fast = 0 /\ full = 0 /\ dbFull = 0
        /\ st = "open" /\ w = Idle /\ trn = Idle /\ rew = Idle
        /\ raced = FALSE /\ stale = {} /\ failures = 0 /\ rewinds = 0

(* A full block becomes the head (writeHeadBlock); a side block may have   *)
(* been stored beside it.  The head header and fast block follow unless    *)
(* the block already reads as canonical.  The downloader does not mix this *)
(* with InsertReceiptChain.                                                *)
Import ==
    /\ st = "open" /\ rew = Idle /\ full < Height
    /\ full >= hdr \/ full > 0
    /\ w # Idle => w.kind = "freeze"
    /\ \E v \in Candidates(full + 1), side \in {{}, Versions} :
           LET b == <<full + 1, v>>
               stored == {<<full + 1, x>> : x \in side \cup {v}}
           IN  /\ full < hdr => v = chain[full + 1]
               /\ kvHeader' = kvHeader \cup stored
               /\ kvBody' = kvBody \cup stored
               /\ canon' = [canon EXCEPT ![full + 1] = v]
               /\ chain' = [chain EXCEPT ![full + 1] = v]
               /\ full' = full + 1 /\ dbFull' = full + 1
               /\ IF ReadCanonicalHash(full + 1) # b
                  THEN hdr' = full + 1 /\ fast' = full + 1
                  ELSE UNCHANGED <<hdr, fast>>
    /\ UNCHANGED <<tables, control, raced, stale, failures, rewinds>>

-----------------------------------------------------------------------------
(* freeze: reads come from the key-value store alone. *)

FreezeCheck ==
    /\ st = "open" /\ w = Idle
    /\ dbFull >= ImmutabilityThreshold
    /\ dbFull - ImmutabilityThreshold > frozen
    /\ w' = [pc |-> "loop", kind |-> "freeze", first |-> frozen,
             done |-> <<>>, blk |-> None, k |-> 0,
             limit |-> Min({dbFull - ImmutabilityThreshold, frozen + freezerBatchLimit})]
    /\ UNCHANGED <<tables, kv, heads, st, trn, rew, history>>

\* AppendAncient begins with the first table, and lets go of the block.
HandOver(b) == [w EXCEPT !.pc = "append", !.blk = b, !.k = 1]
TakeBack(pc) == [w EXCEPT !.pc = pc, !.blk = None, !.k = 0]

(* The blobs of one block are read and handed to AppendAncient, or the     *)
(* loop ends: at the limit, or at a block that is not complete.            *)
FreezeRead ==
    LET b == <<frozen, canon[frozen]>>
    IN  /\ st = "open" /\ w.pc = "loop" /\ w.kind = "freeze"
        /\ w' = IF frozen < w.limit /\ b \in kvHeader \cap kvBody
                THEN HandOver(b)
                ELSE [w EXCEPT !.pc = "sync"]
        /\ UNCHANGED <<tables, kv, heads, st, trn, rew, history>>

Shortest == Min({Len(table[t]) : t \in Names})

\* Mutant: only the counter is repaired.
RepairCounter == frozen' = Shortest /\ UNCHANGED <<table, tsync>>

(* repair: every table is cut to the shortest. *)
RepairTables ==
    /\ table' = [t \in Names |-> Cut(table[t], Shortest)]
    /\ tsync' = [t \in Names |-> Min({tsync[t], Shortest})]
    /\ frozen' = Shortest

(* After AppendAncient the freezer reads the next block, or stops at an    *)
(* error; fast sync goes on or, at an error, ends the process (log.Crit).  *)
Appended == [TakeBack("loop") EXCEPT !.done = Append(@, w.blk)]
AppendFailed == TakeBack("sync")

(* AppendAncient, one table per step.  Each table compares its own items   *)
(* with frozen as it is at that moment.                                    *)
AppendAncient ==
    /\ st = "open" /\ w.pc = "append"
    /\ LET t == Tables[w.k]
       IN  /\ Len(table[t]) = frozen
           /\ table' = [table EXCEPT ![t] = Append(@, w.blk)]
           /\ IF w.k = Len(Tables)
              THEN frozen' = frozen + 1 /\ w' = Appended
              ELSE frozen' = frozen /\ w' = [w EXCEPT !.k = @ + 1]
    /\ UNCHANGED <<tsync, kv, heads, st, trn, rew, history>>

(* The process ends, in the middle of whatever its goroutines were at.     *)
ProcessEnds ==
    st' = "closed" /\ w' = Idle /\ trn' = Idle /\ rew' = Idle

(* A table refuses the item, or its write fails.                           *)
AppendAncientFails ==
    /\ st = "open" /\ w.pc = "append"
    /\ \/ Len(table[Tables[w.k]]) # frozen /\ UNCHANGED failures
       \/ failures < MaxFailures /\ failures' = failures + 1
    /\ RepairTables
    /\ \/ w.kind = "freeze" /\ w' = AppendFailed /\ UNCHANGED <<st, trn, rew>>
       \/ w.kind = "fast" /\ ProcessEnds
    /\ UNCHANGED <<kv, heads, chain, raced, stale, rewinds>>

\* Mutant: the tables are not synced before the blocks are deleted.
FreezeNoSync ==
    /\ st = "open" /\ w.pc = "sync" /\ w.kind = "freeze"
    /\ w' = [w EXCEPT !.pc = "canonical"]
    /\ UNCHANGED <<tables, kv, heads, st, trn, rew, history>>

FreezeSync ==
    /\ st = "open" /\ w.pc = "sync" /\ w.kind = "freeze"
    /\ tsync' = [t \in Names |-> Len(table[t])]
    /\ w' = [w EXCEPT !.pc = "canonical"]
    /\ UNCHANGED <<table, frozen, kv, heads, st, trn, rew, history>>

DeleteFrozen(blocks) ==
    /\ kvHeader' = kvHeader \ blocks
    /\ kvBody' = kvBody \ blocks
    /\ canon' = [n \in Numbers |-> IF \E b \in blocks : b[1] = n THEN None ELSE canon[n]]

(* The first batch deletes the frozen blocks, under the numbers they were  *)
(* frozen at; the genesis block stays.                                     *)
FreezeDeleteCanonical ==
    /\ st = "open" /\ w.pc = "canonical" /\ w.kind = "freeze"
    /\ DeleteFrozen({b \in Range(w.done) : b[1] # 0})
    /\ w' = [w EXCEPT !.pc = "side"]
    /\ UNCHANGED <<tables, heads, st, trn, rew, history>>

(* The second batch deletes whatever else is stored at those numbers.      *)
FreezeDeleteSide ==
    LET gone == {b \in kvHeader : b[1] # 0 /\ b[1] \in w.first..(frozen - 1)}
    IN  /\ st = "open" /\ w.pc = "side" /\ w.kind = "freeze"
        /\ kvHeader' = kvHeader \ gone
        /\ kvBody' = kvBody \ gone
        /\ w' = Idle
        /\ UNCHANGED <<tables, canon, heads, st, trn, rew, history>>

-----------------------------------------------------------------------------
(* TruncateAncients, one table per step in the order of a Go map. *)

TruncateStart(n) ==
    trn' = IF frozen <= n THEN Idle ELSE [pc |-> "cut", items |-> n, left |-> Names]

TruncateTable ==
    /\ st = "open" /\ trn.pc = "cut"
    /\ \E t \in trn.left :
           /\ table' = [table EXCEPT ![t] = Cut(@, trn.items)]
           /\ tsync' = [tsync EXCEPT ![t] = Min({@, trn.items})]
           /\ trn' = [trn EXCEPT !.left = @ \ {t}]
    /\ raced' = (raced \/ w.pc = "append")
    /\ UNCHANGED <<frozen, kv, heads, st, w, rew, chain, stale, failures, rewinds>>

TruncateDone ==
    /\ st = "open" /\ trn.pc = "cut" /\ trn.left = {}
    /\ frozen' = trn.items
    /\ stale' = stale \ {n \in Numbers : n >= trn.items}
    /\ trn' = Idle
    /\ UNCHANGED <<table, tsync, kv, heads, st, w, rew, chain, raced, failures, rewinds>>

-----------------------------------------------------------------------------
(* BlockChain.SetHead down to target: for every header from the head on    *)
(* the heads move to its parent, the ancient store is cut above it, and    *)
(* the deletions are kept for one batch at the end.                        *)

SetHead ==
    /\ st = "open" /\ rew = Idle /\ rewinds < MaxRewinds /\ rewinds' = rewinds + 1
    /\ \E target \in 0..(hdr - 1) :
           rew' = [pc |-> "step", target |-> target, gone |-> {}]
    /\ UNCHANGED <<tables, kv, heads, st, w, trn, chain, raced, stale, failures>>

SetHeadStep ==
    /\ st = "open" /\ rew.pc = "step" /\ trn = Idle
    /\ hdr > rew.target
    /\ LET parent == <<hdr - 1, chain[hdr - 1]>>
           block == IF ReadBlock(parent) = None THEN 0 ELSE hdr - 1
       IN  /\ full' = IF hdr - 1 < full THEN block ELSE full
           /\ dbFull' = IF hdr - 1 < full THEN block ELSE dbFull
           /\ fast' = IF hdr - 1 < fast THEN block ELSE fast
    /\ hdr' = hdr - 1
    /\ IF hdr + 1 <= frozen THEN TruncateStart(hdr + 1) ELSE UNCHANGED trn
    /\ raced' = (raced \/ (w # Idle /\ (trn' # Idle \/ hdr <= w.limit)))
    /\ rew' = [rew EXCEPT !.gone = @ \cup {<<hdr, chain[hdr]>>}]
    /\ UNCHANGED <<tables, kv, st, w, chain, stale, failures, rewinds>>

SetHeadDone ==
    /\ st = "open" /\ rew.pc = "step" /\ trn = Idle
    /\ hdr <= rew.target
    /\ DeleteFrozen(rew.gone)
    /\ stale' = stale \cup {n \in Numbers : n > hdr /\ n < frozen}
    /\ rew' = Idle
    /\ UNCHANGED <<tables, heads, st, w, trn, chain, raced, failures, rewinds>>

-----------------------------------------------------------------------------
(* The process dies; each table comes back as its log does.  The key-value *)
(* store applies a batch as a whole.                                       *)
Crash ==
    /\ st = "open" /\ failures < MaxFailures /\ failures' = failures + 1
    /\ \E keep \in [Names -> 0..(Height + 1)] :
           /\ \A t \in Names : keep[t] \in tsync[t]..Len(table[t])
           /\ table' = [t \in Names |-> Cut(table[t], keep[t])]
    /\ ProcessEnds
    /\ UNCHANGED <<tsync, frozen, kv, heads, chain, raced, stale, rewinds>>

(* NewDatabaseWithFreezer refuses an ancient store of another chain, and a *)
(* gap between the two stores.                                             *)
Refused(n, tab) ==
    \/ n > 0 /\ canon[0] # None /\ tab["hashes"][1] # <<0, canon[0]>>
    \/ n > 0 /\ n <= Height /\ canon[n] = None /\ hdr > n - 1
    \/ n = 0 /\ hdr # 0 /\ canon[1] = None
=============================================================================
