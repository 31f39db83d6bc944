----------------------------- MODULE FastSync ------------------------------
(***************************************************************************)
(* The fast-sync side of BlockChain over the ancient store: headers come   *)
(* first, InsertReceiptChain writes old blocks straight into the tables    *)
(* and recent ones into the key-value store, FastSyncCommitHead makes the  *)
(* pivot the head, Rollback takes headers back while a call of             *)
(* InsertReceiptChain may be running; and NewBlockChain, which brings the  *)
(* heads and the ancient store together after a crash.                     *)
(***************************************************************************)
EXTENDS Freezer

(* InsertHeaderChain, in fast sync.  The downloader imports no header on a *)
(* chain it rolled back before its InsertReceiptChain has returned.        *)
ImportHeader ==
    /\ st = "open" /\ rew = Idle /\ full = 0 /\ hdr < Height
    /\ w # Idle => w.kind = "fast" /\ hdr >= w.last
    /\ \E v \in Candidates(hdr + 1) :
           /\ kvHeader' = kvHeader \cup {<<hdr + 1, v>>}
           /\ canon' = [n \in Numbers |-> IF n <= hdr THEN canon[n]
                                          ELSE IF n = hdr + 1 THEN v ELSE None]
           /\ chain' = [chain EXCEPT ![hdr + 1] = v]
    /\ hdr' = hdr + 1
    /\ UNCHANGED <<tables, kvBody, fast, full, dbFull, control, raced, stale, failures, rewinds>>

(* InsertReceiptChain splits its blocks at ancientLimit.                   *)
InsertReceiptChain ==
    /\ st = "open" /\ w = Idle /\ full = 0
    /\ \E last \in (fast + 1)..hdr : \E limit \in fast..last :
           w' = [pc |-> "loop", kind |-> "fast", prev |-> fast, last |-> last, limit |-> limit,
                 blocks |-> {<<n, chain[n]>> : n \in (fast + 1)..last},
                 done |-> <<>>, blk |-> None, k |-> 0]
    /\ UNCHANGED <<tables, kv, heads, st, trn, rew, history>>

Ancients == {b \in w.blocks : b[1] <= w.limit}
Remaining == {b \in Ancients : b \notin Range(w.done)}
NextBlock == CHOOSE b \in Remaining : \A c \in Remaining : b[1] <= c[1]
LastOf(blocks) == Max({b[1] : b \in blocks})

(* One turn of writeAncient: blocks below the next one that are still in   *)
(* the key-value store are moved first; a missing one ends the process.    *)
WriteAncient ==
    /\ st = "open" /\ w.pc = "loop" /\ w.kind = "fast" /\ Remaining # {}
    /\ HasHeader(NextBlock)
    /\ LET b == IF frozen < NextBlock[1] THEN ReadBlock(ReadCanonicalHash(frozen)) ELSE NextBlock
       IN  IF b = None \/ b[1] # frozen
           THEN ProcessEnds
           ELSE /\ w' = HandOver(b)
                /\ UNCHANGED <<st, trn, rew>>
    /\ UNCHANGED <<tables, kv, heads, history>>

(* It is interrupted by StopInsert, or meets a block without a header.     *)
WriteAncientStops ==
    /\ st = "open" /\ w.pc = "loop" /\ w.kind = "fast" /\ Remaining # {}
    /\ w' = [w EXCEPT !.pc = "undo"]
    /\ UNCHANGED <<tables, kv, heads, st, trn, rew, history>>

AncientWritten ==
    /\ st = "open" /\ w.pc = "loop" /\ w.kind = "fast" /\ Remaining = {}
    /\ w' = [w EXCEPT !.pc = IF Ancients = {} THEN "live" ELSE "head"]
    /\ tsync' = IF Ancients = {} THEN tsync ELSE [t \in Names |-> Len(table[t])]
    /\ UNCHANGED <<table, frozen, kv, heads, st, trn, rew, history>>

(* updateHead: only onto a header chain that is at least as long, and only *)
(* if it is heavier than the current fast block.                           *)
CanUpdateHead(n) == hdr >= n /\ fast < n

UpdateHead ==
    /\ st = "open" /\ w.pc = "head" /\ rew = Idle
    /\ IF CanUpdateHead(LastOf(Ancients))
       THEN fast' = LastOf(Ancients) /\ w' = [w EXCEPT !.pc = "canonical"]
       ELSE fast' = fast /\ w' = [w EXCEPT !.pc = "undo"]
    /\ UNCHANGED <<tables, kv, hdr, full, dbFull, st, trn, rew, history>>

(* The deferred truncateAncient(previous). *)
Undo ==
    /\ st = "open" /\ w.pc = "undo" /\ trn = Idle
    /\ TruncateStart(w.prev + 1)
    /\ w' = [w EXCEPT !.pc = "undone"]
    /\ UNCHANGED <<tables, kv, heads, st, rew, history>>

Undone ==
    /\ st = "open" /\ w.pc = "undone" /\ trn = Idle
    /\ w' = Idle
    /\ UNCHANGED <<tables, kv, heads, st, trn, rew, history>>

DeleteWritten ==
    /\ st = "open" /\ w.pc = "canonical" /\ w.kind = "fast"
    /\ DeleteFrozen({b \in Range(w.done) : b[1] # 0})
    /\ w' = [w EXCEPT !.pc = "side"]
    /\ UNCHANGED <<tables, heads, st, trn, rew, history>>

DeleteBeside ==
    LET gone == {b \in kvHeader : b[1] # 0 /\ \E c \in Range(w.done) : b[1] = c[1]}
    IN  /\ st = "open" /\ w.pc = "side" /\ w.kind = "fast"
        /\ kvHeader' = kvHeader \ gone
        /\ kvBody' = kvBody \ gone
        /\ w' = [w EXCEPT !.pc = "live"]
        /\ UNCHANGED <<tables, canon, heads, st, trn, rew, history>>

(* writeLive: one batch, then updateHead. *)
WriteLive ==
    LET live == w.blocks \ Ancients
    IN  /\ st = "open" /\ w.pc = "live"
        /\ kvBody' = kvBody \cup IF \A b \in live : HasHeader(b) THEN live ELSE {}
        /\ w' = IF live = {} \/ \E b \in live : ~HasHeader(b) THEN Idle
                ELSE [w EXCEPT !.pc = "liveHead"]
        /\ UNCHANGED <<tables, canon, kvHeader, heads, st, trn, rew, history>>

UpdateLiveHead ==
    /\ st = "open" /\ w.pc = "liveHead" /\ rew = Idle
    /\ fast' = IF CanUpdateHead(w.last) THEN w.last ELSE fast
    /\ w' = Idle
    /\ UNCHANGED <<tables, kv, hdr, full, dbFull, st, trn, rew, history>>

(* The pivot becomes the current block; the database is not told.          *)
FastSyncCommitHead ==
    /\ st = "open" /\ w = Idle /\ rew = Idle /\ full = 0 /\ fast > 0
    /\ full' = fast
    /\ UNCHANGED <<tables, kv, hdr, fast, dbFull, control, history>>

-----------------------------------------------------------------------------
(* Rollback of the hashes above low: each head steps back while the hash   *)
(* at its number is its own.                                               *)
RolledBack(h, low, hash) ==
    IF h <= low THEN h
    ELSE Max({low} \cup {n \in (low + 1)..h : hash[n] # <<n, chain[n]>>})

Rollback ==
    /\ st = "open" /\ rew = Idle /\ trn = Idle /\ full = 0
    /\ rewinds < MaxRewinds /\ rewinds' = rewinds + 1
    /\ \E low \in 0..(hdr - 1) :
           LET hash == [n \in Numbers |-> <<n, chain[n]>>]
           IN  /\ hdr' = RolledBack(hdr, low, hash)
               /\ fast' = RolledBack(fast, low, hash)
               /\ rew' = [pc |-> "roll"]
               /\ TruncateStart(low + 1)
    /\ raced' = (raced \/ (w # Idle /\ (trn' # Idle \/ hdr' < w.prev)))
    /\ UNCHANGED <<tables, kv, full, dbFull, st, w, chain, stale, failures>>

RollbackDone ==
    /\ st = "open" /\ rew.pc = "roll" /\ trn = Idle
    /\ rew' = Idle
    /\ UNCHANGED <<tables, kv, heads, st, w, trn, history>>

-----------------------------------------------------------------------------
(* The heads that lie inside the tables: fast block, and block unless it   *)
(* is the genesis block.                                                   *)
Behind(fastBlock, n) == {h \in {fastBlock} \cup ({dbFull} \ {0}) : h + 1 < n}

(* Opening: the tables are synced and cut to the shortest, those of an     *)
(* ancient store that does not fit are refused (NewDatabaseWithFreezer),   *)
(* and NewBlockChain loads the heads.  An empty key-value store takes its  *)
(* heads from the tables; a fast block or block inside the tables makes it *)
(* roll everything above back.                                             *)
Open ==
    LET n == Shortest
        tab == [t \in Names |-> Cut(table[t], n)]
        empty == hdr = 0 /\ fast = 0 /\ dbFull = 0 /\ n > 0
        hdr1 == IF empty THEN n - 1 ELSE hdr
        fast1 == IF empty THEN n - 1 ELSE fast
        hash == [i \in Numbers |-> IF i < n THEN tab["hashes"][i + 1] ELSE <<i, canon[i]>>]
        behind == Behind(fast1, n)
        low == Min(behind)
        kept == IF behind = {} THEN n ELSE Min({n, low + 1})
    IN  /\ st = "closed"
        /\ IF Refused(n, tab)
           THEN st' = "refused" /\ UNCHANGED <<tables, heads, chain, stale>>
           ELSE /\ st' = "open"
                /\ table' = [t \in Names |-> Cut(tab[t], kept)]
                /\ tsync' = [t \in Names |-> kept]
                /\ frozen' = kept
                /\ chain' = [i \in Numbers |-> IF empty /\ i < n THEN hash[i][2] ELSE chain[i]]
                /\ hdr' = IF behind = {} THEN hdr1 ELSE RolledBack(hdr1, low, hash)
                /\ fast' = IF behind = {} THEN fast1 ELSE RolledBack(fast1, low, hash)
                /\ dbFull' = IF behind = {} THEN dbFull ELSE RolledBack(dbFull, low, hash)
                /\ full' = dbFull'
                /\ stale' = {i \in stale : i < kept}
        /\ UNCHANGED <<kv, w, trn, rew, raced, failures, rewinds>>

Next ==
    \/ Import \/ FreezeCheck \/ FreezeRead \/ AppendAncient \/ AppendAncientFails
    \/ FreezeSync \/ FreezeDeleteCanonical \/ FreezeDeleteSide
    \/ TruncateTable \/ TruncateDone \/ SetHead \/ SetHeadStep \/ SetHeadDone
    \/ ImportHeader \/ InsertReceiptChain \/ WriteAncient \/ WriteAncientStops
    \/ AncientWritten \/ UpdateHead \/ Undo \/ Undone \/ DeleteWritten \/ DeleteBeside
    \/ WriteLive \/ UpdateLiveHead \/ FastSyncCommitHead \/ Rollback \/ RollbackDone
    \/ Crash \/ Open

Spec == Init /\ [][Next]_vars

-----------------------------------------------------------------------------
TypeOK ==
    /\ table \in [Names -> Seq(Numbers \X Versions)]
    /\ frozen \in 0..(Height + 1)
    /\ \A t \in Names : tsync[t] \in 0..Len(table[t])
    /\ canon \in [Numbers -> Versions \cup {None}]
    /\ chain \in [Numbers -> Versions \cup {None}]
    /\ kvHeader \subseteq Numbers \X Versions /\ kvBody \subseteq Numbers \X Versions
    /\ {hdr, fast, full, dbFull} \subseteq Numbers
    /\ st \in {"open", "closed", "refused"}
    /\ stale \subseteq Numbers

(* When nothing is being appended or cut, every table holds frozen blocks, *)
(* the same one at the same number, after failed appends and crashes       *)
(* (AppendAncient with its deferred repair, TruncateAncients, repair).     *)
TablesAligned ==
    st = "open" /\ trn = Idle /\ w.pc # "append" /\ ~raced =>
        \A t \in Names :
            /\ Len(table[t]) = frozen
            /\ \A n \in 1..frozen : table[t][n] = table["hashes"][n] /\ table[t][n][1] = n - 1

(* No block is lost between the two stores: at every moment of freezing,   *)
(* fast sync, rewinding and crashes, every number up to the heads reads as *)
(* the canonical block, header and body (freeze deletes what it has        *)
(* synced; the accessors ask both stores).                                 *)
BlocksReadable ==
    st = "open" /\ rew = Idle /\ trn = Idle /\ ~raced =>
        \A n \in (0..hdr) \ stale :
            LET b == <<n, chain[n]>>
            IN  /\ ReadCanonicalHash(n) = b
                /\ ReadHeader(b) = b
                /\ n <= Max({fast, full}) => ReadBody(b) = b

(* A database this code wrote is never refused when it is opened again     *)
(* (NewDatabaseWithFreezer), whatever the crash left.                      *)
OpensAgain == st = "refused" => raced

(* After start-up the tables do not run ahead of the fast block, so that   *)
(* the next fast sync appends where they end (NewBlockChain).              *)
AncientsBehindHead ==
    st = "closed" /\ st' = "open" /\ ~raced => frozen' <= fast' + 1

(* Every step leaves tables that fit each other, and start-up tables that  *)
(* fit the chain above them.                                               *)
TablesFit == [][TablesAligned' /\ AncientsBehindHead]_vars

(* The two stores together never lose a block, or the whole database.      *)
NoBlockLost == TypeOK /\ BlocksReadable /\ OpensAgain
=============================================================================
