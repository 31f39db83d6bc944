---------------------------- MODULE FreezerTable ----------------------------
(***************************************************************************)
(* One table of the ancient store (freezer_table.go): an index file of     *)
(* <<filenum, offset>> entries, the first of them zero, and numbered data  *)
(* files.  A blob is the sequence of bytes that is written, after snappy   *)
(* where the table compresses.  Every write to a file is a step of its     *)
(* own, so that a process may die, or the machine lose what it had not     *)
(* synced, between any two of them; repair() runs when the table is opened *)
(* again.                                                                  *)
(*                                                                         *)
(* Append ignores the error of its second write, the one of the index      *)
(* entry, and of reopening the file it leaves; truncate returns at an      *)
(* error with the index already cut.  Until the table is opened again, or  *)
(* a truncation succeeds, its counters may then be ahead of the index:     *)
(* halfway records that.                                                   *)
(*                                                                         *)
(* incidents records what the code has no answer to: "short", a write that *)
(* stored some bytes and then failed; "rolled", a power loss that took     *)
(* bytes of a data file the table had left for the next one, which Sync    *)
(* never syncs; "header", an index torn inside its first entry; "shifted", *)
(* an entry that was written behind a missing or a torn one, and           *)
(* "extended", an index that truncate made longer, both by counters that   *)
(* were ahead.                                                             *)
(***************************************************************************)
EXTENDS Naturals, Integers, Sequences, SequencesExt, FiniteSetsExt

CONSTANTS
    Blobs,          \* the byte sequences to be stored
    MaxFileSize,    \* maxFileSize, in bytes
    MaxItems,       \* bound on the items of the table
    MaxFiles,       \* bound on the numbers of data files
    MaxFailures     \* bound on crashes, power losses and failed calls of the system

ASSUME TableAssumption ==
    /\ Blobs # {} /\ \A b \in Blobs : b \in Seq(Range(b)) /\ Len(b) \in 1..MaxFileSize
    /\ MaxFileSize \in Nat /\ MaxItems \in Nat
    /\ MaxFiles \in Nat /\ MaxFailures \in Nat

VARIABLES
    idx,        \* the entries of the index file, [filenum, offset]
    torn,       \* whether the index file ends inside an entry
    file,       \* number -> bytes of that data file, <<>> where there is none
    dIdx,       \* the entries of the index a power loss leaves
    dFile,      \* number -> the bytes of the data file a power loss leaves
    st,         \* "closed", "repair" or "open"
    items,      \* items
    headId,     \* headId
    headBytes,  \* headBytes
    opened,     \* the keys of files
    app,        \* Append: where it is, and its item and blob
    trn,        \* truncate: where it is, and its items
    synced,     \* the items that were stored when Sync last returned
    skipped,    \* the files with unsynced bytes that Sync passed over
    incidents,  \* see above
    halfway,    \* see above
    raced,      \* truncate ran while Append held no lock
    misplaced,  \* an Append(item) stored its blob under another number
    failures    \* failures so far

disk == <<idx, torn, file, dIdx, dFile>>
mem == <<st, items, headId, headBytes, opened>>
calls == <<app, trn>>
history == <<synced, skipped, incidents, halfway, raced, misplaced, failures>>
vars == <<disk, mem, calls, history>>

FileIds == 0..MaxFiles
Zero == [filenum |-> 0, offset |-> 0]
Idle == [pc |-> "idle"]

(* What the bytes of two entries may say where a torn one shifts them.     *)
Misread == [filenum : FileIds, offset : 0..MaxFileSize]

(* A call of the system fails. *)
Fails == failures < MaxFailures /\ failures' = failures + 1

(* os.File.Truncate: a file is cut, or filled up with zeros. *)
Resize(s, n, zero) == [i \in 1..n |-> IF i <= Len(s) THEN s[i] ELSE zero]

(* The bytes of item i as getBounds finds them: an item never spans files. *)
getBounds(i) ==
    LET start == idx[i + 1]
        end == idx[i + 2]
    IN  [from |-> IF start.filenum # end.filenum THEN 0 ELSE start.offset,
         to |-> end.offset, filenum |-> end.filenum]

Retrieve(i) ==
    LET b == getBounds(i)
    IN  IF items <= i \/ i + 2 > Len(idx) \/ b.filenum \notin opened
           \/ b.to > Len(file[b.filenum])
        THEN "error"
        ELSE SubSeq(file[b.filenum], b.from + 1, b.to)

TypeOK ==
    /\ idx \in Seq([filenum : FileIds, offset : Nat])
    /\ torn \in BOOLEAN
    /\ file \in [FileIds -> Seq({0} \cup UNION {Range(b) : b \in Blobs})]
    /\ dIdx \in 0..Len(idx)
    /\ dFile \in [FileIds -> Nat] /\ \A f \in FileIds : dFile[f] <= Len(file[f])
    /\ st \in {"closed", "repair", "open"}
    /\ items \in 0..MaxItems \cup {-1}
    /\ headId \in FileIds /\ headBytes \in Nat
    /\ opened \subseteq FileIds
    /\ app.pc \in {"idle", "roll", "rolled", "write", "index"}
    /\ trn.pc \in {"idle", "file"}
    /\ synced \in 0..MaxItems /\ skipped \subseteq FileIds
    /\ incidents \subseteq {"short", "rolled", "header", "shifted", "extended"}
    /\ halfway \in BOOLEAN /\ raced \in BOOLEAN /\ misplaced \in BOOLEAN
    /\ failures \in 0..MaxFailures

Init ==
    /\ idx = <<>> /\ torn = FALSE /\ dIdx = 0
    /\ file = [f \in FileIds |-> <<>>] /\ dFile = [f \in FileIds |-> 0]
    /\ st = "closed" /\ items = 0 /\ headId = 0 /\ headBytes = 0 /\ opened = {}
    /\ app = Idle /\ trn = Idle
    /\ synced = 0 /\ skipped = {} /\ incidents = {}
    /\ halfway = FALSE /\ raced = FALSE /\ misplaced = FALSE /\ failures = 0

-----------------------------------------------------------------------------
(* newCustomTable and repair: the loop drops what the index and the head   *)
(* file do not agree on, one truncation per step.                          *)

Last1(s) == IF s = <<>> THEN Zero ELSE Last(s)

newCustomTable ==
    /\ st = "closed"
    /\ st' = "repair"
    /\ torn' = FALSE
    /\ idx' = IF idx = <<>> /\ ~torn THEN <<Zero>> ELSE idx
    /\ opened' = {Last1(idx').filenum}
    /\ UNCHANGED <<file, dIdx, dFile, items, headId, headBytes, calls, history>>

repairDanglingHead ==
    LET last == Last1(idx)
    IN  /\ st = "repair"
        /\ last.offset < Len(file[last.filenum])
        /\ file' = [file EXCEPT ![last.filenum] = SubSeq(@, 1, last.offset)]
        /\ dFile' = [dFile EXCEPT ![last.filenum] = Min({@, last.offset})]
        /\ UNCHANGED <<idx, torn, dIdx, mem, calls, history>>

\* Mutant: the entry is dropped from the count and not from the file.
repairKeepsIndex ==
    LET last == Last1(idx)
    IN  /\ st = "repair"
        /\ last.offset > Len(file[last.filenum])
        /\ opened' = opened \cup {last.filenum}
        /\ UNCHANGED <<disk, st, items, headId, headBytes, calls, history>>

repairDanglingIndex ==
    LET last == Last1(idx)
    IN  /\ st = "repair"
        /\ last.offset > Len(file[last.filenum])
        /\ idx' = Front(idx)
        /\ dIdx' = Min({dIdx, Len(idx')})
        /\ opened' = (opened \ {last.filenum}) \cup {Last1(idx').filenum}
        /\ UNCHANGED <<torn, file, dFile, st, items, headId, headBytes, calls, history>>

(* The rest of repair: both files are synced, and preopen opens the files  *)
(* up to the head.  An index without its first entry makes items -1, which *)
(* is the largest 64-bit number.                                           *)
repairDone ==
    LET last == Last1(idx)
    IN  /\ st = "repair"
        /\ last.offset = Len(file[last.filenum])
        /\ st' = "open"
        /\ items' = Len(idx) - 1
        /\ headBytes' = last.offset
        /\ headId' = last.filenum
        /\ opened' = 0..last.filenum
        /\ dIdx' = Len(idx)
        /\ dFile' = [dFile EXCEPT ![last.filenum] = Len(file[last.filenum])]
        /\ halfway' = FALSE
        /\ UNCHANGED <<idx, torn, file, calls, synced, skipped, incidents, raced,
                       misplaced, failures>>

-----------------------------------------------------------------------------
(* Append.  The check of the number and the roll to a new file are in      *)
(* different critical sections; the two writes are under the read lock.    *)

\* Mutant: the number is not compared with items.
AppendStartAnywhere ==
    /\ st = "open" /\ app.pc = "idle" /\ trn.pc = "idle"
    /\ items < MaxItems
    /\ \E b \in Blobs, item \in 0..MaxItems :
           app' = [pc |-> IF headBytes + Len(b) > MaxFileSize THEN "roll" ELSE "write",
                   item |-> item, blob |-> b]
    /\ UNCHANGED <<disk, mem, trn, history>>

AppendStart ==
    /\ st = "open" /\ app.pc = "idle" /\ trn.pc = "idle"
    /\ items < MaxItems
    /\ \E b \in Blobs, item \in 0..MaxItems :
           /\ items = item
           /\ app' = [pc |-> IF headBytes + Len(b) > MaxFileSize THEN "roll" ELSE "write",
                      item |-> item, blob |-> b]
    /\ UNCHANGED <<disk, mem, trn, history>>

\* Mutant: the new head is opened for appending and not truncated.
AppendRollOnto ==
    /\ st = "open" /\ app.pc = "roll" /\ trn.pc = "idle"
    /\ headId < MaxFiles
    /\ headId' = headId + 1 /\ headBytes' = 0
    /\ opened' = opened \cup {headId'}
    /\ app' = [app EXCEPT !.pc = "rolled"]
    /\ UNCHANGED <<disk, st, items, trn, history>>

(* openFreezerFileTruncated empties a file an earlier run left behind,     *)
(* unless the table still has it open.  The file that was the head is      *)
(* closed and opened for reading, and nobody asks whether that succeeds.   *)
AppendRoll ==
    /\ st = "open" /\ app.pc = "roll" /\ trn.pc = "idle"
    /\ headId < MaxFiles
    /\ headId' = headId + 1 /\ headBytes' = 0
    /\ IF headId' \in opened
       THEN UNCHANGED <<file, dFile>>
       ELSE /\ file' = [file EXCEPT ![headId'] = <<>>]
            /\ dFile' = [dFile EXCEPT ![headId'] = 0]
    /\ \/ opened' = opened \cup {headId'} /\ UNCHANGED <<halfway, failures>>
       \/ opened' = (opened \ {headId}) \cup {headId'} /\ halfway' = TRUE /\ Fails
    /\ app' = [app EXCEPT !.pc = "rolled"]
    /\ UNCHANGED <<idx, torn, dIdx, st, items, trn, synced, skipped, incidents, raced, misplaced>>

(* The new file cannot be opened: Append returns the error.                *)
AppendRollFails ==
    /\ st = "open" /\ app.pc = "roll" /\ trn.pc = "idle" /\ Fails
    /\ app' = Idle
    /\ UNCHANGED <<disk, mem, trn, synced, skipped, incidents, halfway, raced, misplaced>>

AppendRelock ==
    /\ st = "open" /\ app.pc = "rolled" /\ trn.pc = "idle"
    /\ app' = [app EXCEPT !.pc = "write"]
    /\ UNCHANGED <<disk, mem, trn, history>>

AppendWrite ==
    /\ st = "open" /\ app.pc = "write"
    /\ file' = [file EXCEPT ![headId] = @ \o app.blob]
    /\ headBytes' = headBytes + Len(app.blob)
    /\ app' = [app EXCEPT !.pc = "index"]
    /\ UNCHANGED <<idx, torn, dIdx, dFile, st, items, headId, opened, trn, history>>

(* The blob's write fails after k bytes: Append returns the error and      *)
(* leaves them in the file.                                                *)
AppendWriteFails ==
    /\ st = "open" /\ app.pc = "write" /\ Fails
    /\ \E k \in 0..(Len(app.blob) - 1) :
           /\ file' = [file EXCEPT ![headId] = @ \o SubSeq(app.blob, 1, k)]
           /\ incidents' = incidents \cup IF k > 0 THEN {"short"} ELSE {}
    /\ app' = Idle
    /\ UNCHANGED <<idx, torn, dIdx, dFile, mem, trn, synced, skipped, halfway, raced, misplaced>>

(* An entry whose place in the index is not the one of its number, or not  *)
(* the one of an entry, delimits other bytes than the blob's.              *)
AppendIndex ==
    /\ st = "open" /\ app.pc = "index"
    /\ \E entry \in IF torn THEN Misread
                    ELSE {[filenum |-> headId, offset |-> headBytes]} :
           idx' = Append(idx, entry)
    /\ items' = items + 1
    /\ misplaced' = (misplaced \/ Len(idx) # app.item + 1)
    /\ incidents' = incidents \cup IF torn \/ Len(idx) # items + 1 THEN {"shifted"} ELSE {}
    /\ app' = Idle
    /\ UNCHANGED <<torn, file, dIdx, dFile, st, headId, headBytes, opened, trn,
                   synced, skipped, halfway, raced, failures>>

(* The write of the entry stores nothing or a part of it, and the item is  *)
(* counted.  A part may complete what an earlier one began.                *)
AppendIndexFails ==
    /\ st = "open" /\ app.pc = "index" /\ Fails
    /\ \/ torn' \in {torn, TRUE} /\ UNCHANGED <<idx, incidents>>
       \/ /\ torn /\ torn' \in BOOLEAN
          /\ \E entry \in Misread : idx' = Append(idx, entry)
          /\ incidents' = incidents \cup {"shifted"}
    /\ items' = items + 1
    /\ halfway' = TRUE
    /\ app' = Idle
    /\ UNCHANGED <<file, dIdx, dFile, st, headId, headBytes, opened, trn,
                   synced, skipped, raced, misplaced>>

-----------------------------------------------------------------------------
(* truncate holds the lock throughout, but its two files are cut one after *)
(* the other.  An index shorter than the cut, as after items = -1 or when  *)
(* items is ahead of it, is extended with zeros.                           *)

truncate ==
    /\ st = "open" /\ trn.pc = "idle" /\ app.pc \in {"idle", "roll", "rolled"}
    /\ \E n \in 0..(IF items = -1 THEN MaxItems ELSE items - 1),
          next \in IF torn THEN Misread ELSE {Zero} :
           /\ trn' = [pc |-> "file", n |-> n]
           /\ idx' = Resize(Append(idx, next), n + 1, Zero)
           /\ synced' = Min({synced, n})
           /\ incidents' = incidents \cup IF n + 1 > Len(idx) THEN {"extended"} ELSE {}
    /\ torn' = FALSE
    /\ dIdx' = Min({dIdx, Len(idx')})
    /\ raced' = (raced \/ app.pc # "idle")
    /\ UNCHANGED <<file, dFile, mem, app, skipped, halfway, misplaced, failures>>

(* Where the cut ends; where that is not the head, the file becomes it and *)
(* the later ones are removed.                                             *)
Released(f) == IF f = headId THEN opened ELSE {g \in opened : g <= f} \cup {f}

truncateFile ==
    LET expected == Last(idx)
    IN  /\ st = "open" /\ trn.pc = "file"
        /\ opened' = Released(expected.filenum)
        /\ file' = [f \in FileIds |->
                        IF f = expected.filenum THEN Resize(file[f], expected.offset, 0)
                        ELSE IF f \in opened \ opened' THEN <<>> ELSE file[f]]
        /\ dFile' = [f \in FileIds |-> Min({dFile[f], Len(file'[f])})]
        /\ headId' = expected.filenum
        /\ items' = trn.n
        /\ headBytes' = expected.offset
        /\ trn' = Idle
        /\ halfway' = (halfway /\ opened' # 0..headId')
        /\ UNCHANGED <<idx, torn, dIdx, st, app, synced, skipped, incidents, raced,
                       misplaced, failures>>

(* truncate returns an error after it has cut the index: it cannot read    *)
(* the entry there, cannot open its file, or cannot cut that file.  items  *)
(* and headBytes stay.                                                     *)
truncateFails ==
    LET expected == Last(idx)
    IN  /\ st = "open" /\ trn.pc = "file" /\ Fails
        /\ \/ UNCHANGED <<file, dFile, headId, opened>>
           \/ /\ expected.filenum # headId
              /\ opened' = opened \ {expected.filenum}
              /\ UNCHANGED <<file, dFile, headId>>
           \/ /\ expected.filenum # headId
              /\ opened' = Released(expected.filenum)
              /\ file' = [f \in FileIds |-> IF f \in opened \ opened' THEN <<>> ELSE file[f]]
              /\ dFile' = [f \in FileIds |-> Min({dFile[f], Len(file'[f])})]
              /\ headId' = expected.filenum
        /\ trn' = Idle
        /\ halfway' = TRUE
        /\ UNCHANGED <<idx, torn, dIdx, st, items, headBytes, app, synced, skipped,
                       incidents, raced, misplaced>>

(* Sync: the index and the file that is the head now. *)
Sync ==
    /\ st = "open" /\ app.pc = "idle" /\ trn.pc = "idle"
    /\ dIdx' = Len(idx)
    /\ dFile' = [dFile EXCEPT ![headId] = Len(file[headId])]
    /\ synced' = Max({0, Len(idx) - 1})
    /\ skipped' = {f \in FileIds : dFile'[f] < Len(file[f])}
    /\ UNCHANGED <<idx, torn, file, mem, calls, incidents, halfway, raced, misplaced, failures>>

Close ==
    /\ st = "open" /\ app.pc = "idle" /\ trn.pc = "idle"
    /\ Fails
    /\ st' = "closed" /\ opened' = {}
    /\ UNCHANGED <<disk, items, headId, headBytes, calls, synced, skipped,
                   incidents, halfway, raced, misplaced>>

-----------------------------------------------------------------------------
(* Failures.  What a process wrote survives its death.  A power loss keeps *)
(* of every file any prefix from what was synced on; the system keeps the  *)
(* truncations in order.                                                   *)

Die ==
    /\ st # "closed" /\ Fails
    /\ st' = "closed" /\ opened' = {} /\ app' = Idle /\ trn' = Idle
    /\ UNCHANGED <<items, headId, headBytes, synced, skipped, halfway, raced, misplaced>>

ProcessCrash == Die /\ UNCHANGED <<disk, incidents>>

PowerLoss ==
    /\ Die
    /\ \E n \in dIdx..Len(idx), cut \in [FileIds -> 0..Max({Len(file[f]) : f \in FileIds})] :
           /\ \A f \in FileIds : cut[f] \in dFile[f]..Len(file[f])
           /\ idx' = SubSeq(idx, 1, n)
           /\ torn' \in IF n < Len(idx) \/ torn THEN BOOLEAN ELSE {FALSE}
           /\ file' = [f \in FileIds |-> SubSeq(file[f], 1, cut[f])]
           /\ incidents' = incidents
                \cup IF \E f \in skipped \cup 0..(headId - 1) : cut[f] < Len(file[f])
                     THEN {"rolled"} ELSE {}
                \cup IF idx' = <<>> /\ torn' THEN {"header"} ELSE {}
    /\ UNCHANGED <<dIdx, dFile>>

Repair == repairDanglingHead \/ repairDanglingIndex \/ repairDone

Next ==
    \/ newCustomTable \/ Repair
    \/ AppendStart \/ AppendRoll \/ AppendRollFails \/ AppendRelock
    \/ AppendWrite \/ AppendWriteFails \/ AppendIndex \/ AppendIndexFails
    \/ truncate \/ truncateFile \/ truncateFails \/ Sync \/ Close
    \/ ProcessCrash \/ PowerLoss

(* Opening a table runs to its end unless the process dies. *)
Spec == Init /\ [][Next]_vars /\ WF_vars(newCustomTable \/ Repair)

-----------------------------------------------------------------------------
(* The entries repair would keep if the table were opened now.             *)
Recoverable ==
    LET kept == {n \in 1..Len(idx) : idx[n].offset <= Len(file[idx[n].filenum])}
    IN  SubSeq(idx, 1, IF kept = {} THEN 0 ELSE Max(kept))

(* The blobs those entries delimit, empty where the bytes are gone. *)
Stored ==
    [i \in 1..(Len(Recoverable) - 1) |->
        LET b == getBounds(i - 1)
        IN  IF b.to > Len(file[b.filenum]) THEN <<>>
            ELSE SubSeq(file[b.filenum], b.from + 1, b.to)]

-----------------------------------------------------------------------------
(* The two files implement one log of blobs: a blob enters it with its     *)
(* index entry, keeps its bytes whatever happens to later ones, and is     *)
(* still there after a power loss if it was synced (Append, truncate,      *)
(* Sync and repair together).                                              *)
Log == INSTANCE AncientLog WITH
    log <- Stored, synced <- synced, intact <- (incidents = {})

ImplementsLog == Log!LogSpec

(* Between two calls Retrieve returns an error or the blob the log has     *)
(* under the number, also while items is ahead of the index.  Unless a     *)
(* call has stopped halfway every number below items is retrieved, and the *)
(* counters Append continues from describe the files; a truncation that    *)
(* succeeds makes them do so again (Append, truncate and repair each move  *)
(* them).                                                                  *)
RetrieveExact ==
    st = "open" /\ trn.pc = "idle" /\ app.pc \in {"idle", "roll", "rolled"} /\ incidents = {}
        => /\ \A i \in 0..(items - 1) :
                  Retrieve(i) # "error" => i < Len(Stored) /\ Retrieve(i) = Stored[i + 1]
           /\ ~halfway => /\ items = Len(Stored)
                          /\ \A i \in 0..(items - 1) : Retrieve(i) = Stored[i + 1]
                          /\ headBytes = Len(file[headId])

(* Whatever happened to the files, an opened table has an index and a head *)
(* file of the same length (the loop of repair).                           *)
OpensAligned ==
    [][st = "repair" /\ st' = "open" =>
          /\ headBytes' = Len(file'[headId'])
          /\ headBytes' = Last1(idx').offset /\ headId' = Last1(idx').filenum]_vars

(* Append(item) stores its blob under item, unless the index had fallen    *)
(* behind, and keeps its count of a file within its size.  Neither holds   *)
(* when a truncation came while it had given up the lock to start a new    *)
(* file: number and size are not checked again (Append).                   *)
LandsAtItem ==
    /\ misplaced => raced \/ "shifted" \in incidents
    /\ headBytes > MaxFileSize => raced

(* Opening a table comes to an end, however the files were left (repair).  *)
RepairEnds == st = "repair" ~> st # "repair"

(* What Append stores is what Retrieve finds under the number.             *)
ItemsExact == TypeOK /\ RetrieveExact /\ LandsAtItem

(* repair comes to an end with index and data of the same length.          *)
RepairAligns == OpensAligned /\ RepairEnds
=============================================================================
