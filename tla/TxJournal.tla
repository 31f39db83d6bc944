----------------------------- MODULE TxJournal -----------------------------
(***************************************************************************)
(* The journal of local transactions (tx_journal.go, and its use in        *)
(* tx_pool.go): loaded when the pool starts, appended to, rewritten beside *)
(* the old file and renamed into its place.  The load, a write or a step   *)
(* of rotate may fail, and the process may die at any step.  A file is the *)
(* sequence of its records; decoding stops at a torn one.                  *)
(***************************************************************************)
EXTENDS Naturals, Sequences, SequencesExt

CONSTANTS
    LocalTx,        \* the local transactions
    MaxRecords,     \* bound on the records of the file
    MaxMishaps,     \* bound on failed loads, writes and rotations, and crashes
    Torn, NoFile

(* A record cut short is not a transaction, and no file is not a file.     *)
ASSUME JournalAssumption ==
    Torn \notin LocalTx /\ NoFile \notin Seq(LocalTx \cup {Torn})

VARIABLES
    local,      \* local transactions in the pool
    path,       \* the journal file
    fresh,      \* the file path.new
    writer,     \* "nil", "null" (devNull), "open", or "broken" when its Close failed
    phase,      \* "down", "load", "run", or the step of rotate
    mishaps,
    unsaved,    \* transactions whose insert returned an error
    owed,       \* what earlier processes had in the pool and on disk, until this one
                \* runs; of a file that could not be read, until it is replaced
    unread      \* this process could not read the whole of the file, which is still there

journalVars == <<local, path, fresh, writer, phase, mishaps, unsaved, owed, unread>>

Readable(file) ==
    IF file = NoFile THEN {}
    ELSE {file[i] : i \in {j \in DOMAIN file : \A k \in 1..j : file[k] # Torn}}
IsTorn(file) == file # NoFile /\ Torn \in Range(file)

Mishap == mishaps < MaxMishaps /\ mishaps' = mishaps + 1

JournalInit ==
    /\ local = {} /\ path = NoFile /\ fresh = NoFile /\ writer = "nil" /\ phase = "down"
    /\ mishaps = 0 /\ unsaved = {} /\ owed = {} /\ unread = FALSE

(* NewTxPool: load, which has the pool write to devNull, then rotate.      *)
Open ==
    /\ phase = "down"
    /\ IF path = NoFile THEN phase' = "create" /\ UNCHANGED writer
       ELSE phase' = "load" /\ writer' = "null"
    /\ UNCHANGED <<local, path, fresh, mishaps, unsaved, owed, unread>>

load ==
    /\ phase = "load"
    /\ local' = Readable(path) /\ writer' = "nil" /\ phase' = "create"
    /\ UNCHANGED <<path, fresh, mishaps, unsaved, owed, unread>>

(* Opening the file or reading on in it fails: NewTxPool warns, and goes   *)
(* on with what has been read.                                             *)
loadFails ==
    /\ phase = "load" /\ Mishap
    /\ \E n \in 0..Len(path) : local' = Readable(SubSeq(path, 1, n))
    /\ writer' = "nil" /\ phase' = "create" /\ unread' = TRUE
    /\ UNCHANGED <<path, fresh, unsaved, owed>>

(* journalTx: the transaction is in the pool whether or not insert fails.  *)
insert(tx) ==
    /\ phase = "run" /\ tx \notin local
    /\ path # NoFile => Len(path) < MaxRecords
    /\ local' = local \cup {tx}
    /\ \/ writer = "open" /\ path' = Append(path, tx) /\ UNCHANGED <<mishaps, unsaved>>
       \/ /\ writer = "open" /\ Mishap
          /\ path' = Append(path, Torn) /\ unsaved' = unsaved \cup {tx}
       \/ /\ writer \in {"nil", "broken"}
          /\ unsaved' = unsaved \cup {tx} /\ UNCHANGED <<path, mishaps>>
    /\ UNCHANGED <<fresh, writer, phase, owed, unread>>

(* A transaction is mined or dropped. *)
Leaves(tx) ==
    /\ phase = "run" /\ tx \in local
    /\ local' = local \ {tx} /\ unsaved' = unsaved \ {tx}
    /\ UNCHANGED <<path, fresh, writer, phase, mishaps, owed, unread>>

-----------------------------------------------------------------------------
(* rotate, under the pool's lock.  An error ends it.                       *)

rotateClose ==
    /\ phase = "run"
    /\ \/ writer # "nil" /\ Mishap /\ writer' = "broken" /\ phase' = "run"
       \/ writer' = "nil" /\ phase' = "create" /\ UNCHANGED mishaps
    /\ UNCHANGED <<local, path, fresh, unsaved, owed, unread>>

\* Mutant: the journal is rewritten in its place.
rotateCreateOver ==
    /\ phase = "create"
    /\ path' = <<>> /\ fresh' = <<>> /\ phase' = "write"
    /\ UNCHANGED <<local, writer, mishaps, unsaved, owed, unread>>

rotateCreate ==
    /\ phase = "create"
    /\ fresh' = <<>> /\ phase' = "write"
    /\ UNCHANGED <<local, path, writer, mishaps, unsaved, owed, unread>>

rotateWrite(tx) ==
    /\ phase = "write" /\ tx \in local \ Range(fresh)
    /\ fresh' = Append(fresh, tx)
    /\ UNCHANGED <<local, path, writer, phase, mishaps, unsaved, owed, unread>>

rotateRename ==
    /\ phase = "write" /\ local \subseteq Range(fresh)
    /\ path' = fresh /\ fresh' = NoFile /\ phase' = "open"
    /\ owed' = (IF unread THEN {} ELSE owed) /\ unread' = FALSE
    /\ UNCHANGED <<local, writer, mishaps, unsaved>>

rotateOpen ==
    /\ phase = "open"
    /\ writer' = "open" /\ phase' = "run" /\ unsaved' = {} /\ owed' = {}
    /\ UNCHANGED <<local, path, fresh, mishaps, unread>>

(* Creating, writing, renaming or opening fails: there is no writer then.  *)
rotateFails ==
    /\ phase \in {"create", "write", "open"} /\ Mishap
    /\ phase' = "run" /\ owed' = IF unread THEN owed ELSE {}
    /\ UNCHANGED <<local, path, fresh, writer, unsaved, unread>>

-----------------------------------------------------------------------------
Saved == IF IsTorn(path) THEN {} ELSE local \ unsaved

(* Stop closes the journal; a crash ends the process anywhere, perhaps in  *)
(* the middle of a record.                                                 *)
Down ==
    /\ owed' = owed \cup Saved
    /\ local' = {} /\ writer' = "nil" /\ phase' = "down" /\ unsaved' = {} /\ unread' = FALSE
    /\ UNCHANGED fresh

close == phase = "run" /\ Down /\ UNCHANGED <<path, mishaps>>

CrashPool ==
    /\ phase # "down" /\ Mishap
    /\ Down
    /\ path' \in {path} \cup (IF writer = "open" /\ phase = "run" THEN {Append(path, Torn)} ELSE {})

JournalNext ==
    \/ Open \/ load \/ loadFails \/ close \/ CrashPool
    \/ rotateClose \/ rotateCreate \/ rotateRename \/ rotateOpen \/ rotateFails
    \/ \E tx \in LocalTx : insert(tx) \/ Leaves(tx) \/ rotateWrite(tx)

-----------------------------------------------------------------------------
(* What the pool held and had journaled without an error is in the file    *)
(* until a later pool runs, wherever in a rotation the last process died,  *)
(* and in that pool unless it could not read the file.  Then it stays in   *)
(* the file until a rotation replaces it (tx_pool.go:189-194 only warns).  *)
(* A record that was cut short hides all later ones until a rotation.      *)
SavedSurvive ==
    /\ owed \subseteq Readable(path)
    /\ phase = "create" /\ ~unread => owed \subseteq local

(* A journal that is being written to holds every local transaction: the   *)
(* ones whose insert failed are back after the next rotation.              *)
JournalComplete == writer = "open" /\ ~IsTorn(path) => local \subseteq Readable(path)

(* The journal holds what it was given, on disk and after a restart.       *)
JournalSafe == SavedSurvive /\ JournalComplete
=============================================================================
