----------------------------- MODULE AncientLog -----------------------------
(***************************************************************************)
(* What one table of the ancient store promises: a log of blobs that grows *)
(* at the end, is cut at the end, and after a failure comes back as a      *)
(* prefix that holds at least what was last synced.  A failure the table   *)
(* does not handle ends the promise: intact turns FALSE for good.          *)
(***************************************************************************)
EXTENDS Naturals, Sequences

CONSTANT Blobs

VARIABLES log, synced, intact

LogInit == log = <<>> /\ synced = 0 /\ intact = TRUE

LogAppend ==
    \E b \in Blobs : log' = Append(log, b) /\ UNCHANGED <<synced, intact>>

(* A cut, by a rewind or because a failure lost the end of the log.  Only  *)
(* the rewind may go below what was synced.                                *)
LogTruncate ==
    \E n \in 0..Len(log) :
        /\ log' = SubSeq(log, 1, n)
        /\ synced' = IF synced < n THEN synced ELSE n
        /\ UNCHANGED intact

LogLose ==
    \E n \in synced..Len(log) :
        log' = SubSeq(log, 1, n) /\ UNCHANGED <<synced, intact>>

LogSync == synced' = Len(log) /\ UNCHANGED <<log, intact>>

LogDamage == intact' = FALSE

LogNext ==
    intact /\ (LogAppend \/ LogTruncate \/ LogLose \/ LogSync \/ LogDamage)

(* Nothing is said of a log that is no longer intact. *)
LogView == IF intact THEN <<log, synced, intact>> ELSE <<intact>>

LogSpec == LogInit /\ [][LogNext]_LogView
=============================================================================
