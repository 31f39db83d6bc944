-------------------------- MODULE BackgroundProofs --------------------------
(***************************************************************************)
(* What holds of the goroutines beside the chain and the pool for every    *)
(* value of the constants.  A component moves alone, so each theorem has   *)
(* an inductive invariant over the variables of its component.             *)
(***************************************************************************)
EXTENDS Background, FiniteSetTheorems, SequenceTheorems, TLAPS, WellFoundedInduction

-----------------------------------------------------------------------------
(* Sets of numbers have a least element *)

Less == {ss \in Nat \X Nat : ss[1] < ss[2]}

LEMMA LeastNat ==
    ASSUME NEW S \in SUBSET Nat, S # {}
    PROVE  \E n \in S : \A m \in S : n <= m
<1>1. IsWellFoundedOn(Less, Nat)
  BY NatLessThanWellFounded, Zenon DEF OpToRel, Less
<1>2. PICK low \in S : \A n \in S : ~(<<n, low>> \in Less)
  BY <1>1, WFMin, Zenon
<1>3. \A n \in S : low <= n
  <2> SUFFICES ASSUME NEW n \in S, n < low PROVE FALSE
    OBVIOUS
  <2>1. <<n, low>> \in Nat \X Nat /\ <<n, low>>[1] < <<n, low>>[2]
    OBVIOUS
  <2>2. <<n, low>> \in Less
    BY <2>1, Zenon DEF Less
  <2> QED BY <1>2, <2>2
<1> QED BY <1>3

LEMMA MinOfNats ==
    ASSUME NEW S \in SUBSET Nat, S # {}
    PROVE  Min(S) \in S /\ \A m \in S : Min(S) <= m
BY LeastNat, Zenon DEF Min

LEMMA MaxOfNats ==
    ASSUME NEW b \in Nat, NEW S \in SUBSET (0..b), S # {}
    PROVE  Max(S) \in S /\ \A m \in S : Max(S) >= m
<1> DEFINE T == {b - n : n \in S}
<1>1. PICK low \in T : \A m \in T : low <= m
  <2>1. T \in SUBSET Nat
    OBVIOUS
  <2>2. PICK x \in S : TRUE
    OBVIOUS
  <2>3. b - x \in T
    OBVIOUS
  <2> QED BY <2>1, <2>3, LeastNat, Zenon
<1>2. PICK n \in S : low = b - n
  OBVIOUS
<1>3. \A m \in S : n >= m
  <2> TAKE m \in S
  <2>1. b - n <= b - m
    BY <1>1, <1>2
  <2> QED BY <2>1
<1> QED BY <1>3, Zenon DEF Max

-----------------------------------------------------------------------------
(* The journal of local transactions *)

Record == LocalTx \cup {Torn}
File == Seq(Record)

JournalTypeOK ==
    /\ local \subseteq LocalTx /\ unsaved \subseteq LocalTx /\ owed \subseteq LocalTx
    /\ unread \in BOOLEAN
    /\ path \in File \cup {NoFile}
    /\ fresh \in File \cup {NoFile}
    /\ writer \in {"nil", "null", "open", "broken"}
    /\ phase \in {"down", "load", "create", "write", "open", "run"}

(* What this process, or an earlier one, has been told is saved is         *)
(* readable.                                                               *)
OnDisk ==
    /\ owed \subseteq Readable(path) /\ Saved \subseteq Readable(path)
    /\ phase \in {"down", "load"} => local = {} /\ unsaved = {} /\ ~unread

(* The writer is what the phase says: in a rotation there is none.         *)
WriterOfPhase ==
    /\ phase \in {"down", "create", "write", "open"} => writer = "nil"
    /\ phase = "load" => writer = "null" /\ path # NoFile
    /\ phase = "run" => writer # "null"
    /\ writer = "open" => path # NoFile /\ (IsTorn(path) \/ unsaved = {})

(* The new file holds whole records, and all of them once it is renamed.   *)
(* A file that could not be read has no writer before that.                *)
Rotation ==
    /\ phase \in {"create", "write", "open"} /\ ~unread => owed \subseteq local
    /\ phase = "run" /\ ~unread => owed = {}
    /\ unread => phase # "open" /\ writer \in {"nil", "broken"}
    /\ phase = "write" => fresh \in Seq(LocalTx)
    /\ phase = "open" => path \in Seq(LocalTx) /\ local \subseteq Range(path)

JournalInv == JournalTypeOK /\ OnDisk /\ WriterOfPhase /\ Rotation

(* What decoding yields are transactions.                                  *)
LEMMA ReadableType ==
    ASSUME NEW p \in File \cup {NoFile}
    PROVE  Readable(p) \subseteq LocalTx
BY JournalAssumption DEF Readable, File, Record

(* An append leaves what could be decoded before.                          *)
LEMMA ReadableGrows ==
    ASSUME NEW p \in File, NEW x \in Record
    PROVE  /\ Append(p, x) \in File
           /\ Readable(p) \subseteq Readable(Append(p, x))
           /\ IsTorn(p) => IsTorn(Append(p, x))
<1>1. /\ Append(p, x) \in File
      /\ Len(Append(p, x)) = Len(p) + 1
      /\ \A i \in 1..Len(p) : Append(p, x)[i] = p[i]
  BY DEF File
<1>2. p # NoFile /\ Append(p, x) # NoFile
  BY <1>1, JournalAssumption DEF File, Record
<1>3. DOMAIN p = 1..Len(p) /\ DOMAIN Append(p, x) = 1..(Len(p) + 1) /\ Len(p) \in Nat
  BY <1>1 DEF File
<1>4. Readable(p) \subseteq Readable(Append(p, x))
  <2> SUFFICES ASSUME NEW j \in 1..Len(p), \A k \in 1..j : p[k] # Torn
               PROVE  p[j] \in Readable(Append(p, x))
    BY <1>2, <1>3 DEF Readable
  <2>1. j \in DOMAIN Append(p, x) /\ Append(p, x)[j] = p[j]
    BY <1>1, <1>3
  <2>2. \A k \in 1..j : Append(p, x)[k] # Torn
    BY <1>1, <1>3
  <2> QED BY <2>1, <2>2, <1>2 DEF Readable
<1>5. IsTorn(p) => IsTorn(Append(p, x))
  <2> SUFFICES ASSUME NEW j \in 1..Len(p), p[j] = Torn
               PROVE  Torn \in Range(Append(p, x))
    BY <1>2, <1>3 DEF IsTorn, Range
  <2> QED BY <1>1, <1>3 DEF Range
<1> QED BY <1>1, <1>4, <1>5

(* A file without a torn record is decoded to its end.                     *)
LEMMA ReadableWhole ==
    ASSUME NEW p \in File, ~IsTorn(p)
    PROVE  Readable(p) = Range(p)
<1>1. p # NoFile /\ DOMAIN p = 1..Len(p) /\ Len(p) \in Nat
  BY JournalAssumption DEF File, Record
<1>2. \A k \in 1..Len(p) : p[k] # Torn
  BY <1>1 DEF IsTorn, Range
<1> QED BY <1>1, <1>2 DEF Readable, Range

LEMMA AppendedRecord ==
    ASSUME NEW p \in File, NEW x \in Record
    PROVE  Range(Append(p, x)) = Range(p) \cup {x}
<1>1. /\ DOMAIN Append(p, x) = 1..(Len(p) + 1) /\ DOMAIN p = 1..Len(p) /\ Len(p) \in Nat
      /\ \A i \in 1..Len(p) : Append(p, x)[i] = p[i]
      /\ Append(p, x)[Len(p) + 1] = x
  BY DEF File
<1> QED BY <1>1 DEF Range

(* The new file, to which only transactions are written, is never torn.    *)
LEMMA WholeFile ==
    ASSUME NEW p \in Seq(LocalTx)
    PROVE  p \in File /\ ~IsTorn(p)
<1>1. p \in File
  BY DEF File, Record
<1>2. \A i \in DOMAIN p : p[i] \in LocalTx
  OBVIOUS
<1> QED BY <1>1, <1>2, JournalAssumption DEF IsTorn, Range

LEMMA JournalInit1 == JournalInit => JournalInv
BY DEF JournalInit, JournalInv, JournalTypeOK, OnDisk, WriterOfPhase, Rotation, Saved, Readable,
       File, Record

LEMMA OpenKeeps == JournalInv /\ Open => JournalInv'
<1> SUFFICES ASSUME JournalInv, Open PROVE JournalInv'
  OBVIOUS
<1> USE DEF JournalInv
<1>1. UNCHANGED <<local, path, fresh, unsaved, owed, unread>>
      /\ Readable(path') = Readable(path) /\ IsTorn(path') = IsTorn(path)
  BY DEF Open
<1>2. local = {} /\ unsaved = {} /\ ~unread /\ owed \subseteq Readable(path)
  BY DEF Open, OnDisk
<1>3. path = NoFile => Readable(path) = {}
  BY DEF Readable
<1>4. JournalTypeOK' /\ OnDisk'
  BY <1>1, <1>2 DEF Open, JournalTypeOK, OnDisk, Saved
<1>5. WriterOfPhase' /\ Rotation'
  BY <1>1, <1>2, <1>3 DEF Open, WriterOfPhase, Rotation
<1> QED BY <1>4, <1>5

LEMMA loadKeeps == JournalInv /\ load => JournalInv'
<1> SUFFICES ASSUME JournalInv, load PROVE JournalInv'
  OBVIOUS
<1> USE DEF JournalInv
<1>1. Readable(path) \subseteq LocalTx
  BY ReadableType DEF JournalTypeOK
<1>2. path' = path /\ Readable(path') = Readable(path) /\ IsTorn(path') = IsTorn(path)
  BY DEF load
<1>3. JournalTypeOK'
  BY <1>1 DEF load, JournalTypeOK
<1>4. OnDisk'
  BY <1>2 DEF load, OnDisk, Saved
<1>5. WriterOfPhase' /\ Rotation'
  BY <1>2 DEF load, WriterOfPhase, OnDisk, Rotation
<1> QED BY <1>3, <1>4, <1>5

(* What was read before an error is a part of the file.                    *)
LEMMA ReadablePart ==
    ASSUME NEW p \in File, NEW n \in 0..Len(p)
    PROVE  Readable(SubSeq(p, 1, n)) \subseteq Readable(p)
<1>1. /\ DOMAIN p = 1..Len(p) /\ Len(p) \in Nat
      /\ DOMAIN SubSeq(p, 1, n) = 1..n /\ \A i \in 1..n : SubSeq(p, 1, n)[i] = p[i]
      /\ SubSeq(p, 1, n) \in File
  BY DEF File
<1>2. p # NoFile /\ SubSeq(p, 1, n) # NoFile
  BY <1>1, JournalAssumption DEF File, Record
<1> SUFFICES ASSUME NEW j \in 1..n, \A k \in 1..j : SubSeq(p, 1, n)[k] # Torn
             PROVE  SubSeq(p, 1, n)[j] \in Readable(p)
  BY <1>1, <1>2 DEF Readable
<1>3. j \in DOMAIN p /\ SubSeq(p, 1, n)[j] = p[j] /\ \A k \in 1..j : p[k] # Torn
  BY <1>1
<1> QED BY <1>2, <1>3 DEF Readable

LEMMA loadFailsKeeps == JournalInv /\ loadFails => JournalInv'
<1> SUFFICES ASSUME JournalInv, loadFails PROVE JournalInv'
  OBVIOUS
<1> USE DEF JournalInv
<1>1. path \in File
  BY DEF loadFails, WriterOfPhase, JournalTypeOK
<1>2. local' \subseteq Readable(path) /\ Readable(path) \subseteq LocalTx
  BY <1>1, ReadablePart, ReadableType DEF loadFails
<1>3. path' = path /\ Readable(path') = Readable(path) /\ IsTorn(path') = IsTorn(path)
  BY DEF loadFails
<1>4. JournalTypeOK'
  BY <1>2 DEF loadFails, JournalTypeOK
<1>5. OnDisk'
  BY <1>2, <1>3 DEF loadFails, OnDisk, Saved
<1>6. WriterOfPhase' /\ Rotation'
  BY <1>3 DEF loadFails, WriterOfPhase, Rotation
<1> QED BY <1>4, <1>5, <1>6

(* An insert succeeds, tears the file, or is refused.                      *)
LEMMA insertKeeps ==
    ASSUME NEW tx \in LocalTx, JournalInv, insert(tx)
    PROVE  JournalInv'
<1> USE DEF JournalInv
<1>1. phase = "run" /\ phase' = "run" /\ local' = local \cup {tx} /\ UNCHANGED <<fresh, writer, owed, unread>>
  BY DEF insert
<1>2. tx \in Record /\ Torn \in Record
  BY DEF Record
<1>3. CASE writer = "open" /\ path' = Append(path, tx) /\ unsaved' = unsaved
  <2>1. path \in File
    BY <1>3 DEF WriterOfPhase, JournalTypeOK
  <2>2. /\ path' \in File /\ Readable(path) \subseteq Readable(path')
        /\ IsTorn(path) => IsTorn(path')
    BY <1>2, <1>3, <2>1, ReadableGrows
  <2>3. path' # NoFile
    BY <2>2, JournalAssumption DEF File, Record
  <2>4. ~IsTorn(path') => tx \in Readable(path')
    BY <1>2, <1>3, <2>1, <2>2, ReadableWhole, AppendedRecord
  <2>5. JournalTypeOK'
    BY <1>1, <1>3, <2>2 DEF JournalTypeOK
  <2>6. OnDisk'
    BY <1>1, <1>3, <2>2, <2>4 DEF OnDisk, Saved
  <2>7. WriterOfPhase' /\ Rotation'
    BY <1>1, <1>3, <2>2, <2>3 DEF WriterOfPhase, Rotation
  <2> QED BY <2>5, <2>6, <2>7
<1>4. CASE writer = "open" /\ path' = Append(path, Torn) /\ unsaved' = unsaved \cup {tx}
  <2>1. path \in File
    BY <1>4 DEF WriterOfPhase, JournalTypeOK
  <2>2. path' \in File
    BY <1>2, <1>4, <2>1, ReadableGrows
  <2>3. path' # NoFile
    BY <2>2, JournalAssumption DEF File, Record
  <2>4. IsTorn(path')
    BY <1>2, <1>4, <2>1, <2>3, AppendedRecord DEF IsTorn
  <2>5. JournalTypeOK'
    BY <1>1, <1>4, <2>2 DEF JournalTypeOK
  <2>6. OnDisk'
    <3>1. Readable(path) \subseteq Readable(path')
      BY <1>2, <1>4, <2>1, ReadableGrows
    <3> QED BY <1>1, <2>4, <3>1 DEF OnDisk, Saved
  <2>7. WriterOfPhase' /\ Rotation'
    BY <1>1, <1>4, <2>3, <2>4 DEF WriterOfPhase, Rotation
  <2> QED BY <2>5, <2>6, <2>7
<1>5. CASE writer \in {"nil", "broken"} /\ unsaved' = unsaved \cup {tx} /\ path' = path
  <2>1. JournalTypeOK' /\ WriterOfPhase' /\ Rotation'
    BY <1>1, <1>5 DEF JournalTypeOK, WriterOfPhase, Rotation
  <2>2. Readable(path') = Readable(path) /\ IsTorn(path') = IsTorn(path)
    BY <1>5
  <2>3. OnDisk'
    BY <1>1, <1>5, <2>2 DEF OnDisk, Saved
  <2> QED BY <2>1, <2>3
<1> QED BY <1>3, <1>4, <1>5 DEF insert

LEMMA LeavesKeeps ==
    ASSUME NEW tx \in LocalTx, JournalInv, Leaves(tx)
    PROVE  JournalInv'
<1> USE DEF JournalInv
<1>1. path' = path /\ Readable(path') = Readable(path) /\ IsTorn(path') = IsTorn(path)
  BY DEF Leaves
<1>2. JournalTypeOK' /\ WriterOfPhase' /\ Rotation'
  BY <1>1 DEF Leaves, JournalTypeOK, WriterOfPhase, Rotation
<1>3. OnDisk'
  BY <1>1 DEF Leaves, OnDisk, Saved
<1> QED BY <1>2, <1>3

(* The steps of rotate.  Until the rename the old file is left alone; what *)
(* the rename puts in its place holds every local transaction.             *)
LEMMA rotateKeeps ==
    ASSUME JournalInv, rotateClose \/ rotateCreate \/ rotateOpen \/ rotateFails
    PROVE  JournalInv'
<1> USE DEF JournalInv
<1>1. UNCHANGED <<local, path>>
      /\ Readable(path') = Readable(path) /\ IsTorn(path') = IsTorn(path) /\ Range(path') = Range(path)
  BY DEF rotateClose, rotateCreate, rotateOpen, rotateFails
<1>2. CASE rotateClose
  <2>1. JournalTypeOK' /\ OnDisk'
    BY <1>1, <1>2 DEF rotateClose, JournalTypeOK, OnDisk, Saved
  <2>2. WriterOfPhase' /\ Rotation'
    BY <1>1, <1>2 DEF rotateClose, WriterOfPhase, Rotation
  <2> QED BY <2>1, <2>2
<1>3. CASE rotateCreate
  <2>1. <<>> \in Seq(LocalTx) /\ <<>> \in File
    BY DEF File
  <2>2. JournalTypeOK' /\ OnDisk'
    BY <1>1, <1>3, <2>1 DEF rotateCreate, JournalTypeOK, OnDisk, Saved
  <2>3. WriterOfPhase' /\ Rotation'
    BY <1>1, <1>3, <2>1 DEF rotateCreate, WriterOfPhase, Rotation
  <2> QED BY <2>2, <2>3
<1>4. CASE rotateOpen
  <2>1. path \in File /\ ~IsTorn(path) /\ local \subseteq Readable(path)
    BY <1>4, WholeFile, ReadableWhole DEF rotateOpen, Rotation
  <2>2. path # NoFile
    BY <2>1, JournalAssumption DEF File, Record
  <2>3. JournalTypeOK' /\ OnDisk'
    BY <1>1, <1>4, <2>1 DEF rotateOpen, JournalTypeOK, OnDisk, Saved
  <2>4. WriterOfPhase' /\ Rotation'
    BY <1>1, <1>4, <2>2 DEF rotateOpen, WriterOfPhase, Rotation
  <2> QED BY <2>3, <2>4
<1>5. CASE rotateFails
  <2>1. JournalTypeOK' /\ OnDisk'
    BY <1>1, <1>5 DEF rotateFails, JournalTypeOK, OnDisk, Saved
  <2>2. WriterOfPhase' /\ Rotation'
    BY <1>1, <1>5 DEF rotateFails, WriterOfPhase, Rotation
  <2> QED BY <2>1, <2>2
<1> QED BY <1>2, <1>3, <1>4, <1>5

LEMMA rotateWriteKeeps ==
    ASSUME NEW tx \in LocalTx, JournalInv, rotateWrite(tx)
    PROVE  JournalInv'
<1> USE DEF JournalInv
<1>1. path' = path /\ Readable(path') = Readable(path) /\ IsTorn(path') = IsTorn(path)
  BY DEF rotateWrite
<1>2. fresh' \in Seq(LocalTx) /\ fresh' \in File
  <2>1. fresh \in Seq(LocalTx) /\ fresh' = Append(fresh, tx)
    BY DEF rotateWrite, Rotation
  <2>2. fresh' \in Seq(LocalTx)
    BY <2>1
  <2> QED BY <2>2, WholeFile
<1>3. JournalTypeOK' /\ OnDisk'
  BY <1>1, <1>2 DEF rotateWrite, JournalTypeOK, OnDisk, Saved
<1>4. WriterOfPhase' /\ Rotation'
  BY <1>1, <1>2 DEF rotateWrite, WriterOfPhase, Rotation
<1> QED BY <1>3, <1>4

LEMMA rotateRenameKeeps ==
    ASSUME JournalInv, rotateRename
    PROVE  JournalInv'
<1> USE DEF JournalInv
<1>1. path' \in Seq(LocalTx) /\ local' \subseteq Range(path') /\ UNCHANGED <<local, writer, unsaved>>
  BY DEF rotateRename, Rotation
<1>2. path' \in File /\ local' \subseteq Readable(path')
  BY <1>1, WholeFile, ReadableWhole
<1>5. owed' \subseteq local' /\ ~unread'
  BY <1>1 DEF rotateRename, Rotation, JournalTypeOK
<1>3. JournalTypeOK' /\ OnDisk'
  BY <1>1, <1>2, <1>5 DEF rotateRename, JournalTypeOK, OnDisk, Saved
<1>4. WriterOfPhase' /\ Rotation'
  BY <1>1, <1>5 DEF rotateRename, WriterOfPhase, Rotation
<1> QED BY <1>3, <1>4

(* The process ends; a record cut short at the end hides none before it.   *)
LEMMA DownKeeps ==
    ASSUME JournalInv, close \/ CrashPool
    PROVE  JournalInv'
<1> USE DEF JournalInv
<1>1. Down
  BY DEF close, CrashPool
<1>2. path' \in File \cup {NoFile} /\ Readable(path) \subseteq Readable(path')
  <2>1. CASE path' = path
    BY <2>1 DEF JournalTypeOK
  <2>2. CASE writer = "open" /\ path' = Append(path, Torn)
    <3>1. path \in File /\ Torn \in Record
      BY <2>2 DEF WriterOfPhase, JournalTypeOK, Record
    <3> QED BY <2>2, <3>1, ReadableGrows
  <2> QED BY <2>1, <2>2 DEF close, CrashPool
<1>3. owed' \subseteq Readable(path) /\ owed' \subseteq LocalTx
  BY <1>1 DEF Down, OnDisk, Saved, JournalTypeOK
<1>4. JournalTypeOK' /\ OnDisk'
  <2>1. local' = {} /\ unsaved' = {} /\ ~unread' /\ Saved' = {}
    BY <1>1 DEF Down, Saved
  <2> QED BY <1>1, <1>2, <1>3, <2>1 DEF Down, JournalTypeOK, OnDisk
<1>5. WriterOfPhase' /\ Rotation'
  BY <1>1 DEF Down, WriterOfPhase, Rotation
<1> QED BY <1>4, <1>5

LEMMA JournalInductive == JournalInv /\ [Next]_vars => JournalInv'
<1> SUFFICES ASSUME JournalInv, [Next]_vars PROVE JournalInv'
  OBVIOUS
<1>1. CASE UNCHANGED journalVars
  BY <1>1 DEF JournalInv, journalVars, JournalTypeOK, OnDisk, WriterOfPhase, Rotation, Saved
<1>2. CASE JournalNext
  <2>1. ASSUME NEW tx \in LocalTx, insert(tx) \/ Leaves(tx) \/ rotateWrite(tx)
        PROVE  JournalInv'
    BY <2>1, insertKeeps, LeavesKeeps, rotateWriteKeeps
  <2> QED BY <1>2, <2>1, OpenKeeps, loadKeeps, loadFailsKeeps, DownKeeps, rotateKeeps, rotateRenameKeeps
          DEF JournalNext
<1> QED BY <1>1, <1>2 DEF Next, vars

(* A local transaction that was journaled without an error is in the file  *)
(* until a later pool runs, and in that pool unless reading failed; and a  *)
(* journal that is open and whole holds every local transaction            *)
(* (tx_journal.go: load, insert, rotate, close), however many loads,       *)
(* writes and rotations fail and wherever the process dies.                *)
THEOREM JournalIsSafe == Spec => []JournalSafe
<1>1. Init => JournalInv
  BY JournalInit1 DEF Init, AtFirst
<1>2. JournalInv => JournalSafe
  BY DEF JournalInv, JournalSafe, SavedSurvive, JournalComplete, OnDisk, WriterOfPhase, Rotation, Saved
<1> QED BY <1>1, <1>2, JournalInductive, PTL DEF Spec

-----------------------------------------------------------------------------
(* The transaction index *)

IndexJobs ==
    [op : {"index"}, to : Nat, last : Nat, left : SUBSET Nat, queue : SUBSET Nat, batch : SUBSET Nat]
UnindexJobs ==
    [op : {"tail", "unindex"}, left : SUBSET Nat, batch : SUBSET Nat, to : Nat]

TxTypeOK ==
    /\ top \in Nat /\ lookup \subseteq Nat /\ tail \in Nat \cup {NoTail}
    /\ event \in Nat \cup {NoEvent} /\ fastSync \in BOOLEAN
    /\ unsure \subseteq Nat /\ leaked \subseteq Nat
    /\ job \in {NoJob} \cup IndexJobs \cup UnindexJobs

Covered(n) == n \in lookup \cup unsure

(* A job that extends the index has everything above what it has reached,  *)
(* in the database or in its batch, and the tail after each batch.         *)
IndexJobOK ==
    job.op = "index" =>
        /\ job.last <= job.to
        /\ \A n \in 1..top : n >= job.last => Covered(n) \/ n \in job.batch
        /\ \A n \in job.batch : n >= job.last
        /\ job.batch = {} /\ job.last < job.to => tail = job.last

(* A job that shortens the index deletes below its target alone, and that  *)
(* is the tail before it deletes anything.                                 *)
UnindexJobOK ==
    /\ job.op \in {"tail", "unindex"} => \A n \in job.left \cup job.batch : n < job.to
    /\ job.op = "tail" =>
        /\ ~fastSync
        /\ tail # NoTail => tail <= job.to
        /\ \A n \in 0..(job.to - 1) : (tail # NoTail => n >= tail) => n \in job.left
    /\ job.op = "unindex" => tail = job.to

(* Before there is a tail, what will be above it is indexed.               *)
CoveredBeforeTail ==
    tail = NoTail /\ job.op # "index" =>
        \A n \in 1..top :
            \/ fastSync /\ top <= ancientLimit /\ ~FastIndexed(n)
            \/ Covered(n)

(* What has entries below the tail was left there, or is being deleted.    *)
BelowTail ==
    tail # NoTail =>
        \A n \in lookup \cap (1..top) :
            n < tail => n \in leaked \/ (job.op = "unindex" /\ n \in job.left \cup job.batch)

TxInv ==
    /\ TxTypeOK /\ TailCovers /\ IndexJobOK /\ UnindexJobOK /\ CoveredBeforeTail /\ BelowTail
    /\ event # NoEvent => ~fastSync
    /\ fastSync /\ tail = NoTail => \A n \in lookup \ {0} : FastIndexed(n)

LEMMA OldestType == ASSUME NEW n \in Nat PROVE Oldest(n) \in Nat
BY TxIndexerAssumption DEF Oldest

(* The block a delivery lets the job reach: all above it have come.        *)
LEMMA LowestReached ==
    ASSUME NEW queue, NEW last \in Nat
    PROVE  Lowest(queue, last) \in Nat /\ Lowest(queue, last) <= last
<1> DEFINE S == {n \in 0..last : n..(last - 1) \subseteq queue}
<1>1. last \in S /\ S \in SUBSET Nat
  OBVIOUS
<1>2. Min(S) \in S
  BY <1>1, MinOfNats, Zenon
<1> QED BY <1>2 DEF Lowest

LEMMA TxInit1 == TxInit => TxInv
<1> SUFFICES ASSUME TxInit PROVE TxInv
  OBVIOUS
<1>1. tail = NoTail /\ event = NoEvent /\ unsure = {} /\ leaked = {} /\ lookup = {}
  BY DEF TxInit
<1>2. CASE top = 0 /\ job = NoJob /\ fastSync \in BOOLEAN
  BY <1>1, <1>2
     DEF TxInv, TxTypeOK, TailCovers, IndexJobOK, UnindexJobOK, CoveredBeforeTail, BelowTail, NoJob
<1>3. ASSUME NEW from \in Nat, top = Ancients - 1, fastSync = TRUE, job = Indexing(from, Ancients)
      PROVE  TxInv
  <2>1. /\ Ancients \in Nat /\ top \in Nat /\ top < Ancients
        /\ job = [op |-> "index", to |-> Ancients, last |-> Ancients, left |-> from..(Ancients - 1),
                  queue |-> {}, batch |-> {}]
    BY <1>3, TxIndexerAssumption DEF Indexing
  <2>2. job \in IndexJobs /\ job.op = "index"
    BY <2>1 DEF IndexJobs
  <2>3. TxTypeOK
    BY <1>1, <1>3, <2>1, <2>2 DEF TxTypeOK
  <2>4. IndexJobOK
    BY <2>1 DEF IndexJobOK
  <2> QED BY <1>1, <2>2, <2>3, <2>4 
          DEF TxInv, TailCovers, UnindexJobOK, CoveredBeforeTail, BelowTail
<1>4. (IF txLookupLimit # 0 /\ Ancients > txLookupLimit THEN Ancients - txLookupLimit ELSE 0) \in Nat
  BY TxIndexerAssumption
<1> QED BY <1>2, <1>3, <1>4 DEF TxInit

LEMMA JobKind ==
    TxTypeOK => /\ job.op = "index" => job \in IndexJobs
                /\ job.op \in {"tail", "unindex"} => job \in UnindexJobs
                /\ job.op \in {"none", "index", "tail", "unindex"}
                /\ job = NoJob <=> job.op = "none"
BY DEF TxTypeOK, NoJob, IndexJobs, UnindexJobs

(* The chain grows by a block that is indexed.                             *)
LEMMA GrowthKeeps ==
    ASSUME TxInv, top' = top + 1, lookup' = lookup \cup {top + 1}, leaked' = Leak(top + 1),
           UNCHANGED <<tail, job, unsure>>, event' \in {event, top + 1},
           fastSync' \in BOOLEAN, fastSync' => fastSync /\ event' = event,
           fastSync /\ ~fastSync' => top > ancientLimit,
           fastSync' /\ tail = NoTail => top < ancientLimit /\ FastIndexed(top + 1)
    PROVE  TxInv'
<1> USE TxIndexerAssumption DEF TxInv
<1>1. top \in Nat /\ lookup \subseteq Nat /\ tail \in Nat \cup {NoTail} /\ ancientLimit \in Nat
  BY DEF TxTypeOK
<1>2. TxTypeOK'
  BY <1>1 DEF TxTypeOK, Leak
<1>3. TailCovers'
  BY <1>1 DEF TailCovers
<1>4. IndexJobOK'
  BY <1>1 DEF IndexJobOK, Covered
<1>5. UnindexJobOK'
  <2>1. job.op = "tail" => ~fastSync'
    BY DEF UnindexJobOK
  <2> QED BY <1>1, <2>1 DEF UnindexJobOK, TxTypeOK
<1>6. CoveredBeforeTail'
  BY <1>1 DEF CoveredBeforeTail, Covered, FastIndexed
<1>7. BelowTail'
  BY <1>1 DEF BelowTail, Leak
<1>8. (fastSync /\ tail = NoTail => \A n \in lookup \ {0} : FastIndexed(n))'
  BY <1>1 DEF FastIndexed
<1> QED BY <1>2, <1>3, <1>4, <1>5, <1>6, <1>7, <1>8

LEMMA ImportBlockKeeps == ASSUME TxInv, ImportBlock PROVE TxInv'
BY GrowthKeeps DEF ImportBlock

LEMMA InsertLiveKeeps == ASSUME TxInv, InsertLive PROVE TxInv'
BY GrowthKeeps DEF InsertLive, TxInv, TxTypeOK

(* A block that fast sync does not index lies below the tail it will write *)
(* or was left to the first job.                                           *)
LEMMA InsertAncientKeeps == ASSUME TxInv, InsertAncient PROVE TxInv'
<1> USE TxIndexerAssumption DEF TxInv
<1>1. CASE FastIndexed(top + 1)
  BY <1>1, GrowthKeeps DEF InsertAncient, TxTypeOK
<1>2. CASE ~FastIndexed(top + 1)
  <2>1. /\ top \in Nat /\ top' = top + 1 /\ tail = NoTail /\ ancientLimit \in Nat
        /\ fastSync /\ top < ancientLimit
        /\ unsure' = IF job = NoJob THEN unsure ELSE unsure \cup {top + 1}
        /\ UNCHANGED <<lookup, leaked, tail, event, job, fastSync>>
    BY <1>2 DEF InsertAncient, FastIndexed, TxTypeOK
  <2>2. TxTypeOK'
    BY <2>1 DEF TxTypeOK
  <2>3. TailCovers' /\ BelowTail'
    BY <2>1 DEF TailCovers, BelowTail
  <2>4. job.op = "index" => unsure' = unsure \cup {top + 1}
    BY <2>1, JobKind
  <2>5. IndexJobOK'
    BY <2>1, <2>4 DEF IndexJobOK, Covered
  <2>6. UnindexJobOK'
    BY <2>1 DEF UnindexJobOK
  <2>7. CoveredBeforeTail'
    <3> SUFFICES ASSUME job.op # "index", NEW n \in 1..(top + 1)
                 PROVE  ~FastIndexed(n) \/ n \in lookup \cup unsure'
      BY <2>1 DEF CoveredBeforeTail, Covered, FastIndexed
    <3>1. CASE n = top + 1
      BY <1>2, <3>1
    <3>2. CASE n \in 1..top
      BY <2>1, <3>2 DEF CoveredBeforeTail, Covered
    <3> QED BY <2>1, <3>1, <3>2
  <2>8. (\A n \in lookup \ {0} : FastIndexed(n))'
    BY <2>1 DEF FastIndexed
  <2> QED BY <2>1, <2>2, <2>3, <2>5, <2>6, <2>7, <2>8
<1> QED BY <1>1, <1>2

(* The tail that fast sync writes.                                         *)
LEMMA WriteTailKeeps == ASSUME TxInv, WriteTail PROVE TxInv'
<1> USE TxIndexerAssumption DEF TxInv
<1>1. /\ top = ancientLimit /\ tail = NoTail /\ fastSync /\ top \in Nat
      /\ tail' = (IF txLookupLimit = 0 \/ ancientLimit <= txLookupLimit THEN 0
                  ELSE ancientLimit - txLookupLimit)
      /\ unsure' = IF job = NoJob THEN unsure ELSE unsure \cup ((tail'..top) \ lookup)
      /\ UNCHANGED <<top, lookup, event, job, fastSync, leaked>>
  BY DEF WriteTail, TxTypeOK
<1>2. tail' \in Nat
  BY <1>1
<1>3. TxTypeOK'
  BY <1>1, <1>2 DEF TxTypeOK
<1>4. TailCovers'
  <2>1. CASE job = NoJob
    <3>1. \A n \in 1..top : n >= tail' => FastIndexed(n)
      BY <1>1, <1>2 DEF FastIndexed
    <3>2. \A n \in 1..top : n >= tail' => n \in lookup \cup unsure
      BY <1>1, <2>1, <3>1, JobKind DEF CoveredBeforeTail, Covered
    <3> QED BY <1>1, <1>2, <2>1, <3>2 DEF TailCovers
  <2>2. CASE job # NoJob
    BY <1>1, <1>2, <2>2 DEF TailCovers
  <2> QED BY <2>1, <2>2
<1>5. unsure \subseteq unsure'
  BY <1>1
<1>6. IndexJobOK'
  BY <1>1, <1>2, <1>5, JobKind DEF IndexJobOK, Covered, IndexJobs
<1>7. UnindexJobOK' /\ CoveredBeforeTail'
  BY <1>1, <1>2, JobKind DEF UnindexJobOK, UnindexJobs, CoveredBeforeTail
<1>8. BelowTail'
  BY <1>1, <1>2 DEF BelowTail, FastIndexed
<1> QED BY <1>1, <1>3, <1>4, <1>6, <1>7, <1>8

LEMMA RewindChainKeeps == ASSUME TxInv, RewindChain PROVE TxInv'
<1> USE DEF TxInv
<1>1. /\ top' \in Nat /\ top \in Nat /\ top' < top /\ ~fastSync
      /\ UNCHANGED <<lookup, tail, event, job, fastSync, unsure, leaked>>
  BY DEF RewindChain, TxTypeOK
<1>2. TxTypeOK'
  BY <1>1 DEF TxTypeOK
<1>3. TailCovers' /\ IndexJobOK' /\ UnindexJobOK'
  BY <1>1 DEF TailCovers, IndexJobOK, UnindexJobOK, Covered, TxTypeOK
<1>4. CoveredBeforeTail' /\ BelowTail'
  BY <1>1 DEF CoveredBeforeTail, BelowTail, Covered
<1> QED BY <1>1, <1>2, <1>3, <1>4

LEMMA CrashIndexerKeeps == ASSUME TxInv, CrashIndexer PROVE TxInv'
<1> USE DEF TxInv
<1>1. /\ event' = NoEvent /\ job' = NoJob /\ unsure' = LeftOut(tail)
      /\ leaked' = (IF job.op = "unindex" THEN leaked \cup job.left \cup job.batch ELSE leaked)
      /\ UNCHANGED <<top, lookup, tail, fastSync>>
  BY DEF CrashIndexer
<1>2. unsure \subseteq unsure' /\ unsure' \subseteq Nat
  BY <1>1 DEF LeftOut, TxTypeOK
<1>3. leaked' \subseteq Nat
  BY <1>1, JobKind DEF TxTypeOK, UnindexJobs
<1>4. TxTypeOK'
  BY <1>1, <1>2, <1>3 DEF TxTypeOK
<1>5. TailCovers'
  BY <1>1, <1>2 DEF TailCovers
<1>6. IndexJobOK' /\ UnindexJobOK'
  BY <1>1 DEF IndexJobOK, UnindexJobOK, NoJob
<1>7. CoveredBeforeTail'
  <2>1. CASE job.op = "index"
    BY <1>1, <1>2, <2>1 DEF CoveredBeforeTail, Covered, LeftOut, TxTypeOK
  <2>2. CASE job.op # "index"
    BY <1>1, <1>2, <2>2 DEF CoveredBeforeTail, Covered, FastIndexed
  <2> QED BY <2>1, <2>2
<1>8. BelowTail'
  BY <1>1 DEF BelowTail
<1>9. (fastSync /\ tail = NoTail => \A n \in lookup \ {0} : FastIndexed(n))'
  BY <1>1 DEF FastIndexed
<1> QED BY <1>1, <1>4, <1>5, <1>6, <1>7, <1>8, <1>9

(* The job a head starts.                                                  *)
LEMMA HeadEventKeeps == ASSUME TxInv, HeadEvent PROVE TxInv'
<1> USE DEF TxInv
<1>1. event # NoEvent /\ event' = NoEvent /\ UNCHANGED <<top, lookup, tail, fastSync, unsure, leaked>>
  BY DEF HeadEvent
<1>2. ~fastSync /\ Oldest(event) \in Nat
  BY <1>1, OldestType DEF TxTypeOK
<1>3. TailCovers' /\ (fastSync /\ tail = NoTail => \A n \in lookup \ {0} : FastIndexed(n))'
  BY <1>1, <1>2 DEF TailCovers
<1>4. CASE job' = job
  BY <1>1, <1>3, <1>4
     DEF TxTypeOK, IndexJobOK, UnindexJobOK, CoveredBeforeTail, BelowTail, Covered, FastIndexed
<1>5. CASE job = NoJob /\ tail # NoTail /\ Oldest(event) < tail /\ job' = Indexing(Oldest(event), tail)
  <2>1. tail \in Nat
    BY <1>5 DEF TxTypeOK
  <2>2. job' = [op |-> "index", to |-> tail, last |-> tail, left |-> Oldest(event)..(tail - 1),
                queue |-> {}, batch |-> {}]
    BY <1>5 DEF Indexing
  <2>3. job' \in IndexJobs /\ job'.op = "index"
    BY <1>2, <2>1, <2>2 DEF IndexJobs
  <2>4. TxTypeOK'
    BY <1>1, <2>3 DEF TxTypeOK
  <2>5. IndexJobOK'
    BY <1>1, <1>5, <2>1, <2>2 DEF IndexJobOK, TailCovers, Covered, TxTypeOK
  <2>6. UnindexJobOK' /\ CoveredBeforeTail'
    BY <2>3 DEF UnindexJobOK, CoveredBeforeTail
  <2>7. BelowTail'
    BY <1>1, <1>5, JobKind DEF BelowTail
  <2> QED BY <1>1, <1>3, <2>4, <2>5, <2>6, <2>7
<1>6. ASSUME NEW from \in Nat, job = NoJob, job' = Unindexing(from, Oldest(event)),
             \/ tail = NoTail /\ from = 0
             \/ tail \in Nat /\ from = tail /\ tail <= Oldest(event)
      PROVE  TxInv'
  <2>1. job' = [op |-> "tail", left |-> from..(Oldest(event) - 1), batch |-> {}, to |-> Oldest(event)]
    BY <1>6 DEF Unindexing
  <2>2. job' \in UnindexJobs /\ job'.op = "tail"
    BY <1>2, <2>1 DEF UnindexJobs
  <2>3. TxTypeOK'
    BY <1>1, <2>2 DEF TxTypeOK
  <2>4. UnindexJobOK'
    BY <1>1, <1>2, <1>6, <2>1, TxIndexerAssumption DEF UnindexJobOK
  <2>5. IndexJobOK'
    BY <2>2 DEF IndexJobOK
  <2>6. CoveredBeforeTail'
    BY <1>1, <1>6, JobKind DEF CoveredBeforeTail, Covered, FastIndexed
  <2>7. BelowTail'
    BY <1>1, <1>6, JobKind DEF BelowTail
  <2> QED BY <1>1, <1>3, <2>3, <2>4, <2>5, <2>6, <2>7
<1> QED BY <1>2, <1>4, <1>5, <1>6 DEF HeadEvent, TxTypeOK

(* Steps of a job that leave the database alone.                           *)
LEMMA IndexKeeps == ASSUME NEW n, TxInv, Index(n) PROVE TxInv'
<1> USE DEF TxInv
<1>1. /\ job.op = "index" /\ job \in IndexJobs /\ DeliverIndex(n)
      /\ UNCHANGED <<top, lookup, tail, event, fastSync, unsure, leaked>>
  BY JobKind DEF Index
<1>2. PICK low : /\ low \in Nat /\ low <= job.last
                 /\ job' = [job EXCEPT !.left = @ \ {n}, !.last = low,
                              !.queue = {q \in job.queue \cup {n} : q < low},
                              !.batch = @ \cup (low..(job.last - 1))]
  BY <1>1, LowestReached DEF DeliverIndex, IndexJobs
<1>3. /\ job' \in IndexJobs /\ job'.op = "index" /\ job'.to = job.to /\ job'.last = low
      /\ job'.batch = job.batch \cup (low..(job.last - 1))
  <2>1. /\ job.to \in Nat /\ job.last \in Nat /\ n \in Nat
        /\ job.left \subseteq Nat /\ job.queue \subseteq Nat /\ job.batch \subseteq Nat
    BY <1>1 DEF Index, IndexJobs
  <2>2. job' = [op |-> "index", to |-> job.to, last |-> low, left |-> job.left \ {n},
                queue |-> {q \in job.queue \cup {n} : q < low},
                batch |-> job.batch \cup (low..(job.last - 1))]
    BY <1>1, <1>2 DEF IndexJobs
  <2>3. {q \in job.queue \cup {n} : q < low} \subseteq Nat /\ job.left \ {n} \subseteq Nat
        /\ job.batch \cup (low..(job.last - 1)) \subseteq Nat
    BY <1>2, <2>1
  <2>4. ASSUME NEW left \in SUBSET Nat, NEW queue \in SUBSET Nat, NEW batch \in SUBSET Nat,
               job' = [op |-> "index", to |-> job.to, last |-> low, left |-> left,
                       queue |-> queue, batch |-> batch]
        PROVE  /\ job' \in IndexJobs /\ job'.op = "index" /\ job'.to = job.to
               /\ job'.last = low /\ job'.batch = batch
    <3>1. low \in Nat
      BY <1>2
    <3> HIDE DEF TxInv
    <3> QED BY <2>1, <2>4, <3>1 DEF IndexJobs
  <2>5. ASSUME NEW left, NEW queue, NEW batch, left \subseteq Nat, queue \subseteq Nat, batch \subseteq Nat,
               job' = [op |-> "index", to |-> job.to, last |-> low, left |-> left,
                       queue |-> queue, batch |-> batch]
        PROVE  /\ job' \in IndexJobs /\ job'.op = "index" /\ job'.to = job.to
               /\ job'.last = low /\ job'.batch = batch
    BY <2>4, <2>5, Zenon
  <2> QED BY <2>2, <2>3, <2>5, Zenon
<1>4. TxTypeOK'
  BY <1>1, <1>3 DEF TxTypeOK
<1>5. IndexJobOK'
  <2>1. job.last \in Nat /\ job.to \in Nat /\ job.batch \subseteq Nat /\ top \in Nat
    BY <1>1 DEF IndexJobs, TxTypeOK
  <2>2. /\ job.last <= job.to
        /\ \A m \in 1..top : m >= job.last => Covered(m) \/ m \in job.batch
        /\ \A m \in job.batch : m >= job.last
        /\ job.batch = {} /\ job.last < job.to => tail = job.last
    BY <1>1 DEF IndexJobOK
  <2>3. low < job.last => low \in job'.batch
    BY <1>2, <1>3, <2>1
  <2>4. job'.batch = {} /\ low < job.to => tail = low
    BY <1>2, <1>3, <2>1, <2>2, <2>3
  <2>5. \A m \in 1..top : m >= low => Covered(m) \/ m \in job'.batch
    BY <1>2, <1>3, <2>1, <2>2
  <2>6. \A m \in job'.batch : m >= low
    BY <1>2, <1>3, <2>1, <2>2
  <2> QED BY <1>1, <1>2, <1>3, <2>1, <2>2, <2>4, <2>5, <2>6 DEF IndexJobOK, Covered
<1>6. TailCovers' /\ UnindexJobOK' /\ CoveredBeforeTail'
  BY <1>1, <1>3 DEF TailCovers, UnindexJobOK, CoveredBeforeTail
<1>7. BelowTail' /\ (fastSync /\ tail = NoTail => \A m \in lookup \ {0} : FastIndexed(m))'
  BY <1>1, <1>3 DEF BelowTail, FastIndexed
<1> QED BY <1>1, <1>4, <1>5, <1>6, <1>7

LEMMA UnreadableKeeps == ASSUME NEW n, TxInv, Unreadable(n) PROVE TxInv'
<1> USE DEF TxInv
<1>1. PICK left \in {job.left \ {n}, {}} :
        /\ job.op \in {"index", "unindex"} /\ n \in job.left /\ n > top
        /\ job' = [job EXCEPT !.left = left]
        /\ leaked' = (IF job.op = "unindex" THEN leaked \cup (job.left \ job'.left) ELSE leaked)
        /\ UNCHANGED <<top, lookup, tail, event, fastSync, unsure>>
  BY DEF Unreadable
<1>2. CASE job.op = "index"
  <2>1. job \in IndexJobs /\ left \subseteq Nat /\ leaked' = leaked
    BY <1>1, <1>2, JobKind DEF IndexJobs
  <2>2. /\ job' \in IndexJobs /\ job'.op = "index" /\ job'.to = job.to /\ job'.last = job.last
        /\ job'.batch = job.batch
    BY <1>1, <2>1 DEF IndexJobs
  <2>3. TxTypeOK'
    BY <1>1, <2>1, <2>2 DEF TxTypeOK
  <2>4. IndexJobOK' /\ UnindexJobOK'
    BY <1>1, <1>2, <2>2 DEF IndexJobOK, UnindexJobOK, Covered
  <2>5. TailCovers' /\ CoveredBeforeTail' /\ BelowTail'
    BY <1>1, <1>2, <2>1, <2>2 DEF TailCovers, CoveredBeforeTail, BelowTail
  <2>6. (fastSync /\ tail = NoTail => \A m \in lookup \ {0} : FastIndexed(m))'
    BY <1>1 DEF FastIndexed
  <2> QED BY <1>1, <2>3, <2>4, <2>5, <2>6
<1>3. CASE job.op = "unindex"
  <2>1. job \in UnindexJobs /\ left \subseteq Nat /\ left \subseteq job.left
    BY <1>1, <1>3, JobKind DEF UnindexJobs
  <2>2. /\ job' \in UnindexJobs /\ job'.op = "unindex" /\ job'.to = job.to /\ job'.left = left
        /\ job'.batch = job.batch /\ leaked' = leaked \cup (job.left \ left)
    BY <1>1, <1>3, <2>1 DEF UnindexJobs
  <2>3. TxTypeOK'
    BY <1>1, <2>1, <2>2 DEF TxTypeOK, UnindexJobs
  <2>4. IndexJobOK' /\ UnindexJobOK'
    BY <1>1, <1>3, <2>1, <2>2 DEF IndexJobOK, UnindexJobOK
  <2>5. TailCovers' /\ CoveredBeforeTail' /\ BelowTail'
    BY <1>1, <1>3, <2>1, <2>2 DEF TailCovers, CoveredBeforeTail, BelowTail, Covered, FastIndexed
  <2>6. (fastSync /\ tail = NoTail => \A m \in lookup \ {0} : FastIndexed(m))'
    BY <1>1 DEF FastIndexed
  <2> QED BY <1>1, <2>3, <2>4, <2>5, <2>6
<1> QED BY <1>1, <1>2, <1>3

(* A batch goes to the database together with the tail it justifies.       *)
LEMMA WriteIndexKeeps == ASSUME TxInv, WriteIndex PROVE TxInv'
<1> USE TxIndexerAssumption DEF TxInv
<1>1. /\ job.op = "index" /\ job \in IndexJobs /\ tail' = job.last
      /\ lookup' = lookup \cup job.batch /\ job' = [job EXCEPT !.batch = {}]
      /\ leaked' = (leaked \ job.batch)
                   \cup (lookup \cap ((IF tail = NoTail THEN 0 ELSE tail)..(job.last - 1)))
      /\ UNCHANGED <<top, event, fastSync, unsure>>
  BY JobKind DEF WriteIndex
<1>2. job.last \in Nat /\ job.to \in Nat /\ job.batch \subseteq Nat /\ top \in Nat /\ tail' # NoTail
  BY <1>1 DEF IndexJobs, TxTypeOK
<1>3. /\ job' \in IndexJobs /\ job'.op = "index" /\ job'.to = job.to /\ job'.last = job.last
      /\ job'.batch = {}
  BY <1>1 DEF IndexJobs
<1>4. TxTypeOK'
  BY <1>1, <1>2, <1>3 DEF TxTypeOK
<1>5. TailCovers' /\ IndexJobOK'
  BY <1>1, <1>2, <1>3 DEF TailCovers, IndexJobOK, Covered
<1>6. UnindexJobOK' /\ CoveredBeforeTail'
  BY <1>2, <1>3 DEF UnindexJobOK, CoveredBeforeTail
<1>7. BelowTail'
  <2> SUFFICES ASSUME NEW n \in lookup', n \in 1..top, n < job.last PROVE n \in leaked'
    BY <1>1, <1>2 DEF BelowTail
  <2>1. n \notin job.batch /\ n \in lookup
    BY <1>1, <1>2 DEF IndexJobOK
  <2>2. CASE tail # NoTail /\ n < tail
    BY <1>1, <2>1, <2>2 DEF BelowTail, TxTypeOK
  <2>3. CASE tail = NoTail \/ n >= tail
    BY <1>1, <1>2, <2>1, <2>3 DEF TxTypeOK
  <2> QED BY <2>2, <2>3 DEF TxTypeOK
<1> QED BY <1>1, <1>2, <1>4, <1>5, <1>6, <1>7

LEMMA IndexDoneKeeps == ASSUME TxInv, IndexDone PROVE TxInv'
<1> USE TxIndexerAssumption DEF TxInv
<1>1. /\ job.op = "index" /\ job \in IndexJobs /\ job.batch = {} /\ job' = NoJob
      /\ tail' = (IF job.last < job.to THEN job.last ELSE tail)
      /\ unsure' = LeftOut(tail')
      /\ UNCHANGED <<top, lookup, event, fastSync, leaked>>
  BY JobKind DEF IndexDone
<1>2. tail' = tail
  BY <1>1 DEF IndexJobOK
<1>3. unsure \subseteq unsure' /\ unsure' \subseteq Nat
  BY <1>1 DEF LeftOut, TxTypeOK
<1>4. TxTypeOK'
  BY <1>1, <1>2, <1>3 DEF TxTypeOK
<1>5. TailCovers' /\ BelowTail'
  BY <1>1, <1>2, <1>3 DEF TailCovers, BelowTail
<1>6. IndexJobOK' /\ UnindexJobOK'
  BY <1>1 DEF IndexJobOK, UnindexJobOK, NoJob
<1>7. CoveredBeforeTail'
  BY <1>1, <1>2 DEF CoveredBeforeTail, Covered, LeftOut, TxTypeOK
<1>8. (fastSync /\ tail = NoTail => \A m \in lookup \ {0} : FastIndexed(m))'
  BY <1>1, <1>2 DEF FastIndexed
<1> QED BY <1>1, <1>4, <1>5, <1>6, <1>7, <1>8

(* The tail is raised before anything is deleted.                          *)
LEMMA UnindexTailKeeps == ASSUME TxInv, UnindexTail PROVE TxInv'
<1> USE TxIndexerAssumption DEF TxInv
<1>1. /\ job.op = "tail" /\ job \in UnindexJobs /\ tail' = job.to
      /\ job' = [job EXCEPT !.op = "unindex"]
      /\ UNCHANGED <<top, lookup, event, fastSync, unsure, leaked>>
  BY JobKind DEF UnindexTail
<1>2. job.to \in Nat /\ tail' # NoTail /\ top \in Nat /\ tail \in Nat \cup {NoTail}
  BY <1>1 DEF UnindexJobs, TxTypeOK
<1>3. /\ job' \in UnindexJobs /\ job'.op = "unindex" /\ job'.to = job.to
      /\ job'.left = job.left /\ job'.batch = job.batch
  BY <1>1 DEF UnindexJobs
<1>4. TxTypeOK'
  BY <1>1, <1>2, <1>3 DEF TxTypeOK
<1>5. TailCovers'
  <2>1. CASE tail = NoTail
    BY <1>1, <1>2, <2>1 DEF TailCovers, CoveredBeforeTail, UnindexJobOK, Covered
  <2>2. CASE tail # NoTail
    BY <1>1, <1>2, <2>2 DEF TailCovers, UnindexJobOK
  <2> QED BY <2>1, <2>2
<1>6. IndexJobOK' /\ UnindexJobOK' /\ CoveredBeforeTail'
  BY <1>1, <1>2, <1>3 DEF IndexJobOK, UnindexJobOK, CoveredBeforeTail
<1>7. BelowTail'
  <2> SUFFICES ASSUME NEW n \in lookup, n \in 1..top, n < job.to
               PROVE  n \in leaked \/ n \in job.left
    BY <1>1, <1>3 DEF BelowTail
  <2> QED BY <1>1, <1>2 DEF BelowTail, UnindexJobOK
<1> QED BY <1>1, <1>2, <1>4, <1>5, <1>6, <1>7

LEMMA UnindexKeeps ==
    ASSUME TxInv, WriteUnindex \/ UnindexDone \/ \E n : Unindex(n)
    PROVE  TxInv'
<1> USE TxIndexerAssumption DEF TxInv
<1>1. /\ job.op = "unindex" /\ job \in UnindexJobs /\ tail = job.to
      /\ UNCHANGED <<top, tail, event, fastSync, unsure, leaked>>
  BY JobKind DEF WriteUnindex, UnindexDone, Unindex, UnindexJobOK
<1>2. /\ job.to \in Nat /\ tail # NoTail /\ job.left \subseteq Nat /\ job.batch \subseteq Nat
      /\ \A n \in job.left \cup job.batch : n < job.to
  BY <1>1 DEF UnindexJobs, UnindexJobOK
<1>3. CASE WriteUnindex
  <2>1. /\ job' \in UnindexJobs /\ job'.op = "unindex" /\ job'.to = job.to
        /\ job'.left = job.left /\ job'.batch = {} /\ lookup' = lookup \ job.batch
    BY <1>1, <1>3 DEF WriteUnindex, UnindexJobs
  <2>2. TxTypeOK' /\ IndexJobOK' /\ UnindexJobOK' /\ CoveredBeforeTail'
    BY <1>1, <1>2, <2>1 DEF TxTypeOK, IndexJobOK, UnindexJobOK, CoveredBeforeTail
  <2>3. TailCovers'
    BY <1>1, <1>2, <2>1 DEF TailCovers, TxTypeOK
  <2>4. BelowTail'
    BY <1>1, <1>2, <2>1 DEF BelowTail
  <2> QED BY <1>1, <1>2, <2>2, <2>3, <2>4
<1>4. CASE UnindexDone
  <2>1. job' = NoJob /\ lookup' = lookup /\ job.left = {} /\ job.batch = {}
    BY <1>4 DEF UnindexDone
  <2>2. TxTypeOK' /\ IndexJobOK' /\ UnindexJobOK' /\ CoveredBeforeTail'
    BY <1>1, <1>2, <2>1 DEF TxTypeOK, IndexJobOK, UnindexJobOK, CoveredBeforeTail, NoJob
  <2>3. TailCovers' /\ BelowTail'
    BY <1>1, <2>1 DEF TailCovers, BelowTail
  <2> QED BY <1>1, <1>2, <2>2, <2>3
<1>5. ASSUME NEW n, Unindex(n) PROVE TxInv'
  <2>1. /\ job' \in UnindexJobs /\ job'.op = "unindex" /\ job'.to = job.to /\ lookup' = lookup
        /\ job'.left = job.left \ {n} /\ job'.batch = job.batch \cup {n} /\ n \in job.left
    BY <1>1, <1>5 DEF Unindex, UnindexJobs
  <2>2. TxTypeOK' /\ IndexJobOK' /\ UnindexJobOK' /\ CoveredBeforeTail'
    BY <1>1, <1>2, <2>1 DEF TxTypeOK, IndexJobOK, UnindexJobOK, CoveredBeforeTail
  <2>3. TailCovers' /\ BelowTail'
    BY <1>1, <2>1 DEF TailCovers, BelowTail
  <2> QED BY <1>1, <1>2, <2>2, <2>3
<1> QED BY <1>3, <1>4, <1>5

LEMMA TxInductive == TxInv /\ [Next]_vars => TxInv'
<1> SUFFICES ASSUME TxInv, [Next]_vars PROVE TxInv'
  OBVIOUS
<1>1. CASE UNCHANGED txVars
  BY <1>1 DEF txVars, TxInv, TxTypeOK, TailCovers, IndexJobOK, UnindexJobOK, CoveredBeforeTail,
              BelowTail, Covered, FastIndexed
<1>2. CASE TxNext
  BY <1>2, ImportBlockKeeps, InsertAncientKeeps, WriteTailKeeps, InsertLiveKeeps, RewindChainKeeps,
     CrashIndexerKeeps, HeadEventKeeps, WriteIndexKeeps, IndexDoneKeeps, UnindexTailKeeps,
     UnindexKeeps, IndexKeeps, UnreadableKeeps
     DEF TxNext
<1> QED BY <1>1, <1>2 DEF Next, vars

(* The tail of the transaction index is its boundary for every lookup      *)
(* limit, every ancient limit and every number of frozen blocks, however   *)
(* the jobs of maintainTxIndex, fast sync, imports, rewinds and crashes    *)
(* interleave.                                                             *)
THEOREM TailBoundsIndex == Spec => []TailIsBoundary
<1>1. Init => TxInv
  BY TxInit1 DEF Init, AtFirst
<1>2. TxInv => TailIsBoundary
  <2> SUFFICES ASSUME TxInv PROVE NothingBelowTail
    BY DEF TxInv, TailIsBoundary
  <2> SUFFICES ASSUME job = NoJob, tail # NoTail, NEW n \in lookup \ {0}, n < tail, n <= top
               PROVE  n \in leaked
    BY DEF NothingBelowTail
  <2>1. n \in lookup \cap (1..top)
    BY DEF TxInv, TxTypeOK
  <2> QED BY <2>1 DEF TxInv, BelowTail, NoJob
<1> QED BY <1>1, <1>2, TxInductive, PTL DEF Spec

-----------------------------------------------------------------------------
(* The chain indexer *)

Hashes == Seq(Branches) \cup {NoHash}
Chains == {c \in Seq(Branches) : Len(c) \in 1..MaxLength}

IndexRecords ==
    [known : Sections, stored : Sections, cascaded : 0..MaxLength, update : BOOLEAN,
     timer : BOOLEAN, heads : [Sections -> Hashes]]

(* The head of section s, as a prefix of a chain: its number of blocks.    *)
End(s) == (s + 1) * sectionSize

(* From the checkpoint c on, every section head is a prefix of every later *)
(* one.  (Said of any two sections, not only of neighbours: readers rely   *)
(* on it, and it needs no induction.)                                      *)
Linked(r, c) ==
    \A t \in Sections : c <= t /\ t < r.stored =>
        /\ r.heads[t] \in Seq(Branches) /\ Len(r.heads[t]) = End(t)
        /\ \A s \in Sections : c <= s /\ s <= t => r.heads[s] = SubSeq(r.heads[t], 1, End(s))

(* There is no head above the last section.                                *)
NoneAbove(r) == \A s \in Sections : s >= r.stored => r.heads[s] = NoHash

IndexOK(r, c) == r \in IndexRecords /\ Linked(r, c) /\ NoneAbove(r)

SectionJobs ==
    [pc : {"process", "failed"}, section : Sections, oldHead : Hashes, lastHead : Hashes, number : Nat]

(* A section's blocks up to now are a chain that starts where the last     *)
(* section ended.                                                          *)
JobOK(j) ==
    /\ j \in {AtRest, Ended} \cup SectionJobs
    /\ j.pc = "process" =>
        /\ j.number >= j.section * sectionSize
        /\ j.number > j.section * sectionSize =>
            /\ j.lastHead \in Seq(Branches) /\ Len(j.lastHead) = j.number /\ j.number <= MaxLength
            /\ j.oldHead = SubSeq(j.lastHead, 1, j.section * sectionSize)
        /\ j.number = j.section * sectionSize => j.lastHead = j.oldHead

ChainsOK == chain \in Chains /\ prev \in Chains /\ events \in Seq(Chains)

IndexerInv ==
    /\ ChainsOK
    /\ ix \in [Indexers -> IndexRecords] /\ wrk \in [Indexers -> {AtRest, Ended} \cup SectionJobs]
    /\ checkpoint.sections \in Nat
    /\ \A i \in Indexers : IndexOK(ix[i], CheckpointOf(i)) /\ JobOK(wrk[i])


LEMMA Multiples ==
    ASSUME NEW a \in Nat, NEW b \in Nat
    PROVE  /\ a * sectionSize \in Nat /\ End(a) \in Nat /\ End(a) = a * sectionSize + sectionSize
           /\ a <= b => a * sectionSize <= b * sectionSize /\ End(a) <= End(b)
           /\ a < b => End(a) <= b * sectionSize
<1>1. sectionSize \in Nat /\ sectionSize > 0
  BY IndexerAssumption
<1> QED BY <1>1 DEF End

LEMMA SectionsAre ==
    /\ Sections \subseteq Nat /\ 0 \in Sections /\ 1 \in Sections
    /\ \A n \in Nat : n \in Sections <=> n * sectionSize <= MaxLength
    /\ \A n \in Sections, m \in Nat : m <= n => m \in Sections
<1>1. sectionSize \in Nat /\ sectionSize > 0 /\ MaxLength \in Nat /\ sectionSize <= MaxLength
  BY IndexerAssumption
<1>2. /\ MaxLength \div sectionSize \in Nat
      /\ (MaxLength \div sectionSize) * sectionSize <= MaxLength
      /\ MaxLength < ((MaxLength \div sectionSize) + 1) * sectionSize
  BY <1>1
<1>3. ASSUME NEW n \in Nat
      PROVE  n <= MaxLength \div sectionSize <=> n * sectionSize <= MaxLength
  <2>1. n <= MaxLength \div sectionSize => n * sectionSize <= (MaxLength \div sectionSize) * sectionSize
    BY <1>2, Multiples
  <2>2. n >= (MaxLength \div sectionSize) + 1
        => n * sectionSize >= ((MaxLength \div sectionSize) + 1) * sectionSize
    BY <1>2, Multiples
  <2>3. n * sectionSize \in Nat /\ ((MaxLength \div sectionSize) + 1) * sectionSize \in Nat
    BY <1>2, Multiples
  <2> QED BY <1>1, <1>2, <2>1, <2>2, <2>3
<1>4. \A n \in Nat : n \in Sections <=> n * sectionSize <= MaxLength
  BY <1>2, <1>3 DEF Sections
<1>5. 1 \in Sections
  BY <1>1, <1>4
<1> QED BY <1>2, <1>4, <1>5 DEF Sections

LEMMA PrefixesOf ==
    ASSUME NEW q \in Seq(Branches), NEW a \in Nat, NEW b \in Nat, a <= b, b <= Len(q)
    PROVE  /\ SubSeq(q, 1, a) \in Seq(Branches) /\ Len(SubSeq(q, 1, a)) = a
           /\ SubSeq(SubSeq(q, 1, b), 1, a) = SubSeq(q, 1, a)
OBVIOUS

(* Dropping sections from the end.                                         *)
LEMMA DropKeeps ==
    ASSUME NEW r, NEW c \in Nat, IndexOK(r, c), NEW n \in Nat, n <= r.stored
    PROVE  /\ IndexOK(SetValidSections(r, n), c)
           /\ SetValidSections(r, n).stored = n
           /\ \A s \in Sections : s < n => SetValidSections(r, n).heads[s] = r.heads[s]
           /\ SetValidSections(r, n).known = r.known
           /\ SetValidSections(r, n).cascaded = r.cascaded
           /\ SetValidSections(r, n).update = r.update
<1> DEFINE v == SetValidSections(r, n)
           h == [s \in Sections |-> IF s >= n /\ s < r.stored THEN NoHash ELSE r.heads[s]]
<1>1. r \in IndexRecords /\ r.stored \in Nat /\ Sections \subseteq Nat
  BY SectionsAre DEF IndexOK, IndexRecords
<1>2. n \in Sections
  BY <1>1, SectionsAre DEF IndexRecords
<1>3. v = [r EXCEPT !.stored = n, !.heads = h]
  BY <1>1 DEF SetValidSections
<1>4. h \in [Sections -> Hashes]
  BY <1>1 DEF IndexRecords, Hashes
<1>5. \A s \in Sections : (s < n => h[s] = r.heads[s]) /\ (s >= n => h[s] = NoHash)
  BY <1>1, SectionsAre DEF IndexOK, NoneAbove
<1> HIDE DEF v, h
<1>6. /\ v \in IndexRecords
      /\ v.stored = n /\ v.heads = h /\ v.known = r.known /\ v.cascaded = r.cascaded
      /\ v.update = r.update
  BY <1>1, <1>2, <1>3, <1>4 DEF IndexRecords
<1>7. NoneAbove(v)
  BY <1>5, <1>6 DEF NoneAbove
<1>8. Linked(v, c)
  <2> SUFFICES ASSUME NEW t \in Sections, c <= t, t < n
               PROVE  /\ h[t] \in Seq(Branches) /\ Len(h[t]) = End(t)
                      /\ \A s \in Sections : c <= s /\ s <= t => h[s] = SubSeq(h[t], 1, End(s))
    BY <1>6 DEF Linked
  <2>1. t < r.stored
    BY <1>1
  <2>2. \A s \in Sections : s <= t => h[s] = r.heads[s]
    BY <1>1, <1>5
  <2>3. /\ r.heads[t] \in Seq(Branches) /\ Len(r.heads[t]) = End(t)
        /\ \A s \in Sections : c <= s /\ s <= t => r.heads[s] = SubSeq(r.heads[t], 1, End(s))
    BY <2>1 DEF IndexOK, Linked
  <2>4. h[t] = r.heads[t]
    BY <1>1, <2>2
  <2> QED BY <2>2, <2>3, <2>4
<1> QED BY <1>5, <1>6, <1>7, <1>8 DEF IndexOK, v

(* What changes the counts alone.                                          *)
LEMMA CountsKeep ==
    ASSUME NEW r, NEW c \in Nat, IndexOK(r, c), NEW v \in IndexRecords,
           v.stored = r.stored, v.heads = r.heads
    PROVE  IndexOK(v, c)
BY DEF IndexOK, Linked, NoneAbove

LEMMA CheckpointOfType ==
    ASSUME IndexerInv, NEW i \in Indexers
    PROVE  CheckpointOf(i) \in Nat
BY DEF IndexerInv, CheckpointOf

Holds(r, i, n) ==
    \/ n = 0 \/ n <= CheckpointOf(i)
    \/ SectionHead(r, n - 1) = CanonicalHash(n * sectionSize - 1)

(* verifyLastHead keeps the sections up to one that ends in a canonical    *)
(* block, or up to the checkpoint.                                         *)
LEMMA VerifyKeeps ==
    ASSUME NEW i \in Indexers, NEW r, NEW c \in Nat, IndexOK(r, c)
    PROVE  \E n \in Nat : /\ n <= r.stored /\ Holds(r, i, n)
                          /\ VerifyLastHead(r, i) = SetValidSections(r, n)
<1> DEFINE S == {n \in 0..r.stored : Holds(r, i, n)}
<1>1. r.stored \in Nat
  BY SectionsAre DEF IndexOK, IndexRecords
<1>2. 0 \in S
  BY <1>1 DEF Holds
<1>3. Max(S) \in S
  BY <1>1, <1>2, MaxOfNats, Zenon
<1>4. VerifyLastHead(r, i) = SetValidSections(r, Max(S))
  BY DEF VerifyLastHead, Holds
<1> QED BY <1>1, <1>3, <1>4

LEMMA Quotients ==
    ASSUME NEW n \in Nat
    PROVE  n \div sectionSize \in Nat /\ (n \div sectionSize) * sectionSize <= n
<1>1. sectionSize \in Nat /\ sectionSize > 0
  BY IndexerAssumption
<1> QED BY <1>1

LEMMA ForwardKeeps ==
    ASSUME NEW r, NEW c \in Nat, IndexOK(r, c), NEW i \in Indexers, NEW head \in Int,
           head + 1 <= MaxLength
    PROVE  LET v == NewHeadForward(r, i, head)
           IN  IndexOK(v, c) /\ v.stored = r.stored /\ v.heads = r.heads
<1> DEFINE complete == (head + 1 - Confirms(i)) \div sectionSize
           sections == IF complete < CheckpointOf(i) THEN 0 ELSE complete
           v == [r EXCEPT !.known = sections, !.update = TRUE]
<1>1. NewHeadForward(r, i, head) = r \/ (head >= Confirms(i) /\ NewHeadForward(r, i, head) = v)
  BY DEF NewHeadForward
<1>2. ASSUME head >= Confirms(i)
      PROVE  sections \in Sections
  <2>1. Confirms(i) \in Nat /\ MaxLength \in Nat
    BY IndexerAssumption DEF Confirms
  <2>2. head + 1 - Confirms(i) \in Nat /\ head + 1 - Confirms(i) <= MaxLength
    BY <1>2, <2>1
  <2>3. complete \in Nat /\ complete * sectionSize <= MaxLength
    <3>1. complete \in Nat /\ complete * sectionSize <= head + 1 - Confirms(i)
      BY <2>2, Quotients
    <3>2. complete * sectionSize \in Nat
      BY <3>1, Multiples
    <3> QED BY <2>1, <2>2, <3>1, <3>2
  <2>4. complete \in Sections /\ 0 \in Sections
    BY <2>3, SectionsAre
  <2> QED BY <2>4
<1>3. ASSUME sections \in Sections
      PROVE  v \in IndexRecords /\ v.stored = r.stored /\ v.heads = r.heads
  <2> HIDE DEF sections
  <2> QED BY <1>3 DEF IndexOK, IndexRecords
<1>4. IndexOK(r, c) /\ r.stored = r.stored
  OBVIOUS
<1>5. ASSUME head >= Confirms(i) PROVE IndexOK(v, c)
  <2> HIDE DEF v
  <2> QED BY <1>2, <1>3, <1>5, CountsKeep
<1> HIDE DEF v
<1> QED BY <1>1, <1>2, <1>3, <1>4, <1>5

LEMMA ReorgKeeps ==
    ASSUME IndexerInv, NEW r, NEW i \in Indexers, IndexOK(r, CheckpointOf(i)),
           NEW head \in Int, head + 1 \in Nat
    PROVE  /\ IndexOK(NewHeadReorg(r, i, head), CheckpointOf(i))
           /\ NewHeadReorg(r, i, head).cascaded <= r.cascaded
<1> DEFINE complete == (head + 1) \div sectionSize
           known == IF complete < CheckpointOf(i) THEN 0 ELSE complete
           stored == Max({complete, CheckpointOf(i)})
           s == IF stored < r.stored THEN SetValidSections(r, stored) ELSE r
           v == [s EXCEPT !.known = Min({@, known}), !.cascaded = Min({@, known * sectionSize})]
<1>1. complete \in Nat /\ CheckpointOf(i) \in Nat
  BY Quotients, CheckpointOfType
<1>2. known \in Nat /\ known * sectionSize \in Nat
  BY <1>1, Multiples
<1>3. stored \in Nat
  <2>1. \E b \in Nat : complete <= b /\ CheckpointOf(i) <= b
    BY <1>1
  <2>2. PICK b \in Nat : complete <= b /\ CheckpointOf(i) <= b
    BY <2>1
  <2>3. {complete, CheckpointOf(i)} \in SUBSET (0..b) /\ {complete, CheckpointOf(i)} # {}
    BY <1>1, <2>2
  <2>4. Max({complete, CheckpointOf(i)}) \in {complete, CheckpointOf(i)}
    BY <2>3, MaxOfNats, Zenon
  <2> QED BY <1>1, <2>4
<1>4. IndexOK(s, CheckpointOf(i)) /\ s.known = r.known /\ s.cascaded = r.cascaded
  <2> HIDE DEF complete, known, stored
  <2>1. CASE stored < r.stored
    <3>1. stored <= r.stored
      <4>1. r.stored \in Nat
        BY SectionsAre DEF IndexOK, IndexRecords
      <4> QED BY <1>3, <2>1, <4>1
    <3> QED BY <1>1, <1>3, <2>1, <3>1, DropKeeps
  <2>2. CASE ~(stored < r.stored)
    BY <2>2
  <2> QED BY <2>1, <2>2
<1> HIDE DEF complete, known, stored, s
<1>5. /\ s \in IndexRecords /\ s.known \in Sections /\ s.known \in Nat
      /\ s.cascaded \in 0..MaxLength /\ s.cascaded \in Nat /\ MaxLength \in Nat
  <2>1. s \in IndexRecords
    BY <1>4 DEF IndexOK
  <2>2. s.known \in Sections /\ s.cascaded \in 0..MaxLength
    BY <2>1 DEF IndexRecords
  <2>3. MaxLength \in Nat
    BY IndexerAssumption
  <2>4. s.known \in Nat
    BY <2>2, SectionsAre, Zenon
  <2>5. s.cascaded \in Nat
    BY <2>2, <2>3
  <2> QED BY <2>1, <2>2, <2>3, <2>4, <2>5
<1>6. Min({s.known, known}) \in Nat /\ Min({s.known, known}) <= s.known
  <2>1. {s.known, known} \in SUBSET Nat /\ {s.known, known} # {}
    BY <1>2, <1>5
  <2> QED BY <1>2, <1>5, <2>1, MinOfNats, Zenon
<1>7. /\ Min({s.cascaded, known * sectionSize}) \in Nat
      /\ Min({s.cascaded, known * sectionSize}) <= s.cascaded
  <2>1. {s.cascaded, known * sectionSize} \in SUBSET Nat /\ {s.cascaded, known * sectionSize} # {}
    BY <1>2, <1>5
  <2> QED BY <1>2, <1>5, <2>1, MinOfNats, Zenon
<1>8. Min({s.known, known}) \in Sections /\ Min({s.cascaded, known * sectionSize}) \in 0..MaxLength
  <2>1. Min({s.known, known}) \in Sections
    BY <1>5, <1>6, SectionsAre
  <2>2. Min({s.cascaded, known * sectionSize}) \in 0..MaxLength
    BY <1>5, <1>7
  <2> QED BY <2>1, <2>2
<1>9. /\ v \in IndexRecords /\ v.stored = s.stored /\ v.heads = s.heads
      /\ v.cascaded = Min({s.cascaded, known * sectionSize})
  BY <1>5, <1>8 DEF IndexRecords
<1>10. NewHeadReorg(r, i, head) = v
  BY DEF NewHeadReorg, complete, known, stored, s
<1> HIDE DEF v
<1> QED BY <1>1, <1>4, <1>7, <1>9, <1>10, CountsKeep

Jobs == {AtRest, Ended} \cup SectionJobs

(* What there is to show of a step that adds no checkpoint.                *)
LEMMA IndexerStepKeeps ==
    ASSUME IndexerInv, checkpoint' = checkpoint, ChainsOK',
           ix' \in [Indexers -> IndexRecords], wrk' \in [Indexers -> Jobs],
           \A i \in Indexers : IndexOK(ix'[i], CheckpointOf(i)) /\ JobOK(wrk'[i])
    PROVE  IndexerInv'
BY DEF IndexerInv, CheckpointOf, Jobs

LEMMA OneIndexKeeps ==
    ASSUME IndexerInv, checkpoint' = checkpoint, ChainsOK', NEW i \in Indexers,
           NEW v, IndexOK(v, CheckpointOf(i)), ix' = [ix EXCEPT ![i] = v],
           NEW j, JobOK(j), wrk' \in {wrk, [wrk EXCEPT ![i] = j]}
    PROVE  IndexerInv'
<1>1. v \in IndexRecords /\ j \in Jobs
  BY DEF IndexOK, JobOK, Jobs
<1>2. ix \in [Indexers -> IndexRecords] /\ wrk \in [Indexers -> Jobs]
  BY DEF IndexerInv, Jobs
<1>3. ix' \in [Indexers -> IndexRecords] /\ wrk' \in [Indexers -> Jobs]
  BY <1>1, <1>2
<1>4. \A k \in Indexers : IndexOK(ix[k], CheckpointOf(k)) /\ JobOK(wrk[k])
  BY DEF IndexerInv
<1>5. \A k \in Indexers : ix'[k] \in {ix[k], v} /\ (ix'[k] = ix[k] \/ k = i) /\ wrk'[k] \in {wrk[k], j}
  BY <1>2
<1>6. \A k \in Indexers : IndexOK(ix'[k], CheckpointOf(k)) /\ JobOK(wrk'[k])
  BY <1>4, <1>5
<1> QED BY <1>3, <1>6, IndexerStepKeeps

LEMMA HeadOf ==
    ASSUME NEW c \in Chains
    PROVE  /\ Len(c) \in Nat /\ Len(c) - 1 \in Int /\ (Len(c) - 1) + 1 \in Nat
           /\ (Len(c) - 1) + 1 <= MaxLength /\ Len(c) >= 1 /\ Len(c) <= MaxLength
BY IndexerAssumption DEF Chains

LEMMA ChainHeadKeeps == ASSUME IndexerInv, ChainHead PROVE IndexerInv'
<1>1. PICK keep \in 1..Len(chain), new \in Batches, v \in Branches :
        /\ keep + new >= Len(chain) /\ keep + new <= MaxLength
        /\ chain' = SubSeq(chain, 1, keep) \o [n \in 1..new |-> v]
        /\ events' = Append(events, chain') /\ UNCHANGED <<prev, ix, wrk, checkpoint>>
  BY DEF ChainHead, stable
<1>2. chain \in Seq(Branches) /\ Len(chain) \in Nat /\ Len(chain) >= 1 /\ new \in Nat /\ MaxLength \in Nat
  BY IndexerAssumption DEF IndexerInv, ChainsOK, Chains
<1>3. SubSeq(chain, 1, keep) \in Seq(Branches) /\ Len(SubSeq(chain, 1, keep)) = keep
  <2>1. keep \in Nat /\ keep <= keep /\ keep <= Len(chain)
    BY <1>2
  <2> QED BY <1>2, <2>1
<1>4. [n \in 1..new |-> v] \in Seq(Branches) /\ Len([n \in 1..new |-> v]) = new
  BY <1>2
<1>5. chain' \in Seq(Branches) /\ Len(chain') = keep + new
  <2>1. ASSUME NEW a \in Seq(Branches), NEW b \in Seq(Branches)
        PROVE  a \o b \in Seq(Branches) /\ Len(a \o b) = Len(a) + Len(b)
    OBVIOUS
  <2> QED BY <1>1, <1>3, <1>4, <2>1, Zenon
<1>6. chain' \in Chains
  BY <1>1, <1>2, <1>5 DEF Chains
<1>7. ChainsOK'
  BY <1>1, <1>6 DEF IndexerInv, ChainsOK
<1> QED BY <1>1, <1>7 DEF IndexerInv, CheckpointOf

LEMMA StartLoopKeeps == ASSUME IndexerInv, StartLoop PROVE IndexerInv'
<1>1. /\ ix' = [ix EXCEPT !["parent"] = NewHeadForward(ix["parent"], "parent", Len(prev) - 1)]
      /\ UNCHANGED <<chain, events, prev, wrk, checkpoint>>
  BY DEF StartLoop, IndexerInv, Indexers
<1>2. "parent" \in Indexers /\ prev \in Chains /\ ChainsOK' /\ JobOK(wrk["parent"])
      /\ IndexOK(ix["parent"], CheckpointOf("parent"))
  BY <1>1 DEF IndexerInv, ChainsOK, Indexers
<1>3. IndexOK(NewHeadForward(ix["parent"], "parent", Len(prev) - 1), CheckpointOf("parent"))
  BY <1>2, CheckpointOfType, HeadOf, ForwardKeeps
<1> QED BY <1>1, <1>2, <1>3, OneIndexKeeps

LEMMA AddChildIndexerKeeps == ASSUME IndexerInv, AddChildIndexer PROVE IndexerInv'
<1> DEFINE sections == Min({ix["parent"].stored, ix["parent"].known})
           v == NewHeadForward(ix["child"], "child", sections * sectionSize - 1)
<1>1. /\ ix' = (IF sections = 0 THEN ix ELSE [ix EXCEPT !["child"] = v])
      /\ UNCHANGED <<chain, events, prev, wrk, checkpoint>>
  BY DEF AddChildIndexer, IndexerInv, Indexers
<1>2. /\ "child" \in Indexers /\ "parent" \in Indexers /\ ChainsOK' /\ JobOK(wrk["child"])
      /\ IndexOK(ix["child"], CheckpointOf("child")) /\ ix \in [Indexers -> IndexRecords]
  BY <1>1 DEF IndexerInv, ChainsOK, Indexers
<1>3. sections \in Sections
  <2>1. ix["parent"].stored \in Sections /\ ix["parent"].known \in Sections
    BY <1>2 DEF IndexRecords
  <2>2. {ix["parent"].stored, ix["parent"].known} \in SUBSET Nat
    BY <2>1, SectionsAre
  <2>3. sections \in {ix["parent"].stored, ix["parent"].known}
    BY <2>2, MinOfNats, Zenon
  <2> QED BY <2>1, <2>3
<1>4. sections * sectionSize \in Nat /\ sections * sectionSize <= MaxLength
  BY <1>3, SectionsAre, Multiples
<1> HIDE DEF sections
<1>5. IndexOK(v, CheckpointOf("child"))
  <2>1. /\ sections * sectionSize - 1 \in Int
        /\ (sections * sectionSize - 1) + 1 <= MaxLength
    BY <1>4
  <2> QED BY <1>2, <2>1, CheckpointOfType, ForwardKeeps
<1>6. CASE sections = 0
  BY <1>1, <1>2, <1>6 DEF IndexerInv, CheckpointOf
<1>7. CASE sections # 0
  BY <1>1, <1>2, <1>5, <1>7, OneIndexKeeps
<1> QED BY <1>6, <1>7

LEMMA CommonAncestorType ==
    ASSUME NEW a \in Chains, NEW b \in Chains
    PROVE  CommonAncestor(a, b) \in Nat
<1> DEFINE least == Min({Len(a), Len(b)})
           S == {n \in 0..least : SubSeq(a, 1, n) = SubSeq(b, 1, n)}
<1>1. least \in Nat
  <2>1. {Len(a), Len(b)} \in SUBSET Nat
    BY HeadOf
  <2>2. least \in {Len(a), Len(b)}
    BY <2>1, MinOfNats, Zenon
  <2> QED BY <2>1, <2>2
<1>2. 0 \in S
  <2>1. SubSeq(a, 1, 0) = <<>> /\ SubSeq(b, 1, 0) = <<>>
    BY DEF Chains
  <2> QED BY <1>1, <2>1
<1>3. Max(S) \in S
  <2>1. S \in SUBSET (0..least)
    OBVIOUS
  <2> HIDE DEF S, least
  <2> QED BY <1>1, <1>2, <2>1, MaxOfNats, Zenon
<1>4. Max(S) \in Nat
  BY <1>1, <1>3
<1> QED BY <1>4 DEF CommonAncestor

LEMMA AfterReorgKeeps ==
    ASSUME IndexerInv, NEW head \in Int, head + 1 \in Nat
    PROVE  /\ AfterReorg(ix, head) \in [Indexers -> IndexRecords]
           /\ \A i \in Indexers : IndexOK(AfterReorg(ix, head)[i], CheckpointOf(i))
<1> DEFINE p == NewHeadReorg(ix["parent"], "parent", head)
<1>1. \A i \in Indexers : IndexOK(ix[i], CheckpointOf(i))
  BY DEF IndexerInv
<1>2. "parent" \in Indexers /\ "child" \in Indexers
  BY DEF Indexers
<1>3. IndexOK(p, CheckpointOf("parent"))
  BY <1>1, <1>2, ReorgKeeps
<1>4. p.cascaded \in Int /\ p.cascaded + 1 \in Nat
  BY <1>3, IndexerAssumption DEF IndexOK, IndexRecords
<1>5. IndexOK(NewHeadReorg(ix["child"], "child", p.cascaded), CheckpointOf("child"))
  BY <1>1, <1>2, <1>4, ReorgKeeps
<1> HIDE DEF p
<1>6. AfterReorg(ix, head) =
        [i \in Indexers |->
            IF i = "parent" THEN p
            ELSE IF attached /\ p.cascaded < ix["parent"].cascaded
                 THEN NewHeadReorg(ix["child"], "child", p.cascaded)
                 ELSE ix["child"]]
  BY DEF AfterReorg, p
<1>7. \A i \in Indexers : i = "parent" \/ i = "child"
  BY DEF Indexers
<1>8. \A i \in Indexers : IndexOK(AfterReorg(ix, head)[i], CheckpointOf(i))
  BY <1>1, <1>2, <1>3, <1>5, <1>6, <1>7
<1> QED BY <1>6, <1>8 DEF IndexOK

LEMMA EventLoopKeeps == ASSUME IndexerInv, EventLoop PROVE IndexerInv'
<1> DEFINE header == Head(events)
           reorged == Front(header) # prev /\ CanonicalHash(Len(prev) - 1) # prev
           back == IF reorged THEN AfterReorg(ix, CommonAncestor(prev, header) - 1) ELSE ix
           v == NewHeadForward(back["parent"], "parent", Len(header) - 1)
<1>1. /\ events # <<>> /\ events' = Tail(events) /\ prev' = header
      /\ ix' = [back EXCEPT !["parent"] = NewHeadForward(@, "parent", Len(header) - 1)]
      /\ UNCHANGED <<chain, wrk, checkpoint>>
  BY DEF EventLoop, stable
<1>2. events \in Seq(Chains) /\ prev \in Chains /\ chain \in Chains
  BY DEF IndexerInv, ChainsOK
<1>3. header \in Chains /\ Tail(events) \in Seq(Chains)
  BY <1>1, <1>2
<1>4. ChainsOK'
  BY <1>1, <1>2, <1>3 DEF ChainsOK
<1>5. /\ back \in [Indexers -> IndexRecords]
      /\ \A i \in Indexers : IndexOK(back[i], CheckpointOf(i))
  <2>1. CommonAncestor(prev, header) \in Nat
    BY <1>2, <1>3, CommonAncestorType
  <2>2. CommonAncestor(prev, header) - 1 \in Int /\ (CommonAncestor(prev, header) - 1) + 1 \in Nat
    BY <2>1
  <2>3. CASE reorged
    BY <2>2, <2>3, AfterReorgKeeps
  <2>4. CASE ~reorged
    BY <2>4 DEF IndexerInv
  <2> QED BY <2>3, <2>4
<1> HIDE DEF header, back
<1>6. "parent" \in Indexers
  BY DEF Indexers
<1>7. ix' = [back EXCEPT !["parent"] = v]
  BY <1>1, <1>5, <1>6
<1>8. IndexOK(v, CheckpointOf("parent"))
  BY <1>3, <1>5, <1>6, CheckpointOfType, HeadOf, ForwardKeeps
<1> HIDE DEF v
<1>9. v \in IndexRecords
  BY <1>8 DEF IndexOK
<1>10. /\ ix' \in [Indexers -> IndexRecords]
       /\ \A i \in Indexers : ix'[i] \in {back[i], v} /\ (ix'[i] = back[i] \/ i = "parent")
  BY <1>5, <1>7, <1>9
<1>11. \A i \in Indexers : IndexOK(ix'[i], CheckpointOf(i)) /\ JobOK(wrk'[i])
  BY <1>1, <1>5, <1>8, <1>10 DEF IndexerInv
<1> QED BY <1>1, <1>4, <1>10, <1>11, IndexerStepKeeps DEF IndexerInv, Jobs

(* The timer, and what a reader does.                                      *)
LEMMA ThrottledKeeps == ASSUME IndexerInv, NEW i \in Indexers, Throttled(i) PROVE IndexerInv'
<1> DEFINE v == [ix[i] EXCEPT !.timer = FALSE, !.update = TRUE]
<1>1. ix \in [Indexers -> IndexRecords] /\ IndexOK(ix[i], CheckpointOf(i)) /\ JobOK(wrk[i])
  BY DEF IndexerInv
<1>2. ix' = [ix EXCEPT ![i] = v] /\ UNCHANGED <<chain, events, prev, wrk, checkpoint>>
  BY <1>1 DEF Throttled, stable, IndexRecords
<1>3. v \in IndexRecords /\ v.stored = ix[i].stored /\ v.heads = ix[i].heads
  BY <1>1 DEF IndexRecords
<1> HIDE DEF v
<1>4. IndexOK(v, CheckpointOf(i))
  BY <1>1, <1>3, CheckpointOfType, CountsKeep
<1>5. ChainsOK'
  BY <1>2 DEF IndexerInv, ChainsOK
<1> QED BY <1>1, <1>2, <1>4, <1>5, OneIndexKeeps

LEMMA ReadSectionsKeeps == ASSUME IndexerInv, NEW i \in Indexers, ReadSections(i) PROVE IndexerInv'
<1>1. IndexOK(ix[i], CheckpointOf(i)) /\ JobOK(wrk[i])
  BY DEF IndexerInv
<1>2. /\ ix' = [ix EXCEPT ![i] = VerifyLastHead(ix[i], i)]
      /\ UNCHANGED <<chain, events, prev, wrk, checkpoint>>
  BY DEF ReadSections, stable
<1>3. IndexOK(VerifyLastHead(ix[i], i), CheckpointOf(i))
  BY <1>1, CheckpointOfType, VerifyKeeps, DropKeeps
<1>4. ChainsOK'
  BY <1>2 DEF IndexerInv, ChainsOK
<1> QED BY <1>1, <1>2, <1>3, <1>4, OneIndexKeeps

LEMMA TakeUpdateKeeps == ASSUME IndexerInv, NEW i \in Indexers, TakeUpdate(i) PROVE IndexerInv'
<1> DEFINE r == [ix[i] EXCEPT !.update = FALSE]
           v == VerifyLastHead(r, i)
           old == IF v.stored = 0 THEN <<>> ELSE SectionHead(v, v.stored - 1)
           j == [pc |-> "process", section |-> v.stored, oldHead |-> old, lastHead |-> old,
                 number |-> v.stored * sectionSize]
<1>1. ix \in [Indexers -> IndexRecords] /\ IndexOK(ix[i], CheckpointOf(i)) /\ JobOK(wrk[i])
  BY DEF IndexerInv
<1>2. r \in IndexRecords /\ r.stored = ix[i].stored /\ r.heads = ix[i].heads
  BY <1>1 DEF IndexRecords
<1>3. UNCHANGED <<chain, events, prev, checkpoint>> /\ ChainsOK'
  BY DEF TakeUpdate, stable, IndexerInv, ChainsOK
<1>4. \/ ix' = [ix EXCEPT ![i] = v] /\ wrk' = [wrk EXCEPT ![i] = j]
      \/ ix' = [ix EXCEPT ![i] = r] /\ wrk' = wrk
  BY DEF TakeUpdate
<1> HIDE DEF r
<1>5. IndexOK(r, CheckpointOf(i))
  BY <1>1, <1>2, CheckpointOfType, CountsKeep
<1>6. IndexOK(v, CheckpointOf(i))
  BY <1>5, CheckpointOfType, VerifyKeeps, DropKeeps
<1> HIDE DEF v
<1>7. v.stored \in Sections /\ v.stored \in Nat /\ v.heads \in [Sections -> Hashes]
  <2>1. v.stored \in Sections /\ v.heads \in [Sections -> Hashes]
    BY <1>6 DEF IndexOK, IndexRecords
  <2> QED BY <2>1, SectionsAre, Zenon
<1>8. old \in Hashes
  <2>1. CASE v.stored = 0
    BY <2>1 DEF Hashes
  <2>2. CASE v.stored # 0
    <3>1. v.stored - 1 \in Nat /\ v.stored - 1 <= v.stored
      BY <1>7, <2>2
    <3>2. v.stored - 1 \in Sections
      BY <1>7, <3>1, SectionsAre
    <3> QED BY <1>7, <2>2, <3>2 DEF SectionHead
  <2> QED BY <2>1, <2>2
<1> HIDE DEF old
<1>9. JobOK(j)
  <2>1. v.stored * sectionSize \in Nat
    BY <1>7, Multiples
  <2>2. j \in SectionJobs
    BY <1>7, <1>8, <2>1 DEF SectionJobs
  <2> QED BY <2>1, <2>2 DEF JobOK
<1> HIDE DEF j
<1> QED BY <1>1, <1>3, <1>4, <1>5, <1>6, <1>9, OneIndexKeeps

LEMMA JobKinds ==
    ASSUME NEW j, JobOK(j)
    PROVE  /\ j.pc \in {"wait", "process", "failed", "ended"}
           /\ j.pc \in {"process", "failed"} => j \in SectionJobs
BY DEF JobOK, SectionJobs, AtRest, Ended

LEMMA FailedOK ==
    ASSUME NEW j, JobOK(j), j.pc = "process"
    PROVE  JobOK([j EXCEPT !.pc = "failed"])
<1>1. j \in SectionJobs
  BY JobKinds
<1>2. [j EXCEPT !.pc = "failed"] \in SectionJobs /\ [j EXCEPT !.pc = "failed"].pc = "failed"
  BY <1>1 DEF SectionJobs
<1> QED BY <1>2 DEF JobOK

LEMMA CanonicalHashIs ==
    ASSUME chain \in Chains, NEW n \in Nat, CanonicalHash(n) # NoHash
    PROVE  /\ CanonicalHash(n) = SubSeq(chain, 1, n + 1) /\ CanonicalHash(n) \in Seq(Branches)
           /\ n + 1 <= Len(chain) /\ Len(CanonicalHash(n)) = n + 1 /\ n + 1 <= MaxLength
           /\ Front(CanonicalHash(n)) = SubSeq(CanonicalHash(n), 1, n)
<1>1. chain \in Seq(Branches) /\ Len(chain) \in Nat /\ Len(chain) <= MaxLength /\ MaxLength \in Nat
  BY IndexerAssumption DEF Chains
<1>2. CanonicalHash(n) = SubSeq(chain, 1, n + 1) /\ n < Len(chain)
  BY DEF CanonicalHash
<1>3. n + 1 \in Nat /\ n + 1 <= n + 1 /\ n + 1 <= Len(chain)
  BY <1>1, <1>2
<1>4. SubSeq(chain, 1, n + 1) \in Seq(Branches) /\ Len(SubSeq(chain, 1, n + 1)) = n + 1
  BY <1>1, <1>3
<1> QED BY <1>1, <1>2, <1>3, <1>4 DEF Front

(* A block is added to a section only when the section is its parent's.    *)
LEMMA ProcessBlockKeeps == ASSUME IndexerInv, NEW i \in Indexers, ProcessBlock(i) PROVE IndexerInv'
<1> DEFINE job_ == wrk[i]
           hash == CanonicalHash(job_.number)
           j == [job_ EXCEPT !.lastHead = hash, !.number = @ + 1]
<1>1. /\ ix \in [Indexers -> IndexRecords] /\ IndexOK(ix[i], CheckpointOf(i)) /\ JobOK(job_)
      /\ wrk \in [Indexers -> Jobs] /\ chain \in Chains
  BY DEF IndexerInv, ChainsOK, Jobs
<1>2. job_.pc = "process" /\ UNCHANGED <<chain, events, prev, ix, checkpoint>> /\ ChainsOK'
  BY DEF ProcessBlock, stable, IndexerInv, ChainsOK
<1>3. job_ \in SectionJobs
  BY <1>1, <1>2, JobKinds
<1>4. ix' = [ix EXCEPT ![i] = ix[i]]
  BY <1>1, <1>2
<1>5. CASE hash = NoHash \/ Front(hash) # job_.lastHead
  <2>1. wrk' = [wrk EXCEPT ![i] = [job_ EXCEPT !.pc = "failed"]]
    BY <1>1, <1>3, <1>5 DEF ProcessBlock, Failed
  <2>2. JobOK([job_ EXCEPT !.pc = "failed"])
    BY <1>1, <1>2, FailedOK
  <2> QED BY <1>1, <1>2, <1>4, <2>1, <2>2, OneIndexKeeps
<1>6. CASE hash # NoHash /\ Front(hash) = job_.lastHead
  <2>1. wrk' = [wrk EXCEPT ![i] = j]
    BY <1>1, <1>3, <1>6 DEF ProcessBlock
  <2>2. job_.number \in Nat /\ job_.section \in Nat /\ job_.section \in Sections /\ job_.oldHead \in Hashes
    <3>1. job_.number \in Nat /\ job_.section \in Sections /\ job_.oldHead \in Hashes
      BY <1>3 DEF SectionJobs
    <3> QED BY <3>1, SectionsAre, Zenon
  <2>3. /\ hash \in Seq(Branches) /\ Len(hash) = job_.number + 1 /\ job_.number + 1 <= MaxLength
        /\ job_.lastHead = SubSeq(hash, 1, job_.number)
    BY <1>1, <1>6, <2>2, CanonicalHashIs
  <2> HIDE DEF hash, job_
  <2>4. /\ job_.number >= job_.section * sectionSize
        /\ job_.number > job_.section * sectionSize =>
                job_.oldHead = SubSeq(job_.lastHead, 1, job_.section * sectionSize)
        /\ job_.number = job_.section * sectionSize => job_.lastHead = job_.oldHead
        /\ job_.section * sectionSize \in Nat
    BY <1>1, <1>2, <2>2, Multiples DEF JobOK
  <2>5. job_.oldHead = SubSeq(hash, 1, job_.section * sectionSize)
    <3>1. CASE job_.number > job_.section * sectionSize
      <4>1. /\ job_.section * sectionSize <= job_.number /\ job_.number <= Len(hash)
        BY <2>2, <2>3, <2>4
      <4>2. SubSeq(SubSeq(hash, 1, job_.number), 1, job_.section * sectionSize)
              = SubSeq(hash, 1, job_.section * sectionSize)
        <5>1. ASSUME NEW q \in Seq(Branches), NEW a \in Nat, NEW b \in Nat, a <= b, b <= Len(q)
              PROVE  SubSeq(SubSeq(q, 1, b), 1, a) = SubSeq(q, 1, a)
          BY <5>1
        <5> QED BY <2>2, <2>3, <2>4, <4>1, <5>1
      <4> QED BY <2>3, <2>4, <3>1, <4>2
    <3>2. CASE job_.number = job_.section * sectionSize
      BY <2>3, <2>4, <3>2
    <3> QED BY <2>2, <2>4, <3>1, <3>2
  <2>6. /\ j \in SectionJobs /\ j.pc = "process" /\ j.section = job_.section
        /\ j.oldHead = job_.oldHead /\ j.lastHead = hash /\ j.number = job_.number + 1
    <3>1. hash \in Hashes /\ job_.number + 1 \in Nat
      BY <2>2, <2>3 DEF Hashes
    <3>2. j = [job_ EXCEPT !.lastHead = hash, !.number = job_.number + 1]
      OBVIOUS
    <3> HIDE DEF j
    <3> QED BY <1>2, <1>3, <3>1, <3>2 DEF SectionJobs
  <2> HIDE DEF j
  <2>7. JobOK(j)
    BY <2>2, <2>3, <2>4, <2>5, <2>6 DEF JobOK
  <2> QED BY <1>1, <1>2, <1>4, <2>1, <2>7, OneIndexKeeps
<1> QED BY <1>5, <1>6

LEMMA BackendFailsKeeps == ASSUME IndexerInv, NEW i \in Indexers, BackendFails(i) PROVE IndexerInv'
<1>1. /\ ix \in [Indexers -> IndexRecords] /\ IndexOK(ix[i], CheckpointOf(i)) /\ JobOK(wrk[i])
      /\ wrk \in [Indexers -> Jobs]
  BY DEF IndexerInv, Jobs
<1>2. wrk[i].pc = "process" /\ UNCHANGED <<chain, events, prev, checkpoint>> /\ ChainsOK'
  BY DEF BackendFails, stable, IndexerInv, ChainsOK
<1>3. wrk' = [wrk EXCEPT ![i] = [wrk[i] EXCEPT !.pc = "failed"]]
  BY <1>1 DEF BackendFails, Failed
<1>4. JobOK([wrk[i] EXCEPT !.pc = "failed"])
  BY <1>1, <1>2, FailedOK
<1>5. \/ ix' = [ix EXCEPT ![i] = ix[i]]
      \/ ix' = [ix EXCEPT ![i] = SetValidSections(ix[i], 0)]
  BY <1>1 DEF BackendFails
<1>6. IndexOK(SetValidSections(ix[i], 0), CheckpointOf(i))
  <2>1. ix[i].stored \in Nat
    BY <1>1, SectionsAre DEF IndexOK, IndexRecords
  <2>2. 0 <= ix[i].stored
    BY <2>1
  <2> QED BY <1>1, <2>2, CheckpointOfType, DropKeeps
<1> QED BY <1>1, <1>2, <1>3, <1>4, <1>5, <1>6, OneIndexKeeps

(* A section that is accepted continues what is stored: its first block    *)
(* followed the head that is still the last one.                           *)
LEMMA AcceptKeeps ==
    ASSUME NEW r, NEW c \in Nat, IndexOK(r, c), NEW j, JobOK(j), j.pc = "process",
           j.number = End(j.section), j.section = 0 \/ j.oldHead = r.heads[j.section - 1]
    PROVE  LET done == SetValidSections(SetSectionHead(r, j.section, j.lastHead), j.section + 1)
           IN  /\ IndexOK(done, c) /\ done.stored = j.section + 1
               /\ done.stored * sectionSize \in Nat
               /\ done.stored * sectionSize >= 1 /\ done.stored * sectionSize <= MaxLength
               /\ done.known = r.known
<1> DEFINE sec == j.section
           q == SetSectionHead(r, sec, j.lastHead)
           h == [s \in Sections |-> IF s >= sec + 1 /\ s < r.stored THEN NoHash ELSE q.heads[s]]
           done == SetValidSections(q, sec + 1)
<1>1. j \in SectionJobs
  BY JobKinds
<1>2. sec \in Nat /\ sec \in Sections /\ j.number \in Nat
  <2>1. sec \in Sections /\ j.number \in Nat
    BY <1>1 DEF SectionJobs
  <2> QED BY <2>1, SectionsAre, Zenon
<1>3. /\ sec * sectionSize \in Nat /\ End(sec) = sec * sectionSize + sectionSize
      /\ sectionSize \in Nat /\ sectionSize > 0 /\ MaxLength \in Nat
      /\ End(sec) = (sec + 1) * sectionSize
  <2>1. sec * sectionSize \in Nat /\ End(sec) = sec * sectionSize + sectionSize
    BY <1>2, Multiples
  <2>2. End(sec) = (sec + 1) * sectionSize
    BY DEF End
  <2> QED BY <2>1, <2>2, IndexerAssumption
<1>4. /\ j.lastHead \in Seq(Branches) /\ Len(j.lastHead) = End(sec) /\ End(sec) <= MaxLength
      /\ j.oldHead = SubSeq(j.lastHead, 1, sec * sectionSize)
  <2>1. j.number > j.section * sectionSize
    BY <1>2, <1>3
  <2> QED BY <2>1 DEF JobOK
<1>5. sec + 1 \in Sections
  BY <1>2, <1>3, <1>4, SectionsAre
<1>6. r \in IndexRecords /\ r.stored \in Nat /\ Sections \subseteq Nat /\ r.heads \in [Sections -> Hashes]
  BY SectionsAre DEF IndexOK, IndexRecords
<1>7. /\ q \in IndexRecords /\ q.stored = r.stored /\ q.heads = [r.heads EXCEPT ![sec] = j.lastHead]
      /\ q.known = r.known
  <2>1. q = [r EXCEPT !.heads = [r.heads EXCEPT ![sec] = j.lastHead]]
    BY <1>6 DEF SetSectionHead, IndexRecords
  <2>2. [r.heads EXCEPT ![sec] = j.lastHead] \in [Sections -> Hashes]
    BY <1>2, <1>4, <1>6 DEF Hashes
  <2> HIDE DEF q
  <2> QED BY <1>6, <2>1, <2>2 DEF IndexRecords
<1> HIDE DEF q
<1>8. done = [q EXCEPT !.stored = sec + 1, !.heads = h]
  BY <1>7 DEF SetValidSections
<1>9. h \in [Sections -> Hashes]
  <2>1. q.heads \in [Sections -> Hashes]
    BY <1>7 DEF IndexRecords
  <2> QED BY <2>1 DEF Hashes
<1>10. /\ \A s \in Sections : s < sec => h[s] = r.heads[s]
       /\ h[sec] = j.lastHead
       /\ \A s \in Sections : s >= sec + 1 => h[s] = NoHash
  BY <1>2, <1>6, <1>7 DEF IndexOK, NoneAbove
<1> HIDE DEF done, h
<1>11. /\ done \in IndexRecords /\ done.stored = sec + 1 /\ done.heads = h /\ done.known = r.known
  <2> HIDE DEF sec
  <2> QED BY <1>5, <1>7, <1>8, <1>9 DEF IndexRecords
<1>12. NoneAbove(done)
  BY <1>2, <1>6, <1>10, <1>11 DEF NoneAbove
<1>13. ASSUME NEW s \in Sections, c <= s, s < sec
       PROVE  r.heads[s] = SubSeq(j.lastHead, 1, End(s))
  <2>1. s \in Nat /\ sec - 1 \in Nat /\ sec - 1 \in Sections /\ c <= sec - 1 /\ s <= sec - 1 /\ sec # 0
    BY <1>2, <1>6, <1>13, SectionsAre
  <2>2. End(s) \in Nat /\ End(s) <= sec * sectionSize
    BY <1>2, <1>13, <2>1, Multiples
  <2>3. r.heads[sec - 1] = SubSeq(j.lastHead, 1, sec * sectionSize)
    BY <1>4, <2>1
  <2>4. SubSeq(j.lastHead, 1, sec * sectionSize) \in Seq(Branches)
    BY <1>3, <1>4
  <2>5. sec - 1 < r.stored
    <3>1. r.heads[sec - 1] # NoHash
      BY <2>3, <2>4, IndexerAssumption
    <3> QED BY <1>6, <2>1, <3>1 DEF IndexOK, NoneAbove
  <2>6. r.heads[s] = SubSeq(r.heads[sec - 1], 1, End(s))
    BY <1>13, <2>1, <2>5 DEF IndexOK, Linked
  <2>7. ASSUME NEW x \in Seq(Branches), NEW a \in Nat, NEW b \in Nat, a <= b, b <= Len(x)
        PROVE  SubSeq(SubSeq(x, 1, b), 1, a) = SubSeq(x, 1, a)
    BY <2>7
  <2>8. sec * sectionSize <= Len(j.lastHead)
    BY <1>3, <1>4
  <2> HIDE DEF sec
  <2> QED BY <1>3, <1>4, <2>2, <2>3, <2>6, <2>7, <2>8
<1>14. ASSUME NEW s \in Sections, c <= s, s <= sec
       PROVE  h[s] = SubSeq(j.lastHead, 1, End(s))
  <2>1. CASE s = sec
    <3>1. SubSeq(j.lastHead, 1, Len(j.lastHead)) = j.lastHead
      BY <1>4
    <3> QED BY <1>4, <1>10, <2>1, <3>1
  <2>2. CASE s < sec
    BY <1>10, <1>13, <1>14, <2>2
  <2> QED BY <1>2, <1>6, <1>14, <2>1, <2>2
<1>15. Linked(done, c)
  <2> SUFFICES ASSUME NEW t \in Sections, c <= t, t < sec + 1
               PROVE  /\ h[t] \in Seq(Branches) /\ Len(h[t]) = End(t)
                      /\ \A s \in Sections : c <= s /\ s <= t => h[s] = SubSeq(h[t], 1, End(s))
    BY <1>11 DEF Linked
  <2>1. CASE t = sec
    BY <1>4, <1>10, <1>14, <2>1
  <2>2. CASE t < sec
    <3>1. r.heads[t] = SubSeq(j.lastHead, 1, End(t)) /\ h[t] = r.heads[t]
      BY <1>10, <1>13, <2>2
    <3>2. t \in Nat /\ End(t) \in Nat /\ End(t) <= sec * sectionSize /\ End(t) <= Len(j.lastHead)
      <4>1. t \in Nat
        BY <1>6
      <4>2. End(t) \in Nat /\ End(t) <= sec * sectionSize
        BY <1>2, <2>2, <4>1, Multiples
      <4> QED BY <1>3, <1>4, <4>1, <4>2
    <3>3. h[t] \in Seq(Branches) /\ Len(h[t]) = End(t)
      BY <1>4, <3>1, <3>2
    <3>4. ASSUME NEW s \in Sections, c <= s, s <= t
          PROVE  h[s] = SubSeq(h[t], 1, End(s))
      <4>1. s \in Nat /\ End(s) \in Nat /\ End(s) <= End(t) /\ s <= sec
        <5>1. s \in Nat
          BY <1>6
        <5>2. End(s) \in Nat /\ End(s) <= End(t)
          BY <3>2, <3>4, <5>1, Multiples
        <5>3. s <= sec
          BY <1>2, <2>2, <3>2, <3>4, <5>1
        <5> QED BY <5>1, <5>2, <5>3
      <4>2. h[s] = SubSeq(j.lastHead, 1, End(s))
        BY <1>14, <3>4, <4>1
      <4>3. ASSUME NEW x \in Seq(Branches), NEW a \in Nat, NEW b \in Nat, a <= b, b <= Len(x)
            PROVE  SubSeq(SubSeq(x, 1, b), 1, a) = SubSeq(x, 1, a)
        BY <4>3
      <4> QED BY <1>4, <3>1, <3>2, <4>1, <4>2, <4>3
    <3> QED BY <3>3, <3>4
  <2> QED BY <1>2, <1>6, <2>1, <2>2
<1>16. IndexOK(done, c)
  BY <1>11, <1>12, <1>15 DEF IndexOK
<1> QED BY <1>2, <1>3, <1>4, <1>11, <1>16 DEF done, q

LEMMA FinishKeeps == ASSUME IndexerInv, NEW i \in Indexers, Finish(i) PROVE IndexerInv'
<1> DEFINE job_ == wrk[i]
           done == SetValidSections(SetSectionHead(ix[i], job_.section, job_.lastHead), job_.section + 1)
           head == done.stored * sectionSize - 1
           r == VerifyLastHead(ix[i], i)
           v == Rearmed([done EXCEPT !.cascaded = head])
           w == [r EXCEPT !.known = r.stored]
<1>1. /\ ix \in [Indexers -> IndexRecords] /\ JobOK(job_) /\ wrk \in [Indexers -> Jobs]
      /\ CheckpointOf(i) \in Nat
      /\ \A k \in Indexers : IndexOK(ix[k], CheckpointOf(k)) /\ JobOK(wrk[k])
  BY CheckpointOfType DEF IndexerInv, Jobs
<1>2. /\ wrk' = [wrk EXCEPT ![i] = AtRest] /\ UNCHANGED <<chain, events, prev, checkpoint>>
      /\ ChainsOK'
  BY DEF Finish, stable, IndexerInv, ChainsOK
<1>3. JobOK(AtRest)
  BY DEF JobOK, AtRest
<1>4. CASE ~Accepts(i)
  <2>1. ix' = [ix EXCEPT ![i] = w]
    BY <1>4 DEF Finish
  <2>2. IndexOK(r, CheckpointOf(i))
    BY <1>1, VerifyKeeps, DropKeeps
  <2> HIDE DEF r
  <2>3. w \in IndexRecords /\ w.stored = r.stored /\ w.heads = r.heads
    BY <2>2 DEF IndexOK, IndexRecords
  <2> HIDE DEF w
  <2>4. IndexOK(w, CheckpointOf(i))
    BY <1>1, <2>2, <2>3, CountsKeep
  <2> QED BY <1>2, <1>3, <2>1, <2>4, OneIndexKeeps
<1>5. CASE Accepts(i)
  <2>1. /\ job_.pc = "process" /\ job_.number = End(job_.section)
        /\ job_.section = 0 \/ job_.oldHead = ix[i].heads[job_.section - 1]
    BY <1>5 DEF Accepts, Finish, SectionHead, End
  <2>2. ix' = [j \in Indexers |->
                  IF j = i THEN v
                  ELSE IF i = "parent" /\ attached THEN NewHeadForward(ix[j], j, head)
                  ELSE ix[j]]
    BY <1>5 DEF Finish
  <2>3. /\ IndexOK(done, CheckpointOf(i))
        /\ done.stored * sectionSize \in Nat
        /\ done.stored * sectionSize >= 1 /\ done.stored * sectionSize <= MaxLength
    BY <1>1, <2>1, AcceptKeeps
  <2> HIDE DEF done
  <2>4. head \in 0..MaxLength /\ head \in Int /\ head + 1 <= MaxLength
    BY <2>3, IndexerAssumption
  <2> HIDE DEF head
  <2>5. v \in IndexRecords /\ v.stored = done.stored /\ v.heads = done.heads
    <3> DEFINE told == [done EXCEPT !.cascaded = head]
    <3>1. done \in IndexRecords
      BY <2>3 DEF IndexOK
    <3>2. told \in IndexRecords /\ told.stored = done.stored /\ told.heads = done.heads
      BY <2>4, <3>1 DEF IndexRecords
    <3> HIDE DEF told
    <3>3. (told.timer \/ told.known > told.stored) \in BOOLEAN
      BY <3>2 DEF IndexRecords
    <3>4. Rearmed(told) = [told EXCEPT !.timer = (told.timer \/ told.known > told.stored)]
      BY <3>2 DEF Rearmed
    <3>5. ASSUME NEW b \in BOOLEAN
          PROVE  /\ [told EXCEPT !.timer = b] \in IndexRecords
                 /\ [told EXCEPT !.timer = b].stored = told.stored /\ [told EXCEPT !.timer = b].heads = told.heads
      BY <3>2 DEF IndexRecords
    <3>6. v = [told EXCEPT !.timer = (told.timer \/ told.known > told.stored)]
      BY <3>4 DEF told
    <3> HIDE DEF v
    <3> QED BY <3>2, <3>3, <3>5, <3>6
  <2> HIDE DEF v
  <2>6. IndexOK(v, CheckpointOf(i))
    BY <1>1, <2>3, <2>5, CountsKeep
  <2>7. \A j \in Indexers : IndexOK(NewHeadForward(ix[j], j, head), CheckpointOf(j))
    BY <1>1, <2>4, CheckpointOfType, ForwardKeeps
  <2>8. \A j \in Indexers : IndexOK(ix'[j], CheckpointOf(j))
    BY <1>1, <2>2, <2>6, <2>7
  <2>9. ix' \in [Indexers -> IndexRecords]
    BY <2>2, <2>8 DEF IndexOK
  <2>10. wrk' \in [Indexers -> Jobs] /\ \A j \in Indexers : JobOK(wrk'[j])
    BY <1>1, <1>2, <1>3 DEF Jobs
  <2> QED BY <1>2, <2>8, <2>9, <2>10, IndexerStepKeeps
<1> QED BY <1>4, <1>5

LEMMA QuitUpdateLoopKeeps == ASSUME IndexerInv, NEW i \in Indexers, QuitUpdateLoop(i) PROVE IndexerInv'
<1>1. ix \in [Indexers -> IndexRecords] /\ IndexOK(ix[i], CheckpointOf(i))
  BY DEF IndexerInv
<1>2. /\ wrk' = [wrk EXCEPT ![i] = Ended] /\ UNCHANGED <<chain, events, prev, ix, checkpoint>>
      /\ ChainsOK'
  BY DEF QuitUpdateLoop, IndexerInv, ChainsOK
<1>3. JobOK(Ended)
  BY DEF JobOK, Ended
<1>4. ix' = [ix EXCEPT ![i] = ix[i]]
  BY <1>1, <1>2
<1> QED BY <1>1, <1>2, <1>3, <1>4, OneIndexKeeps

LEMMA RestartIndexerKeeps == ASSUME IndexerInv, RestartIndexer PROVE IndexerInv'
<1> DEFINE loaded(i) == [ix[i] EXCEPT !.known = 0, !.cascaded = 0, !.update = FALSE, !.timer = FALSE]
<1>1. /\ ix \in [Indexers -> IndexRecords] /\ chain \in Chains
      /\ \A i \in Indexers : IndexOK(ix[i], CheckpointOf(i))
  BY DEF IndexerInv, ChainsOK
<1>2. /\ ix' = [i \in Indexers |-> loaded(i)] /\ wrk' = [i \in Indexers |-> AtRest]
      /\ events' = <<>> /\ prev' = chain /\ UNCHANGED <<chain, checkpoint>>
  BY DEF RestartIndexer
<1>3. ChainsOK'
  <2>1. <<>> \in Seq(Chains)
    OBVIOUS
  <2>2. chain' \in Chains /\ prev' \in Chains /\ events' \in Seq(Chains)
    BY <1>1, <1>2, <2>1
  <2> QED BY <2>2 DEF ChainsOK
<1>4. ASSUME NEW i \in Indexers
      PROVE  loaded(i) \in IndexRecords /\ loaded(i).stored = ix[i].stored /\ loaded(i).heads = ix[i].heads
  <2>1. ix[i] \in IndexRecords /\ 0 \in Sections /\ 0 \in 0..MaxLength
    BY <1>1, SectionsAre, IndexerAssumption
  <2> QED BY <2>1 DEF IndexRecords
<1> HIDE DEF loaded
<1>5. \A i \in Indexers : IndexOK(ix'[i], CheckpointOf(i))
  <2> TAKE i \in Indexers
  <2>1. ix'[i] = loaded(i) /\ CheckpointOf(i) \in Nat
    BY <1>2, CheckpointOfType
  <2> QED BY <1>1, <1>4, <2>1, CountsKeep
<1>6. ix' \in [Indexers -> IndexRecords] /\ wrk' \in [Indexers -> Jobs]
  BY <1>2, <1>4 DEF Jobs
<1>7. \A i \in Indexers : JobOK(wrk'[i])
  BY <1>2 DEF JobOK, AtRest
<1> QED BY <1>2, <1>3, <1>5, <1>6, <1>7, IndexerStepKeeps

(* A checkpoint is taken on trust, by an indexer that has stored nothing.  *)
LEMMA AddCheckpointKeeps == ASSUME IndexerInv, AddCheckpoint PROVE IndexerInv'
<1>1. PICK v \in Branches : LET hash == chain \o [n \in 1..(sectionSize - 1) |-> v] IN
        /\ checkpoint' = [sections |-> 1, head |-> hash]
        /\ ix' = [ix EXCEPT !["parent"] = SetValidSections(SetSectionHead(@, 0, hash), 1)]
  BY DEF AddCheckpoint
<1> DEFINE hash == chain \o [n \in 1..(sectionSize - 1) |-> v]
           r == ix["parent"]
           q == SetSectionHead(r, 0, hash)
           h == [s \in Sections |-> IF s >= 1 /\ s < q.stored THEN NoHash ELSE q.heads[s]]
           w == SetValidSections(q, 1)
<1>2. /\ r.stored = 0 /\ UNCHANGED <<chain, events, prev, wrk>> /\ ChainsOK'
      /\ "parent" \in Indexers /\ ix \in [Indexers -> IndexRecords]
  BY DEF AddCheckpoint, IndexerInv, ChainsOK, Indexers
<1>3. hash \in Hashes
  <2>1. chain \in Seq(Branches) /\ sectionSize - 1 \in Nat
    BY IndexerAssumption DEF IndexerInv, ChainsOK, Chains
  <2>2. [n \in 1..(sectionSize - 1) |-> v] \in Seq(Branches)
    BY <2>1
  <2>3. ASSUME NEW a \in Seq(Branches), NEW b \in Seq(Branches)
        PROVE  a \o b \in Seq(Branches)
    OBVIOUS
  <2> QED BY <2>1, <2>2, <2>3, Zenon DEF Hashes
<1> HIDE DEF hash
<1>4. /\ r \in IndexRecords /\ r.heads \in [Sections -> Hashes] /\ Sections \subseteq Nat
      /\ 0 \in Sections /\ 1 \in Sections
      /\ \A s \in Sections : r.heads[s] = NoHash
  <2>1. r \in IndexRecords /\ r.heads \in [Sections -> Hashes]
    BY <1>2 DEF IndexRecords
  <2>2. NoneAbove(r)
    BY <1>2 DEF IndexerInv, IndexOK
  <2> HIDE DEF r
  <2>3. Sections \subseteq Nat /\ 0 \in Sections /\ 1 \in Sections
    BY SectionsAre
  <2>4. \A s \in Sections : r.heads[s] = NoHash
    BY <1>2, <2>2, <2>3 DEF NoneAbove
  <2> QED BY <2>1, <2>3, <2>4
<1> HIDE DEF r
<1>5. /\ q = [r EXCEPT !.heads = [r.heads EXCEPT ![0] = hash]]
      /\ [r.heads EXCEPT ![0] = hash] \in [Sections -> Hashes]
  BY <1>3, <1>4 DEF SetSectionHead, IndexRecords
<1> HIDE DEF q
<1>6. /\ q \in IndexRecords /\ q.stored = 0 /\ q.heads = [r.heads EXCEPT ![0] = hash]
  BY <1>2, <1>4, <1>5 DEF IndexRecords
<1>7. h = q.heads
  <2>1. q.heads \in [Sections -> Hashes]
    BY <1>6 DEF IndexRecords
  <2>2. \A s \in Sections : (IF s >= 1 /\ s < q.stored THEN NoHash ELSE q.heads[s]) = q.heads[s]
    BY <1>4, <1>6
  <2> QED BY <2>1, <2>2
<1>8. w = [q EXCEPT !.stored = 1, !.heads = q.heads]
  BY <1>6, <1>7 DEF SetValidSections
<1> HIDE DEF w, h
<1>9. w \in IndexRecords /\ w.stored = 1 /\ w.heads = q.heads
  BY <1>4, <1>6, <1>8 DEF IndexRecords
<1>10. IndexOK(w, 1)
  <2>1. NoneAbove(w)
    BY <1>4, <1>6, <1>9 DEF NoneAbove
  <2>2. Linked(w, 1)
    BY <1>4, <1>9 DEF Linked
  <2> QED BY <1>9, <2>1, <2>2 DEF IndexOK
<1>11. ix' = [ix EXCEPT !["parent"] = w] /\ checkpoint'.sections = 1
  BY <1>1, <1>2 DEF hash, r, q, w
<1>12. CheckpointOf("parent")' = 1 /\ CheckpointOf("child")' = 0 /\ CheckpointOf("child") = 0
  BY <1>11 DEF CheckpointOf
<1>13. ix' \in [Indexers -> IndexRecords] /\ ix'["parent"] = w /\ ix'["child"] = ix["child"]
  BY <1>2, <1>9, <1>11 DEF Indexers
<1>14. \A i \in Indexers : IndexOK(ix'[i], CheckpointOf(i)') /\ JobOK(wrk'[i])
  BY <1>2, <1>10, <1>12, <1>13 DEF Indexers, IndexerInv
<1> QED BY <1>2, <1>11, <1>13, <1>14 DEF IndexerInv

LEMMA IndexerInit1 == IndexerInit => IndexerInv
<1> SUFFICES ASSUME IndexerInit PROVE IndexerInv
  OBVIOUS
<1>1. PICK b \in Branches : chain = <<b>>
  BY IndexerAssumption DEF IndexerInit
<1>2. chain \in Seq(Branches) /\ Len(chain) = 1 /\ 1 \in 1..MaxLength
  BY <1>1, IndexerAssumption
<1>3. chain \in Chains
  BY <1>2 DEF Chains
<1>4. ChainsOK
  BY <1>3 DEF IndexerInit, ChainsOK
<1>5. 0 \in Sections /\ 0 \in 0..MaxLength /\ Sections \subseteq Nat
  BY SectionsAre, IndexerAssumption
<1>6. Fresh \in IndexRecords /\ Fresh.stored = 0 /\ \A s \in Sections : Fresh.heads[s] = NoHash
  BY <1>5 DEF Fresh, IndexRecords, Hashes
<1>7. \A c \in Nat : IndexOK(Fresh, c)
  <2> TAKE c \in Nat
  <2>1. NoneAbove(Fresh)
    BY <1>6 DEF NoneAbove
  <2>2. Linked(Fresh, c)
    BY <1>5, <1>6 DEF Linked
  <2> QED BY <1>6, <2>1, <2>2 DEF IndexOK
<1>8. JobOK(AtRest)
  BY DEF JobOK, AtRest
<1>9. \A i \in Indexers : ix[i] = Fresh /\ wrk[i] = AtRest /\ CheckpointOf(i) \in Nat
  BY DEF IndexerInit, CheckpointOf
<1>10. ix \in [Indexers -> IndexRecords] /\ wrk \in [Indexers -> {AtRest, Ended} \cup SectionJobs]
  BY <1>6 DEF IndexerInit
<1>11. checkpoint.sections \in Nat
  BY DEF IndexerInit
<1> QED BY <1>4, <1>7, <1>8, <1>9, <1>10, <1>11 DEF IndexerInv

LEMMA IndexerInductive == IndexerInv /\ [Next]_vars => IndexerInv'
<1> SUFFICES ASSUME IndexerInv, [Next]_vars PROVE IndexerInv'
  OBVIOUS
<1>1. CASE UNCHANGED indexerVars
  BY <1>1 DEF indexerVars, IndexerInv, ChainsOK, CheckpointOf
<1>2. CASE IndexerNext
  <2>1. CASE Close \/ QuitEventLoop
    BY <2>1 DEF Close, QuitEventLoop, IndexerInv, ChainsOK, CheckpointOf
  <2>2. ASSUME NEW i \in Indexers,
               IndexerStep(i) \/ BackendFails(i) \/ Throttled(i) \/ ReadSections(i)
        PROVE  IndexerInv'
    BY <2>2, TakeUpdateKeeps, ProcessBlockKeeps, FinishKeeps, QuitUpdateLoopKeeps,
       BackendFailsKeeps, ThrottledKeeps, ReadSectionsKeeps
       DEF IndexerStep
  <2> QED BY <1>2, <2>1, <2>2, ChainHeadKeeps, StartLoopKeeps, EventLoopKeeps, AddCheckpointKeeps,
             AddChildIndexerKeeps, RestartIndexerKeeps
          DEF IndexerNext
<1> QED BY <1>1, <1>2 DEF Next, vars

(* The sections an indexer stores are those of one chain, for every size   *)
(* of a section and every number of confirmations, although heads and      *)
(* reorganisations arrive, readers verify and the backend fails while a    *)
(* section is processed (newHead, updateLoop and processSection of         *)
(* chain_indexer.go).                                                      *)
THEOREM IndexIsConsistent == Spec => []IndexConsistent
<1>1. Init => IndexerInv
  BY IndexerInit1 DEF Init, AtFirst
<1>2. IndexerInv => IndexConsistent
  <2> SUFFICES ASSUME IndexerInv PROVE IndexerTypeOK /\ SectionsLinked
    BY DEF IndexConsistent
  <2>1. \A i \in Indexers : IndexOK(ix[i], CheckpointOf(i)) /\ JobOK(wrk[i]) /\ ix[i] \in IndexRecords
    BY DEF IndexerInv
  <2>2. IndexerTypeOK
    <3>1. chain \in Seq(Branches) /\ Len(chain) \in 1..MaxLength
      BY DEF IndexerInv, ChainsOK, Chains
    <3>2. \A i \in Indexers : wrk[i].pc \in {"wait", "process", "failed", "ended"}
      BY <2>1, JobKinds
    <3> QED BY <2>1, <3>1, <3>2 DEF IndexerTypeOK, IndexRecords
  <2>3. ASSUME NEW i \in Indexers, NEW s \in 1..(ix[i].stored - 1), s > CheckpointOf(i)
        PROVE  IsPrefix(SectionHead(ix[i], s - 1), SectionHead(ix[i], s))
    <3>1. ix[i].stored \in Sections /\ ix[i].stored \in Nat /\ CheckpointOf(i) \in Nat
      <4>1. ix[i].stored \in Sections
        BY <2>1 DEF IndexRecords
      <4> QED BY <4>1, SectionsAre, CheckpointOfType, Zenon
    <3>2. /\ s \in Nat /\ s - 1 \in Nat /\ s <= ix[i].stored /\ s - 1 <= ix[i].stored
          /\ CheckpointOf(i) <= s - 1 /\ CheckpointOf(i) <= s /\ s - 1 <= s /\ s < ix[i].stored
      BY <2>3, <3>1
    <3>3. s \in Sections /\ s - 1 \in Sections
      BY <3>1, <3>2, SectionsAre
    <3>4. /\ ix[i].heads[s] \in Seq(Branches) /\ Len(ix[i].heads[s]) = End(s)
          /\ ix[i].heads[s - 1] = SubSeq(ix[i].heads[s], 1, End(s - 1))
      BY <2>1, <3>2, <3>3 DEF IndexOK, Linked
    <3>5. End(s - 1) \in Nat /\ End(s - 1) <= End(s) /\ End(s) \in Nat
      BY <3>2, Multiples
    <3>6. ASSUME NEW q \in Seq(Branches), NEW n \in Nat, n <= Len(q)
          PROVE  IsPrefix(SubSeq(q, 1, n), q)
      BY <3>6 DEF IsPrefix
    <3> QED BY <3>4, <3>5, <3>6 DEF SectionHead
  <2> QED BY <2>2, <2>3 DEF SectionsLinked
<1> QED BY <1>1, <1>2, IndexerInductive, PTL DEF Spec

(* After verifyLastHead every section from the checkpoint on is canonical, *)
(* although only the last one was compared with the chain.                 *)
LEMMA ReadIsCanonical ==
    ASSUME IndexerInv, NEW i \in Indexers, ReadSections(i),
           NEW s \in CheckpointOf(i)..(ix'[i].stored - 1)
    PROVE  ix'[i].heads[s] = CanonicalHash((s + 1) * sectionSize - 1)
<1> DEFINE r == ix[i]
<1>1. /\ ix \in [Indexers -> IndexRecords] /\ IndexOK(r, CheckpointOf(i)) /\ chain \in Chains
      /\ CheckpointOf(i) \in Nat
  BY CheckpointOfType DEF IndexerInv, ChainsOK
<1>2. ix'[i] = VerifyLastHead(r, i)
  BY <1>1 DEF ReadSections
<1>3. PICK n \in Nat : n <= r.stored /\ Holds(r, i, n) /\ VerifyLastHead(r, i) = SetValidSections(r, n)
  BY <1>1, VerifyKeeps
<1>4. /\ ix'[i].stored = n
      /\ \A t \in Sections : t < n => ix'[i].heads[t] = r.heads[t]
  BY <1>1, <1>2, <1>3, DropKeeps
<1>5. /\ s \in Nat /\ CheckpointOf(i) <= s /\ s < n /\ s <= n - 1 /\ n - 1 \in Nat /\ n # 0
      /\ CheckpointOf(i) <= n - 1 /\ ~(n <= CheckpointOf(i))
  BY <1>1, <1>4
<1>6. r.stored \in Sections /\ r.stored \in Nat
  <2>1. r.stored \in Sections
    BY <1>1 DEF IndexRecords
  <2> QED BY <2>1, SectionsAre, Zenon
<1>7. n - 1 < r.stored /\ n - 1 <= r.stored /\ s <= r.stored
  BY <1>3, <1>5, <1>6
<1>8. n - 1 \in Sections /\ s \in Sections
  BY <1>5, <1>6, <1>7, SectionsAre
<1> HIDE DEF r
<1>9. r.heads[n - 1] = CanonicalHash(n * sectionSize - 1)
  BY <1>3, <1>5 DEF Holds, SectionHead
<1>10. /\ r.heads[n - 1] \in Seq(Branches)
       /\ r.heads[s] = SubSeq(r.heads[n - 1], 1, End(s))
  BY <1>1, <1>5, <1>7, <1>8 DEF IndexOK, Linked
<1>11. /\ End(s) \in Nat /\ n * sectionSize \in Nat /\ End(s) <= n * sectionSize /\ End(s) >= 1
       /\ n * sectionSize - 1 \in Nat
  <2>1. End(s) \in Nat /\ n * sectionSize \in Nat /\ End(s) <= n * sectionSize
    BY <1>5, Multiples
  <2>2. End(s) = s * sectionSize + sectionSize /\ s * sectionSize \in Nat /\ sectionSize \in Nat \ {0}
    BY <1>5, Multiples, IndexerAssumption
  <2> QED BY <2>1, <2>2
<1>12. /\ CanonicalHash(n * sectionSize - 1) # NoHash
  BY <1>9, <1>10, IndexerAssumption
<1>13. /\ r.heads[n - 1] = SubSeq(chain, 1, n * sectionSize)
       /\ n * sectionSize <= Len(chain)
  <2>1. (n * sectionSize - 1) + 1 = n * sectionSize
    BY <1>11
  <2> QED BY <1>1, <1>9, <1>11, <1>12, <2>1, CanonicalHashIs
<1>14. chain \in Seq(Branches) /\ Len(chain) \in Nat
  BY <1>1 DEF Chains
<1>15. r.heads[s] = SubSeq(chain, 1, End(s))
  <2>1. ASSUME NEW q \in Seq(Branches), NEW a \in Nat, NEW b \in Nat, a <= b, b <= Len(q)
        PROVE  SubSeq(SubSeq(q, 1, b), 1, a) = SubSeq(q, 1, a)
    BY <2>1
  <2> QED BY <1>10, <1>11, <1>13, <1>14, <2>1
<1>16. CanonicalHash(End(s) - 1) = SubSeq(chain, 1, End(s))
  <2>1. End(s) - 1 < Len(chain) /\ (End(s) - 1) + 1 = End(s)
    BY <1>11, <1>13, <1>14
  <2> QED BY <2>1 DEF CanonicalHash
<1> QED BY <1>4, <1>5, <1>8, <1>15, <1>16 DEF End

(* Sections() tells a reader of sections of the canonical chain alone.     *)
THEOREM ReadersAreTold == Spec => ReadersSeeCanonical
<1> DEFINE Told == \A i \in Indexers : ReadSections(i) =>
                      \A s \in CheckpointOf(i)..(ix'[i].stored - 1) :
                          ix'[i].heads[s] = CanonicalHash((s + 1) * sectionSize - 1)
<1>1. Init => IndexerInv
  BY IndexerInit1 DEF Init, AtFirst
<1>2. IndexerInv /\ [Next]_vars => [Told]_indexerVars
  BY ReadIsCanonical
<1>3. Spec => [][Told]_indexerVars
  BY <1>1, <1>2, IndexerInductive, PTL DEF Spec
<1> QED BY <1>3 DEF ReadersSeeCanonical
-----------------------------------------------------------------------------
(* Queues of the distributor *)

LEMMA TimesCounts ==
    ASSUME NEW S, NEW q \in Seq(S), NEW s
    PROVE  /\ Times(q, s) \in Nat
           /\ Times(q, s) = 0 <=> s \notin Range(q)
           /\ Times(q, s) = 1 <=> \E i \in 1..Len(q) : q[i] = s /\ \A j \in 1..Len(q) : q[j] = s => j = i
<1> DEFINE at == {i \in DOMAIN q : q[i] = s}
<1>1. DOMAIN q = 1..Len(q) /\ Len(q) \in Nat
  OBVIOUS
<1>2. IsFiniteSet(1..Len(q))
  BY <1>1, FS_Interval
<1>3. at \in SUBSET (1..Len(q))
  BY <1>1
<1>4. IsFiniteSet(at)
  BY <1>2, <1>3, FS_Subset
<1>5. Cardinality(at) \in Nat
  BY <1>4, FS_CardinalityType
<1>6. Cardinality(at) = 0 <=> at = {}
  BY <1>4, FS_EmptySet
<1>7. Cardinality(at) = 1 <=> \E i : at = {i}
  BY <1>4, FS_Singleton, Zenon
<1>8. at = {} <=> s \notin Range(q)
  BY DEF Range
<1>9. (\E i : at = {i}) <=> \E i \in 1..Len(q) : q[i] = s /\ \A j \in 1..Len(q) : q[j] = s => j = i
  <2>1. ASSUME NEW i, at = {i}
        PROVE  i \in 1..Len(q) /\ q[i] = s /\ \A j \in 1..Len(q) : q[j] = s => j = i
    BY <1>1, <2>1
  <2>2. ASSUME NEW i \in 1..Len(q), q[i] = s, \A j \in 1..Len(q) : q[j] = s => j = i
        PROVE  at = {i}
    BY <1>1, <2>2
  <2> QED BY <2>1, <2>2
<1> QED BY <1>5, <1>6, <1>7, <1>8, <1>9, Zenon DEF Times

LEMMA InsertedFacts ==
    ASSUME NEW S, NEW queue \in Seq(S), NEW more \in SUBSET S, IsFiniteSet(more),
           NEW q \in Inserted(queue, more)
    PROVE  /\ q \in Seq(S)
           /\ q # <<>> <=> (queue # <<>> \/ more # {})
           /\ Len(q) = Cardinality(more) <=> queue = <<>>
           /\ \A s \in S : Times(q, s) = Times(queue, s) + (IF s \in more THEN 1 ELSE 0)
<1> DEFINE n == Len(queue) + Cardinality(more)
           among == Range(queue) \cup more
<1>1. Len(queue) \in Nat /\ Cardinality(more) \in Nat
  BY FS_CardinalityType
<1>2. among \in SUBSET S
  BY DEF Range
<1>3. q \in [1..n -> among]
  BY DEF Inserted
<1>4. q \in Seq(among) /\ Len(q) = n
  BY <1>1, <1>3
<1>5. q \in Seq(S)
  BY <1>2, <1>4
<1>6. Cardinality(more) = 0 <=> more = {}
  BY FS_EmptySet
<1>7. q # <<>> <=> (queue # <<>> \/ more # {})
  <2>1. q # <<>> <=> n # 0
    BY <1>1, <1>4
  <2>2. queue # <<>> <=> Len(queue) # 0
    OBVIOUS
  <2> QED BY <1>1, <1>6, <2>1, <2>2
<1>8. Len(q) = Cardinality(more) <=> queue = <<>>
  <2>1. queue = <<>> <=> Len(queue) = 0
    OBVIOUS
  <2> QED BY <1>1, <1>4, <2>1
<1>9. \A s \in S : Times(q, s) = Times(queue, s) + (IF s \in more THEN 1 ELSE 0)
  <2> TAKE s \in S
  <2>1. CASE s \in among
    BY <2>1, Zenon DEF Inserted
  <2>2. CASE s \notin among
    <3>1. s \notin Range(q)
      BY <1>3, <2>2 DEF Range
    <3>2. Times(q, s) = 0
      BY <1>5, <3>1, TimesCounts
    <3>3. Times(queue, s) = 0
      BY <2>2, TimesCounts
    <3> QED BY <2>2, <3>2, <3>3
  <2> QED BY <2>1, <2>2
<1> QED BY <1>5, <1>7, <1>8, <1>9

LEMMA TakenFacts ==
    ASSUME NEW S, NEW queue \in Seq(S), NEW n \in 0..Len(queue)
    PROVE  LET taken == SubSeq(queue, 1, n)
               rest == SubSeq(queue, n + 1, Len(queue))
           IN  /\ taken \in Seq(S) /\ rest \in Seq(S)
               /\ \A s : Times(queue, s) = 0 => s \notin Range(taken) /\ Times(rest, s) = 0
               /\ \A s : Times(queue, s) = 1 =>
                     IF s \in Range(taken) THEN Times(rest, s) = 0 ELSE Times(rest, s) = 1
<1> DEFINE taken == SubSeq(queue, 1, n)
           rest == SubSeq(queue, n + 1, Len(queue))
           m == Len(queue) - n
<1>1. /\ taken \in Seq(S) /\ Len(taken) = n /\ \A i \in 1..n : taken[i] = queue[i]
      /\ rest \in Seq(S) /\ Len(rest) = m /\ \A i \in 1..m : rest[i] = queue[n + i]
  OBVIOUS
<1> HIDE DEF taken, rest
<1>2. Len(queue) \in Nat /\ n \in Nat /\ m \in Nat /\ n + m = Len(queue)
  OBVIOUS
<1>3. ASSUME NEW s, s \in Range(taken) PROVE \E i \in 1..n : queue[i] = s
  <2>1. PICK i \in DOMAIN taken : taken[i] = s
    BY <1>3 DEF Range
  <2>2. i \in 1..n
    BY <1>1, <2>1
  <2> QED BY <1>1, <2>1, <2>2
<1>4. ASSUME NEW s, NEW i \in 1..n, queue[i] = s PROVE s \in Range(taken)
  <2>1. i \in DOMAIN taken /\ taken[i] = s
    BY <1>1, <1>4
  <2> QED BY <2>1, Zenon DEF Range
<1>5. ASSUME NEW s, s \in Range(rest) PROVE \E i \in 1..m : queue[n + i] = s
  <2>1. PICK i \in DOMAIN rest : rest[i] = s
    BY <1>5 DEF Range
  <2>2. i \in 1..m
    BY <1>1, <2>1
  <2> QED BY <1>1, <2>1, <2>2
<1>6. ASSUME NEW s, Times(queue, s) = 0 PROVE s \notin Range(taken) /\ Times(rest, s) = 0
  <2>1. \A i \in 1..Len(queue) : queue[i] # s
    BY <1>6, TimesCounts DEF Range
  <2>2. s \notin Range(taken)
    BY <1>2, <1>3, <2>1
  <2>3. s \notin Range(rest)
    BY <1>2, <1>5, <2>1
  <2> QED BY <1>1, <2>2, <2>3, TimesCounts
<1>7. ASSUME NEW s, Times(queue, s) = 1
      PROVE  IF s \in Range(taken) THEN Times(rest, s) = 0 ELSE Times(rest, s) = 1
  <2>1. PICK i \in 1..Len(queue) : queue[i] = s /\ \A j \in 1..Len(queue) : queue[j] = s => j = i
    BY <1>7, TimesCounts
  <2>2. CASE s \in Range(taken)
    <3>1. i \in 1..n
      BY <1>2, <1>3, <2>1, <2>2
    <3>2. s \notin Range(rest)
      BY <1>2, <1>5, <2>1, <3>1
    <3> QED BY <1>1, <2>2, <3>2, TimesCounts
  <2>3. CASE s \notin Range(taken)
    <3>1. i \notin 1..n
      BY <1>4, <2>1, <2>3
    <3>2. i - n \in 1..m
      BY <1>2, <3>1
    <3>3. rest[i - n] = s
      BY <1>1, <1>2, <2>1, <3>2
    <3>4. \A j \in 1..m : rest[j] = s => j = i - n
      BY <1>1, <1>2, <2>1
    <3>5. \E k \in 1..Len(rest) : rest[k] = s /\ \A j \in 1..Len(rest) : rest[j] = s => j = k
      BY <1>1, <3>2, <3>3, <3>4
    <3> QED BY <1>1, <2>3, <3>5, TimesCounts
  <2> QED BY <2>2, <2>3
<1> QED BY <1>1, <1>6, <1>7 DEF taken, rest

-----------------------------------------------------------------------------
(* The matcher: its books, as the steps of the distributor keep them *)

Ours == retrievers[sess]
Partials == [section : Wanted, bitset : SUBSET Blocks]
Takers == [pc : {"take"}, bit : Bits]
Workers == [pc : {"mux", "deliver", "close"}, bit : Bits, sections : Seq(Wanted),
            missing : SUBSET Wanted, last : BOOLEAN]

MatcherType ==
    /\ \E setup \in Setups : retrievers = setup[2]
    /\ sess \in DOMAIN retrievers
    /\ quit \subseteq 1..sess /\ kill \subseteq quit /\ closed \subseteq quit
    /\ stage \in [Stages -> Seq(Partials)] /\ process \in [Stages -> Seq(Partials)]
    /\ reqs \in [Slots -> Seq(Wanted)]
    /\ responses \in [Bits -> [Wanted -> {"none", "pending", "cached"}]]
    /\ d \in [requests : [Bits -> Seq(Wanted)], unallocs : SUBSET Bits, allocs : Int,
              shutdown : BOOLEAN, running : BOOLEAN]
    /\ retr \in [AllRetrievers -> {Idle, Gone} \cup Takers \cup Workers]
    /\ \A r \in AllRetrievers : retr[r] \in Workers => retr[r].missing \subseteq Range(retr[r].sections)
    /\ stray \in BOOLEAN

\* The retrievers of a session do nothing before it starts.
Waiting == \A r \in AllRetrievers : SessionOf(r) > sess => retr[r] = Idle

\* A retriever of the session that has been given a bit and took no section,
\* and one that has been given a section.
Takes(r, bit) == r \in Ours /\ retr[r].pc = "take" /\ retr[r].bit = bit
Carries(r, bit, s) == r \in Ours /\ retr[r] \in Workers /\ retr[r].bit = bit /\ s \in Range(retr[r].sections)
Offered(bit) == bit \in d.unallocs \/ \E r \in Ours : Takes(r, bit)

\* A bit is offered at most once, only with requests, and once it has some
\* until the session is closed.
TokenOK(bit) ==
    /\ \A r, q \in Ours : Takes(r, bit) /\ Takes(q, bit) => r = q
    /\ bit \in d.unallocs => \A r \in Ours : ~Takes(r, bit)
    /\ Offered(bit) => d.requests[bit] # <<>>
    /\ sess \notin quit /\ d.requests[bit] # <<>> => Offered(bit)
TokenInv == ~stray => \A bit \in Bits : TokenOK(bit)

\* An awaited section is queued and with no retriever, or with one and not queued.
PlaceOK(bit, s) ==
    IF responses[bit][s] = "pending"
    THEN \/ Times(d.requests[bit], s) = 1 /\ \A r \in Ours : ~Carries(r, bit, s)
         \/ /\ Times(d.requests[bit], s) = 0
            /\ \E r \in Ours : Carries(r, bit, s) /\ \A q \in Ours : Carries(q, bit, s) => q = r
    ELSE Times(d.requests[bit], s) = 0 /\ \A r \in Ours : ~Carries(r, bit, s)
PlaceInv == Live => \A bit \in Bits, s \in Wanted : PlaceOK(bit, s)

MatcherInv == MatcherType /\ Waiting /\ TokenInv /\ PlaceInv /\ AllocsCounted
LEMMA ServingFacts ==
    ASSUME MatcherType
    PROVE  /\ DOMAIN retrievers = 1..Len(retrievers) /\ Len(retrievers) \in Nat
           /\ sess \in Nat /\ sess \in 1..Len(retrievers)
           /\ IsFiniteSet(Ours) /\ Ours \subseteq AllRetrievers /\ None \notin AllRetrievers
           /\ \A r \in AllRetrievers : SessionOf(r) \in 1..Len(retrievers)
           /\ \A r \in AllRetrievers : r \in Ours <=> SessionOf(r) = sess
<1>1. PICK setup \in Setups : retrievers = setup[2]
  BY DEF MatcherType
<1>2. /\ retrievers \in Seq(Range(retrievers))
      /\ \A s \in DOMAIN retrievers : IsFiniteSet(retrievers[s]) /\ None \notin retrievers[s]
      /\ \A s, t \in DOMAIN retrievers : s # t => retrievers[s] \cap retrievers[t] = {}
  BY <1>1, MatcherAssumption
<1>3. DOMAIN retrievers = 1..Len(retrievers) /\ Len(retrievers) \in Nat
  BY <1>2
<1>4. sess \in DOMAIN retrievers
  BY DEF MatcherType
<1>5. sess \in Nat /\ sess \in 1..Len(retrievers)
  BY <1>3, <1>4
<1>6. IsFiniteSet(Ours) /\ Ours \subseteq AllRetrievers /\ None \notin AllRetrievers
  BY <1>2, <1>4 DEF Ours, AllRetrievers
<1>7. ASSUME NEW r \in AllRetrievers
      PROVE  SessionOf(r) \in 1..Len(retrievers) /\ (r \in Ours <=> SessionOf(r) = sess)
  <2>1. \E s \in DOMAIN retrievers : r \in retrievers[s]
    BY DEF AllRetrievers
  <2>2. SessionOf(r) \in DOMAIN retrievers /\ r \in retrievers[SessionOf(r)]
    BY <2>1, Zenon DEF SessionOf
  <2>3. r \in Ours => SessionOf(r) = sess
    BY <1>2, <1>4, <2>2 DEF Ours
  <2>4. SessionOf(r) = sess => r \in Ours
    BY <2>2, Zenon DEF Ours
  <2> QED BY <1>3, <2>2, <2>3, <2>4, Zenon
<1> QED BY <1>3, <1>5, <1>6, <1>7

LEMMA RetrieverStates ==
    ASSUME MatcherType, NEW r \in AllRetrievers
    PROVE  /\ retr[r].pc = "alloc" => retr[r] = Idle
           /\ retr[r].pc = "take" => retr[r] \in Takers /\ retr[r].bit \in Bits
           /\ retr[r].pc = "gone" => retr[r] = Gone
           /\ retr[r].pc \in {"mux", "deliver", "close"} <=> retr[r] \in Workers
           /\ retr[r] \in Workers =>
                 /\ retr[r].bit \in Bits /\ retr[r].sections \in Seq(Wanted)
                 /\ retr[r].missing \in SUBSET Range(retr[r].sections)
                 /\ retr[r].missing \in SUBSET Wanted
           /\ retr[r] \in Workers <=> "sections" \in DOMAIN retr[r]
           /\ retr[r].pc \in {"alloc", "take", "gone", "mux", "deliver", "close"}
<1>1. retr[r] \in {Idle, Gone} \cup Takers \cup Workers
  BY DEF MatcherType
<1>2. retr[r] \in Workers => retr[r].missing \subseteq Range(retr[r].sections)
  BY DEF MatcherType
<1>3. CASE retr[r] = Idle
  BY <1>3 DEF Idle, Takers, Workers
<1>4. CASE retr[r] = Gone
  BY <1>4 DEF Gone, Takers, Workers
<1>5. CASE retr[r] \in Takers
  BY <1>5 DEF Takers, Workers
<1>6. CASE retr[r] \in Workers
  BY <1>2, <1>6 DEF Takers, Workers
<1> QED BY <1>1, <1>3, <1>4, <1>5, <1>6

LEMMA GivenFixed ==
    ASSUME UNCHANGED given
    PROVE  /\ Bits' = Bits /\ Slots' = Slots /\ Stages' = Stages /\ AllRetrievers' = AllRetrievers
           /\ filters' = filters /\ retrievers' = retrievers /\ Takers' = Takers /\ Workers' = Workers
           /\ \A r : SessionOf(r)' = SessionOf(r)
<1>1. filters' = filters /\ retrievers' = retrievers
  BY DEF given
<1>2. Stages' = Stages
  BY <1>1 DEF Stages
<1>3. Slots' = Slots
  BY <1>1, <1>2 DEF Slots
<1>4. Bits' = Bits
  BY <1>3 DEF Bits
<1> QED BY <1>1, <1>2, <1>3, <1>4 DEF AllRetrievers, SessionOf, Takers, Workers

LEMMA WantedFinite ==
    /\ Wanted \subseteq Int
    /\ \A S \in SUBSET Wanted : IsFiniteSet(S)
<1>1. SectionOf(begin) \in Int /\ SectionOf(end) \in Int
  BY MatcherAssumption DEF SectionOf
<1>2. IsFiniteSet(Wanted) /\ Wanted \subseteq Int
  BY <1>1, FS_Interval DEF Wanted
<1> QED BY <1>2, FS_Subset
\* What an action of the distributor does to a queue: it is replaced, and, if
\* need be, its bit is kept for a retriever or given to one that waits.
Assigned(bit, queue, due, others, needed) ==
    /\ d'.requests = [d.requests EXCEPT ![bit] = queue]
    /\ \/ /\ d'.unallocs = IF needed THEN d.unallocs \cup {bit} ELSE d.unallocs
          /\ d'.allocs = due /\ retr' = others
       \/ /\ needed
          /\ d'.unallocs = d.unallocs /\ d'.allocs = due + 1
          /\ \E q \in AllRetrievers :
                /\ SessionOf(q) <= sess /\ retr[q] = Idle /\ (stray' \/ q \in Ours)
                /\ retr' = [others EXCEPT ![q] = [pc |-> "take", bit |-> bit]]

DistributorType == [requests : [Bits -> Seq(Wanted)], unallocs : SUBSET Bits, allocs : Int,
                    shutdown : BOOLEAN, running : BOOLEAN]

LEMMA OneMoreAlloc ==
    ASSUME NEW dist \in DistributorType
    PROVE  LET more == [dist EXCEPT !.allocs = @ + 1]
           IN  /\ more \in DistributorType /\ more.requests = dist.requests /\ more.unallocs = dist.unallocs
               /\ more.allocs = dist.allocs + 1 /\ more.running = dist.running /\ more.shutdown = dist.shutdown
<1>1. dist.allocs + 1 \in Int
  BY DEF DistributorType
<1> QED BY <1>1 DEF DistributorType

LEMMA AssignFacts ==
    ASSUME MatcherType, NEW dist \in DistributorType, NEW bit \in Bits, NEW got \in assign(dist, bit)
    PROVE  \/ got = <<[dist EXCEPT !.unallocs = @ \cup {bit}], None>>
           \/ \E q \in AllRetrievers :
                 /\ SessionOf(q) <= sess /\ retr[q] = Idle /\ q # None
                 /\ (OfAnother(q) \/ q \in Ours)
                 /\ got = <<[dist EXCEPT !.allocs = @ + 1], q>>
<1>1. CASE got = <<[dist EXCEPT !.unallocs = @ \cup {bit}], None>>
  BY <1>1
<1>2. ASSUME NEW q \in AllRetrievers, retr[q].pc = "alloc", SessionOf(q) <= sess,
             got = <<[dist EXCEPT !.allocs = @ + 1], q>>
      PROVE  /\ retr[q] = Idle /\ q # None /\ (OfAnother(q) \/ q \in Ours)
  <2>1. retr[q] = Idle
    BY <1>2, RetrieverStates
  <2>2. q # None
    BY ServingFacts
  <2>3. OfAnother(q) \/ q \in Ours
    BY <2>2, ServingFacts DEF OfAnother
  <2> QED BY <2>1, <2>2, <2>3
<1>3. got \in {<<[dist EXCEPT !.allocs = @ + 1], r>> :
             r \in {q \in AllRetrievers : retr[q].pc = "alloc" /\ SessionOf(q) <= sess}}
         => \E q \in AllRetrievers : retr[q].pc = "alloc" /\ SessionOf(q) <= sess
                                      /\ got = <<[dist EXCEPT !.allocs = @ + 1], q>>
  OBVIOUS
<1> QED BY <1>1, <1>2, <1>3, Zenon DEF assign

(* The queue a bit is left with, and whether it is offered. *)
LEMMA MaybeAssignFacts ==
    ASSUME MatcherType, NEW bit \in Bits, NEW queue \in Seq(Wanted), NEW needed \in BOOLEAN,
           NEW others, NEW met,
           MaybeAssign([d EXCEPT !.requests[bit] = queue], bit, needed, others, met)
    PROVE  /\ Assigned(bit, queue, d.allocs, others, needed)
           /\ d' \in DistributorType /\ stray' \in BOOLEAN
           /\ d'.running = d.running /\ d'.shutdown = d.shutdown
           /\ stray \/ OfAnother(met) => stray'
<1> DEFINE base == [d EXCEPT !.requests[bit] = queue]
<1>1. d \in DistributorType /\ stray \in BOOLEAN
  BY DEF MatcherType, DistributorType
<1>2. /\ base \in DistributorType
      /\ base.requests = [d.requests EXCEPT ![bit] = queue] /\ base.unallocs = d.unallocs
      /\ base.allocs = d.allocs /\ base.running = d.running /\ base.shutdown = d.shutdown
  BY <1>1 DEF DistributorType
<1> HIDE DEF base
<1>3. PICK got \in IF needed THEN assign(base, bit) ELSE {<<base, None>>} :
        /\ d' = got[1]
        /\ retr' = IF got[2] = None THEN others
                   ELSE [others EXCEPT ![got[2]] = [pc |-> "take", bit |-> bit]]
        /\ stray' = (stray \/ OfAnother(met) \/ OfAnother(got[2]))
  BY Zenon DEF MaybeAssign, base
<1>4. stray' \in BOOLEAN /\ (stray \/ OfAnother(met) => stray') /\ (OfAnother(got[2]) => stray')
  BY <1>1, <1>3 DEF OfAnother
<1>5. CASE ~needed
  <2>1. got = <<base, None>>
    BY <1>3, <1>5
  <2>2. d' = base /\ retr' = others
    BY <1>3, <2>1
  <2> QED BY <1>2, <1>4, <1>5, <2>2 DEF Assigned
<1>6. CASE needed /\ got = <<[base EXCEPT !.unallocs = @ \cup {bit}], None>>
  <2>1. d' = [base EXCEPT !.unallocs = @ \cup {bit}] /\ retr' = others
    BY <1>3, <1>6
  <2>2. /\ d' \in DistributorType /\ d'.requests = base.requests /\ d'.unallocs = base.unallocs \cup {bit}
        /\ d'.allocs = base.allocs /\ d'.running = base.running /\ d'.shutdown = base.shutdown
    BY <1>2, <2>1 DEF DistributorType
  <2> QED BY <1>2, <1>4, <1>6, <2>1, <2>2 DEF Assigned
<1>7. ASSUME needed, NEW q \in AllRetrievers, SessionOf(q) <= sess, retr[q] = Idle, q # None,
             OfAnother(q) \/ q \in Ours, got = <<[base EXCEPT !.allocs = @ + 1], q>>
      PROVE  Assigned(bit, queue, d.allocs, others, needed)
             /\ d' \in DistributorType /\ d'.running = d.running /\ d'.shutdown = d.shutdown
  <2>1. d' = [base EXCEPT !.allocs = @ + 1] /\ got[2] = q
    BY <1>3, <1>7
  <2>2. retr' = [others EXCEPT ![q] = [pc |-> "take", bit |-> bit]]
    BY <1>3, <1>7, <2>1
  <2>3. /\ d' \in DistributorType /\ d'.requests = base.requests /\ d'.unallocs = base.unallocs
        /\ d'.allocs = base.allocs + 1 /\ d'.running = base.running /\ d'.shutdown = base.shutdown
    BY <1>2, <2>1, OneMoreAlloc
  <2>4. stray' \/ q \in Ours
    BY <1>4, <1>7, <2>1
  <2>5. /\ d'.requests = [d.requests EXCEPT ![bit] = queue] /\ d'.unallocs = d.unallocs
        /\ d'.allocs = d.allocs + 1
    BY <1>2, <2>3
  <2>6. Assigned(bit, queue, d.allocs, others, needed)
    BY <1>7, <2>2, <2>4, <2>5 DEF Assigned
  <2> QED BY <1>2, <2>3, <2>6
<1>8. needed => got \in assign(base, bit)
  BY <1>3
<1>9. CASE needed /\ got # <<[base EXCEPT !.unallocs = @ \cup {bit}], None>>
  <2>1. PICK q \in AllRetrievers : /\ SessionOf(q) <= sess /\ retr[q] = Idle /\ q # None
                                   /\ (OfAnother(q) \/ q \in Ours)
                                   /\ got = <<[base EXCEPT !.allocs = @ + 1], q>>
    BY <1>2, <1>8, <1>9, AssignFacts
  <2> QED BY <1>4, <1>7, <1>9, <2>1
<1> QED BY <1>5, <1>6, <1>9

LEMMA HandBackFacts ==
    ASSUME MatcherType, NEW r \in AllRetrievers, retr[r] \in Workers, NEW after, HandBack(r, after),
           NEW bit, bit = retr[r].bit, NEW more, more = retr[r].missing
    PROVE  /\ \E queue \in Inserted(d.requests[bit], more) :
                  Assigned(bit, queue, d.allocs - 1, after, more # {} /\ d.requests[bit] = <<>>)
           /\ d' \in DistributorType /\ stray' \in BOOLEAN
           /\ stray \/ OfAnother(r) => stray'
<1>1. PICK queue \in Inserted(d.requests[bit], more) :
        LET back == [d EXCEPT !.requests[bit] = queue, !.allocs = @ - 1]
            needed == more # {} /\ Len(queue) = Cardinality(more)
        IN  \E got \in IF needed THEN assign(back, bit) ELSE {<<back, None>>} :
                LET dist == got[1]
                IN  /\ d' = [dist EXCEPT !.running = ~(dist.allocs = 0 /\ dist.shutdown)]
                    /\ retr' = IF got[2] = None THEN after
                               ELSE [after EXCEPT ![got[2]] = [pc |-> "take", bit |-> bit]]
                    /\ stray' = (stray \/ OfAnother(r) \/ OfAnother(got[2]))
  BY Zenon DEF HandBack, Requeued
<1> DEFINE base == [d EXCEPT !.requests[bit] = queue, !.allocs = @ - 1]
           needed == more # {} /\ Len(queue) = Cardinality(more)
<1>2. PICK got \in IF needed THEN assign(base, bit) ELSE {<<base, None>>} :
        /\ d' = [got[1] EXCEPT !.running = ~(got[1].allocs = 0 /\ got[1].shutdown)]
        /\ retr' = IF got[2] = None THEN after
                   ELSE [after EXCEPT ![got[2]] = [pc |-> "take", bit |-> bit]]
        /\ stray' = (stray \/ OfAnother(r) \/ OfAnother(got[2]))
  BY <1>1, Zenon
<1>3. d \in DistributorType /\ stray \in BOOLEAN
  BY DEF MatcherType, DistributorType
<1>4. bit \in Bits /\ more \in SUBSET Wanted /\ d.requests[bit] \in Seq(Wanted)
  BY <1>3, RetrieverStates DEF DistributorType
<1>5. queue \in Seq(Wanted) /\ (needed <=> more # {} /\ d.requests[bit] = <<>>)
  BY <1>1, <1>4, InsertedFacts, WantedFinite
<1>6. /\ base \in DistributorType
      /\ base.requests = [d.requests EXCEPT ![bit] = queue] /\ base.unallocs = d.unallocs
      /\ base.allocs = d.allocs - 1 /\ base.running = d.running /\ base.shutdown = d.shutdown
  <2>1. d.allocs - 1 \in Int
    BY <1>3 DEF DistributorType
  <2> QED BY <1>3, <1>4, <1>5, <2>1 DEF DistributorType
<1>7. stray' \in BOOLEAN /\ (stray \/ OfAnother(r) => stray') /\ (OfAnother(got[2]) => stray')
  BY <1>2, <1>3 DEF OfAnother
<1> HIDE DEF base, needed
<1>8. ASSUME NEW dist \in DistributorType, d' = [dist EXCEPT !.running = ~(dist.allocs = 0 /\ dist.shutdown)]
      PROVE  d' \in DistributorType /\ d'.requests = dist.requests /\ d'.unallocs = dist.unallocs
             /\ d'.allocs = dist.allocs
  BY <1>8 DEF DistributorType
<1> DEFINE Goal == Assigned(bit, queue, d.allocs - 1, after, more # {} /\ d.requests[bit] = <<>>)
                   /\ d' \in DistributorType
<1> SUFFICES Goal
  BY <1>1, <1>7
<1>9. CASE ~needed
  <2>1. got[1] = base /\ got[2] = None
    BY <1>2, <1>9
  <2>2. d' = [base EXCEPT !.running = ~(base.allocs = 0 /\ base.shutdown)] /\ retr' = after
    BY <1>2, <2>1
  <2>3. d' \in DistributorType /\ d'.requests = base.requests /\ d'.unallocs = base.unallocs
        /\ d'.allocs = base.allocs
    BY <1>6, <1>8, <2>2
  <2> QED BY <1>5, <1>6, <1>9, <2>2, <2>3 DEF Assigned
<1>10. CASE needed
  <2>1. got \in assign(base, bit)
    BY <1>2, <1>10
  <2>2. CASE got = <<[base EXCEPT !.unallocs = @ \cup {bit}], None>>
    <3> DEFINE dist == [base EXCEPT !.unallocs = @ \cup {bit}]
    <3>1. /\ dist \in DistributorType /\ dist.requests = base.requests
          /\ dist.unallocs = base.unallocs \cup {bit} /\ dist.allocs = base.allocs
      BY <1>4, <1>6 DEF DistributorType
    <3>2. got[1] = dist /\ got[2] = None
      BY <2>2
    <3> HIDE DEF dist
    <3>3. d' = [dist EXCEPT !.running = ~(dist.allocs = 0 /\ dist.shutdown)] /\ retr' = after
      BY <1>2, <3>2
    <3>4. d' \in DistributorType /\ d'.requests = dist.requests /\ d'.unallocs = dist.unallocs
          /\ d'.allocs = dist.allocs
      BY <1>8, <3>1, <3>3
    <3> QED BY <1>5, <1>6, <1>10, <3>1, <3>3, <3>4 DEF Assigned
  <2>3. ASSUME NEW q \in AllRetrievers, SessionOf(q) <= sess, retr[q] = Idle, q # None,
               OfAnother(q) \/ q \in Ours, got = <<[base EXCEPT !.allocs = @ + 1], q>>
        PROVE  Goal
    <3> DEFINE dist == [base EXCEPT !.allocs = @ + 1]
    <3>1. /\ dist \in DistributorType /\ dist.requests = base.requests
          /\ dist.unallocs = base.unallocs /\ dist.allocs = base.allocs + 1
      BY <1>6, OneMoreAlloc
    <3>2. got[1] = dist /\ got[2] = q
      BY <2>3
    <3> HIDE DEF dist
    <3>3. /\ d' = [dist EXCEPT !.running = ~(dist.allocs = 0 /\ dist.shutdown)]
          /\ retr' = [after EXCEPT ![q] = [pc |-> "take", bit |-> bit]]
      BY <1>2, <2>3, <3>2
    <3>4. d' \in DistributorType /\ d'.requests = dist.requests /\ d'.unallocs = dist.unallocs
          /\ d'.allocs = dist.allocs
      BY <1>8, <3>1, <3>3
    <3>5. stray' \/ q \in Ours
      BY <1>7, <2>3, <3>2
    <3>6. /\ d'.requests = [d.requests EXCEPT ![bit] = queue] /\ d'.unallocs = d.unallocs
          /\ d'.allocs = d.allocs - 1 + 1
      BY <1>6, <3>1, <3>4
    <3> QED BY <1>5, <1>10, <2>3, <3>3, <3>4, <3>5, <3>6 DEF Assigned
  <2>4. CASE got # <<[base EXCEPT !.unallocs = @ \cup {bit}], None>>
    <3>1. PICK q \in AllRetrievers : /\ SessionOf(q) <= sess /\ retr[q] = Idle /\ q # None
                                     /\ (OfAnother(q) \/ q \in Ours)
                                     /\ got = <<[base EXCEPT !.allocs = @ + 1], q>>
      BY <1>4, <1>6, <2>1, <2>4, AssignFacts
    <3> QED BY <2>3, <3>1
  <2> QED BY <2>2, <2>4
<1> QED BY <1>9, <1>10
\* The same with the retrievers as they are then: R, at most the one that came
\* to the distributor, are in state new, and G, at most one, are given the bit.
Given(bit, queue, due, R, new, needed, G) ==
    /\ R \subseteq AllRetrievers /\ G \subseteq AllRetrievers /\ G \cap R = {}
    /\ \A p, q \in G : p = q
    /\ \A q \in G : SessionOf(q) <= sess /\ retr[q] = Idle /\ (stray' \/ q \in Ours)
    /\ retr' = [x \in AllRetrievers |-> IF x \in G THEN [pc |-> "take", bit |-> bit]
                                        ELSE IF x \in R THEN new ELSE retr[x]]
    /\ d'.requests = [d.requests EXCEPT ![bit] = queue]
    /\ d'.unallocs = IF needed /\ G = {} THEN d.unallocs \cup {bit} ELSE d.unallocs
    /\ d'.allocs = IF G = {} THEN due ELSE due + 1
    /\ G # {} => needed

\* The retrievers, those of R in state new.
Moved(R, new) == [x \in AllRetrievers |-> IF x \in R THEN new ELSE retr[x]]

LEMMA AssignedGives ==
    ASSUME MatcherType, NEW bit, NEW queue, NEW due, NEW needed \in BOOLEAN,
           NEW R \in SUBSET AllRetrievers, NEW new, \A r \in R : retr[r] # Idle,
           NEW others, others = Moved(R, new),
           Assigned(bit, queue, due, others, needed)
    PROVE  \E G \in SUBSET AllRetrievers : Given(bit, queue, due, R, new, needed, G)
<1>1. CASE /\ d'.unallocs = IF needed THEN d.unallocs \cup {bit} ELSE d.unallocs
           /\ d'.allocs = due /\ retr' = others
  <2>1. Given(bit, queue, due, R, new, needed, {})
    BY <1>1 DEF Given, Assigned, Moved
  <2> QED BY <2>1
<1>2. ASSUME needed, d'.unallocs = d.unallocs, d'.allocs = due + 1,
             NEW q \in AllRetrievers, SessionOf(q) <= sess, retr[q] = Idle, stray' \/ q \in Ours,
             retr' = [others EXCEPT ![q] = [pc |-> "take", bit |-> bit]]
      PROVE  Given(bit, queue, due, R, new, needed, {q})
  <2>1. q \notin R
    BY <1>2
  <2>2. retr' = [x \in AllRetrievers |-> IF x \in {q} THEN [pc |-> "take", bit |-> bit]
                                        ELSE IF x \in R THEN new ELSE retr[x]]
    BY <1>2 DEF Moved
  <2> QED BY <1>2, <2>1, <2>2 DEF Given, Assigned, Moved
<1> QED BY <1>1, <1>2, Zenon DEF Assigned

\* The retrievers keep their types, and those of later sessions wait.
LEMMA GivenType ==
    ASSUME MatcherType, Waiting, UNCHANGED given, sess' = sess,
           NEW bit \in Bits, NEW queue, NEW due, NEW R, NEW new, NEW needed, NEW G,
           Given(bit, queue, due, R, new, needed, G),
           R # {} => new \in {Idle, Gone} \cup Takers \cup Workers,
           R # {} /\ new \in Workers => new.missing \subseteq Range(new.sections),
           \A r \in R : retr[r] # Idle
    PROVE  /\ retr' \in [AllRetrievers' -> ({Idle, Gone} \cup Takers \cup Workers)']
           /\ \A r \in AllRetrievers' : retr'[r] \in Workers' => retr'[r].missing \subseteq Range(retr'[r].sections)
           /\ Waiting'
<1> DEFINE taken == [pc |-> "take", bit |-> bit]
<1>1. taken \in Takers /\ taken \notin Workers
  BY DEF Takers, Workers
<1>2. /\ retr \in [AllRetrievers -> {Idle, Gone} \cup Takers \cup Workers]
      /\ \A r \in AllRetrievers : retr[r] \in Workers => retr[r].missing \subseteq Range(retr[r].sections)
  BY DEF MatcherType
<1> HIDE DEF taken
<1>3. /\ retr' = [x \in AllRetrievers |-> IF x \in G THEN taken ELSE IF x \in R THEN new ELSE retr[x]]
      /\ \A q \in G : SessionOf(q) <= sess
  BY DEF Given, taken
<1>4. retr' \in [AllRetrievers -> {Idle, Gone} \cup Takers \cup Workers]
  BY <1>1, <1>2, <1>3
<1>5. \A r \in AllRetrievers : retr'[r] \in Workers => retr'[r].missing \subseteq Range(retr'[r].sections)
  BY <1>1, <1>2, <1>3
<1>6. ASSUME NEW r \in AllRetrievers, SessionOf(r) > sess PROVE retr'[r] = Idle
  <2>1. retr[r] = Idle
    BY <1>6 DEF Waiting
  <2>2. SessionOf(r) \in Nat /\ sess \in Nat
    BY ServingFacts
  <2>3. r \notin G
    BY <1>3, <1>6, <2>2
  <2> QED BY <1>3, <2>1, <2>3
<1>7. Idle' = Idle /\ Gone' = Gone
  BY DEF Idle, Gone
<1> QED BY <1>4, <1>5, <1>6, <1>7, GivenFixed DEF Waiting

LEMMA GivenTokens ==
    ASSUME MatcherType, UNCHANGED given, sess' = sess, quit \subseteq quit',
           \A b \in Bits : TokenOK(b), ~stray',
           NEW bit \in Bits, NEW queue, NEW due, NEW R, NEW new, NEW needed \in BOOLEAN, NEW G,
           Given(bit, queue, due, R, new, needed, G),
           \A r \in R : retr[r].pc = "take" => retr[r].bit = bit,
           R # {} => new.pc # "take",
           needed => /\ bit \notin d.unallocs /\ \A x \in Ours \ R : ~Takes(x, bit)
                     /\ queue # <<>>,
           bit \in d.unallocs \/ (\E x \in Ours \ R : Takes(x, bit)) => queue # <<>>,
           sess \notin quit' /\ queue # <<>> =>
               needed \/ bit \in d.unallocs \/ \E x \in Ours \ R : Takes(x, bit)
    PROVE  TokenInv'
<1> DEFINE taken == [pc |-> "take", bit |-> bit]
<1>1. /\ Bits' = Bits /\ Ours' = Ours
  BY GivenFixed DEF Ours
<1>2. /\ R \subseteq AllRetrievers /\ G \subseteq AllRetrievers /\ G \cap R = {}
      /\ \A p, q \in G : p = q
      /\ \A q \in G : q \in Ours /\ retr[q].pc = "alloc"
  BY DEF Given, Idle
<1>3. \A x \in Ours : retr'[x] = IF x \in G THEN taken ELSE IF x \in R THEN new ELSE retr[x]
  BY ServingFacts DEF Given
<1>4. \A x \in Ours, b \in Bits : Takes(x, b)' <=> (IF x \in G THEN b = bit ELSE x \notin R /\ Takes(x, b))
  BY <1>1, <1>2, <1>3 DEF Takes
<1>5. \A x \in R, b \in Bits : Takes(x, b) => b = bit
  BY DEF Takes
<1>6. \A x \in G, b \in Bits : ~Takes(x, b)
  BY <1>2 DEF Takes
<1>7. d.requests \in [Bits -> Seq(Wanted)]
  BY DEF MatcherType
<1>8. \A b \in Bits : d'.requests[b] = IF b = bit THEN queue ELSE d.requests[b]
  BY <1>7 DEF Given
<1>9. d'.unallocs = (IF needed /\ G = {} THEN d.unallocs \cup {bit} ELSE d.unallocs) /\ (G # {} => needed)
  BY DEF Given
<1> SUFFICES ASSUME NEW b \in Bits PROVE TokenOK(b)'
  BY <1>1 DEF TokenInv
<1>10. TokenOK(b)
  OBVIOUS
<1> HIDE DEF taken
<1>11. CASE b # bit
  <2>1. \A x \in Ours : Takes(x, b)' <=> Takes(x, b)
    BY <1>4, <1>5, <1>6, <1>11
  <2>2. d'.requests[b] = d.requests[b] /\ (b \in d'.unallocs <=> b \in d.unallocs)
    BY <1>8, <1>9, <1>11
  <2>3. Offered(b)' <=> Offered(b)
    BY <1>1, <2>1, <2>2, Zenon DEF Offered
  <2> QED BY <1>1, <1>10, <2>1, <2>2, <2>3 DEF TokenOK
<1>12. CASE b = bit
  <2>1. \A x \in Ours : Takes(x, b)' <=> x \in G \/ (x \notin R /\ Takes(x, b))
    BY <1>4, <1>6, <1>12
  <2>2. d'.requests[b] = queue
    BY <1>8, <1>12
  <2>3. \A x, y \in Ours : Takes(x, b)' /\ Takes(y, b)' => x = y
    BY <1>2, <1>9, <1>10, <1>12, <2>1 DEF TokenOK
  <2>4. b \in d'.unallocs => \A x \in Ours : ~Takes(x, b)'
    BY <1>9, <1>10, <1>12, <2>1 DEF TokenOK
  <2>5. Offered(b)' => queue # <<>>
    BY <1>1, <1>2, <1>9, <1>12, <2>1 DEF Offered
  <2>6. sess \notin quit' /\ queue # <<>> => Offered(b)'
    <3> SUFFICES ASSUME sess \notin quit', queue # <<>>
                 PROVE  b \in d'.unallocs \/ \E x \in Ours : Takes(x, b)'
      BY <1>1, Zenon DEF Offered
    <3>1. CASE needed
      BY <1>2, <1>9, <1>12, <2>1, <3>1
    <3>2. CASE ~needed
      BY <1>9, <1>12, <2>1, <3>2
    <3> QED BY <3>1, <3>2
  <2> QED BY <1>1, <1>12, <2>2, <2>3, <2>4, <2>5, <2>6, Zenon DEF TokenOK
<1> QED BY <1>11, <1>12

LEMMA GivenCarries ==
    ASSUME MatcherType, UNCHANGED given, sess' = sess,
           NEW bit, NEW queue, NEW due, NEW R, NEW new, NEW needed, NEW G,
           Given(bit, queue, due, R, new, needed, G)
    PROVE  \A x \in Ours : \A b, s :
              Carries(x, b, s)' <=> IF x \in R THEN new \in Workers /\ new.bit = b /\ s \in Range(new.sections)
                                  ELSE Carries(x, b, s)
<1>1. Ours' = Ours /\ Workers' = Workers
  BY GivenFixed DEF Ours
<1>2. \A x \in Ours : retr'[x] = IF x \in G THEN [pc |-> "take", bit |-> bit]
                                   ELSE IF x \in R THEN new ELSE retr[x]
  BY ServingFacts DEF Given
<1>3. \A q \in G : retr[q] \notin Workers /\ q \notin R
  BY DEF Given, Idle, Workers
<1>4. [pc |-> "take", bit |-> bit] \notin Workers
  BY DEF Workers
<1> TAKE x \in Ours
<1> TAKE b, s
<1>5. CASE x \in G
  BY <1>1, <1>2, <1>3, <1>4, <1>5 DEF Carries
<1>6. CASE x \notin G
  BY <1>1, <1>2, <1>6 DEF Carries
<1> QED BY <1>5, <1>6

Working(state) == state.pc \notin {"alloc", "gone"}
Busy == {r \in Ours : Working(retr[r])}

LEMMA GivenCount ==
    ASSUME MatcherType, UNCHANGED given, sess' = sess, kill' = kill, ~stray', ~stray,
           d'.running => d.running,
           AllocsCounted, d.allocs \in Int,
           NEW bit, NEW queue, NEW due, NEW R, NEW new, NEW needed, NEW G,
           Given(bit, queue, due, R, new, needed, G),
           \/ R = {} /\ due = d.allocs
           \/ \E r \in Ours : /\ R = {r} /\ Working(retr[r])
                              /\ due = IF Working(new) THEN d.allocs ELSE d.allocs - 1
    PROVE  AllocsCounted'
<1>1. Ours' = Ours /\ IsFiniteSet(Ours)
  BY GivenFixed, ServingFacts DEF Ours
<1> SUFFICES ASSUME d.running, sess \notin kill
             PROVE  d'.allocs = Cardinality(Busy')
  BY <1>1 DEF AllocsCounted, Busy, Ours, Working
<1>2. d.allocs = Cardinality(Busy)
  BY DEF AllocsCounted, Busy, Ours, Working
<1>3. /\ G \subseteq Ours /\ G \cap R = {} /\ \A q \in G : ~Working(retr[q])
      /\ \A p, q \in G : p = q
  BY DEF Given, Idle, Working
<1>4. \A x \in Ours : retr'[x] = IF x \in G THEN [pc |-> "take", bit |-> bit]
                                   ELSE IF x \in R THEN new ELSE retr[x]
  BY ServingFacts DEF Given
<1>5. Working([pc |-> "take", bit |-> bit])
  BY DEF Working
<1>6. \A x \in Ours : x \in Busy' <=> x \in G \/ (IF x \in R THEN Working(new) ELSE x \in Busy)
  <2>1. \A x \in Ours : x \in Busy' <=> Working(retr'[x])
    BY <1>1 DEF Busy, Working
  <2>2. \A x \in Ours : x \in Busy <=> Working(retr[x])
    BY DEF Busy
  <2> QED BY <1>3, <1>4, <1>5, <2>1, <2>2, Zenon
<1>7. Busy \subseteq Ours /\ Busy' \subseteq Ours
  BY <1>1 DEF Busy
<1>8. IsFiniteSet(Busy)
  BY <1>1, <1>7, FS_Subset
<1> DEFINE kept == {x \in Ours : IF x \in R THEN Working(new) ELSE x \in Busy}
<1>9. IsFiniteSet(kept) /\ Cardinality(kept) = due
  <2>1. CASE R = {} /\ due = d.allocs
    <3>1. kept = Busy
      BY <1>7, <2>1
    <3> QED BY <1>2, <1>8, <2>1, <3>1
  <2>2. ASSUME NEW r \in Ours, R = {r}, Working(retr[r]),
               due = IF Working(new) THEN d.allocs ELSE d.allocs - 1
        PROVE  IsFiniteSet(kept) /\ Cardinality(kept) = due
    <3>1. r \in Busy
      BY <2>2 DEF Busy
    <3>2. CASE Working(new)
      <4>1. kept = Busy
        BY <1>7, <2>2, <3>1, <3>2
      <4> QED BY <1>2, <1>8, <2>2, <3>2, <4>1
    <3>3. CASE ~Working(new)
      <4>1. kept = Busy \ {r}
        BY <1>7, <2>2, <3>3
      <4> QED BY <1>2, <1>8, <2>2, <3>1, <3>3, <4>1, FS_RemoveElement
    <3> QED BY <3>2, <3>3
  <2> QED BY <2>1, <2>2
<1>10. Busy' = kept \cup G
  BY <1>3, <1>6, <1>7
<1>11. G \cap kept = {}
  BY <1>3 DEF Busy
<1> HIDE DEF kept
<1>12. d'.allocs = IF G = {} THEN due ELSE due + 1
  BY DEF Given
<1>13. CASE G = {}
  BY <1>9, <1>10, <1>12, <1>13
<1>14. ASSUME NEW q \in G PROVE d'.allocs = Cardinality(Busy')
  <2>1. G = {q} /\ q \notin kept
    BY <1>3, <1>11, <1>14
  <2> QED BY <1>9, <1>10, <1>12, <2>1, FS_AddElement
<1> QED BY <1>13, <1>14
-----------------------------------------------------------------------------
(* Steps that leave the books as they are *)

LEMMA BooksKept ==
    ASSUME MatcherInv, UNCHANGED <<given, sess, stray>>, quit \subseteq quit', kill \subseteq kill',
           sess \notin quit' => responses' = responses,
           d'.requests = d.requests, d'.unallocs = d.unallocs, d'.allocs = d.allocs, d'.running => d.running,
           \A x \in Ours : retr'[x].pc = "take" => retr'[x] = retr[x],
           sess \notin quit' => \A x \in Ours : retr[x].pc = "take" => retr'[x] = retr[x],
           sess \notin quit' => \A x \in Ours : \A b, s : Carries(x, b, s)' <=> Carries(x, b, s),
           sess \notin kill' => \A x \in Ours : Working(retr'[x]) <=> Working(retr[x])
    PROVE  TokenInv' /\ PlaceInv' /\ AllocsCounted'
<1>1. Bits' = Bits /\ Ours' = Ours /\ UNCHANGED given
  BY GivenFixed DEF Ours
<1>2. TokenInv'
  <2> SUFFICES ASSUME ~stray, NEW b \in Bits PROVE TokenOK(b)'
    BY <1>1 DEF TokenInv
  <2>1. TokenOK(b)
    BY DEF MatcherInv, TokenInv
  <2>2. \A x \in Ours : Takes(x, b)' => Takes(x, b)
    BY <1>1 DEF Takes
  <2>3. sess \notin quit' => \A x \in Ours : Takes(x, b) => Takes(x, b)'
    BY <1>1 DEF Takes
  <2>4. Offered(b)' => Offered(b)
    BY <1>1, <2>2 DEF Offered
  <2>5. sess \notin quit' /\ Offered(b) => Offered(b)'
    BY <1>1, <2>3 DEF Offered
  <2> QED BY <1>1, <2>1, <2>2, <2>4, <2>5 DEF TokenOK
<1>3. PlaceInv'
  <2> SUFFICES ASSUME Live', NEW b \in Bits, NEW s \in Wanted PROVE PlaceOK(b, s)'
    BY <1>1 DEF PlaceInv
  <2>1. Live /\ sess \notin quit'
    BY DEF Live
  <2>2. PlaceOK(b, s)
    BY <2>1 DEF MatcherInv, PlaceInv
  <2>3. \A x \in Ours : Carries(x, b, s)' <=> Carries(x, b, s)
    BY <2>1
  <2> QED BY <1>1, <2>1, <2>2, <2>3 DEF PlaceOK
<1>4. AllocsCounted'
  <2> SUFFICES ASSUME d.running, sess \notin kill', ~stray PROVE d.allocs = Cardinality(Busy')
    BY <1>1 DEF AllocsCounted, Busy, Ours, Working
  <2>1. d.allocs = Cardinality(Busy)
    BY DEF MatcherInv, AllocsCounted, Busy, Ours, Working
  <2>2. Busy' = Busy
    BY <1>1 DEF Busy
  <2> QED BY <2>1, <2>2
<1> QED BY <1>2, <1>3, <1>4

(* A retriever that has started goes on to another state. *)
LEMMA OneMoves ==
    ASSUME MatcherType, Waiting, UNCHANGED <<given, sess>>,
           NEW r \in AllRetrievers, retr[r] # Idle \/ SessionOf(r) \in quit,
           NEW new \in {Idle, Gone} \cup Takers \cup Workers,
           new \in Workers => new.missing \subseteq Range(new.sections),
           retr' = [retr EXCEPT ![r] = new]
    PROVE  /\ retr' \in [AllRetrievers' -> ({Idle, Gone} \cup Takers \cup Workers)']
           /\ \A x \in AllRetrievers' : retr'[x] \in Workers' => retr'[x].missing \subseteq Range(retr'[x].sections)
           /\ Waiting'
<1>1. /\ retr \in [AllRetrievers -> {Idle, Gone} \cup Takers \cup Workers]
      /\ \A x \in AllRetrievers : retr[x] \in Workers => retr[x].missing \subseteq Range(retr[x].sections)
      /\ quit \subseteq 1..sess
  BY DEF MatcherType
<1>2. SessionOf(r) <= sess
  <2>1. SessionOf(r) \in Nat /\ sess \in Nat
    BY ServingFacts
  <2>2. SessionOf(r) > sess => retr[r] = Idle
    BY DEF Waiting
  <2> QED BY <1>1, <2>1, <2>2
<1>3. retr' \in [AllRetrievers -> {Idle, Gone} \cup Takers \cup Workers]
  BY <1>1
<1>4. \A x \in AllRetrievers : retr'[x] \in Workers => retr'[x].missing \subseteq Range(retr'[x].sections)
  BY <1>1
<1>5. ASSUME NEW x \in AllRetrievers, SessionOf(x) > sess PROVE retr'[x] = Idle
  <2>1. SessionOf(x) \in Nat /\ SessionOf(r) \in Nat /\ sess \in Nat
    BY ServingFacts
  <2>2. x # r /\ retr[x] = Idle
    BY <1>2, <1>5, <2>1 DEF Waiting
  <2> QED BY <1>1, <2>2
<1>6. Idle' = Idle /\ Gone' = Gone /\ UNCHANGED given
  BY DEF Idle, Gone
<1> QED BY <1>3, <1>4, <1>5, <1>6, GivenFixed DEF Waiting

(* What the other variables of the matcher need to keep their types. *)
LEMMA TypeKept ==
    ASSUME MatcherType, UNCHANGED given, sess' \in DOMAIN retrievers,
           quit' \subseteq 1..sess', kill' \subseteq quit', closed' \subseteq quit',
           stage' \in [Stages -> Seq(Partials)], process' \in [Stages -> Seq(Partials)],
           reqs' \in [Slots -> Seq(Wanted)],
           responses' \in [Bits -> [Wanted -> {"none", "pending", "cached"}]],
           d' \in DistributorType, stray' \in BOOLEAN,
           retr' \in [AllRetrievers' -> ({Idle, Gone} \cup Takers \cup Workers)'],
           \A x \in AllRetrievers' : retr'[x] \in Workers' => retr'[x].missing \subseteq Range(retr'[x].sections)
    PROVE  MatcherType'
BY GivenFixed DEF MatcherType, DistributorType, Partials, Wanted, SectionOf

LEMMA PipelineTypes ==
    ASSUME MatcherType
    PROVE  /\ stage \in [Stages -> Seq(Partials)] /\ process \in [Stages -> Seq(Partials)]
           /\ reqs \in [Slots -> Seq(Wanted)]
           /\ responses \in [Bits -> [Wanted -> {"none", "pending", "cached"}]]
           /\ d \in DistributorType /\ stray \in BOOLEAN
           /\ sess \in DOMAIN retrievers /\ quit \subseteq 1..sess /\ kill \subseteq quit /\ closed \subseteq quit
           /\ d.requests \in [Bits -> Seq(Wanted)] /\ d.unallocs \subseteq Bits /\ d.allocs \in Int
BY DEF MatcherType, DistributorType

\* The retriever's own steps: neither the pipeline nor the distributor moves.
LEMMA AloneKept ==
    ASSUME MatcherInv, NEW r \in AllRetrievers, NEW new,
           UNCHANGED <<given, sess, kill, closed, pipeline, responses, d, stray>>,
           quit \subseteq quit', quit' \subseteq 1..sess,
           retr[r] # Idle \/ SessionOf(r) \in quit,
           new \in {Idle, Gone} \cup Workers,
           new \in Workers => new.missing \subseteq Range(new.sections),
           retr' = [retr EXCEPT ![r] = new],
           retr[r].pc = "take" => SessionOf(r) \in quit',
           SessionOf(r) \notin quit' =>
               /\ new \in Workers <=> retr[r] \in Workers
               /\ new \in Workers => new.bit = retr[r].bit /\ new.sections = retr[r].sections,
           SessionOf(r) \notin kill => (Working(new) <=> Working(retr[r]))
    PROVE  MatcherInv'
<1>1. MatcherType /\ Waiting
  BY DEF MatcherInv
<1>2. UNCHANGED given /\ UNCHANGED <<sess, kill, closed, stage, process, reqs, responses, d, stray>>
  BY DEF pipeline
<1>3. /\ retr' \in [AllRetrievers' -> ({Idle, Gone} \cup Takers \cup Workers)']
      /\ \A x \in AllRetrievers' : retr'[x] \in Workers' => retr'[x].missing \subseteq Range(retr'[x].sections)
      /\ Waiting'
  BY <1>1, OneMoves
<1>4. MatcherType'
  <2>1. closed' \subseteq quit' /\ kill' \subseteq quit' /\ quit' \subseteq 1..sess'
    BY <1>1, <1>2, PipelineTypes
  <2> QED BY <1>1, <1>2, <1>3, <2>1, TypeKept, PipelineTypes
<1>5. \A x \in AllRetrievers : x # r => retr'[x] = retr[x]
  BY <1>1 DEF MatcherType
<1>6. retr'[r] = new
  BY <1>1 DEF MatcherType
<1>7. r \in Ours => SessionOf(r) = sess
  BY <1>1, ServingFacts
<1>8. new.pc # "take"
  BY DEF Idle, Gone, Workers
<1>9. Ours \subseteq AllRetrievers /\ Ours' = Ours /\ Workers' = Workers
  BY <1>1, <1>2, ServingFacts, GivenFixed DEF Ours
<1>10. \A x \in Ours : retr'[x].pc = "take" => retr'[x] = retr[x]
  BY <1>5, <1>6, <1>8, <1>9
<1>11. sess \notin quit' => \A x \in Ours : retr[x].pc = "take" => retr'[x] = retr[x]
  BY <1>5, <1>7, <1>9
<1>12. sess \notin quit' => \A x \in Ours : \A b, s : Carries(x, b, s)' <=> Carries(x, b, s)
  <2> SUFFICES ASSUME sess \notin quit', NEW x \in Ours, NEW b, NEW s
               PROVE  Carries(x, b, s)' <=> Carries(x, b, s)
    OBVIOUS
  <2>1. CASE x = r
    BY <1>6, <1>7, <1>9, <2>1 DEF Carries
  <2>2. CASE x # r
    BY <1>5, <1>9, <2>2 DEF Carries
  <2> QED BY <2>1, <2>2
<1>13. sess \notin kill' => \A x \in Ours : Working(retr'[x]) <=> Working(retr[x])
  BY <1>2, <1>5, <1>6, <1>7, <1>9, Zenon
<1>14. TokenInv' /\ PlaceInv' /\ AllocsCounted'
  <2>1. UNCHANGED <<given, sess, responses, stray>> /\ kill \subseteq kill'
        /\ d'.requests = d.requests /\ d'.unallocs = d.unallocs /\ d'.allocs = d.allocs
        /\ (d'.running => d.running)
    BY <1>2
  <2> QED BY <1>10, <1>11, <1>12, <1>13, <2>1, BooksKept
<1> QED BY <1>3, <1>4, <1>14 DEF MatcherInv
LEMMA TaskFacts ==
    ASSUME NEW r, retr[r].bit \in Bits, NEW pc \in {"mux", "deliver"}, NEW sections \in Seq(Wanted),
           NEW back \in BOOLEAN
    PROVE  LET new == Task(r, pc, sections, back)
           IN  /\ new \in Workers /\ new.bit = retr[r].bit /\ new.sections = sections
               /\ new.missing = {} /\ new.pc = pc /\ Working(new)
BY DEF Task, Workers, Working

LEMMA AllocateNothingKeeps ==
    ASSUME MatcherInv, NEW r \in AllRetrievers, AllocateNothing(r) PROVE MatcherInv'
<1>1. MatcherType /\ quit \subseteq 1..sess
  BY DEF MatcherInv, MatcherType
<1>2. retr[r].pc = "take" /\ SessionOf(r) \in quit
      /\ UNCHANGED <<given, sess, quit, kill, closed, pipeline, responses, d, stray>>
  BY DEF AllocateNothing
<1>3. retr[r].bit \in Bits /\ retr[r] # Idle
  BY <1>1, <1>2, RetrieverStates DEF Idle
<1>4. PICK new \in {Task(r, "mux", <<>>, FALSE), Task(r, "deliver", <<>>, TRUE)} :
          retr' = [retr EXCEPT ![r] = new]
  BY DEF AllocateNothing
<1>5. new \in Workers /\ new.missing = {}
  <2>1. <<>> \in Seq(Wanted)
    OBVIOUS
  <2>2. Task(r, "mux", <<>>, FALSE) \in Workers /\ Task(r, "mux", <<>>, FALSE).missing = {}
    BY <1>3, <2>1, TaskFacts
  <2>3. Task(r, "deliver", <<>>, TRUE) \in Workers /\ Task(r, "deliver", <<>>, TRUE).missing = {}
    BY <1>3, <2>1, TaskFacts
  <2>4. new = Task(r, "mux", <<>>, FALSE) \/ new = Task(r, "deliver", <<>>, TRUE)
    BY <1>4
  <2> QED BY <2>2, <2>3, <2>4, Zenon
<1>6. Working(new) /\ Working(retr[r])
  BY <1>2, <1>4 DEF Working, Task
<1> QED BY <1>1, <1>2, <1>3, <1>4, <1>5, <1>6, AloneKept

LEMMA RetrieverEndsKeeps ==
    ASSUME MatcherInv, NEW r \in AllRetrievers, RetrieverEnds(r) PROVE MatcherInv'
<1>1. MatcherType /\ quit \subseteq 1..sess
  BY DEF MatcherInv, MatcherType
<1>2. /\ retr[r].pc = "alloc" /\ SessionOf(r) \in quit /\ retr' = [retr EXCEPT ![r] = Gone]
      /\ UNCHANGED <<given, sess, quit, kill, closed, pipeline, responses, d, stray>>
  BY DEF RetrieverEnds
<1>3. Gone \notin Workers /\ ~Working(Gone) /\ ~Working(retr[r])
  BY <1>2 DEF Gone, Workers, Working
<1> QED BY <1>1, <1>2, <1>3, AloneKept

LEMMA DropSectionsKeeps ==
    ASSUME MatcherInv, NEW r \in AllRetrievers, DropSections(r) PROVE MatcherInv'
<1>1. MatcherType /\ quit \subseteq 1..sess /\ kill \subseteq quit
  BY DEF MatcherInv, MatcherType
<1>2. /\ retr[r].pc = "deliver" /\ SessionOf(r) \in kill
      /\ UNCHANGED <<given, sess, quit, kill, closed, pipeline, responses, d, stray>>
  BY DEF DropSections
<1>3. PICK new \in {Idle, Gone} : retr' = [retr EXCEPT ![r] = new]
  BY DEF DropSections
<1>4. new \notin Workers
  BY <1>3 DEF Idle, Gone, Workers
<1>5. retr[r] # Idle
  BY <1>2 DEF Idle
<1> QED BY <1>1, <1>2, <1>3, <1>4, <1>5, AloneKept

\* The three steps of a retriever that works on.
LEMMA WorkGoesOn ==
    ASSUME MatcherInv, NEW r \in AllRetrievers, retr[r] \in Workers, NEW new \in Workers,
           UNCHANGED <<given, sess, kill, closed, pipeline, responses, d, stray>>,
           quit' = quit \/ quit' = quit \cup {SessionOf(r)},
           new.missing \subseteq Range(new.sections), new.bit = retr[r].bit, new.sections = retr[r].sections,
           retr' = [retr EXCEPT ![r] = new]
    PROVE  MatcherInv'
<1>1. MatcherType /\ Waiting /\ quit \subseteq 1..sess
  BY DEF MatcherInv, MatcherType
<1>2. retr[r] # Idle
  BY DEF Idle, Workers
<1>3. retr[r].pc # "take" /\ Working(retr[r]) /\ Working(new)
  BY DEF Workers, Working
<1>4. SessionOf(r) \in 1..sess
  <2>1. SessionOf(r) \in 1..Len(retrievers) /\ sess \in Nat /\ Len(retrievers) \in Nat
    BY <1>1, ServingFacts
  <2>2. ~(SessionOf(r) > sess)
    BY <1>1, <1>2 DEF Waiting
  <2> QED BY <2>1, <2>2
<1>5. quit \subseteq quit' /\ quit' \subseteq 1..sess
  BY <1>1, <1>4
<1> QED BY <1>1, <1>2, <1>3, <1>5, AloneKept

LEMMA FetchedKeeps ==
    ASSUME MatcherInv, NEW r \in AllRetrievers, Fetched(r) PROVE MatcherInv'
<1>1. MatcherType
  BY DEF MatcherInv
<1>2. retr[r].pc = "mux" /\ UNCHANGED <<given, sess, kill, closed, pipeline, responses, d, stray>>
  BY DEF Fetched
<1>3. retr[r] \in Workers /\ retr[r].sections \in Seq(Wanted)
  BY <1>1, <1>2, RetrieverStates
<1>4. PICK missing \in SUBSET Range(retr[r].sections), pc \in {"deliver", "close"} :
        /\ retr' = [retr EXCEPT ![r].pc = pc, ![r].missing = missing]
        /\ quit' = quit \/ quit' = quit \cup {SessionOf(r)}
  BY DEF Fetched
<1> DEFINE new == [retr[r] EXCEPT !.pc = pc, !.missing = missing]
<1>5. retr' = [retr EXCEPT ![r] = new]
  BY <1>1, <1>4 DEF MatcherType
<1>6. missing \in SUBSET Wanted
  BY <1>3 DEF Range
<1>7. /\ new \in Workers /\ new.missing = missing /\ new.bit = retr[r].bit
      /\ new.sections = retr[r].sections
  BY <1>3, <1>6 DEF Workers
<1> HIDE DEF new
<1> QED BY <1>2, <1>3, <1>4, <1>5, <1>7, WorkGoesOn

LEMMA NotFetchedKeeps ==
    ASSUME MatcherInv, NEW r \in AllRetrievers, NotFetched(r) PROVE MatcherInv'
<1>1. MatcherType
  BY DEF MatcherInv
<1>2. retr[r].pc = "mux" /\ UNCHANGED <<given, sess, quit, kill, closed, pipeline, responses, d, stray>>
  BY DEF NotFetched
<1>3. retr[r] \in Workers /\ retr[r].sections \in Seq(Wanted)
  BY <1>1, <1>2, RetrieverStates
<1> DEFINE new == [retr[r] EXCEPT !.pc = "deliver", !.missing = Range(retr[r].sections), !.last = TRUE]
<1>4. retr' = [retr EXCEPT ![r] = new]
  BY <1>1 DEF MatcherType, NotFetched
<1>5. Range(retr[r].sections) \in SUBSET Wanted
  BY <1>3 DEF Range
<1>6. /\ new \in Workers /\ new.missing = Range(retr[r].sections) /\ new.bit = retr[r].bit
      /\ new.sections = retr[r].sections
  BY <1>3, <1>5 DEF Workers
<1> HIDE DEF new
<1> QED BY <1>2, <1>3, <1>4, <1>6, WorkGoesOn

LEMMA ClosedByRetrieverKeeps ==
    ASSUME MatcherInv, NEW r \in AllRetrievers, ClosedByRetriever(r) PROVE MatcherInv'
<1>1. MatcherType
  BY DEF MatcherInv
<1>2. retr[r].pc = "close" /\ UNCHANGED <<given, sess, quit, kill, closed, pipeline, responses, d, stray>>
  BY DEF ClosedByRetriever
<1>3. retr[r] \in Workers /\ retr[r].missing \subseteq Range(retr[r].sections)
  BY <1>1, <1>2, RetrieverStates
<1> DEFINE new == [retr[r] EXCEPT !.pc = "deliver"]
<1>4. retr' = [retr EXCEPT ![r] = new]
  BY <1>1 DEF MatcherType, ClosedByRetriever
<1>5. /\ new \in Workers /\ new.missing = retr[r].missing /\ new.bit = retr[r].bit
      /\ new.sections = retr[r].sections
  BY <1>3 DEF Workers
<1> HIDE DEF new
<1> QED BY <1>2, <1>3, <1>4, <1>5, WorkGoesOn

\* The session ends, or the distributor does.
LEMMA PipelineKept ==
    ASSUME MatcherInv, UNCHANGED <<given, sess, retr, stray>>,
           responses' \in [Bits -> [Wanted -> {"none", "pending", "cached"}]],
           sess \notin quit' => responses' = responses,
           quit \subseteq quit', quit' \subseteq 1..sess,
           kill \subseteq kill', kill' \subseteq quit', closed' \subseteq quit',
           stage' \in [Stages -> Seq(Partials)], process' \in [Stages -> Seq(Partials)],
           reqs' \in [Slots -> Seq(Wanted)],
           d' \in DistributorType,
           d'.requests = d.requests, d'.unallocs = d.unallocs, d'.allocs = d.allocs, d'.running => d.running
    PROVE  MatcherInv'
<1>1. MatcherType /\ Waiting
  BY DEF MatcherInv
<1>2. UNCHANGED given /\ Ours' = Ours /\ Workers' = Workers /\ AllRetrievers' = AllRetrievers
      /\ ({Idle, Gone} \cup Takers \cup Workers)' = {Idle, Gone} \cup Takers \cup Workers
  BY GivenFixed DEF Ours, Idle, Gone
<1>3. MatcherType'
  <2>1. sess' \in DOMAIN retrievers /\ quit' \subseteq 1..sess'
    BY <1>1, PipelineTypes
  <2>2. stray' \in BOOLEAN
    BY <1>1, PipelineTypes
  <2>3. /\ retr' \in [AllRetrievers' -> ({Idle, Gone} \cup Takers \cup Workers)']
        /\ \A x \in AllRetrievers' : retr'[x] \in Workers' => retr'[x].missing \subseteq Range(retr'[x].sections)
    BY <1>1, <1>2 DEF MatcherType
  <2> QED BY <1>1, <1>2, <2>1, <2>2, <2>3, TypeKept
<1>4. Waiting'
  BY <1>1, <1>2, GivenFixed DEF Waiting, Idle
<1>5. \A x \in Ours : \A b, s : Carries(x, b, s)' <=> Carries(x, b, s)
  BY <1>2 DEF Carries
<1>6. TokenInv' /\ PlaceInv' /\ AllocsCounted'
  BY <1>5, BooksKept
<1> QED BY <1>3, <1>4, <1>6 DEF MatcherInv

LEMMA SessionKept ==
    ASSUME MatcherInv, UNCHANGED <<given, sess, responses, retr, stray>>,
           quit \subseteq quit', quit' \subseteq 1..sess,
           kill \subseteq kill', kill' \subseteq quit', closed' \subseteq quit',
           stage' \in [Stages -> Seq(Partials)], process' \in [Stages -> Seq(Partials)],
           reqs' \in [Slots -> Seq(Wanted)],
           d' \in DistributorType,
           d'.requests = d.requests, d'.unallocs = d.unallocs, d'.allocs = d.allocs, d'.running => d.running
    PROVE  MatcherInv'
<1>1. responses' \in [Bits -> [Wanted -> {"none", "pending", "cached"}]]
  BY PipelineTypes DEF MatcherInv
<1> QED BY <1>1, PipelineKept

LEMMA ClosingKeeps ==
    ASSUME MatcherInv, SessionStep \/ CloseSession \/ \E s \in DOMAIN retrievers : KillTimer(s)
    PROVE  MatcherInv'
<1>1. MatcherType /\ d \in DistributorType /\ quit \subseteq 1..sess /\ kill \subseteq quit /\ closed \subseteq quit
  BY PipelineTypes DEF MatcherInv
<1>2. /\ stage \in [Stages -> Seq(Partials)] /\ process \in [Stages -> Seq(Partials)]
      /\ reqs \in [Slots -> Seq(Wanted)]
  BY <1>1, PipelineTypes
<1>3. sess \in 1..sess
  BY <1>1, ServingFacts
<1>4. CASE Shutdown \/ Killed
  <2>1. UNCHANGED <<given, sess, quit, kill, closed, stage, process, reqs, responses, retr, stray>>
    BY <1>4 DEF Shutdown, Killed, pipeline
  <2>2. /\ d' \in DistributorType /\ d'.requests = d.requests /\ d'.unallocs = d.unallocs
        /\ d'.allocs = d.allocs /\ (d'.running => d.running)
    <3>1. d' = [d EXCEPT !.running = FALSE] \/ d' = [d EXCEPT !.shutdown = TRUE]
      BY <1>4 DEF Shutdown, Killed
    <3> QED BY <1>1, <3>1 DEF DistributorType
  <2> QED BY <1>1, <1>2, <2>1, <2>2, SessionKept
<1>5. CASE SessionClosed
  <2>1. UNCHANGED <<given, sess, quit, kill, responses, d, retr, stray>>
        /\ closed' = closed \cup {sess} /\ sess \in quit
    BY <1>5 DEF SessionClosed
  <2>2. /\ stage' \in [Stages -> Seq(Partials)] /\ process' \in [Stages -> Seq(Partials)]
        /\ reqs' \in [Slots -> Seq(Wanted)]
    BY <1>5 DEF SessionClosed, Cleared
  <2> QED BY <1>1, <2>1, <2>2, SessionKept
<1>6. CASE CloseSession
  <2>1. UNCHANGED <<given, sess, kill, closed, stage, process, reqs, responses, d, retr, stray>>
        /\ quit' = quit \cup {sess}
    BY <1>6 DEF CloseSession, pipeline
  <2> QED BY <1>1, <1>2, <1>3, <2>1, SessionKept
<1>7. ASSUME NEW s \in DOMAIN retrievers, KillTimer(s) PROVE MatcherInv'
  <2>1. UNCHANGED <<given, sess, quit, closed, stage, process, reqs, responses, d, retr, stray>>
        /\ kill' = kill \cup {s} /\ s \in quit
    BY <1>7 DEF KillTimer, pipeline
  <2> QED BY <1>1, <1>2, <2>1, SessionKept
<1> QED BY <1>4, <1>5, <1>6, <1>7 DEF SessionStep

(* The pipeline *)

LEMMA FanKeeps ==
    ASSUME MatcherInv, NEW f \in Stages, Fan(f)
    PROVE  MatcherInv'
<1>1. MatcherType
  BY DEF MatcherInv
<1>2. /\ stage \in [Stages -> Seq(Partials)] /\ process \in [Stages -> Seq(Partials)]
      /\ reqs \in [Slots -> Seq(Wanted)] /\ d \in DistributorType
      /\ quit \subseteq 1..sess /\ kill \subseteq quit /\ closed \subseteq quit
  BY <1>1, PipelineTypes
<1>3. Passed(f) \in Partials
  <2>1. CASE f = 1
    <3>1. source \in Wanted
      BY <2>1 DEF Fan
    <3>2. Passed(f) = [section |-> source, bitset |-> {b \in Blocks : SectionOf(b) = source}]
      BY <2>1 DEF Passed
    <3> QED BY <3>1, <3>2 DEF Partials
  <2>2. CASE f # 1
    <3>1. stage[f] # <<>> /\ stage[f] \in Seq(Partials)
      BY <1>2, <2>2 DEF Fan
    <3>2. Head(stage[f]) \in Partials
      BY <3>1
    <3> QED BY <2>2, <3>2 DEF Passed
  <2> QED BY <2>1, <2>2
<1>4. Passed(f).section \in Wanted
  BY <1>3 DEF Partials
<1>5. stage' \in [Stages -> Seq(Partials)]
  <2>1. CASE f = 1
    BY <1>2, <2>1 DEF Fan
  <2>2. CASE f # 1
    <3>1. stage[f] # <<>> /\ stage' = [stage EXCEPT ![f] = Tail(@)]
      BY <2>2 DEF Fan
    <3>2. Tail(stage[f]) \in Seq(Partials)
      BY <1>2, <3>1
    <3> QED BY <1>2, <3>1, <3>2
  <2> QED BY <2>1, <2>2
<1>6. process' \in [Stages -> Seq(Partials)]
  <2>1. Append(process[f], Passed(f)) \in Seq(Partials)
    BY <1>2, <1>3
  <2> QED BY <1>2, <2>1 DEF Fan
<1>7. reqs' \in [Slots -> Seq(Wanted)]
  <2>1. \A k \in Slots : Append(reqs[k], Passed(f).section) \in Seq(Wanted) /\ reqs[k] \in Seq(Wanted)
    BY <1>2, <1>4
  <2> HIDE DEF Passed
  <2>2. reqs' = [k \in Slots |-> IF k \in SlotsOf(f) THEN Append(reqs[k], Passed(f).section) ELSE reqs[k]]
    BY DEF Fan
  <2> QED BY <2>1, <2>2
<1>8. UNCHANGED <<given, sess, quit, kill, closed, responses, d, retr, stray>>
  BY DEF Fan
<1> QED BY <1>2, <1>5, <1>6, <1>7, <1>8, SessionKept

LEMMA ProcessKeeps ==
    ASSUME MatcherInv, NEW f \in Stages, Process(f)
    PROVE  MatcherInv'
<1>1. MatcherType
  BY DEF MatcherInv
<1>2. /\ stage \in [Stages -> Seq(Partials)] /\ process \in [Stages -> Seq(Partials)]
      /\ reqs \in [Slots -> Seq(Wanted)] /\ d \in DistributorType
      /\ quit \subseteq 1..sess /\ kill \subseteq quit /\ closed \subseteq quit
  BY <1>1, PipelineTypes
<1> DEFINE subres == Head(process[f])
           matched == subMatch(f, subres)
           passedOn == [section |-> subres.section, bitset |-> matched]
<1>3. process[f] # <<>> /\ process[f] \in Seq(Partials)
  BY <1>2 DEF Process
<1>4. subres \in Partials
  BY <1>3
<1>5. matched \subseteq subres.bitset
  BY DEF subMatch
<1>6. passedOn \in Partials
  BY <1>4, <1>5 DEF Partials
<1> HIDE DEF passedOn
<1>7. stage' \in [Stages -> Seq(Partials)]
  <2>1. stage' = stage \/ stage' = [stage EXCEPT ![f + 1] = Append(@, passedOn)]
    BY Zenon DEF Process, passedOn
  <2>2. \A g \in Stages : Append(stage[g], passedOn) \in Seq(Partials)
    BY <1>2, <1>6
  <2> QED BY <1>2, <2>1, <2>2
<1>8. process' \in [Stages -> Seq(Partials)]
  <2>1. Tail(process[f]) \in Seq(Partials)
    BY <1>3
  <2>2. process' = [process EXCEPT ![f] = Tail(@)]
    BY DEF Process
  <2> QED BY <1>2, <2>1, <2>2
<1>9. UNCHANGED <<given, sess, quit, kill, closed, reqs, responses, d, retr, stray>>
  BY DEF Process
<1> QED BY <1>2, <1>7, <1>8, <1>9, SessionKept
-----------------------------------------------------------------------------
(* The steps of the distributor *)

LEMMA StrayGrows ==
    ASSUME MatcherType, NEW r \in AllRetrievers, OfAnother(r) => stray', ~stray'
    PROVE  r \in Ours
<1>1. r # None
  BY ServingFacts
<1> QED BY <1>1, ServingFacts DEF OfAnother

LEMMA AllocateRetrievalKeeps ==
    ASSUME MatcherInv, NEW r \in AllRetrievers, AllocateRetrieval(r) PROVE MatcherInv'
<1>1. MatcherType /\ Waiting /\ TokenInv /\ PlaceInv /\ AllocsCounted
  BY DEF MatcherInv
<1>2. /\ d \in DistributorType /\ stray \in BOOLEAN
      /\ stage \in [Stages -> Seq(Partials)] /\ process \in [Stages -> Seq(Partials)]
      /\ reqs \in [Slots -> Seq(Wanted)]
      /\ responses \in [Bits -> [Wanted -> {"none", "pending", "cached"}]]
      /\ sess \in DOMAIN retrievers /\ quit \subseteq 1..sess /\ kill \subseteq quit /\ closed \subseteq quit
      /\ d.unallocs \subseteq Bits
  BY <1>1, PipelineTypes
<1>3. PICK bit \in d.unallocs :
        /\ d' = [d EXCEPT !.unallocs = @ \ {bit}, !.allocs = @ + 1]
        /\ retr' = [retr EXCEPT ![r] = [pc |-> "take", bit |-> bit]]
  BY DEF AllocateRetrieval
<1>4. /\ retr[r].pc = "alloc" /\ SessionOf(r) <= sess /\ stray' = (stray \/ OfAnother(r))
      /\ UNCHANGED <<given, sess, quit, kill, closed, stage, process, reqs, responses>>
  BY DEF AllocateRetrieval, pipeline
<1>5. retr[r] = Idle /\ bit \in Bits
  BY <1>1, <1>2, <1>3, <1>4, RetrieverStates
<1>6. /\ d' \in DistributorType /\ d'.requests = d.requests /\ d'.unallocs = d.unallocs \ {bit}
      /\ d'.allocs = d.allocs + 1 /\ d'.running = d.running
  <2>1. d.allocs + 1 \in Int
    BY <1>2 DEF DistributorType
  <2> QED BY <1>2, <1>3, <2>1 DEF DistributorType
<1> DEFINE taken == [pc |-> "take", bit |-> bit]
<1>7. taken \in Takers /\ taken \notin Workers
  BY <1>5 DEF Takers, Workers
<1>8. /\ retr' \in [AllRetrievers' -> ({Idle, Gone} \cup Takers \cup Workers)']
      /\ \A x \in AllRetrievers' : retr'[x] \in Workers' => retr'[x].missing \subseteq Range(retr'[x].sections)
  <2>1. /\ retr \in [AllRetrievers -> {Idle, Gone} \cup Takers \cup Workers]
        /\ \A x \in AllRetrievers : retr[x] \in Workers => retr[x].missing \subseteq Range(retr[x].sections)
    BY <1>1 DEF MatcherType
  <2>2. retr' = [retr EXCEPT ![r] = taken]
    BY <1>3
  <2> HIDE DEF taken
  <2>3. retr' \in [AllRetrievers -> {Idle, Gone} \cup Takers \cup Workers]
    BY <1>7, <2>1, <2>2
  <2>4. \A x \in AllRetrievers : retr'[x] \in Workers => retr'[x].missing \subseteq Range(retr'[x].sections)
    BY <1>7, <2>1, <2>2
  <2> QED BY <1>4, <2>3, <2>4, GivenFixed DEF Idle, Gone
<1>9. \A x \in AllRetrievers : retr'[x] = IF x = r THEN taken ELSE retr[x]
  BY <1>1, <1>3 DEF MatcherType
<1>10. MatcherType'
  <2>1. stray' \in BOOLEAN
    BY <1>2, <1>4 DEF OfAnother
  <2> QED BY <1>1, <1>2, <1>4, <1>6, <1>8, <2>1, TypeKept
<1>11. Waiting'
  <2>1. ASSUME NEW x \in AllRetrievers, SessionOf(x) > sess PROVE retr'[x] = Idle
    <3>1. SessionOf(x) \in Nat /\ SessionOf(r) \in Nat /\ sess \in Nat
      BY <1>1, ServingFacts
    <3> QED BY <1>1, <1>4, <1>9, <2>1, <3>1 DEF Waiting
  <2> QED BY <1>4, <2>1, GivenFixed DEF Waiting, Idle
<1>12. ~stray' => ~stray /\ r \in Ours
  BY <1>1, <1>2, <1>4, StrayGrows
<1>13. Ours' = Ours /\ Bits' = Bits /\ Workers' = Workers /\ Ours \subseteq AllRetrievers
  BY <1>1, <1>4, ServingFacts, GivenFixed DEF Ours
<1>14. TokenInv'
  <2> SUFFICES ASSUME ~stray', NEW b \in Bits PROVE TokenOK(b)'
    BY <1>13 DEF TokenInv
  <2>1. TokenOK(b) /\ TokenOK(bit) /\ r \in Ours
    BY <1>1, <1>5, <1>12 DEF TokenInv
  <2>2. \A x \in Ours : Takes(x, b)' <=> IF x = r THEN b = bit ELSE Takes(x, b)
    BY <1>9, <1>13 DEF Takes
  <2>3. ~Takes(r, b)
    BY <1>4 DEF Takes
  <2>4. CASE b = bit
    <3>1. \A x \in Ours : Takes(x, b)' <=> x = r
      BY <1>3, <2>1, <2>2, <2>4 DEF TokenOK
    <3>2. b \notin d'.unallocs /\ d.requests[b] # <<>>
      BY <1>3, <1>6, <2>1, <2>4 DEF TokenOK, Offered
    <3>3. Offered(b)'
      BY <1>13, <2>1, <3>1 DEF Offered
    <3> QED BY <1>4, <1>6, <1>13, <3>1, <3>2, <3>3 DEF TokenOK
  <2>5. CASE b # bit
    <3>1. \A x \in Ours : Takes(x, b)' <=> Takes(x, b)
      BY <2>2, <2>3, <2>5
    <3>2. b \in d'.unallocs <=> b \in d.unallocs
      BY <1>6, <2>5
    <3>3. Offered(b)' <=> Offered(b)
      BY <1>13, <3>1, <3>2 DEF Offered
    <3> QED BY <1>4, <1>6, <1>13, <2>1, <3>1, <3>2, <3>3 DEF TokenOK
  <2> QED BY <2>4, <2>5
<1>15. PlaceInv'
  <2> SUFFICES ASSUME Live', NEW b \in Bits, NEW s \in Wanted PROVE PlaceOK(b, s)'
    BY <1>13 DEF PlaceInv
  <2>1. Live
    BY <1>4, <1>12 DEF Live
  <2>2. PlaceOK(b, s)
    BY <1>1, <2>1 DEF PlaceInv
  <2>3. Idle \notin Workers
    BY DEF Idle, Workers
  <2> HIDE DEF taken
  <2>4. \A x \in Ours : Carries(x, b, s)' <=> Carries(x, b, s)
    BY <1>5, <1>7, <1>9, <1>13, <2>3 DEF Carries
  <2> QED BY <1>4, <1>6, <1>13, <2>2, <2>4 DEF PlaceOK
<1>16. AllocsCounted'
  <2> SUFFICES ASSUME d.running, sess \notin kill, ~stray' PROVE d'.allocs = Cardinality(Busy')
    BY <1>4, <1>6, <1>13 DEF AllocsCounted, Busy, Ours, Working
  <2>1. d.allocs = Cardinality(Busy)
    BY <1>1, <1>12 DEF AllocsCounted, Busy, Ours, Working
  <2>2. r \in Ours /\ r \notin Busy
    BY <1>4, <1>12 DEF Busy, Working
  <2>3. Busy' = Busy \cup {r}
    <3>1. \A x \in Ours : x \in Busy' <=> x = r \/ x \in Busy
      BY <1>9, <1>13 DEF Busy, Working
    <3>2. Busy \subseteq Ours /\ Busy' \subseteq Ours
      BY <1>13 DEF Busy
    <3> QED BY <2>2, <3>1, <3>2
  <2>4. IsFiniteSet(Busy)
    BY <1>1, ServingFacts, FS_Subset DEF Busy
  <2>5. Cardinality(Busy \cup {r}) = Cardinality(Busy) + 1
    BY <2>2, <2>4, FS_AddElement
  <2> QED BY <1>6, <2>1, <2>3, <2>5
<1> QED BY <1>10, <1>11, <1>14, <1>15, <1>16 DEF MatcherInv

LEMMA RequestQueued ==
    ASSUME MatcherInv, UNCHANGED <<given, sess, quit, kill, closed>>,
           NEW bit \in Bits, NEW s \in Wanted, responses[bit][s] = "none", QueueRequest(bit, s),
           stage' \in [Stages -> Seq(Partials)], process' \in [Stages -> Seq(Partials)],
           reqs' \in [Slots -> Seq(Wanted)],
           responses' = [responses EXCEPT ![bit][s] = "pending"]
    PROVE  MatcherInv'
<1>1. MatcherType /\ Waiting /\ TokenInv /\ PlaceInv /\ AllocsCounted
  BY DEF MatcherInv
<1>2. /\ d \in DistributorType /\ stray \in BOOLEAN /\ d.allocs \in Int
      /\ responses \in [Bits -> [Wanted -> {"none", "pending", "cached"}]]
      /\ sess \in DOMAIN retrievers /\ quit \subseteq 1..sess /\ kill \subseteq quit /\ closed \subseteq quit
      /\ d.requests \in [Bits -> Seq(Wanted)]
  BY <1>1, PipelineTypes
<1> DEFINE old == d.requests[bit]
           needed == old = <<>>
           more == {s}
<1>3. /\ old \in Seq(Wanted) /\ more \in SUBSET Wanted /\ IsFiniteSet(more) /\ more # {}
      /\ \A t : t \in more <=> t = s
  BY <1>2, FS_Singleton
<1>4. PICK longer \in Inserted(old, more) :
        MaybeAssign([d EXCEPT !.requests[bit] = longer], bit, needed, retr, None)
  BY Zenon DEF QueueRequest
<1>5. needed \in BOOLEAN
  OBVIOUS
<1> HIDE DEF more, old, needed
<1>6. old \in Seq(Wanted) /\ more \in SUBSET Wanted /\ IsFiniteSet(more)
  BY <1>3
<1>7. /\ longer \in Seq(Wanted) /\ longer # <<>>
      /\ \A t \in Wanted : Times(longer, t) = Times(old, t) + (IF t = s THEN 1 ELSE 0)
  <2>1. /\ longer \in Seq(Wanted)
        /\ longer # <<>> <=> (old # <<>> \/ more # {})
        /\ \A t \in Wanted : Times(longer, t) = Times(old, t) + (IF t \in more THEN 1 ELSE 0)
    BY <1>6, InsertedFacts
  <2> QED BY <1>3, <2>1
<1>8. /\ Assigned(bit, longer, d.allocs, retr, needed)
      /\ d' \in DistributorType /\ stray' \in BOOLEAN
      /\ d'.running = d.running /\ (stray => stray')
  BY <1>1, <1>4, <1>7, <1>5, MaybeAssignFacts
<1> DEFINE none == {}
<1>9. none = {} /\ none \in SUBSET AllRetrievers
  OBVIOUS
<1> HIDE DEF none
<1>10. PICK G \in SUBSET AllRetrievers : Given(bit, longer, d.allocs, none, Idle, needed, G)
  <2>1. retr = Moved(none, Idle)
    BY <1>1, <1>9 DEF MatcherType, Moved
  <2>2. \A r \in none : retr[r] # Idle
    BY <1>9
  <2>3. Assigned(bit, longer, d.allocs, retr, needed)
    BY <1>8
  <2> QED BY <1>1, <1>5, <1>9, <2>1, <2>2, <2>3, AssignedGives, Zenon
<1>11. /\ retr' \in [AllRetrievers' -> ({Idle, Gone} \cup Takers \cup Workers)']
       /\ \A r \in AllRetrievers' : retr'[r] \in Workers' => retr'[r].missing \subseteq Range(retr'[r].sections)
       /\ Waiting'
  BY <1>1, <1>10, <1>9, GivenType
<1>12. MatcherType'
  <2>1. responses' \in [Bits -> [Wanted -> {"none", "pending", "cached"}]]
    BY <1>2
  <2> QED BY <1>1, <1>2, <1>8, <1>11, <2>1, TypeKept
<1>13. Ours' = Ours /\ Bits' = Bits
  BY GivenFixed DEF Ours
<1>14. TokenInv'
  <2> SUFFICES ASSUME ~stray' PROVE TokenInv'
    BY DEF TokenInv
  <2>1. ~stray /\ \A b \in Bits : TokenOK(b)
    BY <1>1, <1>8 DEF TokenInv
  <2>2. needed => bit \notin d.unallocs /\ \A x \in Ours \ none : ~Takes(x, bit)
    BY <1>9, <2>1 DEF TokenOK, Offered, needed, old
  <2>3. sess \notin quit' => needed \/ bit \in d.unallocs \/ \E x \in Ours \ none : Takes(x, bit)
    BY <1>9, <2>1 DEF TokenOK, Offered, needed, old
  <2>4. quit \subseteq quit' /\ UNCHANGED given /\ sess' = sess
    OBVIOUS
  <2>5. (\A r \in none : retr[r].pc = "take" => retr[r].bit = bit) /\ (none # {} => Idle.pc # "take")
    BY <1>9
  <2>6. \A b \in Bits : TokenOK(b)
    BY <2>1
  <2>7. needed => bit \notin d.unallocs /\ (\A x \in Ours \ none : ~Takes(x, bit)) /\ longer # <<>>
    BY <1>7, <2>2
  <2>8. bit \in d.unallocs \/ (\E x \in Ours \ none : Takes(x, bit)) => longer # <<>>
    BY <1>7
  <2>9. sess \notin quit' /\ longer # <<>> =>
              needed \/ bit \in d.unallocs \/ \E x \in Ours \ none : Takes(x, bit)
    BY <2>3
  <2> QED BY <1>1, <1>5, <1>10, <2>4, <2>5, <2>6, <2>7, <2>8, <2>9, GivenTokens
<1>15. PlaceInv'
  <2> SUFFICES ASSUME Live', NEW b \in Bits, NEW t \in Wanted PROVE PlaceOK(b, t)'
    BY <1>13 DEF PlaceInv
  <2>1. Live
    BY <1>8 DEF Live
  <2>2. PlaceOK(b, t) /\ PlaceOK(bit, s)
    BY <1>1, <2>1 DEF PlaceInv
  <2>3. \A x \in Ours : Carries(x, b, t)' <=> Carries(x, b, t)
    BY <1>1, <1>10, <1>9, GivenCarries
  <2>4. d'.requests[b] = IF b = bit THEN longer ELSE d.requests[b]
    BY <1>2, <1>10 DEF Given
  <2>5. responses'[b][t] = IF b = bit /\ t = s THEN "pending" ELSE responses[b][t]
    BY <1>2
  <2>6. CASE b = bit /\ t = s
    <3>1. Times(old, s) = 0 /\ \A x \in Ours : ~Carries(x, bit, s)
      BY <2>2 DEF PlaceOK, old
    <3>2. Times(longer, s) = 1
      BY <1>7, <3>1
    <3> QED BY <1>13, <2>3, <2>4, <2>5, <2>6, <3>1, <3>2 DEF PlaceOK
  <2>7. CASE ~(b = bit /\ t = s)
    <3>1. Times(d'.requests[b], t) = Times(d.requests[b], t)
      <4>1. CASE b = bit
        <5>1. Times(longer, t) = Times(old, t)
          BY <1>3, <1>7, <2>7, <4>1, TimesCounts
        <5> QED BY <2>4, <4>1, <5>1 DEF old
      <4>2. CASE b # bit
        BY <2>4, <4>2
      <4> QED BY <4>1, <4>2
    <3> QED BY <1>13, <2>2, <2>3, <2>5, <2>7, <3>1 DEF PlaceOK
  <2> QED BY <2>6, <2>7
<1>16. AllocsCounted'
  <2>1. CASE stray'
    BY <2>1 DEF AllocsCounted
  <2>2. CASE ~stray'
    BY <1>1, <1>2, <1>8, <1>10, <1>9, <2>2, GivenCount
  <2> QED BY <2>1, <2>2
<1> QED BY <1>11, <1>12, <1>14, <1>15, <1>16 DEF MatcherInv

LEMMA ScheduleKeeps ==
    ASSUME MatcherInv, NEW k \in Slots, Schedule(k) PROVE MatcherInv'
<1>1. MatcherType
  BY DEF MatcherInv
<1>2. /\ stage \in [Stages -> Seq(Partials)] /\ process \in [Stages -> Seq(Partials)]
      /\ reqs \in [Slots -> Seq(Wanted)] /\ d \in DistributorType
      /\ responses \in [Bits -> [Wanted -> {"none", "pending", "cached"}]]
      /\ quit \subseteq 1..sess /\ kill \subseteq quit /\ closed \subseteq quit
  BY <1>1, PipelineTypes
<1> DEFINE bit == k[3]
           s == Head(reqs[k])
<1>3. reqs[k] # <<>> /\ reqs[k] \in Seq(Wanted)
  BY <1>2 DEF Schedule
<1>4. s \in Wanted /\ bit \in Bits
  BY <1>3 DEF Bits
<1>5. reqs' \in [Slots -> Seq(Wanted)]
  <2>1. Tail(reqs[k]) \in Seq(Wanted)
    BY <1>3
  <2>2. reqs' = [reqs EXCEPT ![k] = Tail(@)]
    BY DEF Schedule
  <2> QED BY <1>2, <2>1, <2>2
<1>6. UNCHANGED <<given, sess, quit, kill, closed, source, stage, process>>
  BY DEF Schedule
<1>7. CASE responses[bit][s] # "none"
  <2>1. UNCHANGED <<responses, d, retr, stray>>
    BY <1>7, Zenon DEF Schedule
  <2> QED BY <1>2, <1>5, <1>6, <2>1, SessionKept
<1>8. CASE responses[bit][s] = "none"
  <2>1. /\ responses' = [responses EXCEPT ![bit][s] = "pending"]
        /\ QueueRequest(bit, s) \/ (sess \in quit /\ UNCHANGED <<d, retr, stray>>)
    BY <1>8, Zenon DEF Schedule
  <2> HIDE DEF bit, s
  <2>2. CASE QueueRequest(bit, s)
    BY <1>2, <1>4, <1>5, <1>6, <1>8, <2>1, <2>2, RequestQueued
  <2>3. CASE sess \in quit /\ UNCHANGED <<d, retr, stray>>
    <3>1. responses' \in [Bits -> [Wanted -> {"none", "pending", "cached"}]]
      BY <1>2, <1>4, <2>1
    <3> QED BY <1>2, <1>5, <1>6, <2>3, <3>1, PipelineKept
  <2> QED BY <2>1, <2>2, <2>3
<1> QED BY <1>7, <1>8
\* A retriever that came to the distributor goes on in state new.
LEMMA MetKeepsTypes ==
    ASSUME MatcherInv, NEW r \in AllRetrievers, retr[r] # Idle,
           UNCHANGED <<given, sess, quit, kill, closed, pipeline>>,
           responses' \in [Bits -> [Wanted -> {"none", "pending", "cached"}]],
           NEW bit \in Bits, NEW queue, NEW due, NEW needed \in BOOLEAN,
           NEW new \in {Idle, Gone} \cup Takers \cup Workers,
           new \in Workers => new.missing \subseteq Range(new.sections),
           NEW R, R = {r}, Assigned(bit, queue, due, Moved(R, new), needed),
           d' \in DistributorType, stray' \in BOOLEAN
    PROVE  /\ MatcherType' /\ Waiting'
           /\ \E G \in SUBSET AllRetrievers : Given(bit, queue, due, R, new, needed, G)
<1>1. MatcherType /\ Waiting
  BY DEF MatcherInv
<1>2. UNCHANGED given /\ UNCHANGED <<sess, quit, kill, closed, stage, process, reqs>>
  BY DEF pipeline
<1>3. R \in SUBSET AllRetrievers /\ \A x \in R : retr[x] # Idle
  OBVIOUS
<1>4. \E G \in SUBSET AllRetrievers : Given(bit, queue, due, R, new, needed, G)
  BY <1>1, <1>3, AssignedGives, Zenon
<1>5. PICK G \in SUBSET AllRetrievers : Given(bit, queue, due, R, new, needed, G)
  BY <1>4
<1>6. /\ retr' \in [AllRetrievers' -> ({Idle, Gone} \cup Takers \cup Workers)']
      /\ \A x \in AllRetrievers' : retr'[x] \in Workers' => retr'[x].missing \subseteq Range(retr'[x].sections)
      /\ Waiting'
  BY <1>1, <1>2, <1>3, <1>5, GivenType
<1>7. MatcherType'
  <2>1. /\ stage' \in [Stages -> Seq(Partials)] /\ process' \in [Stages -> Seq(Partials)]
        /\ reqs' \in [Slots -> Seq(Wanted)] /\ sess' \in DOMAIN retrievers
        /\ quit' \subseteq 1..sess' /\ kill' \subseteq quit' /\ closed' \subseteq quit'
    BY <1>1, <1>2, PipelineTypes
  <2> QED BY <1>1, <1>2, <1>6, <2>1, TypeKept
<1> QED BY <1>4, <1>6, <1>7

LEMMA OneMoved ==
    ASSUME MatcherType, NEW r \in AllRetrievers, NEW new
    PROVE  [retr EXCEPT ![r] = new] = Moved({r}, new)
BY DEF MatcherType, Moved

LEMMA FewerOfTwo ==
    ASSUME NEW a \in Nat, NEW b \in Nat PROVE Min({a, b}) \in 0..b
<1>1. CASE a <= b
  BY <1>1 DEF Min
<1>2. CASE ~(a <= b)
  BY <1>2 DEF Min
<1> QED BY <1>1, <1>2

LEMMA TaskGiven ==
    ASSUME NEW r, retr[r].bit \in Bits, NEW pc \in {"mux", "deliver"}, NEW taken \in Seq(Wanted),
           NEW back \in BOOLEAN
    PROVE  LET new == [Task(r, pc, <<>>, back) EXCEPT !.sections = taken]
           IN  /\ new \in Workers /\ new.bit = retr[r].bit /\ new.sections = taken
               /\ new.missing = {} /\ Working(new)
<1> DEFINE task == Task(r, pc, <<>>, back)
<1>1. <<>> \in Seq(Wanted)
  OBVIOUS
<1>2. task \in Workers /\ task.bit = retr[r].bit /\ task.missing = {}
  BY <1>1 DEF Task, Workers
<1> HIDE DEF task
<1>3. LET new == [task EXCEPT !.sections = taken]
      IN  /\ new \in Workers /\ new.bit = retr[r].bit /\ new.sections = taken
          /\ new.missing = {} /\ Working(new)
  BY <1>2 DEF Workers, Working
<1> QED BY <1>3 DEF task

\* Sections are taken from the queue of the bit the retriever was given.
LEMMA TakenKeeps ==
    ASSUME MatcherInv, NEW r \in AllRetrievers, retr[r].pc = "take",
           UNCHANGED <<given, sess, quit, kill, closed, pipeline, responses>>,
           NEW want \in Nat, NEW pc \in {"mux", "deliver"}, NEW back \in BOOLEAN,
           TakeFrom(r, want, Task(r, pc, <<>>, back))
    PROVE  MatcherInv'
<1>1. MatcherType /\ Waiting /\ TokenInv /\ PlaceInv /\ AllocsCounted
  BY DEF MatcherInv
<1>2. /\ d \in DistributorType /\ stray \in BOOLEAN /\ d.allocs \in Int
      /\ responses \in [Bits -> [Wanted -> {"none", "pending", "cached"}]]
      /\ d.requests \in [Bits -> Seq(Wanted)]
  BY <1>1, PipelineTypes
<1> DEFINE bit == retr[r].bit
           queue == d.requests[bit]
           n == Min({want, Len(queue)})
           taken == SubSeq(queue, 1, n)
           rest == SubSeq(queue, n + 1, Len(queue))
           new == [Task(r, pc, <<>>, back) EXCEPT !.sections = taken]
           needed == rest # <<>>
           R == {r}
<1>3. bit \in Bits /\ retr[r] \in Takers /\ retr[r] \notin Workers /\ retr[r] # Idle
  <2>1. retr[r] \in Takers /\ bit \in Bits
    BY <1>1, RetrieverStates
  <2> QED BY <2>1 DEF Takers, Workers, Idle
<1>4. queue \in Seq(Wanted) /\ n \in 0..Len(queue)
  <2>1. queue \in Seq(Wanted)
    BY <1>2, <1>3
  <2>2. Len(queue) \in Nat
    BY <2>1
  <2> QED BY <2>1, <2>2, FewerOfTwo
<1>5. /\ taken \in Seq(Wanted) /\ rest \in Seq(Wanted)
      /\ \A s : Times(queue, s) = 0 => s \notin Range(taken) /\ Times(rest, s) = 0
      /\ \A s : Times(queue, s) = 1 =>
            IF s \in Range(taken) THEN Times(rest, s) = 0 ELSE Times(rest, s) = 1
  BY <1>4, TakenFacts
<1>6. MaybeAssign([d EXCEPT !.requests[bit] = rest], bit, needed, [retr EXCEPT ![r] = new], r)
  BY Zenon DEF TakeFrom
<1> HIDE DEF queue, n, taken, rest
<1>7. new \in Workers /\ new.bit = bit /\ new.sections = taken /\ new.missing = {} /\ Working(new)
  BY <1>3, <1>5, TaskGiven
<1> HIDE DEF new
<1>8. needed \in BOOLEAN
  OBVIOUS
<1> HIDE DEF bit, needed
<1>9. /\ Assigned(bit, rest, d.allocs, [retr EXCEPT ![r] = new], needed)
      /\ d' \in DistributorType /\ stray' \in BOOLEAN /\ d'.running = d.running
      /\ stray \/ OfAnother(r) => stray'
  BY <1>1, <1>3, <1>5, <1>6, <1>8, MaybeAssignFacts
<1>10. /\ MatcherType' /\ Waiting'
       /\ \E G \in SUBSET AllRetrievers : Given(bit, rest, d.allocs, R, new, needed, G)
  <2>1. responses' \in [Bits -> [Wanted -> {"none", "pending", "cached"}]]
    BY <1>2
  <2>2. new \in {Idle, Gone} \cup Takers \cup Workers
        /\ (new \in Workers => new.missing \subseteq Range(new.sections))
    BY <1>7
  <2>3. UNCHANGED <<given, sess, quit, kill, closed, pipeline>>
    OBVIOUS
  <2>4. Assigned(bit, rest, d.allocs, Moved(R, new), needed)
    BY <1>1, <1>9, OneMoved
  <2>5. d' \in DistributorType /\ stray' \in BOOLEAN /\ retr[r] # Idle /\ R = {r}
    BY <1>3, <1>9
  <2> HIDE DEF R
  <2>6. MatcherType'
    BY <1>3, <1>8, <2>1, <2>2, <2>3, <2>4, <2>5, MetKeepsTypes
  <2>7. Waiting'
    BY <1>3, <1>8, <2>1, <2>2, <2>3, <2>4, <2>5, MetKeepsTypes
  <2>8. \E G \in SUBSET AllRetrievers : Given(bit, rest, d.allocs, R, new, needed, G)
    BY <1>3, <1>8, <2>1, <2>2, <2>3, <2>4, <2>5, MetKeepsTypes
  <2> QED BY <2>6, <2>7, <2>8
<1>11. PICK G \in SUBSET AllRetrievers : Given(bit, rest, d.allocs, R, new, needed, G)
  BY <1>10
<1>12. R = {r} /\ \A x : x \in R <=> x = r
  OBVIOUS
<1> HIDE DEF R
<1>13. Ours' = Ours /\ Bits' = Bits /\ UNCHANGED given
  BY GivenFixed DEF Ours
<1>14. ~stray' => ~stray /\ r \in Ours
  BY <1>1, <1>2, <1>9, StrayGrows
<1>15. TokenInv'
  <2> SUFFICES ASSUME ~stray' PROVE TokenInv'
    BY DEF TokenInv
  <2>1. ~stray /\ r \in Ours /\ \A b \in Bits : TokenOK(b)
    BY <1>1, <1>14 DEF TokenInv
  <2>2. Takes(r, bit)
    BY <2>1 DEF Takes, bit
  <2>3. bit \notin d.unallocs /\ \A x \in Ours \ R : ~Takes(x, bit)
    BY <1>3, <1>12, <2>1, <2>2 DEF TokenOK
  <2>4. quit \subseteq quit' /\ sess' = sess
    OBVIOUS
  <2>5. (\A x \in R : retr[x].pc = "take" => retr[x].bit = bit) /\ (R # {} => new.pc # "take")
    BY <1>7, <1>12 DEF Workers, bit
  <2>6. needed => bit \notin d.unallocs /\ (\A x \in Ours \ R : ~Takes(x, bit)) /\ rest # <<>>
    BY <2>3 DEF needed
  <2>7. bit \in d.unallocs \/ (\E x \in Ours \ R : Takes(x, bit)) => rest # <<>>
    BY <2>3
  <2>8. sess \notin quit' /\ rest # <<>> =>
            needed \/ bit \in d.unallocs \/ \E x \in Ours \ R : Takes(x, bit)
    BY DEF needed
  <2>9. \A b \in Bits : TokenOK(b)
    BY <2>1
  <2> QED BY <1>1, <1>3, <1>8, <1>11, <1>13, <2>4, <2>5, <2>6, <2>7, <2>8, <2>9, GivenTokens
<1>16. PlaceInv'
  <2> SUFFICES ASSUME Live', NEW b \in Bits, NEW t \in Wanted PROVE PlaceOK(b, t)'
    BY <1>13 DEF PlaceInv
  <2>1. Live /\ r \in Ours
    BY <1>14 DEF Live
  <2>2. PlaceOK(b, t)
    BY <1>1, <2>1 DEF PlaceInv
  <2>3. \A x \in Ours : Carries(x, b, t)' <=> IF x = r THEN b = bit /\ t \in Range(taken) ELSE Carries(x, b, t)
    BY <1>1, <1>7, <1>11, <1>12, <1>13, GivenCarries
  <2>4. ~Carries(r, b, t)
    BY <1>3 DEF Carries
  <2>5. d'.requests[b] = IF b = bit THEN rest ELSE d.requests[b]
    BY <1>2, <1>11 DEF Given
  <2>6. CASE b # bit
    <3>1. \A x \in Ours : Carries(x, b, t)' <=> Carries(x, b, t)
      BY <2>3, <2>4, <2>6
    <3> QED BY <1>13, <2>2, <2>5, <2>6, <3>1 DEF PlaceOK
  <2>7. CASE b = bit /\ responses[b][t] = "pending"
    <3>1. CASE Times(queue, t) = 1 /\ \A x \in Ours : ~Carries(x, b, t)
      <4>1. IF t \in Range(taken) THEN Times(rest, t) = 0 ELSE Times(rest, t) = 1
        BY <1>5, <3>1
      <4>2. \A x \in Ours : Carries(x, b, t)' <=> x = r /\ t \in Range(taken)
        BY <2>3, <2>7, <3>1
      <4> QED BY <1>13, <2>1, <2>5, <2>7, <4>1, <4>2 DEF PlaceOK
    <3>2. CASE Times(queue, t) = 0
                /\ \E x \in Ours : Carries(x, b, t) /\ \A q \in Ours : Carries(q, b, t) => q = x
      <4>1. t \notin Range(taken) /\ Times(rest, t) = 0
        BY <1>5, <3>2
      <4>2. \A x \in Ours : Carries(x, b, t)' <=> Carries(x, b, t)
        BY <2>3, <2>4, <4>1
      <4> QED BY <1>13, <2>5, <2>7, <3>2, <4>1, <4>2 DEF PlaceOK
    <3> QED BY <2>2, <2>7, <3>1, <3>2 DEF PlaceOK, queue
  <2>8. CASE b = bit /\ responses[b][t] # "pending"
    <3>1. Times(queue, t) = 0 /\ \A x \in Ours : ~Carries(x, b, t)
      BY <2>2, <2>8 DEF PlaceOK, queue
    <3>2. t \notin Range(taken) /\ Times(rest, t) = 0
      BY <1>5, <3>1
    <3>3. \A x \in Ours : ~Carries(x, b, t)'
      BY <2>3, <3>1, <3>2
    <3> QED BY <1>13, <2>5, <2>8, <3>2, <3>3 DEF PlaceOK
  <2> QED BY <2>6, <2>7, <2>8
<1>17. AllocsCounted'
  <2>1. CASE stray'
    BY <2>1 DEF AllocsCounted
  <2>2. CASE ~stray'
    <3>1. Working(retr[r])
      BY DEF Working
    <3>2. \E x \in Ours : /\ R = {x} /\ Working(retr[x])
                          /\ d.allocs = IF Working(new) THEN d.allocs ELSE d.allocs - 1
      BY <1>7, <1>12, <1>14, <2>2, <3>1
    <3> QED BY <1>1, <1>2, <1>9, <1>11, <1>14, <2>2, <3>2, GivenCount
  <2> QED BY <2>1, <2>2
<1> QED BY <1>10, <1>15, <1>16, <1>17 DEF MatcherInv

LEMMA AllocateSectionsKeeps ==
    ASSUME MatcherInv, NEW r \in AllRetrievers, AllocateSections(r) PROVE MatcherInv'
<1>1. retr[r].pc = "take" /\ UNCHANGED <<given, sess, quit, kill, closed, pipeline, responses>>
  BY DEF AllocateSections
<1>2. CASE TakeFrom(r, Batch, Task(r, "mux", <<>>, FALSE))
  <2>1. Batch \in Nat
    BY MatcherAssumption
  <2> QED BY <1>1, <1>2, <2>1, TakenKeeps
<1>3. CASE TakeFrom(r, 0, Task(r, "deliver", <<>>, TRUE))
  BY <1>1, <1>3, TakenKeeps
<1> QED BY <1>2, <1>3 DEF AllocateSections
LEMMA DeliverSectionsKeeps ==
    ASSUME MatcherInv, NEW r \in AllRetrievers, DeliverSections(r) PROVE MatcherInv'
<1>1. MatcherType /\ Waiting /\ TokenInv /\ PlaceInv /\ AllocsCounted
  BY DEF MatcherInv
<1>2. /\ d \in DistributorType /\ stray \in BOOLEAN /\ d.allocs \in Int
      /\ responses \in [Bits -> [Wanted -> {"none", "pending", "cached"}]]
      /\ d.requests \in [Bits -> Seq(Wanted)]
  BY <1>1, PipelineTypes
<1> DEFINE bit == retr[r].bit
           held == Range(retr[r].sections)
           more == retr[r].missing
           old == d.requests[bit]
           needed == more # {} /\ old = <<>>
           new == IF retr[r].last THEN Gone ELSE Idle
           R == {r}
           due == d.allocs - 1
<1>3. /\ retr[r].pc = "deliver" /\ d.running
      /\ HandBack(r, [retr EXCEPT ![r] = new])
      /\ UNCHANGED <<given, sess, quit, kill, closed, pipeline>>
  BY Zenon DEF DeliverSections, AtDistributor
<1>4. /\ retr[r] \in Workers /\ bit \in Bits /\ more \in SUBSET held /\ more \in SUBSET Wanted
  BY <1>1, <1>3, RetrieverStates
<1>5. retr[r] # Idle /\ retr[r].pc # "take" /\ Working(retr[r])
  BY <1>3 DEF Idle, Working
<1>6. responses' = [responses EXCEPT ![bit] =
                        [s \in Wanted |-> IF s \in Delivered(r) /\ @[s] = "pending" THEN "cached" ELSE @[s]]]
  BY DEF DeliverSections
<1>7. \A b \in Bits, t \in Wanted :
          responses'[b][t] = IF b = bit /\ t \in held /\ t \notin more /\ responses[b][t] = "pending"
                             THEN "cached" ELSE responses[b][t]
  BY <1>2, <1>4, <1>6 DEF Delivered
<1>8. responses' \in [Bits -> [Wanted -> {"none", "pending", "cached"}]]
  BY <1>2, <1>4, <1>6
<1>9. new \in {Idle, Gone} /\ new \notin Workers /\ ~Working(new) /\ new.pc # "take"
  BY DEF Idle, Gone, Workers, Working
<1> HIDE DEF new
<1>10. /\ \E queue \in Inserted(old, more) : Assigned(bit, queue, due, [retr EXCEPT ![r] = new], needed)
       /\ d' \in DistributorType /\ stray' \in BOOLEAN
       /\ stray \/ OfAnother(r) => stray'
  BY <1>1, <1>3, <1>4, HandBackFacts
<1>11. PICK queue \in Inserted(old, more) : Assigned(bit, queue, due, [retr EXCEPT ![r] = new], needed)
  BY <1>10
<1>12. old \in Seq(Wanted) /\ needed \in BOOLEAN
  BY <1>2, <1>4
<1> HIDE DEF more, old
<1>13. /\ queue \in Seq(Wanted)
       /\ queue # <<>> <=> (old # <<>> \/ more # {})
       /\ \A t \in Wanted : Times(queue, t) = Times(old, t) + (IF t \in more THEN 1 ELSE 0)
  <2>1. IsFiniteSet(more)
    BY <1>4, WantedFinite
  <2> QED BY <1>4, <1>12, <2>1, InsertedFacts
<1> HIDE DEF needed, R, due
<1>14. R = {r} /\ (\A x : x \in R <=> x = r) /\ due = d.allocs - 1
  BY DEF R, due
<1>15. /\ MatcherType' /\ Waiting'
       /\ \E G \in SUBSET AllRetrievers : Given(bit, queue, due, R, new, needed, G)
  <2>1. Assigned(bit, queue, due, Moved(R, new), needed)
    BY <1>1, <1>11, <1>14, OneMoved
  <2>2. new \in {Idle, Gone} \cup Takers \cup Workers
        /\ (new \in Workers => new.missing \subseteq Range(new.sections))
    BY <1>9
  <2>3. UNCHANGED <<given, sess, quit, kill, closed, pipeline>>
    BY <1>3
  <2>4. d' \in DistributorType /\ stray' \in BOOLEAN /\ R = {r}
    BY <1>10, <1>14
  <2>5. MatcherType'
    BY <1>4, <1>5, <1>8, <1>12, <2>1, <2>2, <2>3, <2>4, MetKeepsTypes
  <2>6. Waiting'
    BY <1>4, <1>5, <1>8, <1>12, <2>1, <2>2, <2>3, <2>4, MetKeepsTypes
  <2>7. \E G \in SUBSET AllRetrievers : Given(bit, queue, due, R, new, needed, G)
    BY <1>4, <1>5, <1>8, <1>12, <2>1, <2>2, <2>3, <2>4, MetKeepsTypes
  <2> QED BY <2>5, <2>6, <2>7
<1>16. PICK G \in SUBSET AllRetrievers : Given(bit, queue, due, R, new, needed, G)
  BY <1>15
<1>17. Ours' = Ours /\ Bits' = Bits /\ UNCHANGED given /\ sess' = sess /\ quit' = quit /\ kill' = kill
  BY <1>3, GivenFixed DEF Ours
<1>18. ~stray' => ~stray /\ r \in Ours
  BY <1>1, <1>2, <1>10, StrayGrows
<1>19. TokenInv'
  <2> SUFFICES ASSUME ~stray' PROVE TokenInv'
    BY DEF TokenInv
  <2>1. ~stray /\ r \in Ours /\ \A b \in Bits : TokenOK(b)
    BY <1>1, <1>18 DEF TokenInv
  <2>2. TokenOK(bit) /\ ~Takes(r, bit)
    BY <1>4, <1>5, <2>1 DEF Takes
  <2>3. Offered(bit) <=> bit \in d.unallocs \/ \E x \in Ours \ R : Takes(x, bit)
    BY <1>14, <2>2 DEF Offered
  <2>4. (Offered(bit) => old # <<>>) /\ (sess \notin quit /\ old # <<>> => Offered(bit))
    BY <2>2 DEF TokenOK, old
  <2>5. (\A x \in R : retr[x].pc = "take" => retr[x].bit = bit) /\ (R # {} => new.pc # "take")
    BY <1>5, <1>9, <1>14
  <2>6. needed => bit \notin d.unallocs /\ (\A x \in Ours \ R : ~Takes(x, bit)) /\ queue # <<>>
    BY <1>13, <2>3, <2>4 DEF needed
  <2>7. bit \in d.unallocs \/ (\E x \in Ours \ R : Takes(x, bit)) => queue # <<>>
    BY <1>13, <2>3, <2>4
  <2>8. sess \notin quit' /\ queue # <<>> =>
            needed \/ bit \in d.unallocs \/ \E x \in Ours \ R : Takes(x, bit)
    BY <1>13, <1>17, <2>3, <2>4 DEF needed
  <2>9. (\A b \in Bits : TokenOK(b)) /\ quit \subseteq quit'
    BY <1>17, <2>1
  <2> QED BY <1>1, <1>4, <1>12, <1>16, <1>17, <2>5, <2>6, <2>7, <2>8, <2>9, GivenTokens
<1>20. PlaceInv'
  <2> SUFFICES ASSUME Live', NEW b \in Bits, NEW t \in Wanted PROVE PlaceOK(b, t)'
    BY <1>17 DEF PlaceInv
  <2>1. Live /\ r \in Ours
    BY <1>17, <1>18 DEF Live
  <2>2. PlaceOK(b, t)
    BY <1>1, <2>1 DEF PlaceInv
  <2>3. \A x \in Ours : Carries(x, b, t)' <=> x # r /\ Carries(x, b, t)
    BY <1>1, <1>9, <1>14, <1>16, <1>17, GivenCarries
  <2>4. Carries(r, b, t) <=> b = bit /\ t \in held
    BY <1>4, <2>1 DEF Carries
  <2>5. d'.requests[b] = IF b = bit THEN queue ELSE d.requests[b]
    BY <1>2, <1>16 DEF Given
  <2>6. responses'[b][t] = IF b = bit /\ t \in held /\ t \notin more /\ responses[b][t] = "pending"
                           THEN "cached" ELSE responses[b][t]
    BY <1>7
  <2>7. CASE ~(b = bit /\ t \in held)
    <3>1. \A x \in Ours : Carries(x, b, t)' <=> Carries(x, b, t)
      BY <2>3, <2>4, <2>7
    <3>2. Times(d'.requests[b], t) = Times(d.requests[b], t)
      <4>1. CASE b = bit
        <5>1. t \notin more
          BY <1>4, <2>7, <4>1
        <5>2. Times(queue, t) = Times(old, t)
          BY <1>12, <1>13, <5>1, TimesCounts
        <5> QED BY <2>5, <4>1, <5>2 DEF old
      <4>2. CASE b # bit
        BY <2>5, <4>2
      <4> QED BY <4>1, <4>2
    <3>3. responses'[b][t] = responses[b][t]
      BY <2>6, <2>7
    <3> QED BY <1>17, <2>2, <3>1, <3>2, <3>3 DEF PlaceOK
  <2>8. CASE b = bit /\ t \in held
    <3>1. responses[b][t] = "pending" /\ Times(old, t) = 0 /\ \A q \in Ours : Carries(q, b, t) => q = r
      BY <2>1, <2>2, <2>4, <2>8 DEF PlaceOK, old
    <3>2. \A x \in Ours : ~Carries(x, b, t)'
      BY <2>3, <3>1
    <3>3. Times(queue, t) = IF t \in more THEN 1 ELSE 0
      BY <1>13, <3>1
    <3>4. responses'[b][t] = IF t \in more THEN "pending" ELSE "cached"
      BY <2>6, <2>8, <3>1
    <3> QED BY <1>17, <2>5, <2>8, <3>2, <3>3, <3>4 DEF PlaceOK
  <2> QED BY <2>7, <2>8
<1>21. AllocsCounted'
  <2>1. CASE stray'
    BY <2>1 DEF AllocsCounted
  <2>2. CASE ~stray'
    <3>1. \E x \in Ours : /\ R = {x} /\ Working(retr[x])
                          /\ due = IF Working(new) THEN d.allocs ELSE d.allocs - 1
      BY <1>5, <1>9, <1>14, <1>18, <2>2
    <3> QED BY <1>1, <1>2, <1>3, <1>16, <1>17, <1>18, <2>2, <3>1, GivenCount
  <2> QED BY <2>1, <2>2
<1> QED BY <1>15, <1>19, <1>20, <1>21 DEF MatcherInv
LEMMA NoneTimes == ASSUME NEW s PROVE Times(<<>>, s) = 0
<1>1. {i \in DOMAIN <<>> : <<>>[i] = s} = {}
  OBVIOUS
<1> QED BY <1>1, FS_EmptySet DEF Times

\* A session begins with empty books.
LEMMA StartKeeps ==
    ASSUME MatcherInv, Start PROVE MatcherInv'
<1>1. MatcherType /\ Waiting
  BY DEF MatcherInv
<1>2. /\ sess + 1 \in DOMAIN retrievers /\ sess' = sess + 1 /\ responses' = reset /\ d' = Running
      /\ UNCHANGED <<given, quit, kill, closed, stage, process, reqs, retr, stray>>
  BY DEF Start, pipeline
<1>3. /\ stage \in [Stages -> Seq(Partials)] /\ process \in [Stages -> Seq(Partials)]
      /\ reqs \in [Slots -> Seq(Wanted)] /\ stray \in BOOLEAN
      /\ responses \in [Bits -> [Wanted -> {"none", "pending", "cached"}]]
      /\ quit \subseteq 1..sess /\ kill \subseteq quit /\ closed \subseteq quit
  BY <1>1, PipelineTypes
<1>4. sess \in Nat /\ sess + 1 \in Nat
  BY <1>1, ServingFacts
<1>5. /\ Bits' = Bits /\ AllRetrievers' = AllRetrievers /\ retrievers' = retrievers
      /\ Takers' = Takers /\ Workers' = Workers /\ Idle' = Idle /\ Gone' = Gone
      /\ \A r : SessionOf(r)' = SessionOf(r)
  BY <1>2, GivenFixed DEF Idle, Gone
<1>6. Running \in DistributorType
  BY DEF Running, DistributorType
<1>7. responses' \in [Bits -> [Wanted -> {"none", "pending", "cached"}]]
      /\ \A b \in Bits, s \in Wanted : responses'[b][s] # "pending"
  BY <1>2, <1>3 DEF reset
<1>8. MatcherType'
  <2>1. quit' \subseteq 1..sess' /\ kill' \subseteq quit' /\ closed' \subseteq quit'
    BY <1>2, <1>3, <1>4
  <2>2. /\ retr' \in [AllRetrievers' -> ({Idle, Gone} \cup Takers \cup Workers)']
        /\ \A x \in AllRetrievers' : retr'[x] \in Workers' => retr'[x].missing \subseteq Range(retr'[x].sections)
    BY <1>1, <1>2, <1>5 DEF MatcherType
  <2> QED BY <1>1, <1>2, <1>3, <1>6, <1>7, <2>1, <2>2, TypeKept
<1>9. \A r \in AllRetrievers : SessionOf(r) > sess => retr[r] = Idle
  BY <1>1 DEF Waiting
<1>10. Waiting'
  <2>1. \A r \in AllRetrievers : SessionOf(r) \in Nat
    BY <1>1, ServingFacts
  <2>2. \A r \in AllRetrievers : SessionOf(r) > sess + 1 => retr[r] = Idle
    BY <1>4, <1>9, <2>1
  <2> QED BY <1>2, <1>5, <2>2 DEF Waiting
<1>11. \A r \in Ours' : retr'[r] = Idle
  <2> SUFFICES ASSUME NEW r \in retrievers[sess + 1] PROVE retr[r] = Idle
    BY <1>2, <1>5 DEF Ours
  <2>1. r \in AllRetrievers
    BY <1>2 DEF AllRetrievers
  <2>2. SessionOf(r) \in DOMAIN retrievers /\ r \in retrievers[SessionOf(r)]
    BY <1>2, Zenon DEF SessionOf
  <2>3. SessionOf(r) = sess + 1
    <3>1. PICK setup \in Setups : retrievers = setup[2]
      BY <1>1 DEF MatcherType
    <3>2. \A s, t \in DOMAIN retrievers : s # t => retrievers[s] \cap retrievers[t] = {}
      BY <3>1, MatcherAssumption
    <3> QED BY <1>2, <2>2, <3>2
  <2> QED BY <1>4, <1>9, <2>1, <2>3
<1>12. \A r \in Ours' : retr'[r] \notin Workers /\ retr'[r].pc = "alloc"
  BY <1>11 DEF Idle, Workers
<1>13. d'.unallocs = {} /\ d'.allocs = 0 /\ d'.requests = [b \in Bits |-> <<>>]
  BY <1>2 DEF Running
<1>14. TokenInv'
  <2> SUFFICES ASSUME NEW b \in Bits PROVE TokenOK(b)'
    BY <1>5 DEF TokenInv
  <2>1. \A r \in Ours' : ~Takes(r, b)'
    BY <1>12 DEF Takes
  <2>2. ~Offered(b)' /\ d'.requests[b] = <<>>
    BY <1>13, <2>1 DEF Offered
  <2> QED BY <1>13, <2>1, <2>2 DEF TokenOK
<1>15. PlaceInv'
  <2> SUFFICES ASSUME NEW b \in Bits, NEW s \in Wanted PROVE PlaceOK(b, s)'
    BY <1>5 DEF PlaceInv
  <2>1. \A r \in Ours' : ~Carries(r, b, s)'
    BY <1>5, <1>12 DEF Carries
  <2>2. Times(d'.requests[b], s) = 0
    <3>1. d'.requests[b] = <<>>
      BY <1>13
    <3> QED BY <3>1, NoneTimes, Zenon
  <2> QED BY <1>7, <2>1, <2>2 DEF PlaceOK
<1>16. AllocsCounted'
  <2>1. {r \in Ours' : retr'[r].pc \notin {"alloc", "gone"}} = {}
    BY <1>12
  <2>2. {r \in retrievers'[sess'] : retr'[r].pc \notin {"alloc", "gone"}} = {}
    BY <2>1 DEF Ours
  <2> QED BY <1>13, <2>2, FS_EmptySet DEF AllocsCounted
<1> QED BY <1>8, <1>10, <1>14, <1>15, <1>16 DEF MatcherInv

LEMMA MatcherInitInv == MatcherInit => MatcherInv
<1> SUFFICES ASSUME MatcherInit PROVE MatcherInv
  OBVIOUS
<1>1. PICK setup \in Setups : retrievers = setup[2]
  BY DEF MatcherInit
<1>2. retrievers \in Seq(Range(retrievers)) /\ retrievers # <<>>
  BY <1>1, MatcherAssumption
<1>3. 1 \in DOMAIN retrievers
  BY <1>2
<1>4. /\ sess = 1 /\ quit = {} /\ kill = {} /\ closed = {} /\ d = Running /\ stray = FALSE
      /\ stage = [f \in Stages |-> <<>>] /\ process = [f \in Stages |-> <<>>]
      /\ reqs = [k \in Slots |-> <<>>]
      /\ responses = [b \in Bits |-> [s \in Wanted |-> "none"]]
      /\ retr = [r \in AllRetrievers |-> Idle]
  BY DEF MatcherInit
<1>5. Idle \notin Workers /\ Idle.pc = "alloc"
  BY DEF Idle, Workers
<1>6. Running \in DistributorType
  BY DEF Running, DistributorType
<1>7. MatcherType
  <2>1. sess \in DOMAIN retrievers
    BY <1>3, <1>4
  <2>2. /\ stage \in [Stages -> Seq(Partials)] /\ process \in [Stages -> Seq(Partials)]
        /\ reqs \in [Slots -> Seq(Wanted)]
        /\ responses \in [Bits -> [Wanted -> {"none", "pending", "cached"}]]
    BY <1>4
  <2>3. /\ retr \in [AllRetrievers -> {Idle, Gone} \cup Takers \cup Workers]
        /\ \A r \in AllRetrievers : retr[r] \in Workers => retr[r].missing \subseteq Range(retr[r].sections)
    BY <1>4, <1>5
  <2> QED BY <1>1, <1>4, <1>6, <2>1, <2>2, <2>3 DEF MatcherType, DistributorType
<1>8. Waiting
  BY <1>4 DEF Waiting
<1>9. \A r \in Ours : retr[r] \notin Workers /\ retr[r].pc = "alloc"
  BY <1>4, <1>5, <1>7, ServingFacts
<1>10. d.unallocs = {} /\ d.allocs = 0 /\ d.requests = [b \in Bits |-> <<>>]
  BY <1>4 DEF Running
<1>11. TokenInv
  <2> SUFFICES ASSUME NEW b \in Bits PROVE TokenOK(b)
    BY DEF TokenInv
  <2>1. \A r \in Ours : ~Takes(r, b)
    BY <1>9 DEF Takes
  <2>2. ~Offered(b) /\ d.requests[b] = <<>>
    BY <1>10, <2>1 DEF Offered
  <2> QED BY <1>10, <2>1, <2>2 DEF TokenOK
<1>12. PlaceInv
  <2> SUFFICES ASSUME NEW b \in Bits, NEW s \in Wanted PROVE PlaceOK(b, s)
    BY DEF PlaceInv
  <2>1. \A r \in Ours : ~Carries(r, b, s)
    BY <1>9 DEF Carries
  <2>2. Times(d.requests[b], s) = 0
    <3>1. d.requests[b] = <<>>
      BY <1>10
    <3> QED BY <3>1, NoneTimes, Zenon
  <2>3. responses[b][s] # "pending"
    BY <1>4
  <2> QED BY <2>1, <2>2, <2>3 DEF PlaceOK
<1>13. AllocsCounted
  <2>1. {r \in retrievers[sess] : retr[r].pc \notin {"alloc", "gone"}} = {}
    BY <1>9 DEF Ours
  <2> QED BY <1>10, <2>1, FS_EmptySet DEF AllocsCounted
<1> QED BY <1>7, <1>8, <1>11, <1>12, <1>13 DEF MatcherInv

LEMMA RetrieverStepKeeps ==
    ASSUME MatcherInv, NEW r \in AllRetrievers, RetrieverStep(r) PROVE MatcherInv'
BY AllocateRetrievalKeeps, AllocateSectionsKeeps, AllocateNothingKeeps, RetrieverEndsKeeps, FetchedKeeps,
   NotFetchedKeeps, ClosedByRetrieverKeeps, DeliverSectionsKeeps, DropSectionsKeeps DEF RetrieverStep

LEMMA MatcherStepKeeps == MatcherInv /\ [MatcherNext]_matcherVars => MatcherInv'
<1> SUFFICES ASSUME MatcherInv, [MatcherNext]_matcherVars PROVE MatcherInv'
  OBVIOUS
<1>1. CASE PipelineStep
  <2>1. CASE \E f \in Stages : Fan(f) \/ Process(f)
    BY <2>1, FanKeeps, ProcessKeeps
  <2>2. CASE \E k \in Slots : Schedule(k)
    BY <2>2, ScheduleKeeps
  <2> QED BY <1>1, <2>1, <2>2 DEF PipelineStep
<1>2. CASE CloseSession \/ SessionStep \/ \E s \in DOMAIN retrievers : KillTimer(s)
  BY <1>2, ClosingKeeps
<1>3. CASE Start
  BY <1>3, StartKeeps
<1>4. CASE \E r \in AllRetrievers : RetrieverStep(r)
  BY <1>4, RetrieverStepKeeps
<1>5. CASE UNCHANGED matcherVars
  <2>1. UNCHANGED <<given, sess, responses, retr, stray, quit, kill, closed, stage, process, reqs, d>>
    BY <1>5 DEF matcherVars, pipeline
  <2> QED BY <2>1, SessionKept, PipelineTypes DEF MatcherInv
<1> QED BY <1>1, <1>2, <1>3, <1>4, <1>5 DEF MatcherNext

\* What the books say, counted.
LEMMA InvAccounts == MatcherInv => WorkAccounted
<1> SUFFICES ASSUME MatcherInv PROVE WorkAccounted
  OBVIOUS
<1>1. MatcherType /\ TokenInv /\ PlaceInv /\ AllocsCounted /\ d.requests \in [Bits -> Seq(Wanted)]
  BY PipelineTypes DEF MatcherInv
<1>2. Ours \subseteq AllRetrievers
  BY <1>1, ServingFacts
<1>3. AwaitedOnce
  <2> SUFFICES ASSUME Live, NEW bit \in Bits, NEW s \in Wanted
               PROVE  LET places == {i \in DOMAIN d.requests[bit] : d.requests[bit][i] = s}
                              \cup {r \in retrievers[sess] : "sections" \in DOMAIN retr[r] /\ retr[r].bit = bit
                                                  /\ s \in Range(retr[r].sections)}
                      IN  IF responses[bit][s] = "pending" THEN Cardinality(places) = 1 ELSE places = {}
    BY Zenon DEF AwaitedOnce
  <2> DEFINE queued == {i \in DOMAIN d.requests[bit] : d.requests[bit][i] = s}
             with == {r \in retrievers[sess] : "sections" \in DOMAIN retr[r] /\ retr[r].bit = bit
                                                  /\ s \in Range(retr[r].sections)}
  <2>1. PlaceOK(bit, s)
    BY <1>1 DEF PlaceInv
  <2>2. with = {r \in Ours : Carries(r, bit, s)}
    BY <1>1, <1>2, RetrieverStates DEF Carries, Ours
  <2>3. Times(d.requests[bit], s) = Cardinality(queued)
    BY DEF Times
  <2>4. Times(d.requests[bit], s) = 0 => queued = {}
    <3>1. d.requests[bit] \in Seq(Wanted)
      BY <1>1
    <3> QED BY <3>1, TimesCounts DEF Range
  <2> HIDE DEF queued, with
  <2>5. IF responses[bit][s] = "pending" THEN Cardinality(queued \cup with) = 1 ELSE queued \cup with = {}
    <3>1. CASE responses[bit][s] # "pending"
      BY <2>1, <2>2, <2>4, <3>1 DEF PlaceOK
    <3>2. CASE responses[bit][s] = "pending" /\ Times(d.requests[bit], s) = 1
               /\ \A r \in Ours : ~Carries(r, bit, s)
      <4>1. queued \cup with = queued
        BY <2>2, <3>2
      <4> QED BY <2>3, <3>2, <4>1
    <3>3. ASSUME responses[bit][s] = "pending", Times(d.requests[bit], s) = 0,
                 NEW r \in Ours, Carries(r, bit, s), \A q \in Ours : Carries(q, bit, s) => q = r
          PROVE  Cardinality(queued \cup with) = 1
      <4>1. queued \cup with = {r}
        BY <2>2, <2>4, <3>3
      <4> QED BY <4>1, FS_Singleton
    <3> QED BY <2>1, <3>1, <3>2, <3>3 DEF PlaceOK
  <2> QED BY <2>5 DEF queued, with
<1>4. TokenPerQueue
  <2>1. ASSUME Live, NEW bit \in Bits
        PROVE  Cardinality({r \in retrievers[sess] : retr[r].pc = "take" /\ retr[r].bit = bit})
                 + (IF bit \in d.unallocs THEN 1 ELSE 0) = (IF d.requests[bit] # <<>> THEN 1 ELSE 0)
    <3> DEFINE takers == {r \in retrievers[sess] : retr[r].pc = "take" /\ retr[r].bit = bit}
    <3>1. takers = {r \in Ours : Takes(r, bit)}
      BY DEF Takes, Ours
    <3>2. TokenOK(bit) /\ sess \notin quit
      BY <1>1, <2>1 DEF TokenInv, Live
    <3> HIDE DEF takers
    <3>3. CASE bit \in d.unallocs
      <4>1. takers = {} /\ d.requests[bit] # <<>>
        BY <3>1, <3>2, <3>3 DEF TokenOK, Offered
      <4>2. Cardinality(takers) = 0
        BY <4>1, FS_EmptySet
      <4> QED BY <3>3, <4>1, <4>2 DEF takers
    <3>4. ASSUME NEW r \in Ours, Takes(r, bit), bit \notin d.unallocs
          PROVE  Cardinality(takers) = 1 /\ d.requests[bit] # <<>>
      <4>1. takers = {r} /\ d.requests[bit] # <<>>
        BY <3>1, <3>2, <3>4 DEF TokenOK, Offered
      <4> QED BY <4>1, FS_Singleton
    <3>5. CASE bit \notin d.unallocs /\ \A r \in Ours : ~Takes(r, bit)
      <4>1. takers = {} /\ d.requests[bit] = <<>>
        BY <3>1, <3>2, <3>5 DEF TokenOK, Offered
      <4>2. Cardinality(takers) = 0
        BY <4>1, FS_EmptySet
      <4> QED BY <3>5, <4>1, <4>2 DEF takers
    <3> QED BY <3>3, <3>4, <3>5 DEF takers
  <2>2. ~stray => \A bit \in d.unallocs : d.requests[bit] # <<>>
    <3>1. d.unallocs \subseteq Bits
      BY <1>1, PipelineTypes
    <3> QED BY <1>1, <3>1 DEF TokenInv, TokenOK, Offered
  <2> QED BY <2>1, <2>2 DEF TokenPerQueue
<1> QED BY <1>1, <1>3, <1>4 DEF WorkAccounted

(* The distributor's books stay right, whoever delivers, fails or closes:  *)
(* every awaited vector is queued or held once, every bit with requests is *)
(* offered once, and the retrievers that owe a delivery are counted.       *)
(* WorkAccounted is not inductive: it takes that a bit is offered only     *)
(* with requests also after the session is closed, and that the            *)
(* retrievers of later sessions wait (distributor, deliver, Multiplex).    *)
THEOREM WorkIsAccounted == Spec => []WorkAccounted
<1>1. Init => MatcherInv
  BY MatcherInitInv DEF Init, AtFirst
<1>2. MatcherInv /\ [Next]_vars => MatcherInv'
  <2> SUFFICES ASSUME MatcherInv, [Next]_vars PROVE MatcherInv'
    OBVIOUS
  <2>1. MatcherNext \/ UNCHANGED matcherVars
    BY DEF Next, vars
  <2> QED BY <2>1, MatcherStepKeeps
<1> QED BY <1>1, <1>2, InvAccounts, PTL DEF Spec
=============================================================================
