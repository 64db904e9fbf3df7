------------------------ MODULE BackupRestoreProofs ------------------------
(***************************************************************************)
(* Proofs about BackupRestore for every set of backup paths and any number *)
(* of writes, killed tools and lost or damaged files.                      *)
(*                                                                         *)
(* The tools keep no state but the files and where they are.  The          *)
(* inductive invariant says what each place guarantees about the files,    *)
(* and why the other tool cannot have taken it away.                       *)
(***************************************************************************)
EXTENDS BackupRestore, TLAPS

-----------------------------------------------------------------------------
(* The inductive invariant.                                                *)

\* While a restore runs, nothing is in the database's place but at most the
\* empty file that a backup's connection leaves there.
PlaceInv ==
    /\ db.whole
    /\ restore # Idle => ~running /\ db.kind \in {"absent", "empty"}

\* A backup has its path for itself, and its checksum is that of a checked copy.
BackupInv ==
    /\ backup # Idle => backup.to \notin sound
    /\ BackupAt("connect") => copy[backup.to] = Absent
    /\ BackupAt("copy") => ~copy[backup.to].whole
    /\ BackupAt("digest") \/ BackupAt("checksum") => LooksRight(copy[backup.to])

\* A backup that was finished, and neither removed nor damaged, is as it was.
SoundInv == \A p \in sound : checksum[p] = copy[p] /\ LooksRight(copy[p])

\* A digest is that of a file whose backup was finished.
DigestInv == \A q \in Paths : checksum[q] \in NoDigest \union finished

\* From its checks on, a restore works with a finished backup.
RestoreInv ==
    /\ RestoreAt("open") \/ RestoreAt("copy") =>
        LooksRight(copy[restore.from]) /\ copy[restore.from] \in finished
    /\ RestoreAt("replace") => temporary.whole /\ temporary \in finished
    /\ restored \subseteq finished

FilesInv ==
    /\ TypeOK
    /\ PlaceInv
    /\ BackupInv
    /\ SoundInv
    /\ DigestInv
    /\ RestoreInv

-----------------------------------------------------------------------------
(* Operators.                                                              *)

\* A tool that is somewhere is not idle, and it knows its files.
LEMMA StepsAreNotIdle ==
    /\ \A b \in BackupSteps : b # Idle /\ b.to \in Paths
    /\ \A r \in RestoreSteps : r # Idle /\ r.from \in Paths /\ r.by \in Paths
  BY DEF BackupSteps, RestoreSteps, Idle

\* A backup goes from one step to another with the same path.
LEMMA BackupMoves ==
    ASSUME TypeOK, backup # Idle,
           NEW step \in {"connect", "copy", "verify", "digest", "checksum"}, BackupGoes(step)
    PROVE  /\ backup' \in BackupSteps /\ backup' # Idle
           /\ backup'.at = step /\ backup'.to = backup.to /\ backup.to \in Paths
  <1>1. backup \in BackupSteps
    BY DEF TypeOK
  <1>2. backup' \in BackupSteps /\ backup'.at = step /\ backup'.to = backup.to
    BY <1>1 DEF BackupGoes, BackupSteps
  <1> QED
    BY <1>1, <1>2, StepsAreNotIdle

\* So does a restore.
LEMMA RestoreMoves ==
    ASSUME TypeOK, restore # Idle, NEW step \in {"verify", "open", "copy", "replace"}, RestoreGoes(step)
    PROVE  /\ restore' \in RestoreSteps /\ restore' # Idle /\ restore'.at = step
           /\ restore'.from = restore.from /\ restore'.by = restore.by
           /\ restore.from \in Paths /\ restore.by \in Paths
  <1>1. restore \in RestoreSteps
    BY DEF TypeOK
  <1>2. restore' \in RestoreSteps /\ restore'.at = step
    BY <1>1 DEF RestoreGoes, RestoreSteps
  <1>3. restore'.from = restore.from /\ restore'.by = restore.by
    BY <1>1 DEF RestoreGoes, RestoreSteps
  <1> QED
    BY <1>1, <1>2, <1>3, StepsAreNotIdle

\* A file that holds something, and is whole.
LEMMA WholeFile ==
    ASSUME NEW k \in Kinds, NEW n \in 0..MaxWrites
    PROVE  File(k, n) \in Files /\ File(k, n).kind = k /\ File(k, n).whole
  BY DEF Files, File

\* The files that hold nothing.
LEMMA EmptyFiles ==
    /\ Absent \in Files /\ Absent.kind = "absent" /\ Absent.whole
    /\ File("empty", 0) \in Files /\ File("empty", 0).kind = "empty" /\ File("empty", 0).whole
  <1>1. 0 \in 0..MaxWrites
    BY BackupAssumption
  <1> QED
    BY <1>1, WholeFile DEF Absent, Kinds

\* A file that is torn holds what it held.
LEMMA TornFile ==
    ASSUME NEW f \in Files
    PROVE  Torn(f) \in Files /\ ~Torn(f).whole /\ Torn(f).kind = f.kind
  BY DEF Files, Torn

\* The parts of the invariant that a step leaves alone.
LEMMA Frames ==
    ASSUME FilesInv
    PROVE  /\ UNCHANGED <<db, restore, running>> => PlaceInv'
           /\ UNCHANGED <<backup, copy, sound>> => BackupInv'
           /\ UNCHANGED <<sound, checksum, copy>> => SoundInv'
           /\ UNCHANGED <<checksum, finished>> => DigestInv'
           /\ UNCHANGED <<restore, copy, temporary, finished, restored>> => RestoreInv'
  <1>1. UNCHANGED <<db, restore, running>> => PlaceInv'
    BY DEF FilesInv, PlaceInv
  <1>2. UNCHANGED <<backup, copy, sound>> => BackupInv'
    BY DEF FilesInv, BackupInv, BackupAt
  <1>3. UNCHANGED <<sound, checksum, copy>> => SoundInv'
    BY DEF FilesInv, SoundInv
  <1>4. UNCHANGED <<checksum, finished>> => DigestInv'
    BY DEF FilesInv, DigestInv
  <1>5. UNCHANGED <<restore, copy, temporary, finished, restored>> => RestoreInv'
    BY DEF FilesInv, RestoreInv, RestoreAt
  <1> QED
    BY <1>1, <1>2, <1>3, <1>4, <1>5

\* A path is written while no restore relies on it: a copy that is absent or
\* torn has not passed the checks of one.
LEMMA RestoreUndisturbed ==
    ASSUME FilesInv, NEW p \in Paths, ~LooksRight(copy[p]),
           copy' \in [Paths -> Files], \A q \in Paths : q # p => copy'[q] = copy[q],
           UNCHANGED <<restore, temporary, finished, restored>>
    PROVE  RestoreInv'
  <1>1. RestoreAt("open") \/ RestoreAt("copy") => restore.from # p /\ restore.from \in Paths
    BY StepsAreNotIdle DEF FilesInv, TypeOK, RestoreInv, RestoreAt
  <1> QED
    BY <1>1 DEF FilesInv, RestoreInv, RestoreAt

-----------------------------------------------------------------------------
(* The backup tool.                                                        *)

\* A backup begins at a path that is free, and so is none of the sound ones.
LEMMA BeginBackupKeepsInv ==
    ASSUME FilesInv, NEW p \in Paths, BeginBackup(p)
    PROVE  FilesInv'
  <1>1. /\ copy[p] = Absent /\ backup' = [at |-> "connect", to |-> p]
        /\ UNCHANGED <<db, temporary, copy, checksum, running, restore, last, finished, sound, restored, faults>>
    BY DEF BeginBackup, MayCreate, files
  <1>2. backup' \in BackupSteps /\ backup'.at = "connect" /\ backup'.to = p
    BY <1>1 DEF BackupSteps
  <1>3. TypeOK'
    BY <1>1, <1>2 DEF FilesInv, TypeOK
  <1>4. BackupInv'
    <2>1. p \notin sound
      BY <1>1, EmptyFiles DEF FilesInv, SoundInv, LooksRight
    <2> QED
      BY <1>1, <1>2, <2>1 DEF BackupInv, BackupAt
  <1> QED
    BY <1>1, <1>3, <1>4, Frames DEF FilesInv

\* The connection may create the database's file; the copy is torn until the
\* last page is written.
LEMMA ConnectKeepsInv ==
    ASSUME FilesInv, Connect
    PROVE  FilesInv'
  <1> DEFINE source == IF db = Absent THEN File("empty", 0) ELSE db
  <1>1. /\ backup # Idle /\ BackupAt("connect") /\ BackupGoes("copy")
        /\ db' = source /\ copy' = [copy EXCEPT ![backup.to] = Torn(source)]
        /\ UNCHANGED <<temporary, checksum, running, restore, last, finished, sound, restored, faults>>
    BY DEF Connect, BackupAt
  <1>2. /\ backup' \in BackupSteps /\ backup'.at = "copy" /\ backup'.to = backup.to
        /\ backup.to \in Paths
    BY <1>1, BackupMoves DEF FilesInv
  <1>3. /\ source \in Files /\ source.whole
        /\ Torn(source) \in Files /\ ~Torn(source).whole
    BY EmptyFiles, TornFile DEF FilesInv, TypeOK, PlaceInv
  <1>4. /\ running => source.kind = "v1"
        /\ restore # Idle => ~running /\ source.kind \in {"absent", "empty"}
    BY EmptyFiles DEF FilesInv, TypeOK, PlaceInv
  <1> HIDE DEF source
  <1>5. TypeOK'
    BY <1>1, <1>2, <1>3, <1>4 DEF FilesInv, TypeOK
  <1>6. PlaceInv'
    BY <1>1, <1>3, <1>4 DEF PlaceInv
  <1>7. copy[backup.to] = Absent /\ backup.to \notin sound
    BY <1>1 DEF FilesInv, BackupInv
  <1>8. BackupInv'
    BY <1>1, <1>2, <1>3, <1>7 DEF FilesInv, TypeOK, BackupInv, BackupAt
  <1>9. SoundInv'
    BY <1>1, <1>7 DEF FilesInv, TypeOK, SoundInv
  <1>10. RestoreInv'
    <2>1. ~LooksRight(copy[backup.to])
      BY <1>7, EmptyFiles DEF LooksRight
    <2>2. copy' \in [Paths -> Files] /\ \A q \in Paths : q # backup.to => copy'[q] = copy[q]
      BY <1>1, <1>3 DEF FilesInv, TypeOK
    <2> QED
      BY <1>1, <1>2, <2>1, <2>2, RestoreUndisturbed
  <1> QED
    BY <1>1, <1>5, <1>6, <1>8, <1>9, <1>10, Frames DEF FilesInv

\* The pages are copied.
LEMMA CopyPagesKeepsInv ==
    ASSUME FilesInv, CopyPages
    PROVE  FilesInv'
  <1>1. /\ backup # Idle /\ BackupAt("copy") /\ BackupGoes("verify")
        /\ copy' = [copy EXCEPT ![backup.to].whole = TRUE]
        /\ UNCHANGED <<db, temporary, checksum, running, restore, last, finished, sound, restored, faults>>
    BY DEF CopyPages, BackupAt
  <1>2. /\ backup' \in BackupSteps /\ backup'.at = "verify" /\ backup'.to = backup.to
        /\ backup.to \in Paths
    BY <1>1, BackupMoves DEF FilesInv
  <1>3. /\ copy' \in [Paths -> Files]
        /\ \A q \in Paths : q # backup.to => copy'[q] = copy[q]
    BY <1>1, <1>2 DEF FilesInv, TypeOK, Files
  <1>4. TypeOK'
    BY <1>1, <1>2, <1>3 DEF FilesInv, TypeOK
  <1>5. ~copy[backup.to].whole /\ backup.to \notin sound
    BY <1>1 DEF FilesInv, BackupInv
  <1>6. BackupInv'
    BY <1>1, <1>2, <1>5 DEF BackupInv, BackupAt
  <1>7. SoundInv'
    BY <1>1, <1>3, <1>5 DEF FilesInv, TypeOK, SoundInv
  <1>8. RestoreInv'
    BY <1>1, <1>2, <1>3, <1>5, RestoreUndisturbed DEF LooksRight
  <1> QED
    BY <1>1, <1>4, <1>6, <1>7, <1>8, Frames DEF FilesInv

\* The copy is checked before a digest is taken.
LEMMA VerifyCopyKeepsInv ==
    ASSUME FilesInv, VerifyCopy
    PROVE  FilesInv'
  <1>1. UNCHANGED <<db, temporary, copy, checksum, running, restore, last, finished, sound, restored, faults>>
    BY DEF VerifyCopy, files
  <1>2. CASE LooksRight(copy[backup.to])
    <2>1. /\ backup # Idle /\ backup' \in BackupSteps /\ backup'.at = "digest" /\ backup'.to = backup.to
      BY <1>2, BackupMoves DEF FilesInv, VerifyCopy, BackupAt
    <2>2. TypeOK' /\ BackupInv'
      BY <1>1, <1>2, <2>1 DEF FilesInv, TypeOK, BackupInv, BackupAt
    <2> QED
      BY <1>1, <2>2, Frames DEF FilesInv
  <1>3. CASE ~LooksRight(copy[backup.to])
    <2>1. TypeOK' /\ BackupInv'
      BY <1>1, <1>3 DEF VerifyCopy, FilesInv, TypeOK, BackupInv, BackupAt
    <2> QED
      BY <1>1, <2>1, Frames DEF FilesInv
  <1> QED
    BY <1>2, <1>3

\* The checksum file is emptied, and then written.
LEMMA ChecksumKeepsInv ==
    ASSUME FilesInv, OpenChecksum \/ WriteChecksum
    PROVE  FilesInv'
  <1>1. CASE OpenChecksum
    <2>1. /\ backup # Idle /\ BackupAt("digest") /\ BackupGoes("checksum")
          /\ checksum' = [checksum EXCEPT ![backup.to] = File("empty", 0)]
          /\ UNCHANGED <<db, temporary, copy, running, restore, last, finished, sound, restored, faults>>
      BY <1>1 DEF OpenChecksum, BackupAt
    <2>2. /\ backup' \in BackupSteps /\ backup'.at = "checksum" /\ backup'.to = backup.to
      BY <2>1, BackupMoves DEF FilesInv
    <2>3. TypeOK'
      BY <2>1, <2>2, EmptyFiles DEF FilesInv, TypeOK
    <2>4. BackupInv'
      BY <2>1, <2>2 DEF FilesInv, BackupInv, BackupAt
    <2>5. SoundInv'
      BY <2>1 DEF FilesInv, TypeOK, BackupInv, SoundInv
    <2>6. DigestInv'
      BY <2>1 DEF FilesInv, TypeOK, DigestInv, NoDigest
    <2> QED
      BY <2>1, <2>3, <2>4, <2>5, <2>6, Frames DEF FilesInv
  <1>2. CASE WriteChecksum
    <2>1. /\ BackupAt("checksum") /\ backup \in BackupSteps /\ backup.to \in Paths
          /\ checksum' = [checksum EXCEPT ![backup.to] = copy[backup.to]]
          /\ finished' = finished \union {copy[backup.to]}
          /\ sound' = sound \union {backup.to}
          /\ backup' = Idle
          /\ UNCHANGED <<db, temporary, copy, running, restore, last, restored, faults>>
      BY <1>2, StepsAreNotIdle DEF WriteChecksum, BackupAt, FilesInv, TypeOK
    <2>2. LooksRight(copy[backup.to])
      BY <2>1 DEF FilesInv, BackupInv
    <2>3. TypeOK'
      BY <2>1 DEF FilesInv, TypeOK
    <2>4. BackupInv'
      BY <2>1 DEF BackupInv, BackupAt
    <2>5. SoundInv'
      BY <2>1, <2>2 DEF FilesInv, TypeOK, SoundInv
    <2>6. DigestInv'
      BY <2>1 DEF FilesInv, TypeOK, DigestInv
    <2>7. RestoreInv'
      BY <2>1 DEF FilesInv, RestoreInv, RestoreAt
    <2> QED
      BY <2>1, <2>3, <2>4, <2>5, <2>6, <2>7, Frames DEF FilesInv
  <1> QED
    BY <1>1, <1>2

-----------------------------------------------------------------------------
(* The restore tool.                                                       *)

\* A restore begins only where no database is.
LEMMA BeginRestoreKeepsInv ==
    ASSUME FilesInv, NEW p \in Paths, NEW q \in Paths, BeginRestore(p, q)
    PROVE  FilesInv'
  <1>1. /\ ~running /\ db = Absent /\ restore' = [at |-> "verify", from |-> p, by |-> q]
        /\ UNCHANGED <<db, temporary, copy, checksum, running, backup, last, finished, sound, restored, faults>>
    BY DEF BeginRestore, MayRestore, files
  <1>2. restore' \in RestoreSteps /\ restore'.at = "verify"
    BY <1>1 DEF RestoreSteps
  <1>3. TypeOK'
    BY <1>1, <1>2 DEF FilesInv, TypeOK
  <1>4. PlaceInv'
    BY <1>1, EmptyFiles DEF PlaceInv
  <1>5. RestoreInv'
    BY <1>1, <1>2 DEF FilesInv, RestoreInv, RestoreAt
  <1> QED
    BY <1>1, <1>3, <1>4, <1>5, Frames DEF FilesInv

\* A backup that passes the checks was finished: its digest was written then.
LEMMA VerifyBackupKeepsInv ==
    ASSUME FilesInv, VerifyBackup
    PROVE  FilesInv'
  <1>1. /\ restore # Idle
        /\ UNCHANGED <<db, temporary, copy, checksum, running, backup, last, finished, sound, restored, faults>>
    BY DEF VerifyBackup, RestoreAt, files
  <1>2. CASE ChecksumMatches(restore.from, restore.by) /\ LooksRight(copy[restore.from])
    <2>1. /\ restore' \in RestoreSteps /\ restore' # Idle /\ restore'.at = "open"
          /\ restore'.from = restore.from /\ restore.by \in Paths
      BY <1>1, <1>2, RestoreMoves DEF FilesInv, VerifyBackup
    <2>2. copy[restore.from] \in finished
      BY <1>2, <2>1 DEF FilesInv, DigestInv, ChecksumMatches
    <2>3. TypeOK'
      BY <1>1, <2>1 DEF FilesInv, TypeOK
    <2>4. PlaceInv'
      BY <1>1 DEF FilesInv, PlaceInv
    <2>5. RestoreInv'
      BY <1>1, <1>2, <2>1, <2>2 DEF FilesInv, RestoreInv, RestoreAt
    <2> QED
      BY <1>1, <2>3, <2>4, <2>5, Frames DEF FilesInv
  <1>3. CASE restore' = Idle
    <2>1. TypeOK' /\ PlaceInv'
      BY <1>1, <1>3 DEF FilesInv, TypeOK, PlaceInv
    <2>2. RestoreInv'
      BY <1>1, <1>3 DEF FilesInv, RestoreInv, RestoreAt
    <2> QED
      BY <1>1, <2>1, <2>2, Frames DEF FilesInv
  <1> QED
    BY <1>2, <1>3 DEF VerifyBackup

\* The copy is made beside the database.
LEMMA TemporaryKeepsInv ==
    ASSUME FilesInv, OpenTemporary \/ CopyTemporary
    PROVE  FilesInv'
  <1>1. /\ restore # Idle
        /\ UNCHANGED <<db, copy, checksum, running, backup, last, finished, sound, restored, faults>>
    BY DEF OpenTemporary, CopyTemporary, RestoreAt, Beside
  <1>2. /\ RestoreAt("open") \/ RestoreAt("copy")
        /\ LooksRight(copy[restore.from]) /\ copy[restore.from] \in finished
        /\ restore.from \in Paths
    BY <1>1, StepsAreNotIdle DEF OpenTemporary, CopyTemporary, FilesInv, TypeOK, RestoreInv
  <1>3. CASE OpenTemporary
    <2>1. /\ temporary' = Torn(copy[restore.from])
          /\ restore' \in RestoreSteps /\ restore'.at = "copy" /\ restore'.from = restore.from
      BY <1>1, <1>3, RestoreMoves DEF OpenTemporary, Beside, FilesInv
    <2>2. TypeOK'
      BY <1>1, <1>2, <2>1, TornFile DEF FilesInv, TypeOK
    <2>3. PlaceInv'
      BY <1>1, <2>1 DEF FilesInv, PlaceInv
    <2>4. RestoreInv'
      BY <1>1, <1>2, <2>1 DEF FilesInv, RestoreInv, RestoreAt
    <2> QED
      BY <1>1, <2>2, <2>3, <2>4, Frames DEF FilesInv
  <1>4. CASE CopyTemporary
    <2>1. /\ temporary' = copy[restore.from]
          /\ restore' \in RestoreSteps /\ restore'.at = "replace" /\ restore'.from = restore.from
      BY <1>1, <1>4, RestoreMoves DEF CopyTemporary, FilesInv
    <2>2. TypeOK'
      BY <1>1, <1>2, <2>1 DEF FilesInv, TypeOK
    <2>3. PlaceInv'
      BY <1>1, <2>1 DEF FilesInv, PlaceInv
    <2>4. RestoreInv'
      BY <1>1, <1>2, <2>1 DEF FilesInv, RestoreInv, RestoreAt, LooksRight
    <2> QED
      BY <1>1, <2>2, <2>3, <2>4, Frames DEF FilesInv
  <1> QED
    BY <1>3, <1>4

\* The rename puts a whole, finished copy in place.
LEMMA ReplaceKeepsInv ==
    ASSUME FilesInv, ReplaceDatabase
    PROVE  FilesInv'
  <1>1. /\ restore # Idle /\ RestoreAt("replace")
        /\ db' = temporary /\ temporary' = Absent /\ restore' = Idle
        /\ restored' = restored \union {temporary}
        /\ UNCHANGED <<copy, checksum, running, backup, last, finished, sound, faults>>
    BY DEF ReplaceDatabase, RestoreAt
  <1>2. temporary.whole /\ temporary \in finished /\ ~running
    BY <1>1 DEF FilesInv, RestoreInv, PlaceInv
  <1>3. TypeOK'
    BY <1>1, <1>2, EmptyFiles DEF FilesInv, TypeOK
  <1>4. PlaceInv'
    BY <1>1, <1>2 DEF PlaceInv
  <1>5. RestoreInv'
    BY <1>1, <1>2 DEF FilesInv, RestoreInv, RestoreAt
  <1> QED
    BY <1>1, <1>3, <1>4, <1>5, Frames DEF FilesInv

-----------------------------------------------------------------------------
(* Services, operators and faults.                                         *)

\* A service starts on no database or on a v1 one, never during a restore.
LEMMA ServiceKeepsInv ==
    ASSUME FilesInv, StartService \/ StopService \/ Write
    PROVE  FilesInv'
  <1>1. UNCHANGED <<temporary, copy, checksum, backup, restore, finished, sound, restored, faults>>
    BY DEF StartService, StopService, Write, files
  <1>2. CASE StopService
    <2>1. UNCHANGED <<db, last>> /\ running' = FALSE
      BY <1>2 DEF StopService, files
    <2>2. TypeOK' /\ PlaceInv'
      BY <1>1, <2>1 DEF FilesInv, TypeOK, PlaceInv
    <2> QED
      BY <1>1, <2>2, Frames DEF FilesInv
  <1>3. CASE StartService \/ Write
    <2>1. running' = TRUE /\ restore = Idle
      BY <1>3 DEF StartService, Write, FilesInv, TypeOK, PlaceInv
    <2>2. \/ UNCHANGED <<db, last>> /\ db.kind = "v1"
          \/ last + 1 \in 0..MaxWrites /\ db' = File("v1", last + 1) /\ last' = last + 1
      <3>1. db.kind \in {"absent", "empty", "foreign", "v1"}
        BY DEF FilesInv, TypeOK, Files, Kinds
      <3> QED
        BY <1>3, <3>1, BackupAssumption DEF StartService, Write, Rejected, FilesInv, TypeOK
    <2>3. "v1" \in Kinds
      BY DEF Kinds
    <2>4. db' \in Files /\ db'.kind = "v1" /\ db'.whole /\ last' \in 0..MaxWrites
      BY <2>2, <2>3, WholeFile DEF FilesInv, TypeOK, PlaceInv
    <2>5. TypeOK'
      BY <1>1, <2>1, <2>4 DEF FilesInv, TypeOK
    <2>6. PlaceInv'
      BY <1>1, <2>1, <2>4 DEF PlaceInv
    <2> QED
      BY <1>1, <2>5, <2>6, Frames DEF FilesInv
  <1> QED
    BY <1>2, <1>3

\* A fresh volume holds no file.
LEMMA FreshVolumeKeepsInv ==
    ASSUME FilesInv, FreshVolume
    PROVE  FilesInv'
  <1>1. /\ ~running /\ restore = Idle /\ db' = Absent /\ temporary' = Absent
        /\ faults' \in 0..MaxFaults
        /\ UNCHANGED <<copy, checksum, running, backup, restore, last, finished, sound, restored>>
    BY BackupAssumption DEF FreshVolume, Fault, FilesInv, TypeOK
  <1>2. TypeOK'
    BY <1>1, EmptyFiles DEF FilesInv, TypeOK
  <1>3. PlaceInv'
    BY <1>1, EmptyFiles DEF PlaceInv
  <1>4. RestoreInv'
    BY <1>1 DEF FilesInv, RestoreInv, RestoreAt
  <1> QED
    BY <1>1, <1>2, <1>3, <1>4, Frames DEF FilesInv

\* A stored backup is removed or damaged while no tool uses it.
LEMMA LossKeepsInv ==
    ASSUME FilesInv, NEW p \in Paths, RemoveCopy(p) \/ Decay(p)
    PROVE  FilesInv'
  <1>1. /\ ~InUse(p)
        /\ sound' = sound \ {p}
        /\ faults' \in 0..MaxFaults
        /\ checksum' = checksum \/ checksum' = [checksum EXCEPT ![p] = Absent]
        /\ UNCHANGED <<db, temporary, running, backup, restore, last, finished, restored>>
    BY BackupAssumption DEF RemoveCopy, Decay, Fault, FilesInv, TypeOK
  <1>2. copy' \in [Paths -> Files] /\ \A q \in Paths : q # p => copy'[q] = copy[q]
    BY EmptyFiles, TornFile DEF RemoveCopy, Decay, FilesInv, TypeOK
  <1>3. checksum' \in [Paths -> Files] /\ \A q \in Paths : q # p => checksum'[q] = checksum[q]
    BY <1>1, EmptyFiles DEF FilesInv, TypeOK
  <1>4. TypeOK'
    BY <1>1, <1>2, <1>3 DEF FilesInv, TypeOK
  <1>5. BackupInv'
    <2>1. backup # Idle => backup.to # p /\ backup.to \in Paths
      BY <1>1, StepsAreNotIdle DEF InUse, FilesInv, TypeOK
    <2> QED
      BY <1>1, <1>2, <2>1 DEF FilesInv, BackupInv, BackupAt
  <1>6. SoundInv'
    BY <1>1, <1>2, <1>3 DEF FilesInv, TypeOK, SoundInv
  <1>7. DigestInv'
    BY <1>1, <1>3 DEF FilesInv, TypeOK, DigestInv, NoDigest
  <1>8. RestoreInv'
    <2>1. restore # Idle => restore.from # p /\ restore.from \in Paths
      BY <1>1, StepsAreNotIdle DEF InUse, FilesInv, TypeOK
    <2> QED
      BY <1>1, <1>2, <2>1 DEF FilesInv, RestoreInv, RestoreAt
  <1> QED
    BY <1>1, <1>4, <1>5, <1>6, <1>7, <1>8, Frames DEF FilesInv

\* A killed tool leaves the files as they are.
LEMMA KillKeepsInv ==
    ASSUME FilesInv, Kill
    PROVE  FilesInv'
  <1>1. /\ backup' \in {backup, Idle} /\ restore' \in {restore, Idle}
        /\ faults' \in 0..MaxFaults
        /\ UNCHANGED <<db, temporary, copy, checksum, running, last, finished, sound, restored>>
    BY BackupAssumption DEF Kill, Fault, files, FilesInv, TypeOK
  <1>2. TypeOK'
    BY <1>1 DEF FilesInv, TypeOK
  <1>3. PlaceInv' /\ BackupInv'
    BY <1>1 DEF FilesInv, PlaceInv, BackupInv, BackupAt
  <1>4. RestoreInv'
    BY <1>1 DEF FilesInv, RestoreInv, RestoreAt
  <1> QED
    BY <1>1, <1>2, <1>3, <1>4, Frames DEF FilesInv

-----------------------------------------------------------------------------
(* The theorems.                                                           *)

\* Before the first service, backup or restore.
LEMMA InitHasInv == Init => FilesInv
  <1> SUFFICES ASSUME Init PROVE FilesInv
    OBVIOUS
  <1>1. db \in Files /\ db.whole
    <2>1. {"foreign", "v1"} \subseteq Kinds /\ 0 \in 0..MaxWrites
      BY BackupAssumption DEF Kinds
    <2> QED
      BY <2>1, WholeFile, EmptyFiles DEF Init
  <1>2. TypeOK
    <2>1. last \in 0..MaxWrites /\ faults \in 0..MaxFaults
      BY BackupAssumption DEF Init
    <2> QED
      BY <1>1, <2>1, EmptyFiles DEF Init, TypeOK
  <1>3. PlaceInv /\ BackupInv /\ SoundInv
    BY <1>1 DEF Init, PlaceInv, BackupInv, SoundInv, BackupAt
  <1>4. DigestInv /\ RestoreInv
    BY DEF Init, DigestInv, NoDigest, RestoreInv, RestoreAt
  <1> QED
    BY <1>2, <1>3, <1>4 DEF FilesInv

\* Every step of a tool, a service, an operator or a fault.
LEMMA StepKeepsInv == FilesInv /\ [Next]_vars => FilesInv'
  <1> SUFFICES ASSUME FilesInv, [Next]_vars PROVE FilesInv'
    OBVIOUS
  <1>1. ASSUME NEW p \in Paths, BeginBackup(p) \/ RemoveCopy(p) \/ Decay(p)
        PROVE  FilesInv'
    BY <1>1, BeginBackupKeepsInv, LossKeepsInv
  <1>2. ASSUME NEW p \in Paths, NEW q \in Paths, BeginRestore(p, q)
        PROVE  FilesInv'
    BY <1>2, BeginRestoreKeepsInv
  <1>3. CASE Connect \/ CopyPages \/ VerifyCopy \/ OpenChecksum \/ WriteChecksum
    BY <1>3, ConnectKeepsInv, CopyPagesKeepsInv, VerifyCopyKeepsInv, ChecksumKeepsInv
  <1>4. CASE VerifyBackup \/ OpenTemporary \/ CopyTemporary \/ ReplaceDatabase
    BY <1>4, VerifyBackupKeepsInv, TemporaryKeepsInv, ReplaceKeepsInv
  <1>5. CASE StartService \/ StopService \/ Write \/ FreshVolume \/ Kill
    BY <1>5, ServiceKeepsInv, FreshVolumeKeepsInv, KillKeepsInv
  <1>6. CASE UNCHANGED vars
    <2>1. TypeOK'
      BY <1>6 DEF vars, files, FilesInv, TypeOK
    <2> QED
      BY <1>6, <2>1, Frames DEF vars, files, FilesInv
  <1> QED
    BY <1>1, <1>2, <1>3, <1>4, <1>5, <1>6 DEF Next

\* The invariant holds throughout.
LEMMA InvHolds == Spec => []FilesInv
  BY InitHasInv, StepKeepsInv, PTL DEF Spec

\* Files and tools are well typed, and a running service has a v1 database.
THEOREM FilesTypeCorrect == Spec => []TypeOK
  <1>1. FilesInv => TypeOK
    BY DEF FilesInv
  <1> QED
    BY <1>1, InvHolds, PTL

\* restore_database never leaves part of a database in place, wherever it is
\* killed, and neither does a backup.
THEOREM DatabaseStaysWhole == Spec => []DatabaseIsWhole
  <1>1. FilesInv => DatabaseIsWhole
    BY DEF FilesInv, PlaceInv, DatabaseIsWhole
  <1> QED
    BY <1>1, InvHolds, PTL

\* A restore puts in place only what a completed backup had copied.
THEOREM RestoresAreBackups == Spec => []RestoredWasBackedUp
  <1>1. FilesInv => RestoredWasBackedUp
    BY DEF FilesInv, RestoreInv, RestoredWasBackedUp
  <1> QED
    BY <1>1, InvHolds, PTL

\* A completed backup stays restorable until somebody removes it or it decays.
THEOREM BackupsAreKept == Spec => []FinishedBackupsKept
  <1>1. FilesInv => FinishedBackupsKept
    BY DEF FilesInv, SoundInv, LooksRight, FinishedBackupsKept
  <1> QED
    BY <1>1, InvHolds, PTL

\* No tool replaces data in place.
THEOREM DataIsNotReplaced == Spec => DataSurvives
  <1>1. FilesInv /\ [Next]_vars =>
            [db.kind = "v1" /\ db' # db => running \/ (restore = Idle /\ db' = Absent)]_vars
    <2> SUFFICES ASSUME FilesInv, [Next]_vars, db.kind = "v1", db' # db
                 PROVE  running \/ (restore = Idle /\ db' = Absent)
      OBVIOUS
    <2>1. restore = Idle
      BY DEF FilesInv, PlaceInv
    <2>2. CASE Connect
      BY <2>2, EmptyFiles DEF Connect
    <2>3. CASE ReplaceDatabase \/ OpenTemporary \/ CopyTemporary
      BY <2>1, <2>3 DEF ReplaceDatabase, OpenTemporary, CopyTemporary, RestoreAt
    <2>4. CASE StartService \/ Write \/ FreshVolume
      BY <2>1, <2>4 DEF StartService, Write, FreshVolume
    <2>5. CASE UNCHANGED db
      BY <2>5
    <2> QED
      BY <2>2, <2>3, <2>4, <2>5
      DEF Next, vars, files, CopyPages, VerifyCopy, OpenChecksum, WriteChecksum, VerifyBackup,
          StopService, Kill, BeginBackup, RemoveCopy, Decay, BeginRestore
  <1> QED
    BY <1>1, InvHolds, PTL DEF Spec, DataSurvives
=============================================================================
