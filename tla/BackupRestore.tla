---------------------------- MODULE BackupRestore ----------------------------
(***************************************************************************)
(* The online backup and the restore of the database, file by file, beside *)
(* services that start, write and stop, operators that move files, copies  *)
(* that decay, and processes that die between two file operations.         *)
(*                                                                         *)
(* A file is what it holds (kind and version) and whether it is whole: a   *)
(* copy in progress, or damaged, is not.  Two files have one digest only   *)
(* if they are equal, so a checksum file is the file it was computed from. *)
(* As the operations guide has it, services stay stopped and backups       *)
(* untouched while a restore uses them.  Assumed beyond it: one restore    *)
(* and one backup run at a time.  Neither tool takes a lock, so two        *)
(* backups to one path may both pass the check of BeginBackup.             *)
(***************************************************************************)
EXTENDS Integers, FiniteSets

CONSTANTS
    Paths,       \* destinations of backups
    MaxWrites,   \* bound: versions of the database ever written
    MaxFaults    \* bound: killed tools and files damaged, removed or set aside

ASSUME BackupAssumption == MaxWrites \in Nat /\ MaxFaults \in Nat

VARIABLES
    db,         \* the file at settings.database_path
    temporary,  \* the file beside it with the suffix .restoring
    copy,       \* the backups
    checksum,   \* their checksum files
    running,    \* the API or the worker is up
    backup,     \* the backup tool: its step and its destination
    restore,    \* the restore tool: its step and its two files
    last,       \* the newest version ever written
    finished,   \* history: files whose backup ran to its end
    sound,      \* history: paths of such backups neither removed nor damaged since
    restored,   \* history: files a restore put in place
    faults      \* history: how many happened

files == <<db, temporary, copy, checksum>>
vars == <<files, running, backup, restore, last, finished, sound, restored, faults>>

Kinds == {"absent", "empty", "foreign", "v1"}
Files == [kind : Kinds, version : 0..MaxWrites, whole : BOOLEAN]
File(kind, version) == [kind |-> kind, version |-> version, whole |-> TRUE]
Absent == File("absent", 0)
Torn(f) == [f EXCEPT !.whole = FALSE]

\* No checksum file, or one that was opened and not written.
NoDigest == {Absent, File("empty", 0)}

Idle == [at |-> "idle"]
BackupSteps == [at : {"connect", "copy", "verify", "digest", "checksum"}, to : Paths]
RestoreSteps == [at : {"verify", "open", "copy", "replace"}, from : Paths, by : Paths]

TypeOK ==
    /\ {db, temporary} \subseteq Files
    /\ copy \in [Paths -> Files]
    /\ checksum \in [Paths -> Files]
    /\ running \in BOOLEAN
    /\ backup \in BackupSteps \union {Idle}
    /\ restore \in RestoreSteps \union {Idle}
    /\ last \in 0..MaxWrites
    /\ finished \union restored \subseteq Files
    /\ sound \subseteq Paths
    /\ faults \in 0..MaxFaults
    /\ running => db.kind = "v1"

Init ==
    /\ db \in {Absent, File("foreign", 0), File("v1", 0)}
    /\ temporary = Absent
    /\ copy = [p \in Paths |-> Absent]
    /\ checksum = [p \in Paths |-> Absent]
    /\ running = FALSE
    /\ backup = Idle
    /\ restore = Idle
    /\ last = 0
    /\ finished = {}
    /\ sound = {}
    /\ restored = {}
    /\ faults = 0

-----------------------------------------------------------------------------
(* backup_database                                                         *)

BackupAt(step) == backup # Idle /\ backup.at = step
BackupGoes(step) == backup' = [backup EXCEPT !.at = step]

\* Faulty variant: an existing backup is overwritten.
MayCreateAny(p) == p \in Paths

\* destination.exists() refuses a path in use.
MayCreate(p) == copy[p] = Absent

\* The tool is started; that no other backup runs is an assumption.
BeginBackup(p) ==
    /\ backup = Idle
    /\ MayCreate(p)
    /\ backup' = [at |-> "connect", to |-> p]
    /\ UNCHANGED <<files, running, restore, last, finished, sound, restored, faults>>

\* Connecting creates what is missing, also the database itself; the copy holds
\* the version that is current when it begins, whatever is written meanwhile.
Connect ==
    /\ BackupAt("connect")
    /\ LET source == IF db = Absent THEN File("empty", 0) ELSE db IN
        /\ db' = source
        /\ copy' = [copy EXCEPT ![backup.to] = Torn(source)]
    /\ BackupGoes("copy")
    /\ UNCHANGED <<temporary, checksum, running, restore, last, finished, sound, restored, faults>>

CopyPages ==
    /\ BackupAt("copy")
    /\ copy' = [copy EXCEPT ![backup.to].whole = TRUE]
    /\ BackupGoes("verify")
    /\ UNCHANGED <<db, temporary, checksum, running, restore, last, finished, sound, restored, faults>>

\* integrity_check is ok and alembic_version has a row.
LooksRight(f) == f.whole /\ f.kind = "v1"

\* A copy that fails the check stays where it is, without a checksum.
VerifyCopy ==
    /\ BackupAt("verify")
    /\ IF LooksRight(copy[backup.to]) THEN BackupGoes("digest") ELSE backup' = Idle
    /\ UNCHANGED <<files, running, restore, last, finished, sound, restored, faults>>

\* write_text opens and empties the checksum file before it writes the digest.
OpenChecksum ==
    /\ BackupAt("digest")
    /\ checksum' = [checksum EXCEPT ![backup.to] = File("empty", 0)]
    /\ BackupGoes("checksum")
    /\ UNCHANGED <<db, temporary, copy, running, restore, last, finished, sound, restored, faults>>

WriteChecksum ==
    /\ BackupAt("checksum")
    /\ checksum' = [checksum EXCEPT ![backup.to] = copy[backup.to]]
    /\ finished' = finished \union {copy[backup.to]}
    /\ sound' = sound \union {backup.to}
    /\ backup' = Idle
    /\ UNCHANGED <<db, temporary, copy, running, restore, last, restored, faults>>

-----------------------------------------------------------------------------
(* restore_database                                                        *)

RestoreAt(step) == restore # Idle /\ restore.at = step
RestoreGoes(step) == restore' = [restore EXCEPT !.at = step]

\* Faulty variant: an existing database is replaced.
MayRestoreOverData == ~running

\* destination.exists() refuses to replace a database, even an empty file.
MayRestore == db = Absent

BeginRestore(p, q) ==
    /\ restore = Idle
    /\ ~running
    /\ MayRestore
    /\ restore' = [at |-> "verify", from |-> p, by |-> q]
    /\ UNCHANGED <<files, running, backup, last, finished, sound, restored, faults>>

\* Faulty variant: the digests are not compared.
AnyChecksum(p, q) == copy[p] # Absent /\ checksum[q] \notin NoDigest

\* The checksum file holds a digest and it is that of the backup.
ChecksumMatches(p, q) ==
    /\ copy[p] # Absent
    /\ checksum[q] \notin NoDigest
    /\ checksum[q] = copy[p]

\* Checksum, integrity and revision, or the restore gives up.
VerifyBackup ==
    /\ RestoreAt("verify")
    /\ IF ChecksumMatches(restore.from, restore.by) /\ LooksRight(copy[restore.from])
       THEN RestoreGoes("open") ELSE restore' = Idle
    /\ UNCHANGED <<files, running, backup, last, finished, sound, restored, faults>>

\* Faulty variant: the copy is made in place.
InPlace(f) == db' = f /\ UNCHANGED temporary

\* The copy goes to the file beside the database.
Beside(f) == temporary' = f /\ UNCHANGED db

\* copyfile begins, over whatever an earlier restore left behind.
OpenTemporary ==
    /\ RestoreAt("open")
    /\ Beside(Torn(copy[restore.from]))
    /\ RestoreGoes("copy")
    /\ UNCHANGED <<copy, checksum, running, backup, last, finished, sound, restored, faults>>

CopyTemporary ==
    /\ RestoreAt("copy")
    /\ temporary' = copy[restore.from]
    /\ RestoreGoes("replace")
    /\ UNCHANGED <<db, copy, checksum, running, backup, last, finished, sound, restored, faults>>

\* The rename is atomic.
ReplaceDatabase ==
    /\ RestoreAt("replace")
    /\ db' = temporary
    /\ temporary' = Absent
    /\ restored' = restored \union {temporary}
    /\ restore' = Idle
    /\ UNCHANGED <<copy, checksum, running, backup, last, finished, sound, faults>>

-----------------------------------------------------------------------------
(* Services, operators and faults.                                         *)

\* _reject_legacy_database: not SQLite, or tables without alembic_version.
Rejected == ~db.whole \/ db.kind = "foreign"

\* Database(): a missing or an empty file is migrated from nothing.
StartService ==
    /\ ~running
    /\ restore = Idle
    /\ ~Rejected
    /\ \/ db.kind \notin {"absent", "empty"} /\ UNCHANGED <<db, last>>
       \/ /\ db.kind \in {"absent", "empty"}
          /\ last < MaxWrites
          /\ db' = File("v1", last + 1)
          /\ last' = last + 1
    /\ running' = TRUE
    /\ UNCHANGED <<temporary, copy, checksum, backup, restore, finished, sound, restored, faults>>

StopService ==
    /\ running
    /\ running' = FALSE
    /\ UNCHANGED <<files, backup, restore, last, finished, sound, restored, faults>>

\* A session commits.
Write ==
    /\ running
    /\ last < MaxWrites
    /\ db' = File("v1", last + 1)
    /\ last' = last + 1
    /\ UNCHANGED <<temporary, copy, checksum, running, backup, restore, finished, sound, restored, faults>>

Fault == faults < MaxFaults /\ faults' = faults + 1

\* The failed volume is set aside and a fresh one takes its place.
FreshVolume ==
    /\ Fault
    /\ ~running
    /\ restore = Idle
    /\ backup = Idle
    /\ db' = Absent
    /\ temporary' = Absent
    /\ UNCHANGED <<copy, checksum, running, backup, restore, last, finished, sound, restored>>

InUse(p) ==
    \/ backup # Idle /\ backup.to = p
    \/ restore # Idle /\ p \in {restore.from, restore.by}

\* An operator removes a backup, and perhaps forgets its checksum.
RemoveCopy(p) ==
    /\ Fault
    /\ ~InUse(p)
    /\ copy[p] # Absent
    /\ copy' = [copy EXCEPT ![p] = Absent]
    /\ \/ UNCHANGED checksum
       \/ checksum' = [checksum EXCEPT ![p] = Absent]
    /\ sound' = sound \ {p}
    /\ UNCHANGED <<db, temporary, running, backup, restore, last, finished, restored>>

\* A stored backup decays.
Decay(p) ==
    /\ Fault
    /\ ~InUse(p)
    /\ copy[p] # Absent
    /\ copy' = [copy EXCEPT ![p] = Torn(@)]
    /\ sound' = sound \ {p}
    /\ UNCHANGED <<db, temporary, checksum, running, backup, restore, last, finished, restored>>

\* A tool is killed; the files stay as they are.
Kill ==
    /\ Fault
    /\ \/ backup # Idle /\ backup' = Idle /\ UNCHANGED restore
       \/ restore # Idle /\ restore' = Idle /\ UNCHANGED backup
    /\ UNCHANGED <<files, running, last, finished, sound, restored>>

Next ==
    \/ Connect \/ CopyPages \/ VerifyCopy \/ OpenChecksum \/ WriteChecksum
    \/ VerifyBackup \/ OpenTemporary \/ CopyTemporary \/ ReplaceDatabase
    \/ StartService \/ StopService \/ Write \/ FreshVolume \/ Kill
    \/ \E p \in Paths :
        \/ BeginBackup(p) \/ RemoveCopy(p) \/ Decay(p)
        \/ \E q \in Paths : BeginRestore(p, q)

Spec == Init /\ [][Next]_vars

-----------------------------------------------------------------------------
(* Properties.                                                             *)

\* Wherever a tool is killed, the path of the database never holds part of one.
DatabaseIsWhole == db.whole

\* "Restore only a validated v1 backup": what a restore puts in place is what a
\* backup that ran to its end had copied, although copies decay, are cut short
\* or meet the checksum of another.
RestoredWasBackedUp == restored \subseteq finished

\* "Refusing to replace existing backup": a backup that was completed can be
\* restored until an operator removes it or it decays, whatever the tools do
\* after it and wherever they are killed.
FinishedBackupsKept == \A p \in sound : checksum[p] = copy[p] /\ copy[p].whole

\* "Refusing to replace existing database": data in place is changed by a
\* running service or set aside by an operator, never by a tool.
DataSurvives ==
    [][db.kind = "v1" /\ db' # db => running \/ (restore = Idle /\ db' = Absent)]_vars
=============================================================================
