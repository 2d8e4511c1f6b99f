---------------------------- MODULE StoreRecovery ----------------------------
(***************************************************************************)
(* Encrypted backup, restore and the recovery of an interrupted restore    *)
(* (src/src/storage/encrypted-backup.ts, operation-journal.ts), with the   *)
(* commands that drive them (storeBackup, storeRestore and storeRollback   *)
(* in src/src/cli.ts) and the daemon start that recovers first.            *)
(*                                                                         *)
(* A database is two files, the main file and its write-ahead log: what is *)
(* committed is the main file followed by the log, and a killed process    *)
(* leaves the log behind.  A restore moves the old pair aside, moves the   *)
(* staged file in, and may re-anchor the digest kept in the credential     *)
(* store; a journal records the phase.  The process may be killed between  *)
(* any two file operations, and a file operation may fail.                 *)
(*                                                                         *)
(* Commits are events or signed checkpoints; the digest of a checkpoint is *)
(* the history it covers.  The single instance lock (SingleInstance) lets  *)
(* one process run at a time.  Shared memory files carry no content and    *)
(* are left out.                                                           *)
(***************************************************************************)
EXTENDS Naturals, Sequences

CONSTANTS
    NoFile,       \* the absence of a file
    NoDigest,     \* no digest in the credential store
    NoJournal,    \* no restore journal
    Corrupt,      \* content of a file next to a log of another file
    MaxCommits,   \* bound: length of a history
    MaxRestores,  \* bound: restores begun
    MaxFailures,  \* bound: processes killed while they recover or restore, and
                  \* failing operations of a restore
    MaxDisasters, \* bound: losses of the whole database
    FaultAt,      \* the operations of a restore that may fail
    KillAt        \* the steps of recovery and restore before which a process may die

StageSteps == {"stage", "staged"}

SwapSteps == {"moveDb", "moveWal", "backupComplete", "swap", "swapped", "reopen", "complete"}

\* Moving the old database back, until the journal says so.
MovingBack == {"moveBackWal", "moveBackDone", "catchMoveWal", "catchJournal"}

Steps ==
    {"recover", "forwardDone", "open", "close", "stage", "staged", "verify", "rejected", "moveDb",
     "moveWal", "backupComplete", "swap", "swapped", "reopen", "complete", "catch",
     "catchMoveDb", "catchDigest"} \cup MovingBack

ASSUME RecoveryAssumption ==
    /\ MaxCommits \in Nat /\ MaxRestores \in Nat /\ MaxFailures \in Nat
    /\ MaxDisasters \in Nat
    /\ FaultAt \subseteq StageSteps \cup SwapSteps /\ KillAt \subseteq Steps

VARIABLES
    db, wal,          \* the database file and its write-ahead log
    rb, rbWal,        \* the rollback image of the last restore
    staging,          \* the staged backup image
    journal,          \* the restore journal: [phase, rollback]
    digest,           \* latest-checkpoint-digest
    backups,          \* contents of the backup files
    proc,             \* the running process: its kind and step
    previous,         \* content of the target when the last restore began
    restored,         \* content of the backup being restored
    reanchored,       \* a restore with --reanchor-checkpoint has begun
    restores, kills, faults, disasters

files  == <<db, wal, rb, rbWal, staging>>
bounds == <<restores, kills, faults, disasters>>
ghosts == <<previous, restored, reanchored>>
vars   == <<files, journal, digest, backups, proc, ghosts, bounds>>

-----------------------------------------------------------------------------

\* What SQLite reads from a main file and a log.
Content(main, log) ==
    CASE main = NoFile -> NoFile
      [] main # NoFile /\ log = NoFile -> main
      [] main # NoFile /\ log # NoFile ->
           IF log.base = main THEN main \o log.frames ELSE Corrupt

Checkpoints(history) == {i \in DOMAIN history : history[i] = "checkpoint"}

\* The digest of the latest checkpoint of a history.
LatestDigest(history) ==
    IF Checkpoints(history) = {} THEN NoDigest
    ELSE SubSeq(history, 1, CHOOSE i \in Checkpoints(history) :
                               \A j \in Checkpoints(history) : j <= i)

\* verifyIntegrity and verifyCheckpointChain on the target.
Sound == Content(db, wal) # Corrupt

Anchored == Sound /\ LatestDigest(Content(db, wal)) = digest

\* verifyDatabaseImage opens the database and closes it, which folds the log of
\* a sound one into its main file.
VerifyImage ==
    /\ db' = IF Sound THEN Content(db, wal) ELSE db
    /\ wal' = IF Sound THEN NoFile ELSE wal

NoProc == [kind |-> "none", step |-> "none"]

Running(kind, step) == proc.kind = kind /\ proc.step = step

\* The process goes on to its next step.
Goto(step) == proc' = [proc EXCEPT !.step = step]

Exit == proc' = NoProc

Init ==
    /\ db = NoFile /\ wal = NoFile
    /\ rb = NoFile /\ rbWal = NoFile
    /\ staging = NoFile
    /\ journal = NoJournal
    /\ digest = NoDigest
    /\ backups = {}
    /\ proc = NoProc
    /\ previous = NoFile
    /\ restored = NoFile
    /\ reanchored = FALSE
    /\ restores = 0 /\ kills = 0 /\ faults = 0 /\ disasters = 0

-----------------------------------------------------------------------------
(* recoverInterruptedRestore, the first thing every process does.            *)

Begin(kind, reanchor) ==
    /\ proc = NoProc
    /\ proc' = [kind |-> kind, step |-> "recover", reanchor |-> reanchor, before |-> digest,
                movedDb |-> FALSE, movedWal |-> FALSE]
    /\ UNCHANGED <<files, journal, digest, backups, ghosts, bounds>>

Interrupted == journal # NoJournal /\ journal.phase \notin {"complete", "rolled_back"}

\* The outcomes of recoverInterruptedRestore on the files it finds.
Ambiguous ==
    /\ Interrupted
    /\ db = NoFile
    /\ ~(journal.rollback /\ rb # NoFile)
    /\ ~(staging # NoFile /\ journal.phase = "verified")
    /\ ~(journal.phase = "prepared" /\ staging = NoFile)

NothingToRecover ==
    /\ proc.step = "recover"
    /\ ~Interrupted
    /\ Goto("open")
    /\ UNCHANGED <<files, journal, digest, backups, ghosts, bounds>>

\* The target exists and the restore had not moved it: it is the old one.
\* (Killed between the two file operations, the next recovery repeats them.)
RecoverBeforeMove ==
    /\ proc.step = "recover"
    /\ Interrupted
    /\ db # NoFile
    /\ journal.phase \in {"prepared", "staged", "verified"}
    /\ staging' = NoFile
    /\ journal' = [journal EXCEPT !.phase = "rolled_back"]
    /\ Goto("open")
    /\ UNCHANGED <<db, wal, rb, rbWal, digest, backups, ghosts, bounds>>

\* Mutated form: a target found after the move is taken for the old one.
RecoverAfterMoveRolledBack ==
    /\ proc.step = "recover"
    /\ Interrupted
    /\ db # NoFile
    /\ journal.phase \in {"backup_complete", "swapped"}
    /\ staging' = NoFile
    /\ journal' = [journal EXCEPT !.phase = "rolled_back"]
    /\ Goto("open")
    /\ UNCHANGED <<db, wal, rb, rbWal, digest, backups, ghosts, bounds>>

\* The target exists after the move: it is the new one, which must verify.
RecoverAfterMove ==
    /\ proc.step = "recover"
    /\ Interrupted
    /\ db # NoFile
    /\ journal.phase \in {"backup_complete", "swapped"}
    /\ VerifyImage
    /\ IF Sound
       THEN staging' = NoFile /\ journal' = [journal EXCEPT !.phase = "complete"] /\ Goto("open")
       ELSE Exit /\ UNCHANGED <<staging, journal>>
    /\ UNCHANGED <<rb, rbWal, digest, backups, ghosts, bounds>>

\* The target is gone and its rollback image is there: move the main file back.
RecoverMoveBack ==
    /\ proc.step = "recover"
    /\ Interrupted
    /\ db = NoFile
    /\ journal.rollback /\ rb # NoFile
    /\ db' = rb
    /\ rb' = NoFile
    /\ Goto("moveBackWal")
    /\ UNCHANGED <<wal, rbWal, staging, journal, digest, backups, ghosts, bounds>>

\* Mutated form: the log of the rollback image is forgotten.
RecoverMoveBackWalForgotten ==
    /\ proc.step = "moveBackWal"
    /\ Goto("moveBackDone")
    /\ UNCHANGED <<files, journal, digest, backups, ghosts, bounds>>

\* ... then its log, if it was moved.
RecoverMoveBackWal ==
    /\ proc.step = "moveBackWal"
    /\ wal' = IF rbWal # NoFile THEN rbWal ELSE wal
    /\ rbWal' = NoFile
    /\ Goto("moveBackDone")
    /\ UNCHANGED <<db, rb, staging, journal, digest, backups, ghosts, bounds>>

RecoverMoveBackDone ==
    /\ proc.step = "moveBackDone"
    /\ staging' = NoFile
    /\ VerifyImage
    /\ IF Sound
       THEN journal' = [journal EXCEPT !.phase = "rolled_back"] /\ Goto("open")
       ELSE Exit /\ UNCHANGED journal
    /\ UNCHANGED <<rb, rbWal, digest, backups, ghosts, bounds>>

\* No target and no rollback image: the verified staging image becomes the target.
RecoverForward ==
    /\ proc.step = "recover"
    /\ Interrupted
    /\ db = NoFile
    /\ ~(journal.rollback /\ rb # NoFile)
    /\ staging # NoFile /\ journal.phase = "verified"
    /\ db' = staging
    /\ staging' = NoFile
    /\ Goto("forwardDone")
    /\ UNCHANGED <<wal, rb, rbWal, journal, digest, backups, ghosts, bounds>>

RecoverForwardDone ==
    /\ proc.step = "forwardDone"
    /\ journal' = [journal EXCEPT !.phase = "complete"]
    /\ Goto("open")
    /\ UNCHANGED <<files, digest, backups, ghosts, bounds>>

RecoverNothingStaged ==
    /\ proc.step = "recover"
    /\ Interrupted
    /\ db = NoFile
    /\ ~(journal.rollback /\ rb # NoFile)
    /\ journal.phase = "prepared" /\ staging = NoFile
    /\ journal' = [journal EXCEPT !.phase = "rolled_back"]
    /\ Goto("open")
    /\ UNCHANGED <<files, digest, backups, ghosts, bounds>>

\* "Interrupted restore state is ambiguous".
RecoverRefuses ==
    /\ proc.step = "recover"
    /\ Ambiguous
    /\ Exit
    /\ UNCHANGED <<files, journal, digest, backups, ghosts, bounds>>

Recover ==
    \/ NothingToRecover \/ RecoverBeforeMove \/ RecoverAfterMove \/ RecoverMoveBack \/ RecoverMoveBackWal
    \/ RecoverMoveBackDone \/ RecoverForward \/ RecoverForwardDone
    \/ RecoverNothingStaged \/ RecoverRefuses

-----------------------------------------------------------------------------
(* The daemon and store-backup.                                              *)

\* EncryptedEventStore.open (which creates a missing store), then
\* verifyCheckpointChain.  A refused start closes the store again, which may
\* fold the log and changes no content.
OpenStore ==
    /\ proc.kind \in {"daemon", "backup"} /\ proc.step = "open"
    /\ db' = IF db = NoFile THEN <<>> ELSE db
    /\ IF (IF db = NoFile THEN digest = NoDigest ELSE Anchored) THEN Goto("serving") ELSE Exit
    /\ UNCHANGED <<wal, rb, rbWal, staging, journal, digest, backups, ghosts, bounds>>

\* The daemon commits an event, or a checkpoint with its external digest.
Commit(kind) ==
    /\ Running("daemon", "serving")
    /\ Len(Content(db, wal)) < MaxCommits
    /\ wal' = IF wal = NoFile THEN [base |-> db, frames |-> <<kind>>]
              ELSE [wal EXCEPT !.frames = Append(@, kind)]
    /\ digest' = IF kind = "checkpoint" THEN Append(Content(db, wal), kind) ELSE digest
    /\ UNCHANGED <<db, rb, rbWal, staging, journal, backups, proc, ghosts, bounds>>

\* createEncryptedBackup: the image holds everything that is committed.
Backup ==
    /\ Running("backup", "serving")
    /\ backups' = backups \cup {Content(db, wal)}
    /\ Goto("close")
    /\ UNCHANGED <<files, journal, digest, ghosts, bounds>>

\* Closing the last connection folds the log into the main file.
Close ==
    /\ \/ Running("daemon", "serving")
       \/ Running("backup", "close")
    /\ db' = Content(db, wal)
    /\ wal' = NoFile
    /\ Exit
    /\ UNCHANGED <<rb, rbWal, staging, journal, digest, backups, ghosts, bounds>>

-----------------------------------------------------------------------------
(* restoreEncryptedBackup.                                                   *)

SetPhase(phase) == journal' = [journal EXCEPT !.phase = phase]

\* The journal is written before anything else; an existing target is only
\* replaced with approval (--replace), which the model always gives.
Prepare(image) ==
    /\ Running("restore", "open")
    /\ restores < MaxRestores
    /\ restores' = restores + 1
    /\ previous' = Content(db, wal)
    /\ restored' = image
    /\ reanchored' = (reanchored \/ proc.reanchor)
    /\ rb' = NoFile /\ rbWal' = NoFile /\ staging' = NoFile   \* names of a new operation
    /\ journal' = [phase |-> "prepared", rollback |-> db # NoFile]
    /\ Goto("stage")
    /\ UNCHANGED <<db, wal, digest, backups, kills, faults, disasters>>

Stage ==
    /\ Running("restore", "stage")
    /\ staging' = restored
    /\ Goto("staged")
    /\ UNCHANGED <<db, wal, rb, rbWal, journal, digest, backups, ghosts, bounds>>

Staged ==
    /\ Running("restore", "staged")
    /\ SetPhase("staged")
    /\ Goto("verify")
    /\ UNCHANGED <<files, digest, backups, ghosts, bounds>>

\* validateStaged: with --reanchor-checkpoint the records suffice, without it
\* the image must carry the retained digest.
AcceptsStaged == proc.reanchor \/ LatestDigest(staging) = digest

VerifyStaged ==
    /\ Running("restore", "verify")
    /\ AcceptsStaged
    /\ SetPhase("verified")
    /\ Goto(IF journal.rollback THEN "moveDb" ELSE "swap")
    /\ UNCHANGED <<files, digest, backups, ghosts, bounds>>

\* Staging or its verification throws: the staging image goes, then the journal
\* is written.
RejectStaged ==
    /\ proc.kind = "restore"
    /\ \/ proc.step = "verify" /\ ~AcceptsStaged /\ UNCHANGED faults
       \/ proc.step \in StageSteps \cap FaultAt /\ kills + faults < MaxFailures /\ faults' = faults + 1
    /\ staging' = NoFile
    /\ Goto("rejected")
    /\ UNCHANGED <<db, wal, rb, rbWal, journal, digest, backups, ghosts, restores, kills,
                   disasters>>

Rejected ==
    /\ Running("restore", "rejected")
    /\ SetPhase("rolled_back")
    /\ Exit
    /\ UNCHANGED <<files, digest, backups, ghosts, bounds>>

\* Mutated form: the old target is removed, not moved aside.
MoveDbRemoved ==
    /\ Running("restore", "moveDb")
    /\ db' = NoFile
    /\ Goto("moveWal")
    /\ UNCHANGED <<wal, rb, rbWal, staging, journal, digest, backups, ghosts, bounds>>

MoveDb ==
    /\ Running("restore", "moveDb")
    /\ rb' = db
    /\ db' = NoFile
    /\ proc' = [proc EXCEPT !.step = "moveWal", !.movedDb = TRUE]
    /\ UNCHANGED <<wal, rbWal, staging, journal, digest, backups, ghosts, bounds>>

MoveWal ==
    /\ Running("restore", "moveWal")
    /\ rbWal' = wal
    /\ wal' = NoFile
    /\ proc' = [proc EXCEPT !.step = "backupComplete", !.movedWal = wal # NoFile]
    /\ UNCHANGED <<db, rb, staging, journal, digest, backups, ghosts, bounds>>

BackupComplete ==
    /\ Running("restore", "backupComplete")
    /\ SetPhase("backup_complete")
    /\ Goto("swap")
    /\ UNCHANGED <<files, digest, backups, ghosts, bounds>>

Swap ==
    /\ Running("restore", "swap")
    /\ db' = staging
    /\ staging' = NoFile
    /\ Goto("swapped")
    /\ UNCHANGED <<wal, rb, rbWal, journal, digest, backups, ghosts, bounds>>

Swapped ==
    /\ Running("restore", "swapped")
    /\ SetPhase("swapped")
    /\ Goto("reopen")
    /\ UNCHANGED <<files, digest, backups, ghosts, bounds>>

\* The new target opens and verifies; without re-anchoring it must also carry
\* the retained digest.
Reopens == Sound /\ (proc.reanchor \/ Anchored)

\* afterSwapValidated re-anchors.
Reopen ==
    /\ Running("restore", "reopen")
    /\ Reopens
    /\ digest' = IF proc.reanchor THEN LatestDigest(Content(db, wal)) ELSE digest
    /\ Goto("complete")
    /\ UNCHANGED <<files, journal, backups, ghosts, bounds>>

Complete ==
    /\ Running("restore", "complete")
    /\ SetPhase("complete")
    /\ Exit
    /\ UNCHANGED <<files, digest, backups, ghosts, bounds>>

\* An operation of the swap throws.
Fault ==
    /\ proc.kind = "restore"
    /\ \/ proc.step \in SwapSteps \cap FaultAt /\ kills + faults < MaxFailures /\ faults' = faults + 1
       \/ proc.step = "reopen" /\ ~Reopens /\ UNCHANGED faults
    /\ Goto("catch")
    /\ UNCHANGED <<files, journal, digest, backups, ghosts, restores, kills, disasters>>

\* The catch block: remove the target, move back what was moved ...
CatchRemove ==
    /\ Running("restore", "catch")
    /\ db' = NoFile /\ wal' = NoFile
    /\ Goto("catchMoveDb")
    /\ UNCHANGED <<rb, rbWal, staging, journal, digest, backups, ghosts, bounds>>

CatchMoveDb ==
    /\ Running("restore", "catchMoveDb")
    /\ db' = IF proc.movedDb THEN rb ELSE db
    /\ rb' = IF proc.movedDb THEN NoFile ELSE rb
    /\ Goto("catchMoveWal")
    /\ UNCHANGED <<wal, rbWal, staging, journal, digest, backups, ghosts, bounds>>

CatchMoveWal ==
    /\ Running("restore", "catchMoveWal")
    /\ wal' = IF proc.movedWal THEN rbWal ELSE wal
    /\ rbWal' = IF proc.movedWal THEN NoFile ELSE rbWal
    /\ Goto("catchJournal")
    /\ UNCHANGED <<db, rb, staging, journal, digest, backups, ghosts, bounds>>

\* ... remove the staging image, write the journal ...
CatchJournal ==
    /\ Running("restore", "catchJournal")
    /\ staging' = NoFile
    /\ SetPhase("rolled_back")
    /\ Goto("catchDigest")
    /\ UNCHANGED <<db, wal, rb, rbWal, digest, backups, ghosts, bounds>>

\* Mutated form: the digest stays re-anchored when the database is rolled back.
CatchDigestKept ==
    /\ Running("restore", "catchDigest")
    /\ Exit
    /\ UNCHANGED <<files, journal, digest, backups, ghosts, bounds>>

\* ... and, in the command, put back the digest read before the restore.
CatchDigest ==
    /\ Running("restore", "catchDigest")
    /\ digest' = IF proc.reanchor THEN proc.before ELSE digest
    /\ Exit
    /\ UNCHANGED <<files, journal, backups, ghosts, bounds>>

Restore ==
    \/ \E image \in backups : Prepare(image)
    \/ Stage \/ Staged \/ VerifyStaged \/ RejectStaged \/ Rejected \/ MoveDb \/ MoveWal
    \/ BackupComplete \/ Swap \/ Swapped \/ Reopen \/ Complete
    \/ Fault \/ CatchRemove \/ CatchMoveDb \/ CatchMoveWal \/ CatchJournal \/ CatchDigest

-----------------------------------------------------------------------------

\* A serving process is killed: its log stays behind.
KillServing ==
    /\ proc.step = "serving"
    /\ Exit
    /\ UNCHANGED <<files, journal, digest, backups, ghosts, bounds>>

\* A process is killed while it recovers, opens or restores.
Kill ==
    /\ proc # NoProc
    /\ proc.step \in KillAt
    /\ kills + faults < MaxFailures
    /\ kills' = kills + 1
    /\ Exit
    /\ UNCHANGED <<files, journal, digest, backups, ghosts, restores, faults, disasters>>

\* The disaster backups are kept for: the database is gone, the credential
\* store is not.
LoseDatabase ==
    /\ proc = NoProc
    /\ ~Interrupted
    /\ disasters < MaxDisasters
    /\ disasters' = disasters + 1
    /\ db # NoFile
    /\ db' = NoFile /\ wal' = NoFile
    /\ previous' = NoFile /\ restored' = NoFile
    /\ UNCHANGED <<rb, rbWal, staging, journal, digest, backups, proc, reanchored,
                   restores, kills, faults>>

Next ==
    \/ Begin("daemon", FALSE)
    \/ Begin("backup", FALSE)
    \/ backups # {} /\ restores < MaxRestores /\ \E reanchor \in BOOLEAN : Begin("restore", reanchor)
    \/ Recover
    \/ OpenStore \/ (\E kind \in {"event", "checkpoint"} : Commit(kind)) \/ Backup \/ Close
    \/ Restore
    \/ KillServing \/ Kill
    \/ LoseDatabase

Spec == Init /\ [][Next]_vars

-----------------------------------------------------------------------------

Histories == Seq({"event", "checkpoint"})

ASSUME RecoveryAbsence ==
    /\ {NoFile, NoDigest, Corrupt} \cap Histories = {} /\ NoFile # Corrupt
    /\ NoFile \notin [base : Histories, frames : Histories]
    /\ NoJournal \notin [phase : {"prepared", "staged", "verified", "backup_complete", "swapped",
                                 "complete", "rolled_back"}, rollback : BOOLEAN]

MainFiles == Histories \cup {NoFile}

Logs == [base : Histories, frames : Histories] \cup {NoFile}

Phases == {"prepared", "staged", "verified", "backup_complete", "swapped",
           "complete", "rolled_back"}

(* The type invariant of the files, the journal and the ghost variables.     *)
TypeOK ==
    /\ db \in MainFiles /\ wal \in Logs
    /\ rb \in MainFiles /\ rbWal \in Logs
    /\ staging \in MainFiles
    /\ journal \in [phase : Phases, rollback : BOOLEAN] \cup {NoJournal}
    /\ digest \in Histories \cup {NoDigest}
    /\ backups \subseteq Histories
    /\ previous \in MainFiles /\ restored \in MainFiles
    /\ reanchored \in BOOLEAN
    /\ restores \in 0 .. MaxRestores /\ kills \in Nat /\ faults \in Nat
    /\ kills + faults <= MaxFailures /\ disasters \in 0 .. MaxDisasters

\* No process runs and no restore is unfinished.
AtRest == proc = NoProc /\ ~Interrupted

Extends(content, history) ==
    /\ content \notin {NoFile, Corrupt}
    /\ Len(content) >= Len(history)
    /\ SubSeq(content, 1, Len(history)) = history

(* Whatever a restore does, and wherever it is interrupted, everything that  *)
(* was committed before it is still there, log included: in the target if it *)
(* was rolled back, in the rollback image otherwise ("The previous target    *)
(* remains as a rollback image", V0.4_MIGRATION.md:59).                      *)
PreviousSurvives ==
    AtRest /\ previous # NoFile =>
        \/ Content(rb, rbWal) = previous
        \/ Extends(Content(db, wal), previous)

(* The journal tells the truth: a restore over an existing database that is  *)
(* recorded as complete put the backup in place, and one recorded as rolled  *)
(* back left the old database in place.                                      *)
JournalTruthful ==
    AtRest /\ journal # NoJournal /\ restored # NoFile /\ previous # NoFile =>
        Extends(Content(db, wal), IF journal.phase = "complete" THEN restored ELSE previous)

(* An interrupted restore over an existing database is never ambiguous: the  *)
(* next start always finds a way forward or back.                            *)
NeverAmbiguous == journal # NoJournal /\ journal.rollback => ~Ambiguous

\* The next daemon start passes its checkpoint verification.
Starts == IF db = NoFile THEN digest = NoDigest ELSE Anchored

(* A restore that ended, by success or by failure, leaves a database and a   *)
(* digest that agree ("Database and digest changes roll back together if     *)
(* final verification fails", V0.4_MIGRATION.md:61); a restore that does not *)
(* re-anchor does so even when it is killed.                                 *)
EndedRestoreStarts ==
    AtRest /\ disasters = 0 /\ (kills = 0 \/ ~reanchored) => Starts

(* Wherever a restore is killed or fails, the next start can go on: the      *)
(* journal is true and decides what to do, and the database a restore leaves *)
(* behind passes the checkpoint verification of the next daemon start.       *)
RestoreRecoverable == TypeOK /\ JournalTruthful /\ NeverAmbiguous /\ EndedRestoreStarts
=============================================================================
