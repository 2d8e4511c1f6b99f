---------------------------- MODULE StorageProofs ----------------------------
(***************************************************************************)
(* Proofs about what the installation keeps on disk: restore and its       *)
(* recovery (StoreRecovery), the secrets it is sealed under                *)
(* (CredentialVault), the artifact vault (ArtifactStore), and the import   *)
(* of the legacy files (LegacyImport).  The parts share no state.          *)
(***************************************************************************)
EXTENDS StoreRecovery, CredentialVault, ArtifactStore, LegacyImport,
        FiniteSetTheorems, WellFoundedInduction, TLAPS

\* A main file with its own log, or neither.
Whole(main, log) == (main = NoFile => log = NoFile) /\ Content(main, log) # Corrupt

\* Where the old database is: in place; its main file moved aside; both moved
\* aside; the new one in place; being moved back; back.
Unmoved   == Whole(db, wal) /\ Content(db, wal) = previous /\ rb = NoFile /\ rbWal = NoFile
HalfAside == db = NoFile /\ rb # NoFile /\ rbWal = NoFile /\ Content(rb, wal) = previous
Aside     == db = NoFile /\ wal = NoFile /\ rb # NoFile /\ Content(rb, rbWal) = previous
Replaced  == db = restored /\ wal = NoFile /\ rb # NoFile /\ Content(rb, rbWal) = previous
HalfBack  == /\ db # NoFile /\ rb = NoFile
             /\ \/ rbWal = NoFile /\ Content(db, wal) = previous
                \/ rbWal # NoFile /\ wal = NoFile /\ Content(db, rbWal) = previous
Back      == db # NoFile /\ Content(db, wal) = previous

\* Without an old database: nothing, or the new one.
Nothing == db = NoFile /\ wal = NoFile
Placed  == db = restored /\ wal = NoFile

RestoreSteps ==
    {"stage", "staged", "verify", "rejected", "moveDb", "moveWal", "backupComplete", "swap",
     "swapped", "reopen", "complete", "catch", "catchMoveDb", "catchMoveWal", "catchJournal"}

\* Which phases an interrupted or running restore has at each step.
PhaseOf(step) ==
    CASE step \in {"stage", "staged"} -> {"prepared"}
      [] step = "verify" -> {"staged"}
      [] step = "rejected" -> {"prepared", "staged"}
      [] step \in {"moveDb", "moveWal", "backupComplete", "forwardDone"} -> {"verified"}
      [] step \in {"swap", "swapped"} -> {IF journal.rollback THEN "backup_complete" ELSE "verified"}
      [] step \in {"reopen", "complete"} -> {"swapped"}
      [] step \in {"catch", "catchMoveDb", "catchMoveWal", "catchJournal", "moveBackWal",
                   "moveBackDone"} -> {"verified", "backup_complete", "swapped"}
      [] OTHER -> {"prepared", "staged", "verified", "backup_complete", "swapped"}

\* A restore over an existing database: where the old one is, by step and phase.
OldIsSafe ==
    LET s == proc.step  p == journal.phase IN
    /\ s \in {"stage", "staged", "verify", "rejected", "moveDb"} => Unmoved /\ db # NoFile
    /\ s = "moveWal" => HalfAside
    /\ s \in {"backupComplete", "swap", "catchMoveDb"} => Aside
    /\ s \in {"swapped", "reopen", "complete"} => Replaced
    /\ s = "catch" => Aside \/ (Replaced /\ p # "verified")
    /\ s = "catchMoveWal" => HalfBack /\ wal = NoFile
    /\ s = "moveBackWal" => HalfBack
    /\ s \in {"catchJournal", "moveBackDone"} => Back
    /\ s \in {"none", "recover"} =>
          \/ p \in {"prepared", "staged", "verified"} /\ Unmoved /\ db # NoFile
          \/ p = "verified" /\ (HalfAside \/ Aside)
          \/ p \in {"backup_complete", "swapped"} /\ (Aside \/ Replaced)
    /\ s # "forwardDone" /\ previous # NoFile

\* A restore onto nothing.
NothingOld ==
    LET s == proc.step  p == journal.phase IN
    /\ s \in {"stage", "staged", "verify", "rejected", "swap", "catchMoveDb", "catchMoveWal",
             "catchJournal"} => Nothing
    /\ s \in {"swapped", "reopen", "complete", "forwardDone"} => Placed
    /\ s \in {"none", "recover", "catch"} =>
          Nothing \/ (Placed /\ p \in {"verified", "swapped"})
    /\ s \notin {"moveDb", "moveWal", "backupComplete", "moveBackWal", "moveBackDone"}
    /\ p # "backup_complete" /\ previous = NoFile

\* What the running restore remembers to have moved.
MovesKnown ==
    /\ proc.kind = "restore" /\ proc.step \in {"recover", "moveBackWal", "moveBackDone", "forwardDone",
                                              "open", "stage", "staged", "verify", "rejected",
                                              "moveDb"} =>
          ~proc.movedDb /\ ~proc.movedWal
    /\ proc.step = "moveWal" => proc.movedDb
    /\ proc.step \in {"backupComplete", "swap", "swapped", "reopen", "complete", "catch",
                      "catchMoveDb"} =>
          (proc.movedDb <=> journal.rollback) /\ (proc.movedWal <=> journal.rollback /\ rbWal # NoFile)
    /\ proc.step = "catchMoveWal" =>
          (proc.movedWal <=> journal.rollback /\ rbWal # NoFile)

\* The files of a restore that has begun and not ended.
Where ==
    Interrupted =>
        /\ proc.step \in RestoreSteps \cup {"none", "recover", "moveBackWal", "moveBackDone", "forwardDone"}
        /\ journal.phase \in PhaseOf(proc.step)
        /\ restored \in Histories /\ staging \in {NoFile, restored}
        /\ proc.step \in {"staged", "verify", "moveDb", "moveWal", "backupComplete", "swap"} =>
              staging = restored
        /\ IF journal.rollback THEN OldIsSafe ELSE NothingOld

\* No restore is under way: the target is whole and the journal is true.
Ended ==
    ~Interrupted =>
        /\ proc.step \in {"none", "recover", "open", "serving", "close", "catchDigest"}
        /\ Whole(db, wal)
        /\ proc.step \in {"serving", "close"} => db # NoFile
        /\ previous # NoFile =>
              \/ /\ journal # NoJournal /\ journal.phase = "rolled_back"
                 /\ Extends(Content(db, wal), previous)
              \/ /\ journal # NoJournal /\ journal.phase = "complete" /\ restored # NoFile
                 /\ Content(rb, rbWal) = previous /\ Extends(Content(db, wal), restored)

ProcType ==
    {NoProc} \cup
    [kind : {"daemon", "backup", "restore"}, step : Steps \cup {"serving"}, reanchor : BOOLEAN,
     before : Histories \cup {NoDigest}, movedDb : BOOLEAN, movedWal : BOOLEAN]

\* Only a restore is at a restore's step.
KindOfStep ==
    /\ proc \in ProcType
    /\ proc.step \in RestoreSteps \cup {"catchDigest"} => proc.kind = "restore"

FilesInv == TypeOK /\ KindOfStep /\ MovesKnown /\ Where /\ Ended

\* The digest a history asks for.
DigestOf(content) == IF content = NoFile THEN NoDigest ELSE LatestDigest(content)

Exempt == disasters > 0 \/ (kills > 0 /\ reanchored)

\* What a process remembers of the digest and of re-anchoring.
Remembered ==
    /\ proc.kind = "restore" /\ proc.step \in {"recover", "moveBackWal", "moveBackDone", "forwardDone",
                                              "open"} => proc.before = digest
    /\ proc.kind = "restore" /\ proc.step \in RestoreSteps \cup {"catchDigest"} /\ proc.reanchor =>
          reanchored

\* Between restores the digest is the database's.
EndedAgrees ==
    ~Interrupted =>
        DigestOf(Content(db, wal)) =
            IF proc.step = "catchDigest" /\ proc.reanchor THEN proc.before ELSE digest

BeforeReanchor == {"stage", "staged", "verify", "rejected", "moveDb", "moveWal", "backupComplete",
                   "swap", "swapped", "reopen"}

\* A running restore can put back the old digest, and re-anchors last.
RestoreAgrees ==
    Interrupted /\ proc.step \in RestoreSteps =>
        /\ proc.before = DigestOf(previous)
        /\ proc.step \in BeforeReanchor => digest = DigestOf(previous)
        /\ proc.step = "complete" => digest = DigestOf(restored)

\* Without re-anchoring the backup carries the retained digest once verified.
RecoveryAgrees ==
    Interrupted /\ (proc.step \notin RestoreSteps \/ ~proc.reanchor) =>
        /\ digest = DigestOf(previous)
        /\ journal.phase \in {"verified", "backup_complete", "swapped"} => digest = DigestOf(restored)

DigestInv ==
    /\ Remembered
    /\ ~Exempt =>
        /\ Interrupted /\ kills = 0 => proc.step \in RestoreSteps
        /\ EndedAgrees /\ RestoreAgrees /\ RecoveryAgrees

Inv == FilesInv /\ DigestInv

-----------------------------------------------------------------------------
\* Contents, histories and digests.

LEMMA LeastElement ==
    ASSUME NEW T, T \subseteq Nat, T # {}
    PROVE  \E m \in T : \A k \in T : m <= k
<1> DEFINE R == {x \in Nat \X Nat : x[1] < x[2]}
<1>1. OpToRel(<, Nat) = R
  BY DEF OpToRel
<1>2. IsWellFoundedOn(R, Nat)
  BY <1>1, NatLessThanWellFounded, Zenon
<1>3. \A x, y \in Nat : <<x, y>> \in R <=> x < y
  OBVIOUS
<1> HIDE DEF R
<1>4. PICK m \in T : \A k \in T : ~(<<k, m>> \in R)
  BY <1>2, WFMin
<1>5. \A k \in T : ~(k < m)
  BY <1>3, <1>4
<1>6. \A k \in T : k \in Nat /\ m \in Nat
  OBVIOUS
<1> QED
  BY <1>5, <1>6

LEMMA SequenceFacts ==
    ASSUME NEW S, NEW s \in Seq(S), NEW r \in Seq(S), NEW e \in S, NEW i \in 0 .. Len(s)
    PROVE  /\ <<e>> \in Seq(S) /\ Append(s, e) \in Seq(S) /\ r \o s \in Seq(S)
           /\ SubSeq(s, 1, i) \in Seq(S) /\ SubSeq(Append(s, e), 1, i) = SubSeq(s, 1, i)
           /\ SubSeq(s, 1, Len(s)) = s
           /\ s \o <<e>> = Append(s, e) /\ r \o Append(s, e) = Append(r \o s, e)
OBVIOUS

LEMMA HistoryFacts ==
    ASSUME NEW h \in Histories, NEW g \in Histories, NEW k \in {"event", "checkpoint"},
           NEW i \in 0 .. Len(h)
    PROVE  /\ <<k>> \in Histories /\ Append(h, k) \in Histories /\ g \o h \in Histories
           /\ SubSeq(h, 1, i) \in Histories /\ SubSeq(Append(h, k), 1, i) = SubSeq(h, 1, i)
           /\ SubSeq(h, 1, Len(h)) = h
           /\ h \o <<k>> = Append(h, k) /\ g \o Append(h, k) = Append(g \o h, k)
<1> DEFINE S == {"event", "checkpoint"}
<1>1. h \in Seq(S) /\ g \in Seq(S) /\ k \in S /\ Histories = Seq(S)
  BY DEF Histories
<1> HIDE DEF S
<1> QED
  BY <1>1, SequenceFacts

LEMMA ContentOf ==
    ASSUME NEW main \in MainFiles, NEW log \in Logs, Whole(main, log)
    PROVE  /\ Content(main, log) \in MainFiles
           /\ Content(main, log) = NoFile <=> main = NoFile
           /\ main # NoFile => Content(main, log) \in Histories
<1>1. CASE main = NoFile
  BY <1>1 DEF Content, MainFiles
<1>2. CASE main # NoFile /\ log = NoFile
  BY <1>2, RecoveryAbsence DEF Content, MainFiles
<1>3. CASE main # NoFile /\ log # NoFile
  <2>1. main \in Histories /\ log \in [base : Histories, frames : Histories]
    BY <1>3 DEF MainFiles, Logs
  <2>2. main \o log.frames \in Histories
    BY <2>1 DEF Histories
  <2>3. Content(main, log) = main \o log.frames
    BY <1>3 DEF Content, Whole
  <2> QED
    BY <1>3, <2>2, <2>3, RecoveryAbsence DEF MainFiles
<1> QED
  BY <1>1, <1>2, <1>3

\* A file without a log is its own content.
LEMMA Folded ==
    ASSUME NEW main \in MainFiles
    PROVE  Content(main, NoFile) = main /\ Whole(main, NoFile)
BY RecoveryAbsence DEF Content, Whole, MainFiles

LEMMA CheckpointLast ==
    ASSUME NEW h \in Histories, Checkpoints(h) # {}
    PROVE  \E i \in Checkpoints(h) : \A j \in Checkpoints(h) : j <= i
<1> DEFINE back == {n \in 0 .. Len(h) : (Len(h) - n) \in Checkpoints(h)}
<1>1. Len(h) \in Nat /\ \A i \in Checkpoints(h) : i \in 1 .. Len(h)
  BY DEF Checkpoints, Histories
<1>2. back \in SUBSET Nat /\ \A i \in Checkpoints(h) : (Len(h) - i) \in back
  BY <1>1
<1>3. PICK m \in back : \A n \in back : m <= n
  BY <1>2, LeastElement
<1>4. (Len(h) - m) \in Checkpoints(h) /\ m \in 0 .. Len(h)
  OBVIOUS
<1>5. ASSUME NEW j \in Checkpoints(h) PROVE j <= Len(h) - m
  BY <1>1, <1>2, <1>3, <1>4
<1> QED
  BY <1>4, <1>5

\* What LatestDigest is: nothing, or a prefix that ends in the last checkpoint.
LEMMA DigestFacts ==
    ASSUME NEW h \in Histories
    PROVE  /\ LatestDigest(h) \in Histories \cup {NoDigest}
           /\ LatestDigest(Append(h, "event")) = LatestDigest(h)
           /\ LatestDigest(Append(h, "checkpoint")) = Append(h, "checkpoint")
<1> DEFINE last(g) == CHOOSE i \in Checkpoints(g) : \A j \in Checkpoints(g) : j <= i
<1>1. ASSUME Checkpoints(h) # {}
      PROVE  last(h) \in Checkpoints(h) /\ last(h) \in 1 .. Len(h)
  <2>1. last(h) \in Checkpoints(h)
    BY <1>1, CheckpointLast
  <2> QED
    BY <2>1 DEF Checkpoints, Histories
<1>2. LatestDigest(h) \in Histories \cup {NoDigest}
  <2>1. CASE Checkpoints(h) = {}
    BY <2>1 DEF LatestDigest
  <2>2. CASE Checkpoints(h) # {}
    <3>1. PICK i : i = last(h) /\ i \in 1 .. Len(h)
      BY <1>1, <2>2
    <3>2. SubSeq(h, 1, i) \in Histories
      <4>1. i \in 0 .. Len(h)
        BY <3>1 DEF Histories
      <4> QED
        BY <4>1, HistoryFacts
    <3> QED
      BY <2>2, <3>1, <3>2 DEF LatestDigest
  <2> QED
    BY <2>1, <2>2
<1> DEFINE n == Len(h)
<1>3. /\ n \in Nat /\ \A k \in {"event", "checkpoint"} :
          /\ Append(h, k) \in Histories /\ DOMAIN Append(h, k) = 1 .. n + 1
          /\ Len(Append(h, k)) = n + 1 /\ Append(h, k)[n + 1] = k
          /\ \A i \in 1 .. n : Append(h, k)[i] = h[i]
  BY DEF Histories
<1>4. LatestDigest(Append(h, "event")) = LatestDigest(h)
  <2>1. Checkpoints(Append(h, "event")) = Checkpoints(h)
    <3>1. Checkpoints(Append(h, "event")) = {i \in 1 .. n + 1 : Append(h, "event")[i] = "checkpoint"}
      BY <1>3 DEF Checkpoints
    <3>2. Checkpoints(h) = {i \in 1 .. n : h[i] = "checkpoint"}
      BY DEF Checkpoints, Histories
    <3> QED
      BY <1>3, <3>1, <3>2
  <2>2. CASE Checkpoints(h) = {}
    BY <2>1, <2>2 DEF LatestDigest
  <2>3. CASE Checkpoints(h) # {}
    <3>1. last(Append(h, "event")) = last(h)
      BY <2>1
    <3>2. PICK i : i = last(h) /\ i \in 1 .. n
      BY <1>1, <2>3
    <3>3. SubSeq(Append(h, "event"), 1, i) = SubSeq(h, 1, i)
      <4>1. i \in 0 .. Len(h)
        BY <1>3, <3>2
      <4> QED
        BY <4>1, HistoryFacts
    <3> QED
      BY <2>1, <2>3, <3>1, <3>2, <3>3 DEF LatestDigest
  <2> QED
    BY <2>2, <2>3
<1>5. LatestDigest(Append(h, "checkpoint")) = Append(h, "checkpoint")
  <2> DEFINE g == Append(h, "checkpoint")
  <2>1. g \in Histories /\ Len(g) = n + 1 /\ g[n + 1] = "checkpoint" /\ DOMAIN g = 1 .. n + 1
    BY <1>3
  <2> HIDE DEF g
  <2>2. n + 1 \in Checkpoints(g) /\ \A j \in Checkpoints(g) : j \in Nat /\ j <= n + 1
    BY <1>3, <2>1 DEF Checkpoints
  <2>3. last(g) = n + 1
    <3>1. PICK i \in Checkpoints(g) : i = last(g) /\ \A j \in Checkpoints(g) : j <= i
      BY <2>1, <2>2, CheckpointLast
    <3> QED
      BY <1>3, <2>2, <3>1
  <2>4. SubSeq(g, 1, n + 1) = g
    BY <2>1 DEF Histories
  <2>5. LatestDigest(g) = SubSeq(g, 1, last(g))
    BY <2>2 DEF LatestDigest
  <2> QED
    BY <2>3, <2>4, <2>5 DEF g
<1> QED
  BY <1>2, <1>4, <1>5

\* A commit appends to what SQLite reads.
LEMMA Committed ==
    ASSUME NEW main \in Histories, NEW log \in Logs, Whole(main, log),
           NEW kind \in {"event", "checkpoint"},
           NEW new, new = IF log = NoFile THEN [base |-> main, frames |-> <<kind>>]
                          ELSE [log EXCEPT !.frames = Append(@, kind)]
    PROVE  /\ new \in Logs /\ Whole(main, new)
           /\ Content(main, new) = Append(Content(main, log), kind)
<1>1. main # NoFile /\ \A l : l \in [base : Histories, frames : Histories] => l # NoFile
  BY RecoveryAbsence
<1>2. CASE log = NoFile
  <2>0. 0 \in 0 .. Len(main)
    BY DEF Histories
  <2>1. PICK one : one = <<kind>> /\ one \in Histories
    BY <2>0, HistoryFacts
  <2>2. new \in [base : Histories, frames : Histories] /\ new.base = main /\ new.frames = one
    BY <1>2, <2>1
  <2>3. Content(main, new) = main \o one
    BY <1>1, <2>2 DEF Content
  <2>4. main \o one = Append(main, kind) /\ Append(main, kind) \in Histories
    BY <2>0, <2>1, HistoryFacts
  <2>5. Content(main, log) = main
    BY <1>1, <1>2 DEF Content
  <2> QED
    BY <1>1, <2>2, <2>3, <2>4, <2>5, RecoveryAbsence DEF Whole, Logs
<1>3. CASE log # NoFile
  <2>1. log \in [base : Histories, frames : Histories]
    BY <1>3 DEF Logs
  <2>2. log.base = main /\ Content(main, log) = main \o log.frames
    BY <1>1, <1>3 DEF Whole, Content
  <2>3. /\ new \in [base : Histories, frames : Histories]
        /\ new.base = main /\ new.frames = Append(log.frames, kind)
    <3>1. Append(log.frames, kind) \in Histories
      BY <2>1 DEF Histories
    <3> QED
      BY <1>3, <2>1, <2>2, <3>1
  <2>4. Content(main, new) = main \o Append(log.frames, kind)
    BY <1>1, <2>3 DEF Content
  <2>5. main \o Append(log.frames, kind) = Append(main \o log.frames, kind)
        /\ Append(main \o log.frames, kind) \in Histories
    BY <2>1 DEF Histories
  <2> QED
    BY <1>1, <2>2, <2>3, <2>4, <2>5, RecoveryAbsence DEF Whole, Logs
<1> QED
  BY <1>2, <1>3

-----------------------------------------------------------------------------
\* Steps of the process and of the journal.

LEMMA GotoFacts ==
    ASSUME proc \in ProcType, proc # NoProc, NEW s \in Steps \cup {"serving"}, Goto(s)
    PROVE  /\ proc' \in ProcType /\ proc'.step = s /\ proc'.kind = proc.kind
           /\ proc'.reanchor = proc.reanchor /\ proc'.before = proc.before
           /\ proc'.movedDb = proc.movedDb /\ proc'.movedWal = proc.movedWal
BY DEF ProcType, Goto

LEMMA PhaseFacts ==
    ASSUME TypeOK, Interrupted, NEW p \in Phases, journal' = [journal EXCEPT !.phase = p]
    PROVE  /\ journal' \in [phase : Phases, rollback : BOOLEAN]
           /\ journal'.phase = p /\ journal'.rollback = journal.rollback
           /\ journal' # NoJournal /\ (Interrupted' <=> p \notin {"complete", "rolled_back"})
<1>1. journal \in [phase : Phases, rollback : BOOLEAN]
  BY DEF TypeOK, Interrupted
<1>2. /\ journal' \in [phase : Phases, rollback : BOOLEAN]
      /\ journal'.phase = p /\ journal'.rollback = journal.rollback
  BY <1>1
<1>3. journal' # NoJournal
  BY <1>2, RecoveryAbsence DEF Phases
<1> QED
  BY <1>2, <1>3 DEF Interrupted

\* The old database moves aside, main file first.
LEMMA MoveDbStep == ASSUME FilesInv, MoveDb PROVE FilesInv'
<1>1. proc \in ProcType /\ proc.kind = "restore" /\ proc.step = "moveDb" /\ proc # NoProc
  BY DEF MoveDb, Running, FilesInv, KindOfStep, NoProc
<1>2. Interrupted /\ journal.rollback /\ Unmoved /\ db # NoFile /\ journal.phase = "verified"
  BY <1>1 DEF FilesInv, Ended, Where, OldIsSafe, NothingOld, PhaseOf
<1>3. /\ rb' = db /\ db' = NoFile /\ UNCHANGED <<wal, rbWal, staging, journal, ghosts, bounds>>
      /\ UNCHANGED <<digest, backups>>
  BY DEF MoveDb
<1>4. /\ proc' \in ProcType /\ proc'.step = "moveWal" /\ proc'.kind = "restore" /\ proc'.movedDb
  BY <1>1 DEF MoveDb, ProcType, Steps
<1>5. TypeOK'
  BY <1>3 DEF FilesInv, TypeOK, ghosts, bounds, MainFiles
<1>6. HalfAside'
  BY <1>2, <1>3 DEF Unmoved, HalfAside, ghosts
<1> QED
  BY <1>1, <1>2, <1>3, <1>4, <1>5, <1>6
     DEF FilesInv, KindOfStep, MovesKnown, Where, Ended, Interrupted, OldIsSafe, RestoreSteps, PhaseOf, ghosts

\* What holds while a restore runs, up to its last write of the journal.
LEMMA RestoreRuns ==
    ASSUME FilesInv, proc.step \in RestoreSteps
    PROVE  /\ proc \in ProcType /\ proc.kind = "restore" /\ proc # NoProc
           /\ Interrupted /\ journal \in [phase : Phases, rollback : BOOLEAN]
           /\ restored \in Histories /\ restored # NoFile /\ staging \in {NoFile, restored}
           /\ journal.phase \in PhaseOf(proc.step)
           /\ IF journal.rollback THEN OldIsSafe ELSE NothingOld
<1>1. Interrupted
  BY DEF FilesInv, Ended, RestoreSteps
<1>2. proc # NoProc
  BY DEF NoProc, RestoreSteps
<1>3. restored \in Histories /\ restored # NoFile
  BY <1>1, RecoveryAbsence DEF FilesInv, Where
<1> QED
  BY <1>1, <1>2, <1>3 DEF FilesInv, KindOfStep, Where, TypeOK, Interrupted

LEMMA StageStep == ASSUME FilesInv, Stage PROVE FilesInv'
<1>1. proc.step = "stage" /\ proc.step \in RestoreSteps
  BY DEF Stage, Running, RestoreSteps
<1>2. /\ proc' \in ProcType /\ proc'.step = "staged" /\ proc'.kind = "restore"
      /\ proc'.movedDb = proc.movedDb /\ proc'.movedWal = proc.movedWal
  BY <1>1, RestoreRuns, GotoFacts DEF Stage, Steps
<1>3. /\ staging' = restored /\ UNCHANGED <<db, wal, rb, rbWal, journal, digest, backups>>
      /\ UNCHANGED <<previous, restored, reanchored>> /\ UNCHANGED bounds
  BY DEF Stage, ghosts
<1>4. TypeOK'
  BY <1>1, <1>3, RestoreRuns DEF FilesInv, TypeOK, bounds, MainFiles
<1> QED
  BY <1>1, <1>2, <1>3, <1>4, RestoreRuns
     DEF FilesInv, KindOfStep, MovesKnown, Where, Ended, Interrupted, OldIsSafe, NothingOld,
         RestoreSteps, PhaseOf, Unmoved, Nothing

LEMMA StagedStep == ASSUME FilesInv, Staged PROVE FilesInv'
<1>1. proc.step = "staged" /\ proc.step \in RestoreSteps
  BY DEF Staged, Running, RestoreSteps
<1>2. /\ proc' \in ProcType /\ proc'.step = "verify" /\ proc'.kind = "restore"
      /\ proc'.movedDb = proc.movedDb /\ proc'.movedWal = proc.movedWal
  BY <1>1, RestoreRuns, GotoFacts DEF Staged, Steps
<1>3. /\ UNCHANGED <<db, wal, rb, rbWal, staging, digest, backups>>
      /\ UNCHANGED <<previous, restored, reanchored>> /\ UNCHANGED bounds
  BY DEF Staged, ghosts, files
<1>4. /\ journal' \in [phase : Phases, rollback : BOOLEAN] /\ Interrupted'
      /\ journal'.phase = "staged" /\ journal'.rollback = journal.rollback
  BY <1>1, RestoreRuns, PhaseFacts DEF Staged, SetPhase, Phases, FilesInv
<1>5. TypeOK'
  BY <1>3, <1>4 DEF FilesInv, TypeOK, bounds
<1> QED
  BY <1>1, <1>2, <1>3, <1>4, <1>5, RestoreRuns
     DEF FilesInv, KindOfStep, MovesKnown, Where, Ended, OldIsSafe, NothingOld,
         RestoreSteps, PhaseOf, Unmoved, Nothing

LEMMA VerifyStagedStep == ASSUME FilesInv, VerifyStaged PROVE FilesInv'
<1>1. proc.step = "verify" /\ proc.step \in RestoreSteps
  BY DEF VerifyStaged, Running, RestoreSteps
<1>2. /\ proc' \in ProcType /\ proc'.kind = "restore"
      /\ proc'.step = IF journal.rollback THEN "moveDb" ELSE "swap"
      /\ proc'.movedDb = proc.movedDb /\ proc'.movedWal = proc.movedWal
  BY <1>1, RestoreRuns, GotoFacts DEF VerifyStaged, Steps
<1>3. /\ UNCHANGED <<db, wal, rb, rbWal, staging, digest, backups>>
      /\ UNCHANGED <<previous, restored, reanchored>> /\ UNCHANGED bounds
  BY DEF VerifyStaged, ghosts, files
<1>4. /\ journal' \in [phase : Phases, rollback : BOOLEAN] /\ Interrupted'
      /\ journal'.phase = "verified" /\ journal'.rollback = journal.rollback
  BY <1>1, RestoreRuns, PhaseFacts DEF VerifyStaged, SetPhase, Phases, FilesInv
<1>5. TypeOK'
  BY <1>3, <1>4 DEF FilesInv, TypeOK, bounds
<1> QED
  BY <1>1, <1>2, <1>3, <1>4, <1>5, RestoreRuns
     DEF FilesInv, KindOfStep, MovesKnown, Where, Ended, OldIsSafe, NothingOld,
         RestoreSteps, PhaseOf, Unmoved, Nothing

LEMMA RejectStagedStep == ASSUME FilesInv, RejectStaged PROVE FilesInv'
<1>1. proc.step \in {"stage", "staged", "verify"} /\ proc.step \in RestoreSteps
  BY DEF RejectStaged, RestoreSteps, StageSteps
<1>2. /\ proc' \in ProcType /\ proc'.step = "rejected" /\ proc'.kind = "restore"
      /\ proc'.movedDb = proc.movedDb /\ proc'.movedWal = proc.movedWal
  BY <1>1, RestoreRuns, GotoFacts DEF RejectStaged, Steps
<1>3. /\ staging' = NoFile /\ UNCHANGED <<db, wal, rb, rbWal, journal, digest, backups>>
      /\ UNCHANGED <<previous, restored, reanchored>>
  BY DEF RejectStaged, ghosts
<1>4. TypeOK'
  BY <1>3, RecoveryAssumption DEF RejectStaged, FilesInv, TypeOK, MainFiles
<1> QED
  BY <1>1, <1>2, <1>3, <1>4, RestoreRuns
     DEF FilesInv, KindOfStep, MovesKnown, Where, Ended, Interrupted, OldIsSafe, NothingOld,
         RestoreSteps, PhaseOf, Unmoved, Nothing

\* The old history extends itself.
LEMMA ExtendsItself == ASSUME NEW h \in Histories PROVE Extends(h, h)
<1>1. 0 \in 0 .. Len(h) /\ Len(h) \in Nat
  BY DEF Histories
<1>2. SubSeq(h, 1, Len(h)) = h
  BY <1>1, HistoryFacts
<1> QED
  BY <1>1, <1>2, RecoveryAbsence DEF Extends

LEMMA RejectedStep == ASSUME FilesInv, Rejected PROVE FilesInv'
<1>1. proc.step = "rejected" /\ proc.step \in RestoreSteps
  BY DEF Rejected, Running, RestoreSteps
<1>2. proc' = NoProc /\ proc' \in ProcType /\ proc'.step = "none"
  BY DEF Rejected, Exit, NoProc, ProcType
<1>3. /\ UNCHANGED <<db, wal, rb, rbWal, staging, digest, backups>>
      /\ UNCHANGED <<previous, restored, reanchored>> /\ UNCHANGED bounds
  BY DEF Rejected, ghosts, files
<1>4. /\ journal' \in [phase : Phases, rollback : BOOLEAN] /\ ~Interrupted'
      /\ journal'.phase = "rolled_back" /\ journal' # NoJournal
  BY <1>1, RestoreRuns, PhaseFacts DEF Rejected, SetPhase, Phases, FilesInv
<1>5. TypeOK'
  BY <1>3, <1>4 DEF FilesInv, TypeOK, bounds
<1>6. Whole(db, wal) /\ (previous # NoFile => Extends(Content(db, wal), previous))
  <2>1. CASE journal.rollback
    <3>1. Unmoved
      BY <1>1, <2>1, RestoreRuns DEF OldIsSafe
    <3>2. previous # NoFile => previous \in Histories
      BY DEF FilesInv, TypeOK, MainFiles
    <3> QED
      BY <3>1, <3>2, ExtendsItself DEF Unmoved
  <2>2. CASE ~journal.rollback
    BY <1>1, <2>2, RestoreRuns, Folded DEF NothingOld, Nothing, MainFiles
  <2> QED
    BY <2>1, <2>2
<1> QED
  BY <1>2, <1>3, <1>4, <1>5, <1>6
     DEF FilesInv, KindOfStep, MovesKnown, Where, Ended, Whole, Extends, RestoreSteps, NoProc

LEMMA MoveWalStep == ASSUME FilesInv, MoveWal PROVE FilesInv'
<1>1. proc.step = "moveWal" /\ proc.step \in RestoreSteps
  BY DEF MoveWal, Running, RestoreSteps
<1>2. journal.rollback /\ HalfAside /\ journal.phase = "verified" /\ proc.movedDb /\ staging = restored
  BY <1>1, RestoreRuns DEF FilesInv, OldIsSafe, NothingOld, PhaseOf, MovesKnown, Where
<1>3. /\ proc' \in ProcType /\ proc'.step = "backupComplete" /\ proc'.kind = "restore"
      /\ proc'.movedDb = proc.movedDb /\ (proc'.movedWal <=> wal # NoFile)
  BY <1>1, RestoreRuns DEF MoveWal, ProcType, Steps
<1>4. /\ rbWal' = wal /\ wal' = NoFile /\ UNCHANGED <<db, rb, staging, journal, digest, backups>>
      /\ UNCHANGED <<previous, restored, reanchored>> /\ UNCHANGED bounds
  BY DEF MoveWal, ghosts
<1>5. TypeOK'
  BY <1>4 DEF FilesInv, TypeOK, bounds, Logs
<1>6. Aside'
  BY <1>2, <1>4 DEF HalfAside, Aside
<1> QED
  BY <1>1, <1>2, <1>3, <1>4, <1>5, <1>6, RestoreRuns
     DEF FilesInv, KindOfStep, MovesKnown, Where, Ended, Interrupted, OldIsSafe, RestoreSteps, PhaseOf

LEMMA BackupCompleteStep == ASSUME FilesInv, BackupComplete PROVE FilesInv'
<1>1. proc.step = "backupComplete" /\ proc.step \in RestoreSteps
  BY DEF BackupComplete, Running, RestoreSteps
<1>2. /\ proc' \in ProcType /\ proc'.step = "swap" /\ proc'.kind = "restore"
      /\ proc'.movedDb = proc.movedDb /\ proc'.movedWal = proc.movedWal
  BY <1>1, RestoreRuns, GotoFacts DEF BackupComplete, Steps
<1>3. /\ UNCHANGED <<db, wal, rb, rbWal, staging, digest, backups>>
      /\ UNCHANGED <<previous, restored, reanchored>> /\ UNCHANGED bounds
  BY DEF BackupComplete, ghosts, files
<1>4. /\ journal' \in [phase : Phases, rollback : BOOLEAN] /\ Interrupted'
      /\ journal'.phase = "backup_complete" /\ journal'.rollback = journal.rollback
  BY <1>1, RestoreRuns, PhaseFacts DEF BackupComplete, SetPhase, Phases, FilesInv
<1>5. TypeOK'
  BY <1>3, <1>4 DEF FilesInv, TypeOK, bounds
<1> QED
  BY <1>1, <1>2, <1>3, <1>4, <1>5, RestoreRuns
     DEF FilesInv, KindOfStep, MovesKnown, Where, Ended, OldIsSafe, NothingOld,
         RestoreSteps, PhaseOf, Unmoved, Nothing, Aside, Replaced, Placed

LEMMA SwapStep == ASSUME FilesInv, Swap PROVE FilesInv'
<1>1. proc.step = "swap" /\ proc.step \in RestoreSteps
  BY DEF Swap, Running, RestoreSteps
<1>2. /\ proc' \in ProcType /\ proc'.step = "swapped" /\ proc'.kind = "restore"
      /\ proc'.movedDb = proc.movedDb /\ proc'.movedWal = proc.movedWal
  BY <1>1, RestoreRuns, GotoFacts DEF Swap, Steps
<1>3. /\ db' = staging /\ staging' = NoFile /\ UNCHANGED <<wal, rb, rbWal, journal, digest, backups>>
      /\ UNCHANGED <<previous, restored, reanchored>> /\ UNCHANGED bounds
  BY DEF Swap, ghosts
<1>4. staging = restored
  BY <1>1, RestoreRuns DEF FilesInv, Where
<1>5. TypeOK'
  BY <1>3 DEF FilesInv, TypeOK, bounds, MainFiles
<1> QED
  BY <1>1, <1>2, <1>3, <1>4, <1>5, RestoreRuns
     DEF FilesInv, KindOfStep, MovesKnown, Where, Ended, Interrupted, OldIsSafe, NothingOld,
         RestoreSteps, PhaseOf, Aside, Replaced, Nothing, Placed

LEMMA SwappedStep == ASSUME FilesInv, Swapped PROVE FilesInv'
<1>1. proc.step = "swapped" /\ proc.step \in RestoreSteps
  BY DEF Swapped, Running, RestoreSteps
<1>2. /\ proc' \in ProcType /\ proc'.step = "reopen" /\ proc'.kind = "restore"
      /\ proc'.movedDb = proc.movedDb /\ proc'.movedWal = proc.movedWal
  BY <1>1, RestoreRuns, GotoFacts DEF Swapped, Steps
<1>3. /\ UNCHANGED <<db, wal, rb, rbWal, staging, digest, backups>>
      /\ UNCHANGED <<previous, restored, reanchored>> /\ UNCHANGED bounds
  BY DEF Swapped, ghosts, files
<1>4. /\ journal' \in [phase : Phases, rollback : BOOLEAN] /\ Interrupted'
      /\ journal'.phase = "swapped" /\ journal'.rollback = journal.rollback
  BY <1>1, RestoreRuns, PhaseFacts DEF Swapped, SetPhase, Phases, FilesInv
<1>5. TypeOK'
  BY <1>3, <1>4 DEF FilesInv, TypeOK, bounds
<1> QED
  BY <1>1, <1>2, <1>3, <1>4, <1>5, RestoreRuns
     DEF FilesInv, KindOfStep, MovesKnown, Where, Ended, OldIsSafe, NothingOld,
         RestoreSteps, PhaseOf, Unmoved, Nothing, Aside, Replaced, Placed

LEMMA ReopenStep == ASSUME FilesInv, Reopen PROVE FilesInv'
<1>1. proc.step = "reopen" /\ proc.step \in RestoreSteps
  BY DEF Reopen, Running, RestoreSteps
<1>2. /\ proc' \in ProcType /\ proc'.step = "complete" /\ proc'.kind = "restore"
      /\ proc'.movedDb = proc.movedDb /\ proc'.movedWal = proc.movedWal
  BY <1>1, RestoreRuns, GotoFacts DEF Reopen, Steps
<1>3. /\ UNCHANGED <<db, wal, rb, rbWal, staging, journal, backups>>
      /\ UNCHANGED <<previous, restored, reanchored>> /\ UNCHANGED bounds
      /\ digest' = IF proc.reanchor THEN LatestDigest(Content(db, wal)) ELSE digest
  BY DEF Reopen, ghosts, files
<1>4. db = restored /\ wal = NoFile
  BY <1>1, RestoreRuns DEF OldIsSafe, NothingOld, Replaced, Placed
<1>5. Content(db, wal) \in Histories
  BY <1>4, RestoreRuns, <1>1, Folded DEF MainFiles
<1>6. TypeOK'
  BY <1>3, <1>5, DigestFacts DEF FilesInv, TypeOK, bounds
<1> QED
  BY <1>1, <1>2, <1>3, <1>6, RestoreRuns
     DEF FilesInv, KindOfStep, MovesKnown, Where, Ended, Interrupted, OldIsSafe, NothingOld,
         RestoreSteps, PhaseOf, Replaced, Placed

LEMMA CompleteStep == ASSUME FilesInv, Complete PROVE FilesInv'
<1>1. proc.step = "complete" /\ proc.step \in RestoreSteps
  BY DEF Complete, Running, RestoreSteps
<1>2. proc' = NoProc /\ proc' \in ProcType /\ proc'.step = "none"
  BY DEF Complete, Exit, NoProc, ProcType
<1>3. /\ UNCHANGED <<db, wal, rb, rbWal, staging, digest, backups>>
      /\ UNCHANGED <<previous, restored, reanchored>> /\ UNCHANGED bounds
  BY DEF Complete, ghosts, files
<1>4. /\ journal' \in [phase : Phases, rollback : BOOLEAN] /\ ~Interrupted'
      /\ journal'.phase = "complete" /\ journal' # NoJournal
  BY <1>1, RestoreRuns, PhaseFacts DEF Complete, SetPhase, Phases, FilesInv
<1>5. TypeOK'
  BY <1>3, <1>4 DEF FilesInv, TypeOK, bounds
<1>6. db = restored /\ wal = NoFile /\ (previous # NoFile => Content(rb, rbWal) = previous)
  BY <1>1, RestoreRuns DEF OldIsSafe, NothingOld, Replaced, Placed
<1>7. Whole(db, wal) /\ Extends(Content(db, wal), restored)
  BY <1>1, <1>6, RestoreRuns, Folded, ExtendsItself DEF MainFiles
<1> QED
  BY <1>1, RestoreRuns, <1>2, <1>3, <1>4, <1>5, <1>6, <1>7
     DEF FilesInv, KindOfStep, MovesKnown, Where, Ended, Whole, Extends, RestoreSteps, NoProc

-----------------------------------------------------------------------------
\* The catch block.

LEMMA FaultStep ==
    ASSUME FilesInv, Fault, FaultAt \cap {"moveDb", "moveWal"} = {}
    PROVE  FilesInv'
<1>1. /\ proc.step \in {"backupComplete", "swap", "swapped", "reopen", "complete"}
      /\ proc.step \in RestoreSteps
  BY DEF Fault, RestoreSteps, SwapSteps
<1>2. /\ proc' \in ProcType /\ proc'.step = "catch" /\ proc'.kind = "restore"
      /\ proc'.movedDb = proc.movedDb /\ proc'.movedWal = proc.movedWal
  BY <1>1, RestoreRuns, GotoFacts DEF Fault, Steps
<1>3. /\ UNCHANGED <<db, wal, rb, rbWal, staging, journal, digest, backups>>
      /\ UNCHANGED <<previous, restored, reanchored>>
  BY DEF Fault, ghosts, files
<1>4. TypeOK'
  BY <1>3, RecoveryAssumption DEF Fault, FilesInv, TypeOK
<1>5. Aside \/ Replaced \/ Nothing \/ Placed
  BY <1>1, RestoreRuns DEF OldIsSafe, NothingOld
<1> QED
  BY <1>1, <1>2, <1>3, <1>4, RestoreRuns
     DEF FilesInv, KindOfStep, MovesKnown, Where, Ended, Interrupted, OldIsSafe, NothingOld,
         RestoreSteps, PhaseOf, Aside, Replaced, Nothing, Placed

LEMMA CatchRemoveStep == ASSUME FilesInv, CatchRemove PROVE FilesInv'
<1>1. proc.step = "catch" /\ proc.step \in RestoreSteps
  BY DEF CatchRemove, Running, RestoreSteps
<1>2. /\ proc' \in ProcType /\ proc'.step = "catchMoveDb" /\ proc'.kind = "restore"
      /\ proc'.movedDb = proc.movedDb /\ proc'.movedWal = proc.movedWal
  BY <1>1, RestoreRuns, GotoFacts DEF CatchRemove, Steps
<1>3. /\ db' = NoFile /\ wal' = NoFile /\ UNCHANGED <<rb, rbWal, staging, journal, digest, backups>>
      /\ UNCHANGED <<previous, restored, reanchored>> /\ UNCHANGED bounds
  BY DEF CatchRemove, ghosts
<1>4. TypeOK'
  BY <1>3 DEF FilesInv, TypeOK, bounds, MainFiles, Logs
<1> QED
  BY <1>1, <1>2, <1>3, <1>4, RestoreRuns
     DEF FilesInv, KindOfStep, MovesKnown, Where, Ended, Interrupted, OldIsSafe, NothingOld,
         RestoreSteps, PhaseOf, Aside, Replaced, Nothing, Placed

LEMMA CatchMoveDbStep == ASSUME FilesInv, CatchMoveDb PROVE FilesInv'
<1>1. proc.step = "catchMoveDb" /\ proc.step \in RestoreSteps
  BY DEF CatchMoveDb, Running, RestoreSteps
<1>2. /\ proc' \in ProcType /\ proc'.step = "catchMoveWal" /\ proc'.kind = "restore"
      /\ proc'.movedDb = proc.movedDb /\ proc'.movedWal = proc.movedWal
  BY <1>1, RestoreRuns, GotoFacts DEF CatchMoveDb, Steps, MovingBack
<1>3. /\ db' = (IF proc.movedDb THEN rb ELSE db) /\ rb' = (IF proc.movedDb THEN NoFile ELSE rb)
      /\ UNCHANGED <<wal, rbWal, staging, journal, digest, backups>>
      /\ UNCHANGED <<previous, restored, reanchored>> /\ UNCHANGED bounds
  BY DEF CatchMoveDb, ghosts
<1>4. TypeOK'
  BY <1>3 DEF FilesInv, TypeOK, bounds, MainFiles
<1>5. proc.movedDb <=> journal.rollback
  BY <1>1 DEF FilesInv, MovesKnown
<1>6. proc.movedWal <=> journal.rollback /\ rbWal # NoFile
  BY <1>1 DEF FilesInv, MovesKnown
<1>7. UNCHANGED Interrupted /\ MovesKnown' /\ KindOfStep' /\ Ended'
  <2>1. proc'.movedWal <=> journal'.rollback /\ rbWal' # NoFile
    BY <1>2, <1>3, <1>6
  <2> QED
    BY <1>1, <1>2, <1>3, <2>1, RestoreRuns
       DEF Interrupted, MovesKnown, KindOfStep, Ended, RestoreSteps
<1>8. CASE journal.rollback
  <2>1. Aside /\ previous # NoFile
    BY <1>1, <1>8, RestoreRuns DEF OldIsSafe
  <2>2. db' = rb /\ rb' = NoFile
    BY <1>3, <1>5, <1>8
  <2>3. HalfBack' /\ wal' = NoFile
    BY <1>3, <2>1, <2>2 DEF Aside, HalfBack
  <2>4. OldIsSafe'
    BY <1>2, <1>3, <2>1, <2>3 DEF OldIsSafe
  <2> QED
    BY <1>1, <1>2, <1>3, <1>4, <1>7, <1>8, <2>4, RestoreRuns
       DEF FilesInv, Where, Interrupted, RestoreSteps, PhaseOf
<1>9. CASE ~journal.rollback
  <2>1. Nothing /\ previous = NoFile /\ journal.phase # "backup_complete"
    BY <1>1, <1>9, RestoreRuns DEF NothingOld
  <2>2. db' = db
    BY <1>3, <1>5, <1>9
  <2>3. NothingOld'
    BY <1>2, <1>3, <2>1, <2>2 DEF NothingOld, Nothing
  <2> QED
    BY <1>1, <1>2, <1>3, <1>4, <1>7, <1>9, <2>3, RestoreRuns
       DEF FilesInv, Where, Interrupted, RestoreSteps, PhaseOf
<1> QED
  BY <1>8, <1>9

LEMMA CatchMoveWalStep == ASSUME FilesInv, CatchMoveWal PROVE FilesInv'
<1>1. proc.step = "catchMoveWal" /\ proc.step \in RestoreSteps
  BY DEF CatchMoveWal, Running, RestoreSteps
<1>2. /\ proc' \in ProcType /\ proc'.step = "catchJournal" /\ proc'.kind = "restore"
  BY <1>1, RestoreRuns, GotoFacts DEF CatchMoveWal, Steps, MovingBack
<1>3. /\ wal' = (IF proc.movedWal THEN rbWal ELSE wal)
      /\ rbWal' = (IF proc.movedWal THEN NoFile ELSE rbWal)
      /\ UNCHANGED <<db, rb, staging, journal, digest, backups>>
      /\ UNCHANGED <<previous, restored, reanchored>> /\ UNCHANGED bounds
  BY DEF CatchMoveWal, ghosts
<1>4. TypeOK'
  BY <1>3 DEF FilesInv, TypeOK, bounds, Logs
<1>5. proc.movedWal <=> journal.rollback /\ rbWal # NoFile
  BY <1>1 DEF FilesInv, MovesKnown
<1>7. UNCHANGED Interrupted /\ MovesKnown' /\ KindOfStep' /\ Ended'
  BY <1>1, <1>2, <1>3, RestoreRuns DEF Interrupted, MovesKnown, KindOfStep, Ended, RestoreSteps
<1>8. CASE journal.rollback
  <2>1. HalfBack /\ wal = NoFile /\ previous # NoFile
    BY <1>1, <1>8, RestoreRuns DEF OldIsSafe
  <2>2. wal' = rbWal
    BY <1>3, <1>5, <1>8, <2>1
  <2>3. Back'
    BY <1>3, <2>1, <2>2 DEF HalfBack, Back
  <2>4. OldIsSafe'
    BY <1>2, <1>3, <2>1, <2>3 DEF OldIsSafe
  <2> QED
    BY <1>1, <1>2, <1>3, <1>4, <1>7, <1>8, <2>4, RestoreRuns
       DEF FilesInv, Where, Interrupted, RestoreSteps, PhaseOf
<1>9. CASE ~journal.rollback
  <2>1. Nothing /\ previous = NoFile /\ journal.phase # "backup_complete"
    BY <1>1, <1>9, RestoreRuns DEF NothingOld
  <2>2. wal' = wal
    BY <1>3, <1>5, <1>9
  <2>3. NothingOld'
    BY <1>2, <1>3, <2>1, <2>2 DEF NothingOld, Nothing
  <2> QED
    BY <1>1, <1>2, <1>3, <1>4, <1>7, <1>9, <2>3, RestoreRuns
       DEF FilesInv, Where, Interrupted, RestoreSteps, PhaseOf
<1> QED
  BY <1>8, <1>9

\* The old database is whole once it is back.
LEMMA BackIsWhole ==
    ASSUME TypeOK, Content(db, wal) = previous, db # NoFile
    PROVE  Whole(db, wal) /\ previous \in MainFiles
BY RecoveryAbsence DEF Whole, TypeOK, MainFiles

LEMMA CatchJournalStep == ASSUME FilesInv, CatchJournal PROVE FilesInv'
<1>1. proc.step = "catchJournal" /\ proc.step \in RestoreSteps
  BY DEF CatchJournal, Running, RestoreSteps
<1>2. /\ proc' \in ProcType /\ proc'.step = "catchDigest" /\ proc'.kind = "restore"
  BY <1>1, RestoreRuns, GotoFacts DEF CatchJournal, Steps
<1>3. /\ staging' = NoFile /\ UNCHANGED <<db, wal, rb, rbWal, digest, backups>>
      /\ UNCHANGED <<previous, restored, reanchored>> /\ UNCHANGED bounds
  BY DEF CatchJournal, ghosts
<1>4. /\ journal' \in [phase : Phases, rollback : BOOLEAN] /\ ~Interrupted'
      /\ journal'.phase = "rolled_back" /\ journal' # NoJournal
  BY <1>1, RestoreRuns, PhaseFacts DEF CatchJournal, SetPhase, Phases, FilesInv
<1>5. TypeOK'
  BY <1>3, <1>4 DEF FilesInv, TypeOK, bounds, MainFiles
<1>6. Whole(db, wal) /\ (previous # NoFile => Extends(Content(db, wal), previous))
  <2>1. CASE journal.rollback
    <3>1. db # NoFile /\ Content(db, wal) = previous
      BY <1>1, <2>1, RestoreRuns DEF OldIsSafe, Back
    <3>2. Whole(db, wal) /\ previous \in MainFiles
      BY <3>1, BackIsWhole DEF FilesInv
    <3> QED
      BY <3>1, <3>2, ExtendsItself DEF MainFiles
  <2>2. CASE ~journal.rollback
    BY <1>1, <2>2, RestoreRuns, Folded DEF NothingOld, Nothing, MainFiles
  <2> QED
    BY <2>1, <2>2
<1> QED
  BY <1>2, <1>3, <1>4, <1>5, <1>6
     DEF FilesInv, KindOfStep, MovesKnown, Where, Ended, Whole, Extends, RestoreSteps
LEMMA CatchDigestStep == ASSUME FilesInv, CatchDigest PROVE FilesInv'
<1>1. proc.step = "catchDigest" /\ proc.kind = "restore" /\ proc # NoProc
  BY DEF CatchDigest, Running, NoProc
<1>2. ~Interrupted /\ Ended
  BY <1>1 DEF FilesInv, Where, RestoreSteps
<1>3. proc.before \in Histories \cup {NoDigest}
  BY <1>1 DEF FilesInv, KindOfStep, ProcType
<1>4. proc' = NoProc /\ proc' \in ProcType /\ proc'.step = "none"
  BY DEF CatchDigest, Exit, NoProc, ProcType
<1>5. /\ UNCHANGED <<db, wal, rb, rbWal, staging, journal, backups>>
      /\ UNCHANGED <<previous, restored, reanchored>> /\ UNCHANGED bounds
      /\ digest' = IF proc.reanchor THEN proc.before ELSE digest
  BY DEF CatchDigest, ghosts, files
<1>6. TypeOK'
  BY <1>3, <1>5 DEF FilesInv, TypeOK, bounds
<1> QED
  BY <1>2, <1>4, <1>5, <1>6
     DEF FilesInv, KindOfStep, MovesKnown, Where, Ended, Interrupted, Whole, RestoreSteps, NoProc

-----------------------------------------------------------------------------
\* Recovery.

\* No step but the process's own: nothing moves, and the process reaches a step
\* at which the same is known of the files.
LEMMA BeginStep ==
    ASSUME FilesInv, NEW kind \in {"daemon", "backup", "restore"}, NEW reanchor \in BOOLEAN,
           Begin(kind, reanchor)
    PROVE  FilesInv'
<1>1. proc = NoProc /\ proc.step = "none" /\ digest \in Histories \cup {NoDigest}
  BY DEF Begin, NoProc, FilesInv, TypeOK
<1>2. /\ proc' \in ProcType /\ proc'.step = "recover" /\ ~proc'.movedDb /\ ~proc'.movedWal
  BY <1>1 DEF Begin, ProcType, Steps
<1>3. /\ UNCHANGED <<db, wal, rb, rbWal, staging, journal, digest, backups>>
      /\ UNCHANGED <<previous, restored, reanchored>> /\ UNCHANGED bounds
  BY DEF Begin, ghosts, files
<1>4. TypeOK'
  BY <1>3 DEF FilesInv, TypeOK, bounds
<1> QED
  BY <1>1, <1>2, <1>3, <1>4
     DEF FilesInv, KindOfStep, MovesKnown, Where, Ended, Interrupted, OldIsSafe, NothingOld,
         RestoreSteps, PhaseOf, Whole, Unmoved, Nothing, Aside, HalfAside, Replaced, Placed

LEMMA NothingToRecoverStep == ASSUME FilesInv, NothingToRecover PROVE FilesInv'
<1>1. proc.step = "recover" /\ proc # NoProc /\ ~Interrupted /\ proc \in ProcType
  BY DEF NothingToRecover, NoProc, FilesInv, KindOfStep
<1>2. /\ proc' \in ProcType /\ proc'.step = "open" /\ proc'.kind = proc.kind
      /\ proc'.movedDb = proc.movedDb /\ proc'.movedWal = proc.movedWal
  BY <1>1, GotoFacts DEF NothingToRecover, Steps
<1>3. /\ UNCHANGED <<db, wal, rb, rbWal, staging, journal, digest, backups>>
      /\ UNCHANGED <<previous, restored, reanchored>> /\ UNCHANGED bounds
  BY DEF NothingToRecover, ghosts, files
<1>4. TypeOK'
  BY <1>3 DEF FilesInv, TypeOK, bounds
<1> QED
  BY <1>1, <1>2, <1>3, <1>4
     DEF FilesInv, KindOfStep, MovesKnown, Where, Ended, Interrupted, RestoreSteps, Whole

\* What a process that recovers an unfinished restore finds.
LEMMA Found ==
    ASSUME FilesInv, Interrupted
    PROVE  /\ journal \in [phase : Phases, rollback : BOOLEAN]
           /\ restored \in Histories /\ restored # NoFile /\ staging \in {NoFile, restored}
           /\ journal.phase \in PhaseOf(proc.step)
           /\ IF journal.rollback THEN OldIsSafe ELSE NothingOld
<1>1. restored \in Histories /\ restored # NoFile
  BY RecoveryAbsence DEF FilesInv, Where
<1> QED
  BY <1>1 DEF FilesInv, Where, TypeOK, Interrupted

LEMMA RecoverBeforeMoveStep == ASSUME FilesInv, RecoverBeforeMove PROVE FilesInv'
<1>1. /\ proc.step = "recover" /\ proc # NoProc /\ Interrupted /\ proc \in ProcType
      /\ db # NoFile /\ journal.phase \in {"prepared", "staged", "verified"}
  BY DEF RecoverBeforeMove, NoProc, FilesInv, KindOfStep
<1>2. /\ proc' \in ProcType /\ proc'.step = "open" /\ proc'.kind = proc.kind
      /\ proc'.movedDb = proc.movedDb /\ proc'.movedWal = proc.movedWal
  BY <1>1, GotoFacts DEF RecoverBeforeMove, Steps
<1>3. /\ staging' = NoFile /\ UNCHANGED <<db, wal, rb, rbWal, digest, backups>>
      /\ UNCHANGED <<previous, restored, reanchored>> /\ UNCHANGED bounds
  BY DEF RecoverBeforeMove, ghosts
<1>4. /\ journal' \in [phase : Phases, rollback : BOOLEAN] /\ ~Interrupted'
      /\ journal'.phase = "rolled_back" /\ journal' # NoJournal
  BY <1>1, PhaseFacts DEF RecoverBeforeMove, Phases, FilesInv
<1>5. TypeOK'
  BY <1>3, <1>4 DEF FilesInv, TypeOK, bounds, MainFiles
<1>6. Whole(db, wal) /\ (previous # NoFile => Extends(Content(db, wal), previous))
  <2>1. CASE journal.rollback
    <3>1. Unmoved
      BY <1>1, <2>1, Found DEF OldIsSafe, HalfAside, Aside
    <3>2. previous # NoFile => previous \in Histories
      BY DEF FilesInv, TypeOK, MainFiles
    <3> QED
      BY <3>1, <3>2, ExtendsItself DEF Unmoved
  <2>2. CASE ~journal.rollback
    <3>1. Placed /\ previous = NoFile /\ restored \in MainFiles
      BY <1>1, <2>2, Found DEF NothingOld, Nothing, MainFiles
    <3> QED
      BY <3>1, Folded DEF Placed
  <2> QED
    BY <2>1, <2>2
<1> QED
  BY <1>1, <1>2, <1>3, <1>4, <1>5, <1>6
     DEF FilesInv, KindOfStep, MovesKnown, Where, Ended, Whole, Extends, RestoreSteps

LEMMA RecoverAfterMoveStep == ASSUME FilesInv, RecoverAfterMove PROVE FilesInv'
<1>1. /\ proc.step = "recover" /\ proc # NoProc /\ Interrupted /\ proc \in ProcType
      /\ db # NoFile /\ journal.phase \in {"backup_complete", "swapped"}
  BY DEF RecoverAfterMove, NoProc, FilesInv, KindOfStep
<1>2. db = restored /\ wal = NoFile /\ (previous # NoFile => Content(rb, rbWal) = previous)
  BY <1>1, Found DEF OldIsSafe, NothingOld, Aside, Replaced, Nothing, Placed
<1>3. Content(db, wal) = db /\ Whole(db, wal) /\ Sound /\ Extends(Content(db, wal), restored)
  BY <1>1, <1>2, Found, Folded, ExtendsItself DEF MainFiles, Whole, Sound
<1>4. /\ db' = db /\ wal' = wal /\ staging' = NoFile /\ UNCHANGED <<rb, rbWal, digest, backups>>
      /\ UNCHANGED <<previous, restored, reanchored>> /\ UNCHANGED bounds
  BY <1>2, <1>3 DEF RecoverAfterMove, VerifyImage, ghosts
<1>5. Goto("open") /\ journal' = [journal EXCEPT !.phase = "complete"]
  BY <1>3 DEF RecoverAfterMove
<1>6. /\ proc' \in ProcType /\ proc'.step = "open" /\ proc'.kind = proc.kind
      /\ proc'.movedDb = proc.movedDb /\ proc'.movedWal = proc.movedWal
  BY <1>1, <1>5, GotoFacts DEF Steps
<1>7. /\ journal' \in [phase : Phases, rollback : BOOLEAN] /\ ~Interrupted'
      /\ journal'.phase = "complete" /\ journal' # NoJournal
  BY <1>1, <1>5, PhaseFacts DEF Phases, FilesInv
<1>8. TypeOK'
  BY <1>4, <1>7 DEF FilesInv, TypeOK, bounds, MainFiles
<1> QED
  BY <1>1, Found, <1>2, <1>3, <1>4, <1>6, <1>7, <1>8
     DEF FilesInv, KindOfStep, MovesKnown, Where, Ended, Whole, Extends, RestoreSteps
LEMMA RecoverMoveBackStep == ASSUME FilesInv, RecoverMoveBack PROVE FilesInv'
<1>1. /\ proc.step = "recover" /\ proc # NoProc /\ Interrupted /\ proc \in ProcType
      /\ db = NoFile /\ journal.rollback /\ rb # NoFile
  BY DEF RecoverMoveBack, NoProc, FilesInv, KindOfStep
<1>2. /\ proc' \in ProcType /\ proc'.step = "moveBackWal" /\ proc'.kind = proc.kind
      /\ proc'.movedDb = proc.movedDb /\ proc'.movedWal = proc.movedWal
  BY <1>1, GotoFacts DEF RecoverMoveBack, Steps, MovingBack
<1>3. /\ db' = rb /\ rb' = NoFile /\ UNCHANGED <<wal, rbWal, staging, journal, digest, backups>>
      /\ UNCHANGED <<previous, restored, reanchored>> /\ UNCHANGED bounds
  BY DEF RecoverMoveBack, ghosts
<1>4. TypeOK'
  BY <1>3 DEF FilesInv, TypeOK, bounds, MainFiles
<1>5. /\ HalfAside \/ Aside
      /\ journal.phase \in {"verified", "backup_complete", "swapped"} /\ previous # NoFile
  BY <1>1, Found DEF OldIsSafe, Unmoved, Replaced
<1>6. HalfBack'
  BY <1>3, <1>5 DEF HalfAside, Aside, HalfBack
<1>7. OldIsSafe'
  BY <1>2, <1>3, <1>5, <1>6 DEF OldIsSafe
<1> QED
  BY <1>1, <1>2, <1>3, <1>4, <1>5, <1>7, Found
     DEF FilesInv, KindOfStep, MovesKnown, Where, Ended, Interrupted, RestoreSteps, PhaseOf

LEMMA RecoverMoveBackWalStep == ASSUME FilesInv, RecoverMoveBackWal PROVE FilesInv'
<1>1. proc.step = "moveBackWal" /\ proc # NoProc /\ proc \in ProcType
  BY DEF RecoverMoveBackWal, NoProc, FilesInv, KindOfStep
<1>2. Interrupted
  BY <1>1 DEF FilesInv, Ended
<1>3. /\ proc' \in ProcType /\ proc'.step = "moveBackDone" /\ proc'.kind = proc.kind
      /\ proc'.movedDb = proc.movedDb /\ proc'.movedWal = proc.movedWal
  BY <1>1, GotoFacts DEF RecoverMoveBackWal, Steps, MovingBack
<1>4. /\ wal' = (IF rbWal # NoFile THEN rbWal ELSE wal) /\ rbWal' = NoFile
      /\ UNCHANGED <<db, rb, staging, journal, digest, backups>>
      /\ UNCHANGED <<previous, restored, reanchored>> /\ UNCHANGED bounds
  BY DEF RecoverMoveBackWal, ghosts
<1>5. TypeOK'
  BY <1>4 DEF FilesInv, TypeOK, bounds, Logs
<1>6. /\ HalfBack /\ previous # NoFile /\ journal.rollback
      /\ journal.phase \in {"verified", "backup_complete", "swapped"}
  BY <1>1, <1>2, Found DEF OldIsSafe, NothingOld, PhaseOf
<1>7. Back'
  BY <1>4, <1>6 DEF HalfBack, Back
<1>8. OldIsSafe'
  BY <1>3, <1>4, <1>6, <1>7 DEF OldIsSafe
<1> QED
  BY <1>1, <1>2, <1>3, <1>4, <1>5, <1>6, <1>8, Found
     DEF FilesInv, KindOfStep, MovesKnown, Where, Ended, Interrupted, RestoreSteps, PhaseOf

LEMMA RecoverMoveBackDoneStep == ASSUME FilesInv, RecoverMoveBackDone PROVE FilesInv'
<1>1. proc.step = "moveBackDone" /\ proc # NoProc /\ proc \in ProcType
  BY DEF RecoverMoveBackDone, NoProc, FilesInv, KindOfStep
<1>2. Interrupted
  BY <1>1 DEF FilesInv, Ended
<1>3. db # NoFile /\ Content(db, wal) = previous /\ previous # NoFile
  BY <1>1, <1>2, Found DEF OldIsSafe, NothingOld, Back
<1>4. Sound /\ previous \in Histories
  BY <1>3, RecoveryAbsence DEF Sound, FilesInv, TypeOK, MainFiles
<1>5. /\ db' = previous /\ wal' = NoFile /\ staging' = NoFile
      /\ UNCHANGED <<rb, rbWal, digest, backups>>
      /\ UNCHANGED <<previous, restored, reanchored>> /\ UNCHANGED bounds
  BY <1>3, <1>4 DEF RecoverMoveBackDone, VerifyImage, ghosts
<1>6. Goto("open") /\ journal' = [journal EXCEPT !.phase = "rolled_back"]
  BY <1>4 DEF RecoverMoveBackDone
<1>7. /\ proc' \in ProcType /\ proc'.step = "open" /\ proc'.kind = proc.kind
      /\ proc'.movedDb = proc.movedDb /\ proc'.movedWal = proc.movedWal
  BY <1>1, <1>6, GotoFacts DEF Steps
<1>8. /\ journal' \in [phase : Phases, rollback : BOOLEAN] /\ ~Interrupted'
      /\ journal'.phase = "rolled_back" /\ journal' # NoJournal
  BY <1>2, <1>6, PhaseFacts DEF Phases, FilesInv
<1>9. TypeOK'
  BY <1>4, <1>5, <1>8 DEF FilesInv, TypeOK, bounds, MainFiles, Logs
<1>10. previous \in MainFiles /\ Content(previous, NoFile) = previous /\ Whole(previous, NoFile)
       /\ Extends(previous, previous)
  BY <1>4, Folded, ExtendsItself DEF MainFiles
<1>11. Whole(db, wal)' /\ Extends(Content(db, wal), previous)'
  BY <1>5, <1>10 DEF Whole, Extends
<1>12. KindOfStep' /\ MovesKnown'
  BY <1>1, <1>7 DEF FilesInv, KindOfStep, MovesKnown, RestoreSteps
<1> QED
  BY <1>4, <1>5, <1>7, <1>8, <1>9, <1>7, <1>11, <1>12 DEF FilesInv, Where, Ended

LEMMA RecoverForwardStep == ASSUME FilesInv, RecoverForward PROVE FilesInv'
<1>1. /\ proc.step = "recover" /\ proc # NoProc /\ Interrupted /\ proc \in ProcType
      /\ db = NoFile /\ staging # NoFile /\ journal.phase = "verified"
      /\ ~(journal.rollback /\ rb # NoFile)
  BY DEF RecoverForward, NoProc, FilesInv, KindOfStep
<1>2. /\ proc' \in ProcType /\ proc'.step = "forwardDone" /\ proc'.kind = proc.kind
      /\ proc'.movedDb = proc.movedDb /\ proc'.movedWal = proc.movedWal
  BY <1>1, GotoFacts DEF RecoverForward, Steps
<1>3. /\ db' = staging /\ staging' = NoFile /\ UNCHANGED <<wal, rb, rbWal, journal, digest, backups>>
      /\ UNCHANGED <<previous, restored, reanchored>> /\ UNCHANGED bounds
  BY DEF RecoverForward, ghosts
<1>4. TypeOK'
  BY <1>3 DEF FilesInv, TypeOK, bounds, MainFiles
<1>5. ~journal.rollback /\ Nothing /\ previous = NoFile
  BY <1>1, Found DEF OldIsSafe, NothingOld, Unmoved, HalfAside, Aside, Placed
<1>6. Placed'
  BY <1>1, <1>3, <1>5, Found DEF Nothing, Placed
<1>7. NothingOld'
  BY <1>1, <1>2, <1>3, <1>5, <1>6 DEF NothingOld
<1> QED
  BY <1>1, <1>2, <1>3, <1>4, <1>5, <1>7, Found
     DEF FilesInv, KindOfStep, MovesKnown, Where, Ended, Interrupted, RestoreSteps, PhaseOf

LEMMA RecoverForwardDoneStep == ASSUME FilesInv, RecoverForwardDone PROVE FilesInv'
<1>1. proc.step = "forwardDone" /\ proc # NoProc /\ proc \in ProcType
  BY DEF RecoverForwardDone, NoProc, FilesInv, KindOfStep
<1>2. Interrupted
  BY <1>1 DEF FilesInv, Ended
<1>3. /\ proc' \in ProcType /\ proc'.step = "open" /\ proc'.kind = proc.kind
      /\ proc'.movedDb = proc.movedDb /\ proc'.movedWal = proc.movedWal
  BY <1>1, GotoFacts DEF RecoverForwardDone, Steps
<1>4. /\ UNCHANGED <<db, wal, rb, rbWal, staging, digest, backups>>
      /\ UNCHANGED <<previous, restored, reanchored>> /\ UNCHANGED bounds
  BY DEF RecoverForwardDone, ghosts, files
<1>5. /\ journal' \in [phase : Phases, rollback : BOOLEAN] /\ ~Interrupted'
      /\ journal'.phase = "complete" /\ journal' # NoJournal
  BY <1>2, PhaseFacts DEF RecoverForwardDone, Phases, FilesInv
<1>6. TypeOK'
  BY <1>4, <1>5 DEF FilesInv, TypeOK, bounds
<1>7. Placed /\ previous = NoFile
  BY <1>1, <1>2, Found DEF OldIsSafe, NothingOld
<1>8. Whole(db, wal)
  BY <1>2, <1>7, Found, Folded DEF Placed, MainFiles
<1> QED
  BY <1>1, <1>3, <1>4, <1>5, <1>6, <1>7, <1>8
     DEF FilesInv, KindOfStep, MovesKnown, Where, Ended, Whole, RestoreSteps

LEMMA RecoverNothingStagedStep == ASSUME FilesInv, RecoverNothingStaged PROVE FilesInv'
<1>1. /\ proc.step = "recover" /\ proc # NoProc /\ Interrupted /\ proc \in ProcType
      /\ db = NoFile /\ journal.phase = "prepared"
  BY DEF RecoverNothingStaged, NoProc, FilesInv, KindOfStep
<1>2. /\ proc' \in ProcType /\ proc'.step = "open" /\ proc'.kind = proc.kind
      /\ proc'.movedDb = proc.movedDb /\ proc'.movedWal = proc.movedWal
  BY <1>1, GotoFacts DEF RecoverNothingStaged, Steps
<1>3. /\ UNCHANGED <<db, wal, rb, rbWal, staging, digest, backups>>
      /\ UNCHANGED <<previous, restored, reanchored>> /\ UNCHANGED bounds
  BY DEF RecoverNothingStaged, ghosts, files
<1>4. /\ journal' \in [phase : Phases, rollback : BOOLEAN] /\ ~Interrupted'
      /\ journal'.phase = "rolled_back" /\ journal' # NoJournal
  BY <1>1, PhaseFacts DEF RecoverNothingStaged, Phases, FilesInv
<1>5. TypeOK'
  BY <1>3, <1>4 DEF FilesInv, TypeOK, bounds
<1>6. Nothing /\ previous = NoFile
  BY <1>1, Found DEF OldIsSafe, NothingOld, Placed
<1>7. Whole(db, wal)
  BY <1>6, Folded DEF Nothing, MainFiles
<1> QED
  BY <1>1, <1>2, <1>3, <1>4, <1>5, <1>6, <1>7
     DEF FilesInv, KindOfStep, MovesKnown, Where, Ended, Whole, RestoreSteps

LEMMA RecoverRefusesStep == ASSUME FilesInv, RecoverRefuses PROVE FilesInv'
<1>1. proc.step = "recover" /\ Interrupted
  BY DEF RecoverRefuses, Ambiguous
<1>2. proc' = NoProc /\ proc' \in ProcType /\ proc'.step = "none"
  BY DEF RecoverRefuses, Exit, NoProc, ProcType
<1>3. /\ UNCHANGED <<db, wal, rb, rbWal, staging, journal, digest, backups>>
      /\ UNCHANGED <<previous, restored, reanchored>> /\ UNCHANGED bounds
  BY DEF RecoverRefuses, ghosts, files
<1>4. TypeOK'
  BY <1>3 DEF FilesInv, TypeOK, bounds
<1> QED
  BY <1>1, <1>2, <1>3, <1>4
     DEF FilesInv, KindOfStep, MovesKnown, Where, Ended, Interrupted, OldIsSafe, NothingOld,
         RestoreSteps, PhaseOf, Unmoved, Nothing, Aside, HalfAside, Replaced, Placed, NoProc

-----------------------------------------------------------------------------
\* The daemon, the backup and the loss of the database.

LEMMA ExtendsAppend ==
    ASSUME NEW h \in Histories, NEW g \in Histories, NEW k \in {"event", "checkpoint"}, Extends(h, g)
    PROVE  Extends(Append(h, k), g)
<1>1. Len(g) \in 0 .. Len(h) /\ Len(h) \in Nat /\ Len(Append(h, k)) = Len(h) + 1
  BY DEF Extends, Histories
<1>2. Append(h, k) \in Histories /\ SubSeq(Append(h, k), 1, Len(g)) = SubSeq(h, 1, Len(g))
  BY <1>1, HistoryFacts
<1>3. Append(h, k) \notin {NoFile, Corrupt}
  BY <1>2, RecoveryAbsence
<1>4. Len(Append(h, k)) >= Len(g) /\ SubSeq(h, 1, Len(g)) = g
  BY <1>1 DEF Extends
<1> QED
  BY <1>2, <1>3, <1>4 DEF Extends

LEMMA EmptyHistory == <<>> \in Histories
<1> DEFINE S == {"event", "checkpoint"}
<1>1. Histories = Seq(S)
  BY DEF Histories
<1> HIDE DEF S
<1> QED
  BY <1>1

LEMMA OpenStoreStep == ASSUME FilesInv, OpenStore PROVE FilesInv'
<1>1. proc.step = "open" /\ proc # NoProc /\ proc.kind # "restore" /\ proc \in ProcType
  BY DEF OpenStore, NoProc, FilesInv, KindOfStep
<1>2. ~Interrupted /\ Whole(db, wal)
  BY <1>1 DEF FilesInv, Where, Ended, RestoreSteps
<1>3. /\ proc' \in ProcType /\ proc'.step \in {"none", "serving"}
      /\ proc'.kind # "restore"
  <2>1. CASE Goto("serving")
    BY <1>1, <2>1, GotoFacts
  <2>2. CASE Exit
    BY <2>2 DEF Exit, NoProc, ProcType
  <2> QED
    BY <2>1, <2>2 DEF OpenStore
<1>4. /\ db' = (IF db = NoFile THEN <<>> ELSE db)
      /\ UNCHANGED <<wal, rb, rbWal, staging, journal, digest, backups>>
      /\ UNCHANGED <<previous, restored, reanchored>> /\ UNCHANGED bounds
  BY DEF OpenStore, ghosts
<1>5. <<>> \in Histories /\ <<>> # NoFile
  BY EmptyHistory, RecoveryAbsence, Zenon
<1>6. TypeOK' /\ db' # NoFile
  BY <1>4, <1>5 DEF FilesInv, TypeOK, bounds, MainFiles
<1>7. Whole(db', wal')
  <2>1. CASE db = NoFile
    BY <1>2, <1>4, <1>5, <2>1, Folded DEF Whole, MainFiles
  <2>2. CASE db # NoFile
    BY <1>2, <1>4, <2>2
  <2> QED
    BY <2>1, <2>2
<1>8. previous # NoFile => db' = db
  <2>1. \A h : Extends(Content(NoFile, wal), h) => FALSE
    BY DEF Extends, Content
  <2> QED
    BY <1>2, <1>4, <2>1 DEF FilesInv, Ended
<1>9. Ended'
  BY <1>2, <1>3, <1>4, <1>6, <1>7, <1>8
     DEF FilesInv, Ended, Interrupted, Whole, Extends, Content
<1> QED
  BY <1>2, <1>3, <1>4, <1>6, <1>9
     DEF FilesInv, KindOfStep, MovesKnown, Where, Interrupted, RestoreSteps

LEMMA CommitStep ==
    ASSUME FilesInv, NEW kind \in {"event", "checkpoint"}, Commit(kind)
    PROVE  /\ FilesInv'
           /\ db # NoFile /\ Content(db, wal) \in Histories
           /\ Content(db, wal)' = Append(Content(db, wal), kind)
<1>1. proc.step = "serving" /\ proc.kind = "daemon" /\ proc \in ProcType
  BY DEF Commit, Running, FilesInv, KindOfStep
<1>2. ~Interrupted /\ Whole(db, wal) /\ db # NoFile
  BY <1>1 DEF FilesInv, Where, Ended, RestoreSteps
<1>3. db \in Histories /\ wal \in Logs /\ Content(db, wal) \in Histories
  BY <1>2, ContentOf DEF FilesInv, TypeOK, MainFiles
<1>4. /\ wal' \in Logs /\ Whole(db, wal') /\ Content(db, wal') = Append(Content(db, wal), kind)
  <2>1. wal' = IF wal = NoFile THEN [base |-> db, frames |-> <<kind>>]
               ELSE [wal EXCEPT !.frames = Append(@, kind)]
    BY DEF Commit
  <2> QED
    BY <1>2, <1>3, <2>1, Committed
<1>5. /\ UNCHANGED <<db, rb, rbWal, staging, journal, backups, proc>>
      /\ UNCHANGED <<previous, restored, reanchored>> /\ UNCHANGED bounds
      /\ digest' = IF kind = "checkpoint" THEN Append(Content(db, wal), kind) ELSE digest
  BY DEF Commit, ghosts
<1>6. Append(Content(db, wal), kind) \in Histories
  <2>1. 0 \in 0 .. Len(Content(db, wal))
    BY <1>3 DEF Histories
  <2> QED
    BY <1>3, <2>1, HistoryFacts
<1>7. TypeOK'
  BY <1>4, <1>5, <1>6 DEF FilesInv, TypeOK, bounds
<1>8. ASSUME NEW h \in MainFiles, Extends(Content(db, wal), h), h # NoFile
      PROVE  Extends(Content(db, wal'), h)
  BY <1>3, <1>4, <1>8, ExtendsAppend DEF MainFiles
<1>9. Ended'
  <2>1. previous \in MainFiles /\ restored \in MainFiles
    BY DEF FilesInv, TypeOK
  <2>2. Content(db, wal)' = Content(db, wal')
    BY <1>5
  <2>3. ASSUME previous # NoFile, journal.phase = "rolled_back", Extends(Content(db, wal), previous)
        PROVE  Extends(Content(db, wal), previous)'
    <3>1. Extends(Content(db, wal'), previous)
      BY <1>8, <2>1, <2>3
    <3> QED
      BY <1>5, <2>2, <3>1 DEF Extends
  <2>4. ASSUME journal.phase = "complete", restored # NoFile, Extends(Content(db, wal), restored)
        PROVE  Extends(Content(db, wal), restored)'
    <3>1. Extends(Content(db, wal'), restored)
      BY <1>8, <2>1, <2>4
    <3> QED
      BY <1>5, <2>2, <3>1 DEF Extends
  <2> QED
    BY <1>1, <1>2, <1>4, <1>5, <2>3, <2>4 DEF FilesInv, Ended, Interrupted, Whole
<1> QED
  BY <1>1, <1>2, <1>3, <1>4, <1>5, <1>7, <1>9
     DEF FilesInv, KindOfStep, MovesKnown, Where, Interrupted, RestoreSteps

LEMMA BackupStep == ASSUME FilesInv, Backup PROVE FilesInv'
<1>1. proc.step = "serving" /\ proc.kind = "backup" /\ proc # NoProc /\ proc \in ProcType
  BY DEF Backup, Running, NoProc, FilesInv, KindOfStep
<1>2. ~Interrupted /\ Whole(db, wal) /\ db # NoFile
  BY <1>1 DEF FilesInv, Where, Ended, RestoreSteps
<1>3. Content(db, wal) \in Histories
  BY <1>2, ContentOf DEF FilesInv, TypeOK
<1>4. proc' \in ProcType /\ proc'.step = "close" /\ proc'.kind = "backup"
  BY <1>1, GotoFacts DEF Backup, Steps
<1>5. /\ backups' = backups \cup {Content(db, wal)}
      /\ UNCHANGED <<db, wal, rb, rbWal, staging, journal, digest>>
      /\ UNCHANGED <<previous, restored, reanchored>> /\ UNCHANGED bounds
  BY DEF Backup, ghosts, files
<1>6. TypeOK'
  BY <1>3, <1>5 DEF FilesInv, TypeOK, bounds
<1> QED
  BY <1>2, <1>4, <1>5, <1>6
     DEF FilesInv, KindOfStep, MovesKnown, Where, Ended, Interrupted, RestoreSteps, Whole

LEMMA CloseStep ==
    ASSUME FilesInv, Close
    PROVE  FilesInv' /\ Content(db, wal)' = Content(db, wal)
<1>1. proc.step \in {"serving", "close"}
  BY DEF Close, Running
<1>2. ~Interrupted /\ Whole(db, wal) /\ db # NoFile
  BY <1>1 DEF FilesInv, Where, Ended, RestoreSteps
<1>3. Content(db, wal) \in Histories
  BY <1>2, ContentOf DEF FilesInv, TypeOK
<1>4. proc' = NoProc /\ proc' \in ProcType /\ proc'.step = "none"
  BY DEF Close, Exit, NoProc, ProcType
<1>5. /\ db' = Content(db, wal) /\ wal' = NoFile
      /\ UNCHANGED <<rb, rbWal, staging, journal, digest, backups>>
      /\ UNCHANGED <<previous, restored, reanchored>> /\ UNCHANGED bounds
  BY DEF Close, ghosts
<1>6. TypeOK'
  BY <1>3, <1>5 DEF FilesInv, TypeOK, bounds, MainFiles, Logs
<1>7. Content(db', wal') = Content(db, wal) /\ Whole(db', wal') /\ db' # NoFile
  BY <1>3, <1>5, Folded, RecoveryAbsence DEF MainFiles
<1>8. Ended'
  BY <1>2, <1>4, <1>5, <1>7 DEF FilesInv, Ended, Interrupted, Extends
<1> QED
  BY <1>2, <1>4, <1>5, <1>6, <1>7, <1>8
     DEF FilesInv, KindOfStep, MovesKnown, Where, Interrupted, RestoreSteps, NoProc

LEMMA PrepareStep == ASSUME FilesInv, NEW image \in backups, Prepare(image) PROVE FilesInv'
<1>1. /\ proc.step = "open" /\ proc.kind = "restore" /\ proc # NoProc /\ proc \in ProcType
      /\ ~proc.movedDb /\ ~proc.movedWal
  BY DEF Prepare, Running, NoProc, FilesInv, KindOfStep, MovesKnown
<1>2. ~Interrupted /\ Whole(db, wal)
  BY <1>1 DEF FilesInv, Where, Ended, RestoreSteps
<1>3. /\ Content(db, wal) \in MainFiles /\ (Content(db, wal) = NoFile <=> db = NoFile)
      /\ db = NoFile => wal = NoFile
  BY <1>2, ContentOf DEF FilesInv, TypeOK, Whole
<1>4. image \in Histories
  BY DEF FilesInv, TypeOK
<1>5. /\ proc' \in ProcType /\ proc'.step = "stage" /\ proc'.kind = "restore"
      /\ proc'.movedDb = proc.movedDb /\ proc'.movedWal = proc.movedWal
  BY <1>1, GotoFacts DEF Prepare, Steps
<1>6. /\ previous' = Content(db, wal) /\ restored' = image
      /\ rb' = NoFile /\ rbWal' = NoFile /\ staging' = NoFile
      /\ UNCHANGED <<db, wal, digest, backups, kills, faults, disasters>>
      /\ reanchored' \in BOOLEAN /\ restores' \in 0 .. MaxRestores
  BY <1>1, RecoveryAssumption DEF Prepare, FilesInv, TypeOK, ProcType
<1>7. journal' = [phase |-> "prepared", rollback |-> db # NoFile]
  BY DEF Prepare
<1>8. /\ journal' \in [phase : Phases, rollback : BOOLEAN] /\ journal'.phase = "prepared"
      /\ journal'.rollback <=> db # NoFile
  BY <1>7 DEF Phases
<1>9. journal' # NoJournal
  BY <1>8, RecoveryAbsence DEF Phases
<1>10. TypeOK'
  BY <1>3, <1>4, <1>6, <1>8 DEF FilesInv, TypeOK, MainFiles, Logs
<1>11. db # NoFile => OldIsSafe'
  BY <1>2, <1>3, <1>5, <1>6 DEF OldIsSafe, Unmoved, Whole, Content
<1>12. db = NoFile => NothingOld'
  BY <1>3, <1>5, <1>6, <1>8 DEF NothingOld, Nothing
<1>13. Where' /\ Ended'
  BY <1>4, <1>5, <1>6, <1>8, <1>9, <1>11, <1>12
     DEF Where, Ended, Interrupted, RestoreSteps, PhaseOf
<1> QED
  BY <1>1, <1>5, <1>10, <1>13 DEF FilesInv, KindOfStep, MovesKnown, RestoreSteps

LEMMA KillServingStep == ASSUME FilesInv, KillServing PROVE FilesInv'
<1>1. ~Interrupted
  BY DEF KillServing, FilesInv, Where, RestoreSteps
<1>2. proc' = NoProc /\ proc' \in ProcType /\ proc'.step = "none"
  BY DEF KillServing, Exit, NoProc, ProcType
<1>3. /\ UNCHANGED <<db, wal, rb, rbWal, staging, journal, digest, backups>>
      /\ UNCHANGED <<previous, restored, reanchored>> /\ UNCHANGED bounds
  BY DEF KillServing, ghosts, files
<1>4. TypeOK'
  BY <1>3 DEF FilesInv, TypeOK, bounds
<1> QED
  BY <1>1, <1>2, <1>3, <1>4
     DEF FilesInv, KindOfStep, MovesKnown, Where, Ended, Interrupted, Whole, RestoreSteps, NoProc

\* A kill leaves the files at the step reached: the next process finds them so.
LEMMA KillStep ==
    ASSUME FilesInv, Kill, KillAt \cap MovingBack = {}
    PROVE  FilesInv'
<1>1. proc \in ProcType /\ proc.step \notin MovingBack
  BY DEF Kill, FilesInv, KindOfStep
<1>2. proc' = NoProc /\ proc' \in ProcType /\ proc'.step = "none"
  BY DEF Kill, Exit, NoProc, ProcType
<1>3. /\ UNCHANGED <<db, wal, rb, rbWal, staging, journal, digest, backups>>
      /\ UNCHANGED <<previous, restored, reanchored>>
  BY DEF Kill, ghosts, files
<1>4. TypeOK'
  BY <1>3, RecoveryAssumption DEF Kill, FilesInv, TypeOK
<1>5. KindOfStep' /\ MovesKnown' /\ Ended'
  BY <1>2, <1>3 DEF FilesInv, KindOfStep, MovesKnown, Ended, Interrupted, Whole, RestoreSteps, NoProc
<1>6. CASE Interrupted /\ journal.rollback
  <2>1. OldIsSafe /\ journal.phase \in PhaseOf(proc.step)
    BY <1>6, Found
  <2>2. \/ journal.phase \in {"prepared", "staged", "verified"} /\ Unmoved /\ db # NoFile
        \/ journal.phase = "verified" /\ (HalfAside \/ Aside)
        \/ journal.phase \in {"backup_complete", "swapped"} /\ (Aside \/ Replaced)
    BY <1>1, <1>6, <2>1 DEF OldIsSafe, PhaseOf, MovingBack, FilesInv, Where, RestoreSteps
  <2>3. OldIsSafe'
    BY <1>2, <1>3, <2>1, <2>2 DEF OldIsSafe, Unmoved, HalfAside, Aside, Replaced
  <2> QED
    BY <1>2, <1>3, <1>4, <1>5, <1>6, <2>2, <2>3, Found
       DEF FilesInv, Where, Interrupted, PhaseOf
<1>7. CASE Interrupted /\ ~journal.rollback
  <2>1. NothingOld /\ journal.phase \in PhaseOf(proc.step)
    BY <1>7, Found
  <2>2. Nothing \/ (Placed /\ journal.phase \in {"verified", "swapped"})
    BY <1>1, <1>7, <2>1 DEF NothingOld, PhaseOf, MovingBack, FilesInv, Where, RestoreSteps
  <2>3. NothingOld'
    BY <1>2, <1>3, <2>1, <2>2 DEF NothingOld, Nothing, Placed
  <2>4. journal.phase \in {"prepared", "staged", "verified", "backup_complete", "swapped"}
    BY <1>7, Found DEF Interrupted, Phases
  <2> QED
    BY <1>2, <1>3, <1>4, <1>5, <1>7, <2>3, <2>4, Found
       DEF FilesInv, Where, Interrupted, PhaseOf
<1>8. CASE ~Interrupted
  BY <1>3, <1>4, <1>5, <1>8 DEF FilesInv, Where, Interrupted
<1> QED
  BY <1>6, <1>7, <1>8

LEMMA LoseDatabaseStep == ASSUME FilesInv, LoseDatabase PROVE FilesInv'
<1>1. ~Interrupted /\ proc.step = "none"
  BY DEF LoseDatabase, NoProc
<1>2. /\ db' = NoFile /\ wal' = NoFile /\ previous' = NoFile /\ restored' = NoFile
      /\ UNCHANGED <<rb, rbWal, staging, journal, digest, backups, proc, reanchored>>
      /\ UNCHANGED <<restores, kills, faults>> /\ disasters' \in 0 .. MaxDisasters
  BY RecoveryAssumption DEF LoseDatabase, FilesInv, TypeOK
<1>3. TypeOK'
  BY <1>2 DEF FilesInv, TypeOK, MainFiles, Logs
<1>4. Whole(NoFile, NoFile)
  BY Folded DEF MainFiles
<1> QED
  BY <1>1, <1>2, <1>3, <1>4
     DEF FilesInv, KindOfStep, MovesKnown, Where, Ended, Interrupted, RestoreSteps

-----------------------------------------------------------------------------
\* Database and digest.

\* A restore goes on: its next step knows no more than this one.
LEMMA RestoreGoesOn ==
    ASSUME Inv, proc.step \in RestoreSteps, proc'.step \in RestoreSteps, Interrupted, Interrupted',
           proc'.kind = proc.kind, proc'.reanchor = proc.reanchor, proc'.before = proc.before,
           UNCHANGED <<digest, previous, restored, reanchored>>, UNCHANGED <<kills, disasters>>,
           proc'.step \in BeforeReanchor => proc.step \in BeforeReanchor,
           proc'.step # "complete",
           ~proc.reanchor /\ journal'.phase \in {"verified", "backup_complete", "swapped"} =>
               \/ journal.phase \in {"verified", "backup_complete", "swapped"}
               \/ digest = DigestOf(restored)
    PROVE  DigestInv'
<1>1. Remembered'
  <2>1. proc'.step \notin {"recover", "moveBackWal", "moveBackDone", "forwardDone", "open"}
    BY DEF RestoreSteps
  <2> QED
    BY <2>1 DEF Inv, DigestInv, Remembered
<1>2. UNCHANGED <<DigestOf(previous), DigestOf(restored)>>
  BY DEF DigestOf, LatestDigest, Checkpoints
<1>3. ~Exempt' => ~Exempt
  BY DEF Exempt
<1>4. ASSUME ~Exempt PROVE EndedAgrees' /\ RestoreAgrees' /\ RecoveryAgrees'
  <2>1. RestoreAgrees /\ RecoveryAgrees
    BY <1>4 DEF Inv, DigestInv
  <2>2. RestoreAgrees'
    BY <1>2, <2>1 DEF RestoreAgrees
  <2>3. RecoveryAgrees'
    BY <1>2, <2>1 DEF RecoveryAgrees
  <2> QED
    BY <2>2, <2>3 DEF EndedAgrees
<1> QED
  BY <1>1, <1>3, <1>4 DEF DigestInv

LEMMA StagingAgrees ==
    ASSUME Inv, Stage \/ Staged \/ VerifyStaged \/ RejectStaged
    PROVE  DigestInv'
<1>1. proc.step \in {"stage", "staged", "verify"}
  BY DEF Stage, Staged, VerifyStaged, RejectStaged, Running, StageSteps
<1>2. /\ proc.step \in RestoreSteps /\ proc.step \in BeforeReanchor /\ FilesInv
  BY <1>1 DEF RestoreSteps, BeforeReanchor, Inv
<1>3. /\ proc' \in ProcType /\ proc'.step \in {"staged", "verify", "rejected", "moveDb", "swap"}
      /\ proc'.kind = proc.kind /\ proc'.reanchor = proc.reanchor /\ proc'.before = proc.before
  BY <1>2, RestoreRuns, GotoFacts DEF Stage, Staged, VerifyStaged, RejectStaged, Steps
<1>4. /\ UNCHANGED <<digest, previous, restored, reanchored>> /\ UNCHANGED <<kills, disasters>>
  BY DEF Stage, Staged, VerifyStaged, RejectStaged, ghosts, bounds
<1>5. Interrupted' /\ (VerifyStaged \/ journal'.phase \in {"prepared", "staged"} \/ UNCHANGED journal)
  BY <1>2, RestoreRuns, PhaseFacts
     DEF Stage, Staged, VerifyStaged, RejectStaged, SetPhase, Phases, FilesInv, Interrupted
<1>6. ASSUME VerifyStaged, ~proc.reanchor PROVE digest = DigestOf(restored)
  <2>1. staging = restored /\ restored # NoFile
    BY <1>2, <1>6, RestoreRuns DEF FilesInv, Where, VerifyStaged, Running
  <2> QED
    BY <1>6, <2>1 DEF VerifyStaged, AcceptsStaged, DigestOf
<1> QED
  BY <1>2, <1>3, <1>4, <1>5, <1>6, RestoreRuns, RestoreGoesOn DEF RestoreSteps

LEMMA SwapAgrees ==
    ASSUME Inv, MoveDb \/ MoveWal \/ BackupComplete \/ Swap \/ Swapped
    PROVE  DigestInv'
<1>1. proc.step \in {"moveDb", "moveWal", "backupComplete", "swap", "swapped"}
  BY DEF MoveDb, MoveWal, BackupComplete, Swap, Swapped, Running
<1>2. /\ proc.step \in RestoreSteps /\ proc.step \in BeforeReanchor /\ FilesInv
      /\ journal.phase \in {"verified", "backup_complete", "swapped"}
  BY <1>1, RestoreRuns DEF RestoreSteps, BeforeReanchor, Inv, PhaseOf
<1>3. /\ proc'.step \in {"moveWal", "backupComplete", "swap", "swapped", "reopen"}
      /\ proc'.kind = proc.kind /\ proc'.reanchor = proc.reanchor /\ proc'.before = proc.before
  <2>1. CASE BackupComplete \/ Swap \/ Swapped
    BY <1>2, <2>1, RestoreRuns, GotoFacts DEF BackupComplete, Swap, Swapped, Steps
  <2>2. CASE MoveDb \/ MoveWal
    BY <1>2, <2>2, RestoreRuns DEF MoveDb, MoveWal, ProcType
  <2> QED
    BY <2>1, <2>2
<1>4. /\ UNCHANGED <<digest, previous, restored, reanchored>> /\ UNCHANGED <<kills, disasters>>
  BY DEF MoveDb, MoveWal, BackupComplete, Swap, Swapped, ghosts, bounds
<1>5. Interrupted'
  BY <1>2, RestoreRuns, PhaseFacts
     DEF MoveDb, MoveWal, BackupComplete, Swap, Swapped, SetPhase, Phases, FilesInv, Interrupted
<1> QED
  BY <1>2, <1>3, <1>4, <1>5, RestoreRuns, RestoreGoesOn DEF RestoreSteps

LEMMA CatchAgrees ==
    ASSUME Inv, Fault \/ CatchRemove \/ CatchMoveDb \/ CatchMoveWal
    PROVE  DigestInv'
<1>1. proc.step \in RestoreSteps /\ FilesInv
  BY DEF Fault, CatchRemove, CatchMoveDb, CatchMoveWal, Running, RestoreSteps, SwapSteps, Inv
<1>2. /\ proc'.step \in {"catch", "catchMoveDb", "catchMoveWal", "catchJournal"}
      /\ proc'.kind = proc.kind /\ proc'.reanchor = proc.reanchor /\ proc'.before = proc.before
  BY <1>1, RestoreRuns, GotoFacts
     DEF Fault, CatchRemove, CatchMoveDb, CatchMoveWal, Steps, MovingBack
<1>3. /\ UNCHANGED <<journal, digest, previous, restored, reanchored>>
      /\ UNCHANGED <<kills, disasters>>
  BY DEF Fault, CatchRemove, CatchMoveDb, CatchMoveWal, ghosts, bounds
<1>4. Interrupted' /\ Interrupted
  BY <1>1, <1>3, RestoreRuns DEF Interrupted
<1> QED
  BY <1>1, <1>2, <1>3, <1>4, RestoreGoesOn DEF RestoreSteps, BeforeReanchor

\* A restore ends with the database that its digest, or the one it remembers, covers.
LEMMA ReopenAgrees == ASSUME Inv, Reopen PROVE DigestInv'
<1>1. proc.step = "reopen" /\ proc.step \in RestoreSteps /\ FilesInv
  BY DEF Reopen, Running, RestoreSteps, Inv
<1>2. /\ proc'.step = "complete" /\ proc'.kind = proc.kind
      /\ proc'.reanchor = proc.reanchor /\ proc'.before = proc.before
  BY <1>1, RestoreRuns, GotoFacts DEF Reopen, Steps
<1>3. /\ UNCHANGED <<db, wal, journal, previous, restored, reanchored>>
      /\ UNCHANGED <<kills, disasters>>
      /\ digest' = IF proc.reanchor THEN LatestDigest(Content(db, wal)) ELSE digest
  BY DEF Reopen, ghosts, bounds, files
<1>4. Content(db, wal) = restored /\ restored # NoFile
  BY <1>1, RestoreRuns, Folded DEF OldIsSafe, NothingOld, Replaced, Placed, MainFiles
<1>5. digest' = DigestOf(restored) /\ (~proc.reanchor => digest' = digest)
  BY <1>3, <1>4 DEF Reopen, Reopens, Anchored, DigestOf
<1>6. UNCHANGED <<DigestOf(previous), DigestOf(restored)>>
  BY <1>3 DEF DigestOf, LatestDigest, Checkpoints
<1>7. Interrupted /\ Interrupted'
  BY <1>1, <1>3, RestoreRuns DEF Interrupted
<1>8. Remembered'
  BY <1>1, <1>2, <1>3 DEF Inv, DigestInv, Remembered, RestoreSteps
<1>9. ~Exempt' => ~Exempt
  BY <1>3 DEF Exempt
<1>10. ASSUME ~Exempt PROVE EndedAgrees' /\ RestoreAgrees' /\ RecoveryAgrees'
  <2>1. RestoreAgrees /\ RecoveryAgrees
    BY <1>10 DEF Inv, DigestInv
  <2>2. RestoreAgrees'
    BY <1>1, <1>2, <1>5, <1>6, <1>7, <2>1 DEF RestoreAgrees, BeforeReanchor
  <2>3. RecoveryAgrees'
    BY <1>1, <1>2, <1>3, <1>5, <1>6, <1>7, <2>1 DEF RecoveryAgrees, RestoreSteps
  <2> QED
    BY <1>7, <2>2, <2>3 DEF EndedAgrees
<1> QED
  BY <1>2, <1>8, <1>9, <1>10 DEF DigestInv, RestoreSteps

\* With no restore under way there is one thing to show.
LEMMA EndAgrees ==
    ASSUME Remembered', ~Interrupted', ~Exempt => EndedAgrees',
           reanchored' = reanchored, kills' = kills, disasters' = disasters
    PROVE  DigestInv'
<1>1. ~Exempt' => ~Exempt
  BY DEF Exempt
<1> QED
  BY <1>1 DEF DigestInv, RestoreAgrees, RecoveryAgrees

LEMMA RejectedAgrees == ASSUME Inv, Rejected PROVE DigestInv'
<1>1. proc.step = "rejected" /\ proc.step \in RestoreSteps /\ FilesInv
  BY DEF Rejected, Running, RestoreSteps, Inv
<1>2. /\ proc'.step = "none" /\ proc'.kind = "none"
      /\ UNCHANGED <<db, wal, digest, reanchored, kills, disasters>>
  BY DEF Rejected, Exit, NoProc, files, ghosts, bounds
<1>3. ~Interrupted'
  BY <1>1, RestoreRuns, PhaseFacts DEF Rejected, SetPhase, Phases, FilesInv
<1>4. Content(db, wal) = previous
  BY <1>1, RestoreRuns, Folded DEF OldIsSafe, NothingOld, Unmoved, Nothing, MainFiles
<1>5. ASSUME ~Exempt PROVE EndedAgrees'
  <2>1. digest = DigestOf(previous)
    BY <1>1, <1>5, RestoreRuns DEF Inv, DigestInv, RestoreAgrees, BeforeReanchor
  <2>2. DigestOf(Content(db, wal))' = DigestOf(Content(db, wal))
    BY <1>2 DEF DigestOf, LatestDigest, Checkpoints, Content
  <2> QED
    BY <1>2, <1>4, <2>1, <2>2 DEF EndedAgrees
<1> QED
  BY <1>2, <1>3, <1>5, EndAgrees DEF Remembered

LEMMA CompleteAgrees == ASSUME Inv, Complete PROVE DigestInv'
<1>1. proc.step = "complete" /\ proc.step \in RestoreSteps /\ FilesInv
  BY DEF Complete, Running, RestoreSteps, Inv
<1>2. /\ proc'.step = "none" /\ proc'.kind = "none"
      /\ UNCHANGED <<db, wal, digest, reanchored, kills, disasters>>
  BY DEF Complete, Exit, NoProc, files, ghosts, bounds
<1>3. ~Interrupted'
  BY <1>1, RestoreRuns, PhaseFacts DEF Complete, SetPhase, Phases, FilesInv
<1>4. Content(db, wal) = restored
  BY <1>1, RestoreRuns, Folded DEF OldIsSafe, NothingOld, Replaced, Placed, MainFiles
<1>5. ASSUME ~Exempt PROVE EndedAgrees'
  <2>1. digest = DigestOf(restored)
    BY <1>1, <1>5, RestoreRuns DEF Inv, DigestInv, RestoreAgrees
  <2>2. DigestOf(Content(db, wal))' = DigestOf(Content(db, wal))
    BY <1>2 DEF DigestOf, LatestDigest, Checkpoints, Content
  <2> QED
    BY <1>2, <1>4, <2>1, <2>2 DEF EndedAgrees
<1> QED
  BY <1>2, <1>3, <1>5, EndAgrees DEF Remembered

LEMMA CatchJournalAgrees == ASSUME Inv, CatchJournal PROVE DigestInv'
<1>1. proc.step = "catchJournal" /\ proc.step \in RestoreSteps /\ FilesInv
  BY DEF CatchJournal, Running, RestoreSteps, Inv
<1>2. /\ proc'.step = "catchDigest" /\ proc'.kind = proc.kind
      /\ proc'.reanchor = proc.reanchor /\ proc'.before = proc.before
  BY <1>1, RestoreRuns, GotoFacts DEF CatchJournal, Steps
<1>3. UNCHANGED <<db, wal, digest, reanchored, kills, disasters>>
  BY DEF CatchJournal, ghosts, bounds
<1>4. ~Interrupted'
  BY <1>1, RestoreRuns, PhaseFacts DEF CatchJournal, SetPhase, Phases, FilesInv
<1>5. Content(db, wal) = previous
  BY <1>1, RestoreRuns, Folded DEF OldIsSafe, NothingOld, Back, Nothing, MainFiles
<1>6. ASSUME ~Exempt PROVE EndedAgrees'
  <2>1. /\ proc.before = DigestOf(previous)
        /\ ~proc.reanchor => digest = DigestOf(previous)
    BY <1>1, <1>6, RestoreRuns DEF Inv, DigestInv, RestoreAgrees, RecoveryAgrees
  <2>2. DigestOf(Content(db, wal))' = DigestOf(Content(db, wal))
    BY <1>3 DEF DigestOf, LatestDigest, Checkpoints, Content
  <2> QED
    BY <1>2, <1>3, <1>5, <2>1, <2>2 DEF EndedAgrees
<1>7. Remembered'
  BY <1>1, <1>2, <1>3 DEF Inv, DigestInv, Remembered, RestoreSteps
<1> QED
  BY <1>3, <1>4, <1>6, <1>7, EndAgrees

LEMMA CatchDigestAgrees == ASSUME Inv, CatchDigest PROVE DigestInv'
<1>1. proc.step = "catchDigest" /\ FilesInv
  BY DEF CatchDigest, Running, Inv
<1>2. /\ proc'.step = "none" /\ proc'.kind = "none"
      /\ UNCHANGED <<db, wal, journal, reanchored, kills, disasters>>
      /\ digest' = IF proc.reanchor THEN proc.before ELSE digest
  BY DEF CatchDigest, Exit, NoProc, files, ghosts, bounds
<1>3. ~Interrupted /\ ~Interrupted'
  BY <1>1, <1>2 DEF FilesInv, Where, RestoreSteps, Interrupted
<1>4. ASSUME ~Exempt PROVE EndedAgrees'
  <2>1. EndedAgrees
    BY <1>4 DEF Inv, DigestInv
  <2>2. DigestOf(Content(db, wal))' = DigestOf(Content(db, wal))
    BY <1>2 DEF DigestOf, LatestDigest, Checkpoints, Content
  <2> QED
    BY <1>1, <1>2, <1>3, <2>1, <2>2 DEF EndedAgrees
<1> QED
  BY <1>2, <1>3, <1>4, EndAgrees DEF Remembered

LEMMA PrepareAgrees == ASSUME Inv, NEW image \in backups, Prepare(image) PROVE DigestInv'
<1>1. /\ proc.step = "open" /\ proc.kind = "restore" /\ proc # NoProc /\ proc \in ProcType
      /\ FilesInv /\ proc.before = digest
  BY DEF Prepare, Running, NoProc, Inv, FilesInv, KindOfStep, DigestInv, Remembered
<1>2. ~Interrupted
  BY <1>1 DEF FilesInv, Where, RestoreSteps
<1>3. /\ proc'.step = "stage" /\ proc'.kind = proc.kind
      /\ proc'.reanchor = proc.reanchor /\ proc'.before = proc.before
  BY <1>1, GotoFacts DEF Prepare, Steps
<1>4. /\ UNCHANGED <<db, wal, digest, kills, disasters>>
      /\ previous' = Content(db, wal) /\ reanchored' = (reanchored \/ proc.reanchor)
  BY DEF Prepare
<1>5. journal' = [phase |-> "prepared", rollback |-> db # NoFile]
  BY DEF Prepare
<1>6. ~Exempt' => ~Exempt
  BY <1>4 DEF Exempt
<1>7. Remembered'
  BY <1>1, <1>3, <1>4 DEF Remembered, RestoreSteps
<1>8. ASSUME ~Exempt PROVE digest' = DigestOf(previous')
  <2>1. DigestOf(Content(db, wal)) = digest
    BY <1>1, <1>2, <1>8 DEF Inv, DigestInv, EndedAgrees
  <2> QED
    BY <1>4, <2>1 DEF DigestOf, LatestDigest, Checkpoints
<1>9. DigestOf(previous)' = DigestOf(previous')
  BY DEF DigestOf, LatestDigest, Checkpoints
<1>10. journal' \in [phase : Phases, rollback : BOOLEAN] /\ journal'.phase = "prepared"
  BY <1>5 DEF Phases
<1>11. Interrupted'
  BY <1>10, RecoveryAbsence DEF Interrupted, Phases
<1>12. ~Exempt => EndedAgrees' /\ RestoreAgrees' /\ RecoveryAgrees'
  BY <1>1, <1>3, <1>4, <1>8, <1>9, <1>10, <1>11 DEF EndedAgrees, RestoreAgrees, RecoveryAgrees
<1> QED
  BY <1>3, <1>6, <1>7, <1>12 DEF DigestInv, RestoreSteps

\* Without a restore under way, the content and the digest stay as they are, or
\* change together.
LEMMA ServingAgrees ==
    ASSUME Inv, ~Interrupted, ~Interrupted', proc.step # "catchDigest", proc'.step # "catchDigest",
           UNCHANGED <<reanchored, kills, disasters>>, Remembered',
           \/ digest' = digest /\ DigestOf(Content(db, wal))' = DigestOf(Content(db, wal))
           \/ digest' = DigestOf(Content(db, wal))'
    PROVE  DigestInv'
<1>1. ASSUME ~Exempt PROVE EndedAgrees'
  BY <1>1 DEF Inv, DigestInv, EndedAgrees
<1> QED
  BY <1>1, EndAgrees

LEMMA OpenStoreAgrees == ASSUME Inv, OpenStore PROVE DigestInv'
<1>1. proc.step = "open" /\ proc # NoProc /\ proc.kind # "restore" /\ FilesInv
  BY DEF OpenStore, NoProc, Inv
<1>2. ~Interrupted /\ Whole(db, wal)
  BY <1>1 DEF FilesInv, Where, Ended, RestoreSteps
<1>3. proc \in ProcType
  BY <1>1 DEF FilesInv, KindOfStep
<1>4. proc'.step \in {"none", "serving"}
  BY <1>1, <1>3, GotoFacts DEF OpenStore, Exit, NoProc
<1>5. /\ db' = (IF db = NoFile THEN <<>> ELSE db)
      /\ UNCHANGED <<wal, digest, journal, reanchored, kills, disasters>>
  BY DEF OpenStore, ghosts, bounds
<1>6. DigestOf(Content(db', wal')) = DigestOf(Content(db, wal))
  <2>1. CASE db = NoFile
    <3>1. PICK e : e = <<>> /\ e \in Histories /\ e # NoFile /\ DOMAIN e = {}
      <4>1. <<>> \in Histories /\ <<>> # NoFile
        BY EmptyHistory, RecoveryAbsence, Zenon
      <4> QED
        BY <4>1
    <3>2. Content(db, wal) = NoFile /\ Content(db', wal') = e
      BY <1>2, <1>5, <2>1, <3>1, Folded DEF Whole, MainFiles
    <3>3. LatestDigest(e) = NoDigest
      BY <3>1 DEF LatestDigest, Checkpoints
    <3> QED
      BY <3>1, <3>2, <3>3 DEF DigestOf
  <2>2. CASE db # NoFile
    BY <1>5, <2>2
  <2> QED
    BY <2>1, <2>2
<1>7. DigestOf(Content(db, wal))' = DigestOf(Content(db', wal'))
  BY DEF DigestOf, LatestDigest, Checkpoints, Content
<1>8. Remembered' /\ ~Interrupted'
  BY <1>2, <1>4, <1>5 DEF Remembered, RestoreSteps, Interrupted
<1> QED
  BY <1>1, <1>2, <1>4, <1>5, <1>6, <1>7, <1>8, ServingAgrees

LEMMA CommitAgrees ==
    ASSUME Inv, NEW kind \in {"event", "checkpoint"}, Commit(kind)
    PROVE  DigestInv'
<1>1. proc.step = "serving" /\ FilesInv
  BY DEF Commit, Running, Inv
<1>2. Content(db, wal) \in Histories /\ Content(db, wal)' = Append(Content(db, wal), kind)
  BY <1>1, CommitStep
<1>3. ~Interrupted
  BY <1>1 DEF FilesInv, Where, RestoreSteps
<1>4. /\ UNCHANGED <<proc, journal, reanchored, kills, disasters>>
      /\ digest' = IF kind = "checkpoint" THEN Append(Content(db, wal), kind) ELSE digest
  BY DEF Commit, ghosts, bounds
<1>5. DigestOf(Content(db, wal))' = DigestOf(Append(Content(db, wal), kind))
  BY <1>2 DEF DigestOf, LatestDigest, Checkpoints
<1>6. Content(db, wal) # NoFile /\ Append(Content(db, wal), kind) # NoFile
  <2>1. 0 \in 0 .. Len(Content(db, wal))
    BY <1>2 DEF Histories
  <2>2. Append(Content(db, wal), kind) \in Histories
    BY <1>2, <2>1, HistoryFacts
  <2> QED
    BY <1>2, <2>2, RecoveryAbsence
<1>7. \/ digest' = digest /\ DigestOf(Content(db, wal))' = DigestOf(Content(db, wal))
      \/ digest' = DigestOf(Content(db, wal))'
  <2>1. CASE kind = "event"
    BY <1>2, <1>4, <1>5, <1>6, <2>1, DigestFacts DEF DigestOf
  <2>2. CASE kind = "checkpoint"
    BY <1>2, <1>4, <1>5, <1>6, <2>2, DigestFacts DEF DigestOf
  <2> QED
    BY <2>1, <2>2
<1>8. Remembered' /\ ~Interrupted'
  BY <1>1, <1>3, <1>4 DEF Remembered, RestoreSteps, Interrupted
<1> QED
  BY <1>1, <1>3, <1>4, <1>7, <1>8, ServingAgrees

LEMMA BackupCloseAgrees == ASSUME Inv, Backup \/ Close \/ KillServing PROVE DigestInv'
<1>1. proc.step \in {"serving", "close"} /\ proc # NoProc /\ FilesInv /\ proc \in ProcType
  BY DEF Backup, Close, KillServing, Running, NoProc, Inv, FilesInv, KindOfStep
<1>2. ~Interrupted
  BY <1>1 DEF FilesInv, Where, RestoreSteps
<1>3. proc'.step \in {"none", "close"}
  BY <1>1, GotoFacts DEF Backup, Close, KillServing, Exit, NoProc, Steps
<1>4. UNCHANGED <<journal, digest, reanchored, kills, disasters>>
  BY DEF Backup, Close, KillServing, ghosts, bounds
<1>5. Content(db, wal)' = Content(db, wal)
  BY <1>1, CloseStep DEF Backup, KillServing, files, Content
<1>6. DigestOf(Content(db, wal))' = DigestOf(Content(db, wal))
  BY <1>5 DEF DigestOf, LatestDigest, Checkpoints
<1>7. Remembered' /\ ~Interrupted'
  BY <1>2, <1>3, <1>4 DEF Remembered, RestoreSteps, Interrupted
<1> QED
  BY <1>1, <1>2, <1>3, <1>4, <1>6, <1>7, ServingAgrees

LEMMA BeginAgrees ==
    ASSUME Inv, NEW kind \in {"daemon", "backup", "restore"}, NEW reanchor \in BOOLEAN,
           Begin(kind, reanchor)
    PROVE  DigestInv'
<1>1. /\ proc.step = "none" /\ proc'.step = "recover" /\ proc'.before = digest
      /\ UNCHANGED <<db, wal, journal, digest, previous, restored, reanchored, kills, disasters>>
  BY DEF Begin, NoProc, files, ghosts, bounds
<1>2. /\ UNCHANGED <<DigestOf(previous), DigestOf(restored)>>
      /\ DigestOf(Content(db, wal))' = DigestOf(Content(db, wal))
  BY <1>1 DEF DigestOf, LatestDigest, Checkpoints, Content
<1>3. Remembered' /\ UNCHANGED Interrupted /\ (~Exempt' => ~Exempt)
  BY <1>1 DEF Remembered, RestoreSteps, Interrupted, Exempt
<1>4. ASSUME ~Exempt PROVE EndedAgrees' /\ RestoreAgrees' /\ RecoveryAgrees'
  BY <1>1, <1>2, <1>3, <1>4
     DEF Inv, DigestInv, EndedAgrees, RestoreAgrees, RecoveryAgrees, RestoreSteps
<1> QED
  BY <1>1, <1>3, <1>4 DEF Inv, DigestInv, RestoreSteps

\* Recovery moves files, and leaves digest and journal alone.
LEMMA RecoveryGoesOn ==
    ASSUME Inv, Interrupted, proc.step \notin RestoreSteps,
           proc'.step \in {"none", "moveBackWal", "moveBackDone", "forwardDone"},
           proc'.kind = "none" \/ (proc'.kind = proc.kind /\ proc'.before = proc.before),
           proc.step \in {"recover", "moveBackWal"},
           UNCHANGED <<journal, digest, previous, restored, reanchored, kills, disasters>>
    PROVE  DigestInv'
<1>1. UNCHANGED <<DigestOf(previous), DigestOf(restored)>>
  BY DEF DigestOf, LatestDigest, Checkpoints
<1>2. UNCHANGED Interrupted /\ (~Exempt' => ~Exempt)
  BY DEF Interrupted, Exempt
<1>3. Remembered'
  BY DEF Inv, DigestInv, Remembered, RestoreSteps
<1>4. ASSUME ~Exempt PROVE EndedAgrees' /\ RestoreAgrees' /\ RecoveryAgrees'
  BY <1>1, <1>2, <1>4
     DEF Inv, DigestInv, EndedAgrees, RestoreAgrees, RecoveryAgrees, RestoreSteps
<1>5. Interrupted' /\ kills' = 0 /\ ~Exempt' => proc'.step \in RestoreSteps
  BY <1>2 DEF Inv, DigestInv
<1> QED
  BY <1>2, <1>3, <1>4, <1>5 DEF DigestInv

\* Recovery ends with the old database, or with a verified one.
LEMMA RecoveryEnds ==
    ASSUME Inv, Interrupted, ~Interrupted', proc.step \in {"recover", "moveBackDone", "forwardDone"},
           proc'.step = "open", proc'.kind = proc.kind, proc'.before = proc.before,
           UNCHANGED <<digest, reanchored, kills, disasters>>,
           NEW content, content = Content(db', wal'),
           \/ content = previous
           \/ content = restored /\ journal.phase \in {"verified", "backup_complete", "swapped"}
    PROVE  DigestInv'
<1>1. Remembered'
  BY DEF Inv, DigestInv, Remembered, RestoreSteps
<1>2. ASSUME ~Exempt PROVE EndedAgrees'
  <2>1. digest = DigestOf(content)
    BY <1>2 DEF Inv, DigestInv, RecoveryAgrees, RestoreSteps
  <2>2. DigestOf(Content(db, wal))' = DigestOf(content)
    BY DEF DigestOf, LatestDigest, Checkpoints, Content
  <2> QED
    BY <2>1, <2>2 DEF EndedAgrees
<1> QED
  BY <1>1, <1>2, EndAgrees

LEMMA RecoverAgrees == ASSUME Inv, Recover PROVE DigestInv'
<1>0. FilesInv /\ proc \in ProcType
  BY DEF Inv, FilesInv, KindOfStep
<1>1. CASE NothingToRecover
  <2>1. /\ proc.step = "recover" /\ proc # NoProc /\ ~Interrupted
        /\ UNCHANGED <<db, wal, journal, digest, reanchored, kills, disasters>>
    BY <1>1 DEF NothingToRecover, NoProc, files, ghosts, bounds
  <2>2. proc'.step = "open" /\ proc'.kind = proc.kind /\ proc'.before = proc.before
    BY <1>0, <1>1, <2>1, GotoFacts DEF NothingToRecover, Steps
  <2>3. Remembered' /\ ~Interrupted'
    BY <2>1, <2>2 DEF Inv, DigestInv, Remembered, RestoreSteps, Interrupted
  <2>4. DigestOf(Content(db, wal))' = DigestOf(Content(db, wal))
    BY <2>1 DEF DigestOf, LatestDigest, Checkpoints, Content
  <2> QED
    BY <2>1, <2>2, <2>3, <2>4, ServingAgrees
<1>2. CASE RecoverMoveBack \/ RecoverMoveBackWal \/ RecoverForward \/ RecoverRefuses
  <2>1. /\ proc.step \in {"recover", "moveBackWal"} /\ proc # NoProc
        /\ UNCHANGED <<journal, digest, previous, restored, reanchored, kills, disasters>>
    BY <1>2 DEF RecoverMoveBack, RecoverMoveBackWal, RecoverForward, RecoverRefuses, NoProc,
                ghosts, bounds
  <2>2. Interrupted
    BY <1>0, <1>2, <2>1 DEF RecoverMoveBack, RecoverMoveBackWal, RecoverForward, RecoverRefuses,
                            Ambiguous, FilesInv, Ended
  <2>3. /\ proc'.step \in {"none", "moveBackWal", "moveBackDone", "forwardDone"}
        /\ proc'.kind = "none" \/ (proc'.kind = proc.kind /\ proc'.before = proc.before)
    BY <1>0, <1>2, <2>1, GotoFacts
       DEF RecoverMoveBack, RecoverMoveBackWal, RecoverForward, RecoverRefuses, Exit, NoProc,
           Steps, MovingBack
  <2> QED
    BY <2>1, <2>2, <2>3, RecoveryGoesOn DEF RestoreSteps
<1>3. CASE RecoverBeforeMove
  <2>1. /\ proc.step = "recover" /\ proc # NoProc /\ Interrupted /\ db # NoFile
        /\ UNCHANGED <<db, wal, digest, reanchored, kills, disasters>>
        /\ journal.phase \in {"prepared", "staged", "verified"}
    BY <1>3 DEF RecoverBeforeMove, NoProc, ghosts, bounds
  <2>2. /\ proc'.step = "open" /\ proc'.kind = proc.kind /\ proc'.before = proc.before
        /\ ~Interrupted'
    BY <1>0, <1>3, <2>1, GotoFacts, PhaseFacts DEF RecoverBeforeMove, Steps, Phases, FilesInv
  <2>3. \/ Content(db, wal) = previous
        \/ Content(db, wal) = restored /\ journal.phase = "verified"
    BY <1>0, <2>1, Found, Folded
       DEF OldIsSafe, NothingOld, Unmoved, HalfAside, Aside, Nothing, Placed, MainFiles
  <2> QED
    BY <2>1, <2>2, <2>3, RecoveryEnds
<1>4. CASE RecoverAfterMove
  <2>1. /\ proc.step = "recover" /\ proc # NoProc /\ Interrupted /\ db # NoFile
        /\ UNCHANGED <<digest, reanchored, kills, disasters>>
        /\ journal.phase \in {"backup_complete", "swapped"}
    BY <1>4 DEF RecoverAfterMove, NoProc, ghosts, bounds
  <2>2. db = restored /\ wal = NoFile /\ restored \in Histories
    BY <1>0, <2>1, Found DEF OldIsSafe, NothingOld, Aside, Replaced, Nothing, Placed
  <2>3. Content(db, wal) = restored /\ Sound
    BY <2>2, Folded DEF MainFiles, Whole, Sound
  <2>4. db' = db /\ wal' = wal
    BY <1>4, <2>2, <2>3 DEF RecoverAfterMove, VerifyImage
  <2>5. /\ proc'.step = "open" /\ proc'.kind = proc.kind /\ proc'.before = proc.before
        /\ ~Interrupted'
    BY <1>0, <1>4, <2>1, <2>3, GotoFacts, PhaseFacts DEF RecoverAfterMove, Steps, Phases, FilesInv
  <2> QED
    BY <2>1, <2>3, <2>4, <2>5, RecoveryEnds
<1>5. CASE RecoverMoveBackDone
  <2>1. /\ proc.step = "moveBackDone" /\ proc # NoProc
        /\ UNCHANGED <<digest, reanchored, kills, disasters>>
    BY <1>5 DEF RecoverMoveBackDone, NoProc, ghosts, bounds
  <2>2. Interrupted
    BY <1>0, <2>1 DEF FilesInv, Ended
  <2>3. Content(db, wal) = previous /\ previous \in Histories /\ Sound
    <3>1. Content(db, wal) = previous /\ previous # NoFile
      BY <1>0, <2>1, <2>2, Found DEF OldIsSafe, NothingOld, Back
    <3> QED
      BY <1>0, <3>1, RecoveryAbsence DEF Sound, FilesInv, TypeOK, MainFiles
  <2>4. db' = previous /\ wal' = NoFile
    BY <1>5, <2>3 DEF RecoverMoveBackDone, VerifyImage
  <2>5. Content(db', wal') = previous
    BY <2>3, <2>4, Folded DEF MainFiles
  <2>6. /\ proc'.step = "open" /\ proc'.kind = proc.kind /\ proc'.before = proc.before
        /\ ~Interrupted'
    BY <1>0, <1>5, <2>1, <2>2, <2>3, GotoFacts, PhaseFacts
       DEF RecoverMoveBackDone, Steps, Phases, FilesInv
  <2> QED
    BY <2>1, <2>2, <2>5, <2>6, RecoveryEnds
<1>6. CASE RecoverForwardDone
  <2>1. /\ proc.step = "forwardDone" /\ proc # NoProc
        /\ UNCHANGED <<db, wal, digest, reanchored, kills, disasters>>
    BY <1>6 DEF RecoverForwardDone, NoProc, files, ghosts, bounds
  <2>2. Interrupted
    BY <1>0, <2>1 DEF FilesInv, Ended
  <2>3. Content(db, wal) = restored /\ journal.phase = "verified"
    BY <1>0, <2>1, <2>2, Found, Folded DEF OldIsSafe, NothingOld, Placed, PhaseOf, MainFiles
  <2>4. /\ proc'.step = "open" /\ proc'.kind = proc.kind /\ proc'.before = proc.before
        /\ ~Interrupted'
    BY <1>0, <1>6, <2>1, <2>2, GotoFacts, PhaseFacts DEF RecoverForwardDone, Steps, Phases, FilesInv
  <2> QED
    BY <2>1, <2>2, <2>3, <2>4, RecoveryEnds
<1>7. CASE RecoverNothingStaged
  <2>1. /\ proc.step = "recover" /\ proc # NoProc /\ Interrupted /\ db = NoFile
        /\ journal.phase = "prepared"
        /\ UNCHANGED <<db, wal, digest, reanchored, kills, disasters>>
    BY <1>7 DEF RecoverNothingStaged, NoProc, files, ghosts, bounds
  <2>2. Content(db, wal) = previous
    BY <1>0, <2>1, Found, Folded DEF OldIsSafe, NothingOld, Nothing, Placed, MainFiles
  <2>3. /\ proc'.step = "open" /\ proc'.kind = proc.kind /\ proc'.before = proc.before
        /\ ~Interrupted'
    BY <1>0, <1>7, <2>1, GotoFacts, PhaseFacts DEF RecoverNothingStaged, Steps, Phases, FilesInv
  <2> QED
    BY <2>1, <2>2, <2>3, RecoveryEnds
<1> QED
  BY <1>1, <1>2, <1>3, <1>4, <1>5, <1>6, <1>7 DEF Recover

\* A restore that does not re-anchor may be killed anywhere.
LEMMA KillAgrees == ASSUME Inv, Kill, KillAt \cap MovingBack = {} PROVE DigestInv'
<1>1. /\ proc' = NoProc /\ kills' = kills + 1 /\ kills \in Nat /\ proc \in ProcType /\ proc # NoProc
      /\ UNCHANGED <<db, wal, journal, digest, previous, restored, reanchored, disasters>>
  BY DEF Kill, Exit, Inv, FilesInv, KindOfStep, TypeOK, files, ghosts
<1>2. /\ UNCHANGED <<DigestOf(previous), DigestOf(restored)>>
      /\ DigestOf(Content(db, wal))' = DigestOf(Content(db, wal))
  BY <1>1 DEF DigestOf, LatestDigest, Checkpoints, Content
<1>3. proc'.step = "none" /\ proc'.kind = "none" /\ UNCHANGED Interrupted
  BY <1>1 DEF NoProc, Interrupted
<1>4. ~Exempt' => ~Exempt /\ ~reanchored /\ kills' # 0
  BY <1>1 DEF Exempt
<1>5. ASSUME ~Exempt' PROVE EndedAgrees' /\ RestoreAgrees' /\ RecoveryAgrees'
  <2>1. EndedAgrees /\ RecoveryAgrees /\ Remembered
    BY <1>4, <1>5 DEF Inv, DigestInv
  <2>2. proc.step \in RestoreSteps \cup {"catchDigest"} => proc.kind = "restore" /\ ~proc.reanchor
    BY <1>4, <1>5, <2>1 DEF Inv, FilesInv, KindOfStep, Remembered
  <2>3. EndedAgrees'
    BY <1>1, <1>2, <1>3, <2>1, <2>2 DEF EndedAgrees
  <2>4. RestoreAgrees'
    BY <1>3 DEF RestoreAgrees, RestoreSteps
  <2>5. RecoveryAgrees'
    BY <1>1, <1>2, <1>3, <2>1, <2>2 DEF RecoveryAgrees
  <2> QED
    BY <2>3, <2>4, <2>5
<1>6. Remembered'
  BY <1>3 DEF Remembered
<1> QED
  BY <1>4, <1>5, <1>6 DEF DigestInv

LEMMA LoseDatabaseAgrees == ASSUME Inv, LoseDatabase PROVE DigestInv'
<1>1. proc'.kind = "none" /\ disasters' > 0
  BY DEF LoseDatabase, NoProc, Inv, FilesInv, TypeOK
<1> QED
  BY <1>1 DEF DigestInv, Remembered, Exempt

-----------------------------------------------------------------------------
\* The invariant, for every number of commits, restores, kills and faults.

LEMMA InitInv == Init => Inv
<1> SUFFICES ASSUME Init PROVE Inv
  OBVIOUS
<1>1. TypeOK
  <2>1. /\ restores \in 0 .. MaxRestores /\ kills \in Nat /\ faults \in Nat
        /\ kills + faults <= MaxFailures /\ disasters \in 0 .. MaxDisasters
    BY RecoveryAssumption DEF Init
  <2>2. db \in MainFiles /\ rb \in MainFiles /\ staging \in MainFiles
        /\ previous \in MainFiles /\ restored \in MainFiles
    BY DEF Init, MainFiles
  <2>3. wal \in Logs /\ rbWal \in Logs
    BY DEF Init, Logs
  <2> QED
    BY <2>1, <2>2, <2>3 DEF Init, TypeOK
<1>2. proc \in ProcType /\ proc.step = "none" /\ proc.kind = "none" /\ ~Interrupted
  BY DEF Init, NoProc, ProcType, Interrupted
<1>3. Content(db, wal) = NoFile /\ Whole(db, wal)
  BY Folded DEF Init, MainFiles
<1>4. FilesInv
  BY <1>1, <1>2, <1>3 DEF FilesInv, KindOfStep, MovesKnown, Where, Ended, RestoreSteps, Init
<1>5. DigestInv
  BY <1>2, <1>3
     DEF DigestInv, Remembered, EndedAgrees, RestoreAgrees, RecoveryAgrees, DigestOf, Init
<1> QED
  BY <1>4, <1>5 DEF Inv

LEMMA StutterInv == ASSUME Inv, UNCHANGED vars PROVE Inv'
<1>1. /\ UNCHANGED <<db, wal, rb, rbWal, staging, journal, digest, backups, proc>>
      /\ UNCHANGED <<previous, restored, reanchored>>
      /\ UNCHANGED <<restores, kills, faults, disasters>>
  BY DEF vars, files, ghosts, bounds
<1>2. /\ UNCHANGED <<Content(db, wal), Content(rb, rbWal), Content(rb, wal), Content(db, rbWal)>>
      /\ UNCHANGED Interrupted
  BY <1>1 DEF Content, Interrupted
<1>3. UNCHANGED <<DigestOf(previous), DigestOf(restored), DigestOf(Content(db, wal))>>
  BY <1>1, <1>2 DEF DigestOf, LatestDigest, Checkpoints
<1>4. /\ UNCHANGED <<Whole(db, wal), Unmoved, HalfAside, Aside, Replaced, HalfBack, Back>>
      /\ UNCHANGED <<Nothing, Placed>> /\ UNCHANGED <<PhaseOf(proc.step)>>
  BY <1>1, <1>2
     DEF Whole, Unmoved, HalfAside, Aside, Replaced, HalfBack, Back, Nothing, Placed, PhaseOf
<1>5. TypeOK' /\ KindOfStep' /\ MovesKnown'
  BY <1>1 DEF Inv, FilesInv, TypeOK, KindOfStep, MovesKnown
<1>6. OldIsSafe' = OldIsSafe /\ NothingOld' = NothingOld
  BY <1>1, <1>4 DEF OldIsSafe, NothingOld
<1>7. Where' /\ Ended'
  BY <1>1, <1>2, <1>4, <1>6 DEF Inv, FilesInv, Where, Ended, Extends
<1>8. DigestInv'
  BY <1>1, <1>2, <1>3
     DEF Inv, DigestInv, Remembered, Exempt, EndedAgrees, RestoreAgrees, RecoveryAgrees
<1> QED
  BY <1>5, <1>7, <1>8 DEF Inv, FilesInv

LEMMA RestoreInv ==
    ASSUME Inv, Restore, FaultAt \cap {"moveDb", "moveWal"} = {}
    PROVE  Inv'
<1>1. FilesInv
  BY DEF Inv
<1>2. CASE \E image \in backups : Prepare(image)
  BY <1>1, <1>2, PrepareStep, PrepareAgrees DEF Inv
<1>3. CASE Stage \/ Staged \/ VerifyStaged \/ RejectStaged
  BY <1>1, <1>3, StageStep, StagedStep, VerifyStagedStep, RejectStagedStep, StagingAgrees DEF Inv
<1>4. CASE MoveDb \/ MoveWal \/ BackupComplete \/ Swap \/ Swapped
  BY <1>1, <1>4, MoveDbStep, MoveWalStep, BackupCompleteStep, SwapStep, SwappedStep, SwapAgrees
     DEF Inv
<1>5. CASE Fault \/ CatchRemove \/ CatchMoveDb \/ CatchMoveWal
  BY <1>1, <1>5, FaultStep, CatchRemoveStep, CatchMoveDbStep, CatchMoveWalStep, CatchAgrees DEF Inv
<1>6. CASE Rejected \/ Reopen \/ Complete
  BY <1>1, <1>6, RejectedStep, ReopenStep, CompleteStep, RejectedAgrees, ReopenAgrees,
     CompleteAgrees DEF Inv
<1>7. CASE CatchJournal \/ CatchDigest
  BY <1>1, <1>7, CatchJournalStep, CatchDigestStep, CatchJournalAgrees, CatchDigestAgrees DEF Inv
<1> QED
  BY <1>2, <1>3, <1>4, <1>5, <1>6, <1>7 DEF Restore

LEMMA StepInv ==
    ASSUME Inv, [Next]_vars, FaultAt \cap {"moveDb", "moveWal"} = {}, KillAt \cap MovingBack = {}
    PROVE  Inv'
<1>1. FilesInv
  BY DEF Inv
<1>2. ASSUME NEW kind \in {"daemon", "backup", "restore"}, NEW reanchor \in BOOLEAN,
             Begin(kind, reanchor)
      PROVE  Inv'
  BY <1>1, <1>2, BeginStep, BeginAgrees DEF Inv
<1>3. CASE Recover
  <2>1. FilesInv'
    BY <1>1, <1>3, NothingToRecoverStep, RecoverBeforeMoveStep, RecoverAfterMoveStep,
       RecoverMoveBackStep, RecoverMoveBackWalStep, RecoverMoveBackDoneStep, RecoverForwardStep,
       RecoverForwardDoneStep, RecoverNothingStagedStep, RecoverRefusesStep DEF Recover
  <2> QED
    BY <1>3, <2>1, RecoverAgrees DEF Inv
<1>4. CASE OpenStore \/ Backup \/ Close \/ KillServing
  BY <1>1, <1>4, OpenStoreStep, BackupStep, CloseStep, KillServingStep, OpenStoreAgrees,
     BackupCloseAgrees DEF Inv
<1>5. ASSUME NEW kind \in {"event", "checkpoint"}, Commit(kind) PROVE Inv'
  BY <1>1, <1>5, CommitStep, CommitAgrees DEF Inv
<1>6. CASE Restore
  BY <1>6, RestoreInv
<1>7. CASE Kill \/ LoseDatabase
  BY <1>1, <1>7, KillStep, LoseDatabaseStep, KillAgrees, LoseDatabaseAgrees DEF Inv
<1>8. CASE UNCHANGED vars
  BY <1>8, StutterInv
<1> QED
  BY <1>2, <1>3, <1>4, <1>5, <1>6, <1>7, <1>8 DEF Next

LEMMA InvAlways ==
    ASSUME FaultAt \cap {"moveDb", "moveWal"} = {}, KillAt \cap MovingBack = {}
    PROVE  Spec => []Inv
<1>1. Inv /\ [Next]_vars => Inv'
  BY StepInv
<1> QED
  BY <1>1, InitInv, PTL DEF Spec

(* What was committed before a restore survives it: recovery, restore and   *)
(* catch block (encrypted-backup.ts:231-300, 302-418) may be killed before  *)
(* any step except while the old database is being moved back, any number   *)
(* of times, and any operation but the two moves aside may fail.            *)
THEOREM PreviousAlwaysSurvives ==
    ASSUME FaultAt \cap {"moveDb", "moveWal"} = {}, KillAt \cap MovingBack = {}
    PROVE  Spec => []PreviousSurvives
<1>1. Inv => PreviousSurvives
  <2> SUFFICES ASSUME Inv, AtRest, previous # NoFile
               PROVE  Content(rb, rbWal) = previous \/ Extends(Content(db, wal), previous)
    BY DEF PreviousSurvives
  <2> QED
    BY DEF Inv, FilesInv, Ended, AtRest
<1> QED
  BY <1>1, InvAlways, PTL

LEMMA InvRecoverable == Inv => RestoreRecoverable
<1> SUFFICES ASSUME Inv PROVE RestoreRecoverable
  OBVIOUS
<1>1. FilesInv
  BY DEF Inv
<1>2. JournalTruthful
  BY <1>1 DEF JournalTruthful, AtRest, FilesInv, Ended
<1>3. NeverAmbiguous
  <2> SUFFICES ASSUME journal # NoJournal, journal.rollback, Ambiguous PROVE FALSE
    BY DEF NeverAmbiguous
  <2>1. Interrupted /\ db = NoFile /\ rb = NoFile
    BY DEF Ambiguous
  <2>2. OldIsSafe /\ journal.phase \in PhaseOf(proc.step)
    BY <1>1, <2>1, Found
  <2>3. proc.step \in RestoreSteps \cup {"none", "recover", "moveBackWal", "moveBackDone", "forwardDone"}
    BY <1>1, <2>1 DEF FilesInv, Where
  <2> QED
    BY <2>1, <2>2, <2>3
       DEF OldIsSafe, HalfAside, Aside, Replaced, HalfBack, Back, RestoreSteps
<1>4. EndedRestoreStarts
  <2> SUFFICES ASSUME AtRest, disasters = 0, kills = 0 \/ ~reanchored PROVE Starts
    BY DEF EndedRestoreStarts
  <2>1. ~Exempt /\ ~Interrupted /\ proc.step = "none" /\ Whole(db, wal)
    BY <1>1 DEF Exempt, AtRest, NoProc, FilesInv, Ended, TypeOK
  <2>2. DigestOf(Content(db, wal)) = digest
    BY <2>1 DEF Inv, DigestInv, EndedAgrees
  <2>3. Content(db, wal) = NoFile <=> db = NoFile
    BY <1>1, <2>1, ContentOf DEF FilesInv, TypeOK
  <2> QED
    BY <2>1, <2>2, <2>3 DEF Starts, Anchored, Sound, Whole, DigestOf
<1> QED
  BY <1>1, <1>2, <1>3, <1>4 DEF RestoreRecoverable, FilesInv

(* The next start can always go on: the journal is true and decides what to *)
(* do (recoverInterruptedRestore, encrypted-backup.ts:231-300), and the     *)
(* digest put back by the command (cli.ts, storeRestore) is the database's. *)
THEOREM RestoreAlwaysRecovers ==
    ASSUME FaultAt \cap {"moveDb", "moveWal"} = {}, KillAt \cap MovingBack = {}
    PROVE  Spec => []RestoreRecoverable
<1>1. Inv => RestoreRecoverable
  BY InvRecoverable
<1> QED
  BY <1>1, InvAlways, PTL

-----------------------------------------------------------------------------
(* The credential stores.  The invariant says who holds the instance lock,   *)
(* and that the memory of a daemon that holds it is what the store holds:    *)
(* so a secret it did not find there is missing, and nothing is sealed under *)
(* another.                                                                  *)


VaultRecords ==
  [kind : Kinds \cup {"none"},
   pc : {"off", "locking", "opening", "creating", "open", "locked", "serving", "ending"},
   values : [Accounts -> Nat], base : [Accounts -> Nat] \cup {NoVault}]

VaultTypeOK ==
  /\ headless \in BOOLEAN /\ overwritten \in BOOLEAN
  /\ credentials \in [Accounts -> Nat] \cup {NoVault}
  /\ ~headless => credentials # NoVault
  /\ procs \in [Procs -> VaultRecords]
  /\ secrets \in Nat
  /\ sealed \subseteq {"database", "artifact", "rollback"} \X (Nat \ {Missing})

\* A daemon and a store command hold the lock from before they open the
\* credential store, a restore from before it writes.
LockHeld ==
  \A p \in Procs :
    /\ procs[p].kind \in LockFirst /\ procs[p].pc \notin {"off", "locking"} => holder = p
    /\ procs[p].pc = "locked" => procs[p].kind = "restore" /\ holder = p
    /\ procs[p].pc = "locking" => procs[p].kind \in LockFirst

\* What a process has read: a restore's memory is what it knows of the file,
\* and only a file that was not there is created.
MemoryKnown ==
  \A p \in Procs :
    /\ procs[p].pc # "off" => procs[p].kind \in Kinds
    /\ procs[p].pc = "creating" => headless /\ procs[p].base = NoVault
    /\ headless /\ procs[p].pc \in {"open", "locked"} => procs[p].values = procs[p].base

\* The memory of the one who holds the lock is the file.
MemoryCurrent ==
  headless /\ ~overwritten =>
    \A p \in Procs :
      procs[p].kind \in LockFirst =>
        /\ procs[p].pc \in {"open", "serving"} =>
             procs[p].values = credentials /\ credentials # NoVault
        /\ procs[p].pc = "creating" => sealed = {}

\* A daemon that serves has found its artifact secret.
ArtifactSecret == \A p \in Procs : Serving(p) => Get(p, "artifact") # Missing

VaultInv ==
  /\ VaultTypeOK /\ LockHeld /\ MemoryKnown /\ MemoryCurrent /\ ArtifactSecret
  /\ SealedOpens

LEMMA ValuesAreNotNoVault == \A f \in [Accounts -> Nat] : f # NoVault
BY DEF Accounts, NoVault

LEMMA VaultInitInv == VaultInit => VaultInv
<1> SUFFICES ASSUME VaultInit PROVE VaultInv
  OBVIOUS
<1>1. Empty \in [Accounts -> Nat] /\ Empty # NoVault
  <2>1. Empty["database"] = Missing /\ "database" \in DOMAIN Empty /\ DOMAIN NoVault = {"none"}
    BY DEF Empty, Accounts, NoVault
  <2> QED
    BY <2>1 DEF Empty, Missing
<1>2. NotRunning \in VaultRecords
  BY <1>1 DEF NotRunning, VaultRecords
<1>3. VaultTypeOK
  BY <1>1, <1>2 DEF VaultInit, VaultTypeOK
<1> QED
  BY <1>3 DEF VaultInit, VaultInv, LockHeld, MemoryKnown, MemoryCurrent, ArtifactSecret, Serving,
     SealedOpens, NotRunning

\* What is sealed stays open when a process writes another account.
LEMMA OtherAccountKept ==
  ASSUME VaultInv, ~overwritten, NEW old \in [Accounts -> Nat], old = credentials,
         NEW a \in Accounts, a = "digest" \/ old[a] = Missing, NEW s \in Nat,
         NEW new, new = [old EXCEPT ![a] = s]
  PROVE  new \in [Accounts -> Nat] /\ new # NoVault /\ \A e \in sealed : new[e[1]] = e[2]
<1>1. new \in [Accounts -> Nat]
  OBVIOUS
<1>2. new # NoVault
  BY <1>1 DEF Accounts, NoVault
<1>3. ASSUME NEW e \in sealed PROVE new[e[1]] = e[2]
  <2>1. e[1] \in {"database", "artifact", "rollback"} /\ e[2] # Missing /\ old[e[1]] = e[2]
    BY DEF VaultInv, VaultTypeOK, SealedOpens
  <2> QED
    BY <2>1 DEF Accounts
<1> QED
  BY <1>1, <1>2, <1>3

\* Whoever serves or loads secrets holds the lock, and so is alone.
LEMMA LockExclusive ==
  ASSUME VaultInv, NEW p \in Procs, NEW q \in Procs, holder = p,
         procs[q].kind \in LockFirst, procs[q].pc \notin {"off", "locking"}
  PROVE  q = p
BY DEF VaultInv, LockHeld

\* The daemon writes a secret that was missing, or the digest.
LEMMA DaemonPutKeeps ==
  ASSUME VaultInv, NEW p \in Procs, procs[p].kind = "daemon", procs[p].pc \in {"open", "serving"},
         NEW a \in Accounts, NEW s \in Nat, a = "digest" \/ (Get(p, a) = Missing /\ s # Missing),
         NEW pc, pc = procs[p].pc, NEW failed \in {"serving", "ending"},
         failed = "serving" => procs[p].pc = "serving",
         Put(p, a, s, pc, failed), secrets' \in Nat, UNCHANGED <<headless, holder, sealed>>
  PROVE  VaultInv'
<1>1. /\ holder = p /\ p \in Procs /\ procs \in [Procs -> VaultRecords]
      /\ procs[p] \in VaultRecords /\ procs[p].values \in [Accounts -> Nat]
  BY DEF VaultInv, VaultTypeOK, LockHeld, LockFirst, VaultRecords
<1>2. CASE headless /\ Persist(p, [procs[p].values EXCEPT ![a] = s], pc)
  <2>1. PICK new : /\ new = [procs[p].values EXCEPT ![a] = s]
                   /\ new \in [Accounts -> Nat] /\ new # NoVault
    <3>1. [procs[p].values EXCEPT ![a] = s] \in [Accounts -> Nat]
      BY <1>1
    <3> QED
      BY <3>1, ValuesAreNotNoVault
  <2>2. ~overwritten => \A e \in sealed : new[e[1]] = e[2]
    <3> SUFFICES ASSUME ~overwritten PROVE \A e \in sealed : new[e[1]] = e[2]
      OBVIOUS
    <3>1. procs[p].values = credentials
      BY <1>2 DEF VaultInv, MemoryCurrent, LockFirst
    <3>2. a = "digest" \/ procs[p].values[a] = Missing
      BY <1>2 DEF Get
    <3> QED
      BY <1>1, <2>1, <3>1, <3>2, OtherAccountKept
  <2>3. /\ credentials' = new /\ (overwritten' = overwritten)
        /\ procs' = [procs EXCEPT ![p] = [procs[p] EXCEPT !.values = new, !.base = new, !.pc = pc]]
    BY <1>2, <2>1 DEF Persist, VaultInv, VaultTypeOK
  <2>4. /\ procs' \in [Procs -> VaultRecords]
        /\ procs'[p].kind = "daemon" /\ procs'[p].pc = pc
        /\ procs'[p].values = new /\ procs'[p].base = new
        /\ \A q \in Procs \ {p} : procs'[q] = procs[q]
    BY <1>1, <2>1, <2>3 DEF VaultRecords
  <2>5. VaultTypeOK'
    BY <2>1, <2>3, <2>4 DEF VaultInv, VaultTypeOK
  <2>6. LockHeld' /\ MemoryKnown'
    BY <1>1, <2>4 DEF VaultInv, LockHeld, MemoryKnown, LockFirst
  <2>7. MemoryCurrent'
    <3>1. ASSUME NEW q \in Procs \ {p}, procs[q].kind \in LockFirst
          PROVE  procs[q].pc \in {"off", "locking"}
      BY <1>1, <3>1, LockExclusive
    <3> QED
      BY <2>1, <2>3, <2>4, <3>1 DEF MemoryCurrent, LockFirst
  <2>8. ArtifactSecret'
    <3>1. Serving(p) => new["artifact"] # Missing
      BY <1>1, <1>2, <2>1 DEF VaultInv, ArtifactSecret, Get, Accounts
    <3>2. headless'
      BY <1>2
    <3> QED
      BY <1>1, <1>2, <2>4, <3>1, <3>2 DEF VaultInv, ArtifactSecret, Serving, Get
  <2>9. SealedOpens'
    BY <2>1, <2>2, <2>3 DEF SealedOpens
  <2> QED
    BY <2>5, <2>6, <2>7, <2>8, <2>9 DEF VaultInv
<1>3. CASE ~headless /\ PutInKeyring(p, a, s, pc)
  <2>1. credentials \in [Accounts -> Nat] /\ (a = "digest" \/ credentials[a] = Missing)
    BY <1>3 DEF VaultInv, VaultTypeOK, Get
  <2>2. PICK new : /\ new = [credentials EXCEPT ![a] = s]
                   /\ new \in [Accounts -> Nat] /\ new # NoVault
    <3>1. [credentials EXCEPT ![a] = s] \in [Accounts -> Nat]
      BY <2>1
    <3> QED
      BY <3>1, ValuesAreNotNoVault
  <2>3. ~overwritten => \A e \in sealed : new[e[1]] = e[2]
    BY <2>1, <2>2, OtherAccountKept
  <2>4. /\ credentials' = new /\ overwritten' = overwritten
        /\ procs' = [procs EXCEPT ![p].pc = pc]
    BY <1>3, <2>2 DEF PutInKeyring
  <2>5. /\ procs' \in [Procs -> VaultRecords] /\ procs'[p].kind = "daemon" /\ procs'[p].pc = pc
        /\ \A q \in Procs \ {p} : procs'[q] = procs[q]
    BY <1>1, <2>4 DEF VaultRecords
  <2>6. VaultTypeOK'
    BY <2>2, <2>4, <2>5 DEF VaultInv, VaultTypeOK
  <2>7. LockHeld' /\ MemoryKnown' /\ MemoryCurrent'
    BY <1>1, <1>3, <2>5 DEF VaultInv, LockHeld, MemoryKnown, MemoryCurrent, LockFirst
  <2>8. ArtifactSecret'
    <3>1. credentials["artifact"] # Missing => new["artifact"] # Missing
      BY <1>3, <2>1, <2>2 DEF Get, Accounts
    <3>2. ~headless'
      BY <1>3
    <3> QED
      BY <1>1, <1>3, <2>4, <2>5, <3>1, <3>2 DEF VaultInv, ArtifactSecret, Serving, Get
  <2>9. SealedOpens'
    BY <2>2, <2>3, <2>4 DEF SealedOpens
  <2> QED
    BY <2>6, <2>7, <2>8, <2>9 DEF VaultInv
<1>4. CASE /\ procs' = [procs EXCEPT ![p].values = AfterFailedWrite(procs[p].values, a, s),
                                     ![p].pc = failed]
           /\ UNCHANGED <<credentials, overwritten>>
  <2>1. /\ procs' \in [Procs -> VaultRecords]
        /\ procs'[p].kind = "daemon" /\ procs'[p].pc = failed
        /\ procs'[p].values = procs[p].values /\ procs'[p].base = procs[p].base
        /\ \A q \in Procs \ {p} : procs'[q] = procs[q]
    BY <1>1, <1>4 DEF VaultRecords, AfterFailedWrite
  <2>2. VaultTypeOK'
    BY <1>4, <2>1 DEF VaultInv, VaultTypeOK
  <2>3. LockHeld' /\ MemoryKnown'
    BY <1>1, <2>1 DEF VaultInv, LockHeld, MemoryKnown, LockFirst
  <2>4. MemoryCurrent'
    BY <1>1, <1>4, <2>1 DEF VaultInv, MemoryCurrent, LockFirst
  <2>5. ArtifactSecret'
    BY <1>1, <1>4, <2>1 DEF VaultInv, ArtifactSecret, Serving, Get
  <2>6. SealedOpens'
    BY <1>4 DEF VaultInv, SealedOpens
  <2> QED
    BY <2>2, <2>3, <2>4, <2>5, <2>6 DEF VaultInv
<1> QED
  BY <1>2, <1>3, <1>4 DEF Put

\* Steps that only move one process on, without touching what it read.
LEMMA ProcessMoves ==
  ASSUME VaultInv, NEW p \in Procs,
         NEW pc \in {"opening", "locked", "serving", "ending"},
         procs' = [procs EXCEPT ![p].pc = pc], procs[p].pc # "off",
         UNCHANGED <<headless, credentials, overwritten>>, secrets' = secrets,
         holder' = p, \A q \in Procs \ {p} : holder = q => holder' = q,
         pc = "opening" => procs[p].pc = "locking",
         pc = "locked" => procs[p].kind = "restore" /\ procs[p].pc = "open",
         pc = "serving" => /\ procs[p].kind = "daemon" /\ procs[p].pc = "open"
                           /\ Get(p, "artifact") # Missing,
         sealed' \subseteq {"database", "artifact", "rollback"} \X (Nat \ {Missing}),
         sealed' # sealed => procs[p].kind = "daemon" /\ procs[p].pc = "open",
         ~overwritten => \A e \in sealed' : credentials # NoVault /\ credentials[e[1]] = e[2]
  PROVE  VaultInv'
<1>1. /\ procs' \in [Procs -> VaultRecords] /\ procs'[p].pc = pc
      /\ procs'[p].kind = procs[p].kind
      /\ procs'[p].values = procs[p].values /\ procs'[p].base = procs[p].base
      /\ \A q \in Procs \ {p} : procs'[q] = procs[q]
  BY DEF VaultInv, VaultTypeOK, VaultRecords
<1>2. VaultTypeOK'
  BY <1>1 DEF VaultInv, VaultTypeOK
<1>3. LockHeld'
  BY <1>1 DEF VaultInv, LockHeld, LockFirst
<1>4. MemoryKnown'
  BY <1>1 DEF VaultInv, MemoryKnown
<1>5. MemoryCurrent'
  <2>1. ASSUME sealed' # sealed, NEW q \in Procs \ {p}, procs[q].kind \in LockFirst
        PROVE  procs[q].pc # "creating"
    <3>1. holder = p
      BY <2>1 DEF VaultInv, LockHeld, LockFirst
    <3> QED
      BY <2>1, <3>1, LockExclusive
  <2> QED
    BY <1>1, <2>1 DEF VaultInv, MemoryCurrent, LockFirst
<1>6. ArtifactSecret'
  BY <1>1 DEF VaultInv, ArtifactSecret, Serving, Get
<1>7. SealedOpens'
  BY DEF SealedOpens
<1> QED
  BY <1>2, <1>3, <1>4, <1>5, <1>6, <1>7 DEF VaultInv

LEMMA StartProcKeeps ==
  ASSUME VaultInv, NEW p \in Procs, NEW kind \in Kinds, StartProc(p, kind)
  PROVE  VaultInv'
<1> DEFINE pc == IF kind \in LockFirst THEN "locking" ELSE "opening"
<1>1. Empty \in [Accounts -> Nat]
  BY DEF Empty, Missing
<1>2. /\ procs' \in [Procs -> VaultRecords] /\ procs'[p].pc = pc /\ procs'[p].kind = kind
      /\ \A q \in Procs \ {p} : procs'[q] = procs[q]
  BY <1>1 DEF StartProc, NotRunning, VaultInv, VaultTypeOK, VaultRecords
<1>3. UNCHANGED <<headless, credentials, holder, sealed, secrets, overwritten>>
  BY DEF StartProc
<1>4. VaultTypeOK'
  BY <1>2, <1>3 DEF VaultInv, VaultTypeOK
<1> QED
  BY <1>2, <1>3, <1>4
     DEF VaultInv, LockHeld, MemoryKnown, MemoryCurrent, ArtifactSecret, Serving, Get,
     SealedOpens, LockFirst

LEMMA AcquireLockKeeps == ASSUME VaultInv, NEW p \in Procs, AcquireLock(p) PROVE VaultInv'
<1>1. /\ holder = Nobody /\ holder' = p
      /\ UNCHANGED <<headless, credentials, sealed, secrets, overwritten>>
  BY DEF AcquireLock
<1>2. \A q \in Procs : holder # q
  BY <1>1, VaultConstants DEF Nobody
<1>3. ~overwritten => \A e \in sealed : credentials # NoVault /\ credentials[e[1]] = e[2]
  BY DEF VaultInv, SealedOpens
<1>4. sealed \subseteq {"database", "artifact", "rollback"} \X (Nat \ {Missing})
  BY DEF VaultInv, VaultTypeOK
<1>5. CASE procs[p].pc = "locking" /\ procs' = [procs EXCEPT ![p].pc = "opening"]
  BY <1>1, <1>2, <1>3, <1>4, <1>5, ProcessMoves
<1>6. CASE /\ procs[p].pc = "open" /\ procs[p].kind = "restore"
           /\ procs' = [procs EXCEPT ![p].pc = "locked"]
  BY <1>1, <1>2, <1>3, <1>4, <1>6, ProcessMoves
<1> QED
  BY <1>5, <1>6 DEF AcquireLock

LEMMA OpenVaultKeeps == ASSUME VaultInv, NEW p \in Procs, OpenVault(p) PROVE VaultInv'
<1>1. /\ procs[p].pc = "opening" /\ procs[p] \in VaultRecords
      /\ UNCHANGED <<headless, credentials, holder, sealed, secrets, overwritten>>
  BY DEF OpenVault, VaultInv, VaultTypeOK
<1>2. PICK to : procs' = [procs EXCEPT ![p] = to] /\
        to = IF ~headless THEN [procs[p] EXCEPT !.pc = "open"]
             ELSE IF credentials = NoVault
                  THEN [procs[p] EXCEPT !.pc = "creating", !.base = NoVault]
             ELSE [procs[p] EXCEPT !.pc = "open", !.values = credentials, !.base = credentials]
  BY DEF OpenVault
<1>3. /\ to \in VaultRecords /\ to.kind = procs[p].kind
      /\ to.pc = IF headless /\ credentials = NoVault THEN "creating" ELSE "open"
      /\ headless /\ credentials = NoVault => to.base = NoVault
      /\ headless /\ credentials # NoVault => to.values = credentials /\ to.base = credentials
  BY <1>1, <1>2 DEF VaultInv, VaultTypeOK, VaultRecords
<1>4. /\ procs' \in [Procs -> VaultRecords] /\ procs'[p] = to
      /\ \A q \in Procs \ {p} : procs'[q] = procs[q]
  BY <1>2, <1>3 DEF VaultInv, VaultTypeOK
<1>5. VaultTypeOK'
  BY <1>1, <1>4 DEF VaultInv, VaultTypeOK
<1>6. LockHeld' /\ MemoryKnown'
  BY <1>1, <1>3, <1>4 DEF VaultInv, LockHeld, MemoryKnown
<1>7. ~overwritten /\ credentials = NoVault => sealed = {}
  BY DEF VaultInv, SealedOpens
<1>8. MemoryCurrent'
  BY <1>1, <1>3, <1>4, <1>7 DEF VaultInv, MemoryCurrent
<1>9. ArtifactSecret'
  BY <1>1, <1>3, <1>4 DEF VaultInv, ArtifactSecret, Serving, Get
<1>10. SealedOpens'
  BY <1>1 DEF VaultInv, SealedOpens
<1> QED
  BY <1>5, <1>6, <1>8, <1>9, <1>10 DEF VaultInv

LEMMA CreateVaultKeeps == ASSUME VaultInv, NEW p \in Procs, CreateVault(p) PROVE VaultInv'
<1>1. /\ procs[p].pc = "creating" /\ procs[p] \in VaultRecords /\ headless
      /\ procs[p].base = NoVault /\ UNCHANGED <<headless, holder, sealed, secrets>>
  BY DEF CreateVault, VaultInv, VaultTypeOK, MemoryKnown
<1>2. Empty \in [Accounts -> Nat] /\ Empty # NoVault
  <2>1. Empty \in [Accounts -> Nat]
    BY DEF Empty, Missing
  <2> QED
    BY <2>1 DEF Accounts, NoVault
<1>3. /\ credentials' = Empty
      /\ procs' = [procs EXCEPT ![p] = [procs[p] EXCEPT !.values = Empty, !.base = Empty, !.pc = "open"]]
      /\ overwritten' = (overwritten \/ (procs[p].kind \in {"restore", "client"}
                                         /\ NoVault # credentials))
  BY <1>1 DEF CreateVault, Persist
<1>4. /\ procs' \in [Procs -> VaultRecords] /\ procs'[p].kind = procs[p].kind
      /\ procs'[p].pc = "open" /\ procs'[p].values = Empty /\ procs'[p].base = Empty
      /\ \A q \in Procs \ {p} : procs'[q] = procs[q]
  BY <1>1, <1>2, <1>3 DEF VaultInv, VaultTypeOK, VaultRecords
<1>5. VaultTypeOK'
  BY <1>1, <1>2, <1>3, <1>4 DEF VaultInv, VaultTypeOK
<1>6. LockHeld' /\ MemoryKnown'
  BY <1>1, <1>4 DEF VaultInv, LockHeld, MemoryKnown
<1>7. ~overwritten' => ~overwritten /\ sealed = {}
  <2> SUFFICES ASSUME ~overwritten' PROVE ~overwritten /\ sealed = {}
    OBVIOUS
  <2>1. ~overwritten
    BY <1>3
  <2>2. CASE procs[p].kind \in LockFirst
    BY <1>1, <2>1, <2>2 DEF VaultInv, MemoryCurrent
  <2>3. CASE procs[p].kind \notin LockFirst
    <3>1. procs[p].kind \in {"restore", "client", "none"}
      BY <1>1, <2>3 DEF VaultRecords, Kinds, LockFirst
    <3>2. procs[p].kind \in Kinds
      BY <1>1 DEF VaultInv, MemoryKnown
    <3> QED
      BY <1>3, <2>1, <3>1, <3>2 DEF VaultInv, SealedOpens, Kinds
  <2> QED
    BY <2>1, <2>2, <2>3
<1>8. MemoryCurrent'
  <2> SUFFICES ASSUME ~overwritten', NEW q \in Procs, procs'[q].kind \in LockFirst
               PROVE  /\ procs'[q].pc \in {"open", "serving"} =>
                           procs'[q].values = Empty /\ Empty # NoVault
                      /\ procs'[q].pc = "creating" => sealed' = {}
    BY <1>3 DEF MemoryCurrent
  <2>1. CASE q = p
    BY <1>2, <1>4, <2>1
  <2>2. CASE q # p
    <3>1. procs[q] = procs'[q]
      BY <1>4, <2>2
    <3>2. ASSUME procs[q].pc \in {"open", "serving"} PROVE FALSE
      <4>1. credentials # NoVault
        BY <1>1, <1>7, <3>1, <3>2 DEF VaultInv, MemoryCurrent
      <4>2. procs[p].kind \in LockFirst
        BY <1>1, <1>3, <4>1 DEF VaultInv, MemoryKnown, Kinds, LockFirst
      <4> QED
        BY <1>1, <2>2, <3>1, <3>2, <4>2 DEF VaultInv, LockHeld
    <3> QED
      BY <1>1, <1>7, <3>1, <3>2
  <2> QED
    BY <2>1, <2>2
<1>9. ArtifactSecret'
  BY <1>1, <1>4 DEF VaultInv, ArtifactSecret, Serving, Get
<1>10. SealedOpens'
  BY <1>1, <1>7 DEF SealedOpens
<1> QED
  BY <1>5, <1>6, <1>8, <1>9, <1>10 DEF VaultInv


\* What a daemon reads is what the store holds, and what it seals stays open.
LEMMA DaemonSeals ==
  ASSUME VaultInv, NEW p \in Procs, procs[p].kind = "daemon", procs[p].pc \in {"open", "serving"},
         NEW a \in {"database", "artifact", "rollback"}, Get(p, a) # Missing,
         sealed' = sealed \cup {<<a, Get(p, a)>>}
  PROVE  /\ holder = p
         /\ sealed' \subseteq {"database", "artifact", "rollback"} \X (Nat \ {Missing})
         /\ ~overwritten => \A e \in sealed' : credentials # NoVault /\ credentials[e[1]] = e[2]
<1>1. holder = p
  BY DEF VaultInv, LockHeld, LockFirst
<1>2. Get(p, a) \in Nat
  BY DEF Get, VaultInv, VaultTypeOK, VaultRecords, Accounts
<1>3. sealed' \subseteq {"database", "artifact", "rollback"} \X (Nat \ {Missing})
  BY <1>2 DEF VaultInv, VaultTypeOK
<1>4. ASSUME ~overwritten PROVE credentials # NoVault /\ credentials[a] = Get(p, a)
  BY <1>4 DEF VaultInv, VaultTypeOK, MemoryCurrent, LockFirst, Get
<1>5. ASSUME ~overwritten, NEW e \in sealed'
      PROVE  credentials # NoVault /\ credentials[e[1]] = e[2]
  BY <1>4, <1>5 DEF VaultInv, SealedOpens
<1> QED
  BY <1>1, <1>3, <1>5

\* A step that seals something and changes nothing else.
LEMMA SealKeeps ==
  ASSUME VaultInv, NEW p \in Procs, Serving(p),
         NEW a \in {"artifact", "rollback"}, Get(p, a) # Missing,
         sealed' = sealed \cup {<<a, Get(p, a)>>},
         UNCHANGED <<headless, credentials, holder, procs, secrets, overwritten>>
  PROVE  VaultInv'
<1>1. /\ holder = p
      /\ sealed' \subseteq {"database", "artifact", "rollback"} \X (Nat \ {Missing})
      /\ ~overwritten => \A e \in sealed' : credentials # NoVault /\ credentials[e[1]] = e[2]
  BY DaemonSeals DEF Serving
<1>2. VaultTypeOK' /\ LockHeld' /\ MemoryKnown' /\ ArtifactSecret'
  BY <1>1 DEF VaultInv, VaultTypeOK, LockHeld, MemoryKnown, ArtifactSecret, Serving, Get
<1>3. MemoryCurrent'
  <2>1. ASSUME NEW q \in Procs, procs[q].kind \in LockFirst PROVE procs[q].pc # "creating"
    BY <1>1, <2>1, LockExclusive DEF Serving
  <2> QED
    BY <2>1 DEF VaultInv, MemoryCurrent
<1> QED
  BY <1>1, <1>2, <1>3 DEF VaultInv, SealedOpens

LEMMA ServeKeeps == ASSUME VaultInv, NEW p \in Procs, Serve(p) PROVE VaultInv'
<1>1. /\ procs[p].kind = "daemon" /\ procs[p].pc = "open"
      /\ Get(p, "database") # Missing /\ Get(p, "artifact") # Missing
      /\ UNCHANGED <<headless, credentials, holder, secrets, overwritten>>
  BY DEF Serve
<1>2. holder' = p
  BY <1>1 DEF VaultInv, LockHeld, LockFirst
<1>3. CASE /\ sealed' = sealed \cup {<<"database", Get(p, "database")>>}
           /\ procs' = [procs EXCEPT ![p].pc = "serving"]
  <2>1. /\ sealed' \subseteq {"database", "artifact", "rollback"} \X (Nat \ {Missing})
        /\ ~overwritten => \A e \in sealed' : credentials # NoVault /\ credentials[e[1]] = e[2]
    BY <1>1, <1>3, DaemonSeals
  <2> QED
    BY <1>1, <1>2, <1>3, <2>1, ProcessMoves
<1>4. CASE sealed' = sealed /\ procs' = [procs EXCEPT ![p].pc = "ending"]
  <2>1. /\ sealed' \subseteq {"database", "artifact", "rollback"} \X (Nat \ {Missing})
        /\ ~overwritten => \A e \in sealed' : credentials # NoVault /\ credentials[e[1]] = e[2]
    BY <1>4 DEF VaultInv, VaultTypeOK, SealedOpens
  <2> QED
    BY <1>1, <1>2, <1>4, <2>1, ProcessMoves
<1> QED
  BY <1>3, <1>4 DEF Serve

LEMMA DaemonKeeps ==
  ASSUME VaultInv, NEW p \in Procs,
         LoadSecrets(p) \/ StoreArtifact(p) \/ EnsureRollback(p) \/ WriteBackup(p) \/ RecordDigest(p)
  PROVE  VaultInv'
<1>1. FreshSecret \in Nat /\ FreshSecret # Missing
  BY DEF FreshSecret, Missing, VaultInv, VaultTypeOK
<1>2. ASSUME LoadSecrets(p) PROVE VaultInv'
  <2>1. PICK a \in {"database", "ipc", "artifact"} : CreateCredential(p, a, "open", "ending")
    BY <1>2 DEF LoadSecrets
  <2>2. /\ procs[p].kind = "daemon" /\ procs[p].pc = "open"
        /\ UNCHANGED <<headless, holder, sealed>>
    BY <1>2 DEF LoadSecrets
  <2> QED
    BY <1>1, <2>1, <2>2, DaemonPutKeeps DEF CreateCredential, Accounts
<1>3. ASSUME EnsureRollback(p) PROVE VaultInv'
  BY <1>1, <1>3, DaemonPutKeeps DEF EnsureRollback, Serving, CreateCredential, Accounts
<1>4. ASSUME RecordDigest(p) PROVE VaultInv'
  BY <1>1, <1>4, DaemonPutKeeps DEF RecordDigest, Serving, Accounts
<1>5. ASSUME StoreArtifact(p) PROVE VaultInv'
  BY <1>5, SealKeeps DEF StoreArtifact, VaultInv, ArtifactSecret
<1>6. ASSUME WriteBackup(p) PROVE VaultInv'
  BY <1>6, SealKeeps DEF WriteBackup
<1> QED
  BY <1>2, <1>3, <1>4, <1>5, <1>6

\* A restore that has its lock writes the digest over what it read before.
LEMMA RestorePutKeeps ==
  ASSUME VaultInv, NEW p \in Procs, procs[p].kind = "restore", procs[p].pc = "locked",
         NEW s \in Nat, Put(p, "digest", s, "ending", "ending"),
         secrets' \in Nat, UNCHANGED <<headless, holder, sealed>>
  PROVE  VaultInv'
<1>1. /\ holder = p /\ procs[p] \in VaultRecords /\ procs[p].values \in [Accounts -> Nat]
      /\ "digest" \in Accounts
  BY DEF VaultInv, VaultTypeOK, LockHeld, VaultRecords, Accounts
<1>2. \A q \in Procs : procs[q].kind \in LockFirst => procs[q].pc \in {"off", "locking"}
  BY <1>1, LockExclusive DEF LockFirst
<1>3. PICK new \in [Accounts -> Nat] :
        /\ credentials' = new \/ credentials' = credentials
        /\ procs'[p].kind = "restore" /\ procs'[p].pc = "ending"
        /\ procs' \in [Procs -> VaultRecords]
        /\ \A q \in Procs \ {p} : procs'[q] = procs[q]
        /\ ~overwritten' => ~overwritten
        /\ overwritten' \in BOOLEAN
        /\ ~headless => credentials' # NoVault
        /\ ~overwritten' /\ credentials' # credentials =>
              \A e \in sealed : new[e[1]] = e[2]
  <2>1. CASE headless /\ Persist(p, [procs[p].values EXCEPT !["digest"] = s], "ending")
    <3>1. PICK new \in [Accounts -> Nat] : new = [procs[p].values EXCEPT !["digest"] = s]
      BY <1>1
    <3>2. /\ credentials' = new
          /\ procs' = [procs EXCEPT ![p] = [procs[p] EXCEPT !.values = new, !.base = new,
                                                           !.pc = "ending"]]
          /\ overwritten' = (overwritten \/ procs[p].base # credentials)
      BY <2>1, <3>1 DEF Persist
    <3>3. /\ procs' \in [Procs -> VaultRecords] /\ procs'[p].kind = "restore"
          /\ procs'[p].pc = "ending" /\ \A q \in Procs \ {p} : procs'[q] = procs[q]
      BY <1>1, <3>1, <3>2 DEF VaultInv, VaultTypeOK, VaultRecords
    <3>4. overwritten' \in BOOLEAN /\ (~overwritten' => ~overwritten /\ procs[p].base = credentials)
      BY <3>2 DEF VaultInv, VaultTypeOK
    <3>5. ASSUME ~overwritten' PROVE \A e \in sealed : new[e[1]] = e[2]
      <4>1. procs[p].values = credentials
        BY <2>1, <3>4, <3>5 DEF VaultInv, MemoryKnown
      <4> QED
        BY <1>1, <3>1, <3>4, <3>5, <4>1, OtherAccountKept
    <3> QED
      BY <2>1, <3>2, <3>3, <3>4, <3>5
  <2>2. CASE ~headless /\ PutInKeyring(p, "digest", s, "ending")
    <3>1. credentials \in [Accounts -> Nat]
      BY <2>2 DEF VaultInv, VaultTypeOK
    <3>2. PICK new \in [Accounts -> Nat] : new = [credentials EXCEPT !["digest"] = s]
      BY <1>1, <3>1
    <3>3. /\ credentials' = new /\ overwritten' = overwritten
          /\ procs' = [procs EXCEPT ![p].pc = "ending"]
      BY <2>2, <3>2 DEF PutInKeyring
    <3>4. /\ procs' \in [Procs -> VaultRecords] /\ procs'[p].kind = "restore"
          /\ procs'[p].pc = "ending" /\ \A q \in Procs \ {p} : procs'[q] = procs[q]
      BY <1>1, <3>3 DEF VaultInv, VaultTypeOK, VaultRecords
    <3>5. ~overwritten => \A e \in sealed : new[e[1]] = e[2]
      BY <1>1, <3>1, <3>2, OtherAccountKept
    <3>6. credentials' # NoVault /\ overwritten' \in BOOLEAN
      BY <3>2, <3>3, ValuesAreNotNoVault DEF VaultInv, VaultTypeOK
    <3> QED
      BY <3>3, <3>4, <3>5, <3>6
  <2>3. CASE /\ procs' = [procs EXCEPT ![p].values = AfterFailedWrite(procs[p].values, "digest", s),
                                       ![p].pc = "ending"]
             /\ UNCHANGED <<credentials, overwritten>>
    <3>1. /\ procs' \in [Procs -> VaultRecords] /\ procs'[p].kind = "restore"
          /\ procs'[p].pc = "ending" /\ \A q \in Procs \ {p} : procs'[q] = procs[q]
      BY <1>1, <2>3 DEF VaultInv, VaultTypeOK, VaultRecords, AfterFailedWrite
    <3>2. overwritten' \in BOOLEAN /\ (~headless => credentials' # NoVault)
      BY <2>3 DEF VaultInv, VaultTypeOK
    <3> QED
      BY <1>1, <2>3, <3>1, <3>2
  <2> QED
    BY <2>1, <2>2, <2>3 DEF Put
<1>4. VaultTypeOK'
  BY <1>3 DEF VaultInv, VaultTypeOK
<1>5. LockHeld' /\ MemoryKnown'
  BY <1>1, <1>3 DEF VaultInv, LockHeld, MemoryKnown, Kinds, LockFirst
<1>6. MemoryCurrent' /\ ArtifactSecret'
  BY <1>2, <1>3 DEF MemoryCurrent, ArtifactSecret, Serving, LockFirst
<1>7. SealedOpens'
  <2> SUFFICES ASSUME ~overwritten', NEW e \in sealed
               PROVE  credentials' # NoVault /\ credentials'[e[1]] = e[2]
    BY DEF SealedOpens
  <2>1. CASE credentials' = credentials
    BY <1>3, <2>1 DEF VaultInv, SealedOpens
  <2>2. CASE credentials' # credentials
    BY <1>3, <2>2, ValuesAreNotNoVault
  <2> QED
    BY <2>1, <2>2
<1> QED
  BY <1>4, <1>5, <1>6, <1>7 DEF VaultInv

LEMMA ReanchorKeeps == ASSUME VaultInv, NEW p \in Procs, Reanchor(p) PROVE VaultInv'
<1>1. /\ procs[p].kind = "restore" /\ procs[p].pc = "locked"
      /\ UNCHANGED <<headless, holder, sealed>>
  BY DEF Reanchor
<1>2. /\ FreshSecret \in Nat /\ Missing \in Nat /\ Get(p, "digest") \in Nat
      /\ secrets \in Nat
  BY DEF FreshSecret, Missing, Get, VaultInv, VaultTypeOK, VaultRecords, Accounts
<1> QED
  BY <1>1, <1>2, RestorePutKeeps DEF Reanchor

LEMMA LeaveKeeps == ASSUME VaultInv, NEW p \in Procs, Leave(p) PROVE VaultInv'
<1>1. NotRunning \in VaultRecords /\ NotRunning.kind = "none" /\ NotRunning.pc = "off"
  BY DEF NotRunning, VaultRecords, Empty, Missing
<1>2. /\ procs' \in [Procs -> VaultRecords] /\ procs'[p].kind = "none" /\ procs'[p].pc = "off"
      /\ \A q \in Procs \ {p} : procs'[q] = procs[q]
      /\ \A q \in Procs \ {p} : holder = q => holder' = q
      /\ UNCHANGED <<headless, credentials, sealed, secrets, overwritten>>
  BY <1>1 DEF Leave, VaultInv, VaultTypeOK
<1>3. VaultTypeOK'
  BY <1>2 DEF VaultInv, VaultTypeOK
<1>4. LockHeld' /\ MemoryKnown' /\ SealedOpens'
  BY <1>2 DEF VaultInv, LockHeld, MemoryKnown, SealedOpens, LockFirst
<1>5. MemoryCurrent' /\ ArtifactSecret'
  BY <1>2 DEF VaultInv, MemoryCurrent, ArtifactSecret, Serving, Get, LockFirst
<1> QED
  BY <1>3, <1>4, <1>5 DEF VaultInv

LEMMA VaultInvNext == VaultInv /\ [VaultNext]_vaultVars => VaultInv'
<1> SUFFICES ASSUME VaultInv, [VaultNext]_vaultVars PROVE VaultInv'
  OBVIOUS
<1>1. CASE UNCHANGED vaultVars
  BY <1>1 DEF vaultVars, VaultInv, VaultTypeOK, LockHeld, MemoryKnown, MemoryCurrent,
     ArtifactSecret, Serving, Get, SealedOpens
<1>2. ASSUME NEW p \in Procs, NEW kind \in Kinds, StartProc(p, kind) PROVE VaultInv'
  BY <1>2, StartProcKeeps
<1>3. ASSUME NEW p \in Procs, AcquireLock(p) \/ OpenVault(p) \/ CreateVault(p) PROVE VaultInv'
  BY <1>3, AcquireLockKeeps, OpenVaultKeeps, CreateVaultKeeps
<1>4. ASSUME NEW p \in Procs,
             LoadSecrets(p) \/ StoreArtifact(p) \/ EnsureRollback(p) \/ WriteBackup(p)
             \/ RecordDigest(p)
      PROVE  VaultInv'
  BY <1>4, DaemonKeeps
<1>5. ASSUME NEW p \in Procs, Serve(p) \/ Reanchor(p) \/ Leave(p) PROVE VaultInv'
  BY <1>5, ServeKeeps, ReanchorKeeps, LeaveKeeps
<1> QED
  BY <1>1, <1>2, <1>3, <1>4, <1>5 DEF VaultNext

(* Nothing on disk becomes unreadable, for any number of processes, restarts *)
(* and failed writes: what is sealed under a secret opens with the one the   *)
(* credential store holds, unless a command without the instance lock wrote  *)
(* over a headless vault it had not read (credential-store.ts:203-240).      *)
THEOREM SealedAlwaysOpens == VaultSpec => []SealedOpens
<1>1. VaultInv => SealedOpens
  BY DEF VaultInv
<1> QED
  BY VaultInitInv, VaultInvNext, <1>1, PTL DEF VaultSpec

-----------------------------------------------------------------------------
\* The artifact vault.

ArtEventType == [req : ArtRequests, kind : {"manifest", "record", "command"},
                 art : Artifacts, version : Nat]

ArtTypeOK ==
    /\ vaultFiles \subseteq Artifacts /\ tampered \subseteq Artifacts
    /\ artEvents \subseteq ArtEventType /\ IsFiniteSet(artEvents)
    /\ artJob # NoArtJob => artJob \in ArtJobs
    /\ outcome \in [ArtRequests -> {"none", "refused", "answered"}]

\* A file or a directory outlives a power loss, or was left unsynchronised, or
\* has just been made.
FilesKept == Present \subseteq synced \cup skipped \cup NewFile

DirsKept == dirs \subseteq dirsSynced \cup loose \cup NewDir

\* What events say: a manifest is of something within the size limit, the one of an
\* export is of the version it packed, and a record was made from an original.
EventsSound ==
    \A e \in artEvents :
        /\ e.kind = "manifest" => WithinSize(e.art)
        /\ e.kind = "manifest" /\ e.req.op = "credential-export" =>
             /\ e.art = ExportOf(e.req.src, e.version)
             /\ e.version <= RecordVersion("credential-import", e.req.src)
        /\ e.kind = "record" => e.req.op \in RecordOps /\ Original(e.req.src) \in Manifests

Storing == {"store", "shard", "shardSync", "write", "sync", "manifest", "internal"}

\* What a request has found out and done by each step.
JobStands ==
    artJob # NoArtJob =>
      LET r == artJob.req  step == artJob.step  art == artJob.art IN
      /\ daemon = "up"
      /\ step \in {"shard", "shardSync", "write"} => art \notin Present
      /\ step \in {"sync", "manifest", "internal"} => art \in Present
      /\ step \in Storing \ {"store"} => WithinSize(art)
      /\ step \in Storing => r.op \in {"import", "credential-export"}
      /\ step = "manifest" => r.op = "import"
      /\ step \in Storing /\ r.op = "credential-export" =>
           /\ Original(r.src) \in Manifests
           /\ artJob.version = RecordVersion("credential-import", r.src)
           /\ art = ExportOf(r.src, artJob.version)
      /\ step \in {"read", "record"} => /\ art = Original(r.src) /\ art \in Manifests
                                        /\ r.op \in RecordOps \cup {"credential-export"}
      /\ step = "record" => r.op \in RecordOps
      /\ step \in {"check", "export", "verify"} => r.op = "export-file"

\* The inductive invariant of the vault.
ArtInv == ArtTypeOK /\ RecordedReadable /\ FilesKept /\ DirsKept /\ EventsSound /\ JobStands

LEMMA ArtInitInv == ArtInit => ArtInv
<1> SUFFICES ASSUME ArtInit PROVE ArtInv
  OBVIOUS
<1>1. IsFiniteSet(artEvents)
  BY FS_EmptySet DEF ArtInit
<1> QED
  BY <1>1 DEF ArtInit, ArtInv, ArtTypeOK, RecordedReadable, Manifests, FilesKept, DirsKept, Present,
     EventsSound, JobStands

\* Events are only added, and so are what is recorded and the versions.
LEMMA VersionTypes ==
    ASSUME ArtTypeOK, NEW op, NEW src
    PROVE  RecordVersion(op, src) \in Nat
<1>1. RecordsOf(op, src) \subseteq artEvents
  BY DEF RecordsOf
<1> QED
  BY <1>1, FS_Subset, FS_CardinalityType DEF ArtTypeOK, RecordVersion

LEMMA VersionsPrimed ==
    ASSUME ArtTypeOK' PROVE \A op, src : RecordVersion(op, src)' \in Nat
<1> SUFFICES ASSUME NEW op, NEW src PROVE RecordVersion(op, src)' \in Nat
  OBVIOUS
<1>1. RecordsOf(op, src)' \subseteq artEvents'
  BY DEF RecordsOf
<1> QED
  BY <1>1, FS_Subset, FS_CardinalityType DEF ArtTypeOK, RecordVersion

LEMMA EventsGrow ==
    ASSUME ArtTypeOK, ArtTypeOK', artEvents \subseteq artEvents'
    PROVE  /\ Manifests \subseteq Manifests'
           /\ \A op, src : RecordVersion(op, src) <= RecordVersion(op, src)'
<1>1. Manifests \subseteq Manifests'
  BY DEF Manifests
<1>2. ASSUME NEW op, NEW src PROVE RecordVersion(op, src) <= RecordVersion(op, src)'
  <2>1. RecordsOf(op, src) \subseteq RecordsOf(op, src)' /\ RecordsOf(op, src)' \subseteq artEvents'
    BY DEF RecordsOf
  <2>2. IsFiniteSet(RecordsOf(op, src)')
    BY <2>1, FS_Subset DEF ArtTypeOK
  <2> QED
    BY <2>1, <2>2, FS_Subset DEF RecordVersion
<1> QED
  BY <1>1, <1>2

\* A job that moves on, or ends, while files, directories and events stay.
LEMMA JobMoves ==
    ASSUME ArtInv, UNCHANGED <<vaultFiles, tampered, synced, dirs, dirsSynced, artEvents>>,
           skipped \cup NewFile \subseteq skipped', loose \cup NewDir \subseteq loose',
           artJob' # NoArtJob => artJob' \in ArtJobs,
           outcome' \in [ArtRequests -> {"none", "refused", "answered"}],
           JobStands'
    PROVE  ArtInv'
<1>1. Manifests' = Manifests /\ \A op, src : RecordVersion(op, src)' = RecordVersion(op, src)
  BY DEF Manifests, RecordVersion, RecordsOf
<1>2. ArtTypeOK'
  BY DEF ArtInv, ArtTypeOK
<1>3. RecordedReadable' /\ FilesKept' /\ DirsKept'
  BY <1>1 DEF ArtInv, RecordedReadable, FilesKept, DirsKept, Present
<1>4. EventsSound'
  BY <1>1 DEF ArtInv, EventsSound
<1> QED
  BY <1>2, <1>3, <1>4 DEF ArtInv

\* Nothing is waiting to be synchronised at the other steps of a job.
LEMMA NothingNew ==
    ASSUME ArtInv, artJob = NoArtJob => daemon = "up",
           artJob # NoArtJob => artJob.step \notin {"shardSync", "sync"}
    PROVE  NewFile = {} /\ NewDir = {}
BY DEF ArtInv, JobStands, NewFile, NewDir

\* A step of a job that touches neither the vault nor the events.
LEMMA QuietMove ==
    ASSUME ArtInv, UNCHANGED <<vault, artEvents>>,
           artJob # NoArtJob, artJob.step \notin {"shardSync", "sync"},
           artJob' # NoArtJob => artJob' \in ArtJobs,
           outcome' \in [ArtRequests -> {"none", "refused", "answered"}],
           JobStands'
    PROVE  ArtInv'
BY NothingNew, JobMoves DEF vault, places

\* Such a step that ends the attempt.
LEMMA JobStops ==
    ASSUME ArtInv, UNCHANGED <<vault, artEvents>>, artJob' = NoArtJob,
           artJob # NoArtJob, artJob.step \notin {"shardSync", "sync"},
           outcome' \in [ArtRequests -> {"none", "refused", "answered"}]
    PROVE  ArtInv'
BY QuietMove DEF JobStands

LEMMA EndTypes ==
    ASSUME ArtInv, artJob # NoArtJob, NEW how \in {"none", "refused", "answered"}, End(how)
    PROVE  /\ artJob' = NoArtJob
           /\ outcome' \in [ArtRequests -> {"none", "refused", "answered"}]
           /\ \A r \in ArtRequests : r # artJob.req => outcome'[r] = outcome[r]
BY DEF End, ArtInv, ArtTypeOK, ArtJobs

LEMMA BeginArtKeeps ==
    ASSUME ArtInv, NEW r \in ArtRequests, BeginArt(r)
    PROVE  ArtInv'
<1>1. r.op \in ArtOps /\ r.src \in Originals /\ r.version \in Nat
  BY ArtifactAssumption
<1>2. PICK art \in Artifacts : art = Subject(r)
  <2>1. Original(r.src) \in Artifacts /\ ExportOf(r.src, r.version) \in Artifacts
    BY <1>1 DEF Artifacts, ExportOf, Original
  <2> QED
    BY <2>1 DEF Subject
<1>3. PICK step \in {"answer", "store", "check", "read"} :
        step = IF AnswerEvent(r) # {} /\ r.op # "export-file" THEN "answer"
               ELSE IF r.op = "import" THEN "store"
               ELSE IF r.op = "export-file" THEN "check" ELSE "read"
  OBVIOUS
<1>4. PICK job \in ArtJobs : job = [req |-> r, art |-> art, version |-> 0, step |-> step]
  BY DEF ArtJobs, ArtSteps
<1>5. /\ artJob' = job /\ artJob = NoArtJob /\ daemon = "up" /\ outcome' = [outcome EXCEPT ![r] = "none"]
      /\ UNCHANGED <<vault, artEvents>>
  BY <1>2, <1>3, <1>4 DEF BeginArt
<1>6. Manifests' = Manifests
  BY <1>5 DEF Manifests
<1>7. ASSUME step = "read" PROVE art = Original(r.src) /\ art \in Manifests
  <2>1. r.op \in RecordOps \cup {"credential-export"}
    BY <1>1, <1>3, <1>7 DEF ArtOps
  <2>2. art = Original(r.src)
    BY <1>2, <2>1 DEF Subject, RecordOps
  <2>3. CASE r.op = "credential-export" /\ RecordVersion("credential-import", r.src) > 0
    <3>1. RecordsOf("credential-import", r.src) # {}
      <4>1. Cardinality({}) = 0
        BY FS_EmptySet
      <4> QED
        BY <2>3, <4>1 DEF RecordVersion
    <3>2. PICK e \in artEvents : e.kind = "record" /\ e.req.src = r.src
      BY <3>1 DEF RecordsOf
    <3> QED
      BY <2>2, <3>2 DEF ArtInv, EventsSound
  <2>4. CASE art \in Manifests
    BY <2>2, <2>4
  <2> QED
    BY <1>2, <2>1, <2>3, <2>4 DEF BeginArt, RecordOps
<1>8. JobStands'
  <2>1. step = "store" => r.op = "import"
    BY <1>3
  <2>2. step = "check" => r.op = "export-file"
    BY <1>3
  <2>3. step = "read" => r.op \in RecordOps \cup {"credential-export"}
    BY <1>1, <1>3 DEF ArtOps
  <2>4. job.req = r /\ job.step = step /\ job.art = art
    BY <1>4
  <2> QED
    BY <1>5, <1>6, <1>7, <2>1, <2>2, <2>3, <2>4 DEF JobStands, Storing, vault, places
<1> QED
  BY <1>5, <1>8, NothingNew, JobMoves DEF ArtInv, ArtTypeOK, vault, places

LEMMA AnswerKeeps == ASSUME ArtInv, Answer PROVE ArtInv'
BY EndTypes, JobStops DEF Answer

\* Moving to a step without changing anything else.
LEMMA StepTypes ==
    ASSUME ArtInv, artJob # NoArtJob, NEW step \in ArtSteps, Step(step)
    PROVE  /\ artJob' \in ArtJobs /\ artJob'.step = step /\ artJob'.req = artJob.req
           /\ artJob'.art = artJob.art /\ artJob'.version = artJob.version
           /\ artJob.req \in ArtRequests /\ artJob.art \in Artifacts
BY DEF Step, ArtInv, ArtTypeOK, ArtJobs

LEMMA SameEvents ==
    ASSUME UNCHANGED artEvents
    PROVE  Manifests' = Manifests /\ \A op, src : RecordVersion(op, src)' = RecordVersion(op, src)
BY DEF Manifests, RecordVersion, RecordsOf

LEMMA EventsStay == ASSUME EventsSound, UNCHANGED artEvents PROVE EventsSound'
<1>1. Manifests' = Manifests /\ \A op, src : RecordVersion(op, src)' = RecordVersion(op, src)
  BY SameEvents
<1> QED
  BY <1>1 DEF EventsSound, WithinSize

LEMMA StutterKeeps ==
    ASSUME ArtInv, UNCHANGED <<vault, artEvents, artJob, outcome>>
    PROVE  ArtInv'
<1>1. ArtTypeOK' /\ FilesKept' /\ DirsKept'
  BY DEF ArtInv, ArtTypeOK, FilesKept, DirsKept, Present, NewFile, NewDir, vault, places
<1>2. RecordedReadable'
  BY SameEvents DEF ArtInv, RecordedReadable, vault
<1>3. JobStands'
  BY SameEvents DEF ArtInv, JobStands, Present, WithinSize, vault, places
<1> QED
  BY <1>1, <1>2, <1>3, EventsStay DEF ArtInv

LEMMA AfterStoreType ==
    /\ AfterStore \in {"manifest", "internal"}
    /\ AfterStore = "manifest" <=> artJob.req.op = "import"
BY DEF AfterStore

LEMMA StoreKeeps == ASSUME ArtInv, Store PROVE ArtInv'
<1>1. /\ artJob # NoArtJob /\ artJob.step = "store"
      /\ UNCHANGED <<vault, artEvents>>
  BY DEF Store
<1>2. CASE End("refused")
  BY <1>1, <1>2, EndTypes, JobStops
<1>3. CASE WithinSize(artJob.art) /\ Readable(artJob.art) /\ Step(AfterStore) /\ UNCHANGED outcome
  <2>1. PICK s \in {"manifest", "internal"} :
            Step(s) /\ (s = "manifest" <=> artJob.req.op = "import")
    BY <1>3, AfterStoreType
  <2>2. s \in ArtSteps
    BY DEF ArtSteps
  <2>3. /\ artJob' \in ArtJobs /\ artJob'.step = s /\ artJob'.req = artJob.req
        /\ artJob'.art = artJob.art /\ artJob'.version = artJob.version
    BY <1>1, <2>1, <2>2, StepTypes
  <2>4. artJob.art \in Present' /\ daemon' = daemon
    BY <1>1, <1>3 DEF Present, Readable, vault, places
  <2>5. JobStands'
    BY <1>1, <1>3, <2>1, <2>3, <2>4, SameEvents DEF ArtInv, JobStands, Storing, WithinSize
  <2> QED
    BY <1>1, <1>3, <2>3, <2>5, QuietMove DEF ArtInv, ArtTypeOK
<1>4. CASE /\ WithinSize(artJob.art) /\ artJob.art \notin Present
           /\ Step("shard") /\ UNCHANGED outcome
  <2>1. "shard" \in ArtSteps
    BY DEF ArtSteps
  <2>2. /\ artJob' \in ArtJobs /\ artJob'.step = "shard" /\ artJob'.req = artJob.req
        /\ artJob'.art = artJob.art /\ artJob'.version = artJob.version
    BY <1>1, <1>4, <2>1, StepTypes
  <2>3. artJob.art \notin Present' /\ daemon' = daemon
    BY <1>1, <1>4 DEF Present, vault, places
  <2>4. JobStands'
    BY <1>1, <1>4, <2>2, <2>3, SameEvents DEF ArtInv, JobStands, Storing, WithinSize
  <2> QED
    BY <1>1, <1>4, <2>2, <2>4, QuietMove DEF ArtInv, ArtTypeOK
<1> QED
  BY <1>2, <1>3, <1>4 DEF Store

LEMMA CreateShardKeeps == ASSUME ArtInv, CreateShard PROVE ArtInv'
<1>1. /\ artJob # NoArtJob /\ artJob.step = "shard"
      /\ dirs' = dirs \cup {Shard(artJob.art)}
      /\ UNCHANGED <<vaultFiles, tampered, synced, skipped, dirsSynced, loose, daemon, artEvents, outcome>>
  BY DEF CreateShard
<1>2. PICK s \in {"write", "shardSync"} :
        Step(s) /\ (s = "write" => Shard(artJob.art) \in dirs)
  BY DEF CreateShard
<1>3. /\ artJob' \in ArtJobs /\ artJob' # NoArtJob /\ artJob'.step = s /\ artJob'.req = artJob.req
      /\ artJob'.art = artJob.art /\ artJob'.version = artJob.version
  BY <1>1, <1>2, StepTypes, NoArtJobAssumption DEF ArtSteps
<1>4. NewFile = {} /\ NewDir = {} /\ daemon = "up"
  BY <1>1, NothingNew DEF ArtInv, JobStands
<1>5. ArtTypeOK' /\ RecordedReadable' /\ FilesKept' /\ EventsSound'
  BY <1>1, <1>3, <1>4, SameEvents, EventsStay DEF ArtInv, ArtTypeOK, RecordedReadable, FilesKept, Present
<1>6. DirsKept'
  BY <1>1, <1>2, <1>3, <1>4 DEF ArtInv, DirsKept, NewDir
<1>7. JobStands'
  BY <1>1, <1>2, <1>3, <1>4, SameEvents DEF ArtInv, JobStands, Storing, WithinSize, Present
<1> QED
  BY <1>5, <1>6, <1>7 DEF ArtInv

LEMMA SyncShardKeeps == ASSUME ArtInv, SyncShard PROVE ArtInv'
<1>1. /\ artJob # NoArtJob /\ artJob.step = "shardSync" /\ Step("write")
      /\ dirsSynced' = dirsSynced \cup (dirs \ {ObjectRoot}) /\ loose' = loose \cap {ObjectRoot}
      /\ UNCHANGED <<vaultFiles, tampered, synced, skipped, dirs, daemon, artEvents, outcome>>
  BY DEF SyncShard
<1>2. /\ artJob' \in ArtJobs /\ artJob' # NoArtJob /\ artJob'.step = "write" /\ artJob'.req = artJob.req
      /\ artJob'.art = artJob.art /\ artJob'.version = artJob.version
  BY <1>1, StepTypes, NoArtJobAssumption DEF ArtSteps
<1>3. NewFile = {} /\ NewDir = {Shard(artJob.art)} /\ daemon = "up"
  BY <1>1 DEF ArtInv, JobStands, NewFile, NewDir
<1>4. ArtTypeOK' /\ RecordedReadable' /\ FilesKept' /\ EventsSound'
  BY <1>1, <1>2, <1>3, SameEvents, EventsStay DEF ArtInv, ArtTypeOK, RecordedReadable, FilesKept, Present
<1>5. DirsKept'
  <2>1. ASSUME ObjectRoot \in dirs, ObjectRoot \notin dirsSynced PROVE ObjectRoot \in loose \cup {Shard(artJob.art)}
    BY <1>3, <2>1 DEF ArtInv, DirsKept
  <2>2. Shard(artJob.art) # ObjectRoot
    BY DEF Shard, ObjectRoot
  <2> QED
    BY <1>1, <2>1, <2>2 DEF DirsKept
<1>6. JobStands'
  BY <1>1, <1>2, <1>3, SameEvents DEF ArtInv, JobStands, Storing, WithinSize, Present
<1> QED
  BY <1>4, <1>5, <1>6 DEF ArtInv

LEMMA RenameKeeps == ASSUME ArtInv, Rename PROVE ArtInv'
<1>1. /\ artJob # NoArtJob /\ artJob.step = "write"
      /\ vaultFiles' = vaultFiles \cup {artJob.art}
      /\ UNCHANGED <<tampered, synced, skipped, dirs, dirsSynced, loose, daemon, artEvents, outcome>>
  BY DEF Rename, places
<1>2. /\ artJob' \in ArtJobs /\ artJob' # NoArtJob /\ artJob'.step = "sync" /\ artJob'.req = artJob.req
      /\ artJob'.art = artJob.art /\ artJob'.version = artJob.version /\ artJob.art \in Artifacts
  <2>1. "sync" \in ArtSteps
    BY DEF ArtSteps
  <2> QED
    BY <1>1, <2>1, StepTypes, NoArtJobAssumption DEF Rename
<1>3. ArtTypeOK'
  BY <1>1, <1>2 DEF ArtInv, ArtTypeOK
<1>4. RecordedReadable' /\ EventsSound'
  BY <1>1, SameEvents, EventsStay DEF ArtInv, RecordedReadable
<1>5. NewFile = {} /\ NewDir = {} /\ daemon = "up"
  BY <1>1, NothingNew DEF ArtInv, JobStands
<1>6. FilesKept' /\ DirsKept'
  BY <1>1, <1>2, <1>5 DEF ArtInv, FilesKept, DirsKept, Present, NewFile
<1>7. JobStands'
  BY <1>1, <1>2, <1>5, SameEvents DEF ArtInv, JobStands, Storing, WithinSize, Present
<1> QED
  BY <1>3, <1>4, <1>6, <1>7 DEF ArtInv

LEMMA SyncKeeps == ASSUME ArtInv, SyncDirectory PROVE ArtInv'
<1>1. PICK there \in SUBSET Present :
        there = {a \in Present : Shard(a) = Shard(artJob.art)}
  OBVIOUS
<1>2. /\ artJob # NoArtJob /\ artJob.step = "sync"
      /\ synced' = synced \cup there /\ skipped' = skipped \ there
      /\ UNCHANGED <<vaultFiles, tampered, dirs, dirsSynced, loose, daemon, artEvents, outcome>>
  BY <1>1 DEF SyncDirectory, places
<1>3. PICK s \in {"manifest", "internal"} : Step(s) /\ (s = "manifest" <=> artJob.req.op = "import")
  BY AfterStoreType DEF SyncDirectory
<1>4. /\ artJob' \in ArtJobs /\ artJob' # NoArtJob /\ artJob'.step = s /\ artJob'.req = artJob.req
      /\ artJob'.art = artJob.art /\ artJob'.version = artJob.version
  BY <1>2, <1>3, StepTypes, NoArtJobAssumption DEF ArtSteps
<1>5. artJob.art \in there /\ NewFile = {artJob.art} /\ NewDir = {} /\ daemon = "up"
  BY <1>1, <1>2 DEF ArtInv, JobStands, NewFile, NewDir
<1>6. ArtTypeOK' /\ EventsSound'
  BY <1>2, <1>4, EventsStay DEF ArtInv, ArtTypeOK
<1>7. RecordedReadable' /\ FilesKept' /\ DirsKept'
  BY <1>2, <1>4, <1>5, SameEvents DEF ArtInv, RecordedReadable, FilesKept, DirsKept, Present
<1>8. JobStands'
  BY <1>1, <1>2, <1>3, <1>4, <1>5, SameEvents DEF ArtInv, JobStands, Storing, WithinSize, Present
<1> QED
  BY <1>6, <1>7, <1>8 DEF ArtInv

LEMMA OpenVaultRootKeeps == ASSUME ArtInv, OpenVaultRoot \/ SyncVaultRoot PROVE ArtInv'
<1>1. /\ artJob = NoArtJob /\ NewFile = {}
      /\ UNCHANGED <<vaultFiles, tampered, synced, skipped, loose, artEvents, artJob, outcome>>
  BY DEF OpenVaultRoot, SyncVaultRoot, ArtInv, JobStands, NewFile
<1>2. ArtTypeOK' /\ RecordedReadable' /\ FilesKept' /\ EventsSound' /\ JobStands'
  BY <1>1, SameEvents, EventsStay DEF ArtInv, ArtTypeOK, RecordedReadable, FilesKept, Present, JobStands
<1>3. DirsKept'
  BY <1>1 DEF OpenVaultRoot, SyncVaultRoot, ArtInv, DirsKept, NewDir
<1> QED
  BY <1>2, <1>3 DEF ArtInv

LEMMA WriteFailsKeeps == ASSUME ArtInv, WriteFails PROVE ArtInv'
<1>1. /\ artJob # NoArtJob /\ End("refused") /\ LeaveUnsynced
      /\ UNCHANGED <<vaultFiles, tampered, synced, dirs, dirsSynced, artEvents>>
  BY DEF WriteFails
<1>2. /\ artJob' = NoArtJob /\ outcome' \in [ArtRequests -> {"none", "refused", "answered"}]
  BY <1>1, EndTypes
<1> QED
  BY <1>1, <1>2, JobMoves DEF LeaveUnsynced, JobStands

\* A job that ends or goes on as its event is committed.
LEMMA EventAdded ==
    ASSUME ArtInv, artJob # NoArtJob,
           NEW kind \in {"manifest", "record", "command"}, NEW version \in Nat,
           NewEvent(kind, artJob.art, version),
           UNCHANGED vault, artJob.step \notin {"shardSync", "sync"},
           artJob' # NoArtJob => artJob' \in ArtJobs,
           outcome' \in [ArtRequests -> {"none", "refused", "answered"}],
           kind = "manifest" =>
             /\ WithinSize(artJob.art) /\ artJob.art \in Present
             /\ artJob.req.op = "credential-export" =>
                  /\ artJob.art = ExportOf(artJob.req.src, version)
                  /\ version <= RecordVersion("credential-import", artJob.req.src),
           kind = "record" =>
             artJob.req.op \in RecordOps /\ Original(artJob.req.src) \in Manifests,
           JobStands'
    PROVE  ArtInv'
<1>1. artJob \in ArtJobs
  BY DEF ArtInv, ArtTypeOK
<1>2. PICK e \in ArtEventType :
        e = [req |-> artJob.req, kind |-> kind, art |-> artJob.art, version |-> version]
  BY <1>1 DEF ArtJobs, ArtEventType
<1>3. artEvents' = artEvents \cup {e}
  BY <1>2 DEF NewEvent
<1>4. ArtTypeOK'
  <2>1. IsFiniteSet(artEvents')
    BY <1>3, FS_AddElement DEF ArtInv, ArtTypeOK
  <2> QED
    BY <1>3, <2>1 DEF ArtInv, ArtTypeOK, vault
<1>5. /\ Manifests \subseteq Manifests'
      /\ \A op, src : RecordVersion(op, src) <= RecordVersion(op, src)'
      /\ \A op, src : RecordVersion(op, src) \in Nat /\ RecordVersion(op, src)' \in Nat
  <2>1. \A op, src : RecordVersion(op, src) \in Nat /\ RecordVersion(op, src)' \in Nat
    BY <1>4, VersionTypes, VersionsPrimed DEF ArtInv
  <2> QED
    BY <1>3, <1>4, <2>1, EventsGrow DEF ArtInv
<1>6. RecordedReadable'
  <2>1. Manifests' \subseteq Manifests \cup (IF kind = "manifest" THEN {artJob.art} ELSE {})
    BY <1>2, <1>3 DEF Manifests
  <2> QED
    BY <2>1 DEF ArtInv, RecordedReadable, Present, vault
<1>7. FilesKept' /\ DirsKept'
  BY NothingNew DEF ArtInv, FilesKept, DirsKept, Present, vault, places
<1>8. EventsSound'
  <2> SUFFICES ASSUME NEW x \in artEvents'
               PROVE  /\ x.kind = "manifest" => WithinSize(x.art)
                      /\ x.kind = "manifest" /\ x.req.op = "credential-export" =>
                           /\ x.art = ExportOf(x.req.src, x.version)
                           /\ x.version <= RecordVersion("credential-import", x.req.src)'
                      /\ x.kind = "record" =>
                           x.req.op \in RecordOps /\ Original(x.req.src) \in Manifests'
    BY DEF EventsSound, WithinSize
  <2>1. CASE x \in artEvents
    <3>1. /\ x.kind = "manifest" => WithinSize(x.art)
          /\ x.kind = "manifest" /\ x.req.op = "credential-export" =>
               /\ x.art = ExportOf(x.req.src, x.version)
               /\ x.version <= RecordVersion("credential-import", x.req.src)
          /\ x.kind = "record" => x.req.op \in RecordOps /\ Original(x.req.src) \in Manifests
      BY <2>1 DEF ArtInv, EventsSound
    <3>2. x.version \in Nat
      BY <2>1 DEF ArtInv, ArtTypeOK, ArtEventType
    <3> QED
      BY <1>5, <3>1, <3>2
  <2>2. CASE x = e
    BY <1>2, <1>5, <2>2
  <2> QED
    BY <1>3, <2>1, <2>2
<1> QED
  BY <1>4, <1>6, <1>7, <1>8 DEF ArtInv

LEMMA SaveManifestKeeps == ASSUME ArtInv, SaveManifest PROVE ArtInv'
<1>1. /\ artJob # NoArtJob /\ artJob.step = "manifest" /\ NewEvent("manifest", artJob.art, 0)
      /\ End("answered") /\ UNCHANGED vault
  BY DEF SaveManifest
<1>2. /\ artJob' = NoArtJob /\ outcome' \in [ArtRequests -> {"none", "refused", "answered"}]
  BY <1>1, EndTypes
<1>3. WithinSize(artJob.art) /\ artJob.art \in Present /\ artJob.req.op = "import"
  BY <1>1 DEF ArtInv, JobStands, Storing
<1>4. JobStands'
  BY <1>2 DEF JobStands
<1> QED
  BY <1>1, <1>2, <1>3, <1>4, EventAdded

LEMMA ReadOriginalKeeps == ASSUME ArtInv, ReadOriginal PROVE ArtInv'
<1>1. /\ artJob # NoArtJob /\ artJob.step = "read"
      /\ UNCHANGED <<vault, artEvents>>
  BY DEF ReadOriginal
<1>2. /\ artJob \in ArtJobs /\ artJob.req \in ArtRequests
      /\ artJob.art = Original(artJob.req.src) /\ artJob.art \in Manifests
      /\ artJob.req.op \in RecordOps \cup {"credential-export"}
  BY <1>1 DEF ArtInv, ArtTypeOK, JobStands, ArtJobs
<1>3. CASE End("refused")
  BY <1>1, <1>3, EndTypes, JobStops
<1>4. CASE /\ artJob.req.op = "credential-export" /\ UNCHANGED outcome
           /\ LET v == RecordVersion("credential-import", artJob.req.src)
              IN artJob' = [artJob EXCEPT !.art = ExportOf(artJob.req.src, v),
                                          !.version = v, !.step = "store"]
  <2>1. PICK v \in Nat : v = RecordVersion("credential-import", artJob.req.src)
    BY VersionTypes DEF ArtInv
  <2>2. PICK art \in Artifacts : art = ExportOf(artJob.req.src, v)
    BY <1>2, ArtifactAssumption DEF ExportOf, Artifacts
  <2>3. artJob' = [artJob EXCEPT !.art = art, !.version = v, !.step = "store"]
    BY <1>4, <2>1, <2>2
  <2>4. /\ artJob' \in ArtJobs /\ artJob'.step = "store" /\ artJob'.req = artJob.req
        /\ artJob'.art = art /\ artJob'.version = v
    BY <1>2, <2>3 DEF ArtJobs, ArtSteps
  <2>5. JobStands'
    BY <1>1, <1>2, <1>4, <2>1, <2>2, <2>4, SameEvents DEF ArtInv, JobStands, Storing, vault, places
  <2> QED
    BY <1>1, <1>4, <2>4, <2>5, QuietMove DEF ArtInv, ArtTypeOK
<1>5. CASE /\ artJob.req.op # "credential-export" /\ UNCHANGED outcome
           /\ artJob' = [artJob EXCEPT !.step = "record"]
  <2>1. /\ artJob' \in ArtJobs /\ artJob'.step = "record" /\ artJob'.req = artJob.req
        /\ artJob'.art = artJob.art
    BY <1>2, <1>5 DEF ArtJobs, ArtSteps
  <2>2. JobStands'
    BY <1>1, <1>2, <1>5, <2>1, SameEvents DEF ArtInv, JobStands, Storing, vault, places
  <2> QED
    BY <1>1, <1>5, <2>1, <2>2, QuietMove DEF ArtInv, ArtTypeOK
<1> QED
  BY <1>3, <1>4, <1>5 DEF ReadOriginal

LEMMA RejectKeeps == ASSUME ArtInv, RejectContent PROVE ArtInv'
BY EndTypes, JobStops DEF RejectContent

LEMMA ToCommand ==
    ASSUME ArtInv, artJob # NoArtJob, Step("command"), UNCHANGED vault
    PROVE  artJob' \in ArtJobs /\ JobStands'
<1>1. artJob' \in ArtJobs /\ artJob'.step = "command"
  BY StepTypes DEF ArtSteps
<1> QED
  BY <1>1 DEF ArtInv, JobStands, Storing, vault, places

LEMMA RecordValueKeeps == ASSUME ArtInv, RecordValue PROVE ArtInv'
<1>1. /\ artJob # NoArtJob /\ artJob.step = "record"
      /\ UNCHANGED vault
  BY DEF RecordValue
<1>2. /\ artJob.art = Original(artJob.req.src) /\ artJob.art \in Manifests
      /\ artJob.req.op \in RecordOps
  BY <1>1 DEF ArtInv, JobStands
<1>3. CASE Step("command") /\ UNCHANGED <<artEvents, outcome>>
  BY <1>1, <1>3, ToCommand, QuietMove DEF ArtInv, ArtTypeOK
<1>4. CASE End("refused") /\ UNCHANGED artEvents
  BY <1>1, <1>4, EndTypes, JobStops
<1>5. CASE /\ NewEvent("record", artJob.art, RecordVersion(artJob.req.op, artJob.req.src) + 1)
           /\ Step("command") /\ UNCHANGED outcome
  <2>1. PICK v \in Nat : v = RecordVersion(artJob.req.op, artJob.req.src) + 1
    <3>1. RecordVersion(artJob.req.op, artJob.req.src) \in Nat
      BY VersionTypes DEF ArtInv
    <3> QED
      BY <3>1
  <2>2. artJob' \in ArtJobs /\ JobStands'
    BY <1>1, <1>5, ToCommand
  <2>3. outcome' \in [ArtRequests -> {"none", "refused", "answered"}]
    BY <1>5 DEF ArtInv, ArtTypeOK
  <2> QED
    BY <1>1, <1>2, <1>5, <2>1, <2>2, <2>3, EventAdded
<1> QED
  BY <1>3, <1>4, <1>5 DEF RecordValue

LEMMA InternalManifestKeeps == ASSUME ArtInv, InternalManifest PROVE ArtInv'
<1>1. /\ artJob # NoArtJob /\ artJob.step = "internal"
      /\ UNCHANGED vault
  BY DEF InternalManifest
<1>2. CASE Step("command") /\ UNCHANGED <<artEvents, outcome>>
  BY <1>1, <1>2, ToCommand, QuietMove DEF ArtInv, ArtTypeOK
<1>3. CASE End("refused") /\ UNCHANGED artEvents
  BY <1>1, <1>3, EndTypes, JobStops
<1>4. CASE NewEvent("manifest", artJob.art, artJob.version) /\ Step("command") /\ UNCHANGED outcome
  <2>1. artJob' \in ArtJobs /\ JobStands'
    BY <1>1, <1>4, ToCommand
  <2>2. outcome' \in [ArtRequests -> {"none", "refused", "answered"}]
    BY <1>4 DEF ArtInv, ArtTypeOK
  <2>3. /\ WithinSize(artJob.art) /\ artJob.art \in Present
        /\ artJob.req.op = "credential-export" =>
             /\ artJob.version = RecordVersion("credential-import", artJob.req.src)
             /\ artJob.art = ExportOf(artJob.req.src, artJob.version)
    BY <1>1 DEF ArtInv, JobStands, Storing
  <2>4. artJob.version \in Nat
    BY <1>1 DEF ArtInv, ArtTypeOK, ArtJobs
  <2> QED
    BY <1>1, <1>4, <2>1, <2>2, <2>3, <2>4, EventAdded
<1> QED
  BY <1>2, <1>3, <1>4 DEF InternalManifest

LEMMA RecordCommandKeeps == ASSUME ArtInv, RecordCommand PROVE ArtInv'
<1>1. /\ artJob # NoArtJob /\ artJob.step = "command"
      /\ NewEvent("command", artJob.art, artJob.version)
      /\ End("answered") /\ UNCHANGED vault
  BY DEF RecordCommand
<1>2. /\ artJob' = NoArtJob /\ outcome' \in [ArtRequests -> {"none", "refused", "answered"}]
  BY <1>1, EndTypes
<1>3. JobStands' /\ artJob.version \in Nat
  BY <1>1, <1>2 DEF JobStands, ArtInv, ArtTypeOK, ArtJobs
<1> QED
  BY <1>1, <1>2, <1>3, EventAdded

\* The steps of artifact-export change the job, the outcome and the target.
LEMMA ExportKeeps == ASSUME ArtInv, CheckTarget \/ ExportFile \/ VerifyTarget PROVE ArtInv'
<1>1. /\ artJob # NoArtJob /\ artJob.step \in {"check", "export", "verify"}
      /\ UNCHANGED <<vault, artEvents>>
  BY DEF CheckTarget, ExportFile, VerifyTarget
<1>2. artJob.req.op = "export-file"
  BY <1>1 DEF ArtInv, JobStands
<1>3. CASE End("refused")
  BY <1>1, <1>3, EndTypes, JobStops
<1>4. ASSUME NEW step \in {"command", "answer", "export", "verify"}, Step(step), UNCHANGED outcome
      PROVE  ArtInv'
  <2>1. /\ artJob' \in ArtJobs /\ artJob'.step = step /\ artJob'.req = artJob.req
    BY <1>1, <1>4, StepTypes DEF ArtSteps
  <2>2. JobStands'
    BY <1>1, <1>2, <2>1 DEF ArtInv, JobStands, Storing, vault, places
  <2> QED
    BY <1>1, <1>4, <2>1, <2>2, QuietMove DEF ArtInv, ArtTypeOK
<1>5. CASE ExportDone /\ UNCHANGED outcome
  BY <1>4, <1>5 DEF ExportDone
<1> QED
  BY <1>3, <1>4, <1>5 DEF CheckTarget, ExportFile, VerifyTarget

LEMMA PowerLossKeeps == ASSUME ArtInv, PowerLoss PROVE ArtInv'
<1>1. PICK goneFiles \in SUBSET (Present \ synced), goneDirs \in SUBSET (dirs \ dirsSynced),
           gone \in SUBSET Present, left \in SUBSET dirs :
        /\ gone = goneFiles \cup {a \in Present : DirsOf(a) \cap goneDirs # {}}
        /\ vaultFiles' = vaultFiles \ gone /\ tampered' = tampered \ gone
        /\ synced' = synced \ gone /\ dirs' = left /\ dirsSynced' = dirsSynced \cap left
        /\ loose' = (loose \cup NewDir) \cap left
        /\ skipped' = skipped \cup NewFile
                      \cup {a \in gone : DirsOf(a) \cap (loose \cup NewDir) # {}}
  <2>1. PICK goneFiles \in SUBSET (Present \ synced), goneDirs \in SUBSET (dirs \ dirsSynced) :
          LET gone == goneFiles \cup {a \in Present : DirsOf(a) \cap goneDirs # {}}
              left == IF ObjectRoot \in goneDirs THEN {} ELSE dirs \ goneDirs
          IN /\ vaultFiles' = vaultFiles \ gone
             /\ tampered' = tampered \ gone
             /\ synced' = synced \ gone
             /\ dirs' = left
             /\ dirsSynced' = dirsSynced \cap left
             /\ loose' = (loose \cup NewDir) \cap left
             /\ skipped' = skipped \cup NewFile
                           \cup {a \in gone : DirsOf(a) \cap (loose \cup NewDir) # {}}
    BY DEF PowerLoss
  <2>2. PICK gone \in SUBSET Present :
          gone = goneFiles \cup {a \in Present : DirsOf(a) \cap goneDirs # {}}
    OBVIOUS
  <2>3. PICK left \in SUBSET dirs : left = IF ObjectRoot \in goneDirs THEN {} ELSE dirs \ goneDirs
    OBVIOUS
  <2> QED
    BY <2>1, <2>2, <2>3
<1>2. artJob' = NoArtJob /\ UNCHANGED <<artEvents, outcome>>
  BY DEF PowerLoss
<1>3. gone \subseteq skipped'
  <2>1. goneFiles \subseteq skipped \cup NewFile
    BY DEF ArtInv, FilesKept
  <2>2. goneDirs \subseteq loose \cup NewDir
    BY DEF ArtInv, DirsKept
  <2>3. ASSUME NEW a \in Present, DirsOf(a) \cap goneDirs # {}
        PROVE  DirsOf(a) \cap (loose \cup NewDir) # {}
    BY <2>2, <2>3
  <2> QED
    BY <1>1, <2>1, <2>3
<1>4. Present' = Present \ gone
  BY <1>1 DEF Present
<1>5. ArtTypeOK' /\ JobStands'
  BY <1>1, <1>2 DEF ArtInv, ArtTypeOK, JobStands
<1>6. RecordedReadable'
  BY <1>1, <1>2, <1>3, SameEvents DEF ArtInv, RecordedReadable
<1>7. FilesKept' /\ DirsKept'
  BY <1>1, <1>4 DEF ArtInv, FilesKept, DirsKept
<1> QED
  BY <1>2, <1>5, <1>6, <1>7, EventsStay DEF ArtInv

LEMMA FaultsKeep ==
    ASSUME ArtInv, Killed \/ PowerLoss \/ \E what \in {NoExport, Foreign} : OperatorFile(what)
    PROVE  ArtInv'
<1>1. CASE Killed
  <2>1. outcome' \in [ArtRequests -> {"none", "refused", "answered"}]
    BY <1>1 DEF Killed, ArtInv, ArtTypeOK
  <2> QED
    BY <1>1, <2>1, JobMoves DEF Killed, LeaveUnsynced, JobStands
<1>2. CASE PowerLoss
  BY <1>2, PowerLossKeeps
<1>3. ASSUME NEW what, OperatorFile(what) PROVE ArtInv'
  BY <1>3, StutterKeeps DEF OperatorFile
<1> QED
  BY <1>1, <1>2, <1>3

LEMMA TamperKeeps == ASSUME ArtInv, NEW art \in vaultFiles, Tamper(art) PROVE ArtInv'
<1>1. /\ vaultFiles' = vaultFiles \ {art} /\ tampered' = tampered \cup {art}
      /\ UNCHANGED <<synced, skipped, dirs, dirsSynced, loose, daemon, artEvents, artJob, outcome>>
  BY DEF Tamper, places
<1>2. ArtTypeOK'
  BY <1>1 DEF ArtInv, ArtTypeOK
<1>3. Present' = Present /\ NewFile' = NewFile /\ NewDir' = NewDir
  BY <1>1 DEF Present, NewFile, NewDir
<1>4. RecordedReadable' /\ FilesKept' /\ DirsKept'
  BY <1>1, <1>3, SameEvents DEF ArtInv, RecordedReadable, FilesKept, DirsKept
<1>5. JobStands'
  BY <1>1, <1>3, SameEvents DEF ArtInv, JobStands, WithinSize
<1> QED
  BY <1>1, <1>2, <1>4, <1>5, EventsStay DEF ArtInv

LEMMA ArtNextInv == ArtInv /\ [ArtNext]_artVars => ArtInv'
<1> SUFFICES ASSUME ArtInv, [ArtNext]_artVars PROVE ArtInv'
  OBVIOUS
<1>1. ASSUME NEW r \in ArtRequests, BeginArt(r) PROVE ArtInv'
  BY <1>1, BeginArtKeeps
<1>2. CASE Handle
  BY <1>2, AnswerKeeps, StoreKeeps, CreateShardKeeps, SyncShardKeeps, RenameKeeps, SyncKeeps, SaveManifestKeeps, ReadOriginalKeeps,
     RecordValueKeeps, InternalManifestKeeps, RecordCommandKeeps, ExportKeeps DEF Handle
<1>3. CASE WriteFails \/ RejectContent
  BY <1>3, WriteFailsKeeps, RejectKeeps
<1>4. CASE Killed \/ PowerLoss \/ \E what \in {NoExport, Foreign} : OperatorFile(what)
  BY <1>4, FaultsKeep
<1>5. ASSUME NEW art \in vaultFiles, Tamper(art) PROVE ArtInv'
  BY <1>5, TamperKeeps
<1>6. CASE UNCHANGED artVars
  BY <1>6, StutterKeeps DEF artVars
<1>7. CASE OpenVaultRoot \/ SyncVaultRoot
  BY <1>7, OpenVaultRootKeeps
<1> QED
  BY <1>1, <1>2, <1>3, <1>4, <1>5, <1>6, <1>7 DEF ArtNext

LEMMA ArtAlwaysInv == ArtSpec => []ArtInv
BY ArtInitInv, ArtNextInv, PTL DEF ArtSpec

\* Whatever the artifacts and the requests: an artifact a committed manifest
\* names is in the vault, unless its file was damaged or an entry of its path
\* was left unsynchronised by a call that was cut off (RecordedReadable).
THEOREM RecordedAlwaysReadable == ArtSpec => []RecordedReadable
<1>1. ArtInv => RecordedReadable
  BY DEF ArtInv
<1> QED
  BY <1>1, ArtAlwaysInv, PTL

\* The steps that may refuse the request being executed.
Refusing == Store \/ WriteFails \/ ReadOriginal \/ RejectContent \/ RecordValue
            \/ InternalManifest \/ CheckTarget \/ ExportFile \/ VerifyTarget

\* Only the request being executed can be refused, by a step that ends it so.
LEMMA WhoIsRefused ==
    ASSUME ArtInv, ArtNext, NEW r \in ArtRequests, outcome[r] # "refused", outcome'[r] = "refused"
    PROVE  artJob # NoArtJob /\ artJob.req = r /\ Refusing /\ End("refused")
<1>1. outcome \in [ArtRequests -> {"none", "refused", "answered"}]
  BY DEF ArtInv, ArtTypeOK
<1>2. ASSUME NEW q \in ArtRequests, BeginArt(q) PROVE FALSE
  BY <1>1, <1>2 DEF BeginArt
<1>3. outcome' # outcome
  OBVIOUS
<1>4. ~End("answered")
  BY <1>1 DEF End, ArtInv, ArtTypeOK
<1>5. Refusing
  BY <1>2, <1>3, <1>4 DEF ArtNext, Handle, Refusing, Answer, CreateShard, SyncShard, Rename, SyncDirectory,
     OpenVaultRoot, SyncVaultRoot, SaveManifest, RecordCommand, Killed, PowerLoss, Tamper, OperatorFile
<1>6. artJob # NoArtJob /\ End("refused")
  BY <1>3, <1>5 DEF Refusing, Store, WriteFails, ReadOriginal, RejectContent, RecordValue,
     InternalManifest, CheckTarget, ExportFile, VerifyTarget
<1>7. artJob.req = r
  BY <1>1, <1>6, EndTypes
<1> QED
  BY <1>5, <1>6, <1>7

\* A job whose artifact can be read goes on.
LEMMA ReadGoesOn ==
    ASSUME ArtInv, ReadOriginal, artJob' = NoArtJob
    PROVE  artJob.art \notin Manifests \/ ~Readable(artJob.art)
<1> SUFFICES ASSUME artJob.art \in Manifests, Readable(artJob.art) PROVE FALSE
  OBVIOUS
<1>1. /\ artJob # NoArtJob /\ artJob.step = "read" /\ artJob \in ArtJobs
      /\ artJob.req \in ArtRequests /\ artJob.req.src \in Originals
  BY ArtifactAssumption DEF ReadOriginal, ArtInv, ArtTypeOK, ArtJobs
<1>2. PICK v \in Nat : v = RecordVersion("credential-import", artJob.req.src)
  BY VersionTypes DEF ArtInv
<1>3. PICK art \in Artifacts : art = ExportOf(artJob.req.src, v)
  BY <1>1 DEF ExportOf, Artifacts
<1>4. \/ artJob' = [artJob EXCEPT !.art = art, !.version = v, !.step = "store"]
      \/ artJob' = [artJob EXCEPT !.step = "record"]
  BY <1>2, <1>3 DEF ReadOriginal
<1>5. artJob' \in ArtJobs
  BY <1>1, <1>4 DEF ArtJobs, ArtSteps
<1> QED
  BY <1>5, NoArtJobAssumption

\* What was imported is within the size limit, and so are its exports.
LEMMA SourceFits ==
    ASSUME ArtInv, NEW src, Original(src) \in Manifests, NEW version
    PROVE  WithinSize(ExportOf(src, version))
<1>1. PICK e \in artEvents : e.kind = "manifest" /\ e.art = Original(src)
  BY DEF Manifests
<1>2. WithinSize(Original(src))
  BY <1>1 DEF ArtInv, EventsSound
<1>3. Original(src).src = src /\ ExportOf(src, version).src = src
  BY DEF Original, ExportOf
<1> QED
  BY <1>2, <1>3 DEF WithinSize

\* The manifest a begun export committed is of the export being repeated, or
\* the passport has moved on.
LEMMA ExportRepeated ==
    ASSUME ArtInv, NEW r \in ArtRequests, r.op = "credential-export",
           NEW e \in EventOf(r, "manifest")
    PROVE  \/ PassportMoved(r)
           \/ e.art = ExportOf(r.src, RecordVersion("credential-import", r.src)) /\ e.art \in Manifests
<1>1. e \in artEvents /\ e.kind = "manifest" /\ e.req = r
  BY DEF EventOf
<1>2. /\ e.art = ExportOf(r.src, e.version)
      /\ e.version <= RecordVersion("credential-import", r.src)
  BY <1>1 DEF ArtInv, EventsSound
<1>3. e.version \in Nat /\ RecordVersion("credential-import", r.src) \in Nat
  BY <1>1, VersionTypes DEF ArtInv, ArtTypeOK, ArtEventType
<1>4. CASE e.version < RecordVersion("credential-import", r.src)
  BY <1>4 DEF PassportMoved
<1>5. CASE e.version = RecordVersion("credential-import", r.src)
  <2>1. e.art \in Manifests
    BY <1>1 DEF Manifests
  <2> QED
    BY <1>2, <1>5, <2>1
<1> QED
  BY <1>2, <1>3, <1>4, <1>5

\* The action BegunCompletes speaks of.
BegunStep ==
    \A r \in ArtRequests :
        outcome[r] # "refused" /\ outcome'[r] = "refused" /\ Begun(r)
        => \/ \E art \in tampered' \cup skipped' : art.src = r.src
           \/ PassportMoved(r)

LEMMA RefusedForAReason == ArtInv /\ [ArtNext]_artVars => [BegunStep]_artVars
<1> SUFFICES ASSUME ArtInv, ArtNext, NEW r \in ArtRequests,
                    outcome[r] # "refused", outcome'[r] = "refused", Begun(r)
             PROVE  \/ \E art \in tampered' \cup skipped' : art.src = r.src
                    \/ PassportMoved(r)
  BY DEF BegunStep
<1>1. artJob # NoArtJob /\ artJob.req = r /\ Refusing /\ End("refused") /\ artJob' = NoArtJob
  BY WhoIsRefused DEF End
<1>2. /\ EventOf(r, "record") # {} => r.op \in RecordOps
      /\ EventOf(r, "record") = {} => r.op = "credential-export" /\ EventOf(r, "manifest") # {}
  BY DEF Begun, EventOf, ArtInv, EventsSound
<1>3. r.op \in RecordOps \/ r.op = "credential-export"
  BY <1>2
<1>4. artJob.step \in ArtSteps /\ artJob \in ArtJobs
  BY <1>1 DEF ArtInv, ArtTypeOK, ArtJobs
\* An exporting job is about the export of the passport's version.
<1>5. ASSUME artJob.step \in Storing
      PROVE  /\ r.op = "credential-export" /\ Original(r.src) \in Manifests
             /\ artJob.art = ExportOf(r.src, RecordVersion("credential-import", r.src))
             /\ artJob.art.src = r.src /\ WithinSize(artJob.art)
  <2>1. r.op = "credential-export"
    BY <1>1, <1>3, <1>5 DEF ArtInv, JobStands, RecordOps
  <2>2. /\ Original(r.src) \in Manifests
        /\ artJob.art = ExportOf(r.src, RecordVersion("credential-import", r.src))
    BY <1>1, <1>5, <2>1 DEF ArtInv, JobStands
  <2> QED
    BY <2>1, <2>2, SourceFits DEF ExportOf
<1>6. CASE Store
  <2>1. artJob.art \in tampered
    BY <1>1, <1>5, <1>6, NoArtJobAssumption DEF Store, Step, Storing, Present, Readable, End
  <2>2. tampered' = tampered
    BY <1>6 DEF Store, vault, places
  <2> QED
    BY <1>5, <1>6, <2>1, <2>2 DEF Store, Storing
<1>7. CASE WriteFails
  <2>1. artJob.step \in {"shard", "shardSync", "write", "sync"}
    BY <1>7 DEF WriteFails
  <2>2. CASE artJob.step = "sync"
    <3>1. artJob.art \in skipped'
      BY <1>1, <1>7, <2>2 DEF WriteFails, LeaveUnsynced, NewFile
    <3> QED
      BY <1>5, <2>1, <3>1 DEF Storing
  <2>3. CASE artJob.step \in {"shard", "shardSync", "write"}
    <3>1. artJob.art \notin Present /\ skipped' = skipped
      BY <1>1, <1>7, <2>3 DEF ArtInv, JobStands, WriteFails, LeaveUnsynced, NewFile
    <3>2. PICK e \in EventOf(r, "manifest") : TRUE
      BY <1>2, <1>5, <2>1 DEF Storing, RecordOps
    <3>3. CASE e.art = artJob.art /\ e.art \in Manifests
      BY <1>5, <2>1, <3>1, <3>3 DEF ArtInv, RecordedReadable, Present, Storing
    <3> QED
      BY <1>5, <2>1, <3>2, <3>3, ExportRepeated DEF Storing
  <2> QED
    BY <2>1, <2>2, <2>3
<1>8. CASE ReadOriginal
  <2>1. artJob.art = Original(r.src) /\ artJob.art \in Manifests
    BY <1>1, <1>8 DEF ReadOriginal, ArtInv, JobStands
  <2>2. artJob.art \notin vaultFiles /\ tampered' = tampered /\ skipped' = skipped
    BY <1>1, <1>4, <1>8, <2>1, ReadGoesOn DEF ReadOriginal, vault, Readable
  <2>3. artJob.art \in tampered' \cup skipped' /\ artJob.art.src = r.src
    BY <2>1, <2>2 DEF ArtInv, RecordedReadable, Original
  <2> QED
    BY <2>3
<1>9. CASE RejectContent \/ RecordValue
  <2>1. r.op \in RecordOps
    BY <1>1, <1>9 DEF RejectContent, RecordValue, ArtInv, JobStands
  <2>2. EventOf(r, "record") # {}
    BY <1>2, <2>1 DEF RecordOps
  <2>3. CASE RejectContent
    BY <1>1, <2>2, <2>3 DEF RejectContent
  <2>4. CASE RecordValue
    <3>1. Step("command")
      BY <1>1, <2>2, <2>4 DEF RecordValue
    <3> QED
      BY <1>1, <3>1, StepTypes, NoArtJobAssumption DEF ArtSteps
  <2> QED
    BY <1>9, <2>3, <2>4
<1>10. CASE InternalManifest
  <2>1. artJob.step = "internal"
    BY <1>10 DEF InternalManifest
  <2>2. ~Step("command")
    BY <1>1, StepTypes, NoArtJobAssumption DEF ArtSteps
  <2>3. /\ EventOf(r, "manifest") # {}
        /\ \A e \in EventOf(r, "manifest") : e.art # artJob.art
    BY <1>1, <1>10, <2>2 DEF InternalManifest
  <2>4. PICK e \in EventOf(r, "manifest") : e.art # artJob.art
    BY <2>3
  <2> QED
    BY <1>5, <2>1, <2>4, ExportRepeated DEF Storing
<1>11. CASE CheckTarget \/ ExportFile \/ VerifyTarget
  <2>1. r.op = "export-file"
    BY <1>1, <1>11 DEF CheckTarget, ExportFile, VerifyTarget, ArtInv, JobStands
  <2> QED
    BY <1>3, <2>1 DEF RecordOps
<1> QED
  BY <1>1, <1>6, <1>7, <1>8, <1>9, <1>10, <1>11 DEF Refusing

\* Whatever the artifacts and the requests: a request whose first event is
\* committed is refused only for an artifact that was damaged or lost, or
\* because the passport was imported again (BegunCompletes).
THEOREM BegunAlwaysCompletes == ArtSpec => BegunCompletes
<1>1. ArtInv /\ [ArtNext]_artVars => [BegunStep]_artVars
  BY RefusedForAReason
<1> QED
  BY <1>1, ArtAlwaysInv, PTL DEF ArtSpec, BegunCompletes, BegunStep

-----------------------------------------------------------------------------
\* The legacy import.

LegCandidates == Entries \X Contents
LegEvents == LegCandidates \cup {Other}
LegPlans == [candidates : SUBSET LegCandidates, valid : BOOLEAN]

LegJobs == [plan : LegPlans, head : Nat, step : {"backup", "next", "append", "receipt"},
            todo : SUBSET LegCandidates, now : LegEvents]

ImportTypeOK ==
    /\ legacy \subseteq LegCandidates
    /\ legEvents \in Seq(LegEvents)
    /\ legReceipts \subseteq LegCandidates
    /\ rollbacks \subseteq [plan : LegPlans, head : Nat]
    /\ legJob # NoLegJob => legJob \in LegJobs

Imported(c) == \E i \in DOMAIN legEvents : legEvents[i] = c

\* No candidate is imported twice; a receipt is of an imported candidate.
ImportedOnce ==
    /\ \A i, j \in DOMAIN legEvents : legEvents[i] = legEvents[j] /\ legEvents[i] # Other => i = j
    /\ \A c \in legReceipts : Imported(c)

\* How far the application is: what is not to do any more has its receipt, and
\* the backup is there before the first candidate is taken.
ImportProgress ==
    legJob # NoLegJob =>
      /\ legJob.todo \subseteq legJob.plan.candidates
      /\ legJob.head <= Len(legEvents)
      /\ legJob.plan.candidates \ legJob.todo \subseteq legReceipts
      /\ legJob.step # "backup" => [plan |-> legJob.plan, head |-> legJob.head] \in rollbacks
      /\ legJob.step \in {"append", "receipt"} => legJob.now \in legJob.todo
      /\ legJob.step = "append" => ~Imported(legJob.now)
      /\ legJob.step = "receipt" => Imported(legJob.now)

Answered ==
    /\ \A p \in stuck : ~p.valid
    /\ \A p \in applied : p.candidates \subseteq legReceipts

\* The inductive invariant of the import.
ImportInv == ImportTypeOK /\ ImportedOnce /\ ImportProgress /\ Answered /\ RollbackExists

LEMMA OtherIsNoCandidate == Other \notin LegCandidates
BY LegacyAssumption DEF Other, LegCandidates

LEMMA ImportInitInv == LegInit => ImportInv
BY DEF LegInit, ImportInv, ImportTypeOK, ImportedOnce, ImportProgress, Answered, RollbackExists

\* A step that leaves the event log alone.
LEMMA LogStays ==
    ASSUME ImportInv, UNCHANGED legEvents, ImportTypeOK',
           rollbacks \subseteq rollbacks', legReceipts \subseteq legReceipts',
           \A c \in legReceipts' : Imported(c),
           ImportProgress', Answered'
    PROVE  ImportInv'
BY DEF ImportInv, ImportedOnce, Imported, RollbackExists

LEMMA AppendFacts ==
    ASSUME NEW S, NEW log \in Seq(S), NEW e \in S
    PROVE  /\ Append(log, e) \in Seq(S)
           /\ DOMAIN log = 1 .. Len(log) /\ Len(log) \in Nat
           /\ DOMAIN Append(log, e) = 1 .. Len(log) + 1
           /\ Len(Append(log, e)) = Len(log) + 1
           /\ \A i \in DOMAIN log : Append(log, e)[i] = log[i] /\ i \in DOMAIN Append(log, e)
           /\ \A i \in DOMAIN Append(log, e) : i \in DOMAIN log \/ i = Len(log) + 1
           /\ Append(log, e)[Len(log) + 1] = e
OBVIOUS

\* An event is appended: of a candidate that was not there, and only after a backup.
LEMMA LogGrows ==
    ASSUME ImportInv, NEW e \in LegEvents, legEvents' = Append(legEvents, e),
           e # Other => /\ ~Imported(e)
                        /\ \E b \in rollbacks : e \in b.plan.candidates /\ b.head <= Len(legEvents),
           UNCHANGED <<legacy, legReceipts, rollbacks>>,
           legJob' # NoLegJob => legJob' \in LegJobs,
           ImportProgress', Answered'
    PROVE  ImportInv'
<1>1. legEvents \in Seq(LegEvents)
  BY DEF ImportInv, ImportTypeOK
<1>2. /\ legEvents' \in Seq(LegEvents) /\ Len(legEvents) \in Nat
      /\ \A i \in DOMAIN legEvents : legEvents'[i] = legEvents[i] /\ i \in DOMAIN legEvents' 
      /\ \A i \in DOMAIN legEvents' : i \in DOMAIN legEvents \/ i = Len(legEvents) + 1
      /\ legEvents'[Len(legEvents) + 1] = e
  BY <1>1, AppendFacts
<1>3. ImportTypeOK'
  BY <1>2 DEF ImportInv, ImportTypeOK
<1>4. ImportedOnce'
  BY <1>2 DEF ImportInv, ImportedOnce, Imported
<1>5. RollbackExists'
  <2> SUFFICES ASSUME NEW i \in DOMAIN legEvents', legEvents'[i] # Other
               PROVE  \E b \in rollbacks : legEvents'[i] \in b.plan.candidates /\ b.head < i
    BY DEF RollbackExists
  <2>1. CASE i \in DOMAIN legEvents
    BY <1>2, <2>1 DEF ImportInv, RollbackExists
  <2>2. CASE i = Len(legEvents) + 1
    <3>1. PICK b \in rollbacks : e \in b.plan.candidates /\ b.head <= Len(legEvents)
      BY <1>2, <2>2
    <3>2. b.head \in Nat
      BY DEF ImportInv, ImportTypeOK
    <3> QED
      BY <1>2, <2>2, <3>1, <3>2
  <2> QED
    BY <1>2, <2>1, <2>2
<1> QED
  BY <1>3, <1>4, <1>5 DEF ImportInv

LEMMA EditKeepsImport ==
    ASSUME ImportInv, NEW entry \in Entries, NEW content \in Contents, Edit(entry, content)
    PROVE  ImportInv'
<1>1. /\ legacy' \subseteq LegCandidates
      /\ UNCHANGED <<legEvents, legReceipts, rollbacks, legJob, applied, stuck>>
  BY DEF Edit, ImportInv, ImportTypeOK, LegCandidates, Candidate
<1> QED
  BY <1>1 DEF ImportInv, ImportTypeOK, ImportedOnce, Imported, ImportProgress, Answered, RollbackExists

LEMMA ApplyKeeps == ASSUME ImportInv, Apply PROVE ImportInv'
<1>1. PICK plan \in LegPlans : plan = Plan(legacy)
  <2>1. Plan(legacy).candidates \subseteq legacy /\ Plan(legacy).valid \in BOOLEAN
    BY DEF Plan
  <2> QED
    BY <2>1 DEF Plan, LegPlans, ImportInv, ImportTypeOK
<1>2. Len(legEvents) \in Nat
  BY DEF ImportInv, ImportTypeOK
<1>3. PICK job \in LegJobs :
        job = [plan |-> plan, head |-> Len(legEvents), step |-> "backup",
               todo |-> plan.candidates, now |-> Other]
  BY <1>2 DEF LegJobs, LegPlans, LegEvents
<1>4. legJob' = job /\ UNCHANGED <<legacy, legEvents, legReceipts, rollbacks, applied, stuck>>
  BY <1>1, <1>3 DEF Apply
<1>5. ImportTypeOK' /\ Answered'
  BY <1>4 DEF ImportInv, ImportTypeOK, Answered
<1>6. ImportProgress'
  BY <1>2, <1>3, <1>4 DEF ImportProgress
<1> QED
  BY <1>4, <1>5, <1>6, LogStays DEF ImportInv, ImportedOnce

LEMMA BackupKeeps == ASSUME ImportInv, BackupBeforeImport PROVE ImportInv'
<1>1. legJob \in LegJobs /\ legJob # NoLegJob /\ legJob.step = "backup"
  BY DEF BackupBeforeImport, ImportInv, ImportTypeOK
<1>2. PICK b \in [plan : LegPlans, head : Nat] : b = [plan |-> legJob.plan, head |-> legJob.head]
  BY <1>1 DEF LegJobs
<1>3. /\ rollbacks' = rollbacks \cup {b} /\ legJob' = [legJob EXCEPT !.step = "next"]
      /\ UNCHANGED <<legacy, legEvents, legReceipts, applied, stuck>>
  BY <1>2 DEF BackupBeforeImport
<1>4. /\ legJob' \in LegJobs /\ legJob'.step = "next" /\ legJob'.plan = legJob.plan
      /\ legJob'.head = legJob.head /\ legJob'.todo = legJob.todo
  BY <1>1, <1>3 DEF LegJobs
<1>5. ImportTypeOK' /\ Answered'
  BY <1>3, <1>4 DEF ImportInv, ImportTypeOK, Answered
<1>6. ImportProgress'
  BY <1>1, <1>2, <1>3, <1>4 DEF ImportInv, ImportProgress
<1> QED
  BY <1>3, <1>5, <1>6, LogStays DEF ImportInv, ImportedOnce

LEMMA NextCandidateKeeps ==
    ASSUME ImportInv, legJob # NoLegJob, NEW c \in legJob.todo, NextCandidate(c)
    PROVE  ImportInv'
<1>1. /\ legJob \in LegJobs /\ legJob.step = "next" /\ c \in LegCandidates
      /\ UNCHANGED <<legacy, legEvents, legReceipts, rollbacks, applied>>
  BY DEF NextCandidate, ImportInv, ImportTypeOK, LegJobs
<1>2. Positions(c) = {} <=> ~Imported(c)
  BY DEF Positions, Imported
<1>3. c \in legReceipts => Imported(c)
  BY DEF ImportInv, ImportedOnce
<1>4. CASE c \in legReceipts
  <2>1. legJob' = [legJob EXCEPT !.todo = legJob.todo \ {c}] /\ stuck' = stuck
    BY <1>2, <1>3, <1>4 DEF NextCandidate
  <2>2. /\ legJob' \in LegJobs /\ legJob'.step = "next" /\ legJob'.plan = legJob.plan
        /\ legJob'.head = legJob.head /\ legJob'.todo = legJob.todo \ {c}
    BY <1>1, <2>1 DEF LegJobs
  <2>3. ImportTypeOK' /\ Answered' /\ ImportProgress'
    BY <1>1, <1>4, <2>1, <2>2 DEF ImportInv, ImportTypeOK, Answered, ImportProgress
  <2> QED
    BY <1>1, <2>3, LogStays DEF ImportInv, ImportedOnce
<1>5. CASE c \notin legReceipts
  <2>1. PICK step \in {"append", "receipt"} :
          step = IF Positions(c) = {} THEN "append" ELSE "receipt"
    OBVIOUS
  <2>2. legJob' = [legJob EXCEPT !.now = c, !.step = step] /\ stuck' = stuck
    BY <1>5, <2>1 DEF NextCandidate
  <2>3. /\ legJob' \in LegJobs /\ legJob'.step = step /\ legJob'.plan = legJob.plan
        /\ legJob'.head = legJob.head /\ legJob'.todo = legJob.todo /\ legJob'.now = c
    BY <1>1, <2>2 DEF LegJobs, LegEvents
  <2>4. ImportTypeOK' /\ Answered'
    BY <1>1, <2>2, <2>3 DEF ImportInv, ImportTypeOK, Answered
  <2>5. Imported(c)' <=> Imported(c)
    BY <1>1 DEF Imported
  <2>6. ImportProgress'
    BY <1>1, <1>2, <2>1, <2>3, <2>5 DEF ImportInv, ImportProgress, Imported
  <2> QED
    BY <1>1, <2>4, <2>6, LogStays DEF ImportInv, ImportedOnce
<1> QED
  BY <1>4, <1>5

\* The application ends, and the log, the receipts and the backups stay.
LEMMA JobEnds ==
    ASSUME ImportInv, legJob' = NoLegJob, UNCHANGED <<legacy, legEvents, legReceipts, rollbacks>>,
           Answered'
    PROVE  ImportInv'
BY LogStays DEF ImportInv, ImportTypeOK, ImportedOnce, ImportProgress

LEMMA RefuseInvalidKeeps == ASSUME ImportInv, RefuseInvalid PROVE ImportInv'
BY JobEnds DEF RefuseInvalid, Refuse, ImportInv, Answered

LEMMA AppendCandidateKeeps == ASSUME ImportInv, AppendCandidate PROVE ImportInv'
<1>1. /\ legJob \in LegJobs /\ legJob # NoLegJob /\ legJob.step = "append"
      /\ UNCHANGED <<legacy, legReceipts, rollbacks, applied, stuck>>
  BY DEF AppendCandidate, ImportInv, ImportTypeOK
<1>2. PICK c \in LegEvents : c = legJob.now
  BY <1>1 DEF LegJobs
<1>3. legEvents' = Append(legEvents, c) /\ legJob' = [legJob EXCEPT !.step = "receipt"]
  BY <1>2 DEF AppendCandidate
<1>4. /\ legJob' \in LegJobs /\ legJob'.step = "receipt" /\ legJob'.plan = legJob.plan
      /\ legJob'.head = legJob.head /\ legJob'.todo = legJob.todo /\ legJob'.now = c
  BY <1>1, <1>2, <1>3 DEF LegJobs
<1>5. /\ Len(legEvents') = Len(legEvents) + 1 /\ Len(legEvents) \in Nat
      /\ Imported(c)'
  <2>1. legEvents \in Seq(LegEvents)
    BY DEF ImportInv, ImportTypeOK
  <2>2. /\ Len(legEvents') = Len(legEvents) + 1 /\ Len(legEvents) \in Nat
        /\ Len(legEvents) + 1 \in DOMAIN legEvents' /\ legEvents'[Len(legEvents) + 1] = c
    BY <1>3, <2>1, AppendFacts
  <2> QED
    BY <2>2 DEF Imported
<1>6. Answered'
  BY <1>1 DEF ImportInv, Answered
<1>7. ImportProgress'
  <2>1. legJob.head \in Nat
    BY <1>1 DEF LegJobs
  <2> QED
    BY <1>1, <1>2, <1>4, <1>5, <2>1 DEF ImportInv, ImportProgress, Imported
<1>8. ~Imported(c) /\ \E b \in rollbacks : c \in b.plan.candidates /\ b.head <= Len(legEvents)
  BY <1>1, <1>2 DEF ImportInv, ImportProgress
<1> QED
  BY <1>1, <1>3, <1>4, <1>6, <1>7, <1>8, LogGrows

LEMMA ReceiptCandidateKeeps == ASSUME ImportInv, ReceiptCandidate PROVE ImportInv'
<1>1. /\ legJob \in LegJobs /\ legJob # NoLegJob /\ legJob.step = "receipt"
      /\ UNCHANGED <<legacy, legEvents, rollbacks, applied, stuck>>
  BY DEF ReceiptCandidate, ImportInv, ImportTypeOK
<1>2. PICK c \in LegCandidates : c = legJob.now
  BY <1>1 DEF ImportInv, ImportProgress, LegJobs
<1>3. /\ legReceipts' = legReceipts \cup {c}
      /\ legJob' = [legJob EXCEPT !.step = "next", !.todo = legJob.todo \ {c}]
  BY <1>2 DEF ReceiptCandidate
<1>4. /\ legJob' \in LegJobs /\ legJob'.step = "next" /\ legJob'.plan = legJob.plan
      /\ legJob'.head = legJob.head /\ legJob'.todo = legJob.todo \ {c}
  BY <1>1, <1>3 DEF LegJobs
<1>5. Imported(c)
  BY <1>1, <1>2 DEF ImportInv, ImportProgress
<1>6. ImportTypeOK' /\ Answered'
  BY <1>1, <1>3, <1>4 DEF ImportInv, ImportTypeOK, Answered
<1>7. ImportProgress'
  BY <1>1, <1>3, <1>4 DEF ImportInv, ImportProgress
<1> QED
  BY <1>1, <1>3, <1>5, <1>6, <1>7, LogStays DEF ImportInv, ImportedOnce

LEMMA FinishApplyKeeps == ASSUME ImportInv, FinishApply PROVE ImportInv'
<1>1. /\ legEvents' = Append(legEvents, Other) /\ legJob' = NoLegJob
      /\ applied' = applied \cup {legJob.plan}
      /\ UNCHANGED <<legacy, legReceipts, rollbacks, stuck>>
      /\ legJob # NoLegJob /\ legJob.todo = {}
  BY DEF FinishApply
<1>2. Answered' /\ ImportProgress'
  BY <1>1 DEF ImportInv, ImportProgress, Answered
<1> QED
  BY <1>1, <1>2, LogGrows DEF LegEvents

LEMMA OtherEventKeeps == ASSUME ImportInv, OtherEvent PROVE ImportInv'
<1>1. /\ legEvents' = Append(legEvents, Other) /\ legJob = NoLegJob
      /\ UNCHANGED <<legacy, legReceipts, rollbacks, legJob, applied, stuck>>
  BY DEF OtherEvent
<1>2. Answered' /\ ImportProgress'
  BY <1>1 DEF ImportInv, ImportProgress, Answered
<1> QED
  BY <1>1, <1>2, LogGrows DEF LegEvents

LEMMA ImportNextInv == ImportInv /\ [LegNext]_legVars => ImportInv'
<1> SUFFICES ASSUME ImportInv, [LegNext]_legVars PROVE ImportInv'
  OBVIOUS
<1>1. CASE UNCHANGED legVars
  BY <1>1 DEF legVars, ImportInv, ImportTypeOK, ImportedOnce, Imported, ImportProgress, Answered,
     RollbackExists
<1>2. ASSUME NEW entry \in Entries, NEW content \in Contents, Edit(entry, content) PROVE ImportInv'
  BY <1>2, EditKeepsImport
<1>3. CASE Apply \/ BackupBeforeImport \/ RefuseInvalid \/ AppendCandidate \/ ReceiptCandidate
  BY <1>3, ApplyKeeps, BackupKeeps, RefuseInvalidKeeps, AppendCandidateKeeps, ReceiptCandidateKeeps
<1>4. ASSUME NEW c \in IF legJob = NoLegJob THEN {} ELSE legJob.todo, NextCandidate(c)
      PROVE  ImportInv'
  BY <1>4, NextCandidateKeeps
<1>5. CASE FinishApply \/ OtherEvent
  BY <1>5, FinishApplyKeeps, OtherEventKeeps
<1>6. CASE LegKilled
  BY <1>6, JobEnds DEF LegKilled, ImportInv, Answered
<1> QED
  BY <1>1, <1>2, <1>3, <1>4, <1>5, <1>6 DEF LegNext

LEMMA ImportInvSound == ImportInv => ImportSound
<1> SUFFICES ASSUME ImportInv PROVE ImportExact
  BY DEF ImportInv, ImportSound
<1>1. ASSUME NEW entry \in Entries, NEW content \in Contents
      PROVE  Cardinality(Positions(Candidate(entry, content))) <= 1
  <2>1. PICK c \in LegCandidates : c = Candidate(entry, content)
    BY DEF LegCandidates, Candidate
  <2>2. c # Other
    BY OtherIsNoCandidate
  <2>3. \A i, j \in Positions(c) : i = j
    BY <2>2 DEF ImportInv, ImportedOnce, Positions
  <2>4. CASE Positions(c) = {}
    BY <2>1, <2>4, FS_EmptySet
  <2>5. CASE Positions(c) # {}
    <3>1. PICK i : Positions(c) = {i}
      BY <2>3, <2>5
    <3> QED
      BY <2>1, <3>1, FS_Singleton
  <2> QED
    BY <2>4, <2>5
<1>2. \A p \in applied : \A c \in p.candidates : Positions(c) # {} /\ c \in legReceipts
  BY DEF ImportInv, Answered, ImportedOnce, Imported, Positions
<1> QED
  BY <1>1, <1>2 DEF ImportInv, Answered, ImportExact

(* However often applications are cut off, and the files change in between:  *)
(* no candidate is imported twice, an approved valid plan is never refused,  *)
(* and every imported event has a backup made before it (legacy-import.ts).  *)
THEOREM ImportAlwaysSound == LegSpec => []ImportSound
BY ImportInitInv, ImportNextInv, ImportInvSound, PTL DEF LegSpec
=============================================================================
