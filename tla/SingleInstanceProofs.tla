------------------------- MODULE SingleInstanceProofs -------------------------
(***************************************************************************)
(* Proofs about processes that must not get in each other's way, for any   *)
(* number of them: daemons and offline commands around the single instance *)
(* lock and the daemon's endpoint, init clients in one onboarding session. *)
(*                                                                         *)
(* The lock: the file of a process that holds it stays where it is,        *)
(* because the steps that take a file from the lock path take their own,   *)
(* or are one of two renames, and those have displaced no live process.    *)
(* The endpoint: only who holds the lock binds or removes the path, so the *)
(* socket of a serving daemon is its own.                                  *)
(*                                                                         *)
(* The session: what its events project to, event by event, is what its    *)
(* fields say, and an appended event that was accepted keeps that; the     *)
(* plan a session records is in the history because the session's import   *)
(* request accepts one file only.                                          *)
(*                                                                         *)
(* The import plan: what was cut of a line covers it up to what is left of *)
(* it, so that the candidates of a line give it back whole.                *)
(***************************************************************************)
EXTENDS SingleInstance, Onboarding, ProfileParser, SequenceTheorems, WellFoundedInduction, TLAPS

\* Who holds the lock has written its file; who has the store open holds the
\* lock or is about to close it; who puts a lock back has moved it aside.
Roles ==
    /\ \A p \in Procs : pc[p] \in {"putBack", "putBackRename"} => aside[p] # NoFile
    /\ \A p \in writers : pc[p] \in Holding \cup {"closeStore"}

\* The lock file of its holder is in place, and so is a daemon's endpoint.
LockHeld ==
    displaced = {} =>
        \A p \in Procs :
            /\ pc[p] = "write" => lock = [owner |-> p, written |-> FALSE]
            /\ pc[p] \in Holding => lock = [owner |-> p, written |-> TRUE]
            /\ pc[p] = "serving" => socket = p

\* A live lock is displaced only once some lock was moved aside.
MovedFirst == displaced # {} => \E p \in Procs : aside[p] # NoFile

\* The inductive invariant.
Inv == TypeOK /\ Roles /\ LockHeld /\ MovedFirst

-----------------------------------------------------------------------------

LEMMA InvInit == Init => Inv
<1> SUFFICES ASSUME Init PROVE Inv
  OBVIOUS
<1> USE DEF Init
<1>1. TypeOK
  BY InstanceAssumption DEF TypeOK, Steps
<1>2. Roles /\ LockHeld /\ MovedFirst
  BY DEF Roles, LockHeld, MovedFirst, Holding, Procs
<1> QED BY <1>1, <1>2 DEF Inv

\* A record that is written through its descriptor stays a lock file.
LEMMA WrittenFits ==
    ASSUME NEW file \in Locks \cup {NoFile}, NEW p \in Procs
    PROVE  /\ Written(file, p) \in Locks \cup {NoFile}
           /\ Written(file, p) = NoFile <=> file = NoFile
<1>1. file \in Locks => Written(file, p) \in Locks
  BY DEF Written, Locks
<1> QED BY <1>1, AbsenceAssumption DEF Written

LEMMA TypePreserved ==
    ASSUME TypeOK, Roles, NEW p \in Procs, Step(p) \/ Crash(p)
    PROVE  TypeOK'
<1> USE InstanceAssumption DEF TypeOK, Steps, Acquiring, Holding, Goto
<1>1. CASE Look(p) \/ ReadLock(p) \/ CheckOwner(p)
  <2>1. lock \in Locks => lock.owner \in Procs
    BY DEF Locks
  <2> QED BY <1>1, <2>1 DEF Look, ReadLock, CheckOwner
<1>2. CASE Probe(p) \/ LookAgain(p)
  BY <1>2 DEF Probe, LookAgain
<1>3. CASE RenameStale(p) \/ PutBack(p)
  <2>1. lock \in Locks => lock.owner \in Procs
    BY DEF Locks
  <2>2. displaced' \subseteq Procs
    BY <1>3, <2>1 DEF RenameStale, PutBack, Displaces
  <2>3. pc[p] = "putBackRename" => aside[p] \in Locks
    BY DEF Roles
  <2> QED BY <1>3, <2>2, <2>3 DEF RenameStale, PutBack
<1>4. CASE CreateLock(p)
  <2>1. [owner |-> p, written |-> FALSE] \in Locks
    BY DEF Locks
  <2> QED BY <1>4, <2>1 DEF CreateLock
<1>5. CASE WriteLock(p)
  BY <1>5, WrittenFits DEF WriteLock
<1>6. CASE OpenStore(p) \/ OpenFails(p)
  BY <1>6 DEF OpenStore, OpenFails
<1>7. CASE LookForSocket(p) \/ ProbeSocket(p)
  BY <1>7 DEF LookForSocket, ProbeSocket
<1>8. CASE RmSocket(p) \/ Listen(p)
  BY <1>8 DEF RmSocket, Listen
<1>9. CASE StopListening(p) \/ LookForEndpoint(p) \/ RmEndpoint(p)
  BY <1>9 DEF StopListening, LookForEndpoint, RmEndpoint
<1>10. CASE CloseThenRelease(p) \/ ReleaseThrows(p) \/ Release(p)
  BY <1>10 DEF CloseThenRelease, ReleaseThrows, Release
<1>11. CASE Unlink(p) \/ CloseStore(p)
  BY <1>11 DEF Unlink, CloseStore
<1>12. CASE Crash(p)
  BY <1>12 DEF Crash
<1> QED BY <1>1, <1>2, <1>3, <1>4, <1>5, <1>6, <1>7, <1>8, <1>9, <1>10, <1>11, <1>12 DEF Step

(* A step moves one process.                                                 *)
LEMMA OneMoves ==
    ASSUME TypeOK, NEW p \in Procs, Step(p) \/ Crash(p)
    PROVE  \A q \in Procs \ {p} : pc'[q] = pc[q]
<1> USE DEF TypeOK, Goto
<1>1. CASE Look(p) \/ ReadLock(p) \/ CheckOwner(p) \/ Probe(p) \/ RenameStale(p) \/ CreateLock(p)
  BY <1>1 DEF Look, ReadLock, CheckOwner, Probe, RenameStale, CreateLock
<1>2. CASE LookAgain(p) \/ PutBack(p) \/ WriteLock(p) \/ OpenStore(p) \/ OpenFails(p)
  BY <1>2 DEF LookAgain, PutBack, WriteLock, OpenStore, OpenFails
<1>3. CASE LookForSocket(p) \/ ProbeSocket(p) \/ RmSocket(p) \/ Listen(p)
  BY <1>3 DEF LookForSocket, ProbeSocket, RmSocket, Listen
<1>4. CASE StopListening(p) \/ LookForEndpoint(p) \/ RmEndpoint(p)
  BY <1>4 DEF StopListening, LookForEndpoint, RmEndpoint
<1>5. CASE \/ CloseThenRelease(p) \/ ReleaseThrows(p) \/ Release(p)
           \/ Unlink(p) \/ CloseStore(p) \/ Crash(p)
  BY <1>5 DEF CloseThenRelease, ReleaseThrows, Release, Unlink, CloseStore, Crash
<1> QED BY <1>1, <1>2, <1>3, <1>4, <1>5 DEF Step

\* A lock that was moved aside stays on record.
LEMMA AsideKept ==
    ASSUME TypeOK, NEW p \in Procs, Step(p) \/ Crash(p)
    PROVE  \A q \in Procs : aside[q] # NoFile => aside'[q] # NoFile
<1>1. CASE RenameStale(p)
  BY <1>1, AbsenceAssumption DEF RenameStale, TypeOK
<1>2. CASE WriteLock(p)
  BY <1>2, WrittenFits DEF WriteLock, TypeOK
<1>3. CASE ~RenameStale(p) /\ ~WriteLock(p)
  BY <1>3 DEF Step, Look, ReadLock, CheckOwner, Probe, CreateLock, LookAgain, PutBack,
         OpenStore, OpenFails, LookForSocket, ProbeSocket, RmSocket, Listen, StopListening,
         LookForEndpoint, RmEndpoint, CloseThenRelease, ReleaseThrows, Release, Unlink,
         CloseStore, Crash
<1> QED BY <1>1, <1>2, <1>3

(* The store is open only between the two ends of holding the lock and       *)
(* closing it.                                                               *)
LEMMA RolesPreserved ==
    ASSUME TypeOK, Roles, NEW p \in Procs, Step(p) \/ Crash(p)
    PROVE  Roles'
<1> USE DEF TypeOK, Goto
<1>1. \A q \in Procs \ {p} : pc'[q] = pc[q]
  BY OneMoves
<1>2. pc'[p] \in {"putBack", "putBackRename"} => aside[p] # NoFile
  BY DEF Roles, Step, Look, ReadLock, CheckOwner, Probe, RenameStale, CreateLock, LookAgain, PutBack,
         WriteLock, OpenStore, OpenFails, LookForSocket, ProbeSocket, RmSocket, Listen,
         StopListening, LookForEndpoint, RmEndpoint, CloseThenRelease, ReleaseThrows, Release,
         Unlink, CloseStore, Crash
<1>3. writers' \subseteq writers \cup {p}
  BY DEF Step, Look, ReadLock, CheckOwner, Probe, RenameStale, CreateLock, LookAgain, PutBack,
         WriteLock, OpenStore, OpenFails, LookForSocket, ProbeSocket, RmSocket, Listen,
         StopListening, LookForEndpoint, RmEndpoint, CloseThenRelease, ReleaseThrows, Release,
         Unlink, CloseStore, Crash
<1>4. p \in writers' => pc'[p] \in Holding \cup {"closeStore"}
  <2>1. CASE pc[p] \in Holding \cup {"closeStore"}
    BY <2>1 DEF Holding, Step, Look, ReadLock, CheckOwner, Probe, RenameStale, CreateLock, LookAgain,
         PutBack, WriteLock, OpenStore, OpenFails, LookForSocket, ProbeSocket, RmSocket, Listen,
         StopListening, LookForEndpoint, RmEndpoint, CloseThenRelease, ReleaseThrows, Release,
         Unlink, CloseStore, Crash
  <2>2. CASE pc[p] \notin Holding \cup {"closeStore"}
    <3>1. p \notin writers
      BY <2>2 DEF Roles
    <3>2. writers' \subseteq writers
      BY <2>2 DEF Holding, Step, Look, ReadLock, CheckOwner, Probe, RenameStale, CreateLock,
         LookAgain, PutBack, WriteLock, OpenStore, OpenFails, LookForSocket, ProbeSocket, RmSocket,
         Listen, StopListening, LookForEndpoint, RmEndpoint, CloseThenRelease, ReleaseThrows,
         Release, Unlink, CloseStore, Crash
    <3> QED BY <3>1, <3>2
  <2> QED BY <2>1, <2>2
<1>5. \A q \in Procs : pc'[q] \in {"putBack", "putBackRename"} => aside'[q] # NoFile
  BY <1>1, <1>2, AsideKept DEF Roles
<1>6. \A q \in writers' : pc'[q] \in Holding \cup {"closeStore"}
  BY <1>1, <1>3, <1>4 DEF Roles
<1> QED BY <1>5, <1>6 DEF Roles

(* A lock file is a file.                                                    *)
LEMMA LocksExist ==
    ASSUME NEW p \in Procs
    PROVE  /\ [owner |-> p, written |-> FALSE] # NoFile
           /\ [owner |-> p, written |-> TRUE] # NoFile
<1>1. /\ [owner |-> p, written |-> FALSE] \in Locks
      /\ [owner |-> p, written |-> TRUE] \in Locks
  BY DEF Locks
<1> QED BY <1>1, AbsenceAssumption

(* Only the two renames displace a lock, and who is displaced stays so.      *)
LEMMA DisplacedStays ==
    ASSUME NEW p \in Procs, Step(p) \/ Crash(p)
    PROVE  /\ displaced \subseteq displaced'
           /\ displaced' = displaced \/ RenameStale(p) \/ PutBack(p)
<1>1. CASE RenameStale(p) \/ PutBack(p)
  BY <1>1 DEF RenameStale, PutBack, Displaces
<1>2. CASE ~RenameStale(p) /\ ~PutBack(p)
  BY <1>2 DEF Step, Look, ReadLock, CheckOwner, Probe, CreateLock, LookAgain,
         WriteLock, OpenStore, OpenFails, LookForSocket, ProbeSocket, RmSocket, Listen,
         StopListening, LookForEndpoint, RmEndpoint, CloseThenRelease, ReleaseThrows, Release,
         Unlink, CloseStore, Crash
<1> QED BY <1>1, <1>2

LEMMA MovedPreserved ==
    ASSUME TypeOK, Roles, MovedFirst, NEW p \in Procs, Step(p) \/ Crash(p)
    PROVE  MovedFirst'
<1> SUFFICES ASSUME displaced' # {} PROVE \E q \in Procs : aside'[q] # NoFile
  BY DEF MovedFirst
<1>1. CASE displaced' = displaced
  BY <1>1, AsideKept DEF MovedFirst
<1>2. CASE PutBack(p)
  BY <1>2, AsideKept DEF Roles, PutBack
<1>3. CASE RenameStale(p) /\ lock = NoFile
  <2>1. displaced' = displaced
    BY <1>3 DEF RenameStale, Displaces
  <2> QED BY <1>1, <2>1
<1>4. CASE RenameStale(p) /\ lock # NoFile
  BY <1>4 DEF RenameStale, TypeOK
<1> QED BY <1>1, <1>2, <1>3, <1>4, DisplacedStays

(* The lock file and the endpoint of whoever holds the lock stay in place.   *)
LEMMA LockPreserved ==
    ASSUME TypeOK, Roles, LockHeld, NEW p \in Procs, Step(p) \/ Crash(p)
    PROVE  LockHeld'
<1> SUFFICES ASSUME displaced' = {}
             PROVE  \A q \in Procs :
                      /\ pc'[q] = "write" => lock' = [owner |-> q, written |-> FALSE]
                      /\ pc'[q] \in Holding => lock' = [owner |-> q, written |-> TRUE]
                      /\ pc'[q] = "serving" => socket' = q
  BY DEF LockHeld
<1> USE DEF TypeOK, Goto
<1>1. \A q \in Procs \ {p} : pc'[q] = pc[q]
  BY OneMoves
<1>2. \A q \in Procs :
        /\ pc[q] = "write" => lock = [owner |-> q, written |-> FALSE]
        /\ pc[q] \in Holding => lock = [owner |-> q, written |-> TRUE]
        /\ pc[q] = "serving" => socket = q
  BY DisplacedStays DEF LockHeld
<1>3. \A q \in Procs : pc[q] \in Holding \cup {"write"} => lock # NoFile /\ lock.owner = q
  <2>1. \A q \in Procs : /\ [owner |-> q, written |-> FALSE] # NoFile
                         /\ [owner |-> q, written |-> TRUE] # NoFile
    BY LocksExist
  <2> QED BY <1>2, <2>1
<1>4. Displaces(lock) => \A q \in Procs : pc[q] \notin Holding \cup {"write"}
  <2>1. Displaces(lock) /\ lock # NoFile => ~processIsAlive(lock.owner)
    BY DEF Displaces
  <2> QED BY <1>3, <2>1 DEF processIsAlive, Holding
<1>5. CASE RenameStale(p)
  <2>1. Displaces(lock) /\ pc'[p] \in {"gone", "create"}
    BY <1>5 DEF RenameStale
  <2> QED BY <1>1, <1>4, <2>1 DEF Holding
<1>6. CASE PutBack(p)
  <2>1. Displaces(lock) /\ pc'[p] = "gone"
    BY <1>6 DEF PutBack
  <2> QED BY <1>1, <1>4, <2>1 DEF Holding
<1>7. CASE CreateLock(p)
  <2>1. CASE lock = NoFile
    BY <1>1, <1>3, <1>7, <2>1 DEF CreateLock, Holding
  <2>2. CASE lock # NoFile
    BY <1>1, <1>2, <1>7, <2>2 DEF CreateLock, Holding
  <2> QED BY <2>1, <2>2
<1>8. CASE WriteLock(p)
  <2>1. lock = [owner |-> p, written |-> FALSE] /\ lock # NoFile
    BY <1>2, <1>3, <1>8 DEF WriteLock
  <2>2. lock' = [owner |-> p, written |-> TRUE]
    BY <1>8, <2>1 DEF WriteLock, Written
  <2>3. \A q \in Procs \ {p} : pc[q] \notin Holding \cup {"write"}
    BY <1>3, <2>1
  <2> QED BY <1>1, <1>8, <2>2, <2>3 DEF WriteLock, Holding
<1>9. CASE Unlink(p)
  <2>1. \A q \in Procs \ {p} : pc[q] \notin Holding \cup {"write"}
    BY <1>3, <1>9 DEF Unlink, Holding
  <2> QED BY <1>1, <1>9, <2>1 DEF Unlink, Holding
<1>10. CASE RmSocket(p) \/ Listen(p) \/ StopListening(p) \/ RmEndpoint(p)
  <2>1. /\ pc[p] \in Holding /\ lock' = lock /\ pc'[p] # "write"
        /\ pc'[p] = "serving" => socket' = p
    BY <1>10 DEF RmSocket, Listen, StopListening, RmEndpoint, Holding
  <2>2. \A q \in Procs \ {p} : pc[q] \notin Holding \cup {"write"}
    BY <1>3, <2>1
  <2>3. "serving" \in Holding
    BY DEF Holding
  <2> QED BY <1>1, <1>2, <2>1, <2>2, <2>3
<1>11. CASE ~RenameStale(p) /\ ~CreateLock(p) /\ ~PutBack(p) /\ ~WriteLock(p) /\ ~Unlink(p)
            /\ ~RmSocket(p) /\ ~Listen(p) /\ ~StopListening(p) /\ ~RmEndpoint(p)
  <2>1. /\ lock' = lock /\ socket' = socket /\ pc'[p] \notin {"serving", "write"}
        /\ pc'[p] \in Holding => pc[p] \in Holding
    BY <1>11 DEF Step, Look, ReadLock, CheckOwner, Probe, LookAgain, OpenStore, OpenFails,
         LookForSocket, ProbeSocket, LookForEndpoint, CloseThenRelease, ReleaseThrows, Release,
         CloseStore, Crash, Holding
  <2> QED BY <1>1, <1>2, <2>1
<1> QED BY <1>5, <1>6, <1>7, <1>8, <1>9, <1>10, <1>11

LEMMA InvNext == Inv /\ [Next]_vars => Inv'
<1> SUFFICES ASSUME Inv, [Next]_vars PROVE Inv'
  OBVIOUS
<1>1. ASSUME NEW p \in Procs, Step(p) \/ Crash(p) PROVE Inv'
  BY <1>1, TypePreserved, RolesPreserved, LockPreserved, MovedPreserved DEF Inv
<1>2. CASE UNCHANGED vars
  BY <1>2 DEF vars, Inv, TypeOK, Roles, LockHeld, MovedFirst
<1> QED BY <1>1, <1>2 DEF Next

(* The lock and the endpoint in every order of starts, ends and deaths.      *)
THEOREM InstanceInvariant == Spec => []Inv
<1> QED BY InvInit, InvNext, PTL DEF Spec

(* For any number of processes: as long as no rename has taken a live        *)
(* process's file from the lock path, one process holds the lock, and of two *)
(* that have the store open one only has it to close                         *)
(* (acquireSingleInstanceLock, main's shutdown in vocationd.ts).             *)
THEOREM InstanceAlwaysExclusive == Spec => []InstanceExclusive
<1>1. ASSUME Inv PROVE InstanceExclusive
  <2>1. ASSUME displaced = {}, NEW p \in Procs, NEW q \in Procs, pc[p] \in Holding, pc[q] \in Holding
        PROVE  p = q
    <3>1. /\ lock = [owner |-> p, written |-> TRUE]
          /\ lock = [owner |-> q, written |-> TRUE]
      BY <1>1, <2>1 DEF Inv, LockHeld
    <3> QED BY <3>1
  <2>2. displaced = {} => LockExclusive
    BY <2>1 DEF LockExclusive
  <2>3. displaced = {} => OverlapOnlyClosing
    BY <1>1, <2>1 DEF Inv, Roles, TypeOK, OverlapOnlyClosing
  <2> QED BY <1>1, <2>2, <2>3 DEF Inv, InstanceExclusive
<1> QED BY <1>1, InstanceInvariant, PTL

(* A serving daemon is found where clients look for it, under its own lock,  *)
(* for any number of processes: no starter, and no daemon that is stopping,  *)
(* removes its socket (startDaemonServer and its close).                     *)
THEOREM ServingAlwaysReachable == Spec => []ServingIsReachable
<1>1. Inv => ServingIsReachable
  BY DEF Inv, LockHeld, ServingIsReachable, Holding, Procs
<1> QED BY <1>1, InstanceInvariant, PTL

(* Exclusion can be lost only through the recovery of a stale lock: as long  *)
(* as no lock file has been moved aside, every order of starts, ends and     *)
(* deaths leaves one holder (acquireSingleInstanceLock).                     *)
THEOREM ExclusiveUntilRecovery ==
    Spec => []((\A p \in Procs : aside[p] = NoFile) => LockExclusive /\ OverlapOnlyClosing)
<1>1. Inv => ((\A p \in Procs : aside[p] = NoFile) => displaced = {})
  BY DEF Inv, MovedFirst
<1>2. InstanceExclusive => (displaced = {} => LockExclusive /\ OverlapOnlyClosing)
  BY DEF InstanceExclusive
<1> QED BY <1>1, <1>2, InstanceInvariant, InstanceAlwaysExclusive, PTL

-----------------------------------------------------------------------------
\* The onboarding session.

\* Where a client works on a session it has read.
Working == {"resume", "reload", "put", "import", "complete", "recover"}

IsClient(r) ==
    r = [pc |-> r.pc, mode |-> r.mode, file |-> r.file, mine |-> r.mine, retries |-> r.retries]

ClientFits(r) ==
    /\ IsClient(r)
    /\ r.pc = "idle" \/ r.mode \in {"demo", "profile", "resume"}
    /\ r.pc = "start" => r.mode \in {"demo", "profile"}
    /\ r.pc \in Working => session # NoSession

ClientsFit ==
    /\ init = [c \in InitClients |-> init[c]]
    /\ \A c \in InitClients : ClientFits(init[c])

\* The session loads, is at its end only when it is complete, and its plan is
\* one in the history, and applied, by the time the steps say so.
SessionFits ==
    session # NoSession =>
        /\ session \in Sessions /\ Loads(session)
        /\ session.step = "complete" => session.status = "complete"
        /\ session.mode = "profile" =>
             /\ Position(session.step) > Position("profile-import") => session.plan \in plans
             /\ Position(session.step) > Position("claim-review") => session.plan \in profiles

\* One file is imported under the session's ids.
PlansImported == plans \subseteq Parsable /\ \A p \in plans : p = imported

\* The inductive invariant of onboarding.
ObInv == ClientsFit /\ SessionFits /\ PlansImported /\ now \in Nat

\* Every step has one position, and the next step is at the next one.
LEMMA StepsInOrder ==
    /\ \A i \in 1 .. 9 : StepOrder[i] \in ObSteps /\ Position(StepOrder[i]) = i
    /\ \A step \in ObSteps : \E i \in 1 .. 9 : step = StepOrder[i]
    /\ StepOrder[1] = "runtime" /\ StepOrder[3] = "profile-import" /\ StepOrder[4] = "claim-review"
    /\ StepOrder[9] = "complete"
<1>1. DOMAIN StepOrder = 1 .. 9
  BY DEF StepOrder
<1>2. /\ StepOrder[1] = "runtime" /\ StepOrder[2] = "privacy" /\ StepOrder[3] = "profile-import"
      /\ StepOrder[4] = "claim-review" /\ StepOrder[5] = "career-goals"
      /\ StepOrder[6] = "source-packs" /\ StepOrder[7] = "model-egress"
      /\ StepOrder[8] = "first-discovery" /\ StepOrder[9] = "complete"
  BY DEF StepOrder
<1>3. \A i, j \in 1 .. 9 : StepOrder[i] = StepOrder[j] => i = j
  BY <1>2
<1>4. ASSUME NEW i \in 1 .. 9 PROVE StepOrder[i] \in ObSteps /\ Position(StepOrder[i]) = i
  <2>1. (CHOOSE j \in DOMAIN StepOrder : StepOrder[j] = StepOrder[i]) = i
    BY <1>1, <1>3
  <2> QED
    BY <1>1, <2>1 DEF ObSteps, Position
<1> QED
  BY <1>1, <1>2, <1>4 DEF ObSteps

LEMMA Following ==
    ASSUME NEW step \in ObSteps, step # "complete"
    PROVE  /\ NextStep(step) \in ObSteps /\ Position(NextStep(step)) = Position(step) + 1
           /\ Position(step) \in 1 .. 8
<1>1. PICK i \in 1 .. 9 : step = StepOrder[i]
  BY StepsInOrder
<1>2. i # 9 /\ Position(step) = i
  BY <1>1, StepsInOrder
<1>3. i + 1 \in 1 .. 9 /\ i \in 1 .. 8
  BY <1>2
<1>4. NextStep(step) = StepOrder[i + 1]
  BY <1>2 DEF NextStep
<1> QED
  BY <1>2, <1>3, <1>4, StepsInOrder

LEMMA StepPositions ==
    /\ Position("runtime") = 1 /\ Position("profile-import") = 3 /\ Position("claim-review") = 4
    /\ Position("complete") = 9
    /\ \A step \in ObSteps : /\ Position(step) \in 1 .. 9
                             /\ Position(step) = 3 => step = "profile-import"
                             /\ Position(step) = 4 => step = "claim-review"
                             /\ Position(step) = 9 => step = "complete"
    /\ {"runtime", "profile-import", "claim-review", "complete"} \subseteq ObSteps
BY StepsInOrder

\* Every nonempty set of naturals has a least element.
LEMMA LeastElement ==
    ASSUME NEW T, T \subseteq Nat, T # {}
    PROVE  \E m \in T : \A k \in T : m <= k
<1> DEFINE R == {x \in Nat \X Nat : x[1] < x[2]}
<1>1. OpToRel(<, Nat) = R
  BY DEF OpToRel
<1>2. IsWellFoundedOn(R, Nat)
  BY <1>1, NatLessThanWellFounded, Zenon
<1>3. \A x, y \in Nat : <<x, y>> \in R <=> x < y
  OBVIOUS
<1> HIDE DEF R
<1>4. PICK m \in T : \A k \in T : ~(<<k, m>> \in R)
  BY <1>2, WFMin
<1>5. \A k \in T : ~(k < m)
  BY <1>3, <1>4
<1>6. \A k \in T : k \in Nat /\ m \in Nat
  OBVIOUS
<1> QED
  BY <1>5, <1>6

\* What an event appended to a session changes in what the events say.
Extends(s, t, e, n) ==
    /\ Len(t.events) = n + 1 /\ DOMAIN t.events = 1 .. (n + 1) /\ t.events[n + 1] = e
    /\ DOMAIN s.events = 1 .. n /\ n \in Nat
    /\ \A i \in 1 .. n : t.events[i] = s.events[i]
    /\ \A i \in 1 .. (n + 1) : Before(t, i) = Before(s, i)
    /\ \A i \in 1 .. n : Follows(s, i) => Follows(t, i)
    /\ Before(t, n + 2) = [status |-> StatusAfter(e), step |-> StepAfter(e), at |-> e.at]

LEMMA AppendedProjects ==
    ASSUME NEW s, NEW t, NEW e \in ObEvents, s.events \in Seq(ObEvents),
           t.events = Append(s.events, e), t.created = s.created, t.mode = s.mode,
           NEW n, n = Len(s.events)
    PROVE  Extends(s, t, e, n)
<1>1. /\ n \in Nat /\ Len(t.events) = n + 1 /\ DOMAIN t.events = 1 .. (n + 1)
      /\ t.events[n + 1] = e /\ DOMAIN s.events = 1 .. n
      /\ \A i \in 1 .. n : t.events[i] = s.events[i]
  OBVIOUS
<1>2. ASSUME NEW i \in 1 .. (n + 1) PROVE Before(t, i) = Before(s, i)
  <2>1. i # 1 => i - 1 \in 1 .. n
    BY <1>1
  <2> QED
    BY <1>1, <2>1 DEF Before
<1>3. ASSUME NEW i \in 1 .. n, Follows(s, i) PROVE Follows(t, i)
  <2>1. /\ t.events[i] = s.events[i] /\ Before(t, i) = Before(s, i)
        /\ \A j \in 1 .. i - 1 : t.events[j] = s.events[j]
    BY <1>1, <1>2
  <2> QED
    BY <1>3, <2>1 DEF Follows
<1>4. Before(t, n + 2) = [status |-> StatusAfter(e), step |-> StepAfter(e), at |-> e.at]
  <2>1. n + 2 # 1 /\ (n + 2) - 1 = n + 1
    BY <1>1
  <2> QED
    BY <1>1, <2>1 DEF Before
<1> QED
  BY <1>1, <1>2, <1>3, <1>4 DEF Extends

LEMMA AppendedPlan ==
    ASSUME NEW s, NEW t, NEW e \in ObEvents, s.events \in Seq(ObEvents),
           t.events = Append(s.events, e)
    PROVE  PlanOf(t) = IF e.kind = "step-completed" /\ e.step = "profile-import"
                       THEN e.plan ELSE PlanOf(s)
<1> DEFINE n == Len(s.events)
<1>1. /\ n \in Nat /\ DOMAIN t.events = 1 .. (n + 1) /\ t.events[n + 1] = e /\ DOMAIN s.events = 1 .. n
      /\ \A i \in 1 .. n : t.events[i] = s.events[i]
  OBVIOUS
<1>2. CASE e.kind = "step-completed" /\ e.step = "profile-import"
  <2>1. n + 1 \in ProfileImports(t) /\ ProfileImports(t) \subseteq 1 .. (n + 1)
    BY <1>1, <1>2 DEF ProfileImports
  <2>2. (CHOOSE i \in ProfileImports(t) : \A j \in ProfileImports(t) : j <= i) = n + 1
    <3>1. \A j \in ProfileImports(t) : j <= n + 1
      BY <1>1, <2>1
    <3>2. ASSUME NEW i \in ProfileImports(t), \A j \in ProfileImports(t) : j <= i PROVE i = n + 1
      BY <1>1, <2>1, <3>2
    <3> QED
      BY <2>1, <3>1, <3>2
  <2> QED
    BY <1>1, <1>2, <2>1, <2>2 DEF PlanOf
<1>3. CASE ~(e.kind = "step-completed" /\ e.step = "profile-import")
  <2>1. ProfileImports(t) = ProfileImports(s)
    BY <1>1, <1>3 DEF ProfileImports
  <2>2. ASSUME ProfileImports(s) # {} PROVE PlanOf(t) = PlanOf(s)
    <3>1. PICK P : P = ProfileImports(s)
      OBVIOUS
    <3>2. P # {} /\ P \subseteq 1 .. n
      BY <1>1, <2>2, <3>1 DEF ProfileImports
    <3>3. \E i \in P : \A j \in P : j <= i
      <4> DEFINE Q == {n - j : j \in P}
      <4>0. \A j \in P : n - j \in Nat
        BY <1>1, <3>2
      <4>1. Q # {} /\ Q \subseteq Nat
        <5>1. PICK p \in P : TRUE
          BY <3>2
        <5>2. n - p \in Q
          BY <5>1
        <5> QED
          BY <4>0, <5>2
      <4>2. PICK q \in Q : \A r \in Q : q <= r
        BY <4>1, LeastElement
      <4>3. PICK i \in P : q = n - i
        BY <4>2
      <4>4. ASSUME NEW j \in P PROVE j <= i
        <5>1. n - i <= n - j
          BY <4>2, <4>3
        <5> QED
          BY <1>1, <3>2, <5>1
      <4> QED
        BY <4>4
    <3>4. PICK k : k = CHOOSE i \in P : \A j \in P : j <= i
      OBVIOUS
    <3>5. k \in P
      BY <3>3, <3>4
    <3>6. t.events[k] = s.events[k]
      BY <1>1, <3>2, <3>5
    <3> QED
      BY <2>1, <2>2, <3>1, <3>4, <3>6 DEF PlanOf
  <2>3. CASE ProfileImports(s) = {}
    BY <1>3, <2>1, <2>3 DEF PlanOf
  <2> QED
    BY <1>3, <2>2, <2>3
<1> QED
  BY <1>2, <1>3

\* An accepted event leaves a session that loads.
LEMMA AppendedLoads ==
    ASSUME NEW s \in Sessions, Loads(s), NEW e \in ObEvents, NEW expected, Accepts(s, e, expected),
           \A i \in DOMAIN s.events : s.events[i].id # e.id
    PROVE  Loads(Appended(s, e))
<1>1. PICK t : t = Appended(s, e)
  OBVIOUS
<1>2. /\ t.events = Append(s.events, e) /\ t.created = s.created /\ t.mode = s.mode
      /\ t.version = s.version + 1 /\ t.status = StatusAfter(e) /\ t.step = StepAfter(e)
      /\ t.at = e.at
      /\ t.plan = IF e.kind = "step-completed" /\ e.step = "profile-import" THEN e.plan ELSE s.plan
  BY <1>1 DEF Appended, Sessions
<1>3. s.events \in Seq(ObEvents)
  BY DEF Sessions
<1>4. PICK n : n = Len(s.events)
  OBVIOUS
<1>5. /\ Len(t.events) = n + 1 /\ DOMAIN t.events = 1 .. (n + 1) /\ t.events[n + 1] = e
      /\ DOMAIN s.events = 1 .. n /\ n \in Nat
      /\ \A i \in 1 .. n : t.events[i] = s.events[i]
      /\ Before(t, n + 1) = Before(s, n + 1)
      /\ \A i \in 1 .. n : Follows(s, i) => Follows(t, i)
      /\ Before(t, n + 2) = [status |-> StatusAfter(e), step |-> StepAfter(e), at |-> e.at]
  <2>1. n \in Nat
    BY <1>3, <1>4
  <2>2. n + 1 \in 1 .. (n + 1)
    BY <2>1
  <2>3. Extends(s, t, e, n)
    BY <1>2, <1>3, <1>4, AppendedProjects
  <2> QED
    BY <2>2, <2>3 DEF Extends
<1>6. /\ \A i \in 1 .. n : Follows(s, i)
      /\ s.version = n /\ s.plan = PlanOf(s) /\ s.status = Before(s, n + 1).status
      /\ s.step = Before(s, n + 1).step /\ s.at = Before(s, n + 1).at
  BY <1>4, <1>5 DEF Loads
<1>7. Follows(t, n + 1)
  <2>1. PICK b : b = Before(t, n + 1)
    OBVIOUS
  <2>2. s.status = b.status /\ s.step = b.step /\ s.at = b.at
    BY <1>5, <1>6, <2>1
  <2>3. e.at >= b.at /\ e.step = b.step
    BY <2>2 DEF Accepts
  <2>4. \A j \in 1 .. n : t.events[j].id # e.id
    BY <1>5
  <2>5. (n + 1) - 1 = n
    BY <1>5
  <2>6. e.kind = "step-completed" => PlanBound(t.mode, e.step, e.plan)
    BY <1>2 DEF Accepts
  <2>7. StatusAllowed(b.status, StatusAfter(e))
    BY <2>2 DEF Accepts
  <2>8. (e.kind = "resumed") <=> (b.status # "active")
    BY <2>2 DEF Accepts
  <2> QED
    BY <1>5, <2>1, <2>3, <2>4, <2>5, <2>6, <2>7, <2>8 DEF Follows
<1>8. \A i \in DOMAIN t.events : Follows(t, i)
  <2>1. \A i \in 1 .. (n + 1) : i \in 1 .. n \/ i = n + 1
    BY <1>5
  <2> QED
    BY <1>5, <1>6, <1>7, <2>1
<1>9. t.plan = PlanOf(t)
  BY <1>2, <1>3, <1>6, AppendedPlan
<1>10. t.version = Len(t.events) /\ Len(t.events) + 1 = n + 2
  BY <1>2, <1>5, <1>6
<1> QED
  BY <1>1, <1>2, <1>5, <1>8, <1>9, <1>10 DEF Loads

\* An event some request brings.
IsRequest(e) ==
    /\ e = [kind |-> e.kind, step |-> e.step, at |-> now, plan |-> e.plan, id |-> e.id]
    /\ e.kind \in {"step-completed", "resumed", "failed", "cancelled"}
    /\ e.kind # "step-completed" => e.plan = NoPlan

\* Every handler that changes the session keeps what is claimed of it.
LEMMA RequestKeeps ==
    ASSUME ObInv, session # NoSession, NEW e, NEW expected, Request(e, expected), IsRequest(e),
           NEW by \in {"init", "sdk", "resume", "failed", "cancelled"},
           e.id = [by |-> by, step |-> e.step, expected |-> expected],
           UNCHANGED <<plans, profiles>>
    PROVE  SessionFits' /\ session' # NoSession
<1>1. CASE UNCHANGED session
  BY <1>1 DEF ObInv, SessionFits
<1>2. ASSUME \A i \in DOMAIN session.events : session.events[i].id # e.id,
             e.kind = "step-completed" => Prerequisites(session, e.step, e.plan),
             Accepts(session, e, expected), session' = Appended(session, e)
      PROVE  SessionFits' /\ session' # NoSession
  <2>1. PICK s \in Sessions : s = session
    BY DEF ObInv, SessionFits
  <2>2. PICK t : t = Appended(s, e)
    OBVIOUS
  <2>3. /\ Loads(s)
        /\ s.step = "complete" => s.status = "complete"
        /\ s.mode = "profile" =>
             /\ Position(s.step) > Position("profile-import") => s.plan \in plans
             /\ Position(s.step) > Position("claim-review") => s.plan \in profiles
    BY <2>1 DEF ObInv, SessionFits
  <2>4. /\ s.status # "complete" /\ s.version = expected /\ s.step = e.step
        /\ StatusAllowed(s.status, StatusAfter(e))
        /\ e.kind = "step-completed" => PlanBound(s.mode, e.step, e.plan)
    <3>1. Accepts(s, e, expected)
      BY <1>2, <2>1
    <3>2. s.status # "complete" /\ s.version = expected /\ s.step = e.step
      BY <3>1 DEF Accepts
    <3>3. StatusAllowed(s.status, StatusAfter(e))
      BY <3>1 DEF Accepts
    <3>4. e.kind = "step-completed" => PlanBound(s.mode, e.step, e.plan)
      BY <3>1 DEF Accepts
    <3> QED
      BY <3>2, <3>3, <3>4
  <2>5. s.step # "complete" /\ s.step \in ObSteps
    BY <2>3, <2>4 DEF Sessions
  <2>6. e.kind = "step-completed" =>
          /\ e.step = "profile-import" /\ s.mode = "profile" => e.plan \in plans
          /\ ~(e.step = "profile-import" /\ s.mode = "profile") => e.plan = NoPlan
    <3>1. e.kind = "step-completed" /\ e.step = "profile-import" /\ s.mode = "profile" => e.plan \in plans
      BY <1>2, <2>1 DEF Prerequisites
    <3>2. e.kind = "step-completed" /\ ~(e.step = "profile-import" /\ s.mode = "profile") => e.plan = NoPlan
      BY <2>4 DEF PlanBound
    <3> QED
      BY <3>1, <3>2
  <2>7. e.plan \in Files \cup {NoPlan}
    BY <2>6, OnboardingAssumption DEF ObInv, PlansImported, IsRequest
  <2>8. e \in ObEvents
    <3>1. e.step \in ObSteps /\ expected \in Nat /\ now \in Nat
      BY <2>4, <2>5 DEF Sessions, ObInv
    <3>2. e.id \in [by : {"init", "sdk", "resume", "failed", "cancelled"}, step : ObSteps, expected : Nat]
      BY <3>1
    <3> QED
      BY <2>7, <3>1, <3>2 DEF ObEvents, IsRequest
  <2>9. StatusAfter(e) \in {"active", "failed", "cancelled", "complete"}
    BY DEF StatusAfter, IsRequest
  <2>10. /\ NextStep(s.step) \in ObSteps /\ Position(NextStep(s.step)) = Position(s.step) + 1
         /\ Position(s.step) \in 1 .. 8
    BY <2>5, Following
  <2>11. StepAfter(e) = (IF e.kind = "step-completed" THEN NextStep(s.step) ELSE s.step)
    BY <2>4 DEF StepAfter
  <2>12. /\ t.mode = s.mode /\ t.version = s.version + 1 /\ t.status = StatusAfter(e)
         /\ t.step = StepAfter(e) /\ t.created = s.created /\ t.at = e.at
         /\ t.events = Append(s.events, e)
         /\ t.plan = IF e.kind = "step-completed" /\ e.step = "profile-import" THEN e.plan ELSE s.plan
    BY <2>2 DEF Appended, Sessions
  <2>13. t \in Sessions
    <3>1. /\ s.version + 1 \in Nat /\ StepAfter(e) \in ObSteps /\ e.at \in Nat
          /\ Append(s.events, e) \in Seq(ObEvents) /\ s.plan \in Files \cup {NoPlan}
          /\ s.mode \in {"demo", "profile"} /\ s.created \in Nat
      BY <2>5, <2>8, <2>10, <2>11 DEF Sessions, ObEvents
    <3>2. t = [mode |-> t.mode, version |-> t.version, status |-> t.status, step |-> t.step,
               plan |-> t.plan, created |-> t.created, at |-> t.at, events |-> t.events]
      BY <2>2 DEF Appended, Sessions
    <3>3. t.plan \in Files \cup {NoPlan}
      BY <2>7, <2>12, <3>1
    <3> QED
      BY <2>9, <2>12, <3>1, <3>2, <3>3 DEF Sessions
  <2>14. Loads(t)
    <3>1. Accepts(s, e, expected) /\ \A i \in DOMAIN s.events : s.events[i].id # e.id
      BY <1>2, <2>1
    <3> QED
      BY <2>2, <2>3, <2>8, <3>1, AppendedLoads
  <2>15. t.step = "complete" => t.status = "complete"
    <3>1. e.kind = "step-completed" \/ t.step # "complete"
      BY <2>5, <2>11, <2>12
    <3>2. e.kind = "step-completed" /\ t.step = "complete" => t.status = "complete"
      BY <2>4, <2>11, <2>12 DEF StatusAfter
    <3> QED
      BY <3>1, <3>2
  <2>16. s.mode = "profile" =>
           /\ Position(t.step) > Position("profile-import") => t.plan \in plans
           /\ Position(t.step) > Position("claim-review") => t.plan \in profiles
    <3> SUFFICES ASSUME s.mode = "profile"
                 PROVE  /\ Position(t.step) > 3 => t.plan \in plans
                        /\ Position(t.step) > 4 => t.plan \in profiles
      BY StepPositions
    <3>1. /\ Position(s.step) > 3 => s.plan \in plans
          /\ Position(s.step) > 4 => s.plan \in profiles
      BY <2>3, StepPositions
    <3>2. CASE e.kind # "step-completed"
      BY <2>11, <2>12, <3>1, <3>2
    <3>3. CASE e.kind = "step-completed"
      <4>1. Position(t.step) = Position(s.step) + 1
        BY <2>10, <2>11, <2>12, <3>3
      <4>2. CASE Position(s.step) \in 1 .. 2
        BY <4>1, <4>2
      <4>3. CASE Position(s.step) = 3
        <5>1. e.step = "profile-import"
          BY <2>4, <2>5, <4>3, StepPositions
        <5>2. t.plan \in plans
          BY <2>6, <2>12, <3>3, <5>1
        <5> QED
          BY <4>1, <4>3, <5>2
      <4>4. CASE Position(s.step) = 4
        <5>1. e.step = "claim-review"
          BY <2>4, <2>5, <4>4, StepPositions
        <5>2. s.plan \in plans /\ s.plan \in profiles
          BY <1>2, <2>1, <3>3, <5>1 DEF Prerequisites
        <5>3. t.plan = s.plan
          BY <2>12, <5>1
        <5> QED
          BY <5>2, <5>3
      <4>5. CASE Position(s.step) \in 5 .. 8
        <5>1. e.step # "profile-import"
          BY <2>4, <4>5, StepPositions
        <5>2. t.plan = s.plan
          BY <2>12, <5>1
        <5> QED
          BY <3>1, <4>1, <4>5, <5>2
      <4>6. Position(s.step) \in 1 .. 2 \/ Position(s.step) = 3 \/ Position(s.step) = 4
            \/ Position(s.step) \in 5 .. 8
        BY <2>10
      <4> QED
        BY <4>2, <4>3, <4>4, <4>5, <4>6
    <3> QED
      BY <3>2, <3>3
  <2>17. session' = t /\ t # NoSession
    BY <1>2, <2>1, <2>2, <2>13, NoSessionAssumption
  <2>18. Loads(t)'
    BY <2>14 DEF Loads, Follows, Before, PlanOf, ProfileImports
  <2> QED
    BY <2>12, <2>13, <2>14, <2>15, <2>16, <2>17 DEF SessionFits
<1> QED
  BY <1>1, <1>2 DEF Request

LEMMA ObInitInv == ObInit => ObInv
<1> SUFFICES ASSUME ObInit PROVE ObInv
  OBVIOUS
<1>1. ClientsFit
  BY DEF ObInit, ClientsFit, ClientFits, IsClient, Fresh, Working
<1>2. SessionFits /\ PlansImported /\ now \in Nat
  BY DEF ObInit, SessionFits, PlansImported
<1> QED
  BY <1>1, <1>2 DEF ObInv

\* A step of one client.
LEMMA ClientSteps ==
    ASSUME ClientsFit, session # NoSession => session' # NoSession,
           NEW c \in InitClients, NEW r, init' = [init EXCEPT ![c] = r], IsClient(r),
           r.pc = "idle" \/ r.mode \in {"demo", "profile", "resume"},
           r.pc = "start" => r.mode \in {"demo", "profile"},
           r.pc \in Working => session' # NoSession
    PROVE  ClientsFit'
<1>1. init' = [d \in InitClients |-> IF d = c THEN r ELSE init[d]]
  BY DEF ClientsFit
<1>2. \A d \in InitClients : init'[d] = IF d = c THEN r ELSE init[d]
  BY <1>1
<1>3. init' = [d \in InitClients |-> init'[d]]
  BY <1>1
<1>4. ASSUME NEW d \in InitClients PROVE ClientFits(init[d])'
  <2>1. CASE d = c
    <3>1. init'[d] = r
      BY <1>2, <2>1
    <3>2. ClientFits(r)'
      BY DEF ClientFits, IsClient
    <3> QED
      BY <3>1, <3>2 DEF ClientFits, IsClient
  <2>2. CASE d # c
    <3>1. init'[d] = init[d] /\ ClientFits(init[d])
      BY <1>2, <2>2 DEF ClientsFit
    <3> QED
      BY <3>1 DEF ClientFits, IsClient
  <2> QED
    BY <2>1, <2>2
<1> QED
  BY <1>3, <1>4 DEF ClientsFit

\* A step that leaves the clients alone.
LEMMA ClientsStay ==
    ASSUME ClientsFit, session # NoSession => session' # NoSession, UNCHANGED init
    PROVE  ClientsFit'
BY DEF ClientsFit, ClientFits, IsClient

LEMMA GoFits ==
    ASSUME ClientsFit, session # NoSession => session' # NoSession,
           NEW c \in InitClients, NEW to, Go(c, to), init[c].pc # "idle",
           to = "start" => init[c].mode \in {"demo", "profile"},
           to \in Working => session' # NoSession
    PROVE  ClientsFit'
<1>1. IsClient(init[c]) /\ init[c].mode \in {"demo", "profile", "resume"}
  BY DEF ClientsFit, ClientFits
<1>2. PICK r : r = [init[c] EXCEPT !.pc = to]
  OBVIOUS
<1>3. init' = [init EXCEPT ![c] = r]
  BY <1>2 DEF Go
<1>4. IsClient(r) /\ r.pc = to /\ r.mode = init[c].mode
  BY <1>1, <1>2 DEF IsClient
<1> QED
  BY <1>1, <1>3, <1>4, ClientSteps

LEMMA HoldsFits ==
    ASSUME ClientsFit, UNCHANGED session, session # NoSession,
           NEW c \in InitClients, NEW to, Holds(c, session, to), to # "start", init[c].pc # "idle"
    PROVE  ClientsFit'
<1>1. IsClient(init[c]) /\ init[c].mode \in {"demo", "profile", "resume"}
  BY DEF ClientsFit, ClientFits
<1>2. PICK m : m = [mode |-> session.mode, version |-> session.version, status |-> session.status,
                    step |-> session.step]
  OBVIOUS
<1>3. PICK r : r = [init[c] EXCEPT !.pc = to, !.mine = m]
  OBVIOUS
<1>4. init' = [init EXCEPT ![c] = r]
  BY <1>2, <1>3 DEF Holds, ClientsFit
<1>5. IsClient(r) /\ r.pc = to /\ r.mode = init[c].mode
  BY <1>1, <1>3 DEF IsClient
<1> QED
  BY <1>1, <1>4, <1>5, ClientSteps

\* Steps that leave the session and the plans of the past alone.
LEMMA SessionStays ==
    ASSUME ObInv, UNCHANGED session, plans \subseteq plans', profiles \subseteq profiles'
    PROVE  SessionFits'
BY DEF ObInv, SessionFits, Loads, Follows, Before, PlanOf, ProfileImports

LEMMA NextPcWorks == \A c, s : NextPc(c, s) # "start"
BY DEF NextPc

\* Steps of a client that leave the session alone.
LEMMA QuietClient ==
    ASSUME ObInv, ClientsFit', UNCHANGED <<session, plans, profiles, imported, now>>
    PROVE  ObInv'
<1>1. SessionFits'
  BY SessionStays
<1>2. PlansImported' /\ now' \in Nat
  BY DEF ObInv, PlansImported
<1> QED
  BY <1>1, <1>2 DEF ObInv

\* Steps of the others that leave session and clients alone.
LEMMA QuietOther ==
    ASSUME ObInv, UNCHANGED <<session, init>>, plans \subseteq plans', profiles \subseteq profiles',
           PlansImported', now' \in Nat
    PROVE  ObInv'
<1>1. SessionFits'
  BY SessionStays
<1>2. ClientsFit'
  BY ClientsStay DEF ObInv
<1> QED
  BY <1>1, <1>2 DEF ObInv

\* A request of a client that then goes on, one way or another.
LEMMA RequestFits ==
    ASSUME ObInv, session # NoSession, NEW e, NEW expected,
           Request(e, expected) \/ UNCHANGED session, IsRequest(e),
           NEW by \in {"init", "sdk", "resume", "failed", "cancelled"},
           e.id = [by |-> by, step |-> e.step, expected |-> expected],
           UNCHANGED <<plans, profiles, imported, now>>,
           session' # NoSession => ClientsFit'
    PROVE  ObInv'
<1>1. SessionFits' /\ session' # NoSession
  <2>1. CASE Request(e, expected)
    BY <2>1, RequestKeeps
  <2>2. CASE UNCHANGED session
    BY <2>2, SessionStays
  <2> QED
    BY <2>1, <2>2
<1>2. PlansImported' /\ now' \in Nat
  BY DEF ObInv, PlansImported
<1> QED
  BY <1>1, <1>2 DEF ObInv

LEMMA RunInitKeeps == ASSUME ObInv, NEW c \in InitClients, RunInit(c) PROVE ObInv'
<1>1. PICK mode, file :
        /\ mode \in ModesOf[c]
        /\ init' = [init EXCEPT ![c] = [Fresh EXCEPT !.pc = "status", !.mode = mode, !.file = file]]
  BY DEF RunInit
<1>2. PICK r : r = [Fresh EXCEPT !.pc = "status", !.mode = mode, !.file = file]
  OBVIOUS
<1>3. mode \in {"demo", "profile", "resume"}
  BY <1>1, OnboardingAssumption
<1>4. IsClient(r) /\ r.pc = "status" /\ r.mode = mode
  BY <1>2 DEF IsClient, Fresh
<1>5. init' = [init EXCEPT ![c] = r] /\ UNCHANGED <<session, plans, profiles, imported, now>>
  BY <1>1, <1>2 DEF RunInit, records
<1>6. ClientsFit'
  BY <1>3, <1>4, <1>5, ClientSteps DEF ObInv, Working
<1> QED
  BY <1>5, <1>6, QuietClient

LEMMA ReadStatusKeeps == ASSUME ObInv, NEW c \in InitClients, ReadStatus(c) PROVE ObInv'
<1>1. /\ UNCHANGED <<session, plans, profiles, imported, now>> /\ init[c].pc = "status"
      /\ init[c].mode \in {"demo", "profile", "resume"} /\ ClientsFit
  BY DEF ReadStatus, records, ObInv, ClientsFit, ClientFits
<1>2. ClientsFit'
  <2>1. CASE session = NoSession
    <3>1. PICK to : Go(c, to) /\ to = IF init[c].mode = "resume" THEN "failed" ELSE "start"
      BY <2>1 DEF ReadStatus
    <3> QED
      BY <1>1, <3>1, GoFits DEF Working
  <2>2. CASE session # NoSession
    <3>1. CASE init[c].mode # "resume" /\ session.mode # init[c].mode
      <4>1. Go(c, "failed")
        BY <2>2, <3>1 DEF ReadStatus
      <4> QED
        BY <1>1, <4>1, GoFits DEF Working
    <3>2. CASE ~(init[c].mode # "resume" /\ session.mode # init[c].mode)
      <4>1. PICK to : Holds(c, session, to) /\ to = IF session.status \in {"failed", "cancelled"}
                                                    THEN "resume" ELSE NextPc(c, session)
        BY <2>2, <3>2 DEF ReadStatus
      <4>2. to # "start"
        BY <4>1, NextPcWorks
      <4> QED
        BY <1>1, <2>2, <4>1, <4>2, HoldsFits
    <3> QED
      BY <3>1, <3>2
  <2> QED
    BY <2>1, <2>2
<1> QED
  BY <1>1, <1>2, QuietClient

LEMMA StartSessionKeeps == ASSUME ObInv, NEW c \in InitClients, StartSession(c) PROVE ObInv'
<1>1. /\ UNCHANGED <<plans, profiles, imported, now>> /\ init[c].pc = "start"
      /\ init[c].mode \in {"demo", "profile"} /\ ClientsFit
  BY DEF StartSession, records, ObInv, ClientsFit, ClientFits
<1>2. CASE session = NoSession
  <2>1. session' = NewSession(init[c].mode) /\ Go(c, "status")
    BY <1>2 DEF StartSession
  <2>2. PICK s : s = NewSession(init[c].mode)
    OBVIOUS
  <2>3. /\ s.events = <<>> /\ s.step = "runtime" /\ s.status = "active" /\ s.version = 0
        /\ s.plan = NoPlan /\ s.created = now /\ s.at = now /\ s.mode = init[c].mode
    BY <2>2 DEF NewSession
  <2>4. s \in Sessions
    <3>1. "runtime" \in ObSteps /\ <<>> \in Seq(ObEvents) /\ now \in Nat
      BY StepPositions DEF ObInv
    <3> QED
      BY <1>1, <2>2, <3>1 DEF NewSession, Sessions
  <2>5. Loads(s)
    <3>1. Len(s.events) = 0 /\ DOMAIN s.events = {} /\ ProfileImports(s) = {}
      BY <2>3 DEF ProfileImports
    <3>2. Before(s, 1) = [status |-> "active", step |-> "runtime", at |-> s.created]
      BY DEF Before
    <3> QED
      BY <2>3, <3>1, <3>2 DEF Loads, PlanOf
  <2>6. s # NoSession
    BY <2>4, NoSessionAssumption
  <2>7. SessionFits'
    <3>1. session' = s
      BY <2>1, <2>2
    <3>2. Loads(s)'
      BY <2>5 DEF Loads, Follows, Before, PlanOf, ProfileImports
    <3>3. ~(Position(s.step) > Position("profile-import")) /\ ~(Position(s.step) > Position("claim-review"))
      BY <2>3, StepPositions
    <3> QED
      BY <2>3, <2>4, <2>5, <3>1, <3>3 DEF SessionFits
  <2>8. ClientsFit'
    BY <1>1, <2>1, <2>2, <2>6, GoFits DEF Working
  <2>9. PlansImported' /\ now' \in Nat
    BY <1>1 DEF ObInv, PlansImported
  <2> QED
    BY <2>7, <2>8, <2>9 DEF ObInv
<1>3. CASE session # NoSession
  <2>1. PICK to \in {"status", "failed"} : Go(c, to)
    BY <1>3 DEF StartSession
  <2>2. UNCHANGED session
    BY <1>3 DEF StartSession
  <2>3. ClientsFit'
    BY <1>1, <2>1, <2>2, GoFits DEF Working
  <2> QED
    BY <1>1, <2>2, <2>3, QuietClient
<1> QED
  BY <1>2, <1>3

\* A client at work holds a session.
LEMMA AtWork ==
    ASSUME ObInv, NEW c \in InitClients, init[c].pc \in Working
    PROVE  session # NoSession /\ ClientsFit /\ init[c].pc # "idle" /\ IsClient(init[c])
           /\ init[c].mode \in {"demo", "profile", "resume"}
BY DEF ObInv, ClientsFit, ClientFits, Working

LEMMA ResumeSessionKeeps == ASSUME ObInv, NEW c \in InitClients, ResumeSession(c) PROVE ObInv'
<1>1. session # NoSession /\ ClientsFit /\ init[c].pc # "idle"
  <2>1. init[c].pc \in Working
    BY DEF ResumeSession, Working
  <2> QED
    BY <2>1, AtWork
<1>2. PICK m : m = init[c].mine
  OBVIOUS
<1>3. PICK e : e = [kind |-> "resumed", step |-> m.step, at |-> now, plan |-> NoPlan,
                    id |-> RequestId("resume", m)]
  OBVIOUS
<1>4. IsRequest(e) /\ e.id = [by |-> "resume", step |-> e.step, expected |-> m.version]
  BY <1>3 DEF IsRequest, RequestId
<1>5. PICK to \in {"reload", "failed"} : Go(c, to) /\ (Request(e, m.version) \/ UNCHANGED session)
  BY <1>2, <1>3 DEF ResumeSession
<1>6. session' # NoSession => ClientsFit'
  BY <1>1, <1>5, GoFits
<1>7. UNCHANGED <<plans, profiles, imported, now>>
  BY DEF ResumeSession, records
<1> QED
  BY <1>1, <1>4, <1>5, <1>6, <1>7, RequestFits

LEMMA ReloadKeeps == ASSUME ObInv, NEW c \in InitClients, Reload(c) PROVE ObInv'
<1>1. session # NoSession /\ ClientsFit /\ init[c].pc # "idle"
  <2>1. init[c].pc \in Working
    BY DEF Reload, Working
  <2> QED
    BY <2>1, AtWork
<1>2. UNCHANGED <<session, plans, profiles, imported, now>>
  BY DEF Reload, records
<1>3. Go(c, "failed") \/ Holds(c, session, NextPc(c, session))
  BY DEF Reload
<1>4. ClientsFit'
  <2>1. CASE Go(c, "failed")
    BY <1>1, <1>2, <2>1, GoFits DEF Working
  <2>2. CASE Holds(c, session, NextPc(c, session))
    <3>1. NextPc(c, session) # "start"
      BY NextPcWorks
    <3> QED
      BY <1>1, <1>2, <2>2, <3>1, HoldsFits
  <2> QED
    BY <1>3, <2>1, <2>2
<1> QED
  BY <1>2, <1>4, QuietClient

LEMMA PutDemoKeeps == ASSUME ObInv, NEW c \in InitClients, PutDemo(c) PROVE ObInv'
<1>1. session # NoSession /\ ClientsFit /\ init[c].pc # "idle"
  <2>1. init[c].pc \in Working
    BY DEF PutDemo, Working
  <2> QED
    BY <2>1, AtWork
<1>2. UNCHANGED <<session, plans, profiles, imported, now>> /\ Go(c, "complete")
  BY DEF PutDemo
<1>3. ClientsFit'
  BY <1>1, <1>2, GoFits
<1> QED
  BY <1>2, <1>3, QuietClient

LEMMA ImportProfileKeeps == ASSUME ObInv, NEW c \in InitClients, ImportProfile(c) PROVE ObInv'
<1>1. session # NoSession /\ ClientsFit /\ init[c].pc # "idle"
  <2>1. init[c].pc \in Working
    BY DEF ImportProfile, Working
  <2> QED
    BY <2>1, AtWork
<1>2. UNCHANGED <<session, profiles, now>>
  BY DEF ImportProfile
<1>3. PICK to \in {"complete", "failed"} : Go(c, to)
  BY DEF ImportProfile
<1>4. ClientsFit'
  BY <1>1, <1>2, <1>3, GoFits
<1>5. plans \subseteq plans' /\ PlansImported'
  <2>0. plans \subseteq Parsable /\ (\A p \in plans : p = imported) /\ NoPlan \notin Parsable
    BY OnboardingAssumption DEF ObInv, PlansImported
  <2>1. CASE imported \in {NoPlan, init[c].file} /\ init[c].file \in Parsable
    <3>1. imported' = init[c].file /\ plans' = plans \cup {init[c].file}
      BY <2>1 DEF ImportProfile
    <3>2. \A p \in plans : p = init[c].file
      BY <2>0, <2>1
    <3> QED
      BY <2>0, <2>1, <3>1, <3>2 DEF PlansImported
  <2>2. CASE imported \in {NoPlan, init[c].file} /\ init[c].file \notin Parsable
    <3>1. imported' = init[c].file /\ plans' = plans
      BY <2>2 DEF ImportProfile
    <3>2. \A p \in plans : p = init[c].file
      BY <2>0, <2>2
    <3> QED
      BY <2>0, <3>1, <3>2 DEF PlansImported
  <2>3. CASE imported \notin {NoPlan, init[c].file}
    <3>1. UNCHANGED <<plans, imported>>
      BY <2>3 DEF ImportProfile
    <3> QED
      BY <2>0, <3>1 DEF PlansImported
  <2> QED
    BY <2>1, <2>2, <2>3
<1>6. SessionFits'
  BY <1>2, <1>5, SessionStays
<1> QED
  BY <1>2, <1>4, <1>5, <1>6 DEF ObInv

LEMMA CompletionRequests ==
    ASSUME NEW c
    PROVE  /\ IsRequest(CompletionOf(c))
           /\ CompletionOf(c).id = [by |-> "init", step |-> CompletionOf(c).step,
                                    expected |-> init[c].mine.version]
BY DEF CompletionOf, IsRequest, RequestId

LEMMA CompleteStepKeeps ==
    ASSUME ObInv, NEW c \in InitClients, CompleteStep(c) \/ LoseAnswer(c) PROVE ObInv'
<1>1. session # NoSession /\ ClientsFit /\ init[c].pc # "idle" /\ IsClient(init[c])
      /\ init[c].mode \in {"demo", "profile", "resume"}
  <2>1. init[c].pc \in Working
    BY DEF CompleteStep, LoseAnswer, Working
  <2> QED
    BY <2>1, AtWork
<1>2. UNCHANGED <<plans, profiles, imported, now>>
  BY DEF CompleteStep, LoseAnswer, records
<1>3. PICK e : e = CompletionOf(c)
  OBVIOUS
<1>4. PICK v : v = init[c].mine.version
  OBVIOUS
<1>5. Request(e, v) \/ UNCHANGED session
  BY <1>3, <1>4 DEF CompleteStep, LoseAnswer
<1>6. Go(c, "recover") \/ init' = [init EXCEPT ![c].pc = "reload", ![c].retries = 0]
  BY DEF CompleteStep, LoseAnswer
<1>7. session' # NoSession => ClientsFit'
  <2>1. CASE Go(c, "recover")
    BY <1>1, <2>1, GoFits
  <2>2. CASE init' = [init EXCEPT ![c].pc = "reload", ![c].retries = 0]
    <3>1. PICK r : r = [init[c] EXCEPT !.pc = "reload", !.retries = 0]
      OBVIOUS
    <3>2. init' = [init EXCEPT ![c] = r]
      BY <1>1, <2>2, <3>1 DEF ClientsFit
    <3>3. IsClient(r) /\ r.pc = "reload" /\ r.mode = init[c].mode
      BY <1>1, <3>1 DEF IsClient
    <3> QED
      BY <1>1, <3>2, <3>3, ClientSteps
  <2> QED
    BY <1>6, <2>1, <2>2
<1> QED
  BY <1>1, <1>2, <1>3, <1>4, <1>5, <1>7, CompletionRequests, RequestFits

LEMMA RecoverKeeps == ASSUME ObInv, NEW c \in InitClients, Recover(c) PROVE ObInv'
<1>1. session # NoSession /\ ClientsFit /\ init[c].pc # "idle" /\ IsClient(init[c])
      /\ init[c].mode \in {"demo", "profile", "resume"}
  <2>1. init[c].pc \in Working
    BY DEF Recover, Working
  <2> QED
    BY <2>1, AtWork
<1>2. UNCHANGED <<session, plans, profiles, imported, now>>
  BY DEF Recover, records
<1>3. ClientsFit'
  <2>0. PICK s : s = init[c].mine
    OBVIOUS
  <2>1. CASE session.step # s.step
    <3>1. Holds(c, session, NextPc(c, session)) /\ NextPc(c, session) # "start"
      BY <2>0, <2>1, NextPcWorks DEF Recover
    <3> QED
      BY <1>1, <1>2, <3>1, HoldsFits
  <2>2. CASE session.step = s.step /\ session.version > s.version /\ init[c].retries < MaxRetries
    <3>1. PICK m : m = [s EXCEPT !.version = session.version, !.status = session.status]
      OBVIOUS
    <3>2. PICK to \in {"complete", "resume"} : to = IF session.status = "active" THEN "complete" ELSE "resume"
      OBVIOUS
    <3>3. PICK k : k = init[c].retries + 1
      OBVIOUS
    <3>4. init' = [init EXCEPT ![c].mine = m, ![c].retries = k, ![c].pc = to]
      BY <2>0, <2>2, <3>1, <3>2, <3>3 DEF Recover
    <3>5. PICK r : r = [init[c] EXCEPT !.mine = m, !.retries = k, !.pc = to]
      OBVIOUS
    <3>6. init' = [init EXCEPT ![c] = r]
      BY <1>1, <3>4, <3>5 DEF ClientsFit
    <3>7. IsClient(r) /\ r.pc = to /\ r.mode = init[c].mode
      BY <1>1, <3>5 DEF IsClient
    <3> QED
      BY <1>1, <1>2, <3>6, <3>7, ClientSteps
  <2>3. CASE session.step = s.step /\ ~(session.version > s.version /\ init[c].retries < MaxRetries)
    <3>1. Go(c, "failed")
      BY <2>0, <2>3 DEF Recover
    <3> QED
      BY <1>1, <1>2, <3>1, GoFits DEF Working
  <2> QED
    BY <2>1, <2>2, <2>3
<1> QED
  BY <1>2, <1>3, QuietClient

LEMMA InterruptKeeps ==
    ASSUME ObInv, NEW kind \in {"failed", "cancelled"}, Interrupt(kind) PROVE ObInv'
<1>1. PICK e : e = [kind |-> kind, step |-> session.step, at |-> now, plan |-> NoPlan,
                    id |-> RequestId(kind, session)]
  OBVIOUS
<1>2. /\ session # NoSession /\ Request(e, session.version)
      /\ UNCHANGED <<plans, profiles, imported, init, now>>
  BY <1>1 DEF Interrupt, records
<1>3. PICK v : v = session.version
  OBVIOUS
<1>4. IsRequest(e) /\ e.id = [by |-> kind, step |-> e.step, expected |-> v]
  BY <1>1, <1>3 DEF IsRequest, RequestId
<1>5. session' # NoSession => ClientsFit'
  BY <1>2, ClientsStay DEF ObInv
<1> QED
  BY <1>2, <1>3, <1>4, <1>5, RequestFits

LEMMA SdkCompleteKeeps == ASSUME ObInv, SdkComplete PROVE ObInv'
<1>1. PICK e : e = [kind |-> "step-completed", step |-> session.step, at |-> now, plan |-> NoPlan,
                    id |-> RequestId("sdk", session)]
  OBVIOUS
<1>2. /\ session # NoSession /\ Request(e, session.version)
      /\ UNCHANGED <<plans, profiles, imported, init, now>>
  BY <1>1 DEF SdkComplete, records
<1>3. PICK v : v = session.version
  OBVIOUS
<1>4. IsRequest(e) /\ e.id = [by |-> "sdk", step |-> e.step, expected |-> v]
  BY <1>1, <1>3 DEF IsRequest, RequestId
<1>5. session' # NoSession => ClientsFit'
  BY <1>2, ClientsStay DEF ObInv
<1> QED
  BY <1>2, <1>3, <1>4, <1>5, RequestFits

LEMMA ObNextInv == ObInv /\ [ObNext]_obVars => ObInv'
<1> SUFFICES ASSUME ObInv, [ObNext]_obVars PROVE ObInv'
  OBVIOUS
<1>1. CASE \E c \in InitClients : RunInit(c) \/ Client(c) \/ LoseAnswer(c)
  BY <1>1, RunInitKeeps, ReadStatusKeeps, StartSessionKeeps, ResumeSessionKeeps, ReloadKeeps,
     PutDemoKeeps, ImportProfileKeeps, CompleteStepKeeps, RecoverKeeps DEF Client
<1>2. CASE \E kind \in {"failed", "cancelled"} : Interrupt(kind)
  BY <1>2, InterruptKeeps
<1>3. CASE \E p \in Files : ApplyPlan(p)
  <2>1. UNCHANGED <<session, init, plans, imported, now>> /\ profiles \subseteq profiles'
    BY <1>3 DEF ApplyPlan
  <2> QED
    BY <2>1, QuietOther DEF ObInv, PlansImported
<1>4. CASE SdkComplete
  BY <1>4, SdkCompleteKeeps
<1>5. CASE PutOpportunity
  <2>1. UNCHANGED <<session, init, plans, profiles, imported, now>>
    BY <1>5 DEF PutOpportunity
  <2> QED
    BY <2>1, QuietOther DEF ObInv, PlansImported
<1>6. CASE Tick \/ SetClockBack
  <2>1. UNCHANGED <<session, init, plans, profiles, imported>> /\ now' \in Nat
    BY <1>6, OnboardingAssumption DEF Tick, SetClockBack, records, ObInv
  <2> QED
    BY <2>1, QuietOther DEF ObInv, PlansImported
<1>7. CASE UNCHANGED obVars
  <2>1. UNCHANGED <<session, init, plans, profiles, imported, now>>
    BY <1>7 DEF obVars
  <2> QED
    BY <2>1, QuietOther DEF ObInv, PlansImported
<1> QED
  BY <1>1, <1>2, <1>3, <1>4, <1>5, <1>6, <1>7 DEF ObNext

LEMMA ObInvSound == ObInv => SessionSound
<1> SUFFICES ASSUME ObInv PROVE SessionSound
  OBVIOUS
<1>1. SessionLoads
  BY DEF ObInv, SessionFits, SessionLoads
<1>2. ReviewedIsApplied
  <2> SUFFICES ASSUME session # NoSession, session.mode = "profile",
                      Position(session.step) > Position("claim-review")
               PROVE  session.plan = imported /\ session.plan \in plans \cap profiles
    BY DEF ReviewedIsApplied
  <2>1. session.plan \in profiles /\ session.step \in ObSteps
    BY DEF ObInv, SessionFits, Sessions
  <2>2. Position(session.step) > Position("profile-import")
    BY <2>1, StepPositions
  <2>3. session.plan \in plans
    BY <2>2 DEF ObInv, SessionFits
  <2> QED
    BY <2>1, <2>3 DEF ObInv, PlansImported
<1> QED
  BY <1>1, <1>2 DEF SessionSound

\* The stored onboarding session always loads, and claim review is behind it
\* only with the one imported plan, applied (onboarding.ts:388-482).
THEOREM SessionAlwaysSound == ObSpec => []SessionSound
BY ObInitInv, ObNextInv, ObInvSound, PTL DEF ObSpec

----------------------------------------------------------------------------
(* The import plan of a profile document. *)

\* The part of a line behind a position, and the part in front of it.
LEMMA Behind ==
    ASSUME NEW s \in Seq(Characters), NEW m \in 0 .. Len(s)
    PROVE  /\ SubSeq(s, m + 1, Len(s)) \in Seq(Characters)
           /\ Len(SubSeq(s, m + 1, Len(s))) = Len(s) - m
           /\ \A j \in 1 .. Len(s) - m : SubSeq(s, m + 1, Len(s))[j] = s[m + j]
<1>1. Len(s) \in Nat /\ \A i \in m + 1 .. Len(s) : s[i] \in Characters
  BY ElementOfSeq
<1>2. /\ SubSeq(s, m + 1, Len(s)) \in Seq(Characters)
      /\ Len(SubSeq(s, m + 1, Len(s))) = IF m + 1 <= Len(s) THEN Len(s) - (m + 1) + 1 ELSE 0
      /\ \A i \in 1 .. Len(s) - (m + 1) + 1 : SubSeq(s, m + 1, Len(s))[i] = s[(m + 1) + i - 1]
  BY <1>1, SubSeqProperties, m + 1 \in Int, Len(s) \in Int
<1>3. \A j \in 1 .. Len(s) - m : (m + 1) + j - 1 = m + j /\ j \in 1 .. Len(s) - (m + 1) + 1
  BY <1>1
<1> QED
  BY <1>1, <1>2, <1>3

LEMMA InFront ==
    ASSUME NEW s \in Seq(Characters), NEW m \in 0 .. Len(s)
    PROVE  /\ SubSeq(s, 1, m) \in Seq(Characters)
           /\ Len(SubSeq(s, 1, m)) = m
           /\ \A j \in 1 .. m : SubSeq(s, 1, m)[j] = s[j]
<1>1. Len(s) \in Nat /\ \A i \in 1 .. m : s[i] \in Characters
  BY ElementOfSeq
<1>2. /\ SubSeq(s, 1, m) \in Seq(Characters)
      /\ Len(SubSeq(s, 1, m)) = IF 1 <= m THEN m - 1 + 1 ELSE 0
      /\ \A i \in 1 .. m - 1 + 1 : SubSeq(s, 1, m)[i] = s[1 + i - 1]
  BY <1>1, SubSeqProperties, m \in Int
<1>3. \A j \in 1 .. m : 1 + j - 1 = j /\ j \in 1 .. m - 1 + 1
  BY <1>1
<1> QED
  BY <1>1, <1>2, <1>3

\* Trimming takes spaces off the front of a line and nothing else.
LEMMA TrimFacts ==
    ASSUME NEW s \in Seq(Characters)
    PROVE  /\ TrimStart(s) \in Seq(Characters)
           /\ \E g \in 0 .. Len(s) :
                /\ Len(TrimStart(s)) = Len(s) - g
                /\ \A j \in 1 .. g : s[j] = Space
                /\ \A j \in 1 .. Len(s) - g : TrimStart(s)[j] = s[g + j]
<1> DEFINE kept == {i \in 1 .. Len(s) : s[i] # Space}
<1>0. Len(s) \in Nat
  OBVIOUS
<1>1. CASE kept = {}
  <2>1. TrimStart(s) = <<>>
    BY <1>1 DEF TrimStart
  <2>2. \A j \in 1 .. Len(s) : s[j] = Space
    BY <1>1
  <2> QED
    BY <1>0, <2>1, <2>2
<1>2. CASE kept # {}
  <2>1. \E m \in kept : \A k \in kept : m <= k
    <3>1. kept \subseteq Nat
      OBVIOUS
    <3> QED
      BY <1>2, <3>1, LeastElement
  <2>2. PICK i : i = CHOOSE k \in kept : \A j \in kept : k <= j
    OBVIOUS
  <2>3. i \in kept /\ \A j \in kept : i <= j
    BY <2>1, <2>2
  <2>4. TrimStart(s) = SubSeq(s, i, Len(s))
    BY <1>2, <2>2 DEF TrimStart
  <2>5. PICK g : g = i - 1
    OBVIOUS
  <2>6. g \in 0 .. Len(s) /\ i = g + 1
    BY <1>0, <2>3, <2>5
  <2>7. \A j \in 1 .. g : s[j] = Space
    BY <1>0, <2>3, <2>6
  <2>8. /\ TrimStart(s) \in Seq(Characters) /\ Len(TrimStart(s)) = Len(s) - g
        /\ \A j \in 1 .. Len(s) - g : TrimStart(s)[j] = s[g + j]
    BY <2>4, <2>6, Behind
  <2> QED
    BY <2>6, <2>7, <2>8
<1> QED
  BY <1>1, <1>2

\* A line is never cut in front of its first character, nor past the limit.
LEMMA CutAtFacts ==
    ASSUME NEW r \in Seq(Characters), Len(r) > MaxCandidate
    PROVE  CutAt(r) \in 1 .. MaxCandidate
<1> DEFINE spaces == {i \in 0 .. MaxCandidate : i < Len(r) /\ r[i + 1] = Space /\ i >= MinLine}
<1>0. MaxCandidate \in Nat /\ MinLine \in Nat \ {0} /\ MaxCandidate >= MinLine
  BY ParserConstants
<1>1. CASE spaces = {}
  <2>1. CutAt(r) = MaxCandidate
    BY <1>1 DEF CutAt
  <2> QED
    BY <1>0, <2>1
<1>2. CASE spaces # {}
  <2>1. PICK T : T = {MaxCandidate - i : i \in spaces}
    OBVIOUS
  <2>2. T \subseteq Nat /\ T # {}
    BY <1>0, <1>2, <2>1
  <2>3. PICK m \in T : \A k \in T : m <= k
    BY <2>2, LeastElement
  <2>4. PICK i \in spaces : m = MaxCandidate - i
    BY <2>1
  <2>5. ASSUME NEW j \in spaces PROVE j <= i
    <3>1. MaxCandidate - j \in T
      BY <2>1
    <3>2. m <= MaxCandidate - j
      BY <2>3, <3>1
    <3> QED
      BY <1>0, <2>4, <3>2
  <2>6. CutAt(r) \in spaces
    BY <1>2, <2>4, <2>5 DEF CutAt
  <2> QED
    BY <1>0, <2>6
<1> QED
  BY <1>1, <1>2

\* What is left of a line after a cut: all of it, but for spaces in between.
LEMMA AfterCutFacts ==
    ASSUME NEW r \in Seq(Characters), NEW end \in 0 .. Len(r)
    PROVE  /\ AfterCut(r, end) \in Seq(Characters)
           /\ \E o \in end .. Len(r) :
                /\ Len(AfterCut(r, end)) = Len(r) - o
                /\ \A j \in end + 1 .. o : r[j] = Space
                /\ \A j \in 1 .. Len(r) - o : AfterCut(r, end)[j] = r[o + j]
<1>1. PICK s : s = SubSeq(r, end + 1, Len(r))
  OBVIOUS
<1>2. s \in Seq(Characters) /\ Len(s) = Len(r) - end /\ \A j \in 1 .. Len(r) - end : s[j] = r[end + j]
  BY <1>1, Behind
<1>3. AfterCut(r, end) = TrimStart(s)
  BY <1>1 DEF AfterCut
<1>4. AfterCut(r, end) \in Seq(Characters)
  BY <1>2, <1>3, TrimFacts
<1>5. PICK g \in 0 .. Len(s) :
         /\ Len(TrimStart(s)) = Len(s) - g
         /\ \A j \in 1 .. g : s[j] = Space
         /\ \A j \in 1 .. Len(s) - g : TrimStart(s)[j] = s[g + j]
  BY <1>2, TrimFacts
<1>6. Len(r) \in Nat
  OBVIOUS
<1>7. PICK o : o = end + g
  OBVIOUS
<1>8. o \in end .. Len(r) /\ Len(AfterCut(r, end)) = Len(r) - o
  BY <1>2, <1>3, <1>5, <1>6, <1>7
<1>9. ASSUME NEW j \in end + 1 .. o PROVE r[j] = Space
  <2>1. j - end \in 1 .. g /\ j - end \in 1 .. Len(r) - end /\ end + (j - end) = j
    BY <1>2, <1>5, <1>6, <1>7
  <2> QED
    BY <1>2, <1>5, <2>1
<1>10. ASSUME NEW j \in 1 .. Len(r) - o PROVE AfterCut(r, end)[j] = r[o + j]
  <2>1. j \in 1 .. Len(s) - g /\ g + j \in 1 .. Len(r) - end /\ end + (g + j) = o + j
    BY <1>2, <1>5, <1>6, <1>7
  <2> QED
    BY <1>2, <1>3, <1>5, <2>1
<1> QED
  BY <1>4, <1>8, <1>9, <1>10

----------------------------------------------------------------------------
\* The rest of a line is the part of it behind an offset.
RestOf(line, rest, off) ==
    /\ off \in 0 .. Len(line) /\ Len(rest) = Len(line) - off
    /\ \A j \in 1 .. Len(rest) : rest[j] = line[off + j]

\* A line while it is cut: the segments cut so far cover it up to the rest.
CutSoFar(line, pieces, rest) ==
    \E off \in 0 .. Len(line), from \in [DOMAIN pieces -> 0 .. Len(line)] :
      RestOf(line, rest, off) /\ Covers(line, pieces, from, off)

\* One more segment, and spaces after it.
LEMMA OneMorePiece ==
    ASSUME NEW line \in Seq(Characters), NEW pieces \in Seq(Seq(Characters)),
           NEW p \in Seq(Characters), NEW off \in Nat, NEW upto \in 0 .. Len(line),
           NEW from \in [DOMAIN pieces -> 0 .. Len(line)], Covers(line, pieces, from, off),
           off + Len(p) <= upto, \A j \in 1 .. Len(p) : p[j] = line[off + j],
           \A j \in off + Len(p) + 1 .. upto : line[j] = Space
    PROVE  \E f \in [DOMAIN Append(pieces, p) -> 0 .. Len(line)] :
             Covers(line, Append(pieces, p), f, upto)
<1>1. PICK n : n = Len(pieces)
  OBVIOUS
<1>2. PICK q : q = Append(pieces, p)
  OBVIOUS
<1>3. /\ n \in Nat /\ DOMAIN pieces = 1 .. n /\ DOMAIN q = 1 .. n + 1 /\ q[n + 1] = p
      /\ \A k \in 1 .. n : q[k] = pieces[k]
  BY <1>1, <1>2
<1>4. Len(line) \in Nat /\ Len(p) \in Nat /\ \A k \in 1 .. n : Len(pieces[k]) \in Nat
  BY <1>1, <1>3, ElementOfSeq
<1>5. PICK f : f = [k \in DOMAIN q |-> IF k = n + 1 THEN off ELSE from[k]]
  OBVIOUS
<1>6. /\ f \in [DOMAIN q -> 0 .. Len(line)] /\ f[n + 1] = off
      /\ \A k \in 1 .. n : f[k] = from[k] /\ f[k] \in Nat
  BY <1>3, <1>4, <1>5
<1>7. /\ \A k \in 1 .. n :
           /\ from[k] + Len(pieces[k]) <= off
           /\ \A j \in 1 .. Len(pieces[k]) : pieces[k][j] = line[from[k] + j]
           /\ \A m \in 1 .. n : m < k => from[m] + Len(pieces[m]) <= from[k]
      /\ \A j \in 1 .. off :
           line[j] = Space \/ \E k \in 1 .. n : from[k] < j /\ j <= from[k] + Len(pieces[k])
  BY <1>3 DEF Covers
<1>8. ASSUME NEW k \in 1 .. n + 1 PROVE f[k] + Len(q[k]) <= upto
  <2>1. CASE k = n + 1
    BY <1>3, <1>6, <2>1
  <2>2. CASE k \in 1 .. n
    <3>1. f[k] = from[k] /\ q[k] = pieces[k] /\ Len(pieces[k]) \in Nat /\ f[k] \in Nat
      BY <1>3, <1>4, <1>6, <2>2
    <3>2. from[k] + Len(pieces[k]) <= off
      BY <1>7, <2>2
    <3>3. off <= upto
      BY <1>4
    <3> QED
      BY <3>1, <3>2, <3>3
  <2> QED
    BY <1>3, <2>1, <2>2
<1>9. ASSUME NEW k \in 1 .. n + 1, NEW j \in 1 .. Len(q[k]) PROVE q[k][j] = line[f[k] + j]
  <2>1. CASE k = n + 1
    BY <1>3, <1>6, <2>1
  <2>2. CASE k \in 1 .. n
    <3>1. q[k] = pieces[k] /\ f[k] = from[k]
      BY <1>3, <1>6, <2>2
    <3>2. pieces[k][j] = line[from[k] + j]
      BY <1>7, <2>2, <3>1
    <3> QED
      BY <3>1, <3>2
  <2> QED
    BY <1>3, <2>1, <2>2
<1>10. ASSUME NEW k \in 1 .. n + 1, NEW m \in 1 .. n + 1, m < k PROVE f[m] + Len(q[m]) <= f[k]
  <2>1. m \in 1 .. n
    BY <1>3, <1>10
  <2>2. CASE k = n + 1
    <3>1. f[m] = from[m] /\ q[m] = pieces[m] /\ f[k] = off
      BY <1>3, <1>6, <2>1, <2>2
    <3>2. from[m] + Len(pieces[m]) <= off
      BY <1>7, <2>1
    <3> QED
      BY <3>1, <3>2
  <2>3. CASE k \in 1 .. n
    <3>1. from[m] + Len(pieces[m]) <= from[k]
      BY <1>7, <1>10, <2>1, <2>3
    <3>2. f[m] = from[m] /\ q[m] = pieces[m] /\ f[k] = from[k]
      BY <1>3, <1>6, <2>1, <2>3
    <3> QED
      BY <3>1, <3>2
  <2>4. k = n + 1 \/ k \in 1 .. n
    BY <1>3
  <2> QED
    BY <2>2, <2>3, <2>4
<1>11. ASSUME NEW j \in 1 .. upto, line[j] # Space
       PROVE  \E k \in 1 .. n + 1 : f[k] < j /\ j <= f[k] + Len(q[k])
  <2>1. CASE j \in 1 .. off
    <3>1. PICK k \in 1 .. n : from[k] < j /\ j <= from[k] + Len(pieces[k])
      BY <1>7, <1>11, <2>1
    <3> QED
      BY <1>3, <1>6, <3>1
  <2>2. CASE j > off
    <3>1. j <= off + Len(p)
      BY <1>4, <1>11, <2>2
    <3> QED
      BY <1>3, <1>6, <2>2, <3>1
  <2> QED
    BY <2>1, <2>2
<1>12. Covers(line, q, f, upto)
  BY <1>3, <1>8, <1>9, <1>10, <1>11 DEF Covers
<1> QED
  BY <1>2, <1>6, <1>12

\* A cut loses nothing.
LEMMA CuttingOn ==
    ASSUME NEW line \in Seq(Characters), NEW pieces \in Seq(Seq(Characters)),
           NEW r \in Seq(Characters), CutSoFar(line, pieces, r), NEW end \in 0 .. Len(r)
    PROVE  CutSoFar(line, Append(pieces, SubSeq(r, 1, end)), AfterCut(r, end))
<1>1. PICK off \in 0 .. Len(line), from \in [DOMAIN pieces -> 0 .. Len(line)] :
         RestOf(line, r, off) /\ Covers(line, pieces, from, off)
  BY DEF CutSoFar
<1>2. PICK o \in end .. Len(r) :
         /\ Len(AfterCut(r, end)) = Len(r) - o
         /\ \A j \in end + 1 .. o : r[j] = Space
         /\ \A j \in 1 .. Len(r) - o : AfterCut(r, end)[j] = r[o + j]
  BY AfterCutFacts
<1>3. PICK p : p = SubSeq(r, 1, end)
  OBVIOUS
<1>4. p \in Seq(Characters) /\ Len(p) = end /\ \A j \in 1 .. end : p[j] = r[j]
  BY <1>3, InFront
<1>5. /\ Len(line) \in Nat /\ Len(r) \in Nat /\ Len(r) = Len(line) - off
      /\ \A j \in 1 .. Len(r) : r[j] = line[off + j]
  BY <1>1 DEF RestOf
<1>6. PICK upto : upto = off + o
  OBVIOUS
<1>7. upto \in 0 .. Len(line) /\ off \in Nat /\ off + Len(p) <= upto
  BY <1>1, <1>2, <1>4, <1>5, <1>6
<1>8. ASSUME NEW j \in 1 .. Len(p) PROVE p[j] = line[off + j]
  <2>1. j \in 1 .. end /\ j \in 1 .. Len(r)
    BY <1>4, <1>5
  <2> QED
    BY <1>4, <1>5, <2>1
<1>9. ASSUME NEW j \in off + Len(p) + 1 .. upto PROVE line[j] = Space
  <2>1. j - off \in end + 1 .. o /\ j - off \in 1 .. Len(r) /\ off + (j - off) = j
    BY <1>1, <1>2, <1>4, <1>5, <1>6
  <2> QED
    BY <1>2, <1>5, <2>1
<1>10. PICK f \in [DOMAIN Append(pieces, p) -> 0 .. Len(line)] :
          Covers(line, Append(pieces, p), f, upto)
  BY <1>1, <1>4, <1>7, <1>8, <1>9, OneMorePiece
<1>11. RestOf(line, AfterCut(r, end), upto)
  <2>1. Len(AfterCut(r, end)) = Len(line) - upto
    BY <1>1, <1>2, <1>5, <1>6
  <2>2. ASSUME NEW j \in 1 .. Len(AfterCut(r, end)) PROVE AfterCut(r, end)[j] = line[upto + j]
    <3>1. j \in 1 .. Len(r) - o /\ o + j \in 1 .. Len(r) /\ off + (o + j) = upto + j
      BY <1>1, <1>2, <1>5, <1>6
    <3> QED
      BY <1>2, <1>5, <3>1
  <2> QED
    BY <1>7, <2>1, <2>2 DEF RestOf
<1> QED
  BY <1>3, <1>7, <1>10, <1>11 DEF CutSoFar

\* The last segment completes the line.
LEMMA CuttingEnds ==
    ASSUME NEW line \in Seq(Characters), NEW pieces \in Seq(Seq(Characters)),
           NEW r \in Seq(Characters), CutSoFar(line, pieces, r)
    PROVE  CutLosslessly(line, IF r = <<>> THEN pieces ELSE Append(pieces, r))
<1>1. PICK off \in 0 .. Len(line), from \in [DOMAIN pieces -> 0 .. Len(line)] :
         RestOf(line, r, off) /\ Covers(line, pieces, from, off)
  BY DEF CutSoFar
<1>2. /\ Len(line) \in Nat /\ Len(r) \in Nat /\ Len(r) = Len(line) - off
      /\ \A j \in 1 .. Len(r) : r[j] = line[off + j]
  BY <1>1 DEF RestOf
<1>3. CASE r = <<>>
  <2>1. off = Len(line)
    BY <1>1, <1>2, <1>3
  <2> QED
    BY <1>1, <1>3, <2>1 DEF CutLosslessly
<1>4. CASE r # <<>>
  <2>1. /\ off \in Nat /\ off + Len(r) = Len(line) /\ off + Len(r) <= Len(line)
        /\ Len(line) \in 0 .. Len(line)
    BY <1>1, <1>2
  <2>2. \A j \in off + Len(r) + 1 .. Len(line) : line[j] = Space
    BY <1>2, <2>1
  <2>3. \E f \in [DOMAIN Append(pieces, r) -> 0 .. Len(line)] :
          Covers(line, Append(pieces, r), f, Len(line))
    BY <1>1, <1>2, <2>1, <2>2, OneMorePiece
  <2> QED
    BY <1>4, <2>3 DEF CutLosslessly
<1> QED
  BY <1>3, <1>4

\* Where the segments stand among the candidates does not matter.
LEMMA PiecesMoved ==
    ASSUME NEW line, NEW pieces \in Seq(Seq(Characters)), CutLosslessly(line, pieces),
           NEW n \in Nat, NEW q, DOMAIN q = n + 1 .. n + Len(pieces),
           \A k \in 1 .. Len(pieces) : q[n + k] = pieces[k]
    PROVE  CutLosslessly(line, q)
<1>1. PICK from \in [DOMAIN pieces -> 0 .. Len(line)] : Covers(line, pieces, from, Len(line))
  BY DEF CutLosslessly
<1>2. PICK c : c = Len(pieces)
  OBVIOUS
<1>3. c \in Nat /\ DOMAIN pieces = 1 .. c /\ DOMAIN q = n + 1 .. n + c
  BY <1>2
<1>4. PICK f : f = [k \in DOMAIN q |-> from[k - n]]
  OBVIOUS
<1>5. \A k \in DOMAIN q : k \in Int /\ k - n \in 1 .. c /\ n + (k - n) = k
  BY <1>3
<1>6. \A k \in DOMAIN q : f[k] = from[k - n] /\ q[k] = pieces[k - n]
  BY <1>2, <1>4, <1>5
<1>7. f \in [DOMAIN q -> 0 .. Len(line)]
  BY <1>3, <1>4, <1>5
<1>8. /\ \A k \in 1 .. c :
           /\ from[k] + Len(pieces[k]) <= Len(line)
           /\ \A j \in 1 .. Len(pieces[k]) : pieces[k][j] = line[from[k] + j]
           /\ \A m \in 1 .. c : m < k => from[m] + Len(pieces[m]) <= from[k]
      /\ \A j \in 1 .. Len(line) :
           line[j] = Space \/ \E k \in 1 .. c : from[k] < j /\ j <= from[k] + Len(pieces[k])
  BY <1>1, <1>3 DEF Covers
<1>9. ASSUME NEW k \in DOMAIN q
      PROVE  /\ f[k] + Len(q[k]) <= Len(line)
             /\ \A j \in 1 .. Len(q[k]) : q[k][j] = line[f[k] + j]
  <2>1. PICK i \in 1 .. c : i = k - n
    BY <1>5
  <2>2. f[k] = from[i] /\ q[k] = pieces[i]
    BY <1>6, <2>1
  <2>3. from[i] + Len(pieces[i]) <= Len(line)
    BY <1>8
  <2>4. \A j \in 1 .. Len(pieces[i]) : pieces[i][j] = line[from[i] + j]
    BY <1>8
  <2> QED
    BY <2>2, <2>3, <2>4
<1>10. ASSUME NEW k \in DOMAIN q, NEW m \in DOMAIN q, m < k PROVE f[m] + Len(q[m]) <= f[k]
  <2>1. m - n < k - n
    BY <1>5, <1>10
  <2> QED
    BY <1>5, <1>6, <1>8, <2>1
<1>11. ASSUME NEW j \in 1 .. Len(line), line[j] # Space
       PROVE  \E k \in DOMAIN q : f[k] < j /\ j <= f[k] + Len(q[k])
  <2>1. PICK k \in 1 .. c : from[k] < j /\ j <= from[k] + Len(pieces[k])
    BY <1>8, <1>11
  <2>2. n + k \in DOMAIN q /\ (n + k) - n = k
    BY <1>3
  <2> QED
    BY <1>6, <2>1, <2>2
<1>12. Covers(line, q, f, Len(line))
  BY <1>9, <1>10, <1>11 DEF Covers
<1> QED
  BY <1>7, <1>12 DEF CutLosslessly

----------------------------------------------------------------------------
Candidate == [line : Nat, text : Seq(Characters)]

\* The candidates come from the lines up to a position that are imported,
\* in their order, and none is empty or too long.
Ordered(out, text, upto) ==
    /\ Len(out) <= MaxCandidates
    /\ \A k \in 1 .. Len(out) :
         /\ Len(out[k].text) \in 1 .. MaxCandidate
         /\ out[k].line \in 1 .. upto /\ Imported(text, out[k].line)
         /\ \A m \in 1 .. k : out[m].line <= out[k].line

\* The lines up to a position are there, each of them whole.
Whole(out, text, upto) ==
    \A i \in 1 .. upto : Imported(text, i) => CutLosslessly(text[i], Pieces(out, i))

LongLines(text, upto) == {text[j] : j \in {j \in 1 .. upto : Len(text[j]) >= MinLine}}

PlanPhases == {"none", "line", "cut", "done", "refused"}
ALine == Seq(Characters)
ManyLines == Seq(ALine)
SomeLines == SUBSET ALine
ManyCandidates == Seq(Candidate)

PlanTypeOK ==
    plan \in [phase : PlanPhases, text : ManyLines, at : Nat, rest : ALine, cut : ManyLines,
              seen : SomeLines, out : ManyCandidates]

\* The inductive invariant.  Between two lines, what was imported so far is
\* whole; while a line is cut, the lines before it are, and the segments cut
\* from it cover it up to the rest.
PlanInv ==
    /\ PlanTypeOK
    /\ plan.phase \in {"line", "cut", "done"} =>
         plan.at <= Len(plan.text) /\ plan.seen = LongLines(plan.text, plan.at)
    /\ plan.phase \in {"line", "done"} =>
         Ordered(plan.out, plan.text, plan.at) /\ Whole(plan.out, plan.text, plan.at)
    /\ plan.phase = "done" => plan.at = Len(plan.text)
    /\ plan.phase = "cut" =>
         /\ plan.at >= 1 /\ Imported(plan.text, plan.at)
         /\ Ordered(plan.out, plan.text, plan.at - 1) /\ Whole(plan.out, plan.text, plan.at - 1)
         /\ CutSoFar(plan.text[plan.at], plan.cut, plan.rest)
         /\ \A k \in 1 .. Len(plan.cut) : Len(plan.cut[k]) \in 1 .. MaxCandidate

\* The candidates of one more line: the earlier ones stay as they are, and
\* those of the line are its segments.
LEMMA LineAdded ==
    ASSUME NEW out \in Seq(Candidate), NEW text \in Seq(Seq(Characters)),
           NEW at \in 1 .. Len(text), NEW segments \in Seq(Seq(Characters)),
           Ordered(out, text, at - 1), Whole(out, text, at - 1), Imported(text, at),
           CutLosslessly(text[at], segments),
           \A k \in 1 .. Len(segments) : Len(segments[k]) \in 1 .. MaxCandidate,
           Len(out) + Len(segments) <= MaxCandidates
    PROVE  LET new == out \o [i \in 1 .. Len(segments) |-> [line |-> at, text |-> segments[i]]]
           IN  new \in Seq(Candidate) /\ Ordered(new, text, at) /\ Whole(new, text, at)
<1>0. PICK new : new = out \o [i \in 1 .. Len(segments) |-> [line |-> at, text |-> segments[i]]]
  OBVIOUS
<1>1. PICK n, c : n = Len(out) /\ c = Len(segments)
  OBVIOUS
<1>2. n \in Nat /\ c \in Nat /\ Len(text) \in Nat /\ at \in Nat
  BY <1>1
<1>3. PICK t : t = [i \in 1 .. c |-> [line |-> at, text |-> segments[i]]]
  OBVIOUS
<1>4. t \in Seq(Candidate) /\ Len(t) = c
  <2>1. \A i \in 1 .. c : [line |-> at, text |-> segments[i]] \in Candidate
    BY <1>1, <1>2, ElementOfSeq DEF Candidate
  <2> QED
    BY <1>2, <1>3, <2>1
<1>5. /\ new \in Seq(Candidate) /\ Len(new) = n + c
      /\ \A i \in 1 .. n + c : new[i] = IF i <= n THEN out[i] ELSE t[i - n]
  BY <1>0, <1>1, <1>3, <1>4, ConcatProperties
<1>6. ASSUME NEW i \in 1 .. n PROVE new[i] = out[i]
  <2>1. i \in 1 .. n + c /\ i <= n
    BY <1>2
  <2> QED
    BY <1>5, <2>1
<1>7. ASSUME NEW i \in 1 .. c PROVE new[n + i].line = at /\ new[n + i].text = segments[i]
  <2>1. n + i \in 1 .. n + c /\ ~(n + i <= n) /\ (n + i) - n = i
    BY <1>2
  <2>2. new[n + i] = t[i]
    BY <1>5, <2>1
  <2>3. t[i] = [line |-> at, text |-> segments[i]]
    BY <1>3
  <2> QED
    BY <2>2, <2>3
<1>8. \A i \in n + 1 .. n + c : i - n \in 1 .. c /\ n + (i - n) = i
  BY <1>2
<1>9. ASSUME NEW i \in n + 1 .. n + c PROVE new[i].line = at /\ new[i].text = segments[i - n]
  <2>1. PICK k \in 1 .. c : k = i - n
    BY <1>8
  <2>2. n + k = i
    BY <1>8, <2>1
  <2> QED
    BY <1>7, <2>1, <2>2
<1>10. \A i \in 1 .. n : out[i].line \in 1 .. at - 1
  BY <1>1 DEF Ordered
<1>11. Ordered(new, text, at)
  <2>1. Len(new) <= MaxCandidates
    BY <1>1, <1>5
  <2>2. ASSUME NEW k \in 1 .. n + c, k <= n
        PROVE  /\ Len(new[k].text) \in 1 .. MaxCandidate
               /\ new[k].line \in 1 .. at /\ Imported(text, new[k].line)
               /\ \A m \in 1 .. k : new[m].line <= new[k].line
    <3>0. k \in 1 .. n /\ \A m \in 1 .. k : m \in 1 .. n
      BY <1>2, <2>2
    <3>1. k \in 1 .. n /\ new[k] = out[k] /\ \A m \in 1 .. k : m \in 1 .. n /\ new[m] = out[m]
      BY <1>6, <3>0
    <3>2. /\ Len(out[k].text) \in 1 .. MaxCandidate
          /\ Imported(text, out[k].line)
          /\ \A m \in 1 .. k : out[m].line <= out[k].line
      BY <1>1, <3>1 DEF Ordered
    <3>3. out[k].line \in 1 .. at
      BY <1>2, <1>10, <3>1
    <3> QED
      BY <3>1, <3>2, <3>3
  <2>3. ASSUME NEW k \in 1 .. n + c, k > n
        PROVE  /\ Len(new[k].text) \in 1 .. MaxCandidate
               /\ new[k].line \in 1 .. at /\ Imported(text, new[k].line)
               /\ \A m \in 1 .. k : new[m].line <= new[k].line
    <3>1. k \in n + 1 .. n + c /\ k - n \in 1 .. c
      BY <1>2, <2>3
    <3>2. new[k].line = at /\ new[k].text = segments[k - n]
      BY <1>9, <3>1
    <3>3. Len(segments[k - n]) \in 1 .. MaxCandidate
      BY <1>1, <3>1
    <3>4. ASSUME NEW m \in 1 .. k PROVE new[m].line <= at
      <4>0. \A x \in 1 .. at - 1 : x <= at
        BY <1>2
      <4>1. CASE m \in 1 .. n
        BY <1>6, <1>10, <4>0, <4>1
      <4>2. CASE m \in n + 1 .. n + c
        <5>1. new[m].line = at /\ at <= at
          BY <1>2, <1>9, <4>2
        <5> QED
          BY <5>1
      <4>3. m \in 1 .. n \/ m \in n + 1 .. n + c
        BY <1>2, <3>1
      <4> QED
        BY <4>1, <4>2, <4>3
    <3>5. at \in 1 .. at
      BY <1>2
    <3> QED
      BY <3>2, <3>3, <3>4, <3>5
  <2>4. \A k \in 1 .. n + c : k <= n \/ k > n
    BY <1>2
  <2> QED
    BY <1>5, <2>1, <2>2, <2>3, <2>4 DEF Ordered
<1>12. Whole(new, text, at)
  <2>1. ASSUME NEW i \in 1 .. at, Imported(text, i), i # at
        PROVE  CutLosslessly(text[i], Pieces(new, i))
    <3>1. i \in 1 .. at - 1
      BY <1>2, <2>1
    <3>2. {k \in 1 .. n + c : new[k].line = i} = {k \in 1 .. n : out[k].line = i}
      <4>1. ASSUME NEW k \in 1 .. n + c, new[k].line = i PROVE k \in 1 .. n
        <5>1. ~(k \in n + 1 .. n + c)
          BY <1>9, <2>1, <4>1
        <5> QED
          BY <1>2, <5>1
      <4>2. \A k \in 1 .. n : k \in 1 .. n + c
        BY <1>2
      <4> QED
        BY <1>6, <4>1, <4>2
    <3>3. Pieces(new, i) = Pieces(out, i)
      BY <1>1, <1>5, <1>6, <3>2 DEF Pieces
    <3> QED
      BY <2>1, <3>1, <3>3 DEF Whole
  <2>2. CutLosslessly(text[at], Pieces(new, at))
    <3>1. {k \in 1 .. n + c : new[k].line = at} = n + 1 .. n + c
      <4>1. ASSUME NEW k \in 1 .. n + c, new[k].line = at PROVE k \in n + 1 .. n + c
        <5>1. ASSUME k \in 1 .. n PROVE FALSE
          <6>1. new[k].line \in 1 .. at - 1
            BY <1>6, <1>10, <5>1
          <6>2. at \notin 1 .. at - 1
            BY <1>2
          <6> QED
            BY <4>1, <6>1, <6>2
        <5> QED
          BY <1>2, <5>1
      <4>2. \A k \in n + 1 .. n + c : k \in 1 .. n + c
        BY <1>2
      <4> QED
        BY <1>9, <4>1, <4>2
    <3>2. PICK q : q = Pieces(new, at)
      OBVIOUS
    <3>3. q = [k \in n + 1 .. n + c |-> new[k].text]
      BY <1>5, <3>1, <3>2 DEF Pieces
    <3>4. \A k \in 1 .. c : n + k \in n + 1 .. n + c
      BY <1>2
    <3>5. \A k \in 1 .. c : q[n + k] = segments[k]
      BY <1>7, <3>3, <3>4
    <3>6. DOMAIN q = n + 1 .. n + c
      BY <3>3
    <3>7. CutLosslessly(text[at], q)
      <4>1. \A k \in 1 .. Len(segments) : q[n + k] = segments[k]
        BY <1>1, <3>5
      <4>2. DOMAIN q = n + 1 .. n + Len(segments)
        BY <1>1, <3>6
      <4> QED
        BY <1>2, <4>1, <4>2, PiecesMoved
    <3> QED
      BY <3>2, <3>7
  <2> QED
    BY <2>1, <2>2 DEF Whole
<1> QED
  BY <1>0, <1>5, <1>11, <1>12

\* The lines that do not become candidates change nothing.
LEMMA LinePassed ==
    ASSUME NEW out, NEW text \in Seq(Seq(Characters)), NEW at \in Nat, at < Len(text),
           NEW noted, noted = LongLines(text, at),
           Ordered(out, text, at), Whole(out, text, at),
           Len(text[at + 1]) < MinLine \/ text[at + 1] \in noted
    PROVE  /\ noted = LongLines(text, at + 1)
           /\ Ordered(out, text, at + 1) /\ Whole(out, text, at + 1)
<1>1. Len(text) \in Nat /\ MinLine \in Nat /\ at + 1 \in 1 .. Len(text)
  BY ParserConstants
<1>2. text[at + 1] \in Seq(Characters) /\ Len(text[at + 1]) \in Nat
  BY <1>1, ElementOfSeq
<1>3. \A i \in 1 .. at + 1 : i = at + 1 \/ i \in 1 .. at
  OBVIOUS
<1>4. \A i \in 1 .. at : i \in 1 .. at + 1
  OBVIOUS
<1>5. noted = LongLines(text, at + 1)
  <2>1. ASSUME NEW l \in LongLines(text, at + 1) PROVE l \in noted
    <3>1. PICK j \in 1 .. at + 1 : l = text[j] /\ Len(text[j]) >= MinLine
      BY <2>1 DEF LongLines
    <3>2. CASE j = at + 1
      BY <1>1, <1>2, <3>1, <3>2
    <3>3. CASE j \in 1 .. at
      BY <3>1, <3>3 DEF LongLines
    <3> QED
      BY <1>3, <3>2, <3>3
  <2>2. ASSUME NEW l \in noted PROVE l \in LongLines(text, at + 1)
    BY <1>4, <2>2 DEF LongLines
  <2> QED
    BY <2>1, <2>2
<1>6. ~Imported(text, at + 1)
  <2>1. CASE Len(text[at + 1]) < MinLine
    BY <1>1, <1>2, <2>1 DEF Imported
  <2>2. CASE text[at + 1] \in noted
    <3>1. PICK j \in 1 .. at : text[at + 1] = text[j]
      BY <2>2 DEF LongLines
    <3>2. j \in 1 .. (at + 1) - 1
      OBVIOUS
    <3> QED
      BY <3>1, <3>2 DEF Imported
  <2> QED
    BY <2>1, <2>2
<1>7. Ordered(out, text, at + 1)
  BY <1>4 DEF Ordered
<1>8. Whole(out, text, at + 1)
  BY <1>3, <1>6 DEF Whole
<1> QED
  BY <1>5, <1>7, <1>8

\* A line that is taken.
LEMMA LineTaken ==
    ASSUME NEW text \in Seq(Seq(Characters)), NEW at \in Nat, at < Len(text),
           NEW noted, noted = LongLines(text, at),
           ~(Len(text[at + 1]) < MinLine), text[at + 1] \notin noted
    PROVE  /\ noted \cup {text[at + 1]} = LongLines(text, at + 1)
           /\ Imported(text, at + 1) /\ CutSoFar(text[at + 1], <<>>, text[at + 1])
<1>1. Len(text) \in Nat /\ MinLine \in Nat \ {0} /\ at + 1 \in 1 .. Len(text)
  BY ParserConstants
<1>2. text[at + 1] \in Seq(Characters) /\ Len(text[at + 1]) \in Nat
  BY <1>1, ElementOfSeq
<1>3. \A i \in 1 .. at + 1 : i = at + 1 \/ i \in 1 .. at
  OBVIOUS
<1>4. Len(text[at + 1]) >= MinLine
  BY <1>1, <1>2
<1>5. noted \cup {text[at + 1]} = LongLines(text, at + 1)
  <2>1. ASSUME NEW l \in LongLines(text, at + 1) PROVE l \in noted \cup {text[at + 1]}
    <3>1. PICK j \in 1 .. at + 1 : l = text[j] /\ Len(text[j]) >= MinLine
      BY <2>1 DEF LongLines
    <3> QED
      BY <1>3, <3>1 DEF LongLines
  <2>2. ASSUME NEW l \in noted PROVE l \in LongLines(text, at + 1)
    <3>1. PICK j \in 1 .. at : l = text[j] /\ Len(text[j]) >= MinLine
      BY <2>2 DEF LongLines
    <3>2. j \in 1 .. at + 1
      OBVIOUS
    <3> QED
      BY <3>1, <3>2 DEF LongLines
  <2>3. text[at + 1] \in LongLines(text, at + 1)
    <3>1. at + 1 \in 1 .. at + 1
      OBVIOUS
    <3> QED
      BY <1>4, <3>1 DEF LongLines
  <2> QED
    BY <2>1, <2>2, <2>3
<1>6. Imported(text, at + 1)
  <2>1. ASSUME NEW j \in 1 .. (at + 1) - 1, text[j] = text[at + 1] PROVE FALSE
    <3>1. j \in 1 .. at /\ Len(text[j]) >= MinLine
      BY <1>4, <2>1
    <3>2. text[j] \in noted
      BY <3>1 DEF LongLines
    <3> QED
      BY <2>1, <3>2
  <2> QED
    BY <1>4, <2>1 DEF Imported
<1>7. CutSoFar(text[at + 1], <<>>, text[at + 1])
  <2>1. PICK line \in Seq(Characters) : line = text[at + 1]
    BY <1>2
  <2>2. RestOf(line, line, 0)
    <3>1. Len(line) \in Nat /\ \A j \in 1 .. Len(line) : 0 + j = j
      OBVIOUS
    <3> QED
      BY <3>1 DEF RestOf
  <2>3. PICK from : from = [k \in DOMAIN <<>> |-> 0]
    OBVIOUS
  <2>4. DOMAIN <<>> = {} /\ from \in [DOMAIN <<>> -> 0 .. Len(line)]
    BY <2>3
  <2>5. Covers(line, <<>>, from, 0)
    BY <2>4 DEF Covers
  <2>6. 0 \in 0 .. Len(line)
    OBVIOUS
  <2> QED
    BY <2>1, <2>2, <2>4, <2>5, <2>6 DEF CutSoFar
<1> QED
  BY <1>5, <1>6, <1>7

----------------------------------------------------------------------------
LEMMA PlanTypes ==
    /\ <<>> \in ALine /\ <<>> \in ManyLines /\ <<>> \in ManyCandidates /\ {} \in SomeLines
    /\ "none" \in PlanPhases /\ "line" \in PlanPhases /\ "cut" \in PlanPhases
    /\ "done" \in PlanPhases /\ "refused" \in PlanPhases
BY DEF ALine, ManyLines, SomeLines, ManyCandidates, PlanPhases

LEMMA NoPlanInv ==
    ASSUME plan = NoImportPlan \/ plan = [NoImportPlan EXCEPT !.phase = "refused"]
    PROVE  PlanInv
<1>1. PlanTypeOK
  <2>1. CASE plan = NoImportPlan
    BY <2>1, PlanTypes DEF NoImportPlan, PlanTypeOK
  <2>2. CASE plan = [NoImportPlan EXCEPT !.phase = "refused"]
    BY <2>2, PlanTypes DEF NoImportPlan, PlanTypeOK
  <2> QED
    BY <2>1, <2>2
<1>2. plan.phase \in {"none", "refused"}
  BY DEF NoImportPlan
<1> QED
  BY <1>1, <1>2 DEF PlanInv

LEMMA NoPlanInvNext ==
    ASSUME plan' = NoImportPlan \/ plan' = [NoImportPlan EXCEPT !.phase = "refused"]
    PROVE  PlanInv'
<1>1. PlanTypeOK'
  <2>1. CASE plan' = NoImportPlan
    BY <2>1, PlanTypes DEF NoImportPlan, PlanTypeOK
  <2>2. CASE plan' = [NoImportPlan EXCEPT !.phase = "refused"]
    BY <2>2, PlanTypes DEF NoImportPlan, PlanTypeOK
  <2> QED
    BY <2>1, <2>2
<1>2. plan'.phase \in {"none", "refused"}
  BY DEF NoImportPlan
<1> QED
  BY <1>1, <1>2 DEF PlanInv

LEMMA ExtractKeepsPlan ==
    ASSUME PlanInv, Extract
    PROVE  PlanInv'
<1>1. PICK text \in Texts : plan' = [NoImportPlan EXCEPT !.phase = "line", !.text = text]
  BY DEF Extract
<1>2. text \in Seq(Seq(Characters)) /\ Len(text) \in Nat
  BY ParserConstants
<1>3. PlanTypeOK'
  <2>1. text \in ManyLines
    BY <1>2 DEF ManyLines, ALine
  <2> QED
    BY <1>1, <2>1, PlanTypes DEF NoImportPlan, PlanTypeOK
<1>4. /\ plan'.phase = "line" /\ plan'.text = text /\ plan'.at = 0 /\ plan'.seen = {}
      /\ plan'.out = <<>>
  BY <1>1 DEF NoImportPlan
<1>5. LongLines(text, 0) = {}
  BY DEF LongLines
<1>6. Ordered(<<>>, text, 0)
  BY ParserConstants DEF Ordered
<1>7. Whole(<<>>, text, 0)
  BY DEF Whole
<1> QED
  BY <1>2, <1>3, <1>4, <1>5, <1>6, <1>7 DEF PlanInv

LEMMA TakeLineKeepsPlan ==
    ASSUME PlanInv, TakeLine
    PROVE  PlanInv'
<1>1. PICK text, at, noted, out :
         text = plan.text /\ at = plan.at /\ noted = plan.seen /\ out = plan.out
  OBVIOUS
<1>2. /\ PlanTypeOK /\ plan.phase = "line" /\ at <= Len(text) /\ noted = LongLines(text, at)
      /\ Ordered(out, text, at) /\ Whole(out, text, at)
  BY <1>1 DEF PlanInv, TakeLine
<1>3. /\ text \in Seq(Seq(Characters)) /\ Len(text) \in Nat /\ at \in Nat
      /\ noted \subseteq Seq(Characters)
  <2>1. text \in ManyLines /\ at \in Nat /\ noted \in SomeLines
    BY <1>1, <1>2 DEF PlanTypeOK
  <2> QED
    BY <2>1 DEF ManyLines, SomeLines, ALine
<1>4. CASE at = Len(text)
  <2>1. plan' = [plan EXCEPT !.phase = "done"]
    BY <1>1, <1>4 DEF TakeLine
  <2>2. PlanTypeOK'
    BY <1>2, <2>1, PlanTypes DEF PlanTypeOK
  <2>3. /\ plan'.phase = "done" /\ plan'.text = text /\ plan'.at = at /\ plan'.seen = noted
        /\ plan'.out = out
    BY <1>1, <1>2, <2>1 DEF PlanTypeOK
  <2> QED
    BY <1>2, <1>4, <2>2, <2>3 DEF PlanInv
<1>5. CASE at # Len(text) /\ (Len(text[at + 1]) < MinLine \/ text[at + 1] \in noted)
  <2>1. plan' = [plan EXCEPT !.at = @ + 1]
    BY <1>1, <1>5 DEF TakeLine
  <2>2. PlanTypeOK'
    BY <1>2, <2>1 DEF PlanTypeOK
  <2>3. /\ plan'.phase = "line" /\ plan'.text = text /\ plan'.at = at + 1 /\ plan'.seen = noted
        /\ plan'.out = out
    BY <1>1, <1>2, <2>1 DEF PlanTypeOK
  <2>4. at < Len(text) /\ at + 1 <= Len(text)
    BY <1>2, <1>3, <1>5
  <2>5. /\ noted = LongLines(text, at + 1)
        /\ Ordered(out, text, at + 1) /\ Whole(out, text, at + 1)
    BY <1>2, <1>3, <1>5, <2>4, LinePassed
  <2> QED
    BY <2>2, <2>3, <2>4, <2>5 DEF PlanInv
<1>6. CASE at # Len(text) /\ ~(Len(text[at + 1]) < MinLine) /\ text[at + 1] \notin noted
  <2>1. PICK line : line = text[at + 1]
    OBVIOUS
  <2>2. plan' = [plan EXCEPT !.at = @ + 1, !.phase = "cut", !.rest = line,
                             !.cut = <<>>, !.seen = @ \cup {line}]
    BY <1>1, <1>6, <2>1 DEF TakeLine
  <2>3. at < Len(text) /\ at + 1 \in 1 .. Len(text) /\ at + 1 <= Len(text) /\ at + 1 >= 1
        /\ (at + 1) - 1 = at
    BY <1>2, <1>3, <1>6
  <2>4. line \in Seq(Characters)
    BY <1>3, <2>1, <2>3, ElementOfSeq
  <2>5. PlanTypeOK'
    <3>1. noted \cup {line} \in SomeLines /\ line \in ALine
      BY <1>3, <2>4 DEF SomeLines, ALine
    <3>2. plan' = [plan EXCEPT !.at = at + 1, !.phase = "cut", !.rest = line,
                               !.cut = <<>>, !.seen = noted \cup {line}]
      BY <1>1, <2>2
    <3>3. at + 1 \in Nat
      BY <1>3
    <3> QED
      BY <1>2, <3>1, <3>2, <3>3, PlanTypes DEF PlanTypeOK
  <2>6. /\ plan'.phase = "cut" /\ plan'.text = text /\ plan'.at = at + 1
        /\ plan'.seen = noted \cup {line}
        /\ plan'.out = out /\ plan'.cut = <<>> /\ plan'.rest = line
    BY <1>1, <1>2, <2>2 DEF PlanTypeOK
  <2>7. /\ noted \cup {line} = LongLines(text, at + 1)
        /\ Imported(text, at + 1) /\ CutSoFar(text[at + 1], <<>>, line)
    BY <1>2, <1>3, <1>6, <2>1, <2>3, LineTaken
  <2>8. \A k \in 1 .. Len(plan'.cut) : Len(plan'.cut[k]) \in 1 .. MaxCandidate
    BY <2>6
  <2> QED
    BY <1>2, <2>3, <2>5, <2>6, <2>7, <2>8 DEF PlanInv
<1> QED
  BY <1>4, <1>5, <1>6

\* What is known of a line while it is cut.
LEMMA WhileCutting ==
    ASSUME PlanInv, plan.phase = "cut"
    PROVE  /\ PlanTypeOK
           /\ plan.text \in Seq(Seq(Characters)) /\ plan.at \in 1 .. Len(plan.text)
           /\ plan.text[plan.at] \in Seq(Characters)
           /\ plan.rest \in Seq(Characters) /\ plan.cut \in Seq(Seq(Characters))
           /\ plan.out \in Seq(Candidate)
           /\ plan.seen = LongLines(plan.text, plan.at) /\ Imported(plan.text, plan.at)
           /\ Ordered(plan.out, plan.text, plan.at - 1) /\ Whole(plan.out, plan.text, plan.at - 1)
           /\ CutSoFar(plan.text[plan.at], plan.cut, plan.rest)
           /\ \A k \in 1 .. Len(plan.cut) : Len(plan.cut[k]) \in 1 .. MaxCandidate
<1>1. /\ PlanTypeOK /\ plan.at <= Len(plan.text) /\ plan.at >= 1
      /\ plan.seen = LongLines(plan.text, plan.at) /\ Imported(plan.text, plan.at)
      /\ Ordered(plan.out, plan.text, plan.at - 1) /\ Whole(plan.out, plan.text, plan.at - 1)
      /\ CutSoFar(plan.text[plan.at], plan.cut, plan.rest)
      /\ \A k \in 1 .. Len(plan.cut) : Len(plan.cut[k]) \in 1 .. MaxCandidate
  BY DEF PlanInv
<1>2. /\ plan.text \in Seq(Seq(Characters)) /\ plan.at \in Nat
      /\ plan.rest \in Seq(Characters) /\ plan.cut \in Seq(Seq(Characters))
      /\ plan.out \in Seq(Candidate)
  <2>1. /\ plan.text \in ManyLines /\ plan.at \in Nat /\ plan.rest \in ALine
        /\ plan.cut \in ManyLines /\ plan.out \in ManyCandidates
    BY <1>1 DEF PlanTypeOK
  <2> QED
    BY <2>1 DEF ManyLines, ALine, ManyCandidates
<1>3. plan.at \in 1 .. Len(plan.text)
  BY <1>1, <1>2
<1>4. plan.text[plan.at] \in Seq(Characters)
  BY <1>2, <1>3, ElementOfSeq
<1> QED
  BY <1>1, <1>2, <1>3, <1>4

LEMMA CutSegmentKeepsPlan ==
    ASSUME PlanInv, CutSegment
    PROVE  PlanInv'
<1>1. PICK text, at, r, cut, line, end :
         /\ text = plan.text /\ at = plan.at /\ r = plan.rest /\ cut = plan.cut
         /\ line = text[at] /\ end = CutAt(r)
  OBVIOUS
<1>2. /\ plan.phase = "cut" /\ Len(r) > MaxCandidate
      /\ plan' = [plan EXCEPT !.cut = Append(@, SubSeq(r, 1, end)), !.rest = AfterCut(r, end)]
  BY <1>1 DEF CutSegment
<1>3. /\ PlanTypeOK /\ line \in Seq(Characters) /\ r \in Seq(Characters)
      /\ cut \in Seq(Seq(Characters)) /\ CutSoFar(line, cut, r)
      /\ \A k \in 1 .. Len(cut) : Len(cut[k]) \in 1 .. MaxCandidate
  BY <1>1, <1>2, WhileCutting
<1>4. end \in 1 .. MaxCandidate
  BY <1>1, <1>2, <1>3, CutAtFacts
<1>5. end \in 0 .. Len(r)
  BY <1>2, <1>3, <1>4, ParserConstants
<1>6. PICK p, q : p = SubSeq(r, 1, end) /\ q = AfterCut(r, end)
  OBVIOUS
<1>7. p \in Seq(Characters) /\ Len(p) = end /\ q \in Seq(Characters)
  BY <1>3, <1>5, <1>6, InFront, AfterCutFacts
<1>8. CutSoFar(line, Append(cut, p), q)
  BY <1>3, <1>5, <1>6, CuttingOn
<1>9. PICK more : more = Append(cut, p)
  OBVIOUS
<1>10. more \in Seq(Seq(Characters)) /\ \A k \in 1 .. Len(more) : Len(more[k]) \in 1 .. MaxCandidate
  <2>1. /\ more \in Seq(Seq(Characters)) /\ Len(more) = Len(cut) + 1 /\ more[Len(cut) + 1] = p
        /\ \A k \in 1 .. Len(cut) : more[k] = cut[k]
    BY <1>3, <1>7, <1>9, AppendProperties
  <2>2. Len(cut) \in Nat
    BY <1>3
  <2>3. ASSUME NEW k \in 1 .. Len(more) PROVE Len(more[k]) \in 1 .. MaxCandidate
    <3>1. CASE k = Len(cut) + 1
      BY <1>4, <1>7, <2>1, <3>1
    <3>2. CASE k \in 1 .. Len(cut)
      BY <1>3, <2>1, <3>2
    <3> QED
      BY <2>1, <2>2, <3>1, <3>2
  <2> QED
    BY <2>1, <2>3
<1>11. plan' = [plan EXCEPT !.cut = more, !.rest = q]
  BY <1>1, <1>2, <1>6, <1>9
<1>12. PlanTypeOK'
  <2>1. more \in ManyLines /\ q \in ALine
    BY <1>7, <1>10 DEF ManyLines, ALine
  <2> QED
    BY <1>3, <1>11, <2>1 DEF PlanTypeOK
<1>13. /\ plan'.phase = "cut" /\ plan'.text = plan.text /\ plan'.at = plan.at
       /\ plan'.seen = plan.seen /\ plan'.out = plan.out /\ plan'.cut = more /\ plan'.rest = q
  BY <1>2, <1>3, <1>11 DEF PlanTypeOK
<1>14. /\ plan.at <= Len(plan.text) /\ plan.at >= 1
       /\ plan.seen = LongLines(plan.text, plan.at) /\ Imported(plan.text, plan.at)
       /\ Ordered(plan.out, plan.text, plan.at - 1) /\ Whole(plan.out, plan.text, plan.at - 1)
  BY <1>2 DEF PlanInv
<1>15. CutSoFar(plan.text[plan.at], more, q)
  BY <1>1, <1>8, <1>9
<1> QED
  BY <1>10, <1>12, <1>13, <1>14, <1>15 DEF PlanInv

LEMMA EndLineKeepsPlan ==
    ASSUME PlanInv, EndLine
    PROVE  PlanInv'
<1>1. PICK text, at, r, cut, line, out :
         /\ text = plan.text /\ at = plan.at /\ r = plan.rest /\ cut = plan.cut
         /\ line = text[at] /\ out = plan.out
  OBVIOUS
<1>2. PICK segments : segments = IF r = <<>> THEN cut ELSE Append(cut, r)
  OBVIOUS
<1>3. PICK new : new = out \o [i \in 1 .. Len(segments) |-> [line |-> at, text |-> segments[i]]]
  OBVIOUS
<1>4. plan.phase = "cut" /\ Len(r) <= MaxCandidate
  BY <1>1 DEF EndLine
<1>5. /\ PlanTypeOK /\ text \in Seq(Seq(Characters)) /\ at \in 1 .. Len(text)
      /\ line \in Seq(Characters) /\ r \in Seq(Characters)
      /\ cut \in Seq(Seq(Characters)) /\ CutSoFar(line, cut, r) /\ out \in Seq(Candidate)
      /\ Imported(text, at) /\ Ordered(out, text, at - 1) /\ Whole(out, text, at - 1)
      /\ \A k \in 1 .. Len(cut) : Len(cut[k]) \in 1 .. MaxCandidate
      /\ plan.seen = LongLines(text, at)
  BY <1>1, <1>4, WhileCutting
<1>6. CASE Len(out) + Len(segments) > MaxCandidates
  <2>1. plan' = [NoImportPlan EXCEPT !.phase = "refused"]
    BY <1>1, <1>2, <1>6 DEF EndLine
  <2> QED
    BY <2>1, NoPlanInvNext
<1>7. CASE ~(Len(out) + Len(segments) > MaxCandidates)
  <2>1. plan' = [plan EXCEPT !.phase = "line", !.rest = <<>>, !.cut = <<>>, !.out = new]
    BY <1>1, <1>2, <1>3, <1>7 DEF EndLine
  <2>2. /\ segments \in Seq(Seq(Characters))
        /\ \A k \in 1 .. Len(segments) : Len(segments[k]) \in 1 .. MaxCandidate
    <3>1. CASE r = <<>>
      BY <1>2, <1>5, <3>1
    <3>2. CASE r # <<>>
      <4>1. segments = Append(cut, r)
        BY <1>2, <3>2
      <4>2. Len(r) \in 1 .. MaxCandidate
        BY <1>4, <1>5, <3>2, EmptySeq, ParserConstants
      <4>3. /\ segments \in Seq(Seq(Characters)) /\ Len(segments) = Len(cut) + 1
            /\ segments[Len(cut) + 1] = r
            /\ \A k \in 1 .. Len(cut) : segments[k] = cut[k]
        BY <1>5, <4>1, AppendProperties
      <4>4. Len(cut) \in Nat
        BY <1>5
      <4>5. ASSUME NEW k \in 1 .. Len(segments) PROVE Len(segments[k]) \in 1 .. MaxCandidate
        <5>1. CASE k = Len(cut) + 1
          BY <4>2, <4>3, <5>1
        <5>2. CASE k \in 1 .. Len(cut)
          BY <1>5, <4>3, <5>2
        <5> QED
          BY <4>3, <4>4, <5>1, <5>2
      <4> QED
        BY <4>3, <4>5
    <3> QED
      BY <3>1, <3>2
  <2>3. CutLosslessly(text[at], segments)
    BY <1>1, <1>2, <1>5, CuttingEnds
  <2>4. Len(out) + Len(segments) <= MaxCandidates
    BY <1>5, <1>7, <2>2, ParserConstants
  <2>5. new \in Seq(Candidate) /\ Ordered(new, text, at) /\ Whole(new, text, at)
    BY <1>3, <1>5, <2>2, <2>3, <2>4, LineAdded
  <2>6. PlanTypeOK'
    <3>1. new \in ManyCandidates
      BY <2>5 DEF ManyCandidates
    <3> QED
      BY <1>5, <2>1, <3>1, PlanTypes DEF PlanTypeOK
  <2>7. /\ plan'.phase = "line" /\ plan'.text = text /\ plan'.at = at /\ plan'.seen = plan.seen
        /\ plan'.out = new
    BY <1>1, <1>5, <2>1 DEF PlanTypeOK
  <2>8. at <= Len(text)
    BY <1>5
  <2> QED
    BY <1>5, <2>5, <2>6, <2>7, <2>8 DEF PlanInv
<1> QED
  BY <1>6, <1>7

LEMMA PlanUnchanged ==
    ASSUME PlanInv, plan' = plan
    PROVE  PlanInv'
BY DEF PlanInv, PlanTypeOK

LEMMA PlanStep ==
    ASSUME PlanInv, [ParserNext]_parserVars
    PROVE  PlanInv'
<1>1. CASE UNCHANGED parserVars
  BY <1>1, PlanUnchanged DEF parserVars
<1>2. ASSUME NEW f \in Documents, StartParse(f) PROVE PlanInv'
  BY <1>2, NoPlanInvNext DEF StartParse
<1>3. CASE SendFails
  BY <1>3, PlanUnchanged DEF SendFails
<1>4. CASE Daemon
  BY <1>4, PlanUnchanged DEF Daemon, OnTimeout, OnEscalation, OnMessage, OnClose
<1>5. CASE WorkerAnswers \/ WorkerHangs \/ WorkerEnds \/ Obeys
  BY <1>5, PlanUnchanged DEF WorkerAnswers, WorkerHangs, WorkerEnds, Obeys
<1>6. CASE Extract
  BY <1>6, ExtractKeepsPlan
<1>7. CASE Planning
  BY <1>7, TakeLineKeepsPlan, CutSegmentKeepsPlan, EndLineKeepsPlan DEF Planning
<1> QED
  BY <1>1, <1>2, <1>3, <1>4, <1>5, <1>6, <1>7 DEF ParserNext

LEMMA PlanInvIsLossless == PlanInv => PlanLossless
<1> SUFFICES ASSUME PlanInv, plan.phase = "done" PROVE PlanLossless
  BY DEF PlanLossless
<1>1. Ordered(plan.out, plan.text, Len(plan.text)) /\ Whole(plan.out, plan.text, Len(plan.text))
  BY DEF PlanInv
<1>2. Len(plan.out) <= MaxCandidates
  BY <1>1 DEF Ordered
<1>3. \A k \in 1 .. Len(plan.out) :
         /\ Len(plan.out[k].text) \in 1 .. MaxCandidate
         /\ plan.out[k].line \in 1 .. Len(plan.text) /\ Imported(plan.text, plan.out[k].line)
         /\ \A m \in 1 .. k : plan.out[m].line <= plan.out[k].line
  BY <1>1 DEF Ordered
<1>4. \A i \in 1 .. Len(plan.text) :
         Imported(plan.text, i) => CutLosslessly(plan.text[i], Pieces(plan.out, i))
  BY <1>1 DEF Whole
<1> QED
  BY <1>2, <1>3, <1>4 DEF PlanLossless

\* An import plan is lossless, whatever the text, its spaces and the limits:
\* each long enough line is there once, cut into segments within the limit
\* that give its characters back in order, but for spaces (splitCandidateLine,
\* candidateLines).  A segment ends behind a space or at the limit, and only
\* the spaces in front of the rest are dropped; so the segments cut so far
\* cover the line up to the rest, and the last one completes it.
THEOREM PlanAlwaysLossless == ParserSpec => []PlanLossless
<1>1. ParserInit => PlanInv
  BY NoPlanInv DEF ParserInit
<1>2. PlanInv /\ [ParserNext]_parserVars => PlanInv'
  BY PlanStep
<1>3. PlanInv => PlanLossless
  BY PlanInvIsLossless
<1> QED
  BY <1>1, <1>2, <1>3, PTL DEF ParserSpec
=============================================================================
