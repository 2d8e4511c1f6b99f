---------------------------- MODULE SingleInstance ----------------------------
(***************************************************************************)
(* The single instance lock (src/src/runtime/single-instance.ts) and the   *)
(* life of the processes that take it: vocationd (src/src/vocationd.ts,    *)
(* src/src/daemon/server.ts) and the offline commands of the CLI that open *)
(* the store themselves (withExclusiveStore, storeRestore, storeRollback). *)
(*                                                                         *)
(* A process looks at the lock file, probes the daemon's socket, moves a   *)
(* stale lock aside, and creates its own with O_EXCL.  Every one of these  *)
(* is a separate system call, so that processes interleave between them;   *)
(* only O_EXCL creation, rename and unlink are atomic.  A process may die  *)
(* anywhere.  The process id is the owner token: a process acquires the    *)
(* lock at most once, and process ids are not reused.  The endpoint is the *)
(* path of a Unix socket.                                                  *)
(***************************************************************************)
EXTENDS Naturals, FiniteSets

CONSTANTS
    Daemons,      \* processes running vocationd
    Tools,        \* processes running an offline CLI command
    NoFile,       \* the absence of a file
    Crashing,     \* processes that may die
    MaxCrashes    \* bound: how many of them die

ASSUME InstanceAssumption ==
    /\ Daemons \cap Tools = {}
    /\ NoFile \notin Daemons \cup Tools
    /\ MaxCrashes \in Nat

VARIABLES
    lock,         \* the lock file: its owner and whether the record is written
    seen,         \* the owner each process has read in the lock file it looks at
    aside,        \* the lock file each process has moved aside
    displaced,    \* a ghost: the processes whose lock file another one took from
                  \* the lock path while they were alive
    socket,       \* which process has bound the endpoint path
    pc,           \* where each process is
    writers,      \* processes that have the event store open
    crashes

vars == <<lock, seen, aside, displaced, socket, pc, writers, crashes>>

-----------------------------------------------------------------------------

Procs == Daemons \cup Tools

Locks == [owner : Procs, written : BOOLEAN]

ASSUME AbsenceAssumption == NoFile \notin Locks

processIsAlive(p) == pc[p] \notin {"new", "gone", "dead"}

\* A connection to the endpoint path is accepted.
endpointReachable == socket # NoFile /\ pc[socket] = "serving"

Acquiring == {"read", "check", "probeFree", "probeStale", "rename", "create", "putBack",
              "putBackRename", "write"}

\* From the return of acquireSingleInstanceLock to the end of release.
Holding == {"held", "operate", "bind", "probeSocket", "rmSocket", "listen", "serving",
            "closing", "rmEndpoint", "abort", "release", "unlink"}

Init ==
    /\ lock = NoFile
    /\ seen = [p \in Procs |-> NoFile]
    /\ aside = [p \in Procs |-> NoFile]
    /\ displaced = {}
    /\ socket = NoFile
    /\ pc = [p \in Procs |-> "new"]
    /\ writers = {}
    /\ crashes = 0

Goto(p, step) == pc' = [pc EXCEPT ![p] = step]

\* acquireSingleInstanceLock: existsSync of the lock path.
Look(p) ==
    /\ pc[p] = "new"
    /\ Goto(p, IF lock = NoFile THEN "probeFree" ELSE "read")
    /\ UNCHANGED <<lock, seen, aside, displaced, socket, writers, crashes>>

\* parseLock refuses a file that is not there any more or not yet written.
ReadLock(p) ==
    /\ pc[p] = "read"
    /\ IF lock = NoFile \/ ~lock.written
       THEN Goto(p, "gone") /\ UNCHANGED seen
       ELSE Goto(p, "check") /\ seen' = [seen EXCEPT ![p] = lock.owner]
    /\ UNCHANGED <<lock, aside, displaced, socket, writers, crashes>>

\* The owner may have ended, in order or not, since its file was read.
CheckOwner(p) ==
    /\ pc[p] = "check"
    /\ Goto(p, IF processIsAlive(seen[p]) THEN "gone" ELSE "probeStale")
    /\ seen' = [seen EXCEPT ![p] = NoFile]
    /\ UNCHANGED <<lock, aside, displaced, socket, writers, crashes>>

Probe(p) ==
    /\ \/ endpointReachable /\ pc[p] \in {"probeFree", "probeStale"} /\ Goto(p, "gone")
       \/ ~endpointReachable /\ pc[p] = "probeFree" /\ Goto(p, "create")
       \/ ~endpointReachable /\ pc[p] = "probeStale" /\ Goto(p, "rename")
    /\ UNCHANGED <<lock, seen, aside, displaced, socket, writers, crashes>>

\* A rename takes this file from the lock path.
Displaces(file) ==
    displaced' = IF file # NoFile /\ processIsAlive(file.owner)
                 THEN displaced \cup {file.owner} ELSE displaced

\* renameSync of the lock path, whatever file it names by now.
RenameStale(p) ==
    /\ pc[p] = "rename"
    /\ \/ lock = NoFile /\ Goto(p, "gone") /\ UNCHANGED <<lock, aside>>
       \/ /\ lock # NoFile
          /\ aside' = [aside EXCEPT ![p] = lock]
          /\ lock' = NoFile
          /\ Goto(p, "create")
    /\ Displaces(lock)
    /\ UNCHANGED <<seen, socket, writers, crashes>>

\* Mutated form: the lock file is opened with "w" in place of "wx".
CreateLockOverwriting(p) ==
    /\ pc[p] = "create"
    /\ lock' = [owner |-> p, written |-> FALSE]
    /\ Goto(p, "write")
    /\ UNCHANGED <<seen, aside, displaced, socket, writers, crashes>>

\* createLock: openSync with "wx".
CreateLock(p) ==
    /\ pc[p] = "create"
    /\ \/ /\ lock = NoFile
          /\ lock' = [owner |-> p, written |-> FALSE]
          /\ Goto(p, "write")
       \/ /\ lock # NoFile
          /\ Goto(p, IF aside[p] = NoFile THEN "gone" ELSE "putBack")
          /\ UNCHANGED lock
    /\ UNCHANGED <<seen, aside, displaced, socket, writers, crashes>>

\* Creation failed: existsSync of the lock path.
LookAgain(p) ==
    /\ pc[p] = "putBack"
    /\ Goto(p, IF lock = NoFile THEN "putBackRename" ELSE "gone")
    /\ UNCHANGED <<lock, seen, aside, displaced, socket, writers, crashes>>

\* The stale lock is put back; the rename replaces a file created since.
PutBack(p) ==
    /\ pc[p] = "putBackRename"
    /\ lock' = aside[p]
    /\ Displaces(lock)
    /\ Goto(p, "gone")
    /\ UNCHANGED <<seen, aside, socket, writers, crashes>>

Written(file, p) ==
    IF file # NoFile /\ file.owner = p THEN [file EXCEPT !.written = TRUE] ELSE file

\* createLock: the record is written through the descriptor, wherever the file
\* has been moved to.
WriteLock(p) ==
    /\ pc[p] = "write"
    /\ lock' = Written(lock, p)
    /\ aside' = [q \in Procs |-> Written(aside[q], p)]
    /\ Goto(p, "held")
    /\ UNCHANGED <<seen, displaced, socket, writers, crashes>>

-----------------------------------------------------------------------------

\* The store is opened and verified.
OpenStore(p) ==
    /\ pc[p] = "held"
    /\ writers' = writers \cup {p}
    /\ Goto(p, IF p \in Daemons THEN "bind" ELSE "operate")
    /\ UNCHANGED <<lock, seen, aside, displaced, socket, crashes>>

\* Recovery, opening or verification throws.
OpenFails(p) ==
    /\ pc[p] = "held"
    /\ Goto(p, "release")
    /\ UNCHANGED <<lock, seen, aside, displaced, socket, writers, crashes>>

\* startDaemonServer: existsSync of the endpoint path, and a probe of it.
LookForSocket(p) ==
    /\ pc[p] = "bind"
    /\ Goto(p, IF socket = NoFile THEN "listen" ELSE "probeSocket")
    /\ UNCHANGED <<lock, seen, aside, displaced, socket, writers, crashes>>

ProbeSocket(p) ==
    /\ pc[p] = "probeSocket"
    /\ Goto(p, IF endpointReachable THEN "abort" ELSE "rmSocket")
    /\ UNCHANGED <<lock, seen, aside, displaced, socket, writers, crashes>>

RmSocket(p) ==
    /\ pc[p] = "rmSocket"
    /\ Goto(p, IF socket = NoFile THEN "abort" ELSE "listen")
    /\ socket' = NoFile
    /\ UNCHANGED <<lock, seen, aside, displaced, writers, crashes>>

Listen(p) ==
    /\ pc[p] = "listen"
    /\ Goto(p, IF socket = NoFile THEN "serving" ELSE "abort")
    /\ socket' = IF socket = NoFile THEN p ELSE socket
    /\ UNCHANGED <<lock, seen, aside, displaced, writers, crashes>>

\* main's catch, and the end of an offline command: the store is closed first.
CloseThenRelease(p) ==
    /\ pc[p] \in {"abort", "operate"}
    /\ writers' = writers \ {p}
    /\ Goto(p, "release")
    /\ UNCHANGED <<lock, seen, aside, displaced, socket, crashes>>

\* server.close: closing the handle ends the listening and unlinks its path.
StopListening(p) ==
    /\ pc[p] = "serving"
    /\ socket' = NoFile
    /\ Goto(p, "closing")
    /\ UNCHANGED <<lock, seen, aside, displaced, writers, crashes>>

\* The connections have ended: existsSync of the endpoint path, which another
\* daemon may have bound.
LookForEndpoint(p) ==
    /\ pc[p] = "closing"
    /\ Goto(p, IF socket = NoFile THEN "release" ELSE "rmEndpoint")
    /\ UNCHANGED <<lock, seen, aside, displaced, socket, writers, crashes>>

\* rmSync of the endpoint path.  When the path has gone it throws, and the
\* process ends with the lock file in place.
RmEndpoint(p) ==
    /\ pc[p] = "rmEndpoint"
    /\ socket' = NoFile
    /\ IF socket = NoFile
       THEN Goto(p, "gone") /\ writers' = writers \ {p}
       ELSE Goto(p, "release") /\ UNCHANGED writers
    /\ UNCHANGED <<lock, seen, aside, displaced, crashes>>

\* release: the lock file still carries this process's record.
Owned(p) == lock # NoFile /\ lock.written /\ lock.owner = p

\* release throws: the process ends without removing the lock.
ReleaseThrows(p) ==
    /\ pc[p] = "release"
    /\ ~Owned(p)
    /\ writers' = writers \ {p}
    /\ Goto(p, "gone")
    /\ UNCHANGED <<lock, seen, aside, displaced, socket, crashes>>

Release(p) ==
    /\ pc[p] = "release"
    /\ Owned(p)
    /\ Goto(p, "unlink")
    /\ UNCHANGED <<lock, seen, aside, displaced, socket, writers, crashes>>

\* Mutated form: the endpoint path is removed after the lock.
UnlinkBeforeEndpoint(p) ==
    /\ pc[p] = "unlink"
    /\ lock' = NoFile
    /\ Goto(p, "rmEndpoint")
    /\ UNCHANGED <<seen, aside, displaced, socket, writers, crashes>>

\* rmSync of the lock path.
Unlink(p) ==
    /\ pc[p] = "unlink"
    /\ lock' = NoFile
    /\ Goto(p, IF p \in writers THEN "closeStore" ELSE "gone")
    /\ UNCHANGED <<seen, aside, displaced, socket, writers, crashes>>

\* shutdown closes the store after server.close has released the lock.
CloseStore(p) ==
    /\ pc[p] = "closeStore"
    /\ writers' = writers \ {p}
    /\ Goto(p, "gone")
    /\ UNCHANGED <<lock, seen, aside, displaced, socket, crashes>>

Crash(p) ==
    /\ p \in Crashing
    /\ processIsAlive(p)
    /\ crashes < MaxCrashes
    /\ crashes' = crashes + 1
    /\ writers' = writers \ {p}
    /\ Goto(p, "dead")
    /\ UNCHANGED <<lock, seen, aside, displaced, socket>>

Step(p) ==
    \/ Look(p) \/ ReadLock(p) \/ CheckOwner(p) \/ Probe(p) \/ RenameStale(p)
    \/ CreateLock(p) \/ LookAgain(p) \/ PutBack(p) \/ WriteLock(p)
    \/ OpenStore(p) \/ OpenFails(p)
    \/ LookForSocket(p) \/ ProbeSocket(p) \/ RmSocket(p) \/ Listen(p)
    \/ StopListening(p) \/ LookForEndpoint(p) \/ RmEndpoint(p)
    \/ CloseThenRelease(p) \/ ReleaseThrows(p) \/ Release(p) \/ Unlink(p) \/ CloseStore(p)

Next == \E p \in Procs : Step(p) \/ Crash(p)

Spec == Init /\ [][Next]_vars

-----------------------------------------------------------------------------

Steps == Acquiring \cup Holding \cup {"new", "closeStore", "gone", "dead"}

(* The type invariant of the lock, the endpoint and the processes.           *)
TypeOK ==
    /\ lock \in Locks \cup {NoFile}
    /\ seen \in [Procs -> Procs \cup {NoFile}]
    /\ aside \in [Procs -> Locks \cup {NoFile}]
    /\ displaced \subseteq Procs
    /\ socket \in Procs \cup {NoFile}
    /\ pc \in [Procs -> Steps]
    /\ writers \subseteq Procs
    /\ crashes \in 0 .. MaxCrashes

(* Two processes never hold the lock at once ("an exclusive process lock",   *)
(* THREAT_MODEL.md:47).                                                      *)
LockExclusive == \A p, q \in Procs : pc[p] \in Holding /\ pc[q] \in Holding => p = q

(* Two processes never have the store open at once ("vocationd is a single   *)
(* writer", RELEASE_VALIDATION.md:147).                                      *)
SingleWriter == Cardinality(writers) <= 1

(* Of two processes that have the store open, one has released the lock and  *)
(* only has the store to close.                                              *)
OverlapOnlyClosing ==
    \A p, q \in writers : p # q => pc[p] = "closeStore" \/ pc[q] = "closeStore"

(* The one way to lose exclusion, whatever starts, ends or dies in whatever  *)
(* order, is a rename that takes a live process's file from the lock path:   *)
(* when it was taken for stale, or when a stale one is put back over it      *)
(* (single-instance.ts:110-116).                                             *)
InstanceExclusive == TypeOK /\ (displaced = {} => LockExclusive /\ OverlapOnlyClosing)

(* A serving daemon can be reached: unless a live lock was displaced nobody  *)
(* else removes or rebinds its endpoint path, not even a daemon that is      *)
(* still stopping, and its lock file stays in place under it                 *)
(* (server.ts:231-236).                                                      *)
ServingIsReachable ==
    displaced = {} =>
        \A p \in Daemons : pc[p] = "serving" =>
            socket = p /\ lock = [owner |-> p, written |-> TRUE]
=============================================================================
