---------------------------- MODULE ArtifactStore ----------------------------
(***************************************************************************)
(* The encrypted artifact vault (src/src/storage/artifact-vault.ts) under  *)
(* the authority operations that use it (src/src/daemon/authority.ts):     *)
(* artifact-import, artifact-export, credential-import-artifact,           *)
(* taxonomy-snapshot-import-artifact and credential-export-artifact.       *)
(*                                                                         *)
(* The daemon runs one request at a time.  A request that fails or whose   *)
(* daemon dies is retried under its id; replay recognises it by its        *)
(* deterministic event.  Three of the operations commit an event of their  *)
(* own under an internal request id before the command event that answers  *)
(* the request.  The vault file and the events are durable separately: a   *)
(* file survives a power loss once the entries of its path are on disk,    *)
(* each synchronised by the call that creates it and by no other, an event *)
(* as soon as it is committed (PRAGMA synchronous = FULL).                 *)
(*                                                                         *)
(* An artifact is an original or the export package of one version of the  *)
(* passport made from it; its locator is a keyed hash of its content, so   *)
(* artifacts stand for their own storage paths: objects, a shard directory *)
(* that several artifacts may share, and the file.  Receipts and the reuse *)
(* of request ids are RuntimeAuthority's.                                  *)
(***************************************************************************)
EXTENDS Naturals, FiniteSets

CONSTANTS
    Originals,    \* files the operator imports
    Oversized,    \* the ones above the configured maximum size
    ArtRequests,  \* requests: records of [op, src, version, try]
    NoArtJob,
    ShardOf(_),   \* the shard directory of an artifact
    MaxStarts,    \* bound: attempts at requests
    MaxFaults     \* bound: crashes, power losses, I/O errors, tampering

RecordOps == {"credential-import", "taxonomy-import"}

ArtOps == RecordOps \cup {"import", "export-file", "credential-export"}

ASSUME ArtifactAssumption ==
    /\ Oversized \subseteq Originals
    /\ Originals \cap {"none", "foreign", "partial"} = {}
    /\ \A r \in ArtRequests : r.op \in ArtOps /\ r.src \in Originals /\ r.version \in Nat
    /\ MaxStarts \in Nat /\ MaxFaults \in Nat

VARIABLES
    vaultFiles,   \* artifacts whose file is in the vault and authentic
    tampered,     \* artifacts whose file somebody damaged
    synced,       \* artifacts whose entry in their shard is on disk
    skipped,      \* artifacts an entry of whose path was left unsynchronised
    dirs,         \* the vault's directories: objects and the shards in it
    dirsSynced,   \* those whose own entry is on disk
    loose,        \* those whose creator was cut off before it synchronised them
    daemon,       \* "down", "opening" the vault or "up"
    artEvents,    \* committed events
    artJob,       \* the request being executed
    target,       \* what is at the path artifact-export writes to
    outcome,      \* how the last attempt at each request ended
    starts,
    artFaults

places == <<dirs, dirsSynced, loose, daemon>>

vault  == <<vaultFiles, tampered, synced, skipped, places>>

artVars == <<vault, artEvents, artJob, target, outcome, starts, artFaults>>

-----------------------------------------------------------------------------

\* An artifact is an original, or the export of a version of it.
Artifacts == [src : Originals, of : Nat]

Original(src) == [src |-> src, of |-> 0]

\* What else can be at the export path.
NoExport == [src |-> "none", of |-> 0]
Foreign == [src |-> "foreign", of |-> 0]
Partial == [src |-> "partial", of |-> 0]

ExportOf(src, version) == [src |-> src, of |-> version]

\* A request being executed: the artifact in hand, the version of the passport
\* an export packs, and the next step.
ArtSteps == {"answer", "store", "shard", "shardSync", "write", "sync", "manifest", "internal", "read", "record",
             "command", "check", "export", "verify"}

ArtJobs == [req : ArtRequests, art : Artifacts, version : Nat, step : ArtSteps]

ASSUME NoArtJobAssumption == NoArtJob \notin ArtJobs

\* Events bound to a request, by kind: "manifest", "record" or "command".
EventOf(r, kind) == {e \in artEvents : e.req = r /\ e.kind = kind}

\* The event a request is answered by: its deterministic event id.
AnswerEvent(r) == EventOf(r, IF r.op = "import" THEN "manifest" ELSE "command")

\* listArtifactManifests: the artifacts some event names.
Manifests == {e.art : e \in {x \in artEvents : x.kind = "manifest"}}

\* The records of a passport or of a taxonomy snapshot, and its version.
RecordsOf(op, src) == {e \in artEvents : e.kind = "record" /\ e.req.op = op /\ e.req.src = src}

RecordVersion(op, src) == Cardinality(RecordsOf(op, src))

Present == vaultFiles \cup tampered

\* The vault's directories by their paths.
ObjectRoot == <<"objects">>

Shard(art) == <<"objects", ShardOf(art)>>

DirsOf(art) == {ObjectRoot, Shard(art)}

\* read: the envelope decrypts under the vault key and matches the manifest.
Readable(art) == art \in vaultFiles

\* assertSize.
WithinSize(art) == art.src \notin Oversized

ArtInit ==
    /\ vaultFiles = {} /\ tampered = {} /\ synced = {} /\ skipped = {}
    /\ dirs = {} /\ dirsSynced = {} /\ loose = {}
    /\ daemon = "down"
    /\ artEvents = {}
    /\ artJob = NoArtJob
    /\ target = NoExport
    /\ outcome = [r \in ArtRequests |-> "none"]
    /\ starts = 0
    /\ artFaults = 0

Step(step) == artJob' = [artJob EXCEPT !.step = step]

End(how) ==
    /\ outcome' = [outcome EXCEPT ![artJob.req] = how]
    /\ artJob' = NoArtJob

\* The constructor of ArtifactVault, when the daemon starts: an object directory
\* that is missing is created, then its entry synchronised.
OpenVaultRoot ==
    /\ daemon = "down"
    /\ IF ObjectRoot \in dirs THEN daemon' = "up" /\ UNCHANGED dirs
       ELSE daemon' = "opening" /\ dirs' = {ObjectRoot}
    /\ UNCHANGED <<vaultFiles, tampered, synced, skipped, dirsSynced, loose, artEvents, artJob,
                   target, outcome, starts, artFaults>>

SyncVaultRoot ==
    /\ daemon = "opening"
    /\ daemon' = "up"
    /\ dirsSynced' = dirsSynced \cup {ObjectRoot}
    /\ UNCHANGED <<vaultFiles, tampered, synced, skipped, dirs, loose, artEvents, artJob,
                   target, outcome, starts, artFaults>>

\* The artifact a request stores or reads first.
Subject(r) ==
    IF r.op = "export-file" /\ r.version > 0 THEN ExportOf(r.src, r.version) ELSE Original(r.src)

\* A request reaches the authority: it replays, or its handler begins.  All
\* but artifact-import carry a manifest an earlier answer returned, except
\* credential-export, which names a passport.  Replaying an artifact-export
\* writes the file again.
BeginArt(r) ==
    /\ artJob = NoArtJob /\ daemon = "up"
    /\ starts < MaxStarts
    /\ \/ r.op = "import"
       \/ r.op = "credential-export" /\ RecordVersion("credential-import", r.src) > 0
       \/ r.op \in RecordOps \cup {"export-file"} /\ Subject(r) \in Manifests
    /\ starts' = starts + 1
    /\ outcome' = [outcome EXCEPT ![r] = "none"]
    /\ artJob' = [req |-> r, art |-> Subject(r), version |-> 0,
                  step |-> IF AnswerEvent(r) # {} /\ r.op # "export-file" THEN "answer"
                           ELSE IF r.op = "import" THEN "store"
                           ELSE IF r.op = "export-file" THEN "check" ELSE "read"]
    /\ UNCHANGED <<vault, artEvents, target, artFaults>>

\* replayOrReject returns the stored response.
Answer ==
    /\ artJob # NoArtJob /\ artJob.step = "answer"
    /\ End("answered")
    /\ UNCHANGED <<vault, artEvents, target, starts, artFaults>>

-----------------------------------------------------------------------------
\* The vault's store: deduplicate, or make the shard directory, write a temporary
\* file, rename it into place and synchronise its directory.

\* The step after the bytes are stored and verified.
AfterStore == IF artJob.req.op = "import" THEN "manifest" ELSE "internal"

Store ==
    /\ artJob # NoArtJob /\ artJob.step = "store"
    /\ \/ ~WithinSize(artJob.art) /\ End("refused")
       \/ /\ WithinSize(artJob.art) /\ artJob.art \in Present
          /\ IF Readable(artJob.art) THEN Step(AfterStore) /\ UNCHANGED outcome
             ELSE End("refused")
       \/ /\ WithinSize(artJob.art) /\ artJob.art \notin Present
          /\ Step("shard") /\ UNCHANGED outcome
    /\ UNCHANGED <<vault, artEvents, target, starts, artFaults>>

\* assertStorageHierarchy makes a shard directory that is missing.
CreateShard ==
    /\ artJob # NoArtJob /\ artJob.step = "shard"
    /\ dirs' = dirs \cup {Shard(artJob.art)}
    /\ Step(IF Shard(artJob.art) \in dirs THEN "write" ELSE "shardSync")
    /\ UNCHANGED <<vaultFiles, tampered, synced, skipped, dirsSynced, loose, daemon, artEvents,
                   target, outcome, starts, artFaults>>

\* Mutated form: the object directory is not synchronised after the mkdir.
SyncNoShard ==
    /\ artJob # NoArtJob /\ artJob.step = "shardSync"
    /\ Step("write")
    /\ UNCHANGED <<vault, artEvents, target, outcome, starts, artFaults>>

\* fsyncDirectory(objectRoot), by the call that created the shard alone: it puts
\* the entries of all shards on disk.
SyncShard ==
    /\ artJob # NoArtJob /\ artJob.step = "shardSync"
    /\ dirsSynced' = dirsSynced \cup (dirs \ {ObjectRoot})
    /\ loose' = loose \cap {ObjectRoot}
    /\ Step("write")
    /\ UNCHANGED <<vaultFiles, tampered, synced, skipped, dirs, daemon, artEvents, target,
                   outcome, starts, artFaults>>

\* The temporary file is written, synchronised and renamed into place.
Rename ==
    /\ artJob # NoArtJob /\ artJob.step = "write"
    /\ vaultFiles' = vaultFiles \cup {artJob.art}
    /\ Step("sync")
    /\ UNCHANGED <<tampered, synced, skipped, places, artEvents, target, outcome, starts, artFaults>>

\* Mutated form: the shard is not synchronised after the rename.
SyncNothing ==
    /\ artJob # NoArtJob /\ artJob.step = "sync"
    /\ Step(AfterStore)
    /\ UNCHANGED <<vault, artEvents, target, outcome, starts, artFaults>>

\* fsyncDirectory of the shard, which puts all its files' entries on disk, and
\* the verification of what was written.
SyncDirectory ==
    /\ artJob # NoArtJob /\ artJob.step = "sync"
    /\ LET there == {a \in Present : Shard(a) = Shard(artJob.art)}
       IN synced' = synced \cup there /\ skipped' = skipped \ there
    /\ Step(AfterStore)
    /\ UNCHANGED <<vaultFiles, tampered, places, artEvents, target, outcome, starts, artFaults>>

\* What the step in hand has put in place and not yet synchronised.
NewFile == IF artJob # NoArtJob /\ artJob.step = "sync" THEN {artJob.art} ELSE {}

NewDir ==
    IF daemon = "opening" THEN {ObjectRoot}
    ELSE IF artJob # NoArtJob /\ artJob.step = "shardSync" THEN {Shard(artJob.art)} ELSE {}

\* It stays unsynchronised: existsSync finds it, and nobody synchronises it again
\* unless another file, or another shard, is made beside it.
LeaveUnsynced == skipped' = skipped \cup NewFile /\ loose' = loose \cup NewDir

\* An I/O error in atomicWrite.  Before the rename the temporary file is
\* removed and the shard is left; after it the write is reported as committed
\* and the request is refused although the file is there.
WriteFails ==
    /\ artJob # NoArtJob /\ artJob.step \in {"shard", "shardSync", "write", "sync"}
    /\ artFaults < MaxFaults
    /\ artFaults' = artFaults + 1
    /\ LeaveUnsynced
    /\ End("refused")
    /\ UNCHANGED <<vaultFiles, tampered, synced, dirs, dirsSynced, daemon, artEvents, target, starts>>

-----------------------------------------------------------------------------
\* The handlers around it.

NewEvent(kind, art, version) ==
    artEvents' = artEvents \cup
        {[req |-> artJob.req, kind |-> kind, art |-> art, version |-> version]}

\* saveArtifactManifest under the request's own event: artifact-import ends.
SaveManifest ==
    /\ artJob # NoArtJob /\ artJob.step = "manifest"
    /\ NewEvent("manifest", artJob.art, 0)
    /\ End("answered")
    /\ UNCHANGED <<vault, target, starts, artFaults>>

\* vault.read of the manifest a request names, or of the passport's original,
\* which must be bound to exactly one manifest.  The export package is built
\* from the passport as it is now.
ReadOriginal ==
    /\ artJob # NoArtJob /\ artJob.step = "read"
    /\ IF artJob.art \notin Manifests \/ ~Readable(artJob.art)
       THEN End("refused")
       ELSE /\ LET v == RecordVersion("credential-import", artJob.req.src)
               IN artJob' = IF artJob.req.op = "credential-export"
                            THEN [artJob EXCEPT !.art = ExportOf(artJob.req.src, v),
                                                !.version = v, !.step = "store"]
                            ELSE [artJob EXCEPT !.step = "record"]
            /\ UNCHANGED outcome
    /\ UNCHANGED <<vault, artEvents, target, starts, artFaults>>

\* The credential or the snapshot does not parse or is not valid.
RejectContent ==
    /\ artJob # NoArtJob /\ artJob.step = "record"
    /\ EventOf(artJob.req, "record") = {}
    /\ End("refused")
    /\ UNCHANGED <<vault, artEvents, target, starts, artFaults>>

\* Mutated form: the expected version is compared before the replay.
RecordVersionFirst ==
    /\ artJob # NoArtJob /\ artJob.step = "record"
    /\ LET r == artJob.req  v == RecordVersion(r.op, r.src)
       IN IF v # r.version THEN End("refused") /\ UNCHANGED artEvents
          ELSE /\ NewEvent("record", artJob.art, v + 1)
               /\ Step("command")
               /\ UNCHANGED outcome
    /\ UNCHANGED <<vault, target, starts, artFaults>>

\* recordCredentialPassport or recordTaxonomySnapshot under an internal
\* request id: replayed when it was committed before, refused unless the
\* record is at the expected version.
RecordValue ==
    /\ artJob # NoArtJob /\ artJob.step = "record"
    /\ LET r == artJob.req  v == RecordVersion(r.op, r.src)
       IN CASE EventOf(r, "record") # {} ->
                 Step("command") /\ UNCHANGED <<artEvents, outcome>>
            [] EventOf(r, "record") = {} /\ v # r.version ->
                 End("refused") /\ UNCHANGED artEvents
            [] OTHER ->
                 /\ NewEvent("record", artJob.art, v + 1)
                 /\ Step("command")
                 /\ UNCHANGED outcome
    /\ UNCHANGED <<vault, target, starts, artFaults>>

\* ensureInternalArtifactManifest: an event committed by an earlier attempt
\* must name the manifest this attempt generated.
InternalManifest ==
    /\ artJob # NoArtJob /\ artJob.step = "internal"
    /\ LET before == EventOf(artJob.req, "manifest")
       IN CASE before = {} ->
                 /\ NewEvent("manifest", artJob.art, artJob.version)
                 /\ Step("command")
                 /\ UNCHANGED outcome
            [] \E e \in before : e.art = artJob.art ->
                 Step("command") /\ UNCHANGED <<artEvents, outcome>>
            [] OTHER -> End("refused") /\ UNCHANGED artEvents
    /\ UNCHANGED <<vault, target, starts, artFaults>>

\* recordCommand: the event that answers the request.
RecordCommand ==
    /\ artJob # NoArtJob /\ artJob.step = "command"
    /\ NewEvent("command", artJob.art, artJob.version)
    /\ End("answered")
    /\ UNCHANGED <<vault, target, starts, artFaults>>

-----------------------------------------------------------------------------
\* exportArtifactToFile.

\* An export that ends: a fresh one records its command, a replay answers.
ExportDone == Step(IF AnswerEvent(artJob.req) = {} THEN "command" ELSE "answer")

\* verifyExisting before the write: absent, exactly the artifact, or refused.
\* An artifact that is absent from the path is then read from the vault.
CheckTarget ==
    /\ artJob # NoArtJob /\ artJob.step = "check"
    /\ CASE target = artJob.art -> ExportDone /\ UNCHANGED outcome
         [] target = NoExport /\ Readable(artJob.art) -> Step("export") /\ UNCHANGED outcome
         [] OTHER -> End("refused")
    /\ UNCHANGED <<vault, artEvents, target, starts, artFaults>>

\* writeFileSync with flag wx: EEXIST is verified like an existing target.
ExportFile ==
    /\ artJob # NoArtJob /\ artJob.step = "export"
    /\ CASE target = NoExport -> target' = artJob.art /\ Step("verify") /\ UNCHANGED outcome
         [] target = artJob.art -> ExportDone /\ UNCHANGED <<target, outcome>>
         [] OTHER -> End("refused") /\ UNCHANGED target
    /\ UNCHANGED <<vault, artEvents, starts, artFaults>>

\* verifyExisting after the write.
VerifyTarget ==
    /\ artJob # NoArtJob /\ artJob.step = "verify"
    /\ IF target = artJob.art THEN ExportDone /\ UNCHANGED outcome ELSE End("refused")
    /\ UNCHANGED <<vault, artEvents, target, starts, artFaults>>

-----------------------------------------------------------------------------
\* Faults.

ArtFault == artFaults < MaxFaults /\ artFaults' = artFaults + 1

\* The daemon dies, as it opens the vault or executes a request.  What was made
\* keeps an unsynchronised entry, an export in progress leaves part of the file.
Killed ==
    /\ artJob # NoArtJob \/ daemon = "opening"
    /\ ArtFault
    /\ LeaveUnsynced
    /\ artJob' = NoArtJob /\ daemon' = "down"
    /\ target' \in IF artJob # NoArtJob /\ artJob.step = "export" /\ target = NoExport
                   THEN {NoExport, Partial} ELSE {target}
    /\ UNCHANGED <<vaultFiles, tampered, synced, dirs, dirsSynced, artEvents, outcome, starts>>

\* Power is lost: any entry not synchronised may be gone, and with a directory
\* goes all that is in it.
PowerLoss ==
    /\ ArtFault
    /\ artJob' = NoArtJob /\ daemon' = "down"
    /\ \E goneFiles \in SUBSET (Present \ synced), goneDirs \in SUBSET (dirs \ dirsSynced) :
         LET gone == goneFiles \cup {a \in Present : DirsOf(a) \cap goneDirs # {}}
             left == IF ObjectRoot \in goneDirs THEN {} ELSE dirs \ goneDirs
         IN /\ vaultFiles' = vaultFiles \ gone
            /\ tampered' = tampered \ gone
            /\ synced' = synced \ gone
            /\ dirs' = left
            /\ dirsSynced' = dirsSynced \cap left
            /\ loose' = (loose \cup NewDir) \cap left
            /\ skipped' = skipped \cup NewFile
                          \cup {a \in gone : DirsOf(a) \cap (loose \cup NewDir) # {}}
    /\ UNCHANGED <<artEvents, target, outcome, starts>>

\* Somebody damages a vault file.
Tamper(art) ==
    /\ ArtFault
    /\ vaultFiles' = vaultFiles \ {art}
    /\ tampered' = tampered \cup {art}
    /\ UNCHANGED <<synced, skipped, places, artEvents, artJob, target, outcome, starts>>

\* The operator creates or removes a file at the export path.
OperatorFile(what) ==
    /\ ArtFault
    /\ target # what
    /\ target' = what
    /\ UNCHANGED <<vault, artEvents, artJob, outcome, starts>>

-----------------------------------------------------------------------------

Handle ==
    \/ Answer \/ Store \/ CreateShard \/ SyncShard \/ Rename \/ SyncDirectory \/ SaveManifest
    \/ ReadOriginal \/ RecordValue \/ InternalManifest \/ RecordCommand
    \/ CheckTarget \/ ExportFile \/ VerifyTarget

ArtNext ==
    \/ OpenVaultRoot \/ SyncVaultRoot
    \/ \E r \in ArtRequests : BeginArt(r)
    \/ Handle
    \/ WriteFails \/ RejectContent \/ Killed \/ PowerLoss
    \/ \E art \in vaultFiles : Tamper(art)
    \/ \E what \in {NoExport, Foreign} : OperatorFile(what)

ArtSpec == ArtInit /\ [][ArtNext]_artVars

-----------------------------------------------------------------------------
\* Properties.

\* Every artifact a committed manifest names is in the vault and authentic,
\* through kills, power losses and failed writes, unless somebody damaged its
\* file or an entry of its path was left unsynchronised when the call that made
\* it was cut off: a later store finds the file, the shard or the object
\* directory and does not synchronise it again.
RecordedReadable == Manifests \subseteq vaultFiles \cup tampered \cup skipped

\* An attempt that had committed an event before.
Begun(r) == EventOf(r, "record") # {} \/ (r.op = "credential-export" /\ EventOf(r, "manifest") # {})

\* The passport has a newer version than the one a begun export packed.
PassportMoved(r) ==
    /\ r.op = "credential-export"
    /\ \E e \in EventOf(r, "manifest") : e.version < RecordVersion("credential-import", r.src)

\* A request of two events whose first one is committed is completed by its
\* retries: an attempt is refused only when an artifact it needs was damaged or
\* lost by then or, for a credential export, when the passport was imported
\* again in between (every later retry is then refused).
BegunCompletes ==
    [][\A r \in ArtRequests :
        outcome[r] # "refused" /\ outcome'[r] = "refused" /\ Begun(r)
        => \/ \E art \in tampered' \cup skipped' : art.src = r.src
           \/ PassportMoved(r)]_artVars
=============================================================================
