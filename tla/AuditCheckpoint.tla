---------------------------- MODULE AuditCheckpoint ----------------------------
(***************************************************************************)
(* Signed audit checkpoints (src/src/security/audit-checkpoint.ts).        *)
(*                                                                         *)
(* A checkpoint row binds the event chain head and the digest of the       *)
(* previous checkpoint; the digest of the latest one is kept outside the   *)
(* database, in the credential store.  vocationd verifies both at start    *)
(* and before every mutation, so that a database replaced by an older copy *)
(* is refused.  createSignedCheckpoint writes the row first and the        *)
(* external digest second: the process may die, and the credential store   *)
(* may fail, between the two.                                              *)
(*                                                                         *)
(* SHA-256 is assumed injective: the hash of an event chain is the chain,  *)
(* the digest of a checkpoint is the chain of checkpoint bodies up to it.  *)
(* Ed25519 signatures cannot be forged: a damaged row is one whose         *)
(* signature no longer verifies.  The event chain itself is EventStore's   *)
(* subject; here the database is its events and its checkpoints.           *)
(***************************************************************************)
EXTENDS Naturals, Sequences, FiniteSets

CONSTANTS
    Events,       \* contents of an event other than a checkpoint-create
    RequestIds,   \* ids of checkpoint-create requests
    NoDigest,     \* no digest retained in the credential store
    MaxHistory,   \* bound: length of the event chain
    MaxFaults,    \* bound: crashes and failed credential writes
    MaxTampering  \* bound: replaced databases and damaged rows

ASSUME CheckpointAssumption ==
    /\ MaxHistory \in Nat /\ MaxFaults \in Nat /\ MaxTampering \in Nat
    /\ Events \cap RequestIds = {}

VARIABLES
    db,           \* the database: [events, checkpoints]
    digest,       \* latest-checkpoint-digest in the credential store
    running,      \* is vocationd running
    create,       \* progress of createSignedCheckpoint
    answered,     \* checkpoint bodies checkpoint-create has answered with
    images,       \* contents the database has had (copies may exist)
    faults, tampering,
    torn          \* a fault struck between the row and the external digest

checkpointVars == <<db, digest, running, create, answered, images, faults, tampering, torn>>

-----------------------------------------------------------------------------

CHECKPOINT_GENESIS == <<>>

chainHead(image) == [count |-> Len(image.events), hash |-> image.events]

checkpointDigest(record) == Append(record.prev, record.body)

LatestDigest(image) ==
    IF image.checkpoints = <<>> THEN NoDigest
    ELSE checkpointDigest(image.checkpoints[Len(image.checkpoints)])

\* The latest checkpoint against the current event chain head.
Compatible(image) ==
    image.checkpoints # <<>> =>
        LET latest == image.checkpoints[Len(image.checkpoints)].body IN
        /\ latest.count <= chainHead(image).count
        /\ latest.count = chainHead(image).count => latest.head = chainHead(image).hash

verifyCheckpointRecords(image) ==
    LET rows == image.checkpoints IN
    /\ \A i \in DOMAIN rows :
          /\ rows[i].prev = IF i = 1 THEN CHECKPOINT_GENESIS ELSE checkpointDigest(rows[i - 1])
          /\ i > 1 => rows[i].body.count >= rows[i - 1].body.count
          /\ rows[i].body.signed
    /\ Compatible(image)

\* Mutated form: the digest retained outside the database is not compared.
verifyCheckpointChainInternal(image, external) == verifyCheckpointRecords(image)

verifyCheckpointChain(image, external) ==
    /\ verifyCheckpointRecords(image)
    /\ external = LatestDigest(image)

NoCreate == [step |-> "idle"]

CheckpointIds(image) == {image.checkpoints[i].body.id : i \in DOMAIN image.checkpoints}

\* The unsigned record createSignedCheckpoint builds, with its signature.
NewCheckpoint(image, id) ==
    [body |-> [id |-> id, count |-> chainHead(image).count, head |-> chainHead(image).hash,
               signed |-> TRUE],
     prev |-> IF image.checkpoints = <<>> THEN CHECKPOINT_GENESIS ELSE LatestDigest(image)]

\* The event chain has advanced since the latest checkpoint.
Advanced(image) ==
    image.checkpoints # <<>> =>
        LET latest == image.checkpoints[Len(image.checkpoints)].body
        IN [count |-> latest.count, hash |-> latest.head] # chainHead(image)

-----------------------------------------------------------------------------

EmptyImage == [events |-> <<>>, checkpoints |-> <<>>]

CheckpointInit ==
    /\ db = EmptyImage
    /\ digest = NoDigest
    /\ running = FALSE
    /\ create = NoCreate
    /\ answered = {}
    /\ images = {EmptyImage}
    /\ faults = 0
    /\ tampering = 0
    /\ torn = FALSE

AppendTo(e) == db' = [db EXCEPT !.events = Append(@, e)]

\* vocationd start: the store is opened and the checkpoint chain verified.
Start ==
    /\ ~running
    /\ verifyCheckpointChain(db, digest)
    /\ running' = TRUE
    /\ UNCHANGED <<db, digest, create, answered, images, faults, tampering, torn>>

\* Mutated form: the chain is verified at start only.
MutateUnverified(e) ==
    /\ running
    /\ create = NoCreate
    /\ Len(db.events) < MaxHistory
    /\ AppendTo(e)
    /\ images' = images \cup {db'}
    /\ UNCHANGED <<digest, running, create, answered, faults, tampering, torn>>

\* Any mutating authority operation: verify the chain, then append.
Mutate(e) ==
    /\ running
    /\ create = NoCreate
    /\ Len(db.events) < MaxHistory
    /\ verifyCheckpointChain(db, digest)
    /\ AppendTo(e)
    /\ images' = images \cup {db'}
    /\ UNCHANGED <<digest, running, create, answered, faults, tampering, torn>>

\* checkpoint-create of a request that is not yet recorded (replayOrReject):
\* verify, look for the checkpoint id, require advancement, sign.
BeginCheckpoint(id) ==
    /\ running
    /\ create = NoCreate
    /\ \A i \in DOMAIN db.events : db.events[i] # id
    /\ Len(db.events) < MaxHistory
    /\ verifyCheckpointChain(db, digest)
    /\ \/ /\ id \in CheckpointIds(db)
          /\ LET i == CHOOSE i \in DOMAIN db.checkpoints : db.checkpoints[i].body.id = id
             IN create' = [step |-> "record", record |-> db.checkpoints[i]]
       \/ /\ id \notin CheckpointIds(db)
          /\ Advanced(db)
          /\ create' = [step |-> "save", record |-> NewCheckpoint(db, id)]
    /\ UNCHANGED <<db, digest, running, answered, images, faults, tampering, torn>>

\* saveSignedCheckpoint.
SaveCheckpoint ==
    /\ running
    /\ create.step = "save"
    /\ db' = [db EXCEPT !.checkpoints = Append(@, create.record)]
    /\ create' = [create EXCEPT !.step = "digest"]
    /\ images' = images \cup {db'}
    /\ UNCHANGED <<digest, running, answered, faults, tampering, torn>>

\* Mutated form: the digest of the previous checkpoint is retained.
SetDigestStale ==
    /\ running
    /\ create.step = "digest"
    /\ digest' = create.record.prev
    /\ create' = [create EXCEPT !.step = "verify"]
    /\ UNCHANGED <<db, running, answered, images, faults, tampering, torn>>

\* credentialStore.set of the new digest.
SetDigest ==
    /\ running
    /\ create.step = "digest"
    /\ digest' = checkpointDigest(create.record)
    /\ create' = [create EXCEPT !.step = "verify"]
    /\ UNCHANGED <<db, running, answered, images, faults, tampering, torn>>

\* credentialStore.set throws: the request is refused, the row stays.
SetDigestFails ==
    /\ running
    /\ create.step = "digest"
    /\ faults < MaxFaults
    /\ faults' = faults + 1
    /\ create' = NoCreate
    /\ torn' = TRUE
    /\ UNCHANGED <<db, digest, running, answered, images, tampering>>

\* The final verification of createSignedCheckpoint.
VerifyCreated ==
    /\ running
    /\ create.step = "verify"
    /\ create' = IF verifyCheckpointChain(db, digest)
                 THEN [create EXCEPT !.step = "record"] ELSE NoCreate
    /\ UNCHANGED <<db, digest, running, answered, images, faults, tampering, torn>>

\* recordCommand appends the event of the request, which is then answered.
RecordCheckpoint ==
    /\ running
    /\ create.step = "record"
    /\ AppendTo(create.record.body.id)
    /\ answered' = answered \cup {create.record.body}
    /\ create' = NoCreate
    /\ images' = images \cup {db'}
    /\ UNCHANGED <<digest, running, faults, tampering, torn>>

Stop ==
    /\ running
    /\ create = NoCreate
    /\ running' = FALSE
    /\ UNCHANGED <<db, digest, create, answered, images, faults, tampering, torn>>

Crash ==
    /\ running
    /\ faults < MaxFaults
    /\ faults' = faults + 1
    /\ running' = FALSE
    /\ create' = NoCreate
    /\ torn' = (torn \/ create.step = "digest")
    /\ UNCHANGED <<db, digest, answered, images, tampering>>

\* The database file is replaced by an older copy of itself.
ReplaceDatabase(image) ==
    /\ ~running
    /\ tampering < MaxTampering
    /\ image # db
    /\ db' = image
    /\ tampering' = tampering + 1
    /\ UNCHANGED <<digest, running, create, answered, images, faults, torn>>

\* A checkpoint row is lost or damaged while no checkpoint is being created.
DamageCheckpoint(i) ==
    /\ create = NoCreate
    /\ tampering < MaxTampering
    /\ \/ db' = [db EXCEPT !.checkpoints =
                   [j \in 1 .. Len(@) - 1 |-> IF j < i THEN @[j] ELSE @[j + 1]]]
       \/ db' = [db EXCEPT !.checkpoints[i].body.signed = FALSE]
    /\ tampering' = tampering + 1
    /\ UNCHANGED <<digest, running, create, answered, images, faults, torn>>

CheckpointNext ==
    \/ Start
    \/ \E e \in Events : Mutate(e)
    \/ \E id \in RequestIds : BeginCheckpoint(id)
    \/ SaveCheckpoint \/ SetDigest \/ SetDigestFails \/ VerifyCreated
    \/ RecordCheckpoint
    \/ Stop \/ Crash
    \/ \E image \in images : ReplaceDatabase(image)
    \/ \E i \in DOMAIN db.checkpoints : DamageCheckpoint(i)

CheckpointSpec == CheckpointInit /\ [][CheckpointNext]_checkpointVars

-----------------------------------------------------------------------------

Contents == Events \cup RequestIds

CheckpointBodies == [id : RequestIds, count : Nat, head : Seq(Contents), signed : BOOLEAN]

Checkpoints == [body : CheckpointBodies, prev : Seq(CheckpointBodies)]

Images == [events : Seq(Contents), checkpoints : Seq(Checkpoints)]

ASSUME NoDigestAssumption == NoDigest \notin Seq(CheckpointBodies)

(* The type invariant of the checkpoint subsystem.                           *)
CheckpointTypeOK ==
    /\ db \in Images
    /\ digest \in Seq(CheckpointBodies) \cup {NoDigest}
    /\ running \in BOOLEAN
    /\ create \in {NoCreate} \cup [step : {"save", "digest", "verify", "record"}, record : Checkpoints]
    /\ answered \subseteq CheckpointBodies
    /\ images \subseteq Images
    /\ faults \in 0 .. MaxFaults
    /\ tampering \in 0 .. MaxTampering
    /\ torn \in BOOLEAN

Covers(image, body) ==
    /\ \E i \in DOMAIN image.checkpoints : image.checkpoints[i].body = body
    /\ body.count <= Len(image.events)
    /\ SubSeq(image.events, 1, body.count) = body.head

(* A database that passes verification holds every checkpoint the daemon has *)
(* ever answered with, and the whole history each of them signed: replacing  *)
(* the file by any older copy, or losing checkpoint rows, cannot bring back  *)
(* a state before an acknowledged checkpoint ("This detects database         *)
(* rollback", ARCHITECTURE.md:75).                                           *)
VerifiedHoldsAcked ==
    verifyCheckpointChain(db, digest) => \A body \in answered : Covers(db, body)

(* The daemon never extends a history that lacks an acknowledged checkpoint, *)
(* whatever happened to the file while it was running or stopped.            *)
NeverExtendsRolledBack ==
    [][Len(db'.events) > Len(db.events) /\ tampering' = tampering
         => \A body \in answered : Covers(db', body)]_checkpointVars

(* Ordinary use never locks the user out: unless the file was tampered with  *)
(* or a fault struck between the row and the external digest, the chain      *)
(* verifies whenever no checkpoint is being created.                         *)
NeverLocksItselfOut ==
    tampering = 0 /\ ~torn /\ create.step \in {"idle", "save", "record"} =>
        verifyCheckpointChain(db, digest)

(* The digest of the latest checkpoint is the one retained outside SQLite    *)
(* ("The latest digest is retained in the credential provider outside        *)
(* SQLite", ARCHITECTURE.md:75), whenever no request is being executed and   *)
(* nobody touched the file.                                                  *)
LatestDigestRetained ==
    tampering = 0 /\ create = NoCreate => digest = LatestDigest(db)

(* Verification at start and before a mutation decides exactly what it is    *)
(* for: it accepts what ordinary use leaves behind, and nothing that lacks   *)
(* an acknowledged checkpoint.                                               *)
CheckpointsDecide == CheckpointTypeOK /\ VerifiedHoldsAcked /\ NeverLocksItselfOut
=============================================================================
