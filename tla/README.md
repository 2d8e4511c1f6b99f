# A TLA+ verification of VocationOS

VocationOS is a local career assistant. A daemon (`vocationd`) owns an encrypted,
hash-chained event store and is its only writer; a command line, a terminal UI, a
workbench, an MCP server and an SDK talk to it over an authenticated local socket.
Offline commands of the CLI open the same store when no daemon runs, to back it up
or to replace it. Anything that leaves the machine (fetching a job posting, sending
an application) passes gates: signed approvals, network grants, a policy evaluator.

These modules model the parts where an interleaving, a crash or a long sequence of
legal calls could break a promise of the documents. Source paths below are relative
to `src/`; `PROJECT.json` maps every definition to its lines.

## Inventory

| Part | State | Operations | Hard behaviour | What makes it correct |
|---|---|---|---|---|
| Encrypted event store (`storage/encrypted-event-store.ts`, `migrations.ts`) | rows, an authenticated chain head, snapshots, receipts, imports | `append`, `readAll`, `readAggregate`, `saveSnapshot`, `loadSnapshot`, `open` with migrations, `close` | overlapping async calls, death around a commit or in a migration, damage of the file | one chain, acknowledged events stay, damage is noticed, a sound store reads and opens again |
| Runtime authority (`daemon/authority.ts`, repositories) | events by request id, receipts, versioned records, runtime config | about 60 operations in six families; replay | lost answers, retries, death between event and receipt | a request id is decided once and always answered alike; no lost update |
| IPC session and authority queue (`ipc/*.ts`, `daemon/server.ts`) | sockets, two counters, frame queues, a promise chain | accept, handshake, request, respond, time out, close, `daemon-stop` | pools at their limit, peers that fall silent or leave at any point | exact counters; nobody is locked out or starves; a stop stops |
| Single instance lock (`runtime/single-instance.ts`, `vocationd.ts`) | lock file, socket path, open store | acquire, recover a stale lock, bind, serve, remove the endpoint, release, close | several starters, a daemon that stops while another starts, crashes, order of shutdown | one holder, one serving daemon that can be reached, one writer |
| Audit checkpoints (`security/audit-checkpoint.ts`) | signed checkpoint chain, latest digest in the credential store | create, verify (at start and before every mutation) | two stores written one after the other; an older file put back | a rolled back history is never accepted or extended; no lock-out |
| Backup and restore (`storage/encrypted-backup.ts`, `operation-journal.ts`, `cli.ts`) | database, write-ahead log, rollback image, staging file, journal, digest | backup, restore, rollback, recovery at every start | a kill between two renames, a step that fails, two systems to undo | the previous content survives; the journal is true; the store starts again |
| Credential store (`security/credential-store.ts`) | an encrypted file read and written whole, or the OS key ring | open, get, set, delete, create if missing | a write that fails after memory changed; two processes with a copy each | what was sealed opens again |
| Artifact vault (`storage/artifact-vault.ts`, its operations in `authority.ts`) | sealed files in shard directories, manifest events, exported files | import, read, export, retry | death or power loss between file, directory and event; internal events before the command's own | a recorded artifact is readable; a begun request can be completed |
| Legacy import (`storage/legacy-import.ts`) | plan, rollback backup, events, receipts | plan, apply, apply again | partial import; files that change; backup beside appends | each candidate once, each with an image to go back to |
| Onboarding and `vocation init` (`onboarding.ts`, `product-init.ts`) | a session and the events it is projected from, plans, records | start, complete, fail, cancel, resume | several clients, lost answers, interruptions, a clock set back | the session always loads; a demo is completed |
| Profile parser (`import/*.ts`) | the parser process, its timers, the answer | fork, parse, time out, SIGTERM, SIGKILL, cut into candidates | a process that hangs, answers late or dies | it is reaped; no text is lost |
| Application tracker (`application-lifecycle.ts`, `storage/application-tracker.ts`, `approval.ts`, `submission-proof.ts`) | attempts with versions, registries of keys, the ledger | create, approve, mark submitted, confirm, block; register and revoke keys | stale versions, expiry and revocation between two steps, replayed approvals, clocks that go back | the ledger is earned; an approval serves once; settled records stay |
| Automation (`auto-apply.ts`, `agent-controller.ts`) | configuration and kill switch, approver keys, ledger of the day; records of an agent run | kill, rearm, enable, import, evaluate; advance a run | order of kill, rearm, enable and import; keys revoked in between; blocked runs | no decision and no execution without what has to precede it |
| Assurance case (`assurance/case.ts`) | a file with hashes, approvals, certification | build, approve, certify, evaluate | a file edited between commands, approvals and certificates taken from elsewhere, evidence that changes, approvals that run out | actionable only on fresh evidence, live approvals of its content and a certificate of this case |
| Credential passport (`credentials/*.ts`) | entries with their reports, claim mappings, mapping plans | import, create, approve, attach and record a mapping | services that fail or change between two awaits; mappings edited around their approval | verified means sound; a claim says what was approved and is used as approved |
| Discovery grants, gate and broker (`discovery/network-access-grant.ts`, `governed-fetch-broker.ts`, `storage/network-access-grant-repository.ts`) | signed grants, charges, the gate's promise chain, the attempt in flight | register, consume, verify, fetch, redirect, time out | a charge that outlives its attempt, restart, a clock that is set back, redirects | budget and rate hold; every hop is in scope and charged; a fetch ends |
| Discovery runs (`discovery/provider-runtime.ts`, `authority.ts`) | the run, its records | run, retry | retry after a crash in the middle; appends that overtake each other | an answer stands on one execution |
| Discovery evidence and dedupe (`discovery/liveness.ts`, `opportunity-truth.ts`, `dedupe.ts`) | observations, assessments, truth records, decisions, clusters | observe, assess, record, list; compare, merge, publish | records out of order or late, ties of time; clusters grown pair by pair | closed is confirmed; the review list is justified; what differs stays apart |
| Taxonomy (`taxonomy/*.ts`) | snapshots, mapping sets | import, rank, propose, record | a version imported again with other content | a mapping resolves to what it was made from |
| Campaign queue, network plan, rubric (`intelligence/*.ts`, `rubric.ts`) | limits, touches, ratings | queue, plan, score | limits that interact; rounding at a threshold | fair, bounded, monotone |
| MCP server, workbench gateway, terminal queue (`packages/mcp`, `workbench/`, `tui/`) | frames in flight, an ordered writer, request ids | initialize, call, answer, time out | repeated and overlapping calls, lost requests, late answers | an approved call takes effect once; every frame is answered |
| Career twin, documents, coaching, theory, model gateway, benchmark, schemas | none of their own | validate, derive, render | | not modelled, see below |

The clients send framed, authenticated requests; the server queues them on one
promise chain; the authority answers from a receipt, from a committed event or by
running the handler, which verifies the checkpoint chain, validates, appends an event
and writes a receipt. The tracker and all repositories are views of the same event
store. Checkpoints, restores and sealed data involve the credential store, which no
transaction shares with the database. The instance lock keeps the daemon and the offline
commands apart. `PROJECT.json` lists every part with its sources, and under `hazards` the
places where each of these behaviours bites.

## Modules

| Module | Models | Checked by | Proved in |
|---|---|---|---|
| `EventStore` | the event store under concurrent calls, crashes and damage | `event_store` | `EventStoreProofs` |
| `StoreOpening` | creation, adoption, backup and migration of a store, with deaths in between | `event_store` | `EventStoreProofs` |
| `AgentClients` | MCP server, workbench gateway and terminal queue as callers | `event_store` | `IpcSessionProofs` |
| `RequestPromise` | abstract: what a request id is promised | (refined by `RuntimeAuthority`) | `RuntimeAuthorityProofs` |
| `RuntimeAuthority` | clients, queue, replay, handlers, receipts, crashes | `authority`, `authority_liveness`, `archive_replay` | `RuntimeAuthorityProofs` |
| `DedupeRun` | comparing and clustering of candidates | `authority` | `RuntimeAuthorityProofs` |
| `TaxonomyMapping` | snapshots, label matching, mapping sets | `authority` | `RuntimeAuthorityProofs` |
| `IpcSession` | sockets, handshake, pools, requests, `daemon-stop` | `authority_liveness` | `IpcSessionProofs` |
| `AuditCheckpoint` | checkpoint chain and external digest | `event_store`, `checkpoint_torn` | `AuditCheckpointProofs` |
| `DiscoveryEvidence` | observations, liveness, truth, review list | `tracker` | `DecisionProofs` |
| `CredentialPassport` | import, its checks, claim mappings | `tracker` | `DecisionProofs` |
| `SingleInstance` | lock, endpoint, start and stop of daemons and tools | `single_instance`, `shutdown_overlap` | `SingleInstanceProofs` |
| `Onboarding` | the session, its handlers, `vocation init` | `single_instance` | `SingleInstanceProofs` |
| `ProfileParser` | the forked parser and the import plan | `single_instance` | `SingleInstanceProofs` (the plan) |
| `StoreRecovery` | backup, restore, catch block, recovery, digest | `restore`, `restore_move_fault`, `restore_recovery_killed` | `StorageProofs` |
| `CredentialVault` | the headless vault and the key ring | `restore` | `StorageProofs` |
| `ArtifactStore` | the vault under the authority's operations | `restore` | `StorageProofs` |
| `LegacyImport` | plan and apply of the legacy files | `restore` | `StorageProofs` |
| `ApplicationTracker` | attempts, approvals, proofs, ledger | `tracker` | `DecisionProofs` |
| `AutomationPolicy` | auto apply, kill switch, agent runs | `tracker` | `DecisionProofs` |
| `AssuranceCase` | the case and its evaluation | `tracker` | `DecisionProofs` |
| `CampaignQueue`, `NetworkPlan` | review queue, contact plan | `tracker` | `DecisionProofs` |
| `OpportunityRubric` | composite score | `tracker` | `DecisionProofs` |
| `DiscoveryRun` | grants, rate gate, fetch broker and the discovery-run request, composed | `discovery` | `DiscoveryRunProofs` |

`MC*` modules and `*.cfg` files give the constants their small values. Related modules share
a run, so that the set of runs stays small enough to repeat on every change: the MC module
extends them, its variable `part` is chosen at the start, and only the actions of that part
are taken afterwards. The parts share no state, so this checks each of them as if alone.
Operators whose comment starts with "Mutated form" are the plausible bugs used to show that
each property can fail; no specification uses them.

### EventStore

`events` is the table, `head` the authenticated metadata row, `snapshots` the snapshot
table and `call` what each caller waits in. `append` reads the head, awaits, and then runs
one SQLite transaction: `StartAppend` is the read, `CommitAppend` the transaction,
`RejectAppend` a duplicate id or a history that the head it was given no longer describes.
`saveSnapshot` awaits between its check, its select and its upsert and
therefore has three steps. `CloseOrCrash` drops the calls; `Reopen` requires what `readAll`
verifies, as `open` does. `LoseRow` and `GarbleRow` are the environment's damage, which does
not strike between the two reads of one append. A hash
is the history it covers, which makes it injective, as the code assumes of SHA-256; the head
is authenticated and is not damaged into another well-formed one. `log` is a ghost: every
committed body in order, with which `ChainIntact` compares the table; `acked` is what
`append` returned to its callers. A snapshot is accepted for the version and hash of a row of
its aggregate (`VersionAt`, `HasCheckpoint`).

### StoreOpening

`dbFile` is the database as `open` sees it: tables, the tables off their contract, the rows of
`schema_migrations`, and the metadata; `opening` is the call under way. One action per commit:
`Authenticate`, `WriteBackup`, `CreateHistory`, `AdoptFoundation`, `ApplyPending` (one
transaction), `InsertMetadata`; `Stops` is a death or an I/O error between any two of them. `seed` is the
database found first: an empty file, a store without a history, one at version 1 or 2
(`LeftByABuild`), or one this build must refuse (`Defective`: a table lost or altered, a later
version, another checksum). The
instance lock admits one opener at a time.

### AgentClients

`tasks` is one entry per MCP frame, `writer` the ordered queue of responses, `atDaemon` the
requests on their way. Frames are read while fewer than `MaxInFlight` are open
(`Reading`); `ReadCall` walks through the protocol state, the policy of `McpToolExecutor`
and the arguments; the requests of one call follow each other (`Stages`, `Resume`).
`RequestId` is the digest of approval, tool, stage and arguments. `Execute` is the authority as
`RuntimeAuthority` promises it. Requests are lost, calls time out early or late, the imported
file is edited and approvals expire in between.

### RuntimeAuthority and RequestPromise

Clients call with a fresh or a known request id, time out, and retry with the same id and
parameters or, mistakenly, others. `jobs` is the promise chain: a ticket per queued
request, and `MayRun` holds for the oldest one. A job goes through `Replay` (the receipt,
then the committed event of that id, each bound to the request's parameters), a
`Validate...` step for its family, `AppendEvent`, `WriteReceipt` and `Reply`. `Crash`
empties the queue between any two of these. The six families are `recordCommand`,
`recordDecisionCommand`, `mutateConfig`, the generic put, the generic archive, and the
campaign and outcome archives, which differ in what they do when nothing changes.
`RequestPromise` has two variables, the decision of each id and the set of answers given;
`RuntimeAuthority` implements it with the committed event's response as the decision.
The event store is used as `EventStore` promises it: appends are atomic and durable.

### IpcSession

`sock` holds, for every connection, both ends, the await the server's coroutine stands at,
the frames on the way and whether the close event has run; `caller` where each
`callAuthority` stands. A server step is what runs between two awaits of the coroutine. A
socket that is destroyed and one whose close event has run are different states, because the
counters move with the event. Peers fall silent with their end open, send frames no guard
accepts, leave at any point, and time out while the daemon works. Frames are authentic or
"junk"; MACs are unforgeable.

### AuditCheckpoint

`createSignedCheckpoint` is five steps: verify, insert the row, set the digest, verify
again, record the request. The process may die between them, `set` may throw, and a tamperer
may put an older file back or damage a checkpoint. Every start and mutation verifies first.

### SingleInstance

Each process walks through `acquireSingleInstanceLock` one system call at a time: look
(`Look`), read the record (`ReadLock`), ask whether its owner lives (`CheckOwner`), probe, rename,
create, and, when creation fails, look again (`LookAgain`) and put the stale file back
(`PutBack`), which replaces whatever was created in between; write. A daemon then opens the
store, looks for a socket, probes it, removes it, binds and serves; an offline command opens,
operates, closes and releases. A stopping daemon closes its handle (`StopListening`), awaits its
connections, looks for the endpoint path and removes it (`LookForEndpoint`, `RmEndpoint`),
checks the lock, removes it and closes the store, in the order of `close` in `daemon/server.ts`
and `shutdown` in `vocationd.ts`; others act between any two of these. `displaced` is a ghost:
whose lock file a rename took from the lock path while its owner was alive. Crashed processes
leave lock and socket behind. The endpoint is a Unix socket: that closing the handle unlinks
its path is libuv's doing. Windows, where the pipe has no path to remove, is left out.

### StoreRecovery

Main file and log are separate, because a killed process leaves a log and a restore
moves the two one after the other. Each file operation, journal write and
credential write of `restoreEncryptedBackup`, of its catch block and of
`recoverInterruptedRestore` is a step. `Kill` ends a process anywhere, `Fault` makes the
step at hand throw into the catch block; the constants `KillAt` and `FaultAt` say before which
steps a process may be killed and which may fail. `MovingBack` names the steps that put the
old database back file by file: a kill there is what the code does not survive (finding 5).
`storeRestore`'s own handling of the digest (`cli.ts`) is part of the sequence. Ciphertext is
abstracted to the history it contains.

### CredentialVault, ArtifactStore, LegacyImport

`CredentialVault`: a process opens the vault into its memory, creates the secrets it misses,
seals data under them and writes the whole file back; a write may fail after memory has
changed. `ArtifactStore`: one request at a time goes through replay, the vault (make
the shard directory, synchronise it, write, rename, synchronise the shard), the internal event
of three of the operations and the command event. A file survives a power loss once every entry
of its path is on disk: `synced` has the files whose entry in their shard is, `dirsSynced` the
directories whose entry in the one above is, and `loose` those whose creator was cut off
before it synchronised them. `existsSync` finds a loose directory, so that nobody synchronises it
again, except by making another one beside it. The directory sync is that of POSIX
(on Windows the code ignores its errors), and the entry of the vault's own directory is taken
to be on disk. `LegacyImport`: the plan is recomputed from
the files on every apply and compared with the approved hash; backup, event and receipt of
each candidate are steps between which the daemon may die.

### Onboarding, ProfileParser

`Onboarding` stores the session as its fields and its events, projects the events on every load,
and drives it by `vocation init` clients (a program counter each, ids derived from the
session they last read) beside an SDK client, interruptions, lost answers and a clock that is
set back. `ProfileParser` has the child process, its time limit and the escalation to SIGKILL, the
checks of the worker as sets of faults, and `AfterCut` and its companions, which cut a line
into candidates of bounded length. That nothing is lost is said by position: the candidates of
a line lie behind one another in it (`Covers`), and only spaces lie between them.

### ApplicationTracker, AutomationPolicy, AssuranceCase

In `ApplicationTracker`, `attempts` maps ids to records with a version; `approvers` and `collectors` are registries
from key ids to key material; `ledger` holds the confirmation entries. Every
transition checks the expected version and status; `ValidApproval` and `ValidProof`
translate `validateApproval` and `validateSubmissionProof` (identity, key, signature as
key material, scope, attempt, time windows, skew). `SetClock` sets the wall clock forwards
or back, because nothing in the code requires it to be monotonic.

`AutomationPolicy` keeps the configuration (with its exclusions and per-opportunity overrides,
which only an imported one has), the approver keys, the ledger of the day and a
log of what was commanded and allowed; kill, rearm, enable and the legacy import of an
`auto-apply-config.json` all write the configuration, and the last one written counts; `GateOrder` lists the gates of `decideAutoApply` in
the order the code tries them. An agent run is its sequence of phase records. `AssuranceCase` has one
case file, which people edit with and without recomputing its hashes, putting in approvals that
were given to something else or by nobody (`Pasted`) and certificates likewise
(`CertificatesAtHand`), and evaluates it against the captured state. The binding
hash covers the content of a draft alone, the case hash all but the certificate. `signed` and
`certified` remember what people did; the code has only the file.

### CredentialPassport, DiscoveryEvidence, DedupeRun, TaxonomyMapping

`CredentialPassport` makes one step of every await of `importCredential`, so that keys are
withdrawn, contents revoked and the status service is silent or throws between two checks; the repository looks
at the report again (`PassportAccepted`) and at recorded mapping plans (`PlanAccepted`). A claim
mapping is in the caller's hands, who may change its text, the use asked for and the use allowed,
compute its hash again and write an approval into it; `given` is a ghost that remembers which approvals
people gave, and to what. An approval may be dated ahead of the clock by `MaxClockSkew`.
`DiscoveryEvidence` observes, assesses and records with clocks that differ, and folds the
newest records into the review status. `DedupeRun` decides pairs in the order of the
candidates and joins clusters of a disjoint set, then validates what it publishes, which
rebuilds the clusters from the decisions alone (`Joined`).
`TaxonomyMapping` imports snapshots, ranks and proposes by label scores as exact fractions, and records
mapping sets. A label comes with what is made of it: its text, its case folded form, what
`normalizeLabel` leaves of it (letters and digits of `[a-z0-9]` only, so perhaps nothing,
`Blank`) and the tokens of that. A query of which nothing is left is refused.

### CampaignQueue, NetworkPlan, OpportunityRubric

Pure planning functions, each computed over inputs that are built up or changed step by step
and checked against a statement of what the result must be, not against a second copy of the
algorithm. The sum of the scores is the number of their `Points`, which
needs no recursion.

### DiscoveryRun

One provider; grants, charges and records of different providers do not touch each other.
`grants`, `paid` and `records` are what the event store holds of them, `approvers` the
registry that grants are verified against. `run` is the one discovery-run request the
authority's queue executes, with the step it is at. `gate` is the promise chain of the rate
gate: a timeout rejects the attempt (`Timeout`) but cannot withdraw the charge it has
queued, so the chain may hold charges of runs that are over, and they are decided
(`GateDecide`) and committed (`GateReadHead`, `GateAppend`) beside the next run. The gate and
the repositories append to one event store through different coordinators: an append that
finds its head overtaken throws (`fresh`), and the gate then fails closed and the request
is refused. `VerifyGrant`, `Consume`, `Send`, `ResolveFails`, `Respond` and `Redirect` are the
steps of `GovernedFetchBroker.fetch`; the `Persist...` actions store the records of
`discovery-run` one after the other with the answer last. A record carries the time of its
execution, which stands for all that two executions may see differently, so that a retry
after a crash finds its own labels bound to another value and is refused (`PersistRefused`).

A manifest is the provider's own or the scoped one of a URL; both have the same id and
version in the code, which is why `Rebinds` matters. Hosts are sets rather than
patterns, one posting stands for the postings of a response, a response is the availability
it leads to, and the request headers are ones the manifest allows. The authority asks with
`no-store`, so the broker's cache is left out, as is the in-memory gate it never uses. The
clock may be set either way; `SetClock` is enabled where a step reads the clock.

## Runs

| Run | Expectation | Question |
|---|---|---|
| `event_store` | pass | Can overlapping appends and snapshots, deaths and damage fork the chain, lose an acknowledged event, hide damage, or make a sound store unreadable? Can a creation or migration that is cut off lose a store, its identity or its earlier image? Can repeated or overlapping MCP calls take effect twice, or a frame stay unanswered? Can a history without an acknowledged checkpoint be accepted or extended? |
| `authority` | pass | Can lost answers, retries, two clients and a death between event and receipt give an id two answers, run it twice, refuse what was answered, or lose an update? Does the authority implement `RequestPromise`? Can a dedupe run join what differs, or a mapping lose its concepts? |
| `authority_liveness` | pass | Does every request that stays queued get settled, every caller get served, and a stop stop the daemon? |
| `archive_replay` | violation | The archive of an already archived campaign or outcome. |
| `checkpoint_torn` | violation | A fault between the checkpoint row and the digest. |
| `single_instance` | pass | Two daemons and two tools start, stop and die in any order; two init clients share a session; the parser hangs, dies or answers late. |
| `shutdown_overlap` | violation | An offline command starts while a daemon stops. |
| `restore` | pass | Two kills or failing steps in two restores, except those of the two findings; secrets, artifacts and legacy imports over kills and power losses. |
| `restore_move_fault` | violation | A failing move of the old database or log. |
| `restore_recovery_killed` | violation | A recovery that is killed itself. |
| `tracker` | pass | Attempts, automation, agent runs and assurance cases under revoked and re-registered keys, expiry, imported configurations, edits and clocks that are set; queue, plan and rubric at their limits; evidence that comes late or out of order; credentials imported while services fail and keys change. |
| `discovery` | pass | Can late charges, retries, redirects, timeouts, a crash or the clock overspend a grant, send something uncharged or out of scope, spoil the ledger, mix two executions in an answer, or keep the queue from going on? |

No run checks for deadlock: each system here may come to rest (all calls made, all
processes gone), and the bounds stop it as well.

### What the passing runs show

* `StoreSound`: types; the rows are one chain that ends at the head, unless damaged; what an
  append acknowledged is at its place. `VerifyDecides`: `readAll` fails exactly on damage.
  `SnapshotOnChain`: a snapshot is bound to an event of its aggregate.
* `ApprovedOnce`: an approved call has each of its effects once however often and however
  concurrently it is made; when one of its requests is refused, it has had no effect yet, except
  that an import may have stored its artifact. `EveryFrameAnswered`: nothing
  stays in flight when the agent stops sending.
* `AuthorityConsistent`: a receipt has an event with the same binding, and the versions of a
  record are consecutive, each written over the version its writer had read.
  `RetryNeverRefused`: a committed or answered request, sent again with its own
  parameters, is answered again. `KeepsPromise`: the refinement, so that any
  two answers to one id are the same answer to the same command. `NoRequestStarves`: what
  stays queued while the daemon lives is settled.
* `CountersExact`: both counters count their sockets whatever way a connection ends, within
  their limits. `CallersServed`: silent peers and stray frames lock nobody out.
  `StopObeyed`: an executed `daemon-stop` stops the daemon although its caller may have gone.
* `OpeningSound`: a store this build supports is refused only to another passphrase, wherever
  an earlier open was cut off (except a new store without its metadata); one it does not
  support is left as it is; a schema changes only after an image of the store was kept, and
  the image names the identity the store ends with.
* `DistinctStaysApart`: no published cluster joins two candidates that are known to differ, and
  every decision in the result is valid. `MappingsResolve`: a recorded mapping resolves to the
  concepts it was made from, also after another import of its version; a query for a stored
  label has a full match, unless nothing of the label is left after normalisation; what the
  matcher proposes is accepted and reads back.
* `CheckpointsDecide`, `NeverExtendsRolledBack`: what verification accepts contains
  every acknowledged checkpoint, nothing is appended to a history that does not, and without a
  fault between the two writes the store verifies.
* `EvidenceSound`: closed is confirmed by enough consecutive absences, the review list can be read,
  and each status has records that justify it. `PassportSound`: a verified entry was genuine,
  issued by another to the expected subject, in its window and not revoked when the import
  began; a claim and a recorded plan say what was shown to the person who gave the approval in
  them, and allow no wider use than was asked for and approved; a claim was attached while its
  approval stood, up to the skew.
* `InstanceExclusive`: there is one holder of the lock, and of two processes with the store open
  one only has to close it, unless a rename took a live process's file from the lock path (as
  stale, or by putting a stale one back over it). `ServingIsReachable`: until then a serving daemon
  keeps its endpoint and its lock file, also while another daemon is still stopping.
* `SessionSound`: the stored session always loads and its steps had what they require.
  `DemoCompletes`: a demo reaches its end over interruptions and lost answers. `PlanLossless`:
  cutting a text into candidates loses nothing but spaces. `ParserReaped`: the process ends, or
  is killed, and the caller has one answer.
* `PreviousSurvives`: what the target held when a restore began is in the target, in the
  rollback image or was replaced by the restored image. `RestoreRecoverable`: a finished journal
  phase says what is in the target, recovery after a restore over an
  existing database always knows what to do, and when restore or recovery is
  done, database and digest agree.
* `SealedOpens`: data sealed by a daemon that died opens under the stored secret.
  `RecordedReadable`: every recorded manifest has its file after kills and power losses, unless
  it was damaged or an entry of its path was left unsynchronised by a call that was cut off. `BegunCompletes`: a request that
  committed an internal event is refused only for an artifact lost that way or, an export, for a
  newer passport.
  `ImportSound`: each legacy candidate is imported once, with its receipt and a backup that
  was made before it.
* `SubmissionsEarned`: a ledger entry stands on a passed gate, an approval that was unexpired, and whose
  signer was registered, when the submission was marked, and a proof of that attempt captured after it, and an
  approval serves one attempt. `AutomationEarned`: an allowed decision rests on an enabling
  or an imported configuration that no other configuration event has followed, after a kill also
  on a rearm or an import, and on a key that is registered; an executed phase on passed
  phases, a human approval and an evaluation by another. `ActionableEarned`: an actionable case
  is fresh and on the captured state; its certificate, if somebody gave it, was given to this very
  draft with these approvals; and if its approvals were given, a decision that needs one has a
  live one of its content, by another than its generator, that acknowledges an open objection.
  `QueueFair`, `FatigueHeld`, `RaisingNeverHurts`: nobody is queued past a better one or beyond a
  quota, no contact is approached too often by past and planned requests together, and a better
  rating never lowers a composite.
* `SpendingHeld`: the stored charges of a grant, and of any window, are within
  their limits although the gate decides before it appends; the gate never
  stores a charge that would make `consumptions()` reject the ledger, and with it every later
  discovery; what is on the network has been charged. `RunSound`: it was charged
  under a valid grant, no chain of redirects leads out of manifest, grant and host, and
  an answer reports records of one execution. `RunEnds`: a run leaves the
  queue whatever DNS and the remote host do. Three things these properties allow, and the code
  does: a retry of an attempt sends again under the charge it already has, because the URL is
  not part of a charge; a charge may be committed for an attempt that has been timed out and
  sends nothing; and once a provider has been charged under one manifest, a scoped one is
  answered with a transport error until the version changes.

### Findings

The violation runs state what a document promises, and TLC shows a behaviour of the code
that breaks it (quotations and lines are in `PROJECT.json`):

1. `archive_replay`: archiving an archived campaign or outcome returns it without an event,
   and the handler writes a receipt nevertheless; a retry is refused because the receipt
   refers to a missing event. The generic archive records a command and is not affected.
2. `checkpoint_torn`: dying, or failing to write the credential, after the checkpoint row
   leaves a digest that does not match; every later start and mutation, the retry
   included, is refused.
3. `shutdown_overlap`: the lock is released before the store is closed.
4. `restore_move_fault`: when moving the old database or its log throws, the catch block
   removes the file it failed to move.
5. `restore_recovery_killed`: recovery moves the old main file back and then its log. When it
   is killed between the two, the next recovery finds a main file, takes the old database for
   back, and opens it without the commits in the log.

Weaknesses seen while modelling that no document speaks about; where a passing
property would meet one, it excludes it explicitly:

* a restore with `--reanchor-checkpoint` that is killed between swap and digest
  (`encrypted-backup.ts:268`): `RestoreRecoverable` speaks of restores without re-anchoring, or
  that were not killed;
* a restore onto a missing database that is killed early, which is refused on purpose;
* a client or a restore that writes its old copy of the headless vault over a daemon's
  (`SealedOpens` names it);
* a store whose creation was cut off between its tables and its metadata
  (`encrypted-event-store.ts:244`; `HalfMade` names it), and a lock torn by a crash while it was written
  (`single-instance.ts:66`): both are refused until someone removes the file;
* two starters over one stale lock, the slower of which renames the faster one's fresh
  lock (`single-instance.ts:111`), because the endpoint is awaited between the look and the
  rename. No crash is needed: an owner that ends in order after its record was read leaves a
  lock that looks stale. A stale lock put back lands on one that was created after the look
  (`single-instance.ts:115`). Once a live lock is lost the endpoint is no second barrier, since a
  daemon that stops removes whatever socket is at the path (`daemon/server.ts:234`);
  `displaced = {}` is the premise of `InstanceExclusive` and `ServingIsReachable` for these reasons;
* a shard or object directory of the vault whose creator died before it synchronised it, which
  every later request takes for durable (`artifact-vault.ts:541`); a power loss then takes recorded
  artifacts (`RecordedReadable` excludes what was left unsynchronised);
* an `auto-apply-config.json` imported after a kill, which is appended as the newest
  configuration and may bring automation back with no rearm and no enabling
  (`legacy-import.ts:146`, `runtime-repository.ts:73`); a file is imported once per content;
* the binding hash of an assurance case, which leaves out case id, creation and generator
  (`assurance/case.ts:74`), so that an approval serves every draft of the same content; and
  `signatureReceiptHash`, which no code verifies, of approvals and certificates there and of
  mapping approvals in the passport (`credentials/mapping.ts:118` checks its form): whoever acts
  on them has to check the signatures, and the properties speak of genuine ones;
* a label without a letter or digit of `[a-z0-9]`, in Greek or Bulgarian for instance, which no query
  can find because the query is refused (`taxonomy/mapping.ts:300`), and which matches
  every other such label in full when mappings are proposed (`taxonomy/mapping.ts:114`);
* a mapping plan recorded without a look at the clock or at the entry
  (`decision-intelligence-repositories.ts:237`): an approval that has run out is recorded, too;
* pages sorted with `localeCompare` and continued with `>` (`authority.ts:360`), which may skip or
  repeat ids whose order differs;
* two interleaved `saveSnapshot` calls of one aggregate, the later of which may store the older state;
* a revoked key id registered again with another pair (`application-lifecycle.ts:158`);
* a discovery-run that died after its first record and is refused on every retry with its id
  (`decision-intelligence-repositories.ts:563`);
* a credential's verification that is used as recorded, although the credential has run out or
  been revoked since (`credentials/mapping.ts:78`).

### Bounds

Every bound is a constant named `Max...`.

* `event_store`: two calls, three event ids, two aggregates, three rows, one damage. Two calls
  are enough for every race between check and commit, three rows allow loss in the middle
  and at both ends, and an aggregate with two events. Agents: five kinds of calls in any
  order, three frames, two in flight, so that a call overlaps its own repetition, and two faults,
  so that a call times out and the imported file changes before its repetition.
  Opening: nine databases, three passphrases, four calls of `open` (three cut off, the fourth complete).
  Checkpoints: two requests, three appended events, one fault, two acts of tampering (put back an
  older file, and again after a new checkpoint).
* `authority`: two clients, three ids, one record besides the configuration, versions up to 2,
  three calls, one crash. A retry after a crash behind another client's request on
  the same record fits; versions up to 2 distinguish creation, update and conflict. Dedupe: up
  to four out of nine postings, enough for a conflict that reaches a pair through two clusters.
* `authority_liveness`: the requests as above with fewer calls; three sockets, one authenticated connection and two handshakes, so
  that admission, the second check of the limit and silence of a whole pool happen.
* `single_instance`: four processes, two crashes (of any but the second tool, which is like the first): a stale lock, two starters over it and one
  bystander that creates its lock between the look and the rename of another. `shutdown_overlap` has one daemon and one tool without crashes, the smallest
  instance that shows the behaviour. Onboarding: two clients, one importing a profile.
* `restore`: histories of up to two commits (event or checkpoint), two restores, two kills or
  failures, one loss of the database (three of all these together, `FewTroubles`). The second restore meets the rollback image of the first,
  and a recovery may be killed or fail as the restore before it was. Kills strike everywhere but
  at `MovingBack`, failures everywhere but at the two moves aside; `restore_move_fault` and
  `restore_recovery_killed` are the smallest instances of what is left out.
  Artifacts: every operation on one original, a re-import during an export, artifacts that share a
  shard and one that does not.
* `tracker`: two attempts, one key id that can be revoked and registered again, times 0 to 2
  with a window of 2 and a skew of 1 (so that expiry, the future and the skew are all reached), versions
  up to 4, which the longest life of an attempt needs. Automation: three packets, two keys, an imported configuration with an override and an exclusion, a
  worker for every phase, one submission or edited document at a time. Assurance: approvals for one day, one act of signing and certifying each, one invented approval
  (`Pasted`), one edit or one change of the world. Evidence: three observations and two records over three days, a
  record being made from one other at most. Passport: three originals, up to two changes of the
  services and up to three imports, mappings or edits, three together (`FewChanges`), a skew and an approval window of one
  step of the clock.
* `discovery`: two requests, two executions in all, one crash, three URLs on two hosts (one
  below another), two grants of one provider with budgets 1 and 2, a scoped manifest, one
  redirect, two charges for each window of length 1, times 0 and 1. A late charge beside a run
  under another grant, an expired grant, a clock set back and a retry of a request that
  has stored something all fit.

Symmetry is declared only for sets of model values that no definition distinguishes, and not
in the runs that check liveness.

### Fairness

All fairness is weak, and in a composed run each condition holds while its part runs.

* `RuntimeAuthority`: the authority's own next step
  and nothing else: not clients, restarts or crashes. The server chains every request
  to the promise of the one before it whether that one resolved or rejected
  (`daemon/server.ts`), and Node's event loop runs a settled promise's continuation, so a step that
  stays enabled is taken. The handlers in that model finish; the one handler that waits for
  the network is `DiscoveryRun`'s, and its `RunEnds` is the missing half of the argument.
* `DiscoveryRun`: the daemon's own steps (`VerifyGrant`,
  `Consume`, the gate's and the repositories' steps) for the same reason, and `Timeout`,
  because `withTimeout` arms a timer before it waits. Nothing is asked of the network: `Send`,
  `ResolveFails`, `Respond` and `Redirect` may never happen. The chain of redirects ends by
  `MaxRedirects`.
* `IpcFair`: the server's steps on every socket (every receive has a timer), the response, the
  close, and callers that call again until they are answered, as the timeout's message asks them to.
  Silent peers, stray frames and errors are never required.
* `AgentFair`: the daemon settles requests it holds, a timer that was set fires when no answer
  can come, and the writer writes. Agents are not required to send.
* `ObFair`: a client that waits gets its answer, an operator runs init again after it failed, the
  clock goes on. `ParserFair`: timers fire and signals arrive; the child is not required to do anything.

## Proofs

`tlapm` proves the following for every value of the constants: any number of calls, processes,
attempts, keys and faults, any history. Each proof has an inductive invariant and one step per
action; the temporal steps combine `Init => Inv`, `Inv /\ [Next]_vars => Inv'` and what `Inv`
implies.

* `EventStoreProofs`: `StoreAlwaysSound` (from `TypeCorrect`, `ChainNeverForks`,
  `AckedSurvives`), `ReadingDecides` (from `DamageAlwaysDetected`, `SoundAlwaysReadable`),
  `TableAppendOnly` and `SnapshotsStayOnChain`. `Inv` adds to what is claimed: `HeadIsHistory`
  (the head is the count and hash of everything ever committed), a table no longer than the
  head's count, `PendingFresh` (a pending append was given the current head, or one with fewer
  events than the table has, so that its transaction either continues the chain or is refused)
  and `DamageTrace` (after damage the table is shorter than the head's count or holds a garbled
  row). `DamageTrace` is the heart of `DamageDetected`: no later append makes a damaged table
  look sound. Snapshots need `PendingOnChain`: a snapshot about to be written names version and
  hash of a row, and rows only grow while the file is undamaged.
  `OpeningAlwaysSound` is about `StoreOpening`, for any databases a build left or damage made:
  `OlderOpens` and `NewOpens` say what each commit of an opening leaves for the next, whichever
  was the last before a death, and when an image of the store must exist; `ForeignUntouched`
  says that a database with a defect is refused before anything is written.
* `RuntimeAuthorityProofs`: `AuthorityAlwaysConsistent`, `RetryAlwaysRecovers` and the refinement
  `AuthorityKeepsPromise`, all under `"archive" \notin Ops`: the dedicated archives of finding 1
  break them, and the runs that check these properties leave the archives out as well. For
  every operation, the archives included, stand `NoUpdateLost`, `DecisionsStand` and
  `RetryRecovers`, which say what the archives do not spoil. The handlers suspend between
  reading a record and committing, so `Inv` says what the wait cannot change: `OneRunning` (one
  request is past the queue), `JobsKnow` (what the running handler has read, and how far it is,
  still describes the store), `HasLatest` and `NoLostUpdate` (versions count commits),
  `OneEventPerId`, `ReceiptsKept` and `AnswersKept` (receipts and answers restate events), and
  `Arrived`, `CallersBound` (whom a request and an answer belong to). The refinement maps
  an id to the decision in its event; every step that does not write an event or answer
  a caller is a stutter.
  Two algorithms behind its records are proved as well. `DistinctAlwaysApart`: no cluster
  holds two candidates in conflict (`ClustersAgree`), a pair decided merge is in one cluster and a
  pair decided distinct in two that can never be merged (`DecisionsHold`), and what a cluster holds is reached by merges (`ClustersEarned`),
  which is all that the validation of the result asks. `MappingsAlwaysResolve`: a snapshot
  is stored under an id that covers its content (`TaxInv`), so a second import under the same
  version cannot replace it; two labels with the same normalised form have the same tokens, so a stored
  label of which something is left matches in full, and the best of finitely many matches exists.
* `SingleInstanceProofs`: `InstanceAlwaysExclusive`, `ServingAlwaysReachable` and
  `ExclusiveUntilRecovery` (as long as no starter has moved a lock file aside, nothing is ever
  displaced, whatever starts, ends or dies). `LockHeld` says that, with no live lock displaced, the
  lock file of whoever holds the lock is in place and a serving daemon's socket is its own: a step
  that takes a file from the lock path takes its own, or is one of the two renames; and only
  a holder binds or removes the endpoint. `MovedFirst` says that the first displacement needs a lock
  that was moved aside, and `Roles` who may put one back and who may have the store open.
  `SessionAlwaysSound` is about onboarding: a session loads when every event follows from the
  ones before it, so an append needs only the last (`Extends`, `AppendedLoads`), and
  `ObInv` adds that a session at its end is complete, that a plan it has recorded is in the
  history and applied by the step that demands it (`SessionFits`), and that all plans are of the
  one file the session's import request accepts (`PlansImported`).
  `PlanAlwaysLossless` is about the import plan, for any text and limits. `PlanInv` says that the
  lines gone past are whole and their candidates ordered (`Whole`, `Ordered`), and of the line being
  cut that the segments so far cover it up to the rest (`CutSoFar`); a cut moves that boundary
  by one segment and the spaces behind it (`OneMorePiece`), and the last segment completes it.
* `AuditCheckpointProofs`: `CheckpointsAlwaysDecide` and `RolledBackNeverExtended`. The digest
  of row i is the sequence of the bodies 1 to i, so `AllRooted` can say of every row ever
  committed, of every image kept for tampering and of the stored digest what it was computed
  from. `CreateSound` follows a creation through its two writes, `AckedRetained` says
  where an acknowledged checkpoint is found, and `Stopped` what does not run after a failed start.
* `IpcSessionProofs`: `ConnectionInvariant` and `CountersAlwaysExact`, and, of the clients,
  `ApprovedAlwaysOnce`. The code counts in `finally`
  blocks and callbacks; that no path counts twice or forgets rests on where each side of a
  handshake can be while the other waits (`InHandshake`), which end owns a socket (`OwnEnds`)
  and which requests the dispatch queue holds (`Chained`). For the clients, `AgentInv` says that
  a request's id, intent and payload are fixed by its call (`Known`; a credential import carries
  the manifest its first stage got), that every effect has its receipt and every receipt its
  effect (`Done`), and that a waiting task has the one request of its stage under way (`UnderWay`).
* `DiscoveryRunProofs`: `SpendingAlwaysHeld` (from `BudgetAlwaysHeld`, `RateAlwaysHeld`,
  `LedgerAlwaysReadable`, `SentAlwaysCharged`) and `RunAlwaysSound` (from
  `SentAlwaysAuthorized`, `AnswerAlwaysOfOneRun`). The budget is decided on a count that is read
  before the append, so none of the properties is inductive. `Inv` adds `Serialised` (only the
  head of the chain is past its check), `AdmittedStaysAdmissible` (a charge the gate has
  admitted, and not yet appended, it would admit again, since nobody else charges meanwhile),
  `LiveIsAwaited` (at most one charge is live, and it is the one the run waits for),
  `PassedIsCharged` and `RunInScope` (the two `Sent...` properties, carried through the steps
  before the request goes out) and `RecordedSoFar` (what a run has gone past is stored with its
  own value, and it is not answered). The rate needs that charges are never stored with a time
  before an earlier one, which is a part of `Admissible`.
* `DecisionProofs`: eight components. Tracker: `TypeCorrect`, `SubmissionsAlwaysEarned` (from
  `LedgerAlwaysEarned` and `ApprovalNeverReused`) and `HistoryNeverRewritten`; `StagesEarned` says for every status which
  evidence the record already carries, which confirmation relies on when it writes the ledger:
  the approval was checked two steps earlier, against registries that have changed since.
  Automation: `AutomationAlwaysEarned`, for any configurations imported; `LoggedState` ties the configuration, the
  keys and the day's count to the log, `RunInv` says which phase record stands where in an agent run.
  Passport: `PassportAlwaysSound`; an import is followed through its checks (`ImportSoFar`), since
  what it reports is about the moment it began and the lists change while it asks; a claim
  stands as it was attached (`ClaimsStand`, `PlansStand`), and its hash, which its approval names,
  ties it to what was shown (`GivenAsShown`).
  Evidence: `EvidenceAlwaysSound`; the oldest time of the negative head is the witness that
  confirms a closing, and a truth record reads back because ageing a field again changes
  nothing (`EvidenceInv`).
  Assurance: `ActionableAlwaysEarned`; `CertifiedAsHashed` says that a certificate
  somebody gave names the hash of what it was given to, which an edited file has only when it is
  that draft with those approvals; drafts, invented approvals and certificates are any. Queue and contact plan: `QueueAlwaysFair` and
  `FatigueAlwaysHeld`, over the loops that build them: `BestFirst`, `PlacesKept` and
  `DeferralsEarned` hold after every candidate, and `PlanInOrder` (requests are planned in order
  of time) makes a window that was not full stay within the limit. Rubric: `RaisingIsSafe`;
  raising one score adds points and leaves the divisor, rounding is monotone, and the caps that
  still apply are among those that applied before.
* `StorageProofs`: `PreviousAlwaysSurvives`, `RestoreAlwaysRecovers`, `SealedAlwaysOpens`,
  `RecordedAlwaysReadable`, `BegunAlwaysCompletes` and `ImportAlwaysSound`.
  The first two hold for any number of kills and failing steps, with
  `KillAt \cap MovingBack = {}` and `FaultAt \cap {"moveDb", "moveWal"} = {}`: findings 4 and 5
  show that they fail without. `FilesInv` says for every step of restore and recovery which files
  are where (`Where`; `OldIsSafe` as long as the old database is needed, `NothingOld` when
  there was none), that the journal's phase is never ahead of them (`MovesKnown`), and how
  a process ends; `DigestInv` carries what the external digest agrees with. For the
  credential store, `VaultInv` says that who holds the instance lock has the vault's content in
  memory (`MemoryKnown`, `MemoryCurrent`). For the artifact vault, `ArtInv` adds which files a power
  loss can take (`FilesKept`, and `DirsKept` for the directories above them), what the committed events say of one another (`EventsSound`: the
  manifest of an export is of the version it packed) and what a request has found out by each step
  (`JobStands`); a refusal of a begun request is then traced to what was lost. For the legacy
  import, `ImportInv` says that what an application has gone past has its event and receipt,
  and that its backup is older than both.

Assumptions are named in the modules that declare the constants: bounds are natural numbers;
constants have their types; a marker for "absent" or "garbled" is not a value
(`GarbledAssumption`, `NoneAssumption`, `NoDigestAssumption`, `NoSockAssumption` and the like,
true of the code's `null` and `undefined`); the URLs below a URL are on its host; a field
given to a truth record has a field's parts (`FieldInputs`); labels and concepts handed to the
taxonomy are finite, a label's text determines the label and its normalised form the
tokens (`TaxonomyInputs`); the skew and the window of a mapping approval are numbers in
the unit of the clock (`ClockAssumption`); a database found
at the first start is one a build left, or has a defect (`OpeningAssumption`); scores and caps
are numbers from 0 to 100 (`RubricConstants`) and texts are sequences of lines
(`ParserConstants`); the sets that a loop runs over, and the sockets that are counted, are finite.

What a loop or an order leaves as the least element, and what a longest prefix satisfies, is
proved with `LeastElement` of the library's well-founded induction (a least counterexample),
because the induction theorems themselves take an operator as a parameter, which the installed
provers cannot instantiate.

Every safety property and every action property that a passing run checks is proved, and the one
refinement. Model-checked only are the liveness properties, `EveryFrameAnswered`,
`NoRequestStarves`, `CallersServed`, `StopObeyed`, `DemoCompletes`, `ParserReaped` and `RunEnds`:
fairness and `ENABLED` are out of the prover's reach. Nor is there an induction over what a
recursive definition computes; where a property needed one (a sum of scores, the candidates of a
line put together, clusters), it is stated by sets and positions instead.

## Not modelled

Cryptography (hashes are injective, tags unforgeable), SQLite itself (a transaction is
atomic; a log belongs to its main file), file formats, schema validation, rendering, the text
and lookup tables of coaching and theory, floating point statistics, the 36 provider field
mappings, the benchmark, the packages that only wrap the daemon's operations, and the reuse of
process ids by the operating system. The model gateway (checks around an injected
transport), the career twin, answer memory and document modules (validation without state of
their own) are not modelled, nor is the order of pages, which is the ICU library's.

## Plan

What could be modelled next: the model gateway, the answer memory rules, the broker's cache and
in-memory gate.

## Running

    tlc -config MCEventClients.cfg MCEventClients
    tlapm EventStoreProofs.tla
