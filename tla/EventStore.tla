------------------------------ MODULE EventStore ------------------------------
(***************************************************************************)
(* The encrypted event store (src/src/storage/encrypted-event-store.ts):   *)
(* an SQLite table of hash-chained events, an authenticated chain head in  *)
(* the metadata table, and one snapshot per aggregate.                     *)
(*                                                                         *)
(* `append` reads the chain head, awaits, and only then opens the          *)
(* transaction that inserts the row and rewrites the head; `saveSnapshot`  *)
(* awaits between its two checks and its upsert.  Calls therefore          *)
(* interleave at those awaits, and the process may die at any of them.     *)
(* The disk may also damage the events table behind the store's back: the  *)
(* code's answer is that readAll and open refuse such a table.             *)
(*                                                                         *)
(* SHA-256 is assumed injective: the hash of a row is the sequence of the  *)
(* row contents from the first event up to it, the genesis hash is <<>>.   *)
(* AES-GCM is assumed to authenticate: the head value cannot be damaged    *)
(* into another well-formed head, so `head` only changes by a transaction. *)
(* A transaction is atomic and durable (SQLite, synchronous = FULL).       *)
(***************************************************************************)
EXTENDS Naturals, Sequences, FiniteSets

CONSTANTS
    Calls,        \* concurrent callers of the store
    EventIds,     \* event ids callers may supply
    Aggregates,   \* aggregate identities
    Garbled,      \* content of a damaged row
    NoSnapshot,   \* absence of a row in the snapshots table
    MaxEvents,    \* bound: appends start only below this many events
    MaxDamage     \* bound: number of damaged or lost rows

ASSUME BoundsAssumption == MaxEvents \in Nat /\ MaxDamage \in Nat
ASSUME GarbledAssumption == Garbled \notin EventIds

VARIABLES
    events,       \* the events table in sequence order
    head,         \* metadata.event_chain_head: [count, hash]
    snapshots,    \* the snapshots table
    open,         \* does a process hold the store open
    call,         \* what each caller is waiting in
    acked,        \* events returned by append, with their sequence
    log,          \* contents of the committed events, in commit order
    damage        \* number of damages the events table has suffered

vars == <<events, head, snapshots, open, call, acked, log, damage>>

-----------------------------------------------------------------------------

GENESIS_HASH == <<>>

Bodies == [id : EventIds, agg : Aggregates]

computeEventHash(previous, body) == Append(previous, body)

Row(previous, body) ==
    [body |-> body, prev |-> previous, hash |-> computeEventHash(previous, body)]

LastHash(rows) ==
    IF rows = <<>> THEN GENESIS_HASH ELSE rows[Len(rows)].hash

\* The verification both readAll and authenticateExistingStore perform.
ReadAllSucceeds(rows, chainHead) ==
    /\ \A i \in DOMAIN rows :
          /\ rows[i].prev = IF i = 1 THEN GENESIS_HASH ELSE rows[i - 1].hash
          /\ rows[i].hash = computeEventHash(rows[i].prev, rows[i].body)
    /\ chainHead.count = Len(rows)
    /\ chainHead.hash = LastHash(rows)

\* How many events an aggregate has up to row i.
VersionAt(rows, agg, i) == Cardinality({j \in 1 .. i : rows[j].body.agg = agg})

\* readAggregate(agg)[version - 1], the version-th event of the aggregate in
\* sequence order, is there and has this hash.
HasCheckpoint(rows, agg, version, lastEventHash) ==
    \E i \in DOMAIN rows :
        /\ rows[i].body.agg = agg /\ VersionAt(rows, agg, i) = version
        /\ rows[i].hash = lastEventHash

Idle == [step |-> "idle"]

-----------------------------------------------------------------------------

Init ==
    /\ events = <<>>
    /\ head = [count |-> 0, hash |-> GENESIS_HASH]
    /\ snapshots = [a \in Aggregates |-> NoSnapshot]
    /\ open = TRUE
    /\ call = [c \in Calls |-> Idle]
    /\ acked = {}
    /\ log = <<>>
    /\ damage = 0

\* append, up to the await after the chain head was read.
StartAppend(c, body) ==
    /\ open
    /\ call[c] = Idle
    /\ Len(events) < MaxEvents
    /\ call' = [call EXCEPT ![c] = [step |-> "append", body |-> body, expected |-> head]]
    /\ UNCHANGED <<events, head, snapshots, open, acked, log, damage>>

\* Mutated form: the in-transaction head comparison is dropped.
HeadMatchesUnchecked(c) == TRUE

\* The transaction finds exactly the history the head it was given describes.
HeadMatches(c) ==
    /\ Len(events) = call[c].expected.count
    /\ LastHash(events) = call[c].expected.hash

\* The UNIQUE constraint on events.event_id.
IdIsFree(c) == \A i \in DOMAIN events : events[i].body.id # call[c].body.id

\* Mutated form: the row is chained to the head read before the await.
CommitAppendStaleHead(c) ==
    /\ open
    /\ call[c].step = "append"
    /\ IdIsFree(c)
    /\ LET row == Row(call[c].expected.hash, call[c].body) IN
         /\ events' = Append(events, row)
         /\ head' = [count |-> call[c].expected.count + 1, hash |-> row.hash]
         /\ acked' = acked \cup {[sequence |-> call[c].expected.count + 1, row |-> row]}
         /\ log' = Append(log, call[c].body)
    /\ call' = [call EXCEPT ![c] = Idle]
    /\ UNCHANGED <<snapshots, open, damage>>

\* append, the transaction: insert the row and rewrite the head.
CommitAppend(c) ==
    /\ open
    /\ call[c].step = "append"
    /\ HeadMatches(c)
    /\ IdIsFree(c)
    /\ LET row == Row(LastHash(events), call[c].body) IN
         /\ events' = Append(events, row)
         /\ head' = [count |-> Len(events) + 1, hash |-> row.hash]
         /\ acked' = acked \cup {[sequence |-> Len(events) + 1, row |-> row]}
         /\ log' = Append(log, call[c].body)
    /\ call' = [call EXCEPT ![c] = Idle]
    /\ UNCHANGED <<snapshots, open, damage>>

\* append, the transaction throws and is rolled back.
RejectAppend(c) ==
    /\ open
    /\ call[c].step = "append"
    /\ ~(HeadMatches(c) /\ IdIsFree(c))
    /\ call' = [call EXCEPT ![c] = Idle]
    /\ UNCHANGED <<events, head, snapshots, open, acked, log, damage>>

\* Mutated form: the event hash the snapshot claims is not compared.
StartSnapshotUnbound(c, agg, version, lastEventHash) ==
    /\ open
    /\ call[c] = Idle
    /\ ReadAllSucceeds(events, head)
    /\ \E i \in DOMAIN events : HasCheckpoint(events, agg, version, events[i].hash)
    /\ call' = [call EXCEPT ![c] =
                  [step |-> "select", agg |-> agg,
                   snapshot |-> [version |-> version, last |-> lastEventHash]]]
    /\ UNCHANGED <<events, head, snapshots, open, acked, log, damage>>

\* saveSnapshot, up to the await after the aggregate's events were checked.
StartSnapshot(c, agg, version, lastEventHash) ==
    /\ open
    /\ call[c] = Idle
    /\ ReadAllSucceeds(events, head)
    /\ HasCheckpoint(events, agg, version, lastEventHash)
    /\ call' = [call EXCEPT ![c] =
                  [step |-> "select", agg |-> agg,
                   snapshot |-> [version |-> version, last |-> lastEventHash]]]
    /\ UNCHANGED <<events, head, snapshots, open, acked, log, damage>>

\* saveSnapshot, the check against the stored version.
SelectSnapshot(c) ==
    /\ open
    /\ call[c].step = "select"
    /\ LET existing == snapshots[call[c].agg]
           rollback == existing # NoSnapshot /\ call[c].snapshot.version < existing.version
       IN call' = [call EXCEPT ![c] = IF rollback THEN Idle ELSE [@ EXCEPT !.step = "upsert"]]
    /\ UNCHANGED <<events, head, snapshots, open, acked, log, damage>>

\* saveSnapshot, the upsert.
UpsertSnapshot(c) ==
    /\ open
    /\ call[c].step = "upsert"
    /\ snapshots' = [snapshots EXCEPT ![call[c].agg] = call[c].snapshot]
    /\ call' = [call EXCEPT ![c] = Idle]
    /\ UNCHANGED <<events, head, open, acked, log, damage>>

\* The process closes the store or dies: pending calls are gone, rows are not.
CloseOrCrash ==
    /\ open
    /\ open' = FALSE
    /\ call' = [c \in Calls |-> Idle]
    /\ UNCHANGED <<events, head, snapshots, acked, log, damage>>

\* open of an existing store: authenticateExistingStore must succeed.
Reopen ==
    /\ ~open
    /\ ReadAllSucceeds(events, head)
    /\ open' = TRUE
    /\ UNCHANGED <<events, head, snapshots, call, acked, log, damage>>

\* Damage does not strike between the two reads of one append: the head read
\* before the await and the rows read after it describe the same disk.
NoAppendPending == \A c \in Calls : call[c].step # "append"

\* The disk loses row i.
LoseRow(i) ==
    /\ damage < MaxDamage
    /\ NoAppendPending
    /\ events' = [j \in 1 .. Len(events) - 1 |-> IF j < i THEN events[j] ELSE events[j + 1]]
    /\ damage' = damage + 1
    /\ UNCHANGED <<head, snapshots, open, call, acked, log>>

\* The disk damages the contents of row i.
GarbleRow(i) ==
    /\ damage < MaxDamage
    /\ NoAppendPending
    /\ events' = [events EXCEPT ![i].body.id = Garbled]
    /\ damage' = damage + 1
    /\ UNCHANGED <<head, snapshots, open, call, acked, log>>

CallStep(c) ==
    \/ \E body \in Bodies : StartAppend(c, body)
    \/ CommitAppend(c)
    \/ RejectAppend(c)
    \/ \E agg \in Aggregates, i \in DOMAIN events, version \in 1 .. Len(events) :
          StartSnapshot(c, agg, version, events[i].hash)
    \/ SelectSnapshot(c)
    \/ UpsertSnapshot(c)

Next ==
    \/ \E c \in Calls : CallStep(c)
    \/ CloseOrCrash
    \/ Reopen
    \/ \E i \in DOMAIN events : LoseRow(i) \/ GarbleRow(i)

Spec == Init /\ [][Next]_vars

-----------------------------------------------------------------------------

Hashes == Seq(Bodies)

RowType ==
    [body : [id : EventIds \cup {Garbled}, agg : Aggregates],
     prev : Hashes, hash : Hashes]

SnapshotType == [version : Nat \ {0}, last : Hashes]

CallType ==
    {Idle}
    \cup [step : {"append"}, body : Bodies, expected : [count : Nat, hash : Hashes]]
    \cup [step : {"select", "upsert"}, agg : Aggregates, snapshot : SnapshotType]

(* The type invariant of the store: the tables, the pending calls, what      *)
(* append returned and the commit history.                                   *)
TypeOK ==
    /\ events \in Seq(RowType)
    /\ head \in [count : Nat, hash : Hashes]
    /\ snapshots \in [Aggregates -> SnapshotType \cup {NoSnapshot}]
    /\ open \in BOOLEAN
    /\ call \in [Calls -> CallType]
    /\ acked \subseteq [sequence : Nat \ {0}, row : RowType]
    /\ log \in Seq(Bodies)
    /\ damage \in Nat

(* The authenticated head describes the committed history, whatever happened *)
(* to the rows and however the awaits of concurrent appends interleaved.     *)
HeadIsHistory == head.count = Len(log) /\ head.hash = log

(* While the disk is sound, the table is the hash chain of the committed     *)
(* events: concurrent appends never fork it, skip a row or store an id twice *)
(* (append 429-488).                                                         *)
ChainIntact ==
    damage = 0 =>
        /\ Len(events) = Len(log)
        /\ \A i \in 1 .. Len(log) :
              events[i] = [body |-> log[i],
                           prev |-> SubSeq(log, 1, i - 1),
                           hash |-> SubSeq(log, 1, i)]
        /\ \A i, j \in DOMAIN log : log[i].id = log[j].id => i = j

(* A sound table always reads back: the store never locks itself out by its  *)
(* own appends.                                                              *)
SoundStoreReadable == damage = 0 => ReadAllSucceeds(events, head)

(* A lost or altered row is noticed by readAll, and by the next open, for    *)
(* ever: no later append makes a damaged history look sound.                 *)
DamageDetected == damage > 0 => ~ReadAllSucceeds(events, head)

(* What append returned to its caller is in the table, at the sequence it    *)
(* returned, as long as the disk is sound (also after a crash).              *)
AckedDurable ==
    damage = 0 =>
        \A a \in acked : a.sequence <= Len(events) /\ events[a.sequence] = a.row

(* A stored snapshot names an event of its own aggregate at its version, so  *)
(* loadSnapshot accepts it on a sound table (saveSnapshot 573-577).          *)
SnapshotOnChain ==
    damage = 0 =>
        \A agg \in Aggregates :
            snapshots[agg] # NoSnapshot =>
                HasCheckpoint(events, agg, snapshots[agg].version, snapshots[agg].last)

(* The store itself only ever appends rows: a step that shortens or rewrites *)
(* the table is a damage of the disk.                                        *)
AppendOnly ==
    [][\/ events' = events
       \/ damage' > damage
       \/ /\ Len(events') = Len(events) + 1
          /\ SubSeq(events', 1, Len(events)) = events]_vars

(* The store is sound while its disk is: types, chain and what append        *)
(* returned, together, over every interleaving of awaits and every crash.    *)
StoreSound == TypeOK /\ ChainIntact /\ AckedDurable

(* Reading decides soundness exactly: readAll and the next open accept a     *)
(* history that was never damaged and refuse every other one.                *)
VerifyDecides == SoundStoreReadable /\ DamageDetected
=============================================================================
