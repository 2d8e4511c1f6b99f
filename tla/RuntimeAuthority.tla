--------------------------- MODULE RuntimeAuthority ---------------------------
(***************************************************************************)
(* The mutating half of RuntimeAuthority.execute                           *)
(* (src/src/daemon/authority.ts) behind the daemon's authority queue       *)
(* (src/src/daemon/server.ts) and its clients (src/src/ipc/client.ts).     *)
(*                                                                         *)
(* A request carries an id and a command.  The daemon first looks for the  *)
(* id's receipt and for its deterministic event (replayOrReject), then     *)
(* runs the handler, which appends the event and afterwards writes the     *)
(* receipt.  The daemon may die between any two of these steps, a client   *)
(* may give up waiting while its request is still queued, and it retries   *)
(* with the same id.                                                       *)
(*                                                                         *)
(* Handlers are grouped by how they touch the store:                       *)
(*   "command"         recordCommand and recordDecisionCommand             *)
(*   "config"          mutateConfig: read, transform, append               *)
(*   "put"             a versioned record written through put              *)
(*   "domain-archive"  the generic archive handler                         *)
(*   "archive"         the campaign-archive and outcome-archive handlers   *)
(*   "decision"        DecisionIntelligenceRepositories.record             *)
(* The event of a request stands for every row bound to it.                *)
(***************************************************************************)
EXTENDS Naturals, Sequences, FiniteSets

CONSTANTS
    Clients,      \* callers of callAuthority
    RequestIds,   \* request ids clients choose
    Records,      \* versioned records
    ConfigRecord, \* the auto apply configuration aggregate
    Ops,          \* the operation groups clients use
    NoJob, NoReceipt, NoEvent,
    MaxVersion,   \* bound: expectedVersion of a request
    MaxCalls,     \* bound: fresh requests
    MaxLosses,    \* bound: client timeouts and daemon crashes together
    MaxTickets    \* bound: request frames sent

VersionedOps == {"put", "domain-archive", "archive", "decision"}

AllOps == VersionedOps \cup {"command", "config"}

ASSUME AuthorityAssumption ==
    /\ Ops \subseteq AllOps
    /\ MaxVersion \in Nat /\ MaxCalls \in Nat /\ MaxLosses \in Nat /\ MaxTickets \in Nat
    /\ ConfigRecord \notin Records
    /\ \A r \in Records \cup {ConfigRecord} : r # NoEvent

VARIABLES
    events,       \* committed events, in order
    receipts,     \* authority_receipts by request id
    jobs,         \* requests the daemon has accepted, by arrival ticket
    sent,         \* request frames sent so far
    up,           \* is the daemon running
    client,       \* state of each caller
    answers,      \* successful responses received by callers
    calls,        \* fresh requests made so far
    losses        \* timeouts and crashes so far

vars == <<events, receipts, jobs, sent, up, client, answers, calls, losses>>

store  == <<events, receipts>>
budget == <<calls, losses>>

-----------------------------------------------------------------------------

Tickets == 1 .. MaxTickets

Commands ==
    [op : Ops \cap VersionedOps, rec : Records, expected : 0 .. MaxVersion]
    \cup [op : Ops \cap {"command"}, rec : {NoEvent}, expected : {0}]
    \cup [op : Ops \cap {"config"}, rec : {ConfigRecord}, expected : {0}]

\* A response: the record version it reports and its status; `at` is the
\* arrival of the attempt that computed it, so two attempts never compute
\* equal responses (they carry timestamps and operation ids).
Responses == [version : Nat, status : {"active", "archived", "done"}, at : Nat]

Event(id, cmd, resp, writes) == [id |-> id, cmd |-> cmd, resp |-> resp, writes |-> writes]

\* store.readEvent of the deterministic event id of a request.
Committed(id) == {i \in DOMAIN events : events[i].id = id}

\* The events of a record's aggregate, and its latest version.
RecordEvents(rec) == {i \in DOMAIN events : events[i].writes = rec}

CurrentVersion(rec) == Cardinality(RecordEvents(rec))

Latest(rec) ==
    events[CHOOSE i \in RecordEvents(rec) : \A j \in RecordEvents(rec) : j <= i].resp

IsArchived(rec) == RecordEvents(rec) # {} /\ Latest(rec).status = "archived"

\* The receipt row a request leaves.
Receipt(job) == [cmd |-> job.cmd, resp |-> job.resp]

\* Mutated form: execute is called without the authority queue.
MayRunUnqueued(t) == jobs[t] # NoJob

\* The authority queue runs one request at a time, in arrival order.
MayRun(t) == jobs[t] # NoJob /\ \A u \in Tickets : jobs[u] # NoJob => t <= u

-----------------------------------------------------------------------------

Idle == [status |-> "idle"]

Init ==
    /\ events = <<>>
    /\ receipts = [id \in RequestIds |-> NoReceipt]
    /\ jobs = [t \in Tickets |-> NoJob]
    /\ sent = 0
    /\ up = TRUE
    /\ client = [c \in Clients |-> Idle]
    /\ answers = {}
    /\ calls = 0
    /\ losses = 0

\* A request frame reaches the daemon and joins the authority queue.
Send(c, id, cmd) ==
    /\ up
    /\ sent < MaxTickets
    /\ sent' = sent + 1
    /\ jobs' = [jobs EXCEPT ![sent + 1] =
                  [client |-> c, id |-> id, cmd |-> cmd, step |-> "replay",
                   resp |-> [version |-> 0, status |-> "done", at |-> 0],
                   writes |-> NoEvent]]
    /\ client' = [client EXCEPT ![c] =
                    [status |-> "waiting", id |-> id, cmd |-> cmd, ticket |-> sent + 1]]

\* callAuthority with a new request id, or one already used.
Call(c, id, cmd) ==
    /\ client[c].status \in {"idle", "settled"}
    /\ calls < MaxCalls
    /\ Send(c, id, cmd)
    /\ calls' = calls + 1
    /\ UNCHANGED <<store, up, answers, losses>>

\* "Retry with the same request id to recover the canonical result".
Retry(c) ==
    /\ client[c].status = "lost"
    /\ Send(c, client[c].id, client[c].cmd)
    /\ UNCHANGED <<store, up, answers, budget>>

\* channel.receive times out: the request stays in the daemon's queue.
Timeout(c) ==
    /\ client[c].status = "waiting"
    /\ losses < MaxLosses
    /\ losses' = losses + 1
    /\ client' = [client EXCEPT ![c].status = "lost"]
    /\ UNCHANGED <<store, jobs, sent, up, answers, calls>>

\* The daemon dies, or close() destroys the sockets under a running request.
Crash ==
    /\ up
    /\ losses < MaxLosses
    /\ losses' = losses + 1
    /\ up' = FALSE
    /\ jobs' = [t \in Tickets |-> NoJob]
    /\ client' = [c \in Clients |->
                    IF client[c].status = "waiting" THEN [client[c] EXCEPT !.status = "lost"]
                    ELSE client[c]]
    /\ UNCHANGED <<store, sent, answers, calls>>

Restart ==
    /\ ~up
    /\ up' = TRUE
    /\ UNCHANGED <<store, jobs, sent, client, answers, budget>>

-----------------------------------------------------------------------------

Waiting(t) ==
    /\ client[jobs[t].client].status = "waiting"
    /\ client[jobs[t].client].ticket = t

\* Mutated form: a rejected execution poisons the queue's promise chain.
FinishPoisoned(t, ok, resp) ==
    LET job == jobs[t] IN
    /\ jobs' = [jobs EXCEPT ![t] = IF ok THEN NoJob ELSE [@ EXCEPT !.step = "rejected"]]
    /\ IF Waiting(t)
       THEN /\ client' = [client EXCEPT ![job.client] =
                            [status |-> "settled", id |-> job.id, cmd |-> job.cmd, ok |-> ok]]
            /\ UNCHANGED answers
       ELSE UNCHANGED <<client, answers>>
    /\ UNCHANGED <<sent, up, budget>>

\* The daemon answers: a caller that gave up does not see it.
Finish(t, ok, resp) ==
    LET job == jobs[t] IN
    /\ jobs' = [jobs EXCEPT ![t] = NoJob]
    /\ IF Waiting(t)
       THEN /\ client' = [client EXCEPT ![job.client] =
                            [status |-> "settled", id |-> job.id, cmd |-> job.cmd, ok |-> ok]]
            /\ answers' = IF ok
                          THEN answers \cup {[id |-> job.id, cmd |-> job.cmd, resp |-> resp]}
                          ELSE answers
       ELSE UNCHANGED <<client, answers>>
    /\ UNCHANGED <<sent, up, budget>>

Refuse(t) == Finish(t, FALSE, jobs[t].resp) /\ UNCHANGED store

\* Go on to the next step of the request's handler.
Advance(t, step, resp, writes) ==
    /\ jobs' = [jobs EXCEPT ![t] = [@ EXCEPT !.step = step, !.resp = resp, !.writes = writes]]
    /\ UNCHANGED <<sent, up, client, answers, budget>>

\* Mutated form: the command of a known request id is not compared.
BoundToUnchecked(bound, cmd) == TRUE

\* The receipt or event of a request id was made for this very command.
BoundTo(bound, cmd) == bound.cmd = cmd

\* Mutated form: only the receipt table is consulted.
ReplayReceiptOnly(t) ==
    LET job == jobs[t] IN
    /\ MayRun(t)
    /\ job.step = "replay"
    /\ IF receipts[job.id] = NoReceipt
       THEN Advance(t, "validate", job.resp, NoEvent) /\ UNCHANGED store
       ELSE IF BoundTo(receipts[job.id], job.cmd)
            THEN Finish(t, TRUE, receipts[job.id].resp) /\ UNCHANGED store
            ELSE Refuse(t)

\* replayOrReject: the receipt first, then the deterministic event.
Replay(t) ==
    LET job     == jobs[t]
        receipt == receipts[job.id]
        rows    == Committed(job.id)
        row     == events[CHOOSE i \in rows : TRUE]
    IN
    /\ MayRun(t)
    /\ job.step = "replay"
    /\ CASE receipt # NoReceipt ->
              IF BoundTo(receipt, job.cmd) /\ rows # {} /\ BoundTo(row, job.cmd)
                 /\ row.resp = receipt.resp
              THEN Finish(t, TRUE, receipt.resp) /\ UNCHANGED store
              ELSE Refuse(t)
         [] receipt = NoReceipt /\ rows # {} ->
              IF BoundTo(row, job.cmd)
              THEN /\ receipts' = [receipts EXCEPT ![job.id] = [cmd |-> job.cmd, resp |-> row.resp]]
                   /\ Finish(t, TRUE, row.resp)
                   /\ UNCHANGED events
              ELSE Refuse(t)
         [] receipt = NoReceipt /\ rows = {} ->
              Advance(t, "validate", job.resp, NoEvent) /\ UNCHANGED store

\* recordCommand, recordDecisionCommand: the response is computed, no record
\* is written.
ValidateCommand(t) ==
    /\ MayRun(t)
    /\ jobs[t].step = "validate"
    /\ jobs[t].cmd.op = "command"
    /\ Advance(t, "append", [version |-> 0, status |-> "done", at |-> t], NoEvent)
    /\ UNCHANGED store

\* mutateConfig: load the configuration and transform it.
ValidateConfig(t) ==
    /\ MayRun(t)
    /\ jobs[t].step = "validate"
    /\ jobs[t].cmd.op = "config"
    /\ Advance(t, "append",
               [version |-> CurrentVersion(ConfigRecord) + 1, status |-> "active", at |-> t],
               ConfigRecord)
    /\ UNCHANGED store

\* putSerialized and DecisionIntelligenceRepositories.record.
ValidatePut(t) ==
    LET cmd == jobs[t].cmd IN
    /\ MayRun(t)
    /\ jobs[t].step = "validate"
    /\ cmd.op \in {"put", "decision"}
    /\ IF CurrentVersion(cmd.rec) = cmd.expected
       THEN /\ Advance(t, "append",
                       [version |-> cmd.expected + 1, status |-> "active", at |-> t], cmd.rec)
            /\ UNCHANGED store
       ELSE Refuse(t)

\* Mutated form: an archived record is answered without recording a command.
ValidateArchiveUnrecorded(t) ==
    LET cmd == jobs[t].cmd IN
    /\ MayRun(t)
    /\ jobs[t].step = "validate"
    /\ cmd.op \in {"archive", "domain-archive"}
    /\ IF RecordEvents(cmd.rec) = {} \/ CurrentVersion(cmd.rec) # cmd.expected
       THEN Refuse(t)
       ELSE /\ IF IsArchived(cmd.rec)
               THEN Advance(t, "receipt", Latest(cmd.rec), NoEvent)
               ELSE Advance(t, "append",
                            [version |-> cmd.expected + 1, status |-> "archived", at |-> t],
                            cmd.rec)
            /\ UNCHANGED store

\* archiveSerialized; the generic handler records a command for a record that
\* is already archived, the dedicated ones go straight to the receipt.
ValidateArchive(t) ==
    LET cmd == jobs[t].cmd IN
    /\ MayRun(t)
    /\ jobs[t].step = "validate"
    /\ cmd.op \in {"archive", "domain-archive"}
    /\ IF RecordEvents(cmd.rec) = {} \/ CurrentVersion(cmd.rec) # cmd.expected
       THEN Refuse(t)
       ELSE /\ IF IsArchived(cmd.rec)
               THEN Advance(t, IF cmd.op = "archive" THEN "receipt" ELSE "append",
                            Latest(cmd.rec), NoEvent)
               ELSE Advance(t, "append",
                            [version |-> cmd.expected + 1, status |-> "archived", at |-> t],
                            cmd.rec)
            /\ UNCHANGED store

\* store.append of the request's event: event ids are unique.
AppendEvent(t) ==
    LET job == jobs[t] IN
    /\ MayRun(t)
    /\ job.step = "append"
    /\ IF Committed(job.id) = {}
       THEN /\ events' = Append(events, Event(job.id, job.cmd, job.resp, job.writes))
            /\ Advance(t, "receipt", job.resp, job.writes)
            /\ UNCHANGED receipts
       ELSE Refuse(t)

\* recordAuthorityReceipt; the decision repositories accept an equal receipt.
WriteReceipt(t) ==
    LET job == jobs[t] IN
    /\ MayRun(t)
    /\ job.step = "receipt"
    /\ IF receipts[job.id] = NoReceipt
          \/ (job.cmd.op = "decision" /\ receipts[job.id] = Receipt(job))
       THEN /\ receipts' = [receipts EXCEPT ![job.id] = Receipt(job)]
            /\ Advance(t, "reply", job.resp, job.writes)
            /\ UNCHANGED events
       ELSE Refuse(t)

Reply(t) ==
    /\ MayRun(t)
    /\ jobs[t].step = "reply"
    /\ Finish(t, TRUE, jobs[t].resp)
    /\ UNCHANGED store

DaemonStep(t) ==
    \/ Replay(t) \/ ValidateCommand(t) \/ ValidateConfig(t) \/ ValidatePut(t)
    \/ ValidateArchive(t) \/ AppendEvent(t) \/ WriteReceipt(t) \/ Reply(t)

ClientStep(c) ==
    \/ \E id \in RequestIds, cmd \in Commands : Call(c, id, cmd)
    \/ Retry(c)
    \/ Timeout(c)

Next ==
    \/ \E c \in Clients : ClientStep(c)
    \/ \E t \in Tickets : DaemonStep(t)
    \/ Crash
    \/ Restart

Spec == Init /\ [][Next]_vars

\* The event loop keeps running the queue's promise chain.  Nothing in the
\* code restarts a dead daemon or retries a lost request by itself.
Fairness == WF_vars(\E t \in Tickets : DaemonStep(t))

FairSpec == Spec /\ Fairness

-----------------------------------------------------------------------------

JobType ==
    [client : Clients, id : RequestIds, cmd : Commands,
     step : {"replay", "validate", "append", "receipt", "reply"},
     resp : Responses, writes : Records \cup {ConfigRecord, NoEvent}]

ClientType ==
    {Idle}
    \cup [status : {"waiting", "lost"}, id : RequestIds, cmd : Commands, ticket : Tickets]
    \cup [status : {"settled"}, id : RequestIds, cmd : Commands, ok : BOOLEAN]

ASSUME AbsenceAssumption ==
    NoJob \notin JobType /\ NoReceipt \notin [cmd : Commands, resp : Responses]

(* The type invariant of the authority, its queue and its clients.           *)
TypeOK ==
    /\ events \in Seq([id : RequestIds, cmd : Commands, resp : Responses,
                       writes : Records \cup {ConfigRecord, NoEvent}])
    /\ receipts \in [RequestIds -> [cmd : Commands, resp : Responses] \cup {NoReceipt}]
    /\ jobs \in [Tickets -> JobType \cup {NoJob}]
    /\ sent \in 0 .. MaxTickets
    /\ up \in BOOLEAN
    /\ client \in [Clients -> ClientType]
    /\ answers \subseteq [id : RequestIds, cmd : Commands, resp : Responses]
    /\ calls \in 0 .. MaxCalls
    /\ losses \in 0 .. MaxLosses

(* A receipt row is a cache of an event: replayOrReject can always confirm   *)
(* it ("Receipt rows are reconstructable caches", ARCHITECTURE.md:31).       *)
ReceiptBound ==
    \A id \in RequestIds :
        receipts[id] # NoReceipt =>
            \E i \in Committed(id) :
                events[i].cmd = receipts[id].cmd /\ events[i].resp = receipts[id].resp

(* The versions of a record are 1, 2, 3, ... in commit order: no update is   *)
(* computed from a version another request has already replaced, although    *)
(* the handlers await between reading the version and appending.             *)
NoLostUpdate ==
    \A rec \in Records \cup {ConfigRecord} :
        \A i \in RecordEvents(rec) :
            events[i].resp.version = Cardinality({j \in RecordEvents(rec) : j <= i})

(* The records and the receipts of the authority agree with its history, in  *)
(* every interleaving of handlers and after every crash.                     *)
AuthorityConsistent == TypeOK /\ ReceiptBound /\ NoLostUpdate

\* The request of c is being refused.
Refused(c) == client'[c] # client[c] /\ client'[c].status = "settled" /\ ~client'[c].ok

\* An answer was given to the request of c, or its event is committed.
Answered(c) == \E a \in answers : a.id = client[c].id /\ a.cmd = client[c].cmd
Decided(c) == \E i \in Committed(client[c].id) : events[i].cmd = client[c].cmd

(* A request that was answered is never refused when it is sent again with   *)
(* the same id and parameters (client.ts:138, "Retry with the same request   *)
(* id to recover the canonical result").                                     *)
AnsweredNeverRefused == [][\A c \in Clients : Refused(c) => ~Answered(c)]_vars

(* A retry is never refused what it is owed: neither an answer that was      *)
(* given before, nor a decision whose event is committed, be it by a crash   *)
(* between the append and the receipt or an answer the client did not wait   *)
(* for (replayOrReject).                                                     *)
RetryNeverRefused == [][\A c \in Clients : Refused(c) => ~Answered(c) /\ ~Decided(c)]_vars

(* No request waits for ever: behind any number of refused, abandoned and    *)
(* replayed requests the queue reaches it, unless its client or the daemon   *)
(* gives up first (server.ts:115-123).                                       *)
NoRequestStarves ==
    \A c \in Clients : client[c].status = "waiting" ~> client[c].status # "waiting"

\* The durable decision of an id is the event bound to it.
Promise == INSTANCE RequestPromise WITH
    Ids <- RequestIds,
    Commands <- Commands,
    Responses <- Responses,
    Undecided <- NoReceipt,
    decision <- [id \in RequestIds |->
                   IF Committed(id) = {} THEN NoReceipt
                   ELSE LET row == events[CHOOSE i \in Committed(id) : TRUE]
                        IN [cmd |-> row.cmd, resp |-> row.resp]],
    answers <- answers

(* The daemon with its crashes, replays and receipts implements the request  *)
(* promise: one durable decision per id, and every answer is that decision.  *)
KeepsPromise == Promise!Spec
=============================================================================
