------------------------ MODULE RuntimeAuthorityProofs ------------------------
(***************************************************************************)
(* Proofs about the authority and its queue, for any number of clients,    *)
(* request ids, records, retries and crashes.                              *)
(*                                                                         *)
(* The invariants the runs check follow from what the requests in          *)
(* execution know: only the oldest request is past its replay, nobody has  *)
(* recorded anything under its id since, and the version it computed is    *)
(* still the next one (JobProgress).  The archive handlers that answer     *)
(* without an event are kept in the model: what they break is stated for   *)
(* operations without them.                                                *)
(*                                                                         *)
(* Last come two kinds of records the authority keeps, which their own     *)
(* algorithms make: opportunity identities (DedupeRun) and taxonomy        *)
(* mappings (TaxonomyMapping).                                             *)
(***************************************************************************)
EXTENDS RuntimeAuthority, DedupeRun, TaxonomyMapping, FiniteSetTheorems,
        WellFoundedInduction, TLAPS

EventType ==
    [id : RequestIds, cmd : Commands, resp : Responses,
     writes : Records \cup {ConfigRecord, NoEvent}]

\* The requests accepted are those of the running daemon.
Arrived == \A t \in Tickets : jobs[t] # NoJob => up /\ t <= sent

\* Only the oldest request is in execution.
OneRunning ==
    \A t, u \in Tickets :
        jobs[t] # NoJob /\ jobs[u] # NoJob /\ t < u => jobs[u].step = "replay"

\* What a caller waits for is the request it sent.
CallersBound ==
    \A c \in Clients :
        client[c].status = "waiting" =>
            /\ jobs[client[c].ticket] # NoJob
            /\ jobs[client[c].ticket].client = c
            /\ jobs[client[c].ticket].id = client[c].id
            /\ jobs[client[c].ticket].cmd = client[c].cmd

OneEventPerId == \A i, j \in DOMAIN events : events[i].id = events[j].id => i = j

HasLatest ==
    \A rec \in Records \cup {ConfigRecord} :
        RecordEvents(rec) # {} =>
            \E i \in RecordEvents(rec) : \A j \in RecordEvents(rec) : j <= i

\* The id has an event for this command with this response.
Bound(id, cmd, resp) ==
    \E i \in Committed(id) : events[i].cmd = cmd /\ events[i].resp = resp

\* Receipts and answers stand on an event, except those of the archive
\* handlers for a record that is archived already.
ReceiptsKept ==
    \A id \in RequestIds :
        receipts[id] # NoReceipt /\ (receipts[id].cmd.op # "archive" \/ Committed(id) # {}) =>
            Bound(id, receipts[id].cmd, receipts[id].resp)

AnswersKept ==
    \A a \in answers : a.cmd.op # "archive" => Bound(a.id, a.cmd, a.resp)

\* What a request knows at the step it has reached.
JobProgress(t) ==
    /\ jobs[t].step \in {"validate", "append", "receipt"} => receipts[jobs[t].id] = NoReceipt
    /\ jobs[t].step \in {"validate", "append"} => Committed(jobs[t].id) = {}
    /\ jobs[t].step = "append" /\ jobs[t].writes # NoEvent =>
          jobs[t].resp.version = CurrentVersion(jobs[t].writes) + 1
    /\ jobs[t].step = "receipt" /\ (jobs[t].cmd.op # "archive" \/ Committed(jobs[t].id) # {}) =>
          Bound(jobs[t].id, jobs[t].cmd, jobs[t].resp)
    /\ jobs[t].step = "reply" => receipts[jobs[t].id] = Receipt(jobs[t])

JobsKnow == \A t \in Tickets : jobs[t] # NoJob => JobProgress(t)

\* The inductive invariant.
Inv ==
    /\ TypeOK
    /\ Arrived /\ OneRunning /\ CallersBound
    /\ OneEventPerId /\ HasLatest /\ NoLostUpdate
    /\ ReceiptsKept /\ AnswersKept /\ JobsKnow

-----------------------------------------------------------------------------

(* The elements of a sequence, and what appending one changes.               *)
LEMMA SeqFacts ==
    ASSUME NEW S, NEW s \in Seq(S)
    PROVE  /\ Len(s) \in Nat /\ DOMAIN s = 1 .. Len(s)
           /\ \A i \in DOMAIN s : s[i] \in S
           /\ \A e \in S : /\ Append(s, e) \in Seq(S)
                           /\ DOMAIN Append(s, e) = 1 .. Len(s) + 1
                           /\ Append(s, e)[Len(s) + 1] = e
                           /\ \A i \in 1 .. Len(s) : Append(s, e)[i] = s[i]
  OBVIOUS

(* What is known of an accepted request, its event and its client.           *)
LEMMA Typed ==
    ASSUME TypeOK
    PROVE  /\ \A t \in Tickets : jobs[t] # NoJob =>
                 /\ jobs[t] \in JobType
                 /\ jobs[t].client \in Clients /\ jobs[t].id \in RequestIds
                 /\ jobs[t].cmd \in Commands /\ jobs[t].resp \in Responses
                 /\ jobs[t].writes \in Records \cup {ConfigRecord, NoEvent}
                 /\ jobs[t].step \in {"replay", "validate", "append", "receipt", "reply"}
           /\ \A id \in RequestIds : receipts[id] # NoReceipt =>
                 /\ receipts[id] \in [cmd : Commands, resp : Responses]
                 /\ receipts[id].cmd \in Commands /\ receipts[id].resp \in Responses
           /\ \A i \in DOMAIN events :
                 /\ events[i] \in EventType
                 /\ events[i].id \in RequestIds /\ events[i].cmd \in Commands
                 /\ events[i].resp \in Responses
                 /\ events[i].writes \in Records \cup {ConfigRecord, NoEvent}
           /\ \A c \in Clients : client[c].status \in {"waiting", "lost"} =>
                 /\ client[c].id \in RequestIds /\ client[c].cmd \in Commands
                 /\ client[c].ticket \in Tickets
           /\ Len(events) \in Nat /\ DOMAIN events = 1 .. Len(events)
<1>1. \A t \in Tickets : jobs[t] # NoJob => jobs[t] \in JobType
  BY DEF TypeOK
<1>2. \A i \in DOMAIN events : events[i] \in EventType
  BY SeqFacts DEF TypeOK, EventType
<1>3. ASSUME NEW c \in Clients, client[c].status \in {"waiting", "lost"}
      PROVE  /\ client[c].id \in RequestIds /\ client[c].cmd \in Commands
             /\ client[c].ticket \in Tickets
  <2>1. client[c] \in ClientType
    BY DEF TypeOK
  <2>2. client[c] \in [status : {"waiting", "lost"}, id : RequestIds, cmd : Commands,
                       ticket : Tickets]
    BY <1>3, <2>1 DEF ClientType, Idle
  <2> QED BY <2>2
<1>4. Len(events) \in Nat /\ DOMAIN events = 1 .. Len(events)
  BY DEF TypeOK
<1>5. \A id \in RequestIds : receipts[id] # NoReceipt =>
                               receipts[id] \in [cmd : Commands, resp : Responses]
  BY DEF TypeOK
<1> QED BY <1>1, <1>2, <1>3, <1>4, <1>5 DEF JobType, EventType

(* An answer settles a caller that waits, and frees the place of its request. *)
LEMMA FinishType ==
    ASSUME TypeOK, NEW t \in Tickets, NEW ok \in BOOLEAN, NEW resp \in Responses,
           jobs[t] # NoJob, Finish(t, ok, resp)
    PROVE  /\ jobs' \in [Tickets -> JobType \cup {NoJob}]
           /\ sent' = sent /\ up' = up /\ calls' = calls /\ losses' = losses
           /\ client' \in [Clients -> ClientType]
           /\ answers' \subseteq [id : RequestIds, cmd : Commands, resp : Responses]
<1>1. jobs[t].id \in RequestIds /\ jobs[t].cmd \in Commands /\ jobs[t].client \in Clients
  BY Typed
<1>2. jobs' \in [Tickets -> JobType \cup {NoJob}]
  BY DEF Finish, TypeOK
<1>3. [status |-> "settled", id |-> jobs[t].id, cmd |-> jobs[t].cmd, ok |-> ok] \in ClientType
  BY <1>1 DEF ClientType
<1>4. client' \in [Clients -> ClientType]
  BY <1>1, <1>3 DEF Finish, TypeOK
<1>5. answers' \subseteq [id : RequestIds, cmd : Commands, resp : Responses]
  BY <1>1 DEF Finish, TypeOK
<1> QED BY <1>2, <1>4, <1>5 DEF Finish, budget

(* Going on to another step changes nothing but the request.                 *)
LEMMA AdvanceType ==
    ASSUME TypeOK, NEW t \in Tickets, jobs[t] # NoJob,
           NEW step \in {"replay", "validate", "append", "receipt", "reply"},
           NEW resp \in Responses, NEW writes \in Records \cup {ConfigRecord, NoEvent},
           Advance(t, step, resp, writes)
    PROVE  /\ jobs' \in [Tickets -> JobType \cup {NoJob}]
           /\ jobs'[t] = [jobs[t] EXCEPT !.step = step, !.resp = resp, !.writes = writes]
           /\ \A u \in Tickets \ {t} : jobs'[u] = jobs[u]
           /\ UNCHANGED <<sent, up, client, answers, calls, losses>>
<1>1. jobs[t] \in JobType
  BY Typed
<1>2. [jobs[t] EXCEPT !.step = step, !.resp = resp, !.writes = writes] \in JobType
  BY <1>1 DEF JobType
<1> QED BY <1>2 DEF Advance, TypeOK, budget

(* Versions are natural numbers, and the latest row of a record is a row.    *)
LEMMA VersionType ==
    ASSUME TypeOK, NEW rec
    PROVE  IsFiniteSet(RecordEvents(rec)) /\ CurrentVersion(rec) \in Nat
<1>1. IsFiniteSet(1 .. Len(events)) /\ RecordEvents(rec) \subseteq 1 .. Len(events)
  BY Typed, FS_Interval DEF RecordEvents
<1> QED BY <1>1, FS_Subset, FS_CardinalityType DEF CurrentVersion

LEMMA LatestType ==
    ASSUME TypeOK, HasLatest, NEW rec \in Records \cup {ConfigRecord}, RecordEvents(rec) # {}
    PROVE  Latest(rec) \in Responses
<1>1. \E i \in RecordEvents(rec) : \A j \in RecordEvents(rec) : j <= i
  BY DEF HasLatest
<1>2. (CHOOSE i \in RecordEvents(rec) : \A j \in RecordEvents(rec) : j <= i) \in RecordEvents(rec)
  BY <1>1
<1> QED BY <1>2, Typed DEF Latest, RecordEvents

(* A request in execution is one of the queue's, and only the oldest runs.   *)
LEMMA RunningFacts ==
    ASSUME TypeOK, OneRunning, NEW t \in Tickets, MayRun(t), jobs[t].step # "replay"
    PROVE  \A u \in Tickets \ {t} : jobs[u] # NoJob => jobs[u].step = "replay" /\ t < u
<1> QED BY DEF MayRun, OneRunning, Tickets

Steps == {"replay", "validate", "append", "receipt", "reply"}

Receipts == [RequestIds -> [cmd : Commands, resp : Responses] \cup {NoReceipt}]

\* The two ways a step of a request ends, with values of their types.
Finishes(t) == \E ok \in BOOLEAN, resp \in Responses : Finish(t, ok, resp)

Advances(t) ==
    \E step \in Steps, resp \in Responses, writes \in Records \cup {ConfigRecord, NoEvent} :
        Advance(t, step, resp, writes)

(* A daemon step runs the oldest request, which it finishes or advances.     *)
LEMMA DaemonMoves ==
    ASSUME TypeOK, HasLatest, NEW t \in Tickets, DaemonStep(t)
    PROVE  /\ jobs[t] # NoJob /\ MayRun(t)
           /\ events' \in Seq(EventType) /\ receipts' \in Receipts
           /\ Finishes(t) \/ Advances(t)
<1> DEFINE job == jobs[t]
<1> USE DEF store
<1>1. /\ jobs[t] # NoJob /\ MayRun(t) /\ job.id \in RequestIds /\ job.cmd \in Commands
      /\ job.resp \in Responses /\ job.writes \in Records \cup {ConfigRecord, NoEvent}
  BY Typed DEF DaemonStep, Replay, ValidateCommand, ValidateConfig, ValidatePut,
               ValidateArchive, AppendEvent, WriteReceipt, Reply, MayRun
<1>2. events \in Seq(EventType) /\ receipts \in Receipts /\ t \in Nat
  BY DEF TypeOK, EventType, Receipts, Tickets
<1>3. job.cmd.op \in {"put", "decision", "domain-archive", "archive"} =>
          job.cmd.rec \in Records /\ job.cmd.expected \in Nat
  BY <1>1 DEF Commands, VersionedOps
<1>4. Refuse(t) => Finishes(t) /\ UNCHANGED store
  BY <1>1 DEF Refuse, Finishes
<1>5. CASE Replay(t)
  <2> DEFINE rows == Committed(job.id)
             row  == events[CHOOSE i \in rows : TRUE]
  <2>1. rows # {} => row.resp \in Responses
    BY Typed DEF Committed
  <2>2. receipts[job.id] # NoReceipt => receipts[job.id].resp \in Responses
    BY <1>1, Typed
  <2>3. \/ Refuse(t)
        \/ /\ receipts[job.id] # NoReceipt /\ UNCHANGED store
           /\ Finish(t, TRUE, receipts[job.id].resp)
        \/ /\ rows # {} /\ UNCHANGED events /\ Finish(t, TRUE, row.resp)
           /\ receipts' = [receipts EXCEPT ![job.id] = [cmd |-> job.cmd, resp |-> row.resp]]
        \/ Advance(t, "validate", job.resp, NoEvent) /\ UNCHANGED store
    BY <1>5 DEF Replay
  <2>4. CASE Refuse(t)
    BY <1>1, <1>2, <1>4, <2>4
  <2>5. CASE /\ receipts[job.id] # NoReceipt /\ UNCHANGED store
             /\ Finish(t, TRUE, receipts[job.id].resp)
    BY <1>1, <1>2, <2>2, <2>5 DEF Finishes
  <2>6. CASE /\ rows # {} /\ UNCHANGED events /\ Finish(t, TRUE, row.resp)
             /\ receipts' = [receipts EXCEPT ![job.id] = [cmd |-> job.cmd, resp |-> row.resp]]
    <3>1. receipts' \in Receipts
      BY <1>1, <1>2, <2>1, <2>6 DEF Receipts
    <3> QED BY <1>1, <1>2, <2>1, <2>6, <3>1 DEF Finishes
  <2>7. CASE Advance(t, "validate", job.resp, NoEvent) /\ UNCHANGED store
    BY <1>1, <1>2, <2>7 DEF Advances, Steps
  <2> QED BY <2>3, <2>4, <2>5, <2>6, <2>7
<1>6. CASE ValidateCommand(t)
  <2>1. [version |-> 0, status |-> "done", at |-> t] \in Responses
    BY <1>2 DEF Responses
  <2> QED BY <1>1, <1>2, <1>6, <2>1 DEF ValidateCommand, Advances, Steps
<1>7. CASE ValidateConfig(t)
  <2>1. [version |-> CurrentVersion(ConfigRecord) + 1, status |-> "active", at |-> t] \in Responses
    BY <1>2, VersionType DEF Responses
  <2> QED BY <1>1, <1>2, <1>7, <2>1 DEF ValidateConfig, Advances, Steps
<1>8. CASE ValidatePut(t)
  <2>1. [version |-> job.cmd.expected + 1, status |-> "active", at |-> t] \in Responses
    BY <1>2, <1>3, <1>8 DEF Responses, ValidatePut
  <2> QED BY <1>1, <1>2, <1>3, <1>4, <1>8, <2>1 DEF ValidatePut, Advances, Steps
<1>9. CASE ValidateArchive(t)
  <2>1. [version |-> job.cmd.expected + 1, status |-> "archived", at |-> t] \in Responses
    BY <1>2, <1>3, <1>9 DEF Responses, ValidateArchive
  <2>2. RecordEvents(job.cmd.rec) # {} => Latest(job.cmd.rec) \in Responses
    BY <1>3, <1>9, LatestType DEF ValidateArchive
  <2> QED BY <1>1, <1>2, <1>3, <1>4, <1>9, <2>1, <2>2 DEF ValidateArchive, Advances, Steps
<1>10. CASE AppendEvent(t)
  <2>1. Event(job.id, job.cmd, job.resp, job.writes) \in EventType
    BY <1>1 DEF Event, EventType
  <2>2. Append(events, Event(job.id, job.cmd, job.resp, job.writes)) \in Seq(EventType)
    BY <1>2, <2>1, SeqFacts
  <2> QED BY <1>1, <1>2, <1>4, <1>10, <2>2 DEF AppendEvent, Advances, Steps
<1>11. CASE WriteReceipt(t)
  <2>1. [receipts EXCEPT ![job.id] = Receipt(job)] \in Receipts
    BY <1>1, <1>2 DEF Receipt, Receipts
  <2> QED BY <1>1, <1>2, <1>4, <1>11, <2>1 DEF WriteReceipt, Advances, Steps
<1>12. CASE Reply(t)
  BY <1>1, <1>2, <1>12 DEF Reply, Finishes
<1> QED BY <1>5, <1>6, <1>7, <1>8, <1>9, <1>10, <1>11, <1>12 DEF DaemonStep

(* Every step of the authority preserves its type invariant.                 *)
LEMMA TypePreserved ==
    ASSUME TypeOK, HasLatest, [Next]_vars
    PROVE  TypeOK'
<1> USE DEF TypeOK, store, budget
<1>1. ASSUME NEW c \in Clients, NEW id \in RequestIds, NEW cmd \in Commands, up,
             sent < MaxTickets, Send(c, id, cmd)
      PROVE  /\ sent' \in 0 .. MaxTickets
             /\ jobs' \in [Tickets -> JobType \cup {NoJob}]
             /\ client' \in [Clients -> ClientType]
  <2>1. sent + 1 \in Tickets
    BY <1>1, AuthorityAssumption DEF Tickets
  <2>2. [client |-> c, id |-> id, cmd |-> cmd, step |-> "replay",
         resp |-> [version |-> 0, status |-> "done", at |-> 0], writes |-> NoEvent] \in JobType
    BY DEF JobType, Responses
  <2>3. [status |-> "waiting", id |-> id, cmd |-> cmd, ticket |-> sent + 1] \in ClientType
    BY <2>1 DEF ClientType
  <2> QED BY <1>1, <2>1, <2>2, <2>3, AuthorityAssumption DEF Send
<1>2. ASSUME NEW c \in Clients, NEW id \in RequestIds, NEW cmd \in Commands, Call(c, id, cmd)
      PROVE  TypeOK'
  <2>1. up /\ sent < MaxTickets /\ Send(c, id, cmd)
    BY <1>2 DEF Call, Send
  <2>2. calls' \in 0 .. MaxCalls
    BY <1>2, AuthorityAssumption DEF Call
  <2> QED BY <1>1, <1>2, <2>1, <2>2 DEF Call
<1>3. ASSUME NEW c \in Clients, Retry(c) PROVE TypeOK'
  <2>1. client[c].id \in RequestIds /\ client[c].cmd \in Commands
    BY <1>3, Typed DEF Retry
  <2>2. up /\ sent < MaxTickets /\ Send(c, client[c].id, client[c].cmd)
    BY <1>3 DEF Retry, Send
  <2> QED BY <1>1, <1>3, <2>1, <2>2 DEF Retry
<1>4. ASSUME NEW c \in Clients, client[c].status = "waiting"
      PROVE  [client[c] EXCEPT !.status = "lost"] \in ClientType
  <2>1. client[c] \in [status : {"waiting", "lost"}, id : RequestIds, cmd : Commands,
                       ticket : Tickets]
    BY <1>4 DEF ClientType, Idle
  <2> QED BY <2>1 DEF ClientType
<1>5. ASSUME NEW c \in Clients, Timeout(c) PROVE TypeOK'
  <2>1. client' \in [Clients -> ClientType]
    BY <1>4, <1>5 DEF Timeout
  <2>2. losses' \in 0 .. MaxLosses
    BY <1>5, AuthorityAssumption DEF Timeout
  <2> QED BY <1>5, <2>1, <2>2 DEF Timeout
<1>6. CASE Crash
  <2>1. client' \in [Clients -> ClientType]
    BY <1>4, <1>6 DEF Crash
  <2>2. losses' \in 0 .. MaxLosses
    BY <1>6, AuthorityAssumption DEF Crash
  <2> QED BY <1>6, <2>1, <2>2 DEF Crash
<1>7. CASE Restart
  BY <1>7 DEF Restart
<1>8. ASSUME NEW t \in Tickets, DaemonStep(t) PROVE TypeOK'
  <2>1. /\ jobs[t] # NoJob /\ events' \in Seq(EventType) /\ receipts' \in Receipts
        /\ Finishes(t) \/ Advances(t)
    BY <1>8, DaemonMoves
  <2>2. CASE Finishes(t)
    BY <2>1, <2>2, FinishType DEF Finishes, Receipts, EventType
  <2>3. CASE Advances(t)
    BY <2>1, <2>3, AdvanceType DEF Advances, Steps, Receipts, EventType
  <2> QED BY <2>1, <2>2, <2>3
<1>9. CASE UNCHANGED vars
  BY <1>9 DEF vars
<1> QED BY <1>2, <1>3, <1>5, <1>6, <1>7, <1>8, <1>9 DEF Next, ClientStep

-----------------------------------------------------------------------------

(* A new request waits behind the others, and its caller waits for it.       *)
LEMMA SendQueues ==
    ASSUME TypeOK, Arrived, OneRunning, CallersBound, TypeOK',
           NEW c \in Clients, NEW id \in RequestIds, NEW cmd \in Commands,
           Send(c, id, cmd), up' = up
    PROVE  /\ Arrived' /\ OneRunning' /\ CallersBound'
           /\ \A u \in Tickets : jobs'[u] # jobs[u] => jobs'[u].step = "replay"
<1> DEFINE k == sent + 1
           new == [client |-> c, id |-> id, cmd |-> cmd, step |-> "replay",
                   resp |-> [version |-> 0, status |-> "done", at |-> 0], writes |-> NoEvent]
<1>1. k \in Tickets /\ sent \in Nat
  BY AuthorityAssumption DEF TypeOK, Send, Tickets
<1>2. jobs' = [jobs EXCEPT ![k] = new] /\ sent' = k /\ up
  BY DEF Send
<1>3. jobs'[k] = new /\ \A u \in Tickets \ {k} : jobs'[u] = jobs[u]
  BY <1>1, <1>2 DEF TypeOK
<1>4. new # NoJob
  BY AbsenceAssumption DEF JobType, Responses
<1>5. jobs[k] = NoJob
  BY <1>1 DEF Arrived
<1>6. Arrived'
  BY <1>1, <1>2, <1>3 DEF Arrived, Tickets
<1>7. OneRunning'
  BY <1>1, <1>3 DEF OneRunning, Arrived, Tickets
<1>8. ASSUME NEW d \in Clients, client'[d].status = "waiting"
      PROVE  /\ jobs'[client'[d].ticket] # NoJob
             /\ jobs'[client'[d].ticket].client = d
             /\ jobs'[client'[d].ticket].id = client'[d].id
             /\ jobs'[client'[d].ticket].cmd = client'[d].cmd
  <2>1. client' = [client EXCEPT ![c] = [status |-> "waiting", id |-> id, cmd |-> cmd, ticket |-> k]]
    BY DEF Send
  <2>2. CASE d = c
    BY <1>3, <1>4, <2>1, <2>2 DEF TypeOK
  <2>3. CASE d # c
    <3>1. client'[d] = client[d]
      BY <2>1, <2>3 DEF TypeOK
    <3>2. client[d].ticket \in Tickets /\ client[d].ticket # k
      BY <1>5, <1>8, <3>1, Typed DEF CallersBound
    <3> QED BY <1>3, <1>8, <3>1, <3>2 DEF CallersBound
  <2> QED BY <2>2, <2>3
<1>9. CallersBound'
  BY <1>8 DEF CallersBound
<1> QED BY <1>3, <1>6, <1>7, <1>9

(* The queue holds requests of the running daemon, the oldest in execution,  *)
(* and every caller that waits is bound to the request it sent.              *)
LEMMA QueuePreserved ==
    ASSUME TypeOK, HasLatest, Arrived, OneRunning, CallersBound, [Next]_vars
    PROVE  Arrived' /\ OneRunning' /\ CallersBound'
<1>0. TypeOK'
  BY TypePreserved
<1>1. ASSUME NEW c \in Clients, NEW id \in RequestIds, NEW cmd \in Commands, Call(c, id, cmd)
      PROVE  Arrived' /\ OneRunning' /\ CallersBound'
  BY <1>0, <1>1, SendQueues DEF Call
<1>2. ASSUME NEW c \in Clients, Retry(c) PROVE Arrived' /\ OneRunning' /\ CallersBound'
  <2>1. client[c].id \in RequestIds /\ client[c].cmd \in Commands
    BY <1>2, Typed DEF Retry
  <2> QED BY <1>0, <1>2, <2>1, SendQueues DEF Retry
<1>3. ASSUME NEW c \in Clients, Timeout(c) PROVE Arrived' /\ OneRunning' /\ CallersBound'
  BY <1>3 DEF Timeout, Arrived, OneRunning, CallersBound, TypeOK
<1>4. CASE Crash
  BY <1>4 DEF Crash, Arrived, OneRunning, CallersBound, TypeOK
<1>5. CASE Restart
  BY <1>5 DEF Restart, Arrived, OneRunning, CallersBound
<1>6. ASSUME NEW t \in Tickets, DaemonStep(t) PROVE Arrived' /\ OneRunning' /\ CallersBound'
  <2>1. jobs[t] # NoJob /\ MayRun(t) /\ (Finishes(t) \/ Advances(t))
    BY <1>6, DaemonMoves
  <2>2. ASSUME NEW ok \in BOOLEAN, NEW resp \in Responses, Finish(t, ok, resp)
        PROVE  Arrived' /\ OneRunning' /\ CallersBound'
    <3>1. jobs' = [jobs EXCEPT ![t] = NoJob] /\ sent' = sent /\ up' = up
      BY <2>2 DEF Finish
    <3>2. ASSUME NEW c \in Clients, client'[c].status = "waiting"
          PROVE  client[c] = client'[c] /\ client[c].ticket \in Tickets \ {t}
      <4>1. client[c] = client'[c]
        BY <2>2, <3>2 DEF Finish, TypeOK
      <4>2. client[c].ticket = t => jobs[t].client = c /\ Waiting(t)
        BY <3>2, <4>1 DEF CallersBound, Waiting
      <4>3. Waiting(t) => client'[jobs[t].client].status = "settled"
        BY <2>1, <2>2, Typed DEF Finish, TypeOK
      <4>4. client[c].ticket # t
        BY <3>2, <4>2, <4>3
      <4>5. client[c].ticket \in Tickets
        BY <3>2, <4>1, Typed
      <4> QED BY <4>1, <4>4, <4>5
    <3>3. \A u \in Tickets \ {t} : jobs'[u] = jobs[u]
      BY <3>1 DEF TypeOK
    <3>4. jobs'[t] = NoJob
      BY <3>1 DEF TypeOK
    <3>5. CallersBound'
      BY <3>2, <3>3 DEF CallersBound
    <3>6. Arrived'
      BY <3>1, <3>3, <3>4 DEF Arrived
    <3>7. OneRunning'
      BY <3>3, <3>4 DEF OneRunning
    <3> QED BY <3>5, <3>6, <3>7
  <2>3. ASSUME NEW step \in Steps, NEW resp \in Responses,
               NEW writes \in Records \cup {ConfigRecord, NoEvent}, Advance(t, step, resp, writes)
        PROVE  Arrived' /\ OneRunning' /\ CallersBound'
    <3>0. jobs[t] \in JobType /\ jobs \in [Tickets -> JobType \cup {NoJob}]
      BY <2>1 DEF TypeOK
    <3>1. /\ jobs'[t] = [jobs[t] EXCEPT !.step = step, !.resp = resp, !.writes = writes]
          /\ \A u \in Tickets \ {t} : jobs'[u] = jobs[u]
          /\ sent' = sent /\ up' = up /\ client' = client
      BY <2>3, <3>0 DEF Advance
    <3>2. jobs'[t] \in JobType /\ jobs'[t] # NoJob
      <4>1. [jobs[t] EXCEPT !.step = step, !.resp = resp, !.writes = writes] \in JobType
        BY <3>0 DEF JobType, Steps
      <4> QED BY <3>1, <4>1, AbsenceAssumption
    <3>3. /\ jobs'[t].client = jobs[t].client /\ jobs'[t].id = jobs[t].id
          /\ jobs'[t].cmd = jobs[t].cmd
      BY <2>1, <3>1, Typed DEF JobType
    <3>4. Arrived'
      BY <2>1, <3>1 DEF Arrived
    <3>5. OneRunning'
      BY <2>1, <3>1 DEF OneRunning, MayRun, Tickets
    <3>6. CallersBound'
      <4>1. ASSUME NEW c \in Clients, client[c].status = "waiting"
            PROVE  client[c].ticket \in Tickets
        BY <4>1, Typed
      <4>2. \A u \in Tickets : jobs[u] # NoJob =>
               /\ jobs'[u] # NoJob /\ jobs'[u].client = jobs[u].client
               /\ jobs'[u].id = jobs[u].id /\ jobs'[u].cmd = jobs[u].cmd
        BY <3>1, <3>2, <3>3
      <4>3. ASSUME NEW c \in Clients, client[c].status = "waiting"
            PROVE  /\ jobs'[client[c].ticket] # NoJob
                   /\ jobs'[client[c].ticket].client = c
                   /\ jobs'[client[c].ticket].id = client[c].id
                   /\ jobs'[client[c].ticket].cmd = client[c].cmd
        BY <4>1, <4>2, <4>3 DEF CallersBound
      <4> QED BY <3>1, <4>3 DEF CallersBound
    <3> QED BY <3>4, <3>5, <3>6
  <2> QED BY <2>1, <2>2, <2>3 DEF Finishes, Advances
<1>7. CASE UNCHANGED vars
  BY <1>7 DEF vars, Arrived, OneRunning, CallersBound
<1> QED BY <1>1, <1>2, <1>3, <1>4, <1>5, <1>6, <1>7 DEF Next, ClientStep

-----------------------------------------------------------------------------

\* The one step that extends the history.
Commits(t) ==
    /\ jobs[t] # NoJob /\ MayRun(t) /\ jobs[t].step = "append" /\ Committed(jobs[t].id) = {}
    /\ events' = Append(events, Event(jobs[t].id, jobs[t].cmd, jobs[t].resp, jobs[t].writes))
    /\ Advance(t, "receipt", jobs[t].resp, jobs[t].writes)
    /\ UNCHANGED receipts

(* The history changes by one event at a time, of an id that has none.       *)
LEMMA EventsGrow ==
    ASSUME [Next]_vars, events' # events
    PROVE  \E t \in Tickets : Commits(t)
<1> USE DEF store
<1>1. ASSUME NEW c \in Clients, ClientStep(c) PROVE FALSE
  BY <1>1 DEF ClientStep, Call, Retry, Timeout
<1>2. ASSUME NEW t \in Tickets, DaemonStep(t) PROVE Commits(t)
  <2>1. AppendEvent(t)
    BY <1>2 DEF DaemonStep, Replay, ValidateCommand, ValidateConfig, ValidatePut,
                ValidateArchive, WriteReceipt, Reply, Refuse
  <2> QED BY <2>1 DEF AppendEvent, Commits, MayRun, Refuse
<1> QED BY <1>1, <1>2 DEF Next, Crash, Restart, vars

(* What one new event changes: the rows of its id and of its record.         *)
LEMMA CommitFacts ==
    ASSUME TypeOK, NEW t \in Tickets, Commits(t)
    PROVE  LET n == Len(events) + 1 IN
           /\ n \in Nat /\ DOMAIN events' = DOMAIN events \cup {n} /\ n \notin DOMAIN events
           /\ \A i \in DOMAIN events : events'[i] = events[i] /\ i \in Nat /\ i < n
           /\ events'[n].id = jobs[t].id /\ events'[n].cmd = jobs[t].cmd
           /\ events'[n].resp = jobs[t].resp /\ events'[n].writes = jobs[t].writes
           /\ \A id : Committed(id)' = IF id = jobs[t].id THEN {n} ELSE Committed(id)
           /\ \A rec : RecordEvents(rec)' = IF rec = jobs[t].writes
                                            THEN RecordEvents(rec) \cup {n}
                                            ELSE RecordEvents(rec)
<1> DEFINE n == Len(events) + 1
           e == Event(jobs[t].id, jobs[t].cmd, jobs[t].resp, jobs[t].writes)
<1>1. e \in EventType
  BY Typed DEF Commits, Event, EventType
<1>2. events \in Seq(EventType)
  BY DEF TypeOK, EventType
<1>3. events' = Append(events, e)
  BY DEF Commits
<1>4. /\ Len(events) \in Nat /\ DOMAIN events = 1 .. Len(events)
      /\ DOMAIN events' = 1 .. Len(events) + 1 /\ events'[n] = e
      /\ \A i \in 1 .. Len(events) : events'[i] = events[i]
  BY <1>1, <1>2, <1>3, SeqFacts
<1>5. /\ n \in Nat /\ DOMAIN events' = DOMAIN events \cup {n} /\ n \notin DOMAIN events
      /\ \A i \in DOMAIN events : events'[i] = events[i] /\ i \in Nat /\ i < n
  BY <1>4
<1>6. /\ events'[n].id = jobs[t].id /\ events'[n].cmd = jobs[t].cmd
      /\ events'[n].resp = jobs[t].resp /\ events'[n].writes = jobs[t].writes
  BY <1>4 DEF Event
<1> HIDE DEF n, e
<1>7. Committed(jobs[t].id) = {}
  BY DEF Commits
<1>8. \A id : Committed(id)' = IF id = jobs[t].id THEN {n} ELSE Committed(id)
  BY <1>5, <1>6, <1>7 DEF Committed
<1>9. \A rec : RecordEvents(rec)' = IF rec = jobs[t].writes THEN RecordEvents(rec) \cup {n}
                                    ELSE RecordEvents(rec)
  BY <1>5, <1>6 DEF RecordEvents
<1> QED BY <1>5, <1>6, <1>8, <1>9 DEF n

(* One event per request id, and the versions of every record are those of   *)
(* its commit order.                                                         *)
LEMMA HistoryPreserved ==
    ASSUME TypeOK, OneEventPerId, HasLatest, NoLostUpdate, JobsKnow, [Next]_vars
    PROVE  OneEventPerId' /\ HasLatest' /\ NoLostUpdate'
<1>1. CASE events' = events
  BY <1>1 DEF OneEventPerId, HasLatest, NoLostUpdate, RecordEvents
<1>2. ASSUME NEW t \in Tickets, Commits(t) PROVE OneEventPerId' /\ HasLatest' /\ NoLostUpdate'
  <2> DEFINE n == Len(events) + 1
  <2>1. /\ n \in Nat /\ DOMAIN events' = DOMAIN events \cup {n} /\ n \notin DOMAIN events
        /\ \A i \in DOMAIN events : events'[i] = events[i] /\ i \in Nat /\ i < n
        /\ events'[n].id = jobs[t].id
        /\ events'[n].resp = jobs[t].resp /\ events'[n].writes = jobs[t].writes
        /\ \A rec : RecordEvents(rec)' = IF rec = jobs[t].writes THEN RecordEvents(rec) \cup {n}
                                         ELSE RecordEvents(rec)
    BY <1>2, CommitFacts
  <2> HIDE DEF n
  <2>2. \A rec : RecordEvents(rec) \subseteq DOMAIN events
    BY DEF RecordEvents
  <2>3. OneEventPerId'
    <3>1. \A i \in DOMAIN events : events[i].id # jobs[t].id
      BY <1>2 DEF Commits, Committed
    <3> QED BY <2>1, <3>1 DEF OneEventPerId
  <2>4. HasLatest'
    <3> SUFFICES ASSUME NEW rec \in Records \cup {ConfigRecord}, RecordEvents(rec)' # {}
                 PROVE  \E i \in RecordEvents(rec)' : \A j \in RecordEvents(rec)' : j <= i
      BY DEF HasLatest
    <3>1. CASE rec = jobs[t].writes
      BY <2>1, <2>2, <3>1
    <3>2. CASE rec # jobs[t].writes
      BY <2>1, <3>2 DEF HasLatest
    <3> QED BY <3>1, <3>2
  <2>5. ASSUME NEW rec \in Records \cup {ConfigRecord}, NEW i \in RecordEvents(rec)'
        PROVE  events'[i].resp.version = Cardinality({j \in RecordEvents(rec)' : j <= i})
    <3>1. CASE i \in RecordEvents(rec)
      <4>1. {j \in RecordEvents(rec)' : j <= i} = {j \in RecordEvents(rec) : j <= i}
        BY <2>1, <2>2, <3>1
      <4>2. events'[i] = events[i]
        BY <2>1, <2>2, <3>1
      <4> QED BY <3>1, <4>1, <4>2 DEF NoLostUpdate
    <3>2. CASE i \notin RecordEvents(rec)
      <4>1. i = n /\ rec = jobs[t].writes /\ RecordEvents(rec)' = RecordEvents(rec) \cup {n}
        BY <2>1, <3>2
      <4>2. {j \in RecordEvents(rec)' : j <= i} = RecordEvents(rec) \cup {n}
        BY <2>1, <2>2, <4>1
      <4>3. n \notin RecordEvents(rec)
        BY <2>1, <2>2
      <4>4. Cardinality(RecordEvents(rec) \cup {n}) = CurrentVersion(rec) + 1
        BY <4>3, VersionType, FS_AddElement DEF CurrentVersion
      <4>5. rec # NoEvent
        BY AuthorityAssumption
      <4>6. jobs[t].resp.version = CurrentVersion(rec) + 1
        BY <1>2, <4>1, <4>5 DEF Commits, JobsKnow, JobProgress
      <4> QED BY <2>1, <4>1, <4>2, <4>4, <4>6
    <3> QED BY <3>1, <3>2
  <2>6. NoLostUpdate'
    BY <2>5 DEF NoLostUpdate
  <2> QED BY <2>3, <2>4, <2>6
<1> QED BY <1>1, <1>2, EventsGrow

-----------------------------------------------------------------------------

(* An event is never lost or rewritten: what stands on it keeps standing.    *)
LEMMA BoundKept ==
    ASSUME TypeOK, [Next]_vars, NEW id, NEW cmd, NEW resp, Bound(id, cmd, resp)
    PROVE  Bound(id, cmd, resp)' /\ Committed(id)' # {}
<1>1. PICK i \in DOMAIN events : events[i].id = id /\ events[i].cmd = cmd /\ events[i].resp = resp
  BY DEF Bound, Committed
<1>2. i \in DOMAIN events' /\ events'[i] = events[i]
  <2>1. CASE events' = events
    BY <2>1
  <2>2. ASSUME NEW t \in Tickets, Commits(t) PROVE i \in DOMAIN events' /\ events'[i] = events[i]
    BY <2>2, CommitFacts
  <2> QED BY <2>1, <2>2, EventsGrow
<1> QED BY <1>1, <1>2 DEF Bound, Committed

(* The requests behind the one that runs have not begun.                     *)
LEMMA OthersWait ==
    ASSUME OneRunning, NEW t \in Tickets, MayRun(t)
    PROVE  \A u \in Tickets \ {t} : jobs[u] # NoJob => jobs[u].step = "replay"
<1> QED BY DEF MayRun, OneRunning, Tickets

\* The three conjuncts of the invariant that speak of decisions.
Kept == ReceiptsKept /\ AnswersKept /\ JobsKnow

(* Arrivals, refusals and crashes decide nothing.                            *)
LEMMA QuietKeeps ==
    ASSUME Kept, events' = events, receipts' = receipts, answers' = answers,
           \A u \in Tickets : jobs'[u] = jobs[u] \/ jobs'[u] = NoJob \/ jobs'[u].step = "replay"
    PROVE  Kept'
<1>1. ReceiptsKept' /\ AnswersKept'
  BY DEF Kept, ReceiptsKept, AnswersKept, Bound, Committed
<1>2. ASSUME NEW u \in Tickets, jobs'[u] # NoJob PROVE JobProgress(u)'
  <2>1. CASE jobs'[u] = jobs[u]
    BY <1>2, <2>1 DEF Kept, JobsKnow, JobProgress, Bound, Committed, CurrentVersion,
                      RecordEvents, Receipt
  <2>2. CASE jobs'[u].step = "replay"
    BY <2>2 DEF JobProgress
  <2> QED BY <1>2, <2>1, <2>2
<1> QED BY <1>1, <1>2 DEF Kept, JobsKnow

(* An answer that stands on an event may be given.                           *)
LEMMA AnswerKeeps ==
    ASSUME TypeOK, Kept, NEW t \in Tickets, NEW resp, Finish(t, TRUE, resp),
           events' = events, receipts' = receipts,
           jobs[t].cmd.op # "archive" => Bound(jobs[t].id, jobs[t].cmd, resp)
    PROVE  Kept'
<1>1. \A u \in Tickets : jobs'[u] = jobs[u] \/ jobs'[u] = NoJob
  BY DEF Finish, TypeOK
<1>2. answers' \subseteq answers \cup {[id |-> jobs[t].id, cmd |-> jobs[t].cmd, resp |-> resp]}
  BY DEF Finish
<1>3. ReceiptsKept'
  BY DEF Kept, ReceiptsKept, Bound, Committed
<1>4. AnswersKept'
  BY <1>2 DEF Kept, AnswersKept, Bound, Committed
<1>5. ASSUME NEW u \in Tickets, jobs'[u] # NoJob PROVE JobProgress(u)'
  <2>1. jobs'[u] = jobs[u]
    BY <1>1, <1>5
  <2>2. JobProgress(u)
    BY <1>5, <2>1 DEF Kept, JobsKnow
  <2> QED BY <2>1, <2>2 DEF JobProgress, Bound, Committed, CurrentVersion, RecordEvents, Receipt
<1> QED BY <1>3, <1>4, <1>5 DEF Kept, JobsKnow

(* The running request learns something that is true: the others have not    *)
(* begun, and the store has not moved.                                       *)
LEMMA ProgressKeeps ==
    ASSUME TypeOK, OneRunning, Kept, NEW t \in Tickets, MayRun(t),
           NEW step \in Steps, NEW resp, NEW writes, Advance(t, step, resp, writes),
           events' = events, receipts' = receipts,
           step \in {"validate", "append"} =>
               receipts[jobs[t].id] = NoReceipt /\ Committed(jobs[t].id) = {},
           step = "append" /\ writes # NoEvent => resp.version = CurrentVersion(writes) + 1,
           step = "receipt" =>
               /\ receipts[jobs[t].id] = NoReceipt
               /\ jobs[t].cmd.op = "archive" /\ Committed(jobs[t].id) = {},
           step # "reply"
    PROVE  Kept'
<1>1. jobs[t] \in JobType /\ answers' = answers
  BY Typed DEF MayRun, Advance
<1>2. \A u \in Tickets \ {t} : jobs'[u] = jobs[u]
  BY DEF Advance, TypeOK
<1>3. jobs'[t] = [jobs[t] EXCEPT !.step = step, !.resp = resp, !.writes = writes]
  BY DEF Advance, TypeOK
<1>4. /\ jobs'[t].id = jobs[t].id /\ jobs'[t].cmd = jobs[t].cmd /\ jobs'[t].step = step
      /\ jobs'[t].resp = resp /\ jobs'[t].writes = writes
  BY <1>1, <1>3 DEF JobType
<1>5. ReceiptsKept' /\ AnswersKept'
  BY <1>1 DEF Kept, ReceiptsKept, AnswersKept, Bound, Committed
<1>6. JobProgress(t)'
  BY <1>4 DEF JobProgress, Bound, Committed, CurrentVersion, RecordEvents
<1>7. ASSUME NEW u \in Tickets \ {t}, jobs'[u] # NoJob PROVE JobProgress(u)'
  BY <1>2, <1>7, OthersWait DEF JobProgress
<1> QED BY <1>5, <1>6, <1>7 DEF Kept, JobsKnow

(* The two steps that write: an event for the running request, then its      *)
(* receipt.                                                                  *)
LEMMA CommitKeeps ==
    ASSUME TypeOK, OneRunning, Kept, NEW t \in Tickets, Commits(t), [Next]_vars
    PROVE  Kept'
<1> DEFINE n == Len(events) + 1
<1>1. /\ jobs[t] \in JobType /\ answers' = answers /\ receipts' = receipts
      /\ \A u \in Tickets \ {t} : jobs'[u] = jobs[u]
      /\ jobs'[t] = [jobs[t] EXCEPT !.step = "receipt", !.resp = jobs[t].resp,
                                    !.writes = jobs[t].writes]
  BY Typed DEF TypeOK, Commits, Advance
<1>2. /\ jobs'[t].id = jobs[t].id /\ jobs'[t].cmd = jobs[t].cmd /\ jobs'[t].step = "receipt"
      /\ jobs'[t].resp = jobs[t].resp
  BY <1>1 DEF JobType
<1>3. /\ events'[n].cmd = jobs[t].cmd /\ events'[n].resp = jobs[t].resp
      /\ \A id : Committed(id)' = IF id = jobs[t].id THEN {n} ELSE Committed(id)
  BY CommitFacts
<1> HIDE DEF n
<1>4. receipts[jobs[t].id] = NoReceipt /\ jobs[t] # NoJob /\ MayRun(t)
  BY DEF Commits, Kept, JobsKnow, JobProgress
<1>5. ReceiptsKept'
  <2>1. SUFFICES ASSUME NEW id \in RequestIds, receipts[id] # NoReceipt,
                        receipts[id].cmd.op # "archive" \/ Committed(id)' # {}
                 PROVE  Bound(id, receipts[id].cmd, receipts[id].resp)'
    BY <1>1 DEF ReceiptsKept, Bound
  <2>2. id # jobs[t].id
    BY <1>4, <2>1
  <2>3. Bound(id, receipts[id].cmd, receipts[id].resp)
    BY <1>3, <2>1, <2>2 DEF Kept, ReceiptsKept
  <2>4. \A cmd, resp : Bound(id, cmd, resp) => Bound(id, cmd, resp)'
    BY BoundKept
  <2> QED BY <1>1, <2>3, <2>4 DEF Bound
<1>6. AnswersKept'
  <2>1. \A id, cmd, resp : Bound(id, cmd, resp) => Bound(id, cmd, resp)'
    BY BoundKept
  <2> QED BY <1>1, <2>1 DEF Kept, AnswersKept
<1>7. JobProgress(t)'
  BY <1>1, <1>2, <1>3, <1>4 DEF JobProgress, Bound
<1>8. ASSUME NEW u \in Tickets \ {t}, jobs'[u] # NoJob PROVE JobProgress(u)'
  BY <1>1, <1>4, <1>8, OthersWait DEF JobProgress
<1> QED BY <1>5, <1>6, <1>7, <1>8 DEF Kept, JobsKnow

LEMMA ReceiptKeeps ==
    ASSUME TypeOK, OneRunning, Kept, NEW t \in Tickets, MayRun(t), events' = events,
           NEW resp, receipts' = [receipts EXCEPT ![jobs[t].id] = [cmd |-> jobs[t].cmd, resp |-> resp]],
           jobs[t].cmd.op # "archive" \/ Committed(jobs[t].id) # {} =>
               Bound(jobs[t].id, jobs[t].cmd, resp)
    PROVE  /\ ReceiptsKept'
           /\ receipts'[jobs[t].id] = [cmd |-> jobs[t].cmd, resp |-> resp]
           /\ \A u \in Tickets \ {t} : jobs'[u] = jobs[u] /\ jobs'[u] # NoJob => JobProgress(u)'
<1>1. jobs[t] # NoJob /\ jobs[t].id \in RequestIds
  BY Typed DEF MayRun
<1>2. /\ receipts'[jobs[t].id] = [cmd |-> jobs[t].cmd, resp |-> resp]
      /\ \A id \in RequestIds \ {jobs[t].id} : receipts'[id] = receipts[id]
  BY <1>1 DEF TypeOK
<1>3. ReceiptsKept'
  <2>1. ASSUME NEW id \in RequestIds, receipts'[id] # NoReceipt,
               receipts'[id].cmd.op # "archive" \/ Committed(id) # {}
        PROVE  Bound(id, receipts'[id].cmd, receipts'[id].resp)
    <3>1. CASE id = jobs[t].id
      BY <1>2, <2>1, <3>1
    <3>2. CASE id # jobs[t].id
      BY <1>2, <2>1, <3>2 DEF Kept, ReceiptsKept
    <3> QED BY <3>1, <3>2
  <2> QED BY <2>1 DEF ReceiptsKept, Bound, Committed
<1>4. \A u \in Tickets \ {t} : jobs'[u] = jobs[u] /\ jobs'[u] # NoJob => JobProgress(u)'
  BY OthersWait DEF JobProgress
<1> QED BY <1>2, <1>3, <1>4

(* Every daemon step keeps receipts, answers and progress standing.          *)
LEMMA DaemonKeeps ==
    ASSUME TypeOK, HasLatest, OneRunning, Kept, NEW t \in Tickets, DaemonStep(t)
    PROVE  Kept'
<1> DEFINE job == jobs[t]
<1> USE DEF store
<1>1. /\ job # NoJob /\ MayRun(t) /\ job \in JobType /\ job.id \in RequestIds
      /\ \A u \in Tickets \ {t} : jobs[u] # NoJob => jobs[u].step = "replay"
  BY DaemonMoves, Typed, OthersWait
<1>2. JobProgress(t) /\ [Next]_vars
  BY <1>1 DEF Kept, JobsKnow, Next
<1>3. ASSUME Refuse(t) PROVE Kept'
  <2>1. \A u \in Tickets : jobs'[u] = jobs[u] \/ jobs'[u] = NoJob
    BY <1>3 DEF Refuse, Finish, TypeOK
  <2>2. answers' = answers
    BY <1>3 DEF Refuse, Finish
  <2> QED BY <1>3, <2>1, <2>2, QuietKeeps DEF Refuse
<1>4. CASE Replay(t)
  <2> DEFINE rows == Committed(job.id)
             row  == events[CHOOSE i \in rows : TRUE]
  <2>1. rows # {} => Bound(job.id, row.cmd, row.resp)
    BY DEF Bound
  <2>2. \/ Refuse(t)
        \/ /\ rows # {} /\ row.cmd = job.cmd /\ row.resp = receipts[job.id].resp
           /\ Finish(t, TRUE, receipts[job.id].resp) /\ UNCHANGED store
        \/ /\ rows # {} /\ row.cmd = job.cmd /\ UNCHANGED events /\ Finish(t, TRUE, row.resp)
           /\ receipts' = [receipts EXCEPT ![job.id] = [cmd |-> job.cmd, resp |-> row.resp]]
        \/ /\ receipts[job.id] = NoReceipt /\ rows = {}
           /\ Advance(t, "validate", job.resp, NoEvent) /\ UNCHANGED store
    BY <1>4 DEF Replay, BoundTo
  <2>3. CASE /\ rows # {} /\ row.cmd = job.cmd /\ row.resp = receipts[job.id].resp
             /\ Finish(t, TRUE, receipts[job.id].resp) /\ UNCHANGED store
    BY <2>1, <2>3, AnswerKeeps
  <2>4. CASE /\ rows # {} /\ row.cmd = job.cmd /\ UNCHANGED events /\ Finish(t, TRUE, row.resp)
             /\ receipts' = [receipts EXCEPT ![job.id] = [cmd |-> job.cmd, resp |-> row.resp]]
    <3>1. Bound(job.id, job.cmd, row.resp)
      BY <2>1, <2>4
    <3>2. ReceiptsKept' /\ \A u \in Tickets \ {t} :
                             jobs'[u] = jobs[u] /\ jobs'[u] # NoJob => JobProgress(u)'
      BY <1>1, <2>4, <3>1, ReceiptKeeps
    <3>3. jobs' = [jobs EXCEPT ![t] = NoJob]
      BY <2>4 DEF Finish
    <3>4. JobsKnow'
      BY <3>2, <3>3 DEF JobsKnow, TypeOK
    <3>5. answers' \subseteq answers \cup {[id |-> job.id, cmd |-> job.cmd, resp |-> row.resp]}
      BY <2>4 DEF Finish
    <3>6. AnswersKept'
      BY <2>4, <3>1, <3>5 DEF Kept, AnswersKept, Bound, Committed
    <3> QED BY <3>2, <3>4, <3>6 DEF Kept
  <2>5. CASE /\ receipts[job.id] = NoReceipt /\ rows = {}
             /\ Advance(t, "validate", job.resp, NoEvent) /\ UNCHANGED store
    BY <1>1, <2>5, ProgressKeeps DEF Steps
  <2> QED BY <1>3, <2>2, <2>3, <2>4, <2>5
<1>5. ASSUME job.step = "validate"
      PROVE  receipts[job.id] = NoReceipt /\ Committed(job.id) = {}
  BY <1>2, <1>5 DEF JobProgress
<1>6. CASE ValidateCommand(t)
  BY <1>1, <1>5, <1>6, ProgressKeeps DEF ValidateCommand, Steps
<1>7. CASE ValidateConfig(t)
  BY <1>1, <1>5, <1>7, ProgressKeeps DEF ValidateConfig, Steps
<1>8. CASE ValidatePut(t)
  BY <1>1, <1>3, <1>5, <1>8, ProgressKeeps DEF ValidatePut, Steps
<1>9. CASE ValidateArchive(t)
  <2> DEFINE rec == job.cmd.rec
  <2>1. \/ Refuse(t)
        \/ job.cmd.op = "archive" /\ Advance(t, "receipt", Latest(rec), NoEvent) /\ UNCHANGED store
        \/ Advance(t, "append", Latest(rec), NoEvent) /\ UNCHANGED store
        \/ /\ CurrentVersion(rec) = job.cmd.expected /\ UNCHANGED store
           /\ Advance(t, "append", [version |-> job.cmd.expected + 1, status |-> "archived",
                                    at |-> t], rec)
    BY <1>9 DEF ValidateArchive
  <2>2. receipts[job.id] = NoReceipt /\ Committed(job.id) = {}
    BY <1>5, <1>9 DEF ValidateArchive
  <2> QED BY <1>1, <1>3, <2>1, <2>2, ProgressKeeps DEF Steps
<1>10. CASE AppendEvent(t)
  <2>1. Commits(t)
    BY <1>1, <1>2, <1>10 DEF AppendEvent, Commits, JobProgress
  <2> QED BY <1>2, <2>1, CommitKeeps
<1>11. CASE WriteReceipt(t)
  <2>1. CASE Refuse(t)
    BY <1>3, <2>1
  <2>2. CASE /\ receipts' = [receipts EXCEPT ![job.id] = Receipt(job)]
             /\ Advance(t, "reply", job.resp, job.writes)
             /\ UNCHANGED events
    <3>1. /\ ReceiptsKept' /\ receipts'[job.id] = Receipt(job)
          /\ \A u \in Tickets \ {t} : jobs'[u] = jobs[u] /\ jobs'[u] # NoJob => JobProgress(u)'
      BY <1>1, <1>2, <1>11, <2>2, ReceiptKeeps DEF Receipt, WriteReceipt, JobProgress
    <3>2. /\ jobs'[t] = [job EXCEPT !.step = "reply", !.resp = job.resp, !.writes = job.writes]
          /\ \A u \in Tickets \ {t} : jobs'[u] = jobs[u]
          /\ answers' = answers
      BY <2>2 DEF Advance, TypeOK
    <3>3. /\ jobs'[t].id = job.id /\ jobs'[t].cmd = job.cmd /\ jobs'[t].step = "reply"
          /\ jobs'[t].resp = job.resp
      BY <1>1, <3>2 DEF JobType
    <3>4. JobProgress(t)'
      BY <3>1, <3>3 DEF JobProgress, Receipt
    <3>5. AnswersKept'
      BY <2>2, <3>2 DEF Kept, AnswersKept, Bound, Committed
    <3> QED BY <3>1, <3>2, <3>4, <3>5 DEF Kept, JobsKnow
  <2> QED BY <1>11, <2>1, <2>2 DEF WriteReceipt
<1>12. CASE Reply(t)
  <2>1. receipts[job.id] = Receipt(job) /\ Receipt(job) # NoReceipt
    BY <1>1, <1>2, <1>12, AbsenceAssumption DEF Reply, JobProgress, Receipt, JobType
  <2>2. job.cmd.op # "archive" => Bound(job.id, job.cmd, job.resp)
    BY <1>1, <2>1 DEF Kept, ReceiptsKept, Receipt
  <2> QED BY <1>12, <2>2, AnswerKeeps DEF Reply
<1> QED BY <1>4, <1>6, <1>7, <1>8, <1>9, <1>10, <1>11, <1>12 DEF DaemonStep

LEMMA KeptPreserved ==
    ASSUME TypeOK, HasLatest, OneRunning, Kept, Arrived, CallersBound, [Next]_vars
    PROVE  Kept'
<1> USE DEF store
<1>1. ASSUME NEW c \in Clients, NEW id \in RequestIds, NEW cmd \in Commands, Send(c, id, cmd),
             up' = up
      PROVE  \A u \in Tickets : jobs'[u] = jobs[u] \/ jobs'[u] = NoJob \/ jobs'[u].step = "replay"
  BY <1>1, TypePreserved, SendQueues
<1>2. ASSUME NEW c \in Clients, NEW id \in RequestIds, NEW cmd \in Commands, Call(c, id, cmd)
      PROVE  Kept'
  BY <1>1, <1>2, QuietKeeps DEF Call
<1>3. ASSUME NEW c \in Clients, Retry(c) PROVE Kept'
  <2>1. client[c].id \in RequestIds /\ client[c].cmd \in Commands
    BY <1>3, Typed DEF Retry
  <2> QED BY <1>1, <1>3, <2>1, QuietKeeps DEF Retry
<1>4. ASSUME NEW c \in Clients, Timeout(c) PROVE Kept'
  BY <1>4, QuietKeeps DEF Timeout
<1>5. CASE Crash
  BY <1>5, QuietKeeps DEF Crash
<1>6. CASE Restart
  BY <1>6, QuietKeeps DEF Restart
<1>7. ASSUME NEW t \in Tickets, DaemonStep(t) PROVE Kept'
  BY <1>7, DaemonKeeps
<1>8. CASE UNCHANGED vars
  BY <1>8, QuietKeeps DEF vars
<1> QED BY <1>2, <1>3, <1>4, <1>5, <1>6, <1>7, <1>8 DEF Next, ClientStep

-----------------------------------------------------------------------------

LEMMA InvInit == Init => Inv
<1> SUFFICES ASSUME Init PROVE Inv
  OBVIOUS
<1> USE DEF Init
<1>1. TypeOK
  BY AuthorityAssumption DEF TypeOK, ClientType
<1>2. Arrived /\ OneRunning /\ CallersBound
  BY DEF Arrived, OneRunning, CallersBound, Idle
<1>3. OneEventPerId /\ HasLatest /\ NoLostUpdate
  BY DEF OneEventPerId, HasLatest, NoLostUpdate, RecordEvents
<1>4. ReceiptsKept /\ AnswersKept /\ JobsKnow
  BY DEF ReceiptsKept, AnswersKept, JobsKnow
<1> QED BY <1>1, <1>2, <1>3, <1>4 DEF Inv

LEMMA InvNext == Inv /\ [Next]_vars => Inv'
<1> SUFFICES ASSUME Inv, [Next]_vars PROVE Inv'
  OBVIOUS
<1>1. TypeOK' /\ Arrived' /\ OneRunning' /\ CallersBound'
  BY TypePreserved, QueuePreserved DEF Inv
<1>2. OneEventPerId' /\ HasLatest' /\ NoLostUpdate'
  BY HistoryPreserved DEF Inv
<1>3. Kept'
  BY KeptPreserved DEF Inv, Kept
<1> QED BY <1>1, <1>2, <1>3 DEF Inv, Kept

(* The queue, the history and what was answered always agree (execute,       *)
(* replayOrReject, recordAuthorityReceipt).                                  *)
THEOREM AuthorityInvariant == Spec => []Inv
<1>1. Init => Inv
  BY InvInit
<1>2. Inv /\ [Next]_vars => Inv'
  BY InvNext
<1> QED BY <1>1, <1>2, PTL DEF Spec

(* The versions of every record count its commits without a gap or a repeat, *)
(* whatever the operations, the interleaving, the retries and the crashes:   *)
(* no handler commits a version computed from a state that another request   *)
(* has replaced while it was waiting (mutateConfig, putSerialized).          *)
THEOREM NoUpdateLost == Spec => [](TypeOK /\ NoLostUpdate)
<1>1. Inv => TypeOK /\ NoLostUpdate
  BY DEF Inv
<1> QED BY <1>1, AuthorityInvariant, PTL

(* Every receipt row and every answer restates a committed event, the        *)
(* exception being answers of the two archive handlers that do not record a  *)
(* command for a record archived before (recordAuthorityReceipt).            *)
THEOREM DecisionsStand == Spec => [](ReceiptsKept /\ AnswersKept /\ OneEventPerId)
<1>1. Inv => ReceiptsKept /\ AnswersKept /\ OneEventPerId
  BY DEF Inv
<1> QED BY <1>1, AuthorityInvariant, PTL

(* Without those two handlers the authority agrees with its history always.  *)
THEOREM AuthorityAlwaysConsistent ==
    ASSUME "archive" \notin Ops
    PROVE  Spec => []AuthorityConsistent
<1>1. ASSUME Inv PROVE AuthorityConsistent
  <2>1. \A cmd \in Commands : cmd.op # "archive"
    BY DEF Commands
  <2>2. \A id \in RequestIds : receipts[id] # NoReceipt => receipts[id].cmd.op # "archive"
    BY <1>1, <2>1, Typed DEF Inv
  <2>3. ReceiptBound
    BY <1>1, <2>2 DEF Inv, ReceiptsKept, ReceiptBound, Bound
  <2> QED BY <1>1, <2>3 DEF Inv, AuthorityConsistent
<1> QED BY <1>1, AuthorityInvariant, PTL

-----------------------------------------------------------------------------

(* A daemon step that settles a caller gives an answer, or refuses a request *)
(* whose id has no event for its command.                                    *)
LEMMA RefusalJustified ==
    ASSUME Inv, NEW t \in Tickets, DaemonStep(t), client' # client
    PROVE  \/ \E resp : Finish(t, TRUE, resp)
           \/ Refuse(t) /\ \A i \in Committed(jobs[t].id) : events[i].cmd # jobs[t].cmd
<1> DEFINE job == jobs[t]
<1>1. /\ TypeOK /\ job # NoJob /\ JobProgress(t) /\ job.id \in RequestIds
      /\ ~Advances(t) /\ \A step, resp, writes : ~Advance(t, step, resp, writes)
  BY DaemonMoves, Typed DEF Inv, JobsKnow, Advance, Advances
<1>2. CASE Replay(t)
  <2> DEFINE rows == Committed(job.id)
             row  == events[CHOOSE i \in rows : TRUE]
             receipt == receipts[job.id]
  <2>1. \A i \in rows : events[i] = row
    BY DEF Committed, Inv, OneEventPerId
  <2>2. receipt # NoReceipt /\ rows # {} => row.cmd = receipt.cmd /\ row.resp = receipt.resp
    BY <1>1, <2>1 DEF Inv, ReceiptsKept, Bound
  <2>3. \/ \E resp : Finish(t, TRUE, resp)
        \/ /\ Refuse(t) /\ receipt # NoReceipt
           /\ ~(receipt.cmd = job.cmd /\ rows # {} /\ row.cmd = job.cmd /\ row.resp = receipt.resp)
        \/ Refuse(t) /\ row.cmd # job.cmd
    BY <1>1, <1>2 DEF Replay, BoundTo
  <2> QED BY <2>1, <2>2, <2>3
<1>3. CASE ValidateCommand(t) \/ ValidateConfig(t) \/ ValidatePut(t) \/ ValidateArchive(t)
  <2>1. Committed(job.id) = {}
    BY <1>1, <1>3 DEF ValidateCommand, ValidateConfig, ValidatePut, ValidateArchive, JobProgress
  <2>2. Refuse(t)
    BY <1>1, <1>3 DEF ValidateCommand, ValidateConfig, ValidatePut, ValidateArchive
  <2> QED BY <2>1, <2>2
<1>4. CASE AppendEvent(t)
  BY <1>1, <1>4 DEF AppendEvent, JobProgress
<1>5. CASE WriteReceipt(t)
  BY <1>1, <1>5 DEF WriteReceipt, JobProgress
<1>6. CASE Reply(t)
  BY <1>6 DEF Reply
<1> QED BY <1>2, <1>3, <1>4, <1>5, <1>6 DEF DaemonStep

(* Whoever is refused has no committed decision for its request.             *)
LEMMA RefusedUndecided ==
    ASSUME Inv, [Next]_vars, NEW c \in Clients, Refused(c)
    PROVE  ~Decided(c) /\ client[c].cmd \in Commands
<1>1. client'[c] # client[c] /\ client'[c].status = "settled" /\ ~client'[c].ok /\ TypeOK
  BY DEF Refused, Inv
<1>0. client \in [Clients -> ClientType]
  BY <1>1 DEF TypeOK
<1>2. ASSUME NEW d \in Clients, ClientStep(d) PROVE FALSE
  <2>1. ASSUME NEW id, NEW cmd, Send(d, id, cmd) PROVE FALSE
    BY <1>0, <1>1, <2>1 DEF Send
  <2>2. ~Timeout(d)
    <3>1. ASSUME Timeout(d) PROVE client'[c].status = "lost"
      <4>1. client[c] = client'[c] \/ (c = d /\ client'[c] = [client[c] EXCEPT !.status = "lost"])
        BY <1>0, <3>1 DEF Timeout
      <4>2. c = d /\ client[c].status = "waiting"
        BY <1>1, <3>1, <4>1 DEF Timeout
      <4>3. client[c] \in [status : {"waiting", "lost"}, id : RequestIds, cmd : Commands,
                           ticket : Tickets]
        BY <1>0, <4>2 DEF ClientType, Idle
      <4> QED BY <1>1, <4>1, <4>3
    <3> QED BY <1>1, <3>1
  <2> QED BY <1>2, <2>1, <2>2 DEF ClientStep, Call, Retry
<1>3. ~Crash /\ ~Restart /\ ~UNCHANGED vars
  <2>1. ASSUME Crash PROVE FALSE
    <3>1. client[c].status = "waiting" /\ client'[c] = [client[c] EXCEPT !.status = "lost"]
      BY <1>1, <2>1 DEF Crash
    <3>2. client[c] \in [status : {"waiting", "lost"}, id : RequestIds, cmd : Commands,
                         ticket : Tickets]
      BY <1>0, <3>1 DEF ClientType, Idle
    <3> QED BY <1>1, <3>1, <3>2
  <2> QED BY <1>1, <2>1 DEF Restart, vars
<1>4. PICK t \in Tickets : DaemonStep(t)
  BY <1>2, <1>3 DEF Next
<1>5. jobs[t] # NoJob /\ jobs[t].client \in Clients
  BY <1>1, <1>4, DaemonMoves, Typed DEF Inv
<1>6. \/ \E resp : Finish(t, TRUE, resp)
      \/ Refuse(t) /\ \A i \in Committed(jobs[t].id) : events[i].cmd # jobs[t].cmd
  BY <1>1, <1>4, RefusalJustified
<1>7. ASSUME NEW ok, NEW resp, Finish(t, ok, resp)
      PROVE  c = jobs[t].client /\ Waiting(t) /\ client'[c].ok = ok
  BY <1>1, <1>5, <1>7 DEF Finish, TypeOK
<1>8. /\ c = jobs[t].client /\ Waiting(t)
      /\ \A i \in Committed(jobs[t].id) : events[i].cmd # jobs[t].cmd
  BY <1>1, <1>6, <1>7 DEF Refuse
<1>9. jobs[t].id = client[c].id /\ jobs[t].cmd = client[c].cmd
  BY <1>8 DEF Waiting, Inv, CallersBound
<1> QED BY <1>1, <1>5, <1>8, <1>9, Typed DEF Decided

(* A request is never refused when its decision is committed, and, unless it *)
(* is a dedicated archive, never after it was answered: a retry recovers the *)
(* canonical result (replayOrReject; client.ts:138).                         *)
THEOREM RetryRecovers ==
    Spec => [][\A c \in Clients :
                 Refused(c) => ~Decided(c) /\ (client[c].cmd.op # "archive" => ~Answered(c))]_vars
<1>1. ASSUME Inv, [Next]_vars, NEW c \in Clients, Refused(c), client[c].cmd.op # "archive"
      PROVE  ~Answered(c)
  <2>1. ASSUME NEW a \in answers, a.id = client[c].id, a.cmd = client[c].cmd PROVE Decided(c)
    BY <1>1, <2>1 DEF Inv, AnswersKept, Bound, Decided
  <2> QED BY <1>1, <2>1, RefusedUndecided DEF Answered
<1>2. Inv /\ [Next]_vars => [\A c \in Clients :
        Refused(c) => ~Decided(c) /\ (client[c].cmd.op # "archive" => ~Answered(c))]_vars
  BY <1>1, RefusedUndecided
<1> QED BY <1>2, AuthorityInvariant, PTL DEF Spec

(* Without the dedicated archives, no retry is refused what it is owed.      *)
THEOREM RetryAlwaysRecovers ==
    ASSUME "archive" \notin Ops
    PROVE  Spec => RetryNeverRefused
<1>1. ASSUME Inv, [Next]_vars, NEW c \in Clients, Refused(c) PROVE ~Answered(c) /\ ~Decided(c)
  <2>1. ~Decided(c) /\ client[c].cmd.op # "archive"
    BY <1>1, RefusedUndecided DEF Commands
  <2>2. ASSUME NEW a \in answers, a.id = client[c].id, a.cmd = client[c].cmd PROVE Decided(c)
    BY <1>1, <2>1, <2>2 DEF Inv, AnswersKept, Bound, Decided
  <2> QED BY <2>1, <2>2 DEF Answered
<1>2. Inv /\ [Next]_vars => [\A c \in Clients : Refused(c) => ~Answered(c) /\ ~Decided(c)]_vars
  BY <1>1
<1> QED BY <1>2, AuthorityInvariant, PTL DEF Spec, RetryNeverRefused

-----------------------------------------------------------------------------

\* The decision of every id, as RequestPromise sees it.
Decision ==
    [id \in RequestIds |->
       IF Committed(id) = {} THEN NoReceipt
       ELSE LET row == events[CHOOSE i \in Committed(id) : TRUE]
            IN [cmd |-> row.cmd, resp |-> row.resp]]

(* The decision of an id is its only event.                                  *)
LEMMA DecisionFacts ==
    ASSUME TypeOK, OneEventPerId, NEW id \in RequestIds
    PROVE  /\ Committed(id) = {} => Decision[id] = NoReceipt
           /\ \A i \in Committed(id) :
                Decision[id] = [cmd |-> events[i].cmd, resp |-> events[i].resp]
           /\ Committed(id) # {} => Decision[id] # NoReceipt
<1>1. \A i, j \in Committed(id) : i = j
  BY DEF OneEventPerId, Committed
<1>2. \A i \in Committed(id) :
         Decision[id] = [cmd |-> events[i].cmd, resp |-> events[i].resp]
  BY <1>1 DEF Decision
<1>3. \A i \in Committed(id) :
         [cmd |-> events[i].cmd, resp |-> events[i].resp] \in [cmd : Commands, resp : Responses]
  BY Typed DEF Committed
<1> QED BY <1>2, <1>3, AbsenceAssumption DEF Decision

(* Answers come one at a time, from a request that finishes.                 *)
LEMMA AnswersGrow ==
    ASSUME TypeOK, HasLatest, [Next]_vars, answers' # answers
    PROVE  \E t \in Tickets, resp \in Responses :
             /\ jobs[t] # NoJob
             /\ answers' = answers \cup {[id |-> jobs[t].id, cmd |-> jobs[t].cmd, resp |-> resp]}
<1>1. ASSUME NEW c \in Clients, ClientStep(c) PROVE FALSE
  BY <1>1 DEF ClientStep, Call, Retry, Timeout
<1>2. ~Crash /\ ~Restart /\ ~UNCHANGED vars
  BY DEF Crash, Restart, vars
<1>3. PICK t \in Tickets : DaemonStep(t)
  BY <1>1, <1>2 DEF Next
<1>4. jobs[t] # NoJob /\ (Finishes(t) \/ Advances(t))
  BY <1>3, DaemonMoves
<1> QED BY <1>4 DEF Finishes, Advances, Finish, Advance

(* The promise's actions, in terms of the decisions.                         *)
LEMMA PromiseActions ==
    ASSUME NEW id
    PROVE  /\ Promise!Decide(id) <=>
                /\ Decision[id] = NoReceipt
                /\ Decision'[id] \in [cmd : Commands, resp : Responses]
                /\ Decision' = [Decision EXCEPT ![id] = Decision'[id]]
                /\ answers' = answers
           /\ Promise!Answer(id) <=>
                /\ Decision[id] # NoReceipt
                /\ answers' = answers \cup {[id |-> id, cmd |-> Decision[id].cmd,
                                            resp |-> Decision[id].resp]}
                /\ Decision' = Decision
<1> QED BY DEF Promise!Decide, Promise!Answer, Decision

(* Commits are the promise's decisions and finished requests its answers;    *)
(* every other step of clients and daemon is invisible to it.                *)
LEMMA PromiseStep ==
    ASSUME Inv, Inv', "archive" \notin Ops, [Next]_vars
    PROVE  [Promise!Next]_<<Decision, answers>>
<1>0. TypeOK /\ TypeOK' /\ OneEventPerId /\ OneEventPerId' /\ HasLatest /\ AnswersKept'
  BY DEF Inv
<1>1. ASSUME NEW t \in Tickets, Commits(t) PROVE Promise!Next
  <2>0. PICK id \in RequestIds : id = jobs[t].id
    BY <1>0, <1>1, Typed DEF Commits
  <2> DEFINE n == Len(events) + 1
             outcome == [cmd |-> jobs[t].cmd, resp |-> jobs[t].resp]
  <2>1. outcome \in [cmd : Commands, resp : Responses] /\ answers' = answers
    BY <1>0, <1>1, Typed DEF Commits, Advance
  <2>2. /\ events'[n].cmd = jobs[t].cmd /\ events'[n].resp = jobs[t].resp
        /\ \A i \in DOMAIN events : events'[i] = events[i]
        /\ \A j : Committed(j)' = IF j = id THEN {n} ELSE Committed(j)
    BY <1>0, <1>1, <2>0, CommitFacts
  <2>3. Decision[id] = NoReceipt
    BY <1>0, <1>1, <2>0, DecisionFacts DEF Commits
  <2> HIDE DEF n
  <2>4. \A j \in RequestIds \ {id} : Decision'[j] = Decision[j]
    <3> SUFFICES ASSUME NEW j \in RequestIds \ {id} PROVE Decision'[j] = Decision[j]
      OBVIOUS
    <3>1. Committed(j)' = Committed(j) /\ \A i \in Committed(j) : events'[i] = events[i]
      BY <2>2 DEF Committed
    <3> QED BY <3>1 DEF Decision
  <2>5. Decision'[id] = outcome
    <3>1. Committed(id)' = {n}
      BY <2>2
    <3>2. (CHOOSE i \in {n} : TRUE) = n
      OBVIOUS
    <3> QED BY <2>1, <2>2, <3>1, <3>2 DEF Decision
  <2>6. Decision' = [Decision EXCEPT ![id] = Decision'[id]]
    <3>1. /\ Decision = [j \in RequestIds |-> Decision[j]]
          /\ Decision' = [j \in RequestIds |-> Decision'[j]]
      BY DEF Decision
    <3> QED BY <2>4, <3>1
  <2> QED BY <2>0, <2>1, <2>3, <2>5, <2>6, PromiseActions DEF Promise!Next
<1>2. ASSUME events' = events, answers' # answers PROVE Promise!Next
  <2>1. PICK t \in Tickets, resp \in Responses :
             /\ jobs[t] # NoJob
             /\ answers' = answers \cup {[id |-> jobs[t].id, cmd |-> jobs[t].cmd, resp |-> resp]}
    BY <1>0, <1>2, AnswersGrow
  <2>2. jobs[t].id \in RequestIds /\ jobs[t].cmd.op # "archive"
    BY <1>0, <2>1, Typed DEF Commands
  <2>3. Bound(jobs[t].id, jobs[t].cmd, resp)
    BY <1>0, <1>2, <2>1, <2>2 DEF AnswersKept, Bound, Committed
  <2>4. /\ Decision[jobs[t].id] # NoReceipt
        /\ Decision[jobs[t].id].cmd = jobs[t].cmd /\ Decision[jobs[t].id].resp = resp
    <3>1. PICK i \in Committed(jobs[t].id) : events[i].cmd = jobs[t].cmd /\ events[i].resp = resp
      BY <2>3 DEF Bound
    <3>2. Decision[jobs[t].id] = [cmd |-> events[i].cmd, resp |-> events[i].resp]
      BY <1>0, <2>2, DecisionFacts
    <3> QED BY <1>0, <2>2, <3>1, <3>2, DecisionFacts
  <2>5. Decision' = Decision
    BY <1>2 DEF Decision, Committed
  <2> QED BY <2>1, <2>2, <2>4, <2>5, PromiseActions DEF Promise!Next
<1>3. CASE events' = events /\ answers' = answers
  BY <1>3 DEF Decision, Committed
<1> QED BY <1>1, <1>2, <1>3, EventsGrow

(* The authority implements the request promise: with its queue, receipts,   *)
(* replays, lost answers and restarts, an id is decided once and for one     *)
(* command, and every answer is that decision (ARCHITECTURE.md:31).          *)
THEOREM AuthorityKeepsPromise ==
    ASSUME "archive" \notin Ops
    PROVE  Spec => KeepsPromise
<1>1. Init => Promise!Init
  BY DEF Init, Promise!Init, Committed
<1>2. Inv /\ Inv' /\ [Next]_vars => [Promise!Next]_<<Decision, answers>>
  BY PromiseStep
<1> QED BY <1>1, <1>2, AuthorityInvariant, PTL DEF Spec, KeepsPromise, Promise!Spec, Decision

-----------------------------------------------------------------------------
\* Duplicate detection.

PairDecision(l, r) == EvaluateDedupePair(cands[l], cands[r])

Conflict(l, r) == HardIdentityConflict(PairDecision(l, r))

\* Two clusters that can no longer be merged.
Irreconcilable(l, r) == \E m \in ClusterOf(l), n \in ClusterOf(r) : Conflict(m, n)

Comparing == dedupePhase \in {"compare", "published"}

\* Nobody is in one cluster with a candidate it conflicts with.
ClustersAgree == \A c, d \in Cands : root[c] = root[d] => ~Conflict(c, d)

\* A merged pair is in one cluster, a distinct one in two irreconcilable ones.
DecisionsHold ==
    \A p \in DOMAIN decided :
        /\ decided[p].outcome = "merge" => root[p[1]] = root[p[2]]
        /\ decided[p].outcome = "distinct" => Irreconcilable(p[1], p[2])

\* A cluster is no larger than the merges make it.
ClustersEarned == \A c, d \in Cands : root[c] = root[d] => Joined(c, d)

\* The inductive invariant of a dedupe run.
DedupeInv ==
    /\ cands \in Seq(Postings) /\ DOMAIN decided \subseteq Pairs
    /\ dedupePhase \in {"collect", "refused"} => root = << >> /\ DOMAIN decided = {}
    /\ dedupePhase \in {"collect", "compare", "published", "refused"}
    /\ Comparing =>
         /\ root \in [Cands -> Cands]
         /\ ClustersAgree /\ DecisionsHold /\ ClustersEarned

LEMMA DecisionSymmetric ==
    \A a, b : HardIdentityConflict(EvaluateDedupePair(a, b))
                => HardIdentityConflict(EvaluateDedupePair(b, a))
<1> SUFFICES ASSUME NEW a, NEW b, HardIdentityConflict(EvaluateDedupePair(a, b))
             PROVE  HardIdentityConflict(EvaluateDedupePair(b, a))
  OBVIOUS
<1>1. PICK l, r : l = Normal(a) /\ r = Normal(b)
  OBVIOUS
<1>2. {l.title, r.title} = {r.title, l.title}
  OBVIOUS
<1> QED
  BY <1>1, <1>2 DEF HardIdentityConflict, EvaluateDedupePair, SameRecordDecision, EvidenceDecision,
     SameCompany, SameKnown, LocationConflict

LEMMA SelfAgrees == \A a : ~HardIdentityConflict(EvaluateDedupePair(a, a))
BY DEF HardIdentityConflict, EvaluateDedupePair, SameRecordDecision, EvidenceDecision,
     SameCompany, SameKnown, LocationConflict

\* Without clusters, "distinct" is always a conflict of the two themselves.
LEMMA Outcomes ==
    \A a, b : EvaluateDedupePair(a, b).outcome = "distinct"
                => HardIdentityConflict(EvaluateDedupePair(a, b))
<1> SUFFICES ASSUME NEW a, NEW b, EvaluateDedupePair(a, b).outcome = "distinct"
             PROVE  HardIdentityConflict(EvaluateDedupePair(a, b))
  OBVIOUS
<1>1. PICK l, r : l = Normal(a) /\ r = Normal(b)
  OBVIOUS
<1>2. PICK d : d = EvaluateDedupePair(a, b)
  OBVIOUS
<1>3. d.reason \in {"provider-record-conflict", "company-domain-conflict", "material-identity-mismatch"}
  BY <1>1, <1>2 DEF EvaluateDedupePair, SameRecordDecision, EvidenceDecision
<1> QED
  BY <1>2, <1>3 DEF HardIdentityConflict

LEMMA DedupeInitInv == DedupeInit => DedupeInv
BY DEF DedupeInit, DedupeInv, Comparing

LEMMA CollectKeeps ==
    ASSUME DedupeInv, NEW p \in Postings, CollectCandidate(p) PROVE DedupeInv'
<1>1. cands' \in Seq(Postings)
  BY DEF DedupeInv, CollectCandidate
<1> QED
  BY <1>1 DEF DedupeInv, CollectCandidate, Comparing

LEMMA StartKeeps == ASSUME DedupeInv, StartDedupe PROVE DedupeInv'
<1>1. CASE UNCHANGED root
  BY <1>1 DEF DedupeInv, StartDedupe, Comparing, Pairs, Cands
<1>2. CASE root' = [c \in Cands |-> c] /\ dedupePhase' = "compare"
  <2>1. UNCHANGED <<cands, decided>> /\ DOMAIN decided' = {}
    BY DEF DedupeInv, StartDedupe
  <2>2. root' \in [Cands -> Cands]'
    BY <1>2, <2>1 DEF Cands
  <2>3. ClustersAgree'
    <3> SUFFICES ASSUME NEW c \in Cands', NEW d \in Cands', root'[c] = root'[d] PROVE ~Conflict(c, d)'
      BY DEF ClustersAgree
    <3>1. c = d
      BY <1>2, <2>1 DEF Cands
    <3> QED
      BY <3>1, SelfAgrees DEF Conflict, PairDecision
  <2>4. DecisionsHold'
    BY <2>1 DEF DecisionsHold
  <2>5. ClustersEarned'
    BY <1>2, <2>1 DEF ClustersEarned, Joined, Cands
  <2> QED
    BY <1>2, <2>1, <2>2, <2>3, <2>4, <2>5 DEF DedupeInv, Pairs, Cands
<1> QED
  BY <1>1, <1>2 DEF StartDedupe

LEMMA CompareKeeps == ASSUME DedupeInv, ComparePair PROVE DedupeInv'
<1>1. PICK p \in Undecided :
        LET own == EvaluateDedupePair(cands[p[1]], cands[p[2]])
            d   == IF own.outcome = "merge" /\ ClustersHaveHardIdentityConflict(p[1], p[2])
                   THEN [outcome |-> "distinct", reason |-> "cluster-identity-conflict"]
                   ELSE own
        IN /\ decided' = [q \in DOMAIN decided \cup {p} |-> IF q = p THEN d ELSE decided[q]]
           /\ root' = IF d.outcome = "merge" THEN Union(p[1], p[2]) ELSE root
  BY DEF ComparePair
<1>2. PICK own : own = EvaluateDedupePair(cands[p[1]], cands[p[2]])
  OBVIOUS
<1>3. PICK d : d = IF own.outcome = "merge" /\ ClustersHaveHardIdentityConflict(p[1], p[2])
                   THEN [outcome |-> "distinct", reason |-> "cluster-identity-conflict"]
                   ELSE own
  OBVIOUS
<1>4. /\ decided' = [q \in DOMAIN decided \cup {p} |-> IF q = p THEN d ELSE decided[q]]
      /\ root' = IF d.outcome = "merge" THEN Union(p[1], p[2]) ELSE root
  BY <1>1, <1>2, <1>3
<1>5. /\ p \in Pairs /\ p[1] \in Cands /\ p[2] \in Cands
      /\ cands \in Seq(Postings) /\ DOMAIN decided \subseteq Pairs
      /\ dedupePhase = "compare" /\ UNCHANGED <<cands, dedupePhase>>
      /\ root \in [Cands -> Cands] /\ ClustersAgree /\ DecisionsHold /\ ClustersEarned
  BY DEF Undecided, Pairs, DedupeInv, Comparing, ComparePair
<1>6. /\ Cands' = Cands /\ Pairs' = Pairs
      /\ \A x, y : Conflict(x, y)' <=> Conflict(x, y)
  BY <1>5 DEF Cands, Pairs, Conflict, PairDecision
<1>7. \A x, y \in Cands : Conflict(x, y) => Conflict(y, x)
  BY DecisionSymmetric DEF Conflict, PairDecision
\* What was in one cluster stays in one, and nothing else joins but the pair's.
<1>8. /\ root' \in [Cands -> Cands]
      /\ \A x, y \in Cands : root[x] = root[y] => root'[x] = root'[y]
      /\ \A x, y \in Cands : root'[x] = root'[y] =>
            \/ root[x] = root[y]
            \/ /\ d.outcome = "merge"
               /\ \/ root[x] = root[p[1]] /\ root[y] = root[p[2]]
                  \/ root[x] = root[p[2]] /\ root[y] = root[p[1]]
      /\ d.outcome = "merge" => root'[p[1]] = root'[p[2]]
  <2>1. CASE d.outcome = "merge"
    <3>1. PICK first \in Cands, second \in Cands :
            /\ {first, second} = {root[p[1]], root[p[2]]}
            /\ root' = [c \in Cands |-> IF root[c] = second THEN first ELSE root[c]]
      BY <1>4, <1>5, <2>1 DEF Union
    <3> QED
      BY <1>5, <2>1, <3>1
  <2>2. CASE d.outcome # "merge"
    BY <1>4, <1>5, <2>2
  <2> QED
    BY <2>1, <2>2
<1>9. \A x \in Cands : ClusterOf(x) \subseteq ClusterOf(x)' /\ ClusterOf(x) \subseteq Cands
  BY <1>6, <1>8 DEF ClusterOf
<1>10. ClustersAgree'
  <2> SUFFICES ASSUME NEW x \in Cands, NEW y \in Cands, root'[x] = root'[y] PROVE ~Conflict(x, y)
    BY <1>6 DEF ClustersAgree
  <2>1. CASE root[x] = root[y]
    BY <1>5, <2>1 DEF ClustersAgree
  <2>2. CASE /\ root[x] # root[y] /\ d.outcome = "merge"
             /\ \/ root[x] = root[p[1]] /\ root[y] = root[p[2]]
                \/ root[x] = root[p[2]] /\ root[y] = root[p[1]]
    <3>1. ~ClustersHaveHardIdentityConflict(p[1], p[2])
      BY <1>3, <2>2
    <3>2. root[p[1]] # root[p[2]]
      BY <2>2
    <3>3. \A m \in ClusterOf(p[1]), n \in ClusterOf(p[2]) : ~Conflict(m, n)
      BY <3>1, <3>2 DEF ClustersHaveHardIdentityConflict, Conflict, PairDecision
    <3> QED
      BY <1>7, <2>2, <3>3 DEF ClusterOf
  <2> QED
    BY <1>8, <2>1, <2>2
<1>11. d.outcome = "distinct" => Irreconcilable(p[1], p[2])
  <2> SUFFICES ASSUME d.outcome = "distinct" PROVE Irreconcilable(p[1], p[2])
    OBVIOUS
  <2>1. CASE ClustersHaveHardIdentityConflict(p[1], p[2])
    BY <2>1 DEF ClustersHaveHardIdentityConflict, Irreconcilable, Conflict, PairDecision
  <2>2. CASE d = own
    <3>1. Conflict(p[1], p[2])
      BY <1>2, <2>2, Outcomes DEF Conflict, PairDecision
    <3> QED
      BY <1>5, <3>1 DEF Irreconcilable, ClusterOf
  <2> QED
    BY <1>3, <2>1, <2>2
<1>12. \A x, y \in Cands : Irreconcilable(x, y) => Irreconcilable(x, y)'
  BY <1>6, <1>9 DEF Irreconcilable
<1>13. DecisionsHold'
  <2> SUFFICES ASSUME NEW q \in DOMAIN decided'
               PROVE  /\ decided'[q].outcome = "merge" => root'[q[1]] = root'[q[2]]
                      /\ decided'[q].outcome = "distinct" => Irreconcilable(q[1], q[2])'
    BY DEF DecisionsHold
  <2>1. CASE q = p
    BY <1>4, <1>5, <1>8, <1>11, <1>12, <2>1
  <2>2. CASE q # p
    <3>1. q \in DOMAIN decided /\ decided'[q] = decided[q] /\ q[1] \in Cands /\ q[2] \in Cands
      BY <1>4, <1>5, <2>2 DEF Pairs
    <3> QED
      BY <1>5, <1>8, <1>12, <3>1 DEF DecisionsHold
  <2> QED
    BY <2>1, <2>2
<1>14. ClustersEarned'
  <2> SUFFICES ASSUME NEW x \in Cands, NEW y \in Cands, root'[x] = root'[y],
                      NEW S \in SUBSET Cands, x \in S,
                      \A q \in MergedPairs' : q[1] \in S <=> q[2] \in S
               PROVE  y \in S
    BY <1>6 DEF ClustersEarned, Joined
  <2>1. p \notin DOMAIN decided
    BY DEF Undecided
  <2>2. MergedPairs \subseteq MergedPairs' /\ (d.outcome = "merge" => p \in MergedPairs')
    BY <1>4, <2>1 DEF MergedPairs
  <2>3. \A q \in MergedPairs : q[1] \in S <=> q[2] \in S
    BY <2>2
  <2>4. \A u, v \in Cands : root[u] = root[v] /\ u \in S => v \in S
    BY <1>5, <2>3 DEF ClustersEarned, Joined
  <2>5. d.outcome = "merge" => (p[1] \in S <=> p[2] \in S)
    BY <2>2
  <2> QED
    BY <1>5, <1>8, <2>4, <2>5
<1>15. DOMAIN decided' \subseteq Pairs'
  BY <1>4, <1>5, <1>6
<1> QED
  BY <1>5, <1>6, <1>8, <1>10, <1>13, <1>14, <1>15 DEF DedupeInv

\* The clusters are the ones the merge decisions generate.
LEMMA ResultValidates == ASSUME DedupeInv, Comparing PROVE AssertDedupeResult
<1> SUFFICES ASSUME NEW c \in Cands, NEW d \in Cands, Joined(c, d) PROVE root[c] = root[d]
  BY DEF AssertDedupeResult, DedupeInv, ClustersEarned
<1>1. ClusterOf(c) \in SUBSET Cands /\ c \in ClusterOf(c)
  BY DEF ClusterOf
<1>2. \A p \in MergedPairs : p[1] \in ClusterOf(c) <=> p[2] \in ClusterOf(c)
  BY DEF MergedPairs, ClusterOf, DedupeInv, DecisionsHold, Pairs
<1>3. d \in ClusterOf(c)
  BY <1>1, <1>2 DEF Joined
<1> QED
  BY <1>3 DEF ClusterOf

LEMMA PublishKeeps == ASSUME DedupeInv, PublishResult PROVE DedupeInv'
<1>1. UNCHANGED <<cands, decided, root>> /\ dedupePhase' = "published"
  BY ResultValidates DEF PublishResult, Comparing
<1>2. Comparing
  BY DEF Comparing, PublishResult
<1> QED
  BY <1>1, <1>2 DEF DedupeInv, Pairs, Cands, Comparing, ClustersAgree, DecisionsHold, ClustersEarned,
     Joined, MergedPairs, Irreconcilable, Conflict, PairDecision, ClusterOf

LEMMA DedupeNextInv == DedupeInv /\ [DedupeNext]_dedupeVars => DedupeInv'
<1> SUFFICES ASSUME DedupeInv, [DedupeNext]_dedupeVars PROVE DedupeInv'
  OBVIOUS
<1>1. CASE UNCHANGED dedupeVars
  BY <1>1 DEF dedupeVars, DedupeInv, Pairs, Cands, Comparing, ClustersAgree, DecisionsHold,
     ClustersEarned, Joined, MergedPairs, Irreconcilable, Conflict, PairDecision, ClusterOf
<1> QED
  BY <1>1, CollectKeeps, StartKeeps, CompareKeeps, PublishKeeps DEF DedupeNext

LEMMA DedupeInvApart == DedupeInv => DistinctStaysApart
<1> SUFFICES ASSUME DedupeInv PROVE DistinctStaysApart
  OBVIOUS
<1>1. CASE ~Comparing
  BY <1>1 DEF DedupeInv, Comparing, DistinctStaysApart
<1>2. CASE Comparing
  <2>1. ASSUME NEW p \in DOMAIN decided, decided[p].outcome = "distinct" PROVE root[p[1]] # root[p[2]]
    <3>1. PICK m \in ClusterOf(p[1]), n \in ClusterOf(p[2]) : Conflict(m, n)
      BY <1>2, <2>1 DEF DedupeInv, DecisionsHold, Irreconcilable
    <3> QED
      BY <1>2, <3>1 DEF DedupeInv, ClustersAgree, ClusterOf
  <2>2. \A p \in DOMAIN decided : decided[p].outcome = "merge" => root[p[1]] = root[p[2]]
    BY <1>2 DEF DedupeInv, DecisionsHold
  <2>3. \A p \in Pairs : HardIdentityConflict(EvaluateDedupePair(cands[p[1]], cands[p[2]]))
                           => root[p[1]] # root[p[2]]
    BY <1>2 DEF DedupeInv, ClustersAgree, Pairs, Conflict, PairDecision
  <2>4. dedupePhase # "refused"
    BY <1>2 DEF Comparing
  <2> QED
    BY <2>1, <2>2, <2>3, <2>4 DEF DistinctStaysApart
<1> QED
  BY <1>1, <1>2

\* Duplicate detection keeps apart what conflicts, through every order of
\* merges, and its result is never refused when it is recorded
\* (deduplicateCandidates, assertDedupeResult).
THEOREM DistinctAlwaysApart == DedupeSpec => []DistinctStaysApart
<1>1. DedupeInit => DedupeInv
  BY DedupeInitInv
<1>2. DedupeInv /\ [DedupeNext]_dedupeVars => DedupeInv'
  BY DedupeNextInv
<1>3. DedupeInv => DistinctStaysApart
  BY DedupeInvApart
<1> QED
  BY <1>1, <1>2, <1>3, PTL DEF DedupeSpec

LEMMA LeastElement ==
    ASSUME NEW T, T \subseteq Nat, T # {}
    PROVE  \E m \in T : \A k \in T : m <= k
<1> DEFINE R == {x \in Nat \X Nat : x[1] < x[2]}
<1>1. OpToRel(<, Nat) = R
  BY DEF OpToRel
<1>2. IsWellFoundedOn(R, Nat)
  BY <1>1, NatLessThanWellFounded, Zenon
<1>3. \A x, y \in Nat : <<x, y>> \in R <=> x < y
  OBVIOUS
<1> HIDE DEF R
<1>4. PICK m \in T : \A k \in T : ~(<<k, m>> \in R)
  BY <1>2, WFMin
<1>5. \A k \in T : ~(k < m)
  BY <1>3, <1>4
<1>6. \A k \in T : k \in Nat /\ m \in Nat
  OBVIOUS
<1> QED
  BY <1>5, <1>6

-----------------------------------------------------------------------------
\* Scores, and the best of a finite set.

\* The scores of the label matcher are fractions from 0 to 1.
IsScore(x) == x = <<x[1], x[2]>> /\ x[1] \in Nat /\ x[2] \in Nat \ {0} /\ x[1] <= x[2]

LEMMA CrossTransitive ==
    \A a, c, e \in Nat : \A b, d, f \in Nat \ {0} :
        /\ a * d > c * b /\ c * f >= e * d => a * f > e * b
        /\ a * d >= c * b /\ c * f > e * d => a * f > e * b
        /\ a * d >= c * b /\ c * f >= e * d => a * f >= e * b
<1> SUFFICES ASSUME NEW a \in Nat, NEW c \in Nat, NEW e \in Nat,
                    NEW b \in Nat \ {0}, NEW d \in Nat \ {0}, NEW f \in Nat \ {0},
                    a * d >= c * b, c * f >= e * d
             PROVE  /\ a * f >= e * b
                    /\ a * d > c * b \/ c * f > e * d => a * f > e * b
  OBVIOUS
<1>1. /\ \A x, y \in Int : \A z \in Nat \ {0} : (x > y <=> x * z > y * z) /\ (x >= y <=> x * z >= y * z)
  OBVIOUS
<1>2. /\ a * d \in Int /\ c * b \in Int /\ c * f \in Int /\ e * d \in Int /\ a * f \in Int /\ e * b \in Int
  OBVIOUS
<1>3. /\ (a * d) * f >= (c * b) * f /\ (a * d > c * b => (a * d) * f > (c * b) * f)
      /\ (c * f) * b >= (e * d) * b /\ (c * f > e * d => (c * f) * b > (e * d) * b)
  BY <1>1, <1>2
<1>4. /\ (a * d) * f = (a * f) * d /\ (c * b) * f = (c * f) * b /\ (e * d) * b = (e * b) * d
  OBVIOUS
<1>5. /\ (a * f) * d >= (e * b) * d
      /\ a * d > c * b \/ c * f > e * d => (a * f) * d > (e * b) * d
  <2>1. /\ (a * d) * f \in Int /\ (c * b) * f \in Int /\ (e * d) * b \in Int
    OBVIOUS
  <2> QED
    BY <1>3, <1>4, <2>1
<1> QED
  BY <1>1, <1>2, <1>5

LEMMA ScoresOrdered ==
    ASSUME NEW x, NEW y, NEW z, IsScore(x), IsScore(y), IsScore(z)
    PROVE  /\ Above(x, y) /\ AtLeast(y, z) => Above(x, z)
           /\ AtLeast(x, y) /\ Above(y, z) => Above(x, z)
           /\ AtLeast(x, y) /\ AtLeast(y, z) => AtLeast(x, z)
           /\ ~Above(x, x) /\ AtLeast(x, x)
           /\ Above(x, y) => AtLeast(x, y)
           /\ AtLeast(<<1, 1>>, x) /\ IsScore(<<1, 1>>) /\ IsScore(<<0, 1>>)
<1>1. /\ x[1] \in Nat /\ y[1] \in Nat /\ z[1] \in Nat
      /\ x[2] \in Nat \ {0} /\ y[2] \in Nat \ {0} /\ z[2] \in Nat \ {0}
  BY DEF IsScore
<1>2. /\ x[1] * y[2] \in Int /\ y[1] * x[2] \in Int /\ y[1] * z[2] \in Int /\ z[1] * y[2] \in Int
      /\ x[1] * z[2] \in Int /\ z[1] * x[2] \in Int /\ x[1] * x[2] \in Int
  BY <1>1
<1>3. /\ AtLeast(x, y) <=> x[1] * y[2] >= y[1] * x[2]
      /\ AtLeast(y, z) <=> y[1] * z[2] >= z[1] * y[2]
      /\ AtLeast(x, z) <=> x[1] * z[2] >= z[1] * x[2]
  BY <1>2 DEF AtLeast, Above
<1>4. /\ x[1] * y[2] > y[1] * x[2] /\ y[1] * z[2] >= z[1] * y[2] => x[1] * z[2] > z[1] * x[2]
      /\ x[1] * y[2] >= y[1] * x[2] /\ y[1] * z[2] > z[1] * y[2] => x[1] * z[2] > z[1] * x[2]
      /\ x[1] * y[2] >= y[1] * x[2] /\ y[1] * z[2] >= z[1] * y[2] => x[1] * z[2] >= z[1] * x[2]
  <2>1. PICK a \in Nat, c \in Nat, e \in Nat, b \in Nat \ {0}, d \in Nat \ {0}, f \in Nat \ {0} :
          a = x[1] /\ c = y[1] /\ e = z[1] /\ b = x[2] /\ d = y[2] /\ f = z[2]
    BY <1>1
  <2>2. /\ a * d > c * b /\ c * f >= e * d => a * f > e * b
        /\ a * d >= c * b /\ c * f > e * d => a * f > e * b
        /\ a * d >= c * b /\ c * f >= e * d => a * f >= e * b
    BY CrossTransitive
  <2> QED
    BY <2>1, <2>2
<1>5. /\ Above(x, y) /\ AtLeast(y, z) => Above(x, z)
      /\ AtLeast(x, y) /\ Above(y, z) => Above(x, z)
      /\ AtLeast(x, y) /\ AtLeast(y, z) => AtLeast(x, z)
  BY <1>3, <1>4 DEF Above
<1>6. ~Above(x, x) /\ AtLeast(x, x)
  BY <1>2 DEF AtLeast, Above
<1>7. Above(x, y) => AtLeast(x, y)
  BY <1>2, <1>3 DEF Above
<1>8. AtLeast(<<1, 1>>, x) /\ IsScore(<<1, 1>>) /\ IsScore(<<0, 1>>)
  BY <1>1 DEF IsScore, AtLeast, Above
<1> QED
  BY <1>5, <1>6, <1>7, <1>8

\* In a finite set of things with a score and a rank, one has the highest
\* score and, of those that have it, the least rank.
LEMMA BestExists ==
    ASSUME NEW S, IsFiniteSet(S), S # {}, NEW sc, NEW rank,
           \A x \in S : IsScore(sc[x]) /\ rank[x] \in Nat
    PROVE  \E x \in S : \A y \in S :
              /\ AtLeast(sc[x], sc[y])
              /\ Above(sc[x], sc[y]) \/ rank[x] <= rank[y]
<1> DEFINE Beats(z, y) == Above(sc[z], sc[y]) \/ (AtLeast(sc[z], sc[y]) /\ rank[z] < rank[y])
           Ahead(y) == {z \in S : Beats(z, y)}
           T == {Cardinality(Ahead(y)) : y \in S}
<1>1. \A y \in S : IsFiniteSet(Ahead(y)) /\ Cardinality(Ahead(y)) \in Nat
  <2> TAKE y \in S
  <2>1. Ahead(y) \in SUBSET S
    OBVIOUS
  <2>2. IsFiniteSet(Ahead(y))
    BY <2>1, FS_Subset
  <2> QED
    BY <2>2, FS_CardinalityType
<1>2. PICK m \in T : \A k \in T : m <= k
  <2>1. T \subseteq Nat /\ T # {}
    BY <1>1
  <2> QED
    BY <2>1, LeastElement
<1>3. PICK x \in S : m = Cardinality(Ahead(x))
  OBVIOUS
<1>4. \A y \in S : ~Beats(y, x)
  <2> SUFFICES ASSUME NEW y \in S, Beats(y, x) PROVE FALSE
    OBVIOUS
  <2>1. ASSUME NEW z \in S, Beats(z, y) PROVE Beats(z, x)
    <3>1. rank[x] \in Nat /\ rank[y] \in Nat /\ rank[z] \in Nat
      OBVIOUS
    <3> QED
      BY <2>1, <3>1, ScoresOrdered
  <2>2. ~Beats(y, y)
    <3>1. rank[y] \in Nat
      OBVIOUS
    <3> QED
      BY <3>1, ScoresOrdered
  <2>3. Ahead(y) \in SUBSET Ahead(x) /\ y \in Ahead(x) /\ y \notin Ahead(y)
    BY <2>1, <2>2
  <2>4. Cardinality(Ahead(y)) <= Cardinality(Ahead(x)) /\ Cardinality(Ahead(y)) # Cardinality(Ahead(x))
    BY <1>1, <2>3, FS_Subset
  <2>5. Cardinality(Ahead(x)) <= Cardinality(Ahead(y))
    BY <1>2, <1>3
  <2>6. Cardinality(Ahead(x)) \in Nat /\ Cardinality(Ahead(y)) \in Nat
    BY <1>1
  <2> HIDE DEF Ahead
  <2> QED
    BY <2>4, <2>5, <2>6
<1>5. ASSUME NEW y \in S
      PROVE  AtLeast(sc[x], sc[y]) /\ (Above(sc[x], sc[y]) \/ rank[x] <= rank[y])
  <2>1. ~Above(sc[y], sc[x]) /\ ~(AtLeast(sc[y], sc[x]) /\ rank[y] < rank[x])
    BY <1>4
  <2>2. rank[x] \in Nat /\ rank[y] \in Nat
    OBVIOUS
  <2> QED
    BY <2>1, <2>2 DEF AtLeast
<1> QED
  BY <1>5

-----------------------------------------------------------------------------
\* The label matcher.

IsConcept(c) ==
    /\ c = [preferred |-> c.preferred, alternates |-> c.alternates, broader |-> c.broader]
    /\ Labels(c) \subseteq InputLabels /\ IsFiniteSet(c.alternates)

\* A snapshot as a file holds it, whether or not its hashes agree.
SnapshotFits(s) ==
    /\ s = [source |-> s.source, version |-> s.version, full |-> s.full,
            retrieved |-> s.retrieved, published |-> s.published, concepts |-> s.concepts,
            contentHash |-> s.contentHash, provenanceHash |-> s.provenanceHash,
            snapshotId |-> s.snapshotId]
    /\ s.concepts = [c \in DOMAIN s.concepts |-> s.concepts[c]]
    /\ IsFiniteSet(DOMAIN s.concepts)
    /\ \A c \in DOMAIN s.concepts :
         c = <<c[1], c[2]>> /\ c[2] \in Nat /\ IsConcept(s.concepts[c])

LEMMA LabelScores ==
    ASSUME NEW q \in InputLabels, NEW l \in InputLabels
    PROVE  IsScore(LabelScore(q, l)) /\ LabelScore(q, q) = <<1, 1>>
<1>1. IsFiniteSet(q.tokens) /\ IsFiniteSet(l.tokens)
  BY TaxonomyInputs
<1>2. IsFiniteSet(q.tokens \cup l.tokens)
  BY <1>1, FS_Union
<1>3. /\ Cardinality(q.tokens \cup l.tokens) \in Nat
      /\ q.tokens \cup l.tokens # {} => Cardinality(q.tokens \cup l.tokens) # 0
  BY <1>2, FS_CardinalityType, FS_EmptySet
<1>4. /\ IsFiniteSet(q.tokens \cap l.tokens)
      /\ Cardinality(q.tokens \cap l.tokens) <= Cardinality(q.tokens \cup l.tokens)
  <2>1. q.tokens \cap l.tokens \in SUBSET (q.tokens \cup l.tokens)
    OBVIOUS
  <2> QED
    BY <1>2, <2>1, FS_Subset
<1>5. Cardinality(q.tokens \cap l.tokens) \in Nat
  BY <1>4, FS_CardinalityType
<1>6. IsScore(Jaccard(q.tokens, l.tokens))
  BY <1>3, <1>4, <1>5 DEF IsScore, Jaccard
<1> QED
  BY <1>6 DEF LabelScore, IsScore

LEMMA ConceptLabels ==
    ASSUME NEW c, IsConcept(c) PROVE IsFiniteSet(Labels(c)) /\ c.preferred \in Labels(c)
<1>1. IsFiniteSet({c.preferred}) /\ IsFiniteSet(c.alternates)
  BY FS_Singleton DEF IsConcept
<1> QED
  BY <1>1, FS_Union DEF Labels

\* The best label is one of the concept's, and its score is the highest.
LEMMA BestLabels ==
    ASSUME NEW q \in InputLabels, NEW c, IsConcept(c)
    PROVE  /\ BestLabel(q, c) \in Labels(c) /\ IsScore(MatchScore(q, c))
           /\ \A l \in Labels(c) : AtLeast(MatchScore(q, c), LabelScore(q, l))
<1>1. IsFiniteSet(Labels(c)) /\ Labels(c) # {}
  BY ConceptLabels
<1>2. \A l \in Labels(c) : l \in InputLabels /\ IsScore(LabelScore(q, l)) /\ l.text \in Nat
  BY LabelScores, TaxonomyInputs DEF IsConcept
<1>3. PICK sc, rank : sc = [l \in Labels(c) |-> LabelScore(q, l)] /\ rank = [l \in Labels(c) |-> l.text]
  OBVIOUS
<1>4. PICK x \in Labels(c) : \A y \in Labels(c) :
         AtLeast(sc[x], sc[y]) /\ (Above(sc[x], sc[y]) \/ rank[x] <= rank[y])
  BY <1>1, <1>2, <1>3, BestExists
<1>5. ASSUME NEW y \in Labels(c)
      PROVE  \/ Above(LabelScore(q, x), LabelScore(q, y))
             \/ LabelScore(q, x) = LabelScore(q, y) /\ x.text <= y.text
             \/ AtLeast(LabelScore(q, x), LabelScore(q, y)) /\ x.text < y.text
  <2>1. /\ AtLeast(LabelScore(q, x), LabelScore(q, y))
        /\ Above(LabelScore(q, x), LabelScore(q, y)) \/ x.text <= y.text
    BY <1>3, <1>4
  <2>2. x.text \in Nat /\ y.text \in Nat /\ (x.text = y.text => x = y)
    BY <1>2, TaxonomyInputs
  <2> QED
    BY <2>1, <2>2
<1>6. PICK b : b = BestLabel(q, c)
  OBVIOUS
<1>7. /\ b \in Labels(c)
      /\ \A y \in Labels(c) :
           \/ Above(LabelScore(q, b), LabelScore(q, y))
           \/ LabelScore(q, b) = LabelScore(q, y) /\ b.text <= y.text
           \/ AtLeast(LabelScore(q, b), LabelScore(q, y)) /\ b.text < y.text
  BY <1>5, <1>6 DEF BestLabel
<1>8. \A y \in Labels(c) : AtLeast(LabelScore(q, b), LabelScore(q, y))
  BY <1>2, <1>7, ScoresOrdered
<1> QED
  BY <1>2, <1>6, <1>7, <1>8 DEF MatchScore

LEMMA FullMatch ==
    ASSUME NEW s, SnapshotFits(s), NEW c \in ConceptIds(s), NEW q \in Labels(s.concepts[c])
    PROVE  IF q.norm = Blank THEN RankConcepts(q, s, 1, <<1, 1>>).refused
                             ELSE RankConcepts(q, s, 1, <<1, 1>>).concepts # {}
<1>1. CASE q.norm = Blank
  BY <1>1 DEF RankConcepts
<1>2. /\ IsConcept(s.concepts[c]) /\ q \in Labels(s.concepts[c]) /\ q \in InputLabels
      /\ \A k \in ConceptIds(s) : IsConcept(s.concepts[k]) /\ k[2] \in Nat
  BY DEF SnapshotFits, ConceptIds, IsConcept
<1>3. PICK score : score = [k \in ConceptIds(s) |-> MatchScore(q, s.concepts[k])]
  OBVIOUS
<1>4. \A k \in ConceptIds(s) : IsScore(score[k]) /\ score[k] = MatchScore(q, s.concepts[k])
  BY <1>2, <1>3, BestLabels
<1>5. PICK T : T = {k \in ConceptIds(s) : AtLeast(score[k], <<1, 1>>)}
  OBVIOUS
<1>6. c \in T
  <2>1. AtLeast(MatchScore(q, s.concepts[c]), LabelScore(q, q)) /\ LabelScore(q, q) = <<1, 1>>
    BY <1>2, BestLabels, LabelScores
  <2> QED
    BY <1>4, <1>5, <2>1
<1>7. PICK m \in {k[2] : k \in T} : \A n \in {k[2] : k \in T} : m <= n
  <2>1. {k[2] : k \in T} \subseteq Nat /\ {k[2] : k \in T} # {}
    BY <1>2, <1>5, <1>6
  <2> QED
    BY <2>1, LeastElement
<1>8. PICK k \in T : m = k[2]
  OBVIOUS
<1>9. ASSUME NEW o \in ConceptIds(s), Ranks(q, s, o, k) PROVE FALSE
  <2>1. k \in ConceptIds(s) /\ AtLeast(score[k], <<1, 1>>)
    BY <1>5
  <2>2. IsScore(score[o]) /\ IsScore(score[k]) /\ IsScore(<<1, 1>>) /\ AtLeast(<<1, 1>>, score[o])
    BY <1>4, <2>1, ScoresOrdered
  <2>3. ~Above(score[o], score[k])
    BY <2>1, <2>2, ScoresOrdered DEF AtLeast
  <2>4. AtLeast(score[o], score[k]) /\ o[2] < k[2]
    BY <1>4, <1>9, <2>1, <2>3 DEF Ranks
  <2>5. o \in T
    BY <1>5, <2>1, <2>2, <2>4, ScoresOrdered
  <2>6. m <= o[2] /\ o[2] \in Nat /\ k[2] \in Nat
    BY <1>2, <1>7, <2>1, <2>5
  <2> QED
    BY <1>8, <2>4, <2>6
<1>10. Cardinality({o \in ConceptIds(s) : Ranks(q, s, o, k)}) = 0
  BY <1>9, FS_EmptySet
<1>11. ASSUME q.norm # Blank PROVE k \in RankConcepts(q, s, 1, <<1, 1>>).concepts
  <2>1. /\ k \in ConceptIds(s) /\ AtLeast(MatchScore(q, s.concepts[k]), <<1, 1>>)
        /\ Cardinality({o \in ConceptIds(s) : Ranks(q, s, o, k)}) < 1
    BY <1>4, <1>5, <1>10
  <2>2. RankConcepts(q, s, 1, <<1, 1>>).concepts =
          {d \in ConceptIds(s) :
             /\ AtLeast(MatchScore(q, s.concepts[d]), <<1, 1>>)
             /\ Cardinality({o \in ConceptIds(s) : Ranks(q, s, o, d)}) < 1}
    BY <1>11 DEF RankConcepts
  <2> QED
    BY <2>1, <2>2
<1> QED
  BY <1>1, <1>11

LEMMA ScoresOfConcepts ==
    ASSUME NEW f, NEW t, SnapshotFits(f), SnapshotFits(t),
           NEW c \in ConceptIds(f), NEW o \in ConceptIds(t)
    PROVE  IsScore(ScoreOf(f, t, c, o))
<1>1. IsConcept(f.concepts[c]) /\ IsConcept(t.concepts[o])
  BY DEF SnapshotFits, ConceptIds
<1>2. PICK L : L = Labels(f.concepts[c])
  OBVIOUS
<1>3. IsFiniteSet(L) /\ L # {} /\ L \subseteq InputLabels
  BY <1>1, <1>2, ConceptLabels DEF IsConcept
<1>4. PICK sc, rank : sc = [l \in L |-> MatchScore(l, t.concepts[o])] /\ rank = [l \in L |-> 0]
  OBVIOUS
<1>5. \A l \in L : IsScore(sc[l]) /\ rank[l] \in Nat /\ sc[l] = MatchScore(l, t.concepts[o])
  BY <1>1, <1>3, <1>4, BestLabels
<1>6. PICK x \in L : \A y \in L : AtLeast(sc[x], sc[y])
  BY <1>3, <1>5, BestExists
<1>7. PICK scores : scores = {MatchScore(l, t.concepts[o]) : l \in Labels(f.concepts[c])}
  OBVIOUS
<1>8. sc[x] \in scores /\ \A y \in scores : AtLeast(sc[x], y) /\ IsScore(y)
  BY <1>2, <1>5, <1>6, <1>7
<1>9. (CHOOSE z \in scores : \A y \in scores : AtLeast(z, y)) \in scores
  BY <1>8
<1> QED
  BY <1>7, <1>8, <1>9 DEF ScoreOf

LEMMA NearestIsThere ==
    ASSUME NEW f, NEW t, SnapshotFits(f), SnapshotFits(t), ValidSnapshot(t),
           NEW c \in ConceptIds(f), ConceptIds(t) # {}
    PROVE  Nearest(f, t, c) \in ConceptIds(t)
<1>1. PICK sc, rank : /\ sc = [o \in ConceptIds(t) |-> ScoreOf(f, t, c, o)]
                      /\ rank = [o \in ConceptIds(t) |-> o[2]]
  OBVIOUS
<1>2. \A o \in ConceptIds(t) : /\ IsScore(sc[o]) /\ rank[o] \in Nat /\ rank[o] = o[2]
                                /\ sc[o] = ScoreOf(f, t, c, o)
                                /\ o = <<t.source, o[2]>>
  BY <1>1, ScoresOfConcepts DEF SnapshotFits, ValidSnapshot, ConceptIds
<1>3. IsFiniteSet(ConceptIds(t))
  BY DEF SnapshotFits, ConceptIds
<1>4. PICK x \in ConceptIds(t) : \A y \in ConceptIds(t) :
         AtLeast(sc[x], sc[y]) /\ (Above(sc[x], sc[y]) \/ rank[x] <= rank[y])
  BY <1>2, <1>3, BestExists
<1>5. ASSUME NEW p \in ConceptIds(t) \ {x}
      PROVE  \/ Above(ScoreOf(f, t, c, x), ScoreOf(f, t, c, p))
             \/ AtLeast(ScoreOf(f, t, c, x), ScoreOf(f, t, c, p)) /\ x[2] < p[2]
  <2>1. x[2] \in Nat /\ p[2] \in Nat /\ x[2] # p[2]
    BY <1>2
  <2> QED
    BY <1>2, <1>4, <2>1
<1> QED
  BY <1>5 DEF Nearest

LEMMA ConfidenceBound ==
    ASSUME NEW score, IsScore(score)
    PROVE  Confidence(score) \in 0 .. LabelCeiling
<1>1. PICK n \in Nat, d \in Nat \ {0} : n = score[1] /\ d = score[2]
  BY DEF IsScore
<1>2. PICK k : k = (10000 * n) \div d
  OBVIOUS
<1>3. k \in Nat
  BY <1>2
<1>4. PICK r : r = Min({k, LabelCeiling})
  OBVIOUS
<1>5. r \in {k, LabelCeiling} /\ r <= LabelCeiling
  <2>1. \E x \in {k, LabelCeiling} : \A y \in {k, LabelCeiling} : x <= y
    BY <1>3 DEF LabelCeiling
  <2> QED
    BY <1>4, <2>1 DEF Min
<1>6. r \in 0 .. LabelCeiling
  BY <1>3, <1>5 DEF LabelCeiling
<1>7. Confidence(score) = r
  BY <1>1, <1>2, <1>4 DEF Confidence
<1> QED
  BY <1>6, <1>7

LEMMA CeilingBounds ==
    ASSUME NEW k \in 0 .. LabelCeiling PROVE k \in 0 .. 10000 /\ k <= LabelCeiling
<1>1. k \in 0 .. 10000
  BY DEF LabelCeiling
<1>2. k <= LabelCeiling
  BY DEF LabelCeiling
<1> QED
  BY <1>1, <1>2

LEMMA ReferenceIsValid ==
    ASSUME NEW s, ValidSnapshot(s) PROVE ValidReference(Reference(s))
BY DEF ValidSnapshot, ValidReference, Reference, ProvenanceHash, SnapshotId

\* What the matcher proposes is accepted.
LEMMA ProposalsFit ==
    ASSUME NEW f, NEW t, SnapshotFits(f), SnapshotFits(t), ValidSnapshot(f), ValidSnapshot(t),
           f.source # t.source
    PROVE  /\ SetAccepted(f, t, Propose(f, t))
           /\ ValidSet(NewSet(f, t, Propose(f, t)))
<1>1. PICK P : P = Propose(f, t)
  OBVIOUS
<1>2. ASSUME NEW e \in P
      PROVE  /\ e.from \in ConceptIds(f) /\ e.to = Nearest(f, t, e.from) /\ e.to \in ConceptIds(t)
             /\ e = [from |-> e.from, to |-> e.to, relation |-> "close",
                     method |-> "deterministic-label",
                     confidence |-> Confidence(ScoreOf(f, t, e.from, e.to))]
  <2>1. PICK c \in ConceptIds(f) :
          /\ ConceptIds(t) # {}
          /\ e = [from |-> c, to |-> Nearest(f, t, c), relation |-> "close",
                  method |-> "deterministic-label",
                  confidence |-> Confidence(ScoreOf(f, t, c, Nearest(f, t, c)))]
    BY <1>1, <1>2 DEF Propose
  <2> QED
    BY <2>1, NearestIsThere
<1>3. \A e \in P : e.relation = "close" /\ e.confidence \in 0 .. LabelCeiling
  BY <1>2, ScoresOfConcepts, ConfidenceBound
<1>4. \A e, o \in P : e.from = o.from => e = o
  BY <1>2
<1>5. ValidEntries(P)
  <2>1. \A e \in P : e.confidence \in 0 .. 10000
    <3> SUFFICES ASSUME NEW e \in P PROVE e.confidence \in 0 .. 10000
      OBVIOUS
    <3>1. e.confidence \in 0 .. LabelCeiling
      BY <1>3
    <3> QED
      BY <3>1 DEF LabelCeiling
  <2>2. \A e \in P : e.confidence <= LabelCeiling
    BY <1>3, CeilingBounds
  <2>3. \A e \in P : e.relation # "exact"
    BY <1>3
  <2>4. \A e, o \in P : e.from = o.from /\ e.to = o.to => e = o
    BY <1>4
  <2>5. \A e \in P : e.method = "deterministic-label" =>
                        e.relation # "exact" /\ e.confidence <= LabelCeiling
    BY <2>2, <2>3, Zenon
  <2> HIDE DEF LabelCeiling
  <2> QED
    BY <2>1, <2>4, <2>5 DEF ValidEntries
<1>6. SetAccepted(f, t, P)
  BY <1>2, <1>5 DEF SetAccepted
<1>7. ValidSet(NewSet(f, t, P))
  BY <1>5, ReferenceIsValid DEF ValidSet, NewSet, Reference
<1> QED
  BY <1>1, <1>6, <1>7

-----------------------------------------------------------------------------
\* The inductive invariant: what a file or the repository holds is a snapshot
\* with finitely many concepts and known labels; what the repository holds is
\* valid and under its own id; and the recorded sets resolve.
TaxInv ==
    /\ bundle # NoBundle => SnapshotFits(bundle)
    /\ snapshots = [i \in DOMAIN snapshots |-> snapshots[i]]
    /\ \A i \in DOMAIN snapshots :
         SnapshotFits(snapshots[i]) /\ ValidSnapshot(snapshots[i]) /\ snapshots[i].snapshotId = i
    /\ SetsResolve

LEMMA HashedFits ==
    ASSUME NEW s, SnapshotFits(s) PROVE SnapshotFits(Hashed(s))
<1>1. PICK h : h = [s EXCEPT !.contentHash = ContentHash(s), !.provenanceHash = ProvenanceHash(s)]
  OBVIOUS
<1>2. SnapshotFits(h)
  BY <1>1 DEF SnapshotFits
<1>3. PICK g : g = [h EXCEPT !.snapshotId = SnapshotId(h)]
  OBVIOUS
<1>4. SnapshotFits(g)
  BY <1>2, <1>3 DEF SnapshotFits
<1> QED
  BY <1>1, <1>3, <1>4 DEF Hashed

LEMMA CanonicalFits ==
    ASSUME NEW b \in Bundles, NEW c \in DOMAIN b.concepts
    PROVE  IsConcept(CanonicalConcept(b.concepts[c]))
<1>1. PICK k : k = b.concepts[c]
  OBVIOUS
<1>2. /\ k = [preferred |-> k.preferred, alternates |-> k.alternates, broader |-> k.broader]
      /\ IsFiniteSet(k.alternates)
  BY <1>1, TaxonomyInputs
<1>3. Labels(k) \subseteq InputLabels
  BY <1>1 DEF InputLabels
<1>4. PICK n : n = CanonicalConcept(k)
  OBVIOUS
<1>5. PICK kept \in SUBSET k.alternates :
          n = [preferred |-> k.preferred, alternates |-> kept, broader |-> k.broader]
  <2>1. PICK kept : kept = {l \in k.alternates :
                              /\ l.fold # k.preferred.fold
                              /\ \A o \in k.alternates : o.fold = l.fold => l.text <= o.text}
    OBVIOUS
  <2>2. n = [k EXCEPT !.alternates = kept]
    BY <1>4, <2>1 DEF CanonicalConcept
  <2> QED
    BY <1>2, <2>1, <2>2
<1>6. IsFiniteSet(kept)
  BY <1>2, FS_Subset
<1>7. IsConcept(n)
  BY <1>3, <1>5, <1>6 DEF IsConcept, Labels
<1> QED
  BY <1>1, <1>4, <1>7

LEMMA NewSnapshotFits ==
    ASSUME NEW b \in Bundles PROVE SnapshotFits(NewSnapshot(b))
<1>1. PICK ks : ks = [c \in DOMAIN b.concepts |-> CanonicalConcept(b.concepts[c])]
  OBVIOUS
<1>2. /\ ks = [c \in DOMAIN ks |-> ks[c]]
      /\ IsFiniteSet(DOMAIN ks)
      /\ \A c \in DOMAIN ks : c = <<c[1], c[2]>> /\ c[2] \in Nat /\ IsConcept(ks[c])
  BY <1>1, CanonicalFits, TaxonomyInputs
<1>3. PICK s : s = [source |-> b.source, version |-> b.version, full |-> b.full,
          retrieved |-> b.retrieved, published |-> b.published, concepts |-> ks,
          contentHash |-> "pending", provenanceHash |-> "pending", snapshotId |-> "pending"]
  OBVIOUS
<1>4. SnapshotFits(s)
  BY <1>2, <1>3 DEF SnapshotFits
<1>5. NewSnapshot(b) = Hashed(s)
  BY <1>1, <1>3 DEF NewSnapshot
<1> QED
  BY <1>4, <1>5, HashedFits

LEMMA EditFits ==
    ASSUME NEW s, SnapshotFits(s), NEW c \in ConceptIds(s)
    PROVE  SnapshotFits([s EXCEPT !.concepts[c].preferred = EditedLabel])
<1>1. PICK k : k = s.concepts[c]
  OBVIOUS
<1>2. IsConcept(k)
  BY <1>1 DEF SnapshotFits, ConceptIds
<1>3. PICK n : n = [k EXCEPT !.preferred = EditedLabel]
  OBVIOUS
<1>4. n = [preferred |-> EditedLabel, alternates |-> k.alternates, broader |-> k.broader]
  BY <1>2, <1>3 DEF IsConcept
<1>5. IsConcept(n)
  BY <1>2, <1>4 DEF IsConcept, Labels, InputLabels
<1>6. PICK ks : ks = [s.concepts EXCEPT ![c] = n]
  OBVIOUS
<1>7. /\ ks = [d \in DOMAIN ks |-> ks[d]]
      /\ IsFiniteSet(DOMAIN ks)
      /\ \A d \in DOMAIN ks : d = <<d[1], d[2]>> /\ d[2] \in Nat /\ IsConcept(ks[d])
  BY <1>5, <1>6 DEF SnapshotFits
<1>8. PICK r : r = [s EXCEPT !.concepts[c].preferred = EditedLabel]
  OBVIOUS
<1>9. r = [s EXCEPT !.concepts = ks]
  BY <1>1, <1>3, <1>6, <1>8
<1>10. SnapshotFits(r)
  BY <1>7, <1>9 DEF SnapshotFits
<1> QED
  BY <1>8, <1>10

\* One id, one content: two valid snapshots of an id have the same concepts.
LEMMA IdBindsContent ==
    ASSUME NEW s, NEW o, ValidSnapshot(s), ValidSnapshot(o), s.snapshotId = o.snapshotId
    PROVE  s.contentHash = o.contentHash /\ ConceptIds(s) = ConceptIds(o)
<1>1. SnapshotId(s) = SnapshotId(o)
  BY DEF ValidSnapshot
<1>2. s.contentHash = o.contentHash
  <2>1. SnapshotId(s).content = SnapshotId(o).content
    BY <1>1
  <2> QED
    BY <2>1 DEF SnapshotId
<1>3. ContentHash(s) = ContentHash(o)
  BY <1>2 DEF ValidSnapshot
<1>4. s.concepts = o.concepts
  <2>1. ContentHash(s).concepts = ContentHash(o).concepts
    BY <1>3
  <2> QED
    BY <2>1 DEF ContentHash
<1> QED
  BY <1>2, <1>4 DEF ConceptIds

LEMMA TaxonomyStarts == TaxonomyInit => TaxInv
<1> SUFFICES ASSUME TaxonomyInit PROVE TaxInv
  OBVIOUS
<1>1. DOMAIN snapshots = {} /\ snapshots = <<>>
  BY DEF TaxonomyInit
<1>2. snapshots = [i \in DOMAIN snapshots |-> snapshots[i]]
  BY <1>1
<1> QED
  BY <1>1, <1>2 DEF TaxonomyInit, TaxInv, SetsResolve

LEMMA SyncKeeps == ASSUME TaxInv, Sync PROVE TaxInv'
<1>1. PICK id : id = bundle.snapshotId
  OBVIOUS
<1>2. /\ SnapshotFits(bundle) /\ ValidSnapshot(bundle)
      /\ snapshots' = [i \in DOMAIN snapshots \cup {id} |-> IF i = id THEN bundle ELSE snapshots[i]]
      /\ bundle' = bundle /\ mappingSets' = mappingSets
  BY <1>1 DEF Sync, TaxInv
<1>3. /\ DOMAIN snapshots' = DOMAIN snapshots \cup {id}
      /\ snapshots' = [i \in DOMAIN snapshots' |-> snapshots'[i]]
      /\ snapshots'[id] = bundle
      /\ \A i \in DOMAIN snapshots : i # id => snapshots'[i] = snapshots[i]
  BY <1>2
<1>4. \A i \in DOMAIN snapshots' : SnapshotFits(snapshots'[i]) /\ ValidSnapshot(snapshots'[i])
                                   /\ snapshots'[i].snapshotId = i
  BY <1>1, <1>2, <1>3 DEF TaxInv
<1>5. \A i \in DOMAIN snapshots : /\ snapshots'[i].contentHash = snapshots[i].contentHash
                                  /\ ConceptIds(snapshots'[i]) = ConceptIds(snapshots[i])
  <2> TAKE i \in DOMAIN snapshots
  <2>1. ValidSnapshot(snapshots[i]) /\ snapshots[i].snapshotId = i
    BY DEF TaxInv
  <2>2. CASE i # id
    BY <1>3, <2>2
  <2>3. CASE i = id
    BY <1>1, <1>2, <1>3, <2>1, <2>3, IdBindsContent
  <2> QED
    BY <2>2, <2>3
<1>6. SetsResolve'
  BY <1>2, <1>3, <1>5 DEF TaxInv, SetsResolve
<1>7. bundle' # NoBundle => SnapshotFits(bundle')
  BY <1>2
<1> QED
  BY <1>3, <1>4, <1>6, <1>7 DEF TaxInv

LEMMA RecordKeeps ==
    ASSUME TaxInv, NEW i \in DOMAIN snapshots, NEW j \in DOMAIN snapshots, NEW entries,
           RecordSet(snapshots[i], snapshots[j], entries)
    PROVE  TaxInv'
<1>1. PICK f, t, n : f = snapshots[i] /\ t = snapshots[j] /\ n = NewSet(f, t, entries)
  OBVIOUS
<1>2. /\ SetAccepted(f, t, entries) /\ mappingSets' = mappingSets \cup {n}
      /\ bundle' = bundle /\ snapshots' = snapshots
  BY <1>1 DEF RecordSet
<1>3. f.snapshotId = i /\ t.snapshotId = j /\ ValidSnapshot(f) /\ ValidSnapshot(t)
  BY <1>1 DEF TaxInv
<1>4. \A e \in entries : /\ e.from \in ConceptIds(f) /\ e.from[1] = f.source
                         /\ e.to \in ConceptIds(t) /\ e.to[1] = t.source
  BY <1>2, <1>3 DEF SetAccepted, ValidSnapshot
<1>5. f.source # t.source
  BY <1>2 DEF SetAccepted
<1>6. n.from = Reference(f) /\ n.to = Reference(t) /\ n.mappings = entries
  BY <1>1 DEF NewSet
<1>7. /\ n.from.snapshotId = i /\ n.from.contentHash = f.contentHash /\ n.from.source = f.source
      /\ n.to.snapshotId = j /\ n.to.contentHash = t.contentHash /\ n.to.source = t.source
  BY <1>3, <1>6 DEF Reference
<1>8. \A r \in {n.from, n.to} :
        /\ r.snapshotId \in DOMAIN snapshots
        /\ snapshots[r.snapshotId].contentHash = r.contentHash
        /\ \A e \in n.mappings : \A c \in {e.from, e.to} :
             c[1] = r.source => c \in ConceptIds(snapshots[r.snapshotId])
  BY <1>1, <1>4, <1>5, <1>6, <1>7
<1>9. SetsResolve'
  BY <1>2, <1>8 DEF TaxInv, SetsResolve
<1> QED
  BY <1>2, <1>9 DEF TaxInv

LEMMA BundleKeeps ==
    ASSUME TaxInv, UNCHANGED <<snapshots, mappingSets>>,
           bundle' # NoBundle => SnapshotFits(bundle')
    PROVE  TaxInv'
BY DEF TaxInv, SetsResolve

LEMMA TaxonomySteps == TaxInv /\ [TaxonomyNext]_taxonomyVars => TaxInv'
<1> SUFFICES ASSUME TaxInv, [TaxonomyNext]_taxonomyVars PROVE TaxInv'
  OBVIOUS
<1>1. ASSUME NEW b \in Bundles, WriteBundle(b) PROVE TaxInv'
  BY <1>1, NewSnapshotFits, BundleKeeps DEF WriteBundle
<1>2. ASSUME NEW c, NEW rehash \in BOOLEAN, EditBundle(c, rehash) PROVE TaxInv'
  <2>1. PICK s : s = [bundle EXCEPT !.concepts[c].preferred = EditedLabel]
    OBVIOUS
  <2>2. SnapshotFits(bundle) /\ c \in ConceptIds(bundle)
    BY <1>2 DEF EditBundle, TaxInv
  <2>3. SnapshotFits(s) /\ SnapshotFits(Hashed(s))
    BY <2>1, <2>2, EditFits, HashedFits
  <2>4. bundle' \in {s, Hashed(s)} /\ UNCHANGED <<snapshots, mappingSets>>
    BY <1>2, <2>1 DEF EditBundle
  <2> QED
    BY <2>3, <2>4, BundleKeeps
<1>3. ASSUME NEW i \in DOMAIN snapshots, NEW j \in DOMAIN snapshots,
             LET f == snapshots[i]  t == snapshots[j]  proposals == Propose(f, t) IN
             /\ f.source # t.source
             /\ \/ RecordSet(f, t, proposals)
                \/ \E e \in proposals : RecordSet(f, t, Curated(proposals, e))
      PROVE  TaxInv'
  BY <1>3, RecordKeeps
<1>4. CASE UNCHANGED taxonomyVars
  BY <1>4 DEF TaxInv, SetsResolve, taxonomyVars
<1> QED
  BY <1>1, <1>2, <1>3, <1>4, SyncKeeps DEF TaxonomyNext

LEMMA TaxonomyResolves == TaxInv => MappingsResolve
<1> SUFFICES ASSUME TaxInv PROVE MappingsResolve
  OBVIOUS
<1>1. LabelsFound
  BY FullMatch DEF TaxInv, LabelsFound
<1>2. ProposalsAccepted
  BY ProposalsFit DEF TaxInv, ProposalsAccepted
<1> QED
  BY <1>1, <1>2 DEF TaxInv, MappingsResolve

\* TaxonomyMapping.  Mappings can be relied on (mapping.ts): what a recorded
\* set points into is stored with the content it was made from, every label of
\* a stored concept of which normalisation leaves anything is found, and what
\* the matcher proposes between two stored snapshots is accepted.
THEOREM MappingsAlwaysResolve == TaxonomySpec => []MappingsResolve
<1>1. TaxonomyInit => TaxInv
  BY TaxonomyStarts
<1>2. TaxInv /\ [TaxonomyNext]_taxonomyVars => TaxInv'
  BY TaxonomySteps
<1>3. TaxInv => MappingsResolve
  BY TaxonomyResolves
<1> QED
  BY <1>1, <1>2, <1>3, PTL DEF TaxonomySpec
=============================================================================
