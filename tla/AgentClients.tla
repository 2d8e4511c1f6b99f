----------------------------- MODULE AgentClients -----------------------------
(***************************************************************************)
(* The clients that put requests to the authority on behalf of an agent or *)
(* an operator: the MCP stdio server (src/packages/mcp/src/), the loopback *)
(* gateway of the workbench (src/src/workbench/loopback-gateway.ts) and    *)
(* the queue client of the terminal UI (src/src/tui/daemon-queue-client.ts)*)
(*                                                                         *)
(* MCP frames are read one at a time, run concurrently up to a limit and   *)
(* answered through one ordered writer.  A mutation needs a granted        *)
(* capability and an approval for exactly its tool and arguments, and its  *)
(* authority request id is derived from them, so that a repeated call is a *)
(* repeated request.  The gateway and the terminal UI give every command a *)
(* fresh id.  A client may stop waiting for an answer that still comes, a  *)
(* request may be lost with the daemon, and the clock passes expiries.     *)
(***************************************************************************)
EXTENDS Naturals, Sequences, FiniteSets

CONSTANTS
    ToolCalls,          \* tools/call messages the agent may send, repeatedly
    OperatorCommands,       \* commands an operator may give: [via, rec, ver]
    AgentRecords,        \* records mutations are about
    Granted,        \* capabilities given at start
    NoApproval, NoManifest,
    MaxInFlight,    \* DEFAULT_MAX_IN_FLIGHT
    MaxFrames,      \* bound: frames read
    MaxCommands,    \* bound: operator commands
    MaxGwFaults,    \* bound: timeouts, lost requests, file edits
    MaxClock        \* bound: the clock

ASSUME AgentAssumption ==
    /\ MaxInFlight \in Nat \ {0} /\ MaxFrames \in Nat /\ MaxCommands \in Nat
    /\ MaxGwFaults \in Nat /\ MaxClock \in Nat

VARIABLES
    mcpState,       \* state of McpProtocolServer
    tasks,          \* one task per frame read, in order
    writer,         \* JsonLineWriter: responses queued, in order
    atDaemon,       \* requests sent and not yet executed
    agentReceipts,  \* request id -> payload and answer
    recVersion,     \* version of each record
    effects,        \* request payloads that took effect, with their intent
    sourceFile,     \* the file import-passport names, by its content
    gwCount,        \* fresh ids handed out
    clock, gwFaults

agentVars == <<mcpState, tasks, writer, atDaemon, agentReceipts, recVersion, effects,
               sourceFile, gwCount, clock, gwFaults>>

-----------------------------------------------------------------------------
\* McpToolExecutor.invoke and the tool catalog.

\* createMcpToolCatalog and bin.ts: side effects are enabled exactly when at
\* least one capability is granted.
EnableSideEffects == Granted # {}

IsRead(call) == call.tool = "read"

\* The scoped approval is for this tool, its capability and these arguments,
\* and has not expired.
ApprovalValid(call) ==
    /\ call.approval # NoApproval
    /\ call.approval.tool = call.tool
    /\ call.approval.args = call.args
    /\ call.approval.expires > clock

\* The policy error a call ends with before any request is made.
PolicyError(call) ==
    CASE IsRead(call) -> "none"
      [] ~EnableSideEffects -> "side-effects-disabled"
      [] call.tool \notin Granted -> "capability-required"
      [] call.approval = NoApproval -> "approval-required"
      [] ~ApprovalValid(call) -> "approval-invalid"
      [] OTHER -> "none"

-----------------------------------------------------------------------------
\* VocationSdkBackend.

\* The authority requests of a tool, in order: import-passport imports the
\* artifact and then the credential.
Stages(call) ==
    CASE IsRead(call) -> <<"read">>
      [] call.tool = "import" -> <<"artifact-import", "credential-import">>
      [] OTHER -> <<"authority">>

\* Mutated form of RequestId: the stage is left out of the digest.
RequestIdNoStage(call, stage, n) ==
    IF IsRead(call) THEN <<"read", n>> ELSE <<call.approval.id, call.tool, call.args>>

\* requestIdForMutation; a read gets an id of its own.
RequestId(call, stage, n) ==
    IF IsRead(call) THEN <<"read", n>> ELSE <<call.approval.id, call.tool, stage, call.args>>

Intent(call) == IF IsRead(call) THEN <<"read">> ELSE <<call.approval.id, call.tool, call.args>>

RequestAt(call, k, manifest, n) ==
    LET stage == Stages(call)[k] IN
    [id |-> RequestId(call, stage, n), stage |-> stage, rec |-> call.args.rec,
     ver |-> call.args.ver, manifest |-> manifest, intent |-> Intent(call)]

Payload(q) == <<q.stage, q.rec, q.ver, q.manifest>>

-----------------------------------------------------------------------------
\* The protocol server and the stdio loop.

InFlight == {n \in DOMAIN tasks : tasks[n].at # "answered"}

\* schedule: the frame's response promise joins the in-flight set; a response
\* known at once is queued on the writer.
ScheduleAnswer(outcome) ==
    /\ tasks' = Append(tasks, [at |-> "writing", outcome |-> outcome])
    /\ writer' = Append(writer, Len(tasks) + 1)
    /\ UNCHANGED atDaemon

ScheduleCall(call) ==
    LET n == Len(tasks) + 1 IN
    /\ tasks' = Append(tasks, [at |-> "daemon", call |-> call, stage |-> 1, outcome |-> "none"])
    /\ atDaemon' = atDaemon \cup {[n |-> n, q |-> RequestAt(call, 1, NoManifest, n)]}
    /\ UNCHANGED writer

Reading == Len(tasks) < MaxFrames /\ Cardinality(InFlight) < MaxInFlight

\* A frame that is too large, is no JSON, no request, or names no method.
ReadMalformed ==
    /\ Reading /\ ScheduleAnswer("protocol-error")
    /\ UNCHANGED <<mcpState, agentReceipts, recVersion, effects, sourceFile, gwCount, clock, gwFaults>>

\* initialize: valid only as the first.
ReadInitialize ==
    /\ Reading
    /\ ScheduleAnswer(IF mcpState = "pre-initialize" THEN "ok" ELSE "invalid-params")
    /\ mcpState' = IF mcpState = "pre-initialize" THEN "awaiting-initialized" ELSE mcpState
    /\ UNCHANGED <<agentReceipts, recVersion, effects, sourceFile, gwCount, clock, gwFaults>>

\* notifications/initialized has no response; out of sequence it is ignored.
ReadInitialized ==
    /\ Reading /\ mcpState = "awaiting-initialized"
    /\ mcpState' = "ready"
    /\ UNCHANGED <<tasks, writer, atDaemon, agentReceipts, recVersion, effects, sourceFile,
                   gwCount, clock, gwFaults>>

\* tools/call: refused before the server is ready, by the policy, or for its
\* arguments; otherwise the first authority request is sent.
ReadCall(call) ==
    /\ Reading
    /\ CASE mcpState # "ready" -> ScheduleAnswer("not-initialized")
         [] mcpState = "ready" /\ PolicyError(call) # "none" -> ScheduleAnswer(PolicyError(call))
         [] mcpState = "ready" /\ PolicyError(call) = "none" /\ ~call.wellFormed ->
              ScheduleAnswer("invalid-input")
         [] OTHER -> ScheduleCall(call)
    /\ UNCHANGED <<mcpState, agentReceipts, recVersion, effects, sourceFile, gwCount, clock, gwFaults>>

\* writeLine: responses leave in the order they were queued.
WriteLine ==
    /\ writer # <<>>
    /\ tasks' = [tasks EXCEPT ![Head(writer)] = [at |-> "answered", outcome |-> "none"]]
    /\ writer' = Tail(writer)
    /\ UNCHANGED <<mcpState, atDaemon, agentReceipts, recVersion, effects, sourceFile, gwCount,
                   clock, gwFaults>>

-----------------------------------------------------------------------------
\* The operator's clients.

\* What the gateway checks of a command, in this order; the first check that
\* fails answers the request and nothing reaches the authority.
GatewayChecks == <<"loopback", "host", "session", "route", "origin", "csrf", "capability",
                   "content-type", "size", "json">>

FirstFailing(cmd) ==
    LET failing == {i \in DOMAIN GatewayChecks : GatewayChecks[i] \in cmd.fails} IN
    IF failing = {} THEN "none" ELSE GatewayChecks[CHOOSE i \in failing : \A j \in failing : i <= j]

\* The terminal UI sends blocks and review tasks; a rearm it refuses itself.
Passes(cmd) ==
    \/ cmd.via = "web" /\ FirstFailing(cmd) = "none"
    \/ cmd.via = "tui" /\ cmd.kind # "rearm"

\* One request with a fresh id.
GiveCommand(cmd) ==
    /\ gwCount < MaxCommands /\ Passes(cmd)
    /\ atDaemon' = atDaemon \cup
         {[n |-> 0, q |-> [id |-> <<cmd.via, gwCount>>, stage |-> "authority", rec |-> cmd.rec,
                           ver |-> cmd.ver, manifest |-> NoManifest,
                           intent |-> <<cmd.via, gwCount>>]]}
    /\ gwCount' = gwCount + 1
    /\ UNCHANGED <<mcpState, tasks, writer, agentReceipts, recVersion, effects, sourceFile,
                   clock, gwFaults>>

-----------------------------------------------------------------------------
\* The authority, as its clients see it: a known id is replayed or refused for
\* other parameters, a record moves only from its expected version.

Outcome(q) ==
    CASE q.stage # "read" /\ q.id \in DOMAIN agentReceipts
                          /\ agentReceipts[q.id].payload # Payload(q) -> "reused"
      [] q.stage \notin {"read", "artifact-import"} /\ q.id \notin DOMAIN agentReceipts
                          /\ recVersion[q.rec] # q.ver -> "conflict"
      [] OTHER -> "ok"

TakesEffect(q) == q.stage # "read" /\ q.id \notin DOMAIN agentReceipts /\ Outcome(q) = "ok"

ManifestOf(q) ==
    IF q.id \in DOMAIN agentReceipts THEN agentReceipts[q.id].manifest
    ELSE IF q.stage = "artifact-import" THEN sourceFile ELSE q.manifest

\* The task of a request that still waits for it.
AwaitsDaemon(m) == m.n # 0 /\ tasks[m.n].at = "daemon"

\* The await in the backend resolves: the next stage is sent, or the call's
\* response is queued.
Resume(m) ==
    LET t == tasks[m.n]
        done == Outcome(m.q) # "ok" \/ t.stage = Len(Stages(t.call)) IN
    IF done
    THEN /\ tasks' = [tasks EXCEPT ![m.n].at = "writing", ![m.n].outcome = Outcome(m.q)]
         /\ writer' = Append(writer, m.n)
         /\ atDaemon' = atDaemon \ {m}
    ELSE /\ tasks' = [tasks EXCEPT ![m.n].stage = @ + 1]
         /\ atDaemon' = (atDaemon \ {m}) \cup
               {[n |-> m.n, q |-> RequestAt(t.call, t.stage + 1, ManifestOf(m.q), m.n)]}
         /\ UNCHANGED writer

Execute(m) ==
    /\ m \in atDaemon
    /\ IF AwaitsDaemon(m) THEN Resume(m) ELSE atDaemon' = atDaemon \ {m} /\ UNCHANGED <<tasks, writer>>
    /\ IF TakesEffect(m.q)
       THEN /\ agentReceipts' = [id \in DOMAIN agentReceipts \cup {m.q.id} |->
                 IF id = m.q.id THEN [payload |-> Payload(m.q), manifest |-> ManifestOf(m.q)]
                 ELSE agentReceipts[id]]
            /\ effects' = effects \cup {[intent |-> m.q.intent, stage |-> m.q.stage, q |-> m.q]}
            /\ recVersion' = IF m.q.stage = "artifact-import" THEN recVersion
                             ELSE [recVersion EXCEPT ![m.q.rec] = @ + 1]
       ELSE UNCHANGED <<agentReceipts, effects, recVersion>>
    /\ UNCHANGED <<mcpState, sourceFile, gwCount, clock, gwFaults>>

\* executeTool's catch: the call is answered with an error, whatever becomes of
\* the request.
Fails(n) ==
    /\ tasks' = [tasks EXCEPT ![n].at = "writing", ![n].outcome = "daemon-request-failed"]
    /\ writer' = Append(writer, n)

\* Mutated form of TimeoutLate: a timeout nobody turns into a response.
TimeoutDropped(n) ==
    /\ n \in DOMAIN tasks /\ tasks[n].at = "daemon" /\ FALSE
    /\ UNCHANGED agentVars

\* The SDK request times out because the daemon is gone: no answer will come.
TimeoutLate(n) ==
    /\ n \in DOMAIN tasks /\ tasks[n].at = "daemon" /\ \A m \in atDaemon : m.n # n
    /\ Fails(n)
    /\ UNCHANGED <<mcpState, atDaemon, agentReceipts, recVersion, effects, sourceFile, gwCount,
                   clock, gwFaults>>

\* It times out while the daemon is slow: the request may still be executed.
TimeoutEarly(n) ==
    /\ n \in DOMAIN tasks /\ tasks[n].at = "daemon" /\ gwFaults < MaxGwFaults
    /\ Fails(n)
    /\ gwFaults' = gwFaults + 1
    /\ UNCHANGED <<mcpState, atDaemon, agentReceipts, recVersion, effects, sourceFile, gwCount, clock>>

LoseRequest ==
    /\ gwFaults < MaxGwFaults /\ gwFaults' = gwFaults + 1
    /\ \E m \in atDaemon : atDaemon' = atDaemon \ {m}
    /\ UNCHANGED <<mcpState, tasks, writer, agentReceipts, recVersion, effects, sourceFile, gwCount, clock>>

EditSource ==
    /\ gwFaults < MaxGwFaults /\ gwFaults' = gwFaults + 1
    /\ sourceFile' = sourceFile + 1
    /\ UNCHANGED <<mcpState, tasks, writer, atDaemon, agentReceipts, recVersion, effects, gwCount, clock>>

Tick ==
    /\ clock < MaxClock /\ clock' = clock + 1
    /\ UNCHANGED <<mcpState, tasks, writer, atDaemon, agentReceipts, recVersion, effects,
                   sourceFile, gwCount, gwFaults>>

-----------------------------------------------------------------------------

AgentInit ==
    /\ mcpState = "pre-initialize" /\ tasks = <<>> /\ writer = <<>> /\ atDaemon = {}
    /\ agentReceipts = << >> /\ recVersion = [r \in AgentRecords |-> 0] /\ effects = {}
    /\ sourceFile = 0 /\ gwCount = 0 /\ clock = 0 /\ gwFaults = 0

AgentNext ==
    \/ ReadMalformed \/ ReadInitialize \/ ReadInitialized
    \/ \E call \in ToolCalls : ReadCall(call)
    \/ \E cmd \in OperatorCommands : GiveCommand(cmd)
    \/ \E m \in atDaemon : Execute(m)
    \/ \E n \in 1..MaxFrames : TimeoutLate(n) \/ TimeoutEarly(n)
    \/ WriteLine \/ LoseRequest \/ EditSource \/ Tick

\* The event loop settles every promise, the daemon every request it keeps, and
\* a timer that was set fires.
AgentFair ==
    /\ WF_agentVars(\E m \in atDaemon : Execute(m))
    /\ \A n \in 1..MaxFrames : WF_agentVars(TimeoutLate(n))
    /\ WF_agentVars(WriteLine)

AgentSpec == AgentInit /\ [][AgentNext]_agentVars /\ AgentFair

-----------------------------------------------------------------------------
\* Properties.

\* An approved call has each of its effects once however often, and however
\* concurrently, it is made; and when a request of it is refused, as a conflict
\* or for other parameters, the call has had no effect yet, except that the
\* artifact of a two-stage import may have been stored before its credential
\* was refused (backend.ts:29-42, index.ts:277-324).
ApprovedOnce ==
    [][/\ \A e, f \in effects' : e.intent = f.intent /\ e.stage = f.stage => e = f
       /\ \A n \in DOMAIN tasks :
            tasks[n].at = "daemon" /\ tasks'[n].outcome \in {"conflict", "reused"} =>
              \A e \in effects : e.intent = Intent(tasks[n].call) =>
                 e.stage = "artifact-import" /\ tasks'[n].outcome = "conflict"]_agentVars

\* Every frame that asks for a response gets it, although requests are lost
\* and answers come late: when the agent stops sending, nothing stays in flight
\* (server.ts:282-307, stdio.ts:84-101).
EveryFrameAnswered == []<>(InFlight = {})

=============================================================================
