---------------------------- MODULE MCEventClients ----------------------------
(* The two ends of a write, one part per behaviour: the event store with two  *)
(* concurrent callers, three event ids and two aggregates, the opening of a   *)
(* new or older store, the signed checkpoints of its history, and the MCP     *)
(* server and the other gateways whose calls end in it.  The parts share no   *)
(* state; part says which one runs.                                           *)
EXTENDS EventStore, AgentClients, StoreOpening, MCAuditCheckpoint

VARIABLE part

Arguments == [rec |-> "r", ver |-> 0]
Ahead     == [rec |-> "r", ver |-> 1]

ToolCall(tool, approval) ==
    [tool |-> tool, args |-> Arguments, approval |-> approval, wellFormed |-> TRUE]

ApprovalOf(id, tool, expires) == [id |-> id, tool |-> tool, args |-> Arguments, expires |-> expires]

\* A read, an approved two-stage import, approved mutations on the current and
\* on the next version, and a mutation under the approval of another tool.
SomeCalls ==
    {ToolCall("read", NoApproval), ToolCall("import", ApprovalOf("p1", "import", 1)),
     ToolCall("mutate", ApprovalOf("p2", "mutate", 2)),
     [ToolCall("mutate", [ApprovalOf("p3", "mutate", 2) EXCEPT !.args = Ahead]) EXCEPT !.args = Ahead],
     ToolCall("mutate", ApprovalOf("p1", "import", 1))}

\* Commands of the web workbench and of the terminal, on the current and on a
\* stale version, and one the gateway refuses.
SomeCommands ==
    {[via |-> "web", kind |-> "block", rec |-> "r", ver |-> 0, fails |-> {}],
     [via |-> "tui", kind |-> "block", rec |-> "r", ver |-> 1, fails |-> {}],
     [via |-> "web", kind |-> "block", rec |-> "r", ver |-> 1, fails |-> {"csrf", "size"}]}

Store(tables, rows, salt, id) ==
    [tables |-> tables, odd |-> {}, rows |-> rows, untrusted |-> {}, salt |-> salt,
     pass |-> "right", id |-> id, count |-> 1]

NewFile  == [Store({}, {}, NoSalt, NoDbId) EXCEPT !.count = 0]
NoLedger == Store(CoreTables, {}, 0, NoDbId)
AtOne    == Store(CoreTables \cup {HistoryTable}, {1}, 0, <<"random", 0>>)
AtTwo    == Store(AtOne.tables \cup VersionTwoTables, {1, 2}, 0, <<"random", 0>>)

\* A lost table, another column, a later build, another migration under a
\* version of this build.
RefusedStores ==
    {[NoLedger EXCEPT !.tables = @ \ {"snapshots"}], [NoLedger EXCEPT !.odd = {"snapshots"}],
     [AtTwo EXCEPT !.odd = {"signed_checkpoints"}], [AtTwo EXCEPT !.rows = {1, 2, 3}],
     [AtTwo EXCEPT !.untrusted = {2}]}

SomeStores == RefusedStores \cup {NewFile, NoLedger, AtOne, AtTwo}

WritesInit ==
    /\ part \in {"store", "opening", "agents", "checkpoints"}
    /\ Init /\ AgentInit /\ OpenInit /\ CheckpointInit
    /\ part = "opening" \/ seed = NewFile

WritesNext ==
    \/ part = "store" /\ Next /\ UNCHANGED <<part, agentVars, openVars, checkpointVars>>
    \/ part = "opening" /\ OpenNext /\ UNCHANGED <<part, vars, agentVars, checkpointVars>>
    \/ part = "agents" /\ AgentNext /\ UNCHANGED <<part, vars, openVars, checkpointVars>>
    \/ part = "checkpoints" /\ CheckpointNext /\ UNCHANGED <<part, vars, agentVars, openVars>>

\* AgentFair while its part runs.
WritesFair ==
    /\ WF_agentVars(part = "agents" /\ \E m \in atDaemon : Execute(m))
    /\ \A n \in 1 .. MaxFrames : WF_agentVars(part = "agents" /\ TimeoutLate(n))
    /\ WF_agentVars(part = "agents" /\ WriteLine)

WritesSpec ==
    /\ WritesInit /\ [][WritesNext]_<<part, vars, agentVars, openVars, checkpointVars>>
    /\ WritesFair
=============================================================================
