--------------------------- MODULE AutomationPolicy ---------------------------
(***************************************************************************)
(* Automated application: the configuration and its kill switch, the gates *)
(* every packet has to pass and the decisions the authority records        *)
(* (src/src/auto-apply.ts, claim-graph.ts, approval.ts and the auto-apply  *)
(* operations of src/src/daemon/authority.ts), and the phases of an agent  *)
(* run (src/src/agent-controller.ts).                                      *)
(*                                                                         *)
(* What a packet brings is the set of static gates it fails; what changes  *)
(* under it is state: the configuration, which the last event that carries *)
(* one gives, be it of a command or of the legacy import, the trusted      *)
(* approvers, the day's ledger, the documents on disk, the clock.          *)
(***************************************************************************)
EXTENDS Naturals, Sequences, FiniteSets

CONSTANTS
    Packets,         \* packets evaluated: [opp, problems, approval]
    ApproverKeys,
    NoApprovalRef,
    MaxPerDay,       \* rateLimit.maxPerDay of the default configuration
    LegacyConfigs,   \* what auto-apply-config.json may hold for the legacy import
    Workers,         \* worker id -> [role, scopes]
    Humans,
    MaxAutoSteps,    \* bound: operations
    MaxDay           \* bound: the clock, in days

\* A configuration: limits and gates of its own, and for an opportunity a mode
\* ("none": no override) or its exclusion.  Only the legacy import brings those.
Modes == {"manual", "draft-only", "auto"}

Opps == {p.opp : p \in Packets}

AutoConfigs ==
    [enabled : BOOLEAN, mode : Modes, killed : BOOLEAN, adapter : BOOLEAN,
     override : [Opps -> Modes \cup {"none"}], excluded : SUBSET Opps, limit : Nat, cooldown : Nat]

DefaultConfig ==
    [enabled |-> FALSE, mode |-> "manual", killed |-> FALSE, adapter |-> TRUE,
     override |-> [o \in Opps |-> "none"], excluded |-> {}, limit |-> MaxPerDay, cooldown |-> 0]

ASSUME AutomationAssumption ==
    /\ MaxPerDay \in Nat \ {0} /\ MaxAutoSteps \in Nat /\ MaxDay \in Nat
    /\ LegacyConfigs \subseteq AutoConfigs

VARIABLES
    autoConfig,      \* what loadAutoApplyConfig returns
    autoLog,         \* configuration events, approver changes, allowed decisions
    trustedApprovers,       \* trusted approver keys
    submittedToday,  \* opportunities with a submitted or confirmed entry of the day
    edited,          \* opportunities whose documents changed on disk
    autoDay,
    agentRun         \* status and records of an agent run

autoVars == <<autoConfig, autoLog, trustedApprovers, submittedToday, edited, autoDay>>
policyVars == <<autoVars, agentRun>>

-----------------------------------------------------------------------------
\* decideAutoApply.

\* The gates in the order the code tries them; assertExecutableAdapter comes first.
GateOrder ==
    <<"adapter-authority-denied", "config-schema-invalid", "packet-schema-invalid",
      "kill-switch-engaged", "auto-apply-disabled", "mode-not-auto", "opportunity-excluded",
      "local-fixture-requires-synthetic-profile", "r4-not-auto-submittable",
      "high-stakes-assessment-incomplete", "high-stakes-requires-manual-review",
      "risk-signals-missing", "risk-signals-incomplete", "risk-signal-present",
      "rate-limit-exhausted", "cooldown-active", "tos-not-compliant",
      "claim-invalid", "packet-hash-mismatch", "document-hash-mismatch",
      "approval-required", "approver-not-trusted", "approval-signature-invalid",
      "approval-expired", "approval-scope-mismatch">>

\* validateApprovalReference: the reference is there, its key is trusted now, it
\* is signed, has not expired, and is bound to this opportunity's packet.
ApprovalFails(p, gate) ==
    CASE gate = "approval-required"       -> p.approval = NoApprovalRef
      [] gate = "approver-not-trusted"    -> p.approval.key \notin trustedApprovers
      [] gate = "approval-expired"        -> p.approval.expires <= autoDay
      [] gate = "approval-scope-mismatch" -> p.approval.opp # p.opp
      [] OTHER                            -> gate \in p.problems

\* validateApplicationPacket: the packet's claims and hash as they came, its
\* documents as they are on disk.
PacketFaults(p) ==
    (p.problems \cap {"claim-invalid", "packet-hash-mismatch"})
    \cup (IF p.opp \in edited THEN {"document-hash-mismatch"} ELSE {})

\* dailyUsage counts opportunities, not entries.
DailyUsage == Cardinality(submittedToday)

EffectiveMode(config, opp) ==
    IF config.override[opp] # "none" THEN config.override[opp] ELSE config.mode

GateFails(p, gate) ==
    CASE gate = "adapter-authority-denied" -> ~autoConfig.adapter \/ gate \in p.problems
      [] gate = "kill-switch-engaged"    -> autoConfig.killed
      [] gate = "auto-apply-disabled"    -> ~autoConfig.enabled
      [] gate = "mode-not-auto"          -> EffectiveMode(autoConfig, p.opp) # "auto"
      [] gate = "opportunity-excluded"   -> p.opp \in autoConfig.excluded
      [] gate = "rate-limit-exhausted"   -> DailyUsage >= autoConfig.limit
      [] gate = "cooldown-active"        -> autoConfig.cooldown > autoDay
      [] gate \in {"claim-invalid", "packet-hash-mismatch", "document-hash-mismatch"} ->
           gate \in PacketFaults(p)
      [] OTHER                           -> ApprovalFails(p, gate)

\* The first gate that fails; a later gate is not tried.
BlockedBy(p) ==
    LET Blocks(i) == GateFails(p, GateOrder[i]) /\ \A j \in 1..(i - 1) : ~GateFails(p, GateOrder[j])
    IN IF \E i \in DOMAIN GateOrder : Blocks(i)
       THEN GateOrder[CHOOSE i \in DOMAIN GateOrder : Blocks(i)] ELSE "none"

-----------------------------------------------------------------------------
\* The operations of the authority.

Logged(event) == Len(autoLog) < MaxAutoSteps /\ autoLog' = Append(autoLog, event)

\* The event that carries a configuration is the one that changes it.
SetConfig(kind, config) ==
    /\ Logged([kind |-> kind, config |-> config])
    /\ autoConfig' = config
    /\ UNCHANGED <<trustedApprovers, submittedToday, edited, autoDay, agentRun>>

\* engageKillSwitch.
Killed(config) == [config EXCEPT !.killed = TRUE, !.enabled = FALSE, !.mode = "manual"]

KillSwitch == SetConfig("kill", Killed(autoConfig))

\* Mutated form of Rearmed: the switch is released and nothing else is reset.
RearmedAsIs(config) == [config EXCEPT !.killed = FALSE, !.enabled = TRUE, !.mode = "auto"]

\* rearmAutoApplyAuthorized: released, and still disabled.
Rearmed(config) == [config EXCEPT !.killed = FALSE, !.enabled = FALSE, !.mode = "manual"]

Rearm == SetConfig("rearm", Rearmed(autoConfig))

\* enableAutoApply: refused while the switch is engaged.
Enable(mode) ==
    /\ ~autoConfig.killed
    /\ SetConfig("enable", [autoConfig EXCEPT !.enabled = TRUE, !.mode = mode])

\* legacy-import-apply: the configuration of the file becomes the current one,
\* whatever it is now; a file is imported once, its receipt names its digest.
ImportConfig(config) ==
    /\ \A i \in DOMAIN autoLog : autoLog[i] # [kind |-> "import", config |-> config]
    /\ SetConfig("import", config)

\* auto-apply-evaluate; a blocked decision is recorded too and changes nothing
\* here.
Evaluate(p) ==
    /\ BlockedBy(p) = "none"
    /\ Logged([kind |-> "allow", opp |-> p.opp, key |-> p.approval.key])
    /\ UNCHANGED <<autoConfig, trustedApprovers, submittedToday, edited, autoDay, agentRun>>

SetApproverKey(k) ==
    /\ Logged([kind |-> IF k \in trustedApprovers THEN "revoke" ELSE "register", key |-> k])
    /\ trustedApprovers' = IF k \in trustedApprovers THEN trustedApprovers \ {k} ELSE trustedApprovers \cup {k}
    /\ UNCHANGED <<autoConfig, submittedToday, edited, autoDay, agentRun>>

\* The tracker submits an opportunity, or its submission is imported: the ledger
\* entry is of the day.
SubmitToday(p) ==
    /\ p.opp \notin submittedToday
    /\ submittedToday' = submittedToday \cup {p.opp}
    /\ UNCHANGED <<autoConfig, autoLog, trustedApprovers, edited, autoDay, agentRun>>

EditDocument(p) ==
    /\ p.opp \notin edited /\ edited' = edited \cup {p.opp}
    /\ UNCHANGED <<autoConfig, autoLog, trustedApprovers, submittedToday, autoDay, agentRun>>

NextDay ==
    /\ autoDay < MaxDay /\ autoDay' = autoDay + 1
    /\ submittedToday' = {}
    /\ UNCHANGED <<autoConfig, autoLog, trustedApprovers, edited, agentRun>>

-----------------------------------------------------------------------------
\* advanceAgentRun.

AgentPhases == <<"observe", "normalize", "gate", "plan", "generate", "evaluate", "approve",
                 "execute", "verify", "learn">>

\* PHASE_ROLES.
PhaseRoles(phase) ==
    CASE phase = "observe"   -> {"scout"}
      [] phase = "normalize" -> {"scout", "evidence-auditor"}
      [] phase = "gate"      -> {"safety-governor"}
      [] phase = "plan"      -> {"fit-analyst", "portfolio-strategist"}
      [] phase = "generate"  -> {"document-architect", "network-strategist", "interview-coach",
                                 "offer-analyst"}
      [] phase = "evaluate"  -> {"evidence-auditor", "fit-analyst", "safety-governor"}
      [] phase = "execute"   -> {"application-operator"}
      [] phase = "verify"    -> {"evidence-auditor", "safety-governor"}
      [] phase = "learn"     -> {"outcome-scientist"}

\* The actor may take the phase: a human approves; a worker needs its role, its
\* registered manifest and the phase's capability.
MayAct(phase, actor) ==
    \/ phase = "approve" /\ actor \in Humans
    \/ /\ phase # "approve" /\ actor \in DOMAIN Workers
       /\ Workers[actor].role \in PhaseRoles(phase)
       /\ phase \in Workers[actor].scopes

\* Mutated form of RunActive: a blocked run may go on.
RunNotComplete(run) == run.status # "completed"

RunActive(run) == run.status = "active"

Advance(actor, outcome) ==
    /\ RunActive(agentRun) /\ Len(agentRun.records) < Len(AgentPhases)
    /\ LET phase == AgentPhases[Len(agentRun.records) + 1] IN
       /\ MayAct(phase, actor)
       /\ phase = "evaluate" => actor # agentRun.generator
       /\ agentRun' =
            [status    |-> IF outcome = "blocked" THEN "blocked"
                           ELSE IF phase = "learn" THEN "completed" ELSE "active",
             records   |-> Append(agentRun.records, [phase |-> phase, actor |-> actor, outcome |-> outcome]),
             generator |-> IF phase = "generate" THEN actor ELSE agentRun.generator]
    /\ UNCHANGED autoVars

-----------------------------------------------------------------------------

PolicyInit ==
    /\ autoConfig = DefaultConfig
    /\ autoLog = <<>> /\ trustedApprovers = {} /\ submittedToday = {} /\ edited = {} /\ autoDay = 0
    /\ agentRun = [status |-> "active", records |-> <<>>, generator |-> "none"]

AutoNext ==
    \/ KillSwitch \/ Rearm \/ NextDay
    \/ \E mode \in {"draft-only", "auto"} : Enable(mode)
    \/ \E config \in LegacyConfigs : ImportConfig(config)
    \/ \E p \in Packets : Evaluate(p) \/ SubmitToday(p) \/ EditDocument(p)
    \/ \E k \in ApproverKeys : SetApproverKey(k)

AgentRunNext ==
    \E actor \in DOMAIN Workers \cup Humans, outcome \in {"passed", "blocked"} :
        Advance(actor, outcome)

\* An agent run shares no state with the automation: one of them moves first.
PolicyNext ==
    \/ agentRun.records = <<>> /\ AutoNext
    \/ autoLog = <<>> /\ submittedToday = {} /\ edited = {} /\ AgentRunNext

PolicySpec == PolicyInit /\ [][PolicyNext]_policyVars

-----------------------------------------------------------------------------
\* Properties.

ConfigKinds == {"kill", "rearm", "enable", "import"}

\* The configuration lets this opportunity be applied to automatically.
AutomaticFor(config, opp) ==
    /\ config.enabled /\ ~config.killed /\ opp \notin config.excluded
    /\ EffectiveMode(config, opp) = "auto"

\* An allowed decision rests on an enabling, or on an imported configuration,
\* that no configuration event has followed; a kill before it was lifted by a
\* rearm or by an import; and its key was registered after it was last revoked.
\* Releasing the kill switch does not bring automation back, an import may
\* (auto-apply.ts:308-349, legacy-import.ts:146-167).
KillHolds ==
    \A i \in DOMAIN autoLog : autoLog[i].kind = "allow" =>
      /\ \E e \in 1..(i - 1) :
           /\ autoLog[e].kind \in {"enable", "import"}
           /\ AutomaticFor(autoLog[e].config, autoLog[i].opp)
           /\ \A j \in (e + 1)..(i - 1) : autoLog[j].kind \notin ConfigKinds
      /\ \A k \in 1..(i - 1) : autoLog[k].kind = "kill" =>
           \E l \in (k + 1)..(i - 1) : autoLog[l].kind \in {"rearm", "import"}
      /\ \E k \in 1..(i - 1) :
           /\ autoLog[k] = [kind |-> "register", key |-> autoLog[i].key]
           /\ \A j \in (k + 1)..(i - 1) : autoLog[j] # [kind |-> "revoke", key |-> autoLog[i].key]

\* Nothing is executed after a phase was blocked, without a human approval, or
\* on an evaluation by its own author (agent-controller.ts:140-188; README.md:99
\* "A generator cannot self-evaluate and only a human can approve").
ExecutionEarned ==
    \A i \in DOMAIN agentRun.records : agentRun.records[i].phase = "execute" =>
      LET Of(phase) == {r \in {agentRun.records[j] : j \in 1..(i - 1)} : r.phase = phase} IN
      /\ \A j \in 1..(i - 1) : agentRun.records[j].outcome = "passed"
      /\ \E a \in Of("approve") : a.actor \in Humans
      /\ \A g \in Of("generate"), v \in Of("evaluate") : g.actor # v.actor

\* No automation without its authority: a decision to apply and the execution
\* of a run each rest on everything that has to come before them.
AutomationEarned == KillHolds /\ ExecutionEarned
=============================================================================
