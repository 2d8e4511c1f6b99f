----------------------------- MODULE MCDecisions -----------------------------
(* The decisions about an application and what they stand on, one part per    *)
(* behaviour: the tracker of attempts, automation and agent runs, the         *)
(* assurance case, the campaign queue, the network plan, the rubric of an     *)
(* opportunity, the evidence of a posting, the credential passport.  The      *)
(* parts share no state; part says which one runs.                            *)
EXTENDS MCApplicationTracker, AutomationPolicy, AssuranceCase, CampaignQueue, NetworkPlan,
        OpportunityRubric, DiscoveryEvidence, CredentialPassport

VARIABLE part

\* Packets with the approval of their opportunity, and one with that of another.
ApprovalRef(key, opp, expires) == [key |-> key, opp |-> opp, expires |-> expires]
Packet(opp, problems, ref) == [opp |-> opp, problems |-> problems, approval |-> ref]

SomePackets ==
    {Packet("o1", {}, ApprovalRef("k1", "o1", 2)),
     Packet("o2", {}, ApprovalRef("k2", "o2", 1)),
     Packet("o2", {"risk-signal-present"}, ApprovalRef("k1", "o1", 2))}

\* A file that enables automation for one opportunity, against its own mode,
\* excludes the other, allows more a day and pauses for one.
SomeLegacyConfigs ==
    {[DefaultConfig EXCEPT !.enabled = TRUE, !.mode = "draft-only", !.excluded = {"o2"},
                           !.override = [o \in Opps |-> IF o = "o1" THEN "auto" ELSE "none"],
                           !.limit = 2, !.cooldown = 1]}

\* The workers of DEFAULT_WORKER_MANIFESTS, by initials.
WorkerOf(role, scopes) == [role |-> role, scopes |-> scopes]

DefaultWorkers ==
    [sc |-> WorkerOf("scout", {"observe", "normalize"}),
     sg |-> WorkerOf("safety-governor", {"gate", "evaluate", "verify"}),
     fa |-> WorkerOf("fit-analyst", {"plan", "evaluate"}),
     da |-> WorkerOf("document-architect", {"generate"}),
     ao |-> WorkerOf("application-operator", {"execute"}),
     os |-> WorkerOf("outcome-scientist", {"learn"}),
     ea |-> WorkerOf("evidence-auditor", {"verify"})]

\* People with the components they work through, two of them sharing one.
Agent(principal, component) == [principal |-> principal, component |-> component]

SomeAgents == {Agent("gen", "writer"), Agent("ana", "review"), Agent("bo", "writer")}

\* Cases over evidence versions; two drafts share a content and differ in
\* generator and creation, and the other content goes stale a day before.
Content(evidence, freshUntil, highStakes, soft, outcome) ==
    [evidence |-> evidence, policy |-> 0, observedAt |-> 0, freshUntil |-> freshUntil,
     recommendation |-> "proceed", highStakes |-> highStakes, hard |-> "none",
     soft |-> soft, material |-> "none", outcome |-> outcome]

Staked == Content(0, 2, TRUE, "unresolved", "allow")

DraftBy(agent, createdAt, content) ==
    [caseId |-> "case", createdAt |-> createdAt, generator |-> agent, content |-> content]

SomeDrafts ==
    {DraftBy(Agent("gen", "writer"), 0, Staked), DraftBy(Agent("ana", "review"), 1, Staked),
     DraftBy(Agent("gen", "writer"), 0, Content(1, 1, FALSE, "none", "manual-review"))}

\* An approval in a file that its signer never saw.
OnePasted ==
    {[by |-> "bo", scope |-> Staked, at |-> 0, until |-> 1, acknowledges |-> TRUE]}

\* Offers outside the campaign, gated, unscored, below the minimum, and
\* eligible ones of two scores, ranks and routes; one route has a quota.
Offered(member, gated, score, rank, route) ==
    [member |-> member, gated |-> gated, score |-> score, rank |-> rank, route |-> route]

SomeOffers ==
    {Offered(FALSE, FALSE, 9, 3, "a"), Offered(TRUE, TRUE, 9, 3, "a"),
     Offered(TRUE, FALSE, NoScore, 3, "a"), Offered(TRUE, FALSE, 4, 3, "a")}
    \cup {Offered(TRUE, FALSE, score, rank, route) :
              score \in {5, 9}, rank \in {1, 3}, route \in {"a", "b"}}

OneQuota == [a |-> 1, b |-> NoQuota]

\* Wishes to write to one contact, over a channel without permission, and to
\* somebody who is not a contact.
SomeWishes ==
    [contact : {"k1"}, channel : {"email"}, at : 0 .. 4]
    \cup {[contact |-> "k1", channel |-> "phone", at |-> 2],
          [contact |-> "k9", channel |-> "email", at |-> 2]}

EmailOnly == [k1 |-> {"email"}]

TwoCaps == [D01 |-> 49, D17 |-> 39]

\* Evidence: an answer, a definite absence, an outage; mandatory fields that
\* are known, unknown and unresolved.
Field(state, known) == [state |-> state, known |-> known, evidence |-> 1, at |-> 0]

SomeFetched == {"2xx", "404", "timeout"}
SomeMandatory == {Field("observed", TRUE), Field("observed", FALSE), Field("unresolved", FALSE)}
SomeOptional == {Field("unresolved", FALSE), Field("consistent", TRUE)}
SomeDecided == {{"distinct"}, {"distinct", "review"}}

\* Passport: a signed badge, a restricted credential without status service,
\* and one whose proof type is prohibited.
Badge ==
    [id |-> "badge", content |-> "c1", hint |-> "none", container |-> "baked-png",
     holds |-> "compact-jws", faults |-> {}, issuer |-> "uni", subject |-> "user", keyOf |-> "uni",
     key |-> "https", genuine |-> TRUE, from |-> 1, until |-> 2, status |-> TRUE, refresh |-> TRUE,
     restricted |-> FALSE]

SomeOriginals ==
    {Badge,
     [Badge EXCEPT !.id = "plain", !.hint = "json-ld", !.container = "text", !.holds = "json-ld",
                   !.key = "did", !.content = "c2", !.restricted = TRUE, !.status = FALSE,
                   !.refresh = FALSE, !.until = 0],
     [Badge EXCEPT !.id = "proofs", !.container = "text", !.holds = "json-ld",
                   !.faults = {"credential-proof-type-prohibited"}, !.content = "c2"]}

\* Bounds: of the passport, imports, mappings, edits and changes of the services
\* together; of the automation, submissions of a day and edited documents
\* together; of a case, edits of its file and changes of the world together.
FewChanges ==
    /\ credOps + world.steps <= 3
    /\ Cardinality(submittedToday) + Cardinality(edited) <= 1
    /\ edits + current.evidence + current.policy <= 1

decisionsVars ==
    <<part, vars, policyVars, assuranceVars, queueVars, networkVars, rubricVars, evidenceVars,
      credVars>>

DecisionsInit ==
    /\ part \in {"tracker", "automation", "assurance", "queue", "network", "rubric", "evidence",
                "passport"}
    /\ Init /\ PolicyInit /\ AssuranceInit /\ QueueInit /\ NetworkInit /\ RubricInit
    /\ EvidenceInit /\ CredInit

DecisionsNext ==
    \/ part = "tracker" /\ Next
       /\ UNCHANGED <<part, policyVars, assuranceVars, queueVars, networkVars, rubricVars,
                      evidenceVars, credVars>>
    \/ part = "automation" /\ PolicyNext
       /\ UNCHANGED <<part, vars, assuranceVars, queueVars, networkVars, rubricVars,
                      evidenceVars, credVars>>
    \/ part = "assurance" /\ AssuranceNext
       /\ UNCHANGED <<part, vars, policyVars, queueVars, networkVars, rubricVars, evidenceVars,
                      credVars>>
    \/ part = "queue" /\ QueueNext
       /\ UNCHANGED <<part, vars, policyVars, assuranceVars, networkVars, rubricVars,
                      evidenceVars, credVars>>
    \/ part = "network" /\ NetworkNext
       /\ UNCHANGED <<part, vars, policyVars, assuranceVars, queueVars, rubricVars,
                      evidenceVars, credVars>>
    \/ part = "rubric" /\ RubricNext
       /\ UNCHANGED <<part, vars, policyVars, assuranceVars, queueVars, networkVars,
                      evidenceVars, credVars>>
    \/ part = "evidence" /\ EvidenceNext
       /\ UNCHANGED <<part, vars, policyVars, assuranceVars, queueVars, networkVars,
                      rubricVars, credVars>>
    \/ part = "passport" /\ CredNext
       /\ UNCHANGED <<part, vars, policyVars, assuranceVars, queueVars, networkVars,
                      rubricVars, evidenceVars>>

DecisionsSpec == DecisionsInit /\ [][DecisionsNext]_decisionsVars
=============================================================================
