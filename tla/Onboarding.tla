------------------------------ MODULE Onboarding ------------------------------
(***************************************************************************)
(* The onboarding session (src/src/onboarding.ts), the authority handlers  *)
(* that change it (src/src/daemon/authority.ts), profile import plans      *)
(* (src/src/import/profile-import.ts) and the client that drives all of    *)
(* them, "vocation init" (src/src/product-init.ts).                        *)
(*                                                                         *)
(* The session is stored whole, as its fields and as the events they are   *)
(* projected from, and every load projects the events again.  Several init *)
(* clients may run; they share request ids derived from the session, so    *)
(* one's step is another's replay.  An SDK client interrupts the session   *)
(* and completes steps, answers get lost, and the clock may be set back.   *)
(***************************************************************************)
EXTENDS Naturals, Sequences, FiniteSets

CONSTANTS
    InitClients,  \* runs of vocation init
    ModesOf,      \* the modes each of them may be started with
    Files,        \* the profiles it may be given
    Parsable,     \* the profiles the parser accepts
    NoSession, NoPlan,
    MaxObFaults,  \* bound: interruptions, lost answers and clock changes
    MaxNow,       \* bound: the clock
    MaxRetries    \* MAX_ONBOARDING_CONFLICT_RETRIES

ASSUME OnboardingAssumption ==
    /\ ModesOf \in [InitClients -> SUBSET {"demo", "profile", "resume"}]
    /\ Parsable \subseteq Files /\ NoPlan \notin Files
    /\ MaxObFaults \in Nat /\ MaxNow \in Nat /\ MaxRetries \in Nat

VARIABLES
    session,      \* the stored onboarding session
    plans,        \* profile import plans in the event history
    profiles,     \* plans whose profile was written
    demoProfile,  \* the synthetic profile record exists
    opportunity,  \* an opportunity record exists
    imported,     \* the file the session's artifact-import request is bound to
    init,         \* state of each init client
    now,          \* the wall clock
    obFaults      \* interruptions, lost answers and clock changes so far

obVars == <<session, plans, profiles, demoProfile, opportunity, imported, init, now, obFaults>>

records == <<plans, profiles, demoProfile, opportunity, imported>>

-----------------------------------------------------------------------------
\* The state machine of onboarding.ts.

StepOrder == <<"runtime", "privacy", "profile-import", "claim-review", "career-goals",
               "source-packs", "model-egress", "first-discovery", "complete">>

ObSteps == {StepOrder[i] : i \in DOMAIN StepOrder}

Position(step) == CHOOSE i \in DOMAIN StepOrder : StepOrder[i] = step

\* getNextOnboardingStep over ALLOWED_ONBOARDING_STEP_TRANSITIONS.
NextStep(step) == StepOrder[Position(step) + 1]

\* ALLOWED_ONBOARDING_STATUS_TRANSITIONS.
StatusAllowed(from, to) ==
    \/ from = "active" /\ to \in {"active", "failed", "cancelled", "complete"}
    \/ from \in {"failed", "cancelled"} /\ to = "active"

\* What a session is, and its events.
ObEvents ==
    [kind : {"step-completed", "resumed", "failed", "cancelled"}, step : ObSteps, at : Nat,
     plan : Files \cup {NoPlan},
     id : [by : {"init", "sdk", "resume", "failed", "cancelled"}, step : ObSteps, expected : Nat]]

Sessions ==
    [mode : {"demo", "profile"}, version : Nat,
     status : {"active", "failed", "cancelled", "complete"}, step : ObSteps,
     plan : Files \cup {NoPlan}, created : Nat, at : Nat, events : Seq(ObEvents)]

ASSUME NoSessionAssumption == NoSession \notin Sessions

\* createOnboardingSession.
NewSession(mode) ==
    [mode |-> mode, version |-> 0, status |-> "active", step |-> "runtime",
     plan |-> NoPlan, created |-> now, at |-> now, events |-> <<>>]

StatusAfter(event) ==
    CASE event.kind = "step-completed" ->
           IF NextStep(event.step) = "complete" THEN "complete" ELSE "active"
      [] event.kind = "resumed" -> "active"
      [] OTHER -> event.kind

StepAfter(event) == IF event.kind = "step-completed" THEN NextStep(event.step) ELSE event.step

\* appendEvent.
Appended(s, event) ==
    [s EXCEPT !.version = @ + 1, !.status = StatusAfter(event), !.step = StepAfter(event),
              !.plan = IF event.kind = "step-completed" /\ event.step = "profile-import"
                       THEN event.plan ELSE @,
              !.at = event.at, !.events = Append(@, event)]

\* assertProfilePlanBinding.
PlanBound(mode, step, plan) == (plan # NoPlan) <=> (step = "profile-import" /\ mode = "profile")

\* Mutated form: the time of a command is not compared with the session's.
AcceptsAnyTime(s, event, expected) ==
    /\ s.status # "complete"
    /\ s.version = expected
    /\ IF event.kind = "resumed" THEN s.status \in {"failed", "cancelled"} ELSE s.status = "active"
    /\ s.step = event.step
    /\ event.kind = "step-completed" => PlanBound(s.mode, event.step, event.plan)
    /\ StatusAllowed(s.status, StatusAfter(event))

\* completeOnboardingStep, interruptOnboarding and resumeOnboarding accept an
\* event: not terminal, of the expected version, in the right status, for the
\* current step, not before the last one, and with the plan its step takes.
Accepts(s, event, expected) ==
    /\ s.status # "complete"
    /\ s.version = expected
    /\ IF event.kind = "resumed" THEN s.status \in {"failed", "cancelled"} ELSE s.status = "active"
    /\ s.step = event.step
    /\ event.at >= s.at
    /\ event.kind = "step-completed" => PlanBound(s.mode, event.step, event.plan)
    /\ StatusAllowed(s.status, StatusAfter(event))

\* projectEvents: where the events before the i-th leave the session.
Before(s, i) ==
    IF i = 1 THEN [status |-> "active", step |-> "runtime", at |-> s.created]
    ELSE LET e == s.events[i - 1]
         IN [status |-> StatusAfter(e), step |-> StepAfter(e), at |-> e.at]

\* What it demands of the i-th event.
Follows(s, i) ==
    LET e == s.events[i]
        b == Before(s, i)
    IN /\ e.at >= b.at
       /\ e.step = b.step
       /\ \A j \in 1 .. i - 1 : s.events[j].id # e.id
       /\ e.kind = "step-completed" => PlanBound(s.mode, e.step, e.plan)
       /\ StatusAllowed(b.status, StatusAfter(e))
       /\ (e.kind = "resumed") <=> (b.status # "active")

\* The plan it reads from the events, that of the last profile import.
ProfileImports(s) ==
    {i \in DOMAIN s.events : s.events[i].kind = "step-completed" /\ s.events[i].step = "profile-import"}

PlanOf(s) ==
    IF ProfileImports(s) = {} THEN NoPlan
    ELSE s.events[CHOOSE i \in ProfileImports(s) : \A j \in ProfileImports(s) : j <= i].plan

\* validateProjection: the session loadOnboardingSession returns.
Loads(s) ==
    LET end == Before(s, Len(s.events) + 1)
    IN /\ \A i \in DOMAIN s.events : Follows(s, i)
       /\ s.version = Len(s.events) /\ s.plan = PlanOf(s)
       /\ s.status = end.status /\ s.step = end.step /\ s.at = end.at

-----------------------------------------------------------------------------
\* The authority's handlers.

\* Mutated form: claim review does not look for the applied profile.
PrerequisitesWithoutApply(s, step, plan) ==
    CASE step = "profile-import" -> IF s.mode = "profile" THEN plan \in plans ELSE demoProfile
      [] step = "claim-review" -> IF s.mode = "profile" THEN s.plan \in plans ELSE demoProfile
      [] step = "first-discovery" -> opportunity
      [] OTHER -> TRUE

\* assertOnboardingStepPrerequisites.
Prerequisites(s, step, plan) ==
    CASE step = "profile-import" -> IF s.mode = "profile" THEN plan \in plans ELSE demoProfile
      [] step = "claim-review" ->
           IF s.mode = "profile" THEN s.plan \in plans /\ s.plan \in profiles ELSE demoProfile
      [] step = "first-discovery" -> opportunity
      [] OTHER -> TRUE

\* The request id of a step is derived from the session: a step completed
\* under it replays if the parameters are the same, and is refused if not.
RequestId(by, s) == [by |-> by, step |-> s.step, expected |-> s.version]

\* The id was used before with other parameters.
Reused(id) ==
    id.by = "init" /\ \E i \in DOMAIN session.events :
        session.events[i].id.by = "init" /\ session.events[i].id.step = id.step

\* onboarding-complete-step, onboarding-fail, -cancel and -resume through
\* execute: accepted, replayed or refused.
Request(event, expected) ==
    IF \E i \in DOMAIN session.events : session.events[i].id = event.id
    THEN UNCHANGED session
    ELSE /\ ~Reused(event.id)
         /\ event.kind = "step-completed" => Prerequisites(session, event.step, event.plan)
         /\ Accepts(session, event, expected)
         /\ session' = Appended(session, event)

Refused(event, expected) ==
    /\ \A i \in DOMAIN session.events : session.events[i].id # event.id
    /\ \/ Reused(event.id)
       \/ event.kind = "step-completed" /\ ~Prerequisites(session, event.step, event.plan)
       \/ ~Accepts(session, event, expected)

-----------------------------------------------------------------------------
\* vocation init.

ObFault == obFaults < MaxObFaults /\ obFaults' = obFaults + 1

Fresh == [pc |-> "idle", mode |-> "none", file |-> NoPlan, mine |-> NoSession, retries |-> 0]

ObInit ==
    /\ session = NoSession
    /\ plans = {} /\ profiles = {} /\ demoProfile = FALSE /\ opportunity = FALSE
    /\ imported = NoPlan
    /\ init = [c \in InitClients |-> Fresh]
    /\ now = 0
    /\ obFaults = 0

Go(c, pc) == init' = [init EXCEPT ![c].pc = pc]

\* What runProductInitialization does next with the session it holds.  In
\* profile mode it ends with the plan bound to the session; the demo writes
\* its profile and its opportunity before the steps that need them.
NextPc(c, s) ==
    CASE s.status = "complete" \/ init[c].mode = "resume" -> "done"
      [] init[c].mode = "profile" /\ Position(s.step) > Position("profile-import") -> "done"
      [] init[c].mode = "profile" /\ s.step = "profile-import" -> "import"
      [] init[c].mode = "demo" /\ s.step \in {"profile-import", "first-discovery"} -> "put"
      [] OTHER -> "complete"

\* The client continues with the session it just received.
Holds(c, s, pc) ==
    init' = [init EXCEPT ![c].pc = pc,
               ![c].mine = [mode |-> s.mode, version |-> s.version, status |-> s.status, step |-> s.step]]

\* The operator starts init, again after it failed.
RunInit(c) ==
    /\ init[c].pc \in {"idle", "failed"}
    /\ \E mode \in ModesOf[c] : \E file \in IF mode = "profile" THEN Files ELSE {NoPlan} :
          init' = [init EXCEPT ![c] = [Fresh EXCEPT !.pc = "status", !.mode = mode, !.file = file]]
    /\ UNCHANGED <<session, records, now, obFaults>>

\* Mutated form: an interrupted session is not resumed.
ReadStatusNoResume(c) ==
    /\ init[c].pc = "status"
    /\ CASE session = NoSession ->
              Go(c, IF init[c].mode = "resume" THEN "failed" ELSE "start")
         [] OTHER ->
              IF init[c].mode # "resume" /\ session.mode # init[c].mode THEN Go(c, "failed")
              ELSE Holds(c, session, NextPc(c, session))
    /\ UNCHANGED <<session, records, now, obFaults>>

\* onboarding-status, and what follows from it: start, mode locked, resume or
\* the first step.
ReadStatus(c) ==
    /\ init[c].pc = "status"
    /\ CASE session = NoSession ->
              Go(c, IF init[c].mode = "resume" THEN "failed" ELSE "start")
         [] OTHER ->
              IF init[c].mode # "resume" /\ session.mode # init[c].mode THEN Go(c, "failed")
              ELSE Holds(c, session, IF session.status \in {"failed", "cancelled"}
                                     THEN "resume" ELSE NextPc(c, session))
    /\ UNCHANGED <<session, records, now, obFaults>>

\* onboarding-start: an existing session of the mode is returned.
StartSession(c) ==
    /\ init[c].pc = "start"
    /\ IF session = NoSession
       THEN session' = NewSession(init[c].mode) /\ Go(c, "status")
       ELSE Go(c, IF session.mode = init[c].mode THEN "status" ELSE "failed") /\ UNCHANGED session
    /\ UNCHANGED <<records, now, obFaults>>

\* resumeIfInterrupted: on an error the session is read again, and it is
\* enough that it changed.
ResumeSession(c) ==
    LET event == [kind |-> "resumed", step |-> init[c].mine.step, at |-> now, plan |-> NoPlan,
                  id |-> RequestId("resume", init[c].mine)]
    IN /\ init[c].pc = "resume"
       /\ \/ /\ Request(event, init[c].mine.version)
             /\ Go(c, "reload")
          \/ /\ Refused(event, init[c].mine.version)
             /\ Go(c, IF session.version # init[c].mine.version THEN "reload" ELSE "failed")
             /\ UNCHANGED session
       /\ UNCHANGED <<records, now, obFaults>>

\* The session is read back after a request.  A completion that failed and
\* found the session interrupted again after resuming it gives up.
Reload(c) ==
    /\ init[c].pc = "reload"
    /\ IF init[c].retries > 0 /\ session.step = init[c].mine.step /\ session.status # "active"
       THEN Go(c, "failed")
       ELSE Holds(c, session, NextPc(c, session))
    /\ UNCHANGED <<session, records, now, obFaults>>

\* putDemoProfile and putDemoOpportunity, idempotent by their request ids.
PutDemo(c) ==
    /\ init[c].pc = "put"
    /\ IF init[c].mine.step = "profile-import"
       THEN demoProfile' = TRUE /\ UNCHANGED opportunity
       ELSE opportunity' = TRUE /\ UNCHANGED demoProfile
    /\ Go(c, "complete")
    /\ UNCHANGED <<session, plans, profiles, imported, now, obFaults>>

\* artifact-import and profile-import-plan under ids derived from the session:
\* the first file imported is the only one these ids accept.
ImportProfile(c) ==
    /\ init[c].pc = "import"
    /\ IF imported \in {NoPlan, init[c].file}
       THEN /\ imported' = init[c].file
            /\ IF init[c].file \in Parsable
               THEN plans' = plans \cup {init[c].file} /\ Go(c, "complete")
               ELSE Go(c, "failed") /\ UNCHANGED plans
       ELSE Go(c, "failed") /\ UNCHANGED <<plans, imported>>
    /\ UNCHANGED <<session, profiles, demoProfile, opportunity, now, obFaults>>

\* The completion request of the step the client holds.
CompletionOf(c) ==
    LET s == init[c].mine
    IN [kind |-> "step-completed", step |-> s.step, at |-> now,
        plan |-> IF s.step = "profile-import" /\ s.mode = "profile" THEN init[c].file ELSE NoPlan,
        id |-> RequestId("init", s)]

CompleteStep(c) ==
    /\ init[c].pc = "complete"
    /\ \/ /\ Request(CompletionOf(c), init[c].mine.version)
          /\ init' = [init EXCEPT ![c].pc = "reload", ![c].retries = 0]
       \/ /\ Refused(CompletionOf(c), init[c].mine.version)
          /\ Go(c, "recover")
          /\ UNCHANGED session
    /\ UNCHANGED <<records, now, obFaults>>

\* The catch of completeStep: moved on, resume and try again, or give up.
Recover(c) ==
    /\ init[c].pc = "recover"
    /\ LET s == init[c].mine
       IN CASE session.step # s.step -> Holds(c, session, NextPc(c, session))
            [] session.step = s.step /\ session.version > s.version /\ init[c].retries < MaxRetries ->
                 init' = [init EXCEPT ![c].mine = [s EXCEPT !.version = session.version,
                                                            !.status = session.status],
                            ![c].retries = init[c].retries + 1,
                            ![c].pc = IF session.status = "active" THEN "complete" ELSE "resume"]
            [] OTHER -> Go(c, "failed")
    /\ UNCHANGED <<session, records, now, obFaults>>

\* The answer of a completion is lost, whether or not it was committed.
LoseAnswer(c) ==
    /\ init[c].pc = "complete"
    /\ ObFault
    /\ Request(CompletionOf(c), init[c].mine.version) \/ UNCHANGED session
    /\ Go(c, "recover")
    /\ UNCHANGED <<records, now>>

-----------------------------------------------------------------------------
\* The other users of the session.

\* onboarding-fail and onboarding-cancel.
Interrupt(kind) ==
    /\ session # NoSession
    /\ ObFault
    /\ Request([kind |-> kind, step |-> session.step, at |-> now, plan |-> NoPlan,
                id |-> RequestId(kind, session)], session.version)
    /\ UNCHANGED <<records, init, now>>

\* profile-import-apply: the approved plan's profile is written.
ApplyPlan(p) ==
    /\ p \in plans
    /\ profiles' = profiles \cup {p}
    /\ UNCHANGED <<session, plans, demoProfile, opportunity, imported, init, now, obFaults>>

\* A client completes a step after profile import, with an id of its own.
SdkComplete ==
    /\ session # NoSession /\ session.mode = "profile"
    /\ Position(session.step) > Position("profile-import") /\ session.step # "complete"
    /\ Request([kind |-> "step-completed", step |-> session.step, at |-> now, plan |-> NoPlan,
                id |-> RequestId("sdk", session)], session.version)
    /\ UNCHANGED <<records, init, now, obFaults>>

\* domain-put of an opportunity, which a profile session needs at its end.
PutOpportunity ==
    /\ session # NoSession /\ session.step = "first-discovery" /\ session.mode = "profile"
    /\ ~opportunity
    /\ opportunity' = TRUE
    /\ UNCHANGED <<session, plans, profiles, demoProfile, imported, init, now, obFaults>>

Tick ==
    /\ now < MaxNow
    /\ now' = now + 1
    /\ UNCHANGED <<session, records, init, obFaults>>

SetClockBack ==
    /\ ObFault
    /\ \E t \in 0 .. MaxNow : t < now /\ now' = t
    /\ UNCHANGED <<session, records, init>>

Client(c) ==
    \/ ReadStatus(c) \/ StartSession(c) \/ ResumeSession(c) \/ Reload(c)
    \/ PutDemo(c) \/ ImportProfile(c) \/ CompleteStep(c) \/ Recover(c)

ObNext ==
    \/ \E c \in InitClients : RunInit(c) \/ Client(c) \/ LoseAnswer(c)
    \/ \E kind \in {"failed", "cancelled"} : Interrupt(kind)
    \/ \E p \in Files : ApplyPlan(p)
    \/ SdkComplete \/ PutOpportunity \/ Tick \/ SetClockBack

\* A client that waits for an answer gets one, the operator runs init again
\* after it failed, and the clock goes on.
ObFair ==
    /\ \A c \in InitClients : WF_obVars(Client(c)) /\ WF_obVars(RunInit(c))
    /\ WF_obVars(Tick)

ObSpec == ObInit /\ [][ObNext]_obVars /\ ObFair

-----------------------------------------------------------------------------
\* Properties.

\* The stored session always loads: its fields are what its events project
\* to, whatever the clients, the interruptions and the clock do.  A session
\* that did not would be refused by every later operation.
SessionLoads == session # NoSession => Loads(session)

\* Claim review is behind the session only with the plan of the one file the
\* session imported, in the history and applied to a profile.
ReviewedIsApplied ==
    session # NoSession /\ session.mode = "profile"
    /\ Position(session.step) > Position("claim-review")
    => session.plan = imported /\ session.plan \in plans \cap profiles

\* The stored session can always be loaded and never claims a review of
\* claims that were not imported, over interruptions and a second client.
SessionSound == SessionLoads /\ ReviewedIsApplied

\* A demo session is completed: interruptions, lost answers, other clients
\* and a clock set back delay init and never leave it unable to go on.
DemoCompletes ==
    (session # NoSession /\ session.mode = "demo") ~> (session # NoSession /\ session.status = "complete")

=============================================================================
