---------------------------- MODULE DiscoveryRun ----------------------------
(***************************************************************************)
(* One discovery provider: signed network access grants, the persistent    *)
(* rate gate that charges them, the governed fetch broker that follows     *)
(* redirects under them, and the discovery-run request of the authority    *)
(* that records what was seen.                                             *)
(*                                                                         *)
(* The authority's queue runs one request at a time, so there is one `run'.*)
(* A timeout abandons an attempt but cannot stop the charge it has queued  *)
(* at the gate: `gate' is the gate's promise chain and may hold charges of *)
(* runs that are over.  Charge and records are appended to one event store *)
(* through different coordinators, so that an append can find the head it  *)
(* has read moved on (`fresh' is FALSE) and throw.  Grants, charges and    *)
(* records of different providers do not touch each other.                 *)
(***************************************************************************)
EXTENDS Naturals, Sequences, FiniteSets

CONSTANTS
    Requests,       \* ids of discovery-run requests
    Payloads,       \* their parameters: url, grant and operatorScopedTarget
    Grants,         \* grant ids; an id is bound to one envelope
    Urls, Hosts,
    HostOf,         \* the host of a URL
    Below,          \* the URLs under a URL's path on its host
    ProviderUrls,   \* the URLs inside the provider's own egress manifest
    Approvers,
    IssuerOf, GrantHosts, GrantFrom, GrantUntil, Budget,   \* what the envelopes say
    Provider,       \* the provider's own manifest; a scoped one is its URL
    AllowCrossHost, MaxRedirects,                \* redirectPolicy
    MaxRequests, Window,                         \* ratePolicy
    MaxTime, MaxRuns, MaxCrashes

ASSUME DiscoveryAssumption ==
    /\ HostOf \in [Urls -> Hosts]
    /\ Below \in [Urls -> SUBSET Urls]
    /\ \A u \in Urls : u \in Below[u] /\ \A v \in Below[u] : HostOf[v] = HostOf[u]
    /\ Payloads \subseteq [url : Urls, grant : Grants, scoped : BOOLEAN]
    /\ ProviderUrls \subseteq Urls
    /\ IssuerOf \in [Grants -> Approvers]
    /\ GrantHosts \in [Grants -> SUBSET Hosts]
    /\ GrantFrom \in [Grants -> Nat]
    /\ GrantUntil \in [Grants -> Nat]
    /\ Budget \in [Grants -> Nat]
    /\ Provider \notin Urls
    /\ AllowCrossHost \in BOOLEAN
    /\ {MaxRedirects, MaxRequests, Window, MaxTime, MaxRuns, MaxCrashes} \subseteq Nat

VARIABLES
    clock,      \* Date.now(), which may be set
    approvers,  \* registered approvers, the trusted issuers of grants
    grants,     \* stored envelopes
    paid,       \* stored consumptions
    records,    \* stored decisions, opportunities and commands
    gate,       \* charges waiting in, or at the head of, the coordinator
    run,        \* the discovery-run request being executed, or Idle
    runs, crashes

vars == <<clock, approvers, grants, paid, records, gate, run, runs, crashes>>
store == <<approvers, grants, paid, records>>
counters == <<runs, crashes>>

Idle == [step |-> "idle"]
Times == 0 .. MaxTime
Manifests == Urls \cup {Provider}
\* "uncertain" also stands for not-found, gone and parse-error, which are
\* treated alike: no posting is recorded.
Availability == {"available", "access-denied", "rate-limited", "transport-error", "uncertain"}

Charges ==
    [req : Requests, attempt : 0 .. MaxRedirects, grant : Grants,
     manifest : Manifests, at : Times]
GateEntries ==
    [req : Requests, attempt : 0 .. MaxRedirects, grant : Grants,
     manifest : Manifests, at : Times,
     phase : {"queued", "checked", "append"}, fresh : BOOLEAN, live : BOOLEAN]
Records ==
    [req : Requests,
     label : {"observation", "liveness", "posting", "opportunity", "dedupe", "command"},
     value : [url : Urls, avail : Availability, now : Times]]
RunStates ==
    [step : {"verify", "consume", "gate", "resolve", "wait", "persist", "append"},
     req : Requests, url : Urls, at : Urls, visited : SUBSET Urls,
     grant : Grants, manifest : Manifests, now : Times, attempt : 0 .. MaxRedirects,
     avail : Availability, done : 0 .. 5, fresh : BOOLEAN]

-----------------------------------------------------------------------------
(* governance.ts *)

ManifestHosts(m) ==
    IF m = Provider THEN {HostOf[u] : u \in ProviderUrls} ELSE {HostOf[m]}

ManifestUrls(m) == IF m = Provider THEN ProviderUrls ELSE Below[m]

\* validateNetworkAccessGrant
GrantValid(g, m, t) ==
    /\ GrantHosts[g] \subseteq ManifestHosts(m)
    /\ GrantFrom[g] <= t
    /\ t < GrantUntil[g]

\* validateUrlAuthorization
UrlAuthorized(u, m, g) == u \in ManifestUrls(m) /\ HostOf[u] \in GrantHosts[g]

\* verifySignedNetworkAccessGrant, with the registry of trusted approvers
Verified(g, m, t) == IssuerOf[g] \in approvers /\ GrantValid(g, m, t)

\* A charge, as the gate identifies it: request, attempt and grant digest.
SameCharge(c, d) == c.req = d.req /\ c.attempt = d.attempt /\ c.grant = d.grant

Charge(c) ==
    [req |-> c.req, attempt |-> c.attempt, grant |-> c.grant,
     manifest |-> c.manifest, at |-> c.at]

-----------------------------------------------------------------------------
(* The registry and the grants; requests of their own in the queue. *)

\* An append by anyone makes a head that was read before it stale.
Overtaken(q) == [i \in DOMAIN q |-> [q[i] EXCEPT !.fresh = FALSE]]

\* An approver is registered or revoked.
SetApprover(a) ==
    /\ run = Idle
    /\ approvers' = IF a \in approvers THEN approvers \ {a} ELSE approvers \cup {a}
    /\ gate' = Overtaken(gate)
    /\ UNCHANGED <<clock, grants, paid, records, run, counters>>

\* The save takes its place in the chain, behind the charges that are in it.
RegisterGrant(g) ==
    /\ run = Idle
    /\ gate = <<>>
    /\ g \notin grants
    /\ \E m \in Manifests : Verified(g, m, clock)
    /\ grants' = grants \cup {g}
    /\ UNCHANGED <<clock, approvers, paid, records, gate, run, counters>>

-----------------------------------------------------------------------------
(* discovery-run, up to the first attempt. *)

Answered(r) == \E rec \in records : rec.req = r /\ rec.label = "command"

\* provider.egress or buildOperatorScopedEgressManifest
ManifestFor(p) == IF p.scoped THEN p.url ELSE Provider

BeginRun(r, p) ==
    LET m == ManifestFor(p) IN
    /\ run = Idle
    /\ runs < MaxRuns
    /\ ~Answered(r)
    /\ p.grant \in grants
    /\ Verified(p.grant, m, clock)
    /\ run' = [step |-> "verify", req |-> r, url |-> p.url, at |-> p.url,
               visited |-> {p.url}, grant |-> p.grant, manifest |-> m, now |-> clock, attempt |-> 0,
               avail |-> "uncertain", done |-> 0, fresh |-> FALSE]
    /\ runs' = runs + 1
    /\ UNCHANGED <<clock, store, gate, crashes>>

\* The broker gives up: what is left is to record the observation.
Conclude(avail) == run' = [run EXCEPT !.step = "persist", !.avail = avail]

\* verifyGrant and assertUrlAuthorized
VerifyGrant ==
    /\ run.step = "verify"
    /\ IF Verified(run.grant, run.manifest, clock)
          /\ UrlAuthorized(run.at, run.manifest, run.grant)
       THEN run' = [run EXCEPT !.step = "consume"]
       ELSE Conclude("access-denied")
    /\ UNCHANGED <<clock, store, gate, counters>>

\* executeAttempt calls the gate; the bound gate numbers the attempts.
Consume ==
    /\ run.step = "consume"
    /\ gate' = Append(gate,
         [req |-> run.req, attempt |-> run.attempt, grant |-> run.grant,
          manifest |-> run.manifest, at |-> clock,
          phase |-> "queued", fresh |-> FALSE, live |-> TRUE])
    /\ run' = [run EXCEPT !.step = "gate"]
    /\ UNCHANGED <<clock, store, counters>>

-----------------------------------------------------------------------------
(* PersistentGovernedRateGate.consumeSerialized *)

\* Mutated form of Turn: the gate does not serialise its charges.
TurnUnserialised(i) == TRUE

\* MutationCoordinator: a charge starts when the ones before it are settled.
Turn(i) == i = 1

\* What consumptions() demands of the stored charges each time it reads them.
Readable ==
    /\ \A c \in paid : c.grant \in grants /\ GrantValid(c.grant, c.manifest, c.at)
    /\ \A c, d \in paid : SameCharge(c, d) => c = d
    /\ \A c, d \in paid : c.manifest = d.manifest

\* Mutated form of Rebinds: a manifest version may change its content.
RebindsNever(c) == FALSE

Rebinds(c) == \E d \in paid : d.manifest # c.manifest

\* Mutated form of InWindow: the rate is counted for each grant.
InWindowOfGrant(c) == {d \in paid : d.at + Window > c.at /\ d.grant = c.grant}

InWindow(c) == {d \in paid : d.at + Window > c.at}

ReplayOf(c) == {d \in paid : SameCharge(c, d)}

\* The gate's answer: "error" is a throw, "pay" goes on to the append.
Decision(c) ==
    IF \/ c.grant \notin grants
       \/ ~GrantValid(c.grant, c.manifest, c.at)
       \/ ~Readable
       \/ \E d \in ReplayOf(c) : d.manifest # c.manifest
    THEN "error"
    ELSE IF ReplayOf(c) # {} THEN "allowed"
    ELSE IF Rebinds(c) \/ \E d \in paid : c.at < d.at THEN "error"
    ELSE IF Cardinality({d \in paid : d.grant = c.grant}) >= Budget[c.grant] THEN "denied"
    ELSE IF Cardinality(InWindow(c)) >= MaxRequests THEN "denied"
    ELSE "pay"

\* Mutated form of AfterGate: a gate that throws does not stop the attempt.
AfterGateOpen == [allowed |-> "resolve", denied |-> "persist", error |-> "resolve"]

AfterGate == [allowed |-> "resolve", denied |-> "persist", error |-> "persist"]

AvailAfterGate ==
    [allowed |-> "uncertain", denied |-> "rate-limited", error |-> "transport-error"]

Without(q, i) == SubSeq(q, 1, i - 1) \o SubSeq(q, i + 1, Len(q))

\* Charge i leaves the chain.  An attempt that was timed out finds its signal
\* aborted before it fetches, and stops.
Settle(i, answer) ==
    /\ gate' = Without(gate, i)
    /\ run' = IF gate[i].live
              THEN [run EXCEPT !.step = AfterGate[answer], !.avail = AvailAfterGate[answer]]
              ELSE run

GateDecide(i) ==
    LET answer == Decision(Charge(gate[i])) IN
    /\ Turn(i) /\ gate[i].phase = "queued"
    /\ IF answer = "pay"
       THEN gate' = [gate EXCEPT ![i].phase = "checked"] /\ UNCHANGED run
       ELSE Settle(i, answer)
    /\ UNCHANGED <<clock, store, counters>>

\* EncryptedEventStore.append reads the head ...
GateReadHead(i) ==
    /\ Turn(i) /\ gate[i].phase = "checked"
    /\ gate' = [gate EXCEPT ![i].phase = "append", ![i].fresh = TRUE]
    /\ UNCHANGED <<clock, store, run, counters>>

\* ... and commits if the head has not moved.
GateAppend(i) ==
    /\ Turn(i) /\ gate[i].phase = "append"
    /\ IF gate[i].fresh
       THEN /\ paid' = paid \cup {Charge(gate[i])}
            /\ gate' = Overtaken(Without(gate, i))
            /\ run' = IF gate[i].live THEN [run EXCEPT !.step = "resolve"]
                      ELSE IF run = Idle THEN run ELSE [run EXCEPT !.fresh = FALSE]
       ELSE Settle(i, "error") /\ UNCHANGED paid
    /\ UNCHANGED <<clock, approvers, grants, records, counters>>

-----------------------------------------------------------------------------
(* GovernedFetchBroker: one attempt after its charge, and redirects. *)

\* resolveApprovedAddresses finds public addresses only, and the request goes out.
Send ==
    /\ run.step = "resolve"
    /\ run' = [run EXCEPT !.step = "wait"]
    /\ UNCHANGED <<clock, store, gate, counters>>

ResolveFails ==
    /\ run.step = "resolve"
    /\ \/ Conclude("transport-error")    \* DNS_FAILURE
       \/ Conclude("access-denied")      \* SSRF_BLOCKED
    /\ UNCHANGED <<clock, store, gate, counters>>

\* A final response, a refused one (a redirect that would carry a sensitive
\* header to another host is one), or a broken connection.
Respond(avail) ==
    /\ run.step = "wait"
    /\ Conclude(avail)
    /\ UNCHANGED <<clock, store, gate, counters>>

\* Mutated form of RedirectAllowed: the host may always change.
RedirectAnyHost(u) ==
    UrlAuthorized(u, run.manifest, run.grant) /\ u \notin run.visited

RedirectAllowed(u) ==
    /\ UrlAuthorized(u, run.manifest, run.grant)
    /\ (run.manifest = Provider /\ AllowCrossHost) \/ HostOf[u] = HostOf[run.at]
    /\ u \notin run.visited

Redirect(u) ==
    /\ run.step = "wait"
    /\ IF run.attempt < MaxRedirects /\ RedirectAllowed(u)
       THEN run' = [run EXCEPT !.step = "verify", !.at = u, !.visited = @ \cup {u},
                               !.attempt = @ + 1]
       ELSE Conclude("access-denied")
    /\ UNCHANGED <<clock, store, gate, counters>>

\* The signal of the attempt is aborted; its charge is not withdrawn.
Abandoned(q) == [i \in DOMAIN q |-> [q[i] EXCEPT !.live = FALSE]]

\* Mutated form of Timeout: waiting for a response is not limited.
TimeoutNotWaiting ==
    /\ run.step \in {"verify", "gate", "resolve"}
    /\ Conclude("transport-error")
    /\ gate' = Abandoned(gate)
    /\ UNCHANGED <<clock, store, counters>>

\* withTimeout, around the verification and around the attempt
Timeout ==
    /\ run.step \in {"verify", "gate", "resolve", "wait"}
    /\ Conclude("transport-error")
    /\ gate' = Abandoned(gate)
    /\ UNCHANGED <<clock, store, counters>>

-----------------------------------------------------------------------------
(* discovery-run: what is recorded, in this order, and the answer last. *)

\* "posting" is the posting's observation, liveness and truth, which are written
\* one after the other in the way of the first two.
Labels(avail) ==
    IF avail = "available"
    THEN <<"observation", "liveness", "posting", "opportunity", "dedupe", "command">>
    ELSE <<"observation", "liveness", "command">>

\* A recorded value carries the time the request was executed at, which stands
\* for all that two executions can see differently.
Value == [url |-> run.url, avail |-> run.avail, now |-> run.now]

Label == Labels(run.avail)[run.done + 1]

\* Mutated form of Stored: the same id is enough, whatever it was recorded with.
StoredUnderId(rec) == rec.label = Label /\ rec.req = run.req

\* persistDiscoveryDecision and put return what is already stored: a decision
\* under its content address, the others under this request's own id.
Stored(rec) ==
    /\ rec.label = Label
    /\ rec.value = Value
    /\ Label \in {"opportunity", "command"} => rec.req = run.req

\* A label of this request is bound to one value.
Rebound == \E rec \in records : rec.req = run.req /\ rec.label = Label

\* The result of the deduplication also depends on other opportunities, so
\* that the one that is stored need not be this execution's.
Reusable == \E rec \in records : Stored(rec)

MustReuse == Label # "dedupe" /\ Reusable

PersistStored ==
    /\ run.step = "persist"
    /\ Reusable
    /\ run' = [run EXCEPT !.done = @ + 1]
    /\ UNCHANGED <<clock, store, gate, counters>>

PersistRefused ==
    /\ run.step = "persist"
    /\ ~MustReuse
    /\ Rebound
    /\ run' = Idle
    /\ UNCHANGED <<clock, store, gate, counters>>

PersistReadHead ==
    /\ run.step = "persist"
    /\ ~MustReuse
    /\ ~Rebound
    /\ run' = [run EXCEPT !.step = "append", !.fresh = TRUE]
    /\ UNCHANGED <<clock, store, gate, counters>>

\* More postings than a run may have, or an answer beyond its bound.
TooLarge ==
    /\ run.step = "persist"
    /\ run.avail = "available"
    /\ run.done = 0 \/ Label = "command"
    /\ run' = Idle
    /\ UNCHANGED <<clock, store, gate, counters>>

PersistAppend ==
    /\ run.step = "append"
    /\ IF run.fresh
       THEN /\ records' = records \cup {[req |-> run.req, label |-> Label, value |-> Value]}
            /\ gate' = Overtaken(gate)
            /\ run' = IF Label = "command" THEN Idle
                      ELSE [run EXCEPT !.step = "persist", !.done = @ + 1, !.fresh = FALSE]
       ELSE run' = Idle /\ UNCHANGED <<records, gate>>
    /\ UNCHANGED <<clock, approvers, grants, paid, counters>>

-----------------------------------------------------------------------------
\* Only these steps read the clock: a change during any other is seen here.
SetClock(t) ==
    /\ run.step \in {"idle", "verify", "consume"}
    /\ t # clock
    /\ clock' = t
    /\ UNCHANGED <<store, gate, run, counters>>

\* The daemon dies and is started again.
Crash ==
    /\ run # Idle \/ gate # <<>>
    /\ crashes < MaxCrashes
    /\ crashes' = crashes + 1
    /\ run' = Idle /\ gate' = <<>>
    /\ UNCHANGED <<clock, store, runs>>

Init ==
    /\ clock = 0
    /\ approvers = Approvers
    /\ grants = {} /\ paid = {} /\ records = {}
    /\ gate = <<>> /\ run = Idle
    /\ runs = 0 /\ crashes = 0

GateStep ==
    \E i \in DOMAIN gate : GateDecide(i) \/ GateReadHead(i) \/ GateAppend(i)

PersistStep == PersistStored \/ PersistRefused \/ PersistReadHead \/ PersistAppend

Next ==
    \/ \E a \in Approvers : SetApprover(a)
    \/ \E g \in Grants : RegisterGrant(g)
    \/ \E r \in Requests, p \in Payloads : BeginRun(r, p)
    \/ VerifyGrant \/ Consume
    \/ GateStep
    \/ Send \/ ResolveFails
    \/ \E a \in Availability : Respond(a)
    \/ \E u \in Urls : Redirect(u)
    \/ Timeout
    \/ PersistStep \/ TooLarge
    \/ \E t \in Times : SetClock(t)
    \/ Crash

Spec == Init /\ [][Next]_vars

\* The daemon's own steps and its timers; nothing of the network.
FairSpec ==
    /\ Spec
    /\ WF_vars(VerifyGrant) /\ WF_vars(Consume) /\ WF_vars(GateStep)
    /\ WF_vars(Timeout) /\ WF_vars(PersistStep)

-----------------------------------------------------------------------------
(* Properties *)

\* Every variable has its type; in particular attempts are numbered within the
\* redirect limit, and an execution ends with the record of its answer.
TypeOK ==
    /\ clock \in Times
    /\ approvers \subseteq Approvers /\ grants \subseteq Grants
    /\ paid \subseteq Charges
    /\ records \subseteq Records
    /\ gate \in Seq(GateEntries)
    /\ run \in RunStates \cup {Idle}
    /\ run # Idle => run.done < Len(Labels(run.avail))
    /\ runs \in 0 .. MaxRuns /\ crashes \in 0 .. MaxCrashes

\* A grant is never charged more often than its budget, over retries, crashes
\* and attempts whose charge is committed after they were timed out
\* (consumeSerialized decides on a count it read before it appends).
BudgetHeld ==
    \A g \in Grants : Cardinality({c \in paid : c.grant = g}) <= Budget[g]

\* In no window of the rate policy are there more charges than it allows,
\* whichever grants they were made under and however the clock is set.
RateHeld ==
    \A c \in paid :
        Cardinality({d \in paid : d.at <= c.at /\ d.at + Window > c.at}) <= MaxRequests

\* What the gate stores it can read again: a ledger consumptions() rejects
\* would fail every later discovery of the provider.
LedgerReadable == Readable

\* A request is on the network only when its attempt has been charged under a
\* grant that was valid for the same manifest at the time of the charge.
SentIsCharged ==
    run.step = "wait" =>
        \E c \in paid :
            /\ c.req = run.req /\ c.attempt = run.attempt /\ c.grant = run.grant
            /\ c.manifest = run.manifest
            /\ GrantValid(c.grant, c.manifest, c.at)

\* Wherever redirects lead, a request goes to a URL that manifest and grant
\* allow, under a grant that is stored and whose issuer is trusted, and it
\* leaves the host that was asked for only where the manifest permits it.
SentIsAuthorized ==
    run.step = "wait" =>
        /\ run.grant \in grants /\ IssuerOf[run.grant] \in approvers
        /\ UrlAuthorized(run.at, run.manifest, run.grant)
        /\ (run.manifest = Provider /\ AllowCrossHost) \/ HostOf[run.at] = HostOf[run.url]

\* An answered request stands on records of one execution: everything it
\* reports was stored with the same observation, though earlier executions of
\* the same request were cut short.
AnswerOfOneRun ==
    \A cmd \in records : cmd.label = "command" =>
        \A i \in DOMAIN Labels(cmd.value.avail) :
            \E rec \in records :
                /\ rec.label = Labels(cmd.value.avail)[i]
                /\ rec.value = cmd.value
                /\ rec.label \in {"opportunity", "command"} => rec.req = cmd.req

\* A discovery-run leaves the authority's queue whatever DNS and the remote
\* host do, so that the requests behind it are served.
RunEnds == run # Idle ~> run = Idle

\* The rate gate spends what it may: neither budget nor rate is exceeded, the
\* ledger stays readable, and nothing is sent that is not charged.
SpendingHeld == BudgetHeld /\ RateHeld /\ LedgerReadable /\ SentIsCharged

\* What goes out is authorised and what is answered is of one execution.
RunSound == TypeOK /\ SentIsAuthorized /\ AnswerOfOneRun
=============================================================================
