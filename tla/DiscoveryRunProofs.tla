------------------------- MODULE DiscoveryRunProofs -------------------------
(***************************************************************************)
(* Proofs about DiscoveryRun, for any number of requests, grants, URLs,    *)
(* redirects and crashes.  The inductive invariant says of a charge that   *)
(* the gate has admitted, and not yet appended, that the gate would admit  *)
(* it again; that holds because only the head of the coordinator's chain   *)
(* is ever past its check.                                                 *)
(***************************************************************************)
EXTENDS DiscoveryRun, FiniteSetTheorems, TLAPS

\* Only the head of the chain is past its check.
Serialised == \A i \in DOMAIN gate : i # 1 => gate[i].phase = "queued"

\* A live charge is the one charge the run waits for.
LiveIsAwaited ==
    /\ \A i \in DOMAIN gate : gate[i].live =>
         /\ run.step = "gate"
         /\ run.req = gate[i].req /\ run.attempt = gate[i].attempt
         /\ run.grant = gate[i].grant /\ run.manifest = gate[i].manifest
    /\ \A i, j \in DOMAIN gate : gate[i].live /\ gate[j].live => i = j

\* What Decision establishes of a charge it admits.
Admissible(c) ==
    /\ c.grant \in grants
    /\ GrantValid(c.grant, c.manifest, c.at)
    /\ ReplayOf(c) = {}
    /\ \A d \in paid : d.manifest = c.manifest /\ d.at <= c.at
    /\ Cardinality({d \in paid : d.grant = c.grant}) < Budget[c.grant]
    /\ Cardinality(InWindow(c)) < MaxRequests

AdmittedStaysAdmissible ==
    \A i \in DOMAIN gate : gate[i].phase # "queued" => Admissible(Charge(gate[i]))

\* The awaited attempt is charged once the gate has let it pass.
PassedIsCharged ==
    run.step \in {"resolve", "wait"} =>
        \E c \in paid :
            /\ c.req = run.req /\ c.attempt = run.attempt /\ c.grant = run.grant
            /\ c.manifest = run.manifest
            /\ GrantValid(c.grant, c.manifest, c.at)

\* A run keeps to its grant, its issuer and its host.
RunInScope ==
    run # Idle =>
        /\ run.grant \in grants
        /\ IssuerOf[run.grant] \in approvers
        /\ (run.manifest = Provider /\ AllowCrossHost) \/ HostOf[run.at] = HostOf[run.url]
        /\ run.step \in {"consume", "gate", "resolve", "wait"} =>
             UrlAuthorized(run.at, run.manifest, run.grant)

\* A run has stored what it has gone past, and not its answer.
RecordedSoFar ==
    run # Idle =>
        /\ ~Answered(run.req)
        /\ run.step \notin {"persist", "append"} => run.done = 0
        /\ \A i \in 1 .. run.done :
             \E rec \in records :
                /\ rec.label = Labels(run.avail)[i]
                /\ rec.value = Value
                /\ rec.label \in {"opportunity", "command"} => rec.req = run.req

Inv ==
    /\ TypeOK
    /\ IsFiniteSet(paid)
    /\ Serialised
    /\ LiveIsAwaited
    /\ AdmittedStaysAdmissible
    /\ PassedIsCharged
    /\ RunInScope
    /\ RecordedSoFar
    /\ BudgetHeld
    /\ RateHeld
    /\ LedgerReadable
    /\ AnswerOfOneRun

-----------------------------------------------------------------------------
(* Facts about the operators *)

\* The head of a chain leaves it: the others move up by one place.
LEMMA HeadLeaves ==
    ASSUME NEW S, NEW q \in Seq(S), 1 \in DOMAIN q
    PROVE  /\ Without(q, 1) \in Seq(S)
           /\ \A i \in DOMAIN Without(q, 1) :
                i + 1 \in DOMAIN q /\ Without(q, 1)[i] = q[i + 1]
  BY DEF Without

\* Two entries are the same charge in the same phase.
SameEntry(c, d) ==
    /\ c.req = d.req /\ c.attempt = d.attempt /\ c.grant = d.grant
    /\ c.manifest = d.manifest /\ c.at = d.at
    /\ c.phase = d.phase /\ c.live = d.live

\* Overtaking leaves a chain as it is but for the flag.
LEMMA OvertakenChain ==
    ASSUME NEW q \in Seq(GateEntries)
    PROVE  /\ Overtaken(q) \in Seq(GateEntries)
           /\ DOMAIN Overtaken(q) = DOMAIN q
           /\ \A i \in DOMAIN q : SameEntry(Overtaken(q)[i], q[i])
<1>1. ASSUME NEW i \in DOMAIN q
      PROVE  /\ Overtaken(q)[i] \in GateEntries
             /\ SameEntry(Overtaken(q)[i], q[i])
  <2>1. q[i] \in GateEntries
    OBVIOUS
  <2>2. Overtaken(q)[i] = [q[i] EXCEPT !.fresh = FALSE]
    BY DEF Overtaken
  <2> QED
    BY <2>1, <2>2 DEF GateEntries, SameEntry
<1>2. DOMAIN Overtaken(q) = 1 .. Len(q) /\ DOMAIN q = 1 .. Len(q) /\ Len(q) \in Nat
  BY DEF Overtaken
<1>3. Overtaken(q) = [i \in 1 .. Len(q) |-> Overtaken(q)[i]]
  BY <1>2 DEF Overtaken
<1>4. Overtaken(q) \in [1 .. Len(q) -> GateEntries]
  BY <1>1, <1>2, <1>3
<1> QED
  BY <1>1, <1>2, <1>4

\* Aborting a signal leaves the charges as they are.
LEMMA AbandonedChain ==
    ASSUME NEW q \in Seq(GateEntries)
    PROVE  /\ Abandoned(q) \in Seq(GateEntries)
           /\ DOMAIN Abandoned(q) = DOMAIN q
           /\ \A i \in DOMAIN q :
                /\ Abandoned(q)[i].grant = q[i].grant /\ Abandoned(q)[i].req = q[i].req
                /\ Abandoned(q)[i].manifest = q[i].manifest /\ Abandoned(q)[i].at = q[i].at
                /\ Abandoned(q)[i].attempt = q[i].attempt
                /\ Abandoned(q)[i].phase = q[i].phase /\ ~Abandoned(q)[i].live
<1>1. ASSUME NEW i \in DOMAIN q
      PROVE  /\ Abandoned(q)[i] \in GateEntries
             /\ Abandoned(q)[i].grant = q[i].grant /\ Abandoned(q)[i].req = q[i].req
             /\ Abandoned(q)[i].manifest = q[i].manifest /\ Abandoned(q)[i].at = q[i].at
             /\ Abandoned(q)[i].attempt = q[i].attempt
             /\ Abandoned(q)[i].phase = q[i].phase /\ ~Abandoned(q)[i].live
  <2>1. q[i] \in GateEntries
    OBVIOUS
  <2>2. Abandoned(q)[i] = [q[i] EXCEPT !.live = FALSE]
    BY DEF Abandoned
  <2> QED
    BY <2>1, <2>2 DEF GateEntries
<1>2. DOMAIN Abandoned(q) = 1 .. Len(q) /\ DOMAIN q = 1 .. Len(q) /\ Len(q) \in Nat
  BY DEF Abandoned
<1>3. Abandoned(q) = [i \in 1 .. Len(q) |-> Abandoned(q)[i]]
  BY <1>2 DEF Abandoned
<1>4. Abandoned(q) \in [1 .. Len(q) -> GateEntries]
  BY <1>1, <1>2, <1>3
<1> QED
  BY <1>1, <1>2, <1>4

\* Only the head of the chain takes its turn.
LEMMA TurnIsHead ==
    ASSUME NEW i, Turn(i)
    PROVE  i = 1
  BY DEF Turn

\* The answer is the last of the labels, and nothing but the answer.
LEMMA LabelFacts ==
    ASSUME NEW a
    PROVE  /\ Len(Labels(a)) \in 1 .. 6
           /\ DOMAIN Labels(a) = 1 .. Len(Labels(a))
           /\ \A i \in 1 .. Len(Labels(a)) :
                /\ Labels(a)[i] \in {"observation", "liveness", "posting", "opportunity",
                                    "dedupe", "command"}
                /\ Labels(a)[i] = "command" <=> i = Len(Labels(a))
<1>1. CASE a = "available"
  BY <1>1 DEF Labels
<1>2. CASE a # "available"
  BY <1>2 DEF Labels
<1> QED
  BY <1>1, <1>2

\* A run that is at some step is a run.
LEMMA ActiveRun ==
    ASSUME TypeOK, run.step # "idle"
    PROVE  run # Idle /\ run \in RunStates /\ run.done < Len(Labels(run.avail))
  BY DEF TypeOK, Idle

\* Giving up keeps the type of a run that has recorded nothing.
LEMMA ConcludeType ==
    ASSUME run \in RunStates, run.done = 0, NEW a \in Availability, Conclude(a)
    PROVE  /\ run' \in RunStates /\ run' # Idle
           /\ run'.step = "persist" /\ run'.done = 0 /\ run'.avail = a
           /\ run'.done < Len(Labels(run'.avail))
<1>1. run' = [run EXCEPT !.step = "persist", !.avail = a]
  BY DEF Conclude
<1>2. run' \in RunStates /\ run'.step = "persist" /\ run'.done = 0 /\ run'.avail = a
  BY <1>1 DEF RunStates
<1> QED
  BY <1>2, LabelFacts DEF Idle

\* A charge that is settled, with an answer, leaves chain and run typed.
LEMMA SettleType ==
    ASSUME TypeOK, RecordedSoFar, LiveIsAwaited,
           1 \in DOMAIN gate, NEW a \in {"allowed", "denied", "error"}, Settle(1, a)
    PROVE  /\ gate' \in Seq(GateEntries)
           /\ run' \in RunStates \cup {Idle}
           /\ run' # Idle => run'.done < Len(Labels(run'.avail))
<1>1. gate' \in Seq(GateEntries)
  BY HeadLeaves DEF Settle, TypeOK
<1>2. CASE ~gate[1].live
  BY <1>1, <1>2 DEF Settle, TypeOK
<1>3. CASE gate[1].live
  <2>1. run.step = "gate"
    BY <1>3 DEF LiveIsAwaited
  <2>2. run \in RunStates /\ run.done = 0
    BY <2>1, ActiveRun DEF RecordedSoFar
  <2>3. run' = [run EXCEPT !.step = AfterGate[a], !.avail = AvailAfterGate[a]]
    BY <1>3 DEF Settle
  <2>4. AfterGate[a] \in {"resolve", "persist"} /\ AvailAfterGate[a] \in Availability
    BY DEF AfterGate, AvailAfterGate, Availability
  <2>5. run' \in RunStates /\ run'.done = 0
    BY <2>2, <2>3, <2>4 DEF RunStates
  <2> QED
    BY <1>1, <2>5, LabelFacts
<1> QED
  BY <1>2, <1>3

\* Whatever the gate answers is an answer or the go-ahead for the append.
LEMMA DecisionType ==
    ASSUME NEW c
    PROVE  Decision(c) \in {"allowed", "denied", "error", "pay"}
  BY DEF Decision

-----------------------------------------------------------------------------
(* Types *)

\* Every step keeps the types.
LEMMA TypeStep ==
    ASSUME TypeOK, RecordedSoFar, LiveIsAwaited, [Next]_vars
    PROVE  TypeOK'
<1>0. /\ MaxTime \in Nat /\ MaxRuns \in Nat /\ MaxCrashes \in Nat /\ MaxRedirects \in Nat
  BY DiscoveryAssumption
<1>1. ASSUME NEW a \in Approvers, SetApprover(a) PROVE TypeOK'
  BY <1>1, OvertakenChain DEF SetApprover, TypeOK, counters
<1>2. ASSUME NEW g \in Grants, RegisterGrant(g) PROVE TypeOK'
  BY <1>2 DEF RegisterGrant, TypeOK, counters
<1>3. ASSUME NEW r \in Requests, NEW p \in Payloads, BeginRun(r, p) PROVE TypeOK'
  <2>1. p.url \in Urls /\ p.grant \in Grants /\ ManifestFor(p) \in Manifests
    BY DiscoveryAssumption DEF ManifestFor, Manifests
  <2>2. run' \in RunStates
    BY <1>0, <1>3, <2>1 DEF BeginRun, RunStates, TypeOK, Availability
  <2>3. run'.done = 0 /\ run'.avail = "uncertain"
    BY <1>3 DEF BeginRun
  <2> QED
    <3>1. runs' \in 0 .. MaxRuns
      BY <1>0, <1>3 DEF BeginRun, TypeOK
    <3>2. run'.done < Len(Labels(run'.avail))
      BY <2>3 DEF Labels
    <3> QED
      BY <1>3, <2>2, <3>1, <3>2 DEF BeginRun, TypeOK, store
<1>4. CASE VerifyGrant
  <2>1. run \in RunStates /\ run.done = 0 /\ run # Idle /\ run.done < Len(Labels(run.avail))
    BY <1>4, ActiveRun DEF VerifyGrant, RecordedSoFar
  <2>2. CASE run' = [run EXCEPT !.step = "consume"]
    <3>1. run' \in RunStates /\ run'.done = run.done /\ run'.avail = run.avail
      BY <2>1, <2>2 DEF RunStates
    <3> QED
      BY <1>4, <2>1, <3>1 DEF VerifyGrant, TypeOK, store, counters
  <2>3. CASE Conclude("access-denied")
    <3>1. run' \in RunStates /\ run'.done < Len(Labels(run'.avail))
      BY <2>1, <2>3, ConcludeType DEF Availability
    <3> QED
      BY <1>4, <3>1 DEF VerifyGrant, TypeOK, store, counters
  <2> QED
    BY <1>4, <2>2, <2>3 DEF VerifyGrant
<1>5. CASE Consume
  <2>1. run \in RunStates /\ run.done < Len(Labels(run.avail))
    BY <1>5, ActiveRun DEF Consume
  <2>2. run' \in RunStates /\ run'.done = run.done /\ run'.avail = run.avail
    BY <1>5, <2>1 DEF Consume, RunStates
  <2>3. gate' \in Seq(GateEntries)
    BY <1>5, <2>1 DEF Consume, GateEntries, RunStates, TypeOK
  <2> QED
    BY <1>5, <2>1, <2>2, <2>3 DEF Consume, TypeOK, store, counters
<1>6. ASSUME NEW i \in DOMAIN gate, GateDecide(i) PROVE TypeOK'
  <2>1. i = 1
    BY <1>6, TurnIsHead DEF GateDecide
  <2>2. CASE Decision(Charge(gate[1])) = "pay"
    <3>1. gate' = [gate EXCEPT ![1].phase = "checked"] /\ run' = run
      BY <1>6, <2>1, <2>2 DEF GateDecide
    <3>2. gate' \in Seq(GateEntries)
      <4>1. gate[1] \in GateEntries
        BY <2>1 DEF TypeOK
      <4>2. [gate[1] EXCEPT !.phase = "checked"] \in GateEntries
        BY <4>1 DEF GateEntries
      <4> QED
        BY <2>1, <3>1, <4>2 DEF TypeOK
    <3> QED
      BY <1>6, <3>1, <3>2 DEF GateDecide, TypeOK, store, counters
  <2>3. CASE Decision(Charge(gate[1])) # "pay"
    <3>1. Settle(1, Decision(Charge(gate[1])))
      BY <1>6, <2>1, <2>3 DEF GateDecide
    <3>2. /\ gate' \in Seq(GateEntries)
          /\ run' \in RunStates \cup {Idle}
          /\ run' # Idle => run'.done < Len(Labels(run'.avail))
      BY <2>1, <2>3, <3>1, SettleType, DecisionType
    <3> QED
      BY <1>6, <3>2 DEF GateDecide, TypeOK, store, counters
  <2> QED
    BY <2>2, <2>3
<1>7. ASSUME NEW i \in DOMAIN gate, GateReadHead(i) PROVE TypeOK'
  <2>1. i = 1 /\ gate' = [gate EXCEPT ![1].phase = "append", ![1].fresh = TRUE]
    BY <1>7, TurnIsHead DEF GateReadHead
  <2>2. gate' \in Seq(GateEntries)
    <3>1. gate[1] \in GateEntries
      BY <2>1 DEF TypeOK
    <3>2. [gate[1] EXCEPT !.phase = "append", !.fresh = TRUE] \in GateEntries
      BY <3>1 DEF GateEntries
    <3>3. gate' = [gate EXCEPT ![1] = [gate[1] EXCEPT !.phase = "append", !.fresh = TRUE]]
      BY <2>1 DEF TypeOK
    <3> QED
      BY <2>1, <3>2, <3>3 DEF TypeOK
  <2> QED
    BY <1>7, <2>2 DEF GateReadHead, TypeOK, store, counters
<1>8. ASSUME NEW i \in DOMAIN gate, GateAppend(i) PROVE TypeOK'
  <2>1. i = 1
    BY <1>8, TurnIsHead DEF GateAppend
  <2>2. CASE gate[1].fresh
    <3>1. gate' \in Seq(GateEntries)
      BY <1>8, <2>1, <2>2, HeadLeaves, OvertakenChain DEF GateAppend, TypeOK
    <3>2. paid' \subseteq Charges
      <4>1. gate[1] \in GateEntries
        BY <2>1 DEF TypeOK
      <4>2. Charge(gate[1]) \in Charges
        BY <4>1 DEF Charge, Charges, GateEntries
      <4> QED
        BY <1>8, <2>1, <2>2, <4>2 DEF GateAppend, TypeOK
    <3>3. run' \in RunStates \cup {Idle} /\ (run' # Idle => run'.done < Len(Labels(run'.avail)))
      <4>1. CASE gate[1].live
        <5>1. run \in RunStates /\ run.done < Len(Labels(run.avail))
          BY <2>1, <4>1, ActiveRun DEF LiveIsAwaited
        <5>2. run' = [run EXCEPT !.step = "resolve"]
          BY <1>8, <2>1, <2>2, <4>1 DEF GateAppend
        <5> QED
          BY <5>1, <5>2 DEF RunStates
      <4>2. CASE ~gate[1].live /\ run = Idle
        BY <1>8, <2>1, <2>2, <4>2 DEF GateAppend
      <4>3. CASE ~gate[1].live /\ run # Idle
        <5>1. run' = [run EXCEPT !.fresh = FALSE]
          BY <1>8, <2>1, <2>2, <4>3 DEF GateAppend
        <5> QED
          BY <4>3, <5>1 DEF TypeOK, RunStates
      <4> QED
        BY <4>1, <4>2, <4>3
    <3> QED
      BY <1>8, <3>1, <3>2, <3>3 DEF GateAppend, TypeOK, counters
  <2>3. CASE ~gate[1].fresh
    <3>1. Settle(1, "error") /\ paid' = paid
      BY <1>8, <2>1, <2>3 DEF GateAppend
    <3>2. /\ gate' \in Seq(GateEntries)
          /\ run' \in RunStates \cup {Idle}
          /\ run' # Idle => run'.done < Len(Labels(run'.avail))
      BY <2>1, <3>1, SettleType
    <3> QED
      BY <1>8, <3>1, <3>2 DEF GateAppend, TypeOK, counters
  <2> QED
    BY <2>2, <2>3
<1>9. CASE Send
  <2>1. run \in RunStates /\ run.done < Len(Labels(run.avail))
    BY <1>9, ActiveRun DEF Send
  <2>2. run' \in RunStates /\ run'.done = run.done /\ run'.avail = run.avail
    BY <1>9, <2>1 DEF Send, RunStates
  <2> QED
    BY <1>9, <2>1, <2>2 DEF Send, TypeOK, store, counters
<1>10. ASSUME NEW a \in Availability, run.step \in {"resolve", "wait"}, Conclude(a),
              UNCHANGED <<clock, store, gate, counters>>
       PROVE  TypeOK'
  <2>1. run \in RunStates /\ run.done = 0
    BY <1>10, ActiveRun DEF RecordedSoFar
  <2>2. run' \in RunStates /\ run'.done < Len(Labels(run'.avail))
    BY <1>10, <2>1, ConcludeType
  <2> QED
    BY <1>10, <2>2 DEF TypeOK, store, counters
<1>11. CASE ResolveFails
  BY <1>10, <1>11 DEF ResolveFails, Availability
<1>12. ASSUME NEW a \in Availability, Respond(a) PROVE TypeOK'
  BY <1>10, <1>12 DEF Respond
<1>13. ASSUME NEW u \in Urls, Redirect(u) PROVE TypeOK'
  <2>1. run \in RunStates /\ run.done < Len(Labels(run.avail))
    BY <1>13, ActiveRun DEF Redirect
  <2>2. CASE run.attempt < MaxRedirects /\ RedirectAllowed(u)
    <3>1. run' = [run EXCEPT !.step = "verify", !.at = u, !.visited = @ \cup {u},
                             !.attempt = @ + 1]
      BY <1>13, <2>2 DEF Redirect
    <3>2. run.attempt + 1 \in 0 .. MaxRedirects /\ run.visited \cup {u} \in SUBSET Urls
      BY <1>0, <2>1, <2>2 DEF RunStates
    <3>3. run' \in RunStates /\ run'.done = run.done /\ run'.avail = run.avail
      BY <2>1, <3>1, <3>2 DEF RunStates
    <3> QED
      BY <1>13, <2>1, <3>3 DEF Redirect, TypeOK, store, counters
  <2>3. CASE ~(run.attempt < MaxRedirects /\ RedirectAllowed(u))
    BY <1>10, <1>13, <2>3 DEF Redirect, Availability
  <2> QED
    BY <2>2, <2>3
<1>14. CASE Timeout
  <2>1. run \in RunStates /\ run.done = 0
    BY <1>14, ActiveRun DEF Timeout, RecordedSoFar
  <2>2. run' \in RunStates /\ run'.done < Len(Labels(run'.avail))
    BY <1>14, <2>1, ConcludeType DEF Timeout, Availability
  <2>3. gate' \in Seq(GateEntries)
    BY <1>14, AbandonedChain DEF Timeout, TypeOK
  <2> QED
    BY <1>14, <2>2, <2>3 DEF Timeout, TypeOK, store, counters
<1>15. CASE PersistStored
  <2>1. run \in RunStates /\ run # Idle /\ run.done < Len(Labels(run.avail))
    BY <1>15, ActiveRun DEF PersistStored
  <2>2. Label # "command"
    BY <1>15, <2>1 DEF PersistStored, Reusable, Stored, RecordedSoFar, Answered
  <2>3. run.done + 1 < Len(Labels(run.avail)) /\ run.done + 1 \in 0 .. 5
    BY <2>1, <2>2, LabelFacts DEF Label, RunStates
  <2>4. run' \in RunStates /\ run'.done = run.done + 1 /\ run'.avail = run.avail
    BY <1>15, <2>1, <2>3 DEF PersistStored, RunStates
  <2> QED
    BY <1>15, <2>3, <2>4 DEF PersistStored, TypeOK, store, counters
<1>16. CASE PersistRefused \/ TooLarge
  BY <1>16 DEF PersistRefused, TooLarge, TypeOK, store, counters
<1>17. CASE PersistReadHead
  <2>1. run \in RunStates /\ run.done < Len(Labels(run.avail))
    BY <1>17, ActiveRun DEF PersistReadHead
  <2>2. run' \in RunStates /\ run'.done = run.done /\ run'.avail = run.avail
    BY <1>17, <2>1 DEF PersistReadHead, RunStates
  <2> QED
    BY <1>17, <2>1, <2>2 DEF PersistReadHead, TypeOK, store, counters
<1>18. CASE PersistAppend
  <2>1. run \in RunStates /\ run # Idle /\ run.done < Len(Labels(run.avail))
    BY <1>18, ActiveRun DEF PersistAppend
  <2>2. CASE run.fresh
    <3>1. gate' \in Seq(GateEntries)
      BY <1>18, <2>2, OvertakenChain DEF PersistAppend, TypeOK
    <3>2. Label \in {"observation", "liveness", "posting", "opportunity", "dedupe", "command"}
      BY <2>1, LabelFacts DEF Label, RunStates
    <3>3. records' \subseteq Records
      BY <1>18, <2>1, <2>2, <3>2 DEF PersistAppend, TypeOK, Records, Value, RunStates
    <3>4. CASE Label = "command"
      BY <1>18, <2>2, <3>1, <3>3, <3>4 DEF PersistAppend, TypeOK, counters
    <3>5. CASE Label # "command"
      <4>1. run.done + 1 < Len(Labels(run.avail)) /\ run.done + 1 \in 0 .. 5
        BY <2>1, <3>5, LabelFacts DEF Label, RunStates
      <4>2. run' = [run EXCEPT !.step = "persist", !.done = @ + 1, !.fresh = FALSE]
        BY <1>18, <2>2, <3>5 DEF PersistAppend
      <4>3. run' \in RunStates /\ run'.done = run.done + 1 /\ run'.avail = run.avail
        BY <2>1, <4>1, <4>2 DEF RunStates
      <4> QED
        BY <1>18, <3>1, <3>3, <4>1, <4>3 DEF PersistAppend, TypeOK, counters
    <3> QED
      BY <3>4, <3>5
  <2>3. CASE ~run.fresh
    BY <1>18, <2>3 DEF PersistAppend, TypeOK, counters
  <2> QED
    BY <2>2, <2>3
<1>19. ASSUME NEW t \in Times, SetClock(t) PROVE TypeOK'
  BY <1>19 DEF SetClock, TypeOK, store, counters
<1>20. CASE Crash
  BY <1>0, <1>20 DEF Crash, TypeOK, store
<1>21. CASE UNCHANGED vars
  BY <1>21 DEF vars, TypeOK
<1> QED
  BY <1>1, <1>2, <1>3, <1>4, <1>5, <1>6, <1>7, <1>8, <1>9, <1>11, <1>12, <1>13, <1>14,
     <1>15, <1>16, <1>17, <1>18, <1>19, <1>20, <1>21 DEF Next, GateStep, PersistStep

-----------------------------------------------------------------------------
(* The ledger of charges *)

LedgerInv ==
    /\ IsFiniteSet(paid)
    /\ Serialised
    /\ AdmittedStaysAdmissible
    /\ BudgetHeld
    /\ RateHeld
    /\ LedgerReadable

\* The gate admits only what is admissible.
LEMMA DecisionAdmits ==
    ASSUME IsFiniteSet(paid), paid \subseteq Charges, NEW c \in Charges, Decision(c) = "pay"
    PROVE  Admissible(c)
<1>1. /\ Cardinality({d \in paid : d.grant = c.grant}) \in Nat
      /\ Cardinality(InWindow(c)) \in Nat
  <2>1. IsFiniteSet({d \in paid : d.grant = c.grant})
    BY FS_Subset
  <2>2. IsFiniteSet(InWindow(c))
    BY FS_Subset DEF InWindow
  <2> QED
    BY <2>1, <2>2, FS_CardinalityType
<1>2. Budget[c.grant] \in Nat /\ MaxRequests \in Nat /\ MaxTime \in Nat
  BY DiscoveryAssumption DEF Charges
<1>3. /\ c.grant \in grants
      /\ GrantValid(c.grant, c.manifest, c.at)
      /\ ReplayOf(c) = {}
      /\ ~Rebinds(c)
      /\ ~ \E d \in paid : c.at < d.at
      /\ ~(Cardinality({d \in paid : d.grant = c.grant}) >= Budget[c.grant])
      /\ ~(Cardinality(InWindow(c)) >= MaxRequests)
  BY DEF Decision
<1>4. \A d \in paid : d.manifest = c.manifest
  BY <1>3 DEF Rebinds
<1>5. \A d \in paid : d.at <= c.at
  BY <1>2, <1>3 DEF Charges, Times
<1>6. /\ Cardinality({d \in paid : d.grant = c.grant}) < Budget[c.grant]
      /\ Cardinality(InWindow(c)) < MaxRequests
  BY <1>1, <1>2, <1>3
<1> QED
  BY <1>3, <1>4, <1>5, <1>6 DEF Admissible

\* A step that commits no charge keeps the ledger's part of the invariant, if
\* only an admissible head is past its check.
LEMMA LedgerKept ==
    ASSUME LedgerInv, paid' = paid, grants \subseteq grants',
           \A i \in DOMAIN gate' : gate'[i].phase # "queued" =>
               i = 1 /\ Admissible(Charge(gate'[i]))
    PROVE  LedgerInv'
<1>1. AdmittedStaysAdmissible'
  BY DEF AdmittedStaysAdmissible, Admissible, ReplayOf, InWindow, Charge, SameCharge
<1>2. Serialised'
  BY DEF Serialised
<1>3. BudgetHeld' /\ RateHeld'
  BY DEF LedgerInv, BudgetHeld, RateHeld
<1>4. LedgerReadable'
  BY DEF LedgerInv, LedgerReadable, Readable
<1> QED
  BY <1>1, <1>2, <1>3, <1>4 DEF LedgerInv

\* The commit of an admissible charge.
LEMMA LedgerPaid ==
    ASSUME TypeOK, LedgerInv, NEW c \in Charges, Admissible(c),
           paid' = paid \cup {c}, grants' = grants,
           \A i \in DOMAIN gate' : gate'[i].phase = "queued"
    PROVE  LedgerInv'
<1>0. /\ MaxTime \in Nat /\ MaxRequests \in Nat /\ Window \in Nat
      /\ \A g \in Grants : Budget[g] \in Nat
      /\ \A d \in paid : d.at \in Nat /\ d.grant \in Grants
      /\ c.at \in Nat /\ c.grant \in Grants
  <2>1. MaxTime \in Nat /\ MaxRequests \in Nat /\ Window \in Nat
    BY DiscoveryAssumption
  <2>2. \A g \in Grants : Budget[g] \in Nat
    BY DiscoveryAssumption
  <2> QED
    BY <2>1, <2>2 DEF TypeOK, Charges, Times
<1>1. IsFiniteSet(paid')
  BY FS_AddElement DEF LedgerInv
<1>2. c \notin paid
  BY DEF Admissible, ReplayOf, SameCharge
<1>3. Serialised' /\ AdmittedStaysAdmissible'
  BY DEF Serialised, AdmittedStaysAdmissible
<1>4. BudgetHeld'
  <2> SUFFICES ASSUME NEW g \in Grants
               PROVE  Cardinality({d \in paid' : d.grant = g}) <= Budget[g]
    BY DEF BudgetHeld
  <2>1. IsFiniteSet({d \in paid : d.grant = g})
    BY FS_Subset DEF LedgerInv
  <2>2. CASE c.grant = g
    <3>1. {d \in paid' : d.grant = g} = {d \in paid : d.grant = g} \cup {c}
      BY <2>2
    <3>2. Cardinality({d \in paid' : d.grant = g}) = Cardinality({d \in paid : d.grant = g}) + 1
      BY <1>2, <2>1, <3>1, FS_AddElement
    <3>3. Cardinality({d \in paid : d.grant = g}) \in Nat
      BY <2>1, FS_CardinalityType
    <3> QED
      BY <1>0, <2>2, <3>2, <3>3 DEF Admissible
  <2>3. CASE c.grant # g
    <3>1. {d \in paid' : d.grant = g} = {d \in paid : d.grant = g}
      BY <2>3
    <3> QED
      BY <3>1 DEF LedgerInv, BudgetHeld
  <2> QED
    BY <2>2, <2>3
<1>5. RateHeld'
  <2> DEFINE W(e, S) == {d \in S : d.at <= e.at /\ d.at + Window > e.at}
  <2> SUFFICES ASSUME NEW e \in paid'
               PROVE  Cardinality(W(e, paid')) <= MaxRequests
    BY DEF RateHeld
  <2>1. e.at \in Nat /\ e.at <= c.at
    BY <1>0 DEF Admissible
  <2>2. CASE e.at = c.at
    <3>1. W(e, paid') \subseteq InWindow(c) \cup {c}
      BY <2>2 DEF InWindow
    <3>2. IsFiniteSet(InWindow(c)) /\ c \notin InWindow(c)
      BY <1>2, FS_Subset DEF InWindow, LedgerInv
    <3>3. /\ IsFiniteSet(InWindow(c) \cup {c})
          /\ Cardinality(InWindow(c) \cup {c}) = Cardinality(InWindow(c)) + 1
      BY <3>2, FS_AddElement
    <3>4. IsFiniteSet(W(e, paid')) /\ Cardinality(W(e, paid')) <= Cardinality(InWindow(c) \cup {c})
      BY <3>1, <3>3, FS_Subset
    <3>5. Cardinality(InWindow(c)) \in Nat /\ Cardinality(W(e, paid')) \in Nat
      BY <3>2, <3>4, FS_CardinalityType
    <3>6. Cardinality(InWindow(c)) < MaxRequests
      BY DEF Admissible
    <3> HIDE DEF W
    <3> QED
      BY <1>0, <3>3, <3>4, <3>5, <3>6
  <2>3. CASE e.at # c.at
    <3>1. e \in paid /\ ~(c.at <= e.at)
      BY <1>0, <2>1, <2>3
    <3>2. W(e, paid') = W(e, paid)
      BY <3>1
    <3> QED
      BY <3>1, <3>2 DEF LedgerInv, RateHeld
  <2> QED
    BY <2>2, <2>3
<1>6. LedgerReadable'
  <2>1. Readable
    BY DEF LedgerInv, LedgerReadable
  <2>2. \A d \in paid : ~SameCharge(c, d) /\ ~SameCharge(d, c) /\ d.manifest = c.manifest
    BY DEF Admissible, ReplayOf, SameCharge
  <2>3. SameCharge(c, c)
    BY DEF SameCharge
  <2>4. c.grant \in grants /\ GrantValid(c.grant, c.manifest, c.at)
    BY DEF Admissible
  <2> QED
    BY <2>1, <2>2, <2>3, <2>4 DEF LedgerReadable, Readable
<1> QED
  BY <1>1, <1>3, <1>4, <1>5, <1>6 DEF LedgerInv

\* When the head leaves, no other charge is past its check.
LEMMA RestIsQueued ==
    ASSUME TypeOK, Serialised, 1 \in DOMAIN gate
    PROVE  /\ Without(gate, 1) \in Seq(GateEntries)
           /\ \A i \in DOMAIN Without(gate, 1) : Without(gate, 1)[i].phase = "queued"
<1>1. \A i \in DOMAIN Without(gate, 1) :
        i + 1 \in DOMAIN gate /\ Without(gate, 1)[i] = gate[i + 1]
  BY HeadLeaves DEF TypeOK
<1>2. Without(gate, 1) \in Seq(GateEntries)
  BY HeadLeaves DEF TypeOK
<1>3. \A i \in DOMAIN Without(gate, 1) : i + 1 # 1
  BY <1>2
<1> QED
  BY <1>1, <1>2, <1>3 DEF Serialised

\* Every step keeps the ledger's part of the invariant.
LEMMA LedgerStep ==
    ASSUME TypeOK, LedgerInv, [Next]_vars
    PROVE  LedgerInv'
<1>0. gate \in Seq(GateEntries) /\ Serialised /\ AdmittedStaysAdmissible
  BY DEF TypeOK, LedgerInv
<1>1. ASSUME gate' = gate, paid' = paid, grants \subseteq grants' PROVE LedgerInv'
  BY <1>0, <1>1, LedgerKept DEF Serialised, AdmittedStaysAdmissible
<1>2. ASSUME gate' = Overtaken(gate), paid' = paid, grants \subseteq grants' PROVE LedgerInv'
  <2>1. \A i \in DOMAIN gate' :
          /\ i \in DOMAIN gate /\ gate'[i].phase = gate[i].phase
          /\ Charge(gate'[i]) = Charge(gate[i])
    BY <1>0, <1>2, OvertakenChain DEF SameEntry, Charge
  <2> QED
    BY <1>0, <1>2, <2>1, LedgerKept DEF Serialised, AdmittedStaysAdmissible
<1>3. ASSUME NEW a, Settle(1, a), 1 \in DOMAIN gate, paid' = paid, grants' = grants
      PROVE  LedgerInv'
  BY <1>0, <1>3, RestIsQueued, LedgerKept DEF Settle
<1>4. ASSUME NEW a \in Approvers, SetApprover(a) PROVE LedgerInv'
  BY <1>2, <1>4 DEF SetApprover
<1>5. ASSUME NEW g \in Grants, RegisterGrant(g) PROVE LedgerInv'
  BY <1>1, <1>5 DEF RegisterGrant
<1>6. CASE Consume
  <2>1. \A i \in DOMAIN gate' : gate'[i].phase # "queued" =>
          i \in DOMAIN gate /\ gate'[i] = gate[i]
    BY <1>0, <1>6 DEF Consume
  <2>2. paid' = paid /\ grants' = grants
    BY <1>6 DEF Consume, store
  <2> QED
    BY <1>0, <2>1, <2>2, LedgerKept DEF Serialised, AdmittedStaysAdmissible
<1>7. ASSUME NEW i \in DOMAIN gate, GateDecide(i) PROVE LedgerInv'
  <2>1. i = 1 /\ paid' = paid /\ grants' = grants
    BY <1>7, TurnIsHead DEF GateDecide, store
  <2>2. CASE Decision(Charge(gate[1])) = "pay"
    <3>1. gate[1] \in GateEntries
      BY <1>0, <2>1
    <3>2. Charge(gate[1]) \in Charges
      BY <3>1 DEF GateEntries, Charge, Charges
    <3>3. Admissible(Charge(gate[1]))
      BY <2>2, <3>2, DecisionAdmits DEF LedgerInv, TypeOK
    <3>4. gate' = [gate EXCEPT ![1] = [gate[1] EXCEPT !.phase = "checked"]]
      BY <1>0, <1>7, <2>1, <2>2 DEF GateDecide
    <3>5. Charge([gate[1] EXCEPT !.phase = "checked"]) = Charge(gate[1])
      BY <3>1 DEF Charge, GateEntries
    <3>6. DOMAIN gate' = DOMAIN gate /\ gate'[1] = [gate[1] EXCEPT !.phase = "checked"]
          /\ \A j \in DOMAIN gate : j # 1 => gate'[j] = gate[j]
      BY <1>0, <2>1, <3>4
    <3>7. \A j \in DOMAIN gate' : gate'[j].phase # "queued" => j = 1
      BY <1>0, <3>6 DEF Serialised
    <3> QED
      BY <2>1, <3>3, <3>5, <3>6, <3>7, LedgerKept
  <2>3. CASE Decision(Charge(gate[1])) # "pay"
    BY <1>3, <1>7, <2>1, <2>3 DEF GateDecide
  <2> QED
    BY <2>2, <2>3
<1>8. ASSUME NEW i \in DOMAIN gate, GateReadHead(i) PROVE LedgerInv'
  <2>1. i = 1 /\ paid' = paid /\ grants' = grants /\ gate[1].phase = "checked"
    BY <1>8, TurnIsHead DEF GateReadHead, store
  <2>2. gate[1] \in GateEntries
    BY <1>0, <2>1
  <2>3. gate' = [gate EXCEPT ![1] = [gate[1] EXCEPT !.phase = "append", !.fresh = TRUE]]
    BY <1>0, <1>8, <2>1 DEF GateReadHead
  <2>4. Charge([gate[1] EXCEPT !.phase = "append", !.fresh = TRUE]) = Charge(gate[1])
    BY <2>2 DEF Charge, GateEntries
  <2>5. /\ DOMAIN gate' = DOMAIN gate
        /\ gate'[1] = [gate[1] EXCEPT !.phase = "append", !.fresh = TRUE]
        /\ \A j \in DOMAIN gate : j # 1 => gate'[j] = gate[j]
    BY <1>0, <2>1, <2>3
  <2>6. Admissible(Charge(gate[1]))
    BY <1>0, <2>1 DEF AdmittedStaysAdmissible
  <2>7. \A j \in DOMAIN gate' : gate'[j].phase # "queued" => j = 1
    BY <1>0, <2>5 DEF Serialised
  <2> QED
    BY <2>1, <2>4, <2>5, <2>6, <2>7, LedgerKept
<1>9. ASSUME NEW i \in DOMAIN gate, GateAppend(i) PROVE LedgerInv'
  <2>1. i = 1 /\ grants' = grants /\ gate[1].phase = "append"
    BY <1>9, TurnIsHead DEF GateAppend
  <2>2. CASE gate[1].fresh
    <3>1. paid' = paid \cup {Charge(gate[1])} /\ gate' = Overtaken(Without(gate, 1))
      BY <1>9, <2>1, <2>2 DEF GateAppend
    <3>2. Admissible(Charge(gate[1]))
      BY <1>0, <2>1 DEF AdmittedStaysAdmissible
    <3>3. gate[1] \in GateEntries
      BY <1>0, <2>1
    <3>4. Charge(gate[1]) \in Charges
      BY <3>3 DEF GateEntries, Charge, Charges
    <3>5. \A j \in DOMAIN gate' : gate'[j].phase = "queued"
      BY <1>0, <2>1, <3>1, RestIsQueued, OvertakenChain DEF SameEntry
    <3> QED
      BY <2>1, <3>1, <3>2, <3>4, <3>5, LedgerPaid
  <2>3. CASE ~gate[1].fresh
    BY <1>3, <1>9, <2>1, <2>3 DEF GateAppend
  <2> QED
    BY <2>2, <2>3
<1>10. CASE Timeout
  <2>1. \A i \in DOMAIN gate' :
          /\ i \in DOMAIN gate /\ gate'[i].phase = gate[i].phase
          /\ Charge(gate'[i]) = Charge(gate[i])
    BY <1>0, <1>10, AbandonedChain DEF Timeout, Charge
  <2>2. paid' = paid /\ grants' = grants
    BY <1>10 DEF Timeout, store
  <2> QED
    BY <1>0, <2>1, <2>2, LedgerKept DEF Serialised, AdmittedStaysAdmissible
<1>11. CASE PersistAppend
  BY <1>1, <1>2, <1>11 DEF PersistAppend
<1>12. CASE Crash
  BY <1>12, LedgerKept DEF Crash, store
<1>13. CASE gate' = gate /\ store' = store
  BY <1>1, <1>13 DEF store
<1> QED
  BY <1>4, <1>5, <1>6, <1>7, <1>8, <1>9, <1>10, <1>11, <1>12, <1>13
     DEF Next, GateStep, PersistStep, vars, store, BeginRun, VerifyGrant, Send, ResolveFails,
         Respond, Redirect, PersistStored, PersistRefused, PersistReadHead, TooLarge, SetClock

-----------------------------------------------------------------------------
(* The charge a run waits for *)

\* Nobody waits unless the run is at the gate.
LEMMA NoneLive ==
    ASSUME LiveIsAwaited, run.step # "gate"
    PROVE  \A i \in DOMAIN gate : ~gate[i].live
  BY DEF LiveIsAwaited

\* Every step keeps the live charge and the run together.
LEMMA LiveStep ==
    ASSUME TypeOK, LiveIsAwaited, [Next]_vars
    PROVE  LiveIsAwaited'
<1>0. gate \in Seq(GateEntries)
  BY DEF TypeOK
<1>1. ASSUME \A i \in DOMAIN gate' : ~gate'[i].live PROVE LiveIsAwaited'
  BY <1>1 DEF LiveIsAwaited
<1>2. ASSUME run' = run, \A i \in DOMAIN gate' : i \in DOMAIN gate /\ SameEntry(gate'[i], gate[i])
      PROVE  LiveIsAwaited'
  BY <1>2 DEF LiveIsAwaited, SameEntry
<1>3. ASSUME run' = run, 1 \in DOMAIN gate,
             \A i \in DOMAIN gate' : i \in Nat /\ i + 1 \in DOMAIN gate /\ SameEntry(gate'[i], gate[i + 1])
      PROVE  LiveIsAwaited'
  BY <1>3 DEF LiveIsAwaited, SameEntry
<1>4. ASSUME gate[1].live, 1 \in DOMAIN gate,
             \A i \in DOMAIN gate' : i \in Nat \ {0} /\ i + 1 \in DOMAIN gate /\ SameEntry(gate'[i], gate[i + 1])
      PROVE  LiveIsAwaited'
  <2>1. \A i \in DOMAIN gate' : i + 1 # 1
    BY <1>4
  <2>2. \A i \in DOMAIN gate' : ~gate'[i].live
    BY <1>4, <2>1 DEF LiveIsAwaited, SameEntry
  <2> QED
    BY <1>1, <2>2
<1>5. ASSUME 1 \in DOMAIN gate
      PROVE  \A i \in DOMAIN Without(gate, 1) :
               i \in Nat \ {0} /\ i + 1 \in DOMAIN gate /\ SameEntry(Without(gate, 1)[i], gate[i + 1])
  <2>1. Without(gate, 1) \in Seq(GateEntries)
    BY <1>0, <1>5, HeadLeaves
  <2>2. \A i \in DOMAIN Without(gate, 1) : i \in Nat \ {0}
    BY <2>1
  <2> QED
    BY <1>0, <1>5, <2>2, HeadLeaves DEF SameEntry
<1>6. ASSUME NEW a, Settle(1, a), 1 \in DOMAIN gate PROVE LiveIsAwaited'
  BY <1>3, <1>4, <1>5, <1>6 DEF Settle
<1>7. ASSUME gate' = Overtaken(gate), run' = run PROVE LiveIsAwaited'
  BY <1>0, <1>2, <1>7, OvertakenChain
<1>8. ASSUME gate' = gate, run.step # "gate" PROVE LiveIsAwaited'
  BY <1>1, <1>8, NoneLive
<1>9. ASSUME NEW a \in Approvers, SetApprover(a) PROVE LiveIsAwaited'
  BY <1>7, <1>9 DEF SetApprover
<1>10. ASSUME NEW g \in Grants, RegisterGrant(g) PROVE LiveIsAwaited'
  BY <1>10 DEF RegisterGrant, LiveIsAwaited
<1>11. CASE Consume
  <2>1. run \in RunStates
    BY <1>11, ActiveRun DEF Consume
  <2>2. /\ run'.step = "gate" /\ run'.req = run.req /\ run'.attempt = run.attempt
        /\ run'.grant = run.grant /\ run'.manifest = run.manifest
    BY <1>11, <2>1 DEF Consume, RunStates
  <2>3. \A i \in DOMAIN gate : ~gate[i].live
    BY <1>11, NoneLive DEF Consume
  <2>4. \A i \in DOMAIN gate' : gate'[i].live =>
          /\ i = Len(gate) + 1
          /\ gate'[i].req = run.req /\ gate'[i].attempt = run.attempt
          /\ gate'[i].grant = run.grant /\ gate'[i].manifest = run.manifest
    BY <1>0, <1>11, <2>3 DEF Consume
  <2> QED
    BY <2>2, <2>4 DEF LiveIsAwaited
<1>12. ASSUME NEW i \in DOMAIN gate, GateDecide(i) PROVE LiveIsAwaited'
  <2>1. i = 1
    BY <1>12, TurnIsHead DEF GateDecide
  <2>2. CASE Decision(Charge(gate[1])) = "pay"
    <3>1. gate' = [gate EXCEPT ![1] = [gate[1] EXCEPT !.phase = "checked"]] /\ run' = run
      BY <1>0, <1>12, <2>1, <2>2 DEF GateDecide
    <3>2. gate[1] \in GateEntries
      BY <1>0, <2>1
    <3>3. /\ DOMAIN gate' = DOMAIN gate
          /\ \A j \in DOMAIN gate :
               /\ gate'[j].live = gate[j].live /\ gate'[j].req = gate[j].req
               /\ gate'[j].attempt = gate[j].attempt /\ gate'[j].grant = gate[j].grant
               /\ gate'[j].manifest = gate[j].manifest
      BY <1>0, <2>1, <3>1, <3>2 DEF GateEntries
    <3> QED
      BY <3>1, <3>3 DEF LiveIsAwaited
  <2>3. CASE Decision(Charge(gate[1])) # "pay"
    BY <1>6, <1>12, <2>1, <2>3 DEF GateDecide
  <2> QED
    BY <2>2, <2>3
<1>13. ASSUME NEW i \in DOMAIN gate, GateReadHead(i) PROVE LiveIsAwaited'
  <2>1. /\ i = 1 /\ run' = run
        /\ gate' = [gate EXCEPT ![1] = [gate[1] EXCEPT !.phase = "append", !.fresh = TRUE]]
    BY <1>0, <1>13, TurnIsHead DEF GateReadHead
  <2>2. gate[1] \in GateEntries
    BY <1>0, <2>1
  <2>3. /\ DOMAIN gate' = DOMAIN gate
        /\ \A j \in DOMAIN gate :
             /\ gate'[j].live = gate[j].live /\ gate'[j].req = gate[j].req
             /\ gate'[j].attempt = gate[j].attempt /\ gate'[j].grant = gate[j].grant
             /\ gate'[j].manifest = gate[j].manifest
    BY <1>0, <2>1, <2>2 DEF GateEntries
  <2> QED
    BY <2>1, <2>3 DEF LiveIsAwaited
<1>14. ASSUME NEW i \in DOMAIN gate, GateAppend(i) PROVE LiveIsAwaited'
  <2>1. i = 1
    BY <1>14, TurnIsHead DEF GateAppend
  <2>2. CASE gate[1].fresh
    <3>1. gate' = Overtaken(Without(gate, 1))
      BY <1>14, <2>1, <2>2 DEF GateAppend
    <3>2. \A j \in DOMAIN gate' :
            j \in Nat \ {0} /\ j + 1 \in DOMAIN gate /\ SameEntry(gate'[j], gate[j + 1])
      <4>1. Without(gate, 1) \in Seq(GateEntries)
        BY <1>0, <2>1, HeadLeaves
      <4>2. /\ DOMAIN gate' = DOMAIN Without(gate, 1)
            /\ \A j \in DOMAIN gate' : SameEntry(gate'[j], Without(gate, 1)[j])
        BY <3>1, <4>1, OvertakenChain
      <4> QED
        BY <1>5, <2>1, <4>2 DEF SameEntry
    <3>3. CASE gate[1].live
      BY <1>4, <2>1, <3>2, <3>3
    <3>4. CASE ~gate[1].live /\ run = Idle
      <4>1. run' = run
        BY <1>14, <2>1, <2>2, <3>4 DEF GateAppend
      <4> QED
        BY <1>3, <2>1, <3>2, <4>1
    <3>5. CASE ~gate[1].live /\ run # Idle
      <4>1. run' = [run EXCEPT !.fresh = FALSE] /\ run \in RunStates
        BY <1>14, <2>1, <2>2, <3>5 DEF GateAppend, TypeOK
      <4>2. /\ run'.step = run.step /\ run'.req = run.req /\ run'.attempt = run.attempt
            /\ run'.grant = run.grant /\ run'.manifest = run.manifest
        BY <4>1 DEF RunStates
      <4> QED
        BY <3>2, <4>2 DEF LiveIsAwaited, SameEntry
    <3> QED
      BY <3>3, <3>4, <3>5
  <2>3. CASE ~gate[1].fresh
    BY <1>6, <1>14, <2>1, <2>3 DEF GateAppend
  <2> QED
    BY <2>2, <2>3
<1>15. CASE Timeout
  BY <1>0, <1>1, <1>15, AbandonedChain DEF Timeout
<1>16. CASE PersistAppend
  <2>1. \A i \in DOMAIN gate : ~gate[i].live
    BY <1>16, NoneLive DEF PersistAppend
  <2>2. gate' = gate \/ gate' = Overtaken(gate)
    BY <1>16 DEF PersistAppend
  <2> QED
    BY <1>0, <1>1, <2>1, <2>2, OvertakenChain DEF SameEntry
<1>17. CASE Crash
  BY <1>1, <1>17 DEF Crash
<1>18. CASE gate' = gate /\ run' = run
  BY <1>18 DEF LiveIsAwaited
<1>19. ASSUME NEW r \in Requests, NEW p \in Payloads, BeginRun(r, p) PROVE LiveIsAwaited'
  BY <1>8, <1>19 DEF BeginRun, Idle
<1>20. CASE \/ VerifyGrant \/ Send \/ ResolveFails
            \/ PersistStored \/ PersistRefused \/ PersistReadHead \/ TooLarge
  BY <1>8, <1>20 DEF VerifyGrant, Send, ResolveFails, PersistStored, PersistRefused,
                     PersistReadHead, TooLarge
<1>21. ASSUME NEW a \in Availability, Respond(a) PROVE LiveIsAwaited'
  BY <1>8, <1>21 DEF Respond
<1>22. ASSUME NEW u \in Urls, Redirect(u) PROVE LiveIsAwaited'
  BY <1>8, <1>22 DEF Redirect
<1> QED
  BY <1>9, <1>10, <1>11, <1>12, <1>13, <1>14, <1>15, <1>16, <1>17, <1>18, <1>19, <1>20,
     <1>21, <1>22 DEF Next, GateStep, PersistStep, SetClock, vars

-----------------------------------------------------------------------------
(* Charged and in scope *)

\* The gate lets an attempt pass without a new charge only if it is charged.
LEMMA AllowedIsPaid ==
    ASSUME NEW c, Decision(c) = "allowed"
    PROVE  \E d \in paid :
              /\ d.req = c.req /\ d.attempt = c.attempt /\ d.grant = c.grant
              /\ d.manifest = c.manifest
              /\ GrantValid(d.grant, d.manifest, d.at)
<1>1. /\ Readable
      /\ ~ \E d \in ReplayOf(c) : d.manifest # c.manifest
      /\ ReplayOf(c) # {}
  BY DEF Decision
<1>2. PICK d \in ReplayOf(c) : d.manifest = c.manifest
  BY <1>1
<1> QED
  BY <1>1, <1>2 DEF ReplayOf, SameCharge, Readable

\* Every step keeps an attempt that has passed the gate charged.
LEMMA PassedStep ==
    ASSUME TypeOK, LedgerInv, LiveIsAwaited, PassedIsCharged, [Next]_vars
    PROVE  PassedIsCharged'
<1>1. ASSUME run'.step \notin {"resolve", "wait"} PROVE PassedIsCharged'
  BY <1>1 DEF PassedIsCharged
<1>2. ASSUME paid \subseteq paid',
             run'.req = run.req, run'.attempt = run.attempt, run'.grant = run.grant,
             run'.manifest = run.manifest,
             run'.step \in {"resolve", "wait"} => run.step \in {"resolve", "wait"}
      PROVE  PassedIsCharged'
  BY <1>2 DEF PassedIsCharged, GrantValid, ManifestHosts
<1>3. ASSUME run' = run, paid' = paid PROVE PassedIsCharged'
  BY <1>3 DEF PassedIsCharged, GrantValid, ManifestHosts
<1>4. ASSUME run \in RunStates, NEW a, Conclude(a) PROVE PassedIsCharged'
  <2>1. run'.step = "persist"
    BY <1>4 DEF Conclude, RunStates
  <2> QED
    BY <1>1, <2>1
<1>5. ASSUME run' = Idle PROVE PassedIsCharged'
  BY <1>1, <1>5 DEF Idle
<1>6. ASSUME NEW r \in Requests, NEW p \in Payloads, BeginRun(r, p) PROVE PassedIsCharged'
  BY <1>1, <1>6 DEF BeginRun
<1>7. CASE VerifyGrant
  <2>1. run \in RunStates
    BY <1>7, ActiveRun DEF VerifyGrant
  <2>2. CASE run' = [run EXCEPT !.step = "consume"]
    BY <1>1, <2>1, <2>2 DEF RunStates
  <2> QED
    BY <1>4, <1>7, <2>1, <2>2 DEF VerifyGrant
<1>8. CASE Consume
  <2>1. run \in RunStates
    BY <1>8, ActiveRun DEF Consume
  <2>2. run'.step = "gate"
    BY <1>8, <2>1 DEF Consume, RunStates
  <2> QED
    BY <1>1, <2>2
<1>9. ASSUME 1 \in DOMAIN gate, NEW a \in {"allowed", "denied", "error"}, Settle(1, a),
             paid' = paid, a = "allowed" => Decision(Charge(gate[1])) = "allowed"
      PROVE  PassedIsCharged'
  <2>1. CASE ~gate[1].live
    BY <1>3, <1>9, <2>1 DEF Settle
  <2>2. CASE gate[1].live
    <3>1. /\ run.step = "gate" /\ run.req = gate[1].req /\ run.attempt = gate[1].attempt
          /\ run.grant = gate[1].grant /\ run.manifest = gate[1].manifest
      BY <1>9, <2>2 DEF LiveIsAwaited
    <3>2. run \in RunStates
      BY <3>1, ActiveRun
    <3>3. run' = [run EXCEPT !.step = AfterGate[a], !.avail = AvailAfterGate[a]]
      BY <1>9, <2>2 DEF Settle
    <3>4. /\ run'.step = AfterGate[a] /\ run'.req = run.req /\ run'.attempt = run.attempt
          /\ run'.grant = run.grant /\ run'.manifest = run.manifest
      BY <3>2, <3>3 DEF RunStates
    <3>5. CASE a # "allowed"
      BY <1>1, <1>9, <3>4, <3>5 DEF AfterGate
    <3>6. CASE a = "allowed"
      <4>1. \E d \in paid :
              /\ d.req = Charge(gate[1]).req /\ d.attempt = Charge(gate[1]).attempt
              /\ d.grant = Charge(gate[1]).grant /\ d.manifest = Charge(gate[1]).manifest
              /\ GrantValid(d.grant, d.manifest, d.at)
        BY <1>9, <3>6, AllowedIsPaid
      <4> QED
        BY <1>9, <3>1, <3>4, <4>1 DEF Charge, PassedIsCharged, GrantValid, ManifestHosts
    <3> QED
      BY <3>5, <3>6
  <2> QED
    BY <2>1, <2>2
<1>10. ASSUME NEW i \in DOMAIN gate, GateDecide(i) PROVE PassedIsCharged'
  <2>1. i = 1 /\ paid' = paid
    BY <1>10, TurnIsHead DEF GateDecide, store
  <2>2. CASE Decision(Charge(gate[1])) = "pay"
    BY <1>3, <1>10, <2>1, <2>2 DEF GateDecide
  <2>3. CASE Decision(Charge(gate[1])) # "pay"
    <3>1. Settle(1, Decision(Charge(gate[1])))
      BY <1>10, <2>1, <2>3 DEF GateDecide
    <3> QED
      BY <1>9, <2>1, <2>3, <3>1, DecisionType
  <2> QED
    BY <2>2, <2>3
<1>11. ASSUME NEW i \in DOMAIN gate, GateAppend(i) PROVE PassedIsCharged'
  <2>1. i = 1 /\ gate[1].phase = "append"
    BY <1>11, TurnIsHead DEF GateAppend
  <2>2. CASE ~gate[1].fresh
    BY <1>9, <1>11, <2>1, <2>2 DEF GateAppend
  <2>3. CASE gate[1].fresh
    <3>1. paid' = paid \cup {Charge(gate[1])}
      BY <1>11, <2>1, <2>3 DEF GateAppend
    <3>2. CASE gate[1].live
      <4>1. /\ run.step = "gate" /\ run.req = gate[1].req /\ run.attempt = gate[1].attempt
            /\ run.grant = gate[1].grant /\ run.manifest = gate[1].manifest
        BY <2>1, <3>2 DEF LiveIsAwaited
      <4>2. run' = [run EXCEPT !.step = "resolve"] /\ run \in RunStates
        BY <1>11, <2>1, <2>3, <3>2, <4>1, ActiveRun DEF GateAppend
      <4>3. /\ run'.req = run.req /\ run'.attempt = run.attempt
            /\ run'.grant = run.grant /\ run'.manifest = run.manifest
        BY <4>2 DEF RunStates
      <4>4. GrantValid(Charge(gate[1]).grant, Charge(gate[1]).manifest, Charge(gate[1]).at)
        BY <2>1 DEF LedgerInv, AdmittedStaysAdmissible, Admissible
      <4> QED
        BY <3>1, <4>1, <4>3, <4>4 DEF Charge, PassedIsCharged, GrantValid, ManifestHosts
    <3>3. CASE ~gate[1].live /\ run = Idle
      BY <1>5, <1>11, <2>1, <2>3, <3>3 DEF GateAppend
    <3>4. CASE ~gate[1].live /\ run # Idle
      <4>1. run' = [run EXCEPT !.fresh = FALSE] /\ run \in RunStates
        BY <1>11, <2>1, <2>3, <3>4 DEF GateAppend, TypeOK
      <4>2. /\ run'.step = run.step /\ run'.req = run.req /\ run'.attempt = run.attempt
            /\ run'.grant = run.grant /\ run'.manifest = run.manifest
        BY <4>1 DEF RunStates
      <4> QED
        BY <1>2, <3>1, <4>2
    <3> QED
      BY <3>2, <3>3, <3>4
  <2> QED
    BY <2>2, <2>3
<1>12. CASE Send
  <2>1. run \in RunStates /\ run.step = "resolve"
    BY <1>12, ActiveRun DEF Send
  <2>2. /\ run'.req = run.req /\ run'.attempt = run.attempt
        /\ run'.grant = run.grant /\ run'.manifest = run.manifest
    BY <1>12, <2>1 DEF Send, RunStates
  <2> QED
    BY <1>2, <1>12, <2>1, <2>2 DEF Send, store
<1>13. CASE ResolveFails
  BY <1>4, <1>13, ActiveRun DEF ResolveFails
<1>14. ASSUME NEW a \in Availability, Respond(a) PROVE PassedIsCharged'
  BY <1>4, <1>14, ActiveRun DEF Respond
<1>15. ASSUME NEW u \in Urls, Redirect(u) PROVE PassedIsCharged'
  <2>1. run \in RunStates
    BY <1>15, ActiveRun DEF Redirect
  <2>2. CASE run' = [run EXCEPT !.step = "verify", !.at = u, !.visited = @ \cup {u},
                                !.attempt = @ + 1]
    BY <1>1, <2>1, <2>2 DEF RunStates
  <2> QED
    BY <1>4, <1>15, <2>1, <2>2 DEF Redirect
<1>16. CASE Timeout
  BY <1>4, <1>16, ActiveRun DEF Timeout
<1>17. CASE PersistStep
  <2>1. run \in RunStates /\ run.step \in {"persist", "append"}
    BY <1>17, ActiveRun DEF PersistStep, PersistStored, PersistRefused, PersistReadHead,
                            PersistAppend
  <2>2. CASE run' = Idle
    BY <1>5, <2>2
  <2>3. CASE run' = [run EXCEPT !.done = @ + 1]
    BY <1>1, <2>1, <2>3 DEF RunStates
  <2>4. CASE run' = [run EXCEPT !.step = "append", !.fresh = TRUE]
    BY <1>1, <2>1, <2>4 DEF RunStates
  <2>5. CASE run' = [run EXCEPT !.step = "persist", !.done = @ + 1, !.fresh = FALSE]
    BY <1>1, <2>1, <2>5 DEF RunStates
  <2> QED
    BY <1>17, <2>2, <2>3, <2>4, <2>5
       DEF PersistStep, PersistStored, PersistRefused, PersistReadHead, PersistAppend
<1>18. CASE Crash \/ TooLarge
  BY <1>5, <1>18 DEF Crash, TooLarge
<1>19. ASSUME NEW a \in Approvers, SetApprover(a) PROVE PassedIsCharged'
  BY <1>3, <1>19 DEF SetApprover
<1>20. ASSUME NEW g \in Grants, RegisterGrant(g) PROVE PassedIsCharged'
  BY <1>3, <1>20 DEF RegisterGrant
<1>21. ASSUME NEW i \in DOMAIN gate, GateReadHead(i) PROVE PassedIsCharged'
  BY <1>3, <1>21 DEF GateReadHead, store
<1>22. CASE run' = run /\ store' = store
  BY <1>3, <1>22 DEF store
<1> QED
  BY <1>6, <1>7, <1>8, <1>10, <1>11, <1>12, <1>13, <1>14, <1>15, <1>16, <1>17, <1>18,
     <1>19, <1>20, <1>21, <1>22 DEF Next, GateStep, SetClock, vars, store

\* Every step keeps a run within its grant, its issuer and its host.
LEMMA ScopeStep ==
    ASSUME TypeOK, LiveIsAwaited, RunInScope, [Next]_vars
    PROVE  RunInScope'
<1>1. ASSUME run' = Idle PROVE RunInScope'
  BY <1>1 DEF RunInScope
<1>2. ASSUME run \in RunStates, run # Idle, grants' = grants, approvers' = approvers,
             run'.grant = run.grant, run'.manifest = run.manifest,
             run'.at = run.at, run'.url = run.url,
             run'.step \in {"consume", "gate", "resolve", "wait"} =>
                \/ run.step \in {"consume", "gate", "resolve", "wait"}
                \/ UrlAuthorized(run.at, run.manifest, run.grant)
      PROVE  RunInScope'
  BY <1>2 DEF RunInScope, UrlAuthorized, ManifestUrls
<1>3. ASSUME run' = run, grants' = grants, approvers' = approvers PROVE RunInScope'
  BY <1>3 DEF RunInScope, UrlAuthorized, ManifestUrls
<1>4. ASSUME run \in RunStates, run # Idle, NEW a, Conclude(a),
             grants' = grants, approvers' = approvers
      PROVE  RunInScope'
  <2>1. /\ run'.step = "persist" /\ run'.grant = run.grant /\ run'.manifest = run.manifest
        /\ run'.at = run.at /\ run'.url = run.url
    BY <1>4 DEF Conclude, RunStates
  <2> QED
    BY <1>2, <1>4, <2>1
<1>5. ASSUME NEW r \in Requests, NEW p \in Payloads, BeginRun(r, p) PROVE RunInScope'
  <2>1. /\ run'.step = "verify" /\ run'.grant = p.grant /\ run'.at = p.url /\ run'.url = p.url
        /\ p.grant \in grants /\ Verified(p.grant, ManifestFor(p), clock)
        /\ grants' = grants /\ approvers' = approvers
    BY <1>5 DEF BeginRun, store
  <2> QED
    BY <2>1 DEF RunInScope, Verified
<1>6. CASE VerifyGrant
  <2>1. run \in RunStates /\ run # Idle /\ grants' = grants /\ approvers' = approvers
    BY <1>6, ActiveRun DEF VerifyGrant, store
  <2>2. CASE Verified(run.grant, run.manifest, clock)
             /\ UrlAuthorized(run.at, run.manifest, run.grant)
    <3>1. run' = [run EXCEPT !.step = "consume"]
      BY <1>6, <2>2 DEF VerifyGrant
    <3>2. /\ run'.grant = run.grant /\ run'.manifest = run.manifest
          /\ run'.at = run.at /\ run'.url = run.url
      BY <2>1, <3>1 DEF RunStates
    <3> QED
      BY <1>2, <2>1, <2>2, <3>2
  <2>3. CASE ~(Verified(run.grant, run.manifest, clock)
               /\ UrlAuthorized(run.at, run.manifest, run.grant))
    BY <1>4, <1>6, <2>1, <2>3 DEF VerifyGrant
  <2> QED
    BY <2>2, <2>3
<1>7. ASSUME run \in RunStates, run # Idle, grants' = grants, approvers' = approvers,
             \/ run' = [run EXCEPT !.step = "gate"] /\ run.step = "consume"
             \/ run' = [run EXCEPT !.step = "resolve"] /\ run.step = "gate"
             \/ run' = [run EXCEPT !.step = "wait"] /\ run.step = "resolve"
             \/ run' = [run EXCEPT !.fresh = FALSE]
             \/ run' = [run EXCEPT !.done = @ + 1]
             \/ run' = [run EXCEPT !.step = "append", !.fresh = TRUE]
             \/ run' = [run EXCEPT !.step = "persist", !.done = @ + 1, !.fresh = FALSE]
      PROVE  RunInScope'
  <2>1. /\ run'.grant = run.grant /\ run'.manifest = run.manifest
        /\ run'.at = run.at /\ run'.url = run.url
    BY <1>7 DEF RunStates
  <2>2. run'.step \in {"consume", "gate", "resolve", "wait"} =>
          run.step \in {"consume", "gate", "resolve", "wait"}
    BY <1>7 DEF RunStates
  <2> QED
    BY <1>2, <1>7, <2>1, <2>2
<1>8. CASE Consume
  BY <1>7, <1>8, ActiveRun DEF Consume, store
<1>9. ASSUME 1 \in DOMAIN gate, NEW a \in {"allowed", "denied", "error"}, Settle(1, a),
             grants' = grants, approvers' = approvers
      PROVE  RunInScope'
  <2>1. CASE ~gate[1].live
    BY <1>3, <1>9, <2>1 DEF Settle
  <2>2. CASE gate[1].live
    <3>1. run \in RunStates /\ run # Idle /\ run.step = "gate"
      BY <1>9, <2>2, ActiveRun DEF LiveIsAwaited
    <3>2. run' = [run EXCEPT !.step = AfterGate[a], !.avail = AvailAfterGate[a]]
      BY <1>9, <2>2 DEF Settle
    <3>3. /\ run'.grant = run.grant /\ run'.manifest = run.manifest
          /\ run'.at = run.at /\ run'.url = run.url
      BY <3>1, <3>2 DEF RunStates
    <3> QED
      BY <1>2, <1>9, <3>1, <3>3
  <2> QED
    BY <2>1, <2>2
<1>10. ASSUME NEW i \in DOMAIN gate, GateDecide(i) PROVE RunInScope'
  <2>1. i = 1 /\ grants' = grants /\ approvers' = approvers
    BY <1>10, TurnIsHead DEF GateDecide, store
  <2>2. CASE Decision(Charge(gate[1])) = "pay"
    BY <1>3, <1>10, <2>1, <2>2 DEF GateDecide
  <2>3. CASE Decision(Charge(gate[1])) # "pay"
    <3>1. Settle(1, Decision(Charge(gate[1])))
      BY <1>10, <2>1, <2>3 DEF GateDecide
    <3> QED
      BY <1>9, <2>1, <2>3, <3>1, DecisionType
  <2> QED
    BY <2>2, <2>3
<1>11. ASSUME NEW i \in DOMAIN gate, GateAppend(i) PROVE RunInScope'
  <2>1. i = 1 /\ grants' = grants /\ approvers' = approvers
    BY <1>11, TurnIsHead DEF GateAppend
  <2>2. CASE ~gate[1].fresh
    BY <1>9, <1>11, <2>1, <2>2 DEF GateAppend
  <2>3. CASE gate[1].fresh
    <3>1. CASE gate[1].live
      <4>1. run \in RunStates /\ run # Idle /\ run.step = "gate"
        BY <2>1, <3>1, ActiveRun DEF LiveIsAwaited
      <4>2. run' = [run EXCEPT !.step = "resolve"]
        BY <1>11, <2>1, <2>3, <3>1 DEF GateAppend
      <4> QED
        BY <1>7, <2>1, <4>1, <4>2
    <3>2. CASE ~gate[1].live /\ run = Idle
      BY <1>1, <1>11, <2>1, <2>3, <3>2 DEF GateAppend
    <3>3. CASE ~gate[1].live /\ run # Idle
      <4>1. run' = [run EXCEPT !.fresh = FALSE] /\ run \in RunStates
        BY <1>11, <2>1, <2>3, <3>3 DEF GateAppend, TypeOK
      <4> QED
        BY <1>7, <2>1, <3>3, <4>1
    <3> QED
      BY <3>1, <3>2, <3>3
  <2> QED
    BY <2>2, <2>3
<1>12. CASE Send
  BY <1>7, <1>12, ActiveRun DEF Send, store
<1>13. CASE ResolveFails
  BY <1>4, <1>13, ActiveRun DEF ResolveFails, store
<1>14. ASSUME NEW a \in Availability, Respond(a) PROVE RunInScope'
  BY <1>4, <1>14, ActiveRun DEF Respond, store
<1>15. ASSUME NEW u \in Urls, Redirect(u) PROVE RunInScope'
  <2>1. run \in RunStates /\ run # Idle /\ grants' = grants /\ approvers' = approvers
    BY <1>15, ActiveRun DEF Redirect, store
  <2>2. CASE run.attempt < MaxRedirects /\ RedirectAllowed(u)
    <3>1. run' = [run EXCEPT !.step = "verify", !.at = u, !.visited = @ \cup {u},
                             !.attempt = @ + 1]
      BY <1>15, <2>2 DEF Redirect
    <3>2. /\ run'.step = "verify" /\ run'.at = u /\ run'.url = run.url
          /\ run'.grant = run.grant /\ run'.manifest = run.manifest
      BY <2>1, <3>1 DEF RunStates
    <3>3. (run.manifest = Provider /\ AllowCrossHost) \/ HostOf[u] = HostOf[run.at]
      BY <2>2 DEF RedirectAllowed
    <3> QED
      BY <2>1, <3>2, <3>3 DEF RunInScope
  <2>3. CASE ~(run.attempt < MaxRedirects /\ RedirectAllowed(u))
    BY <1>4, <1>15, <2>1, <2>3 DEF Redirect
  <2> QED
    BY <2>2, <2>3
<1>16. CASE Timeout
  BY <1>4, <1>16, ActiveRun DEF Timeout, store
<1>17. CASE PersistStep
  <2>1. run \in RunStates /\ run # Idle /\ grants' = grants /\ approvers' = approvers
    BY <1>17, ActiveRun DEF PersistStep, PersistStored, PersistRefused, PersistReadHead,
                            PersistAppend, store
  <2>2. CASE run' = Idle
    BY <1>1, <2>2
  <2>3. CASE run' # Idle
    BY <1>7, <1>17, <2>1, <2>3
       DEF PersistStep, PersistStored, PersistRefused, PersistReadHead, PersistAppend
  <2> QED
    BY <2>2, <2>3
<1>18. CASE Crash \/ TooLarge
  BY <1>1, <1>18 DEF Crash, TooLarge
<1>19. ASSUME NEW a \in Approvers, SetApprover(a) PROVE RunInScope'
  BY <1>1, <1>19 DEF SetApprover
<1>20. ASSUME NEW g \in Grants, RegisterGrant(g) PROVE RunInScope'
  BY <1>1, <1>20 DEF RegisterGrant
<1>21. ASSUME NEW i \in DOMAIN gate, GateReadHead(i) PROVE RunInScope'
  BY <1>3, <1>21 DEF GateReadHead, store
<1>22. CASE run' = run /\ store' = store
  BY <1>3, <1>22 DEF store
<1> QED
  BY <1>5, <1>6, <1>8, <1>10, <1>11, <1>12, <1>13, <1>14, <1>15, <1>16, <1>17, <1>18,
     <1>19, <1>20, <1>21, <1>22 DEF Next, GateStep, SetClock, vars, store

-----------------------------------------------------------------------------
(* The records of a run *)

\* A step that stores no record keeps the records' part of the invariant, if
\* the run goes on with what it has recorded, or has recorded nothing.
LEMMA RecordsKept ==
    ASSUME RecordedSoFar, AnswerOfOneRun, run # Idle, records' = records,
           run'.req = run.req,
           run'.step \notin {"persist", "append"} => run'.done = 0,
           \/ run'.done = 0
           \/ /\ run'.done = run.done /\ run'.avail = run.avail
              /\ run'.url = run.url /\ run'.now = run.now
    PROVE  RecordedSoFar' /\ AnswerOfOneRun'
<1>1. AnswerOfOneRun'
  BY DEF AnswerOfOneRun
<1>2. ~Answered(run.req)'
  BY DEF RecordedSoFar, Answered
<1>3. CASE run'.done = 0
  BY <1>1, <1>2, <1>3 DEF RecordedSoFar
<1>4. CASE /\ run'.done = run.done /\ run'.avail = run.avail
           /\ run'.url = run.url /\ run'.now = run.now
  BY <1>1, <1>2, <1>4 DEF RecordedSoFar, Value
<1> QED
  BY <1>3, <1>4

\* Every step keeps the records of a run those of one execution.
LEMMA RecordsStep ==
    ASSUME TypeOK, LiveIsAwaited, RecordedSoFar, AnswerOfOneRun, [Next]_vars
    PROVE  RecordedSoFar' /\ AnswerOfOneRun'
<1> DEFINE Goal == RecordedSoFar' /\ AnswerOfOneRun'
<1>1. ASSUME run' = Idle, records' = records PROVE Goal
  BY <1>1 DEF RecordedSoFar, AnswerOfOneRun
<1>2. ASSUME run' = run, records' = records PROVE Goal
  BY <1>2 DEF RecordedSoFar, AnswerOfOneRun, Answered, Value
<1>3. ASSUME run.step \in {"verify", "consume", "gate", "resolve", "wait"}
      PROVE  run \in RunStates /\ run # Idle /\ run.done = 0
  BY <1>3, ActiveRun DEF RecordedSoFar
<1>4. ASSUME run.step \in {"verify", "consume", "gate", "resolve", "wait"},
             NEW a, Conclude(a), records' = records
      PROVE  Goal
  <2>1. run'.req = run.req /\ run'.done = 0
    BY <1>3, <1>4 DEF Conclude, RunStates
  <2> QED
    BY <1>3, <1>4, <2>1, RecordsKept
<1>5. ASSUME NEW r \in Requests, NEW p \in Payloads, BeginRun(r, p) PROVE Goal
  <2>1. /\ run'.req = r /\ run'.done = 0 /\ ~Answered(r) /\ records' = records
    BY <1>5 DEF BeginRun, store
  <2>2. AnswerOfOneRun'
    BY <2>1 DEF AnswerOfOneRun
  <2> QED
    BY <2>1, <2>2 DEF RecordedSoFar, Answered
<1>6. ASSUME run.step \in {"verify", "consume", "gate", "resolve", "wait"}, records' = records,
             \/ \E s \in {"consume", "gate", "resolve", "wait"} : run' = [run EXCEPT !.step = s]
             \/ \E s, a : run' = [run EXCEPT !.step = s, !.avail = a]
             \/ \E u : run' = [run EXCEPT !.step = "verify", !.at = u,
                                          !.visited = @ \cup {u}, !.attempt = @ + 1]
      PROVE  Goal
  <2>1. run'.req = run.req /\ run'.done = 0
    BY <1>3, <1>6 DEF RunStates
  <2> QED
    BY <1>3, <1>6, <2>1, RecordsKept
<1>7. CASE VerifyGrant
  BY <1>4, <1>6, <1>7 DEF VerifyGrant, store
<1>8. CASE Consume
  BY <1>6, <1>8 DEF Consume, store
<1>9. ASSUME 1 \in DOMAIN gate, NEW a, Settle(1, a), records' = records PROVE Goal
  <2>1. CASE ~gate[1].live
    BY <1>2, <1>9, <2>1 DEF Settle
  <2>2. CASE gate[1].live
    <3>1. run.step = "gate"
      BY <1>9, <2>2 DEF LiveIsAwaited
    <3>2. run' = [run EXCEPT !.step = AfterGate[a], !.avail = AvailAfterGate[a]]
      BY <1>9, <2>2 DEF Settle
    <3> QED
      BY <1>6, <1>9, <3>1, <3>2
  <2> QED
    BY <2>1, <2>2
<1>10. ASSUME NEW i \in DOMAIN gate, GateDecide(i) PROVE Goal
  <2>1. i = 1 /\ records' = records
    BY <1>10, TurnIsHead DEF GateDecide, store
  <2>2. CASE Decision(Charge(gate[1])) = "pay"
    BY <1>2, <1>10, <2>1, <2>2 DEF GateDecide
  <2>3. CASE Decision(Charge(gate[1])) # "pay"
    BY <1>9, <1>10, <2>1, <2>3 DEF GateDecide
  <2> QED
    BY <2>2, <2>3
<1>11. ASSUME NEW i \in DOMAIN gate, GateAppend(i) PROVE Goal
  <2>1. i = 1 /\ records' = records
    BY <1>11, TurnIsHead DEF GateAppend
  <2>2. CASE ~gate[1].fresh
    BY <1>9, <1>11, <2>1, <2>2 DEF GateAppend
  <2>3. CASE gate[1].fresh
    <3>1. CASE gate[1].live
      <4>1. run.step = "gate"
        BY <2>1, <3>1 DEF LiveIsAwaited
      <4>2. run' = [run EXCEPT !.step = "resolve"]
        BY <1>11, <2>1, <2>3, <3>1 DEF GateAppend
      <4> QED
        BY <1>6, <2>1, <4>1, <4>2
    <3>2. CASE ~gate[1].live /\ run = Idle
      BY <1>1, <1>11, <2>1, <2>3, <3>2 DEF GateAppend
    <3>3. CASE ~gate[1].live /\ run # Idle
      <4>1. run' = [run EXCEPT !.fresh = FALSE] /\ run \in RunStates
        BY <1>11, <2>1, <2>3, <3>3 DEF GateAppend, TypeOK
      <4>2. /\ run'.req = run.req /\ run'.step = run.step /\ run'.done = run.done
            /\ run'.avail = run.avail /\ run'.url = run.url /\ run'.now = run.now
        BY <4>1 DEF RunStates
      <4>3. run'.step \notin {"persist", "append"} => run'.done = 0
        BY <3>3, <4>2 DEF RecordedSoFar
      <4> QED
        BY <2>1, <3>3, <4>2, <4>3, RecordsKept
    <3> QED
      BY <3>1, <3>2, <3>3
  <2> QED
    BY <2>2, <2>3
<1>12. CASE Send
  BY <1>6, <1>12 DEF Send, store
<1>13. CASE ResolveFails
  BY <1>4, <1>13 DEF ResolveFails, store
<1>14. ASSUME NEW a \in Availability, Respond(a) PROVE Goal
  BY <1>4, <1>14 DEF Respond, store
<1>15. ASSUME NEW u \in Urls, Redirect(u) PROVE Goal
  BY <1>4, <1>6, <1>15 DEF Redirect, store
<1>16. CASE Timeout
  BY <1>4, <1>16 DEF Timeout, store
<1>17. CASE PersistStored
  <2>1. /\ run \in RunStates /\ run # Idle /\ records' = records
        /\ run' = [run EXCEPT !.done = @ + 1] /\ run.step = "persist"
    BY <1>17, ActiveRun DEF PersistStored, store
  <2>2. /\ run'.req = run.req /\ run'.step = "persist" /\ run'.done = run.done + 1
        /\ run'.avail = run.avail /\ run'.url = run.url /\ run'.now = run.now
    BY <2>1 DEF RunStates
  <2>3. PICK rec \in records : Stored(rec)
    BY <1>17 DEF PersistStored, Reusable
  <2>4. /\ rec.label = Labels(run.avail)[run.done + 1] /\ rec.value = Value
        /\ rec.label \in {"opportunity", "command"} => rec.req = run.req
    BY <2>3 DEF Stored, Label
  <2>5. \A i \in 1 .. run.done + 1 :
          \E d \in records :
             /\ d.label = Labels(run.avail)[i]
             /\ d.value = Value
             /\ d.label \in {"opportunity", "command"} => d.req = run.req
    <3>1. \A i \in 1 .. run.done + 1 : i \in 1 .. run.done \/ i = run.done + 1
      BY <2>1 DEF RunStates
    <3> QED
      BY <2>1, <2>4, <3>1 DEF RecordedSoFar
  <2>6. Value' = Value /\ Labels(run.avail)' = Labels(run.avail)
    BY <2>2 DEF Value, Labels
  <2>7. ~Answered(run.req)'
    BY <2>1, <2>2 DEF RecordedSoFar, Answered
  <2>8. AnswerOfOneRun'
    BY <2>1 DEF AnswerOfOneRun
  <2> QED
    BY <2>1, <2>2, <2>5, <2>6, <2>7, <2>8 DEF RecordedSoFar
<1>18. CASE PersistRefused
  BY <1>1, <1>18 DEF PersistRefused, store
<1>19. CASE PersistReadHead
  <2>1. run \in RunStates /\ run # Idle /\ records' = records
        /\ run' = [run EXCEPT !.step = "append", !.fresh = TRUE]
    BY <1>19, ActiveRun DEF PersistReadHead, store
  <2>2. /\ run'.req = run.req /\ run'.step = "append" /\ run'.done = run.done
        /\ run'.avail = run.avail /\ run'.url = run.url /\ run'.now = run.now
    BY <2>1 DEF RunStates
  <2> QED
    BY <2>1, <2>2, RecordsKept
<1>20. CASE PersistAppend
  <2>1. run \in RunStates /\ run # Idle /\ run.done < Len(Labels(run.avail))
    BY <1>20, ActiveRun DEF PersistAppend
  <2>2. CASE ~run.fresh
    BY <1>1, <1>20, <2>2 DEF PersistAppend
  <2>3. CASE run.fresh
    <3> DEFINE new == [req |-> run.req, label |-> Label, value |-> Value]
    <3>1. records' = records \cup {new}
      BY <1>20, <2>3 DEF PersistAppend
    <3>2. /\ new.label = Labels(run.avail)[run.done + 1] /\ new.value = Value
          /\ new.req = run.req /\ new.label = Label
      BY DEF Label
    <3>3. \A i \in 1 .. run.done + 1 :
            \E d \in records' :
               /\ d.label = Labels(run.avail)[i]
               /\ d.value = Value
               /\ d.label \in {"opportunity", "command"} => d.req = run.req
      <4>1. \A i \in 1 .. run.done + 1 : i \in 1 .. run.done \/ i = run.done + 1
        BY <2>1 DEF RunStates
      <4> HIDE DEF new
      <4> QED
        BY <2>1, <3>1, <3>2, <4>1 DEF RecordedSoFar
    <3>4. AnswerOfOneRun'
      <4> SUFFICES ASSUME NEW cmd \in records', cmd.label = "command",
                          NEW i \in DOMAIN Labels(cmd.value.avail)
                   PROVE  \E rec \in records' :
                             /\ rec.label = Labels(cmd.value.avail)[i]
                             /\ rec.value = cmd.value
                             /\ rec.label \in {"opportunity", "command"} => rec.req = cmd.req
        BY DEF AnswerOfOneRun
      <4>1. CASE cmd \in records
        <5>1. \E rec \in records :
                 /\ rec.label = Labels(cmd.value.avail)[i]
                 /\ rec.value = cmd.value
                 /\ rec.label \in {"opportunity", "command"} => rec.req = cmd.req
          BY <4>1 DEF AnswerOfOneRun
        <5> QED
          BY <3>1, <5>1
      <4>2. CASE cmd = new
        <5>1. cmd.value = Value /\ cmd.req = run.req /\ Label = "command"
              /\ cmd.value.avail = run.avail
          BY <3>2, <4>2 DEF Value
        <5>2. run.done + 1 = Len(Labels(run.avail))
          <6>1. run.done + 1 \in 1 .. Len(Labels(run.avail))
            BY <2>1, LabelFacts DEF RunStates
          <6> QED
            BY <5>1, <6>1, LabelFacts DEF Label
        <5>3. i \in 1 .. run.done + 1
          BY <5>1, <5>2, LabelFacts
        <5> QED
          BY <3>3, <5>1, <5>3
      <4> QED
        BY <3>1, <4>1, <4>2
    <3>5. CASE Label = "command"
      <4>1. run' = Idle
        BY <1>20, <2>3, <3>5 DEF PersistAppend
      <4> QED
        BY <3>4, <4>1 DEF RecordedSoFar
    <3>6. CASE Label # "command"
      <4>1. run' = [run EXCEPT !.step = "persist", !.done = @ + 1, !.fresh = FALSE]
        BY <1>20, <2>3, <3>6 DEF PersistAppend
      <4>2. /\ run'.req = run.req /\ run'.step = "persist" /\ run'.done = run.done + 1
            /\ run'.avail = run.avail /\ run'.url = run.url /\ run'.now = run.now
        BY <2>1, <4>1 DEF RunStates
      <4>3. Value' = Value /\ Labels(run.avail)' = Labels(run.avail)
        BY <4>2 DEF Value, Labels
      <4>4. ~Answered(run.req)'
        <5> HIDE DEF new
        <5> QED
          BY <2>1, <3>1, <3>2, <3>6, <4>2 DEF RecordedSoFar, Answered
      <4> QED
        BY <3>3, <3>4, <4>2, <4>3, <4>4 DEF RecordedSoFar
    <3> QED
      BY <3>5, <3>6
  <2> QED
    BY <2>2, <2>3
<1>21. CASE Crash \/ TooLarge
  BY <1>1, <1>21 DEF Crash, TooLarge, store
<1>22. ASSUME NEW a \in Approvers, SetApprover(a) PROVE Goal
  BY <1>2, <1>22 DEF SetApprover
<1>23. ASSUME NEW g \in Grants, RegisterGrant(g) PROVE Goal
  BY <1>2, <1>23 DEF RegisterGrant
<1>24. ASSUME NEW i \in DOMAIN gate, GateReadHead(i) PROVE Goal
  BY <1>2, <1>24 DEF GateReadHead, store
<1>25. CASE run' = run /\ store' = store
  BY <1>2, <1>25 DEF store
<1> QED
  BY <1>5, <1>7, <1>8, <1>10, <1>11, <1>12, <1>13, <1>14, <1>15, <1>16, <1>17, <1>18,
     <1>19, <1>20, <1>21, <1>22, <1>23, <1>24, <1>25
     DEF Next, GateStep, PersistStep, SetClock, vars, store

-----------------------------------------------------------------------------
(* The theorems *)

\* The invariant holds initially.
LEMMA InitInv == ASSUME Init PROVE Inv
<1>1. /\ MaxTime \in Nat /\ MaxRuns \in Nat /\ MaxCrashes \in Nat /\ MaxRequests \in Nat
      /\ \A g \in Grants : Budget[g] \in Nat
  <2>1. MaxTime \in Nat /\ MaxRuns \in Nat /\ MaxCrashes \in Nat /\ MaxRequests \in Nat
    BY DiscoveryAssumption
  <2> QED
    BY <2>1, DiscoveryAssumption
<1>2. TypeOK
  BY <1>1 DEF Init, TypeOK, Times
<1>3. Serialised /\ LiveIsAwaited /\ AdmittedStaysAdmissible
  BY DEF Init, Serialised, LiveIsAwaited, AdmittedStaysAdmissible
<1>4. PassedIsCharged /\ RunInScope /\ RecordedSoFar
  BY DEF Init, Idle, PassedIsCharged, RunInScope, RecordedSoFar
<1>5. IsFiniteSet(paid)
  BY FS_EmptySet DEF Init
<1>6. BudgetHeld
  <2> SUFFICES ASSUME NEW g \in Grants
               PROVE  Cardinality({c \in paid : c.grant = g}) <= Budget[g]
    BY DEF BudgetHeld
  <2>1. {c \in paid : c.grant = g} = {}
    BY DEF Init
  <2>2. Cardinality({c \in paid : c.grant = g}) = 0
    BY <2>1, FS_EmptySet
  <2> QED
    BY <1>1, <2>2
<1>7. RateHeld /\ LedgerReadable /\ AnswerOfOneRun
  BY DEF Init, RateHeld, LedgerReadable, Readable, AnswerOfOneRun
<1> QED
  BY <1>2, <1>3, <1>4, <1>5, <1>6, <1>7 DEF Inv

\* Every step keeps the invariant.
LEMMA NextInv == ASSUME Inv, [Next]_vars PROVE Inv'
<1>1. /\ TypeOK /\ LiveIsAwaited /\ PassedIsCharged /\ RunInScope /\ RecordedSoFar
      /\ AnswerOfOneRun /\ LedgerInv
  BY DEF Inv, LedgerInv
<1>2. TypeOK'
  BY <1>1, TypeStep
<1>3. LedgerInv'
  BY <1>1, LedgerStep
<1>4. LiveIsAwaited'
  BY <1>1, LiveStep
<1>5. PassedIsCharged'
  BY <1>1, PassedStep
<1>6. RunInScope'
  BY <1>1, ScopeStep
<1>7. RecordedSoFar' /\ AnswerOfOneRun'
  BY <1>1, RecordsStep
<1> QED
  BY <1>2, <1>3, <1>4, <1>5, <1>6, <1>7 DEF Inv, LedgerInv

\* Inv is an invariant of the specification.
THEOREM InvHolds == Spec => []Inv
  BY InitInv, NextInv, PTL DEF Spec

\* Every variable keeps its type: attempts stay within the redirect limit and
\* an execution does not go on past the record of its answer.
THEOREM TypeCorrect == Spec => []TypeOK
<1>1. Inv => TypeOK
  BY DEF Inv
<1> QED
  BY <1>1, InvHolds, PTL

\* No grant is ever charged beyond its budget, for any number of runs,
\* retries, late charges and crashes.
THEOREM BudgetAlwaysHeld == Spec => []BudgetHeld
<1>1. Inv => BudgetHeld
  BY DEF Inv
<1> QED
  BY <1>1, InvHolds, PTL

\* No window of the rate policy ever holds more charges than it allows.
THEOREM RateAlwaysHeld == Spec => []RateHeld
<1>1. Inv => RateHeld
  BY DEF Inv
<1> QED
  BY <1>1, InvHolds, PTL

\* The stored charges can always be read again.
THEOREM LedgerAlwaysReadable == Spec => []LedgerReadable
<1>1. Inv => LedgerReadable
  BY DEF Inv
<1> QED
  BY <1>1, InvHolds, PTL

\* Nothing is sent whose attempt is not charged under a grant that was valid.
THEOREM SentAlwaysCharged == Spec => []SentIsCharged
<1>1. Inv => SentIsCharged
  BY DEF Inv, PassedIsCharged, SentIsCharged
<1> QED
  BY <1>1, InvHolds, PTL

\* Nothing is sent outside the manifest, the grant, or the host asked for.
THEOREM SentAlwaysAuthorized == Spec => []SentIsAuthorized
<1>1. Inv => SentIsAuthorized
  BY DEF Inv, RunInScope, SentIsAuthorized, Idle
<1> QED
  BY <1>1, InvHolds, PTL

\* What a request has been answered with was recorded by one execution.
THEOREM AnswerAlwaysOfOneRun == Spec => []AnswerOfOneRun
<1>1. Inv => AnswerOfOneRun
  BY DEF Inv
<1> QED
  BY <1>1, InvHolds, PTL

\* The rate gate never overspends and nothing is sent that is not charged, for
\* any number of runs, grants, redirects and crashes.
THEOREM SpendingAlwaysHeld == Spec => []SpendingHeld
<1>1. BudgetHeld /\ RateHeld /\ LedgerReadable /\ SentIsCharged => SpendingHeld
  BY DEF SpendingHeld
<1> QED
  BY <1>1, BudgetAlwaysHeld, RateAlwaysHeld, LedgerAlwaysReadable, SentAlwaysCharged, PTL

\* What is sent is authorised, and what is answered is of one execution.
THEOREM RunAlwaysSound == Spec => []RunSound
<1>1. TypeOK /\ SentIsAuthorized /\ AnswerOfOneRun => RunSound
  BY DEF RunSound
<1> QED
  BY <1>1, TypeCorrect, SentAlwaysAuthorized, AnswerAlwaysOfOneRun, PTL
=============================================================================
