---------------------------- MODULE DecisionProofs ----------------------------
(***************************************************************************)
(* Proofs about the decisions made for an application: the review queue of *)
(* a campaign, the plan for reaching out to contacts, the assurance case,  *)
(* automation, the phases of an agent run, the credential passport with    *)
(* the claims it maps, the evidence of a discovered posting, the tracker   *)
(* of approved and confirmed submissions, and the rubric that scores an    *)
(* opportunity.  Each part has an inductive invariant of its own; the      *)
(* parts share no state.                                                   *)
(***************************************************************************)
EXTENDS AutomationPolicy, AssuranceCase, CampaignQueue, NetworkPlan, CredentialPassport,
        DiscoveryEvidence, OpportunityRubric, ApplicationTracker, FiniteSetTheorems,
        WellFoundedInduction, TLAPS

-----------------------------------------------------------------------------
\* The campaign queue.

Decided == {"queued", "limit", "quota"}

QueueTypeOK ==
    /\ disposition \in [Candidates ->
           [status : Decided \cup {"none", "not-member", "hard-gated", "below-threshold"},
            position : Nat]]
    /\ waiting \subseteq Candidates
    /\ offer # NoOffer => offer \in [Candidates -> Offers]
    /\ offer = NoOffer => waiting = {} /\ \A c \in Candidates : disposition[c].status = "none"

\* Those decided come before those that wait.
BestFirst ==
    /\ \A d \in waiting : disposition[d].status \notin Decided
    /\ \A c \in Candidates, d \in waiting : disposition[c].status \in Decided => Before(c, d)

PlacesKept ==
    /\ Cardinality(Queued) <= DailyLimit
    /\ \A r \in DOMAIN Quota : Quota[r] # NoQuota => Cardinality(QueuedOn(r)) <= Quota[r]

\* A deferral rests on the better ones that were queued.
Better(c) == {d \in Queued : Before(d, c)}
BetterOnRoute(c) == {d \in QueuedOn(offer[c].route) : Before(d, c)}

DeferralsEarned ==
    \A c \in Candidates :
        /\ disposition[c].status = "limit" => Cardinality(Better(c)) = DailyLimit
        /\ disposition[c].status = "quota" =>
             Cardinality(BetterOnRoute(c)) = Quota[offer[c].route]

\* The inductive invariant of the queue.
QueueInv == QueueTypeOK /\ BestFirst /\ PlacesKept /\ DeferralsEarned

LEMMA BeforeIsStrict ==
    ASSUME offer \in [Candidates -> Offers], NEW c \in Candidates, NEW d \in Candidates, Before(c, d)
    PROVE  ~Before(d, c) /\ c # d
<1>1. /\ c \in Int /\ d \in Int
      /\ offer[c].score \in Int /\ offer[c].rank \in Int
      /\ offer[d].score \in Int /\ offer[d].rank \in Int
  BY QueueConstants
<1> QED
  BY <1>1 DEF Before

LEMMA QueuedFinite ==
    /\ IsFiniteSet(Queued) /\ \A r : IsFiniteSet(QueuedOn(r))
    /\ Cardinality(Queued) \in Nat /\ \A r : Cardinality(QueuedOn(r)) \in Nat
<1>1. Queued \subseteq Candidates /\ \A r : QueuedOn(r) \subseteq Candidates
  BY DEF Queued, QueuedOn
<1> QED
  BY <1>1, QueueConstants, FS_Subset, FS_CardinalityType

LEMMA QueueInvInit == QueueInit => QueueInv
<1> SUFFICES ASSUME QueueInit PROVE QueueInv
  OBVIOUS
<1> USE DEF QueueInit
<1>1. \A c \in Candidates : disposition[c] = Undecided
  OBVIOUS
<1>2. Queued = {} /\ \A r : QueuedOn(r) = {}
  BY <1>1 DEF Queued, QueuedOn, Undecided
<1>3. Cardinality(Queued) = 0 /\ \A r : Cardinality(QueuedOn(r)) = 0
  BY <1>2, FS_EmptySet
<1>4. QueueTypeOK
  BY <1>1 DEF QueueTypeOK, Undecided, Decided
<1>5. BestFirst /\ DeferralsEarned
  BY <1>1 DEF BestFirst, DeferralsEarned, Undecided, Decided
<1>6. PlacesKept
  BY <1>3, QueueConstants DEF PlacesKept, ValidCampaignPolicy
<1> QED
  BY <1>4, <1>5, <1>6 DEF QueueInv

LEMMA StartQueueKeeps ==
    ASSUME QueueInv, NEW offers \in [Candidates -> Offers], offer = NoOffer, StartQueue(offers)
    PROVE  QueueInv'
<1> USE DEF StartQueue
<1>1. \A c \in Candidates :
          /\ disposition'[c] \in [status : {"none", "not-member", "hard-gated", "below-threshold"},
                                  position : Nat]
  BY DEF Gate, Denied, Undecided
<1>2. \A c \in Candidates : disposition'[c].status \notin Decided
  BY <1>1 DEF Decided
<1>3. Queued' = {} /\ \A r : QueuedOn(r)' = {}
  BY <1>2 DEF Queued, QueuedOn, Decided
<1>4. Cardinality(Queued') = 0 /\ \A r : Cardinality(QueuedOn(r)') = 0
  BY <1>3, FS_EmptySet
<1>5. QueueTypeOK'
  <2>1. offer' = NoOffer => Candidates = {}
    <3>1. DOMAIN offer' = Candidates /\ DOMAIN NoOffer = {}
      BY DEF NoOffer
    <3> QED
      BY <3>1
  <2>2. disposition' \in [Candidates ->
           [status : Decided \cup {"none", "not-member", "hard-gated", "below-threshold"},
            position : Nat]]
    BY <1>1
  <2> QED
    BY <2>1, <2>2 DEF QueueTypeOK
<1>6. BestFirst' /\ DeferralsEarned'
  BY <1>2 DEF BestFirst, DeferralsEarned, Decided
<1>7. PlacesKept'
  BY <1>4, QueueConstants DEF PlacesKept, ValidCampaignPolicy
<1> QED
  BY <1>5, <1>6, <1>7 DEF QueueInv

LEMMA DisposeKeeps == ASSUME QueueInv, NEW c \in Candidates, Dispose(c) PROVE QueueInv'
<1> DEFINE new == IF PlacesTaken >= DailyLimit THEN Denied("limit")
                  ELSE IF QuotaUsed(offer[c].route) THEN Denied("quota")
                  ELSE [status |-> "queued", position |-> PlacesTaken + 1]
<1>1. /\ c \in waiting /\ offer \in [Candidates -> Offers] /\ offer # NoOffer
      /\ disposition[c].status \notin Decided /\ offer[c].route \in DOMAIN Quota
  BY QueueConstants DEF Dispose, QueueInv, QueueTypeOK, BestFirst
<1>2. /\ waiting' = waiting \ {c} /\ disposition' = [disposition EXCEPT ![c] = new]
      /\ offer' = offer
  BY DEF Dispose
<1>3. new \in [status : Decided, position : Nat]
  BY QueuedFinite DEF Denied, Decided, PlacesTaken
<1>4. /\ new.status = "limit" => Cardinality(Queued) >= DailyLimit
      /\ new.status = "quota" => QuotaUsed(offer[c].route)
      /\ new.status = "queued" => /\ ~(Cardinality(Queued) >= DailyLimit)
                                 /\ ~QuotaUsed(offer[c].route)
  BY DEF Denied, PlacesTaken
<1> HIDE DEF new
<1>5. /\ disposition'[c] = new
      /\ \A d \in Candidates : d # c => disposition'[d] = disposition[d]
  BY <1>2 DEF QueueInv, QueueTypeOK
<1>6. QueueTypeOK'
  BY <1>1, <1>2, <1>3 DEF QueueInv, QueueTypeOK
<1>7. \A d, e : Before(d, e)' <=> Before(d, e)
  BY <1>2 DEF Before
<1>8. BestFirst'
  <2>1. \A d \in waiting' : disposition'[d].status \notin Decided
    BY <1>2, <1>5 DEF QueueInv, QueueTypeOK, BestFirst
  <2>2. ASSUME NEW e \in Candidates, NEW d \in waiting', disposition'[e].status \in Decided
        PROVE  Before(e, d)
    <3>1. CASE e = c
      BY <3>1, <1>2 DEF Dispose
    <3>2. CASE e # c
      BY <2>2, <3>2, <1>2, <1>5 DEF QueueInv, BestFirst
    <3> QED
      BY <3>1, <3>2
  <2> QED
    BY <1>7, <2>1, <2>2 DEF BestFirst
<1>9. \A d \in Candidates : disposition[d].status \in Decided => Before(d, c) /\ ~Before(c, d) /\ d # c
  BY <1>1, BeforeIsStrict DEF QueueInv, BestFirst
<1>10. Queued \subseteq Candidates /\ \A d \in Queued : disposition[d].status \in Decided
  BY DEF Queued, Decided
<1>11. /\ Cardinality(Queued) \in Nat /\ \A r : Cardinality(QueuedOn(r)) \in Nat
       /\ DailyLimit \in Nat
       /\ \A r \in DOMAIN Quota : Quota[r] = NoQuota \/ Quota[r] \in Nat
  BY QueuedFinite, QueueConstants DEF ValidCampaignPolicy
<1>12. CASE new.status # "queued"
  <2>1. Queued' = Queued /\ \A r : QueuedOn(r)' = QueuedOn(r)
    BY <1>1, <1>2, <1>5, <1>12 DEF Queued, QueuedOn, Decided
  <2>2. PlacesKept'
    BY <2>1 DEF QueueInv, PlacesKept
  <2>3. Better(c) = Queued /\ BetterOnRoute(c) = QueuedOn(offer[c].route)
    BY <1>9, <1>10 DEF QueuedOn, Better, BetterOnRoute
  <2>4. new.status = "limit" => Cardinality(Better(c)) = DailyLimit
    BY <2>3, <1>4, <1>11 DEF QueueInv, PlacesKept
  <2>5. new.status = "quota" => Cardinality(BetterOnRoute(c)) = Quota[offer[c].route]
    <3>1. QuotaUsed(offer[c].route) =>
            Cardinality(QueuedOn(offer[c].route)) = Quota[offer[c].route]
      BY <1>1, <1>11 DEF QueueInv, PlacesKept, QuotaUsed, NoQuota
    <3> QED
      BY <2>3, <3>1, <1>4
  <2>6. \A e \in Candidates : Better(e)' = Better(e) /\ BetterOnRoute(e)' = BetterOnRoute(e)
    BY <1>2, <1>7, <2>1 DEF Better, BetterOnRoute
  <2>7. \A e \in Candidates :
          /\ disposition'[e].status = "limit" => Cardinality(Better(e)) = DailyLimit
          /\ disposition'[e].status = "quota" =>
               Cardinality(BetterOnRoute(e)) = Quota[offer[e].route]
    BY <1>5, <2>4, <2>5 DEF QueueInv, DeferralsEarned
  <2>8. DeferralsEarned'
    BY <1>2, <2>6, <2>7 DEF DeferralsEarned
  <2> QED
    BY <1>6, <1>8, <2>2, <2>8 DEF QueueInv
<1>13. CASE new.status = "queued"
  <2>0. PICK route : route = offer[c].route
    OBVIOUS
  <2>1. c \notin Queued /\ Queued' = Queued \cup {c}
    BY <1>1, <1>5, <1>13 DEF Queued, Decided
  <2>2. /\ \A r : r # route => QueuedOn(r)' = QueuedOn(r)
        /\ QueuedOn(route)' = QueuedOn(route) \cup {c} /\ c \notin QueuedOn(route)
    BY <1>2, <2>0, <2>1 DEF QueuedOn
  <2>3. /\ Cardinality(Queued') = Cardinality(Queued) + 1
        /\ Cardinality(QueuedOn(route)') = Cardinality(QueuedOn(route)) + 1
    BY <2>1, <2>2, QueuedFinite, FS_AddElement
  <2>4. PlacesKept'
    <3>1. Cardinality(Queued)' <= DailyLimit
      BY <1>4, <1>11, <1>13, <2>3
    <3>2. ASSUME NEW r \in DOMAIN Quota, Quota[r] # NoQuota
          PROVE  Cardinality(QueuedOn(r)') <= Quota[r]
      <4>1. CASE r = route
        BY <4>1, <3>2, <1>4, <1>11, <1>13, <2>0, <2>3 DEF QuotaUsed
      <4>2. CASE r # route
        BY <4>2, <3>2, <2>2 DEF QueueInv, PlacesKept
      <4> QED
        BY <4>1, <4>2
    <3> QED
      BY <3>1, <3>2 DEF PlacesKept
  <2>5. DeferralsEarned'
    <3>1. ASSUME NEW e \in Candidates, disposition'[e].status \in {"limit", "quota"}
          PROVE  /\ Better(e)' = Better(e) /\ BetterOnRoute(e)' = BetterOnRoute(e)
                 /\ disposition'[e] = disposition[e]
      <4>1. e # c /\ disposition'[e] = disposition[e]
        BY <3>1, <1>5, <1>13
      <4>2. ~Before(c, e)
        BY <3>1, <4>1, <1>9 DEF Decided
      <4>3. Better(e)' = Better(e)
        BY <1>7, <2>1, <4>2 DEF Better
      <4>4. BetterOnRoute(e)' = BetterOnRoute(e)
        <5>1. QueuedOn(offer[e].route)' \in {QueuedOn(offer[e].route),
                                             QueuedOn(offer[e].route) \cup {c}}
          BY <1>2, <2>0, <2>2
        <5> QED
          BY <1>2, <1>7, <5>1, <4>2 DEF BetterOnRoute
      <4> QED
        BY <4>1, <4>3, <4>4
    <3> QED
      BY <3>1, <1>2 DEF DeferralsEarned, QueueInv
  <2> QED
    BY <1>6, <1>8, <2>4, <2>5 DEF QueueInv
<1> QED
  BY <1>12, <1>13

\* The queue is fair and full, whatever is offered and whatever the limits: a
\* candidate is deferred only when the places, or those of its own route, are
\* taken by better ones (campaign-policy.ts:110-157).
THEOREM QueueAlwaysFair == QueueSpec => []QueueFair
<1>1. QueueInit => QueueInv
  BY QueueInvInit
<1>2. QueueInv /\ [QueueNext]_queueVars => QueueInv'
  <2> SUFFICES ASSUME QueueInv, [QueueNext]_queueVars PROVE QueueInv'
    OBVIOUS
  <2>1. CASE UNCHANGED queueVars
    <3> USE <2>1 DEF queueVars
    <3>1. \A c, d : Before(c, d)' <=> Before(c, d)
      BY DEF Before
    <3>2. Queued' = Queued /\ \A r : QueuedOn(r)' = QueuedOn(r)
      BY DEF Queued, QueuedOn
    <3>3. \A c : Better(c)' = Better(c) /\ BetterOnRoute(c)' = BetterOnRoute(c)
      BY <3>1, <3>2 DEF Better, BetterOnRoute
    <3>4. QueueTypeOK' /\ BestFirst'
      BY <3>1 DEF QueueInv, QueueTypeOK, BestFirst
    <3>5. PlacesKept' /\ DeferralsEarned'
      BY <3>2, <3>3 DEF QueueInv, PlacesKept, DeferralsEarned
    <3> QED
      BY <3>4, <3>5 DEF QueueInv
  <2> QED
    BY <2>1, StartQueueKeeps, DisposeKeeps DEF QueueNext
<1>3. QueueInv => QueueFair
  BY DEF QueueInv, QueueFair, PlacesKept, DeferralsEarned, Better, BetterOnRoute
<1> QED
  BY <1>1, <1>2, <1>3, PTL DEF QueueSpec

-----------------------------------------------------------------------------
\* The network plan.

\* Touches and requests of a plan: days and the plan and request they are of.
Touch == Int \X (Nat \X Requests)

SentTo(k) == touches[k] \cup {TouchOf(q) : q \in {p \in planned : wish[p].contact = k}}

NetworkTypeOK ==
    /\ DOMAIN permission = Contacts
    /\ touches \in [Contacts -> SUBSET Touch] /\ history \in [Contacts -> SUBSET Touch]
    /\ \A k \in Contacts : IsFiniteSet(touches[k]) /\ IsFiniteSet(history[k])
    /\ plans \in Nat
    /\ open \subseteq Requests /\ planned \subseteq Requests
    /\ wish = NoWish => planned = {} /\ open = {}
    /\ wish # NoWish => wish \in [Requests -> Wishes]

\* The plan being made: its history is what the contacts have had and will
\* have, and the requests left come after those planned.
PlanInOrder ==
    wish # NoWish =>
        /\ \A k \in Contacts : history[k] = SentTo(k)
        /\ planned \cap open = {}
        /\ \A r \in planned : wish[r].contact \in Contacts
        /\ \A r \in planned, q \in open : wish[r].at <= wish[q].at

\* The inductive invariant of the plan.
NetworkInv == NetworkTypeOK /\ PlanInOrder /\ FatigueHeld

\* What is held for a request that was planned.
HeldFor(r, sent) ==
    LET relevant == RelevantTouches(sent, wish[r].at) IN
    /\ permission[wish[r].contact] # "revoked"
    /\ Cardinality(relevant) <= MaxTouches
    /\ \A x \in relevant \ {TouchOf(r)} : wish[r].at - x[1] >= Spacing

LEMMA FatigueByContact == FatigueHeld <=> \A r \in planned : HeldFor(r, SentTo(wish[r].contact))
BY DEF FatigueHeld, HeldFor, SentTo

LEMMA NetworkInvInit == NetworkInit => NetworkInv
<1> SUFFICES ASSUME NetworkInit PROVE NetworkInv
  OBVIOUS
<1> USE DEF NetworkInit
<1>1. NetworkTypeOK
  BY FS_EmptySet DEF NetworkTypeOK
<1>2. PlanInOrder /\ FatigueHeld
  BY DEF PlanInOrder, FatigueHeld
<1> QED
  BY <1>1, <1>2 DEF NetworkInv

LEMMA StartPlanKeeps ==
    ASSUME NetworkInv, NEW wishes \in [Requests -> Wishes], StartPlan(wishes)
    PROVE  NetworkInv'
<1> USE DEF StartPlan
<1>1. planned = {} /\ planned' = {}
  BY DEF NetworkInv, NetworkTypeOK
<1>2. wish' = NoWish => Requests = {}
  <2>1. DOMAIN wish' = Requests /\ DOMAIN NoWish = {}
    BY DEF NoWish
  <2> QED
    BY <2>1
<1>3. NetworkTypeOK'
  BY <1>1, <1>2 DEF NetworkInv, NetworkTypeOK
<1>4. PlanInOrder' /\ FatigueHeld'
  BY <1>1 DEF PlanInOrder, FatigueHeld, SentTo
<1> QED
  BY <1>3, <1>4 DEF NetworkInv

LEMMA PlanRequestKeeps == ASSUME NetworkInv, NEW r \in Requests, PlanRequest(r) PROVE NetworkInv'
<1>1. /\ r \in open /\ wish # NoWish /\ wish \in [Requests -> Wishes] /\ r \notin planned
      /\ open' = open \ {r} /\ UNCHANGED <<permission, touches, wish, plans>>
      /\ \A q \in open : wish[r].at <= wish[q].at
  BY NetworkConstants DEF PlanRequest, NetworkInv, NetworkTypeOK, PlanInOrder
<1>2. \A p \in Requests : wish[p].at \in Int
  BY <1>1, NetworkConstants
<1>3. CASE ~(Permitted(wish[r]) /\ Rested(wish[r]))
  <2>1. UNCHANGED <<planned, history>>
    BY <1>3 DEF PlanRequest
  <2>2. NetworkTypeOK'
    BY <1>1, <2>1 DEF NetworkInv, NetworkTypeOK
  <2>3. \A k : SentTo(k)' = SentTo(k)
    BY <1>1, <2>1 DEF SentTo, TouchOf
  <2>4. PlanInOrder'
    BY <1>1, <2>1, <2>3 DEF NetworkInv, PlanInOrder
  <2>5. FatigueHeld'
    <3>1. \A p : HeldFor(p, SentTo(wish[p].contact))' <=> HeldFor(p, SentTo(wish[p].contact))
      BY <1>1, <2>1 DEF HeldFor, SentTo, RelevantTouches, TouchOf
    <3>2. \A p \in planned' : HeldFor(p, SentTo(wish[p].contact))'
      BY <2>1, <3>1, FatigueByContact DEF NetworkInv
    <3> QED
      BY <3>2 DEF FatigueHeld, HeldFor, SentTo
  <2> QED
    BY <2>2, <2>4, <2>5 DEF NetworkInv
<1>4. CASE Permitted(wish[r]) /\ Rested(wish[r])
  <2>0. PICK k, new : k = wish[r].contact /\ new = TouchOf(r)
    OBVIOUS
  <2>1. /\ k \in Contacts /\ permission[k] # "revoked" /\ history[k] = SentTo(k)
        /\ new \in Touch /\ new[1] = wish[r].at
    BY <1>1, <1>2, <1>4, <2>0
       DEF Permitted, TouchOf, Touch, NetworkInv, NetworkTypeOK, PlanInOrder
  <2>2. planned' = planned \cup {r} /\ history' = [history EXCEPT ![k] = @ \cup {new}]
    BY <1>4, <2>0 DEF PlanRequest, WithPlanned, TouchOf
  <2>3. \A p : TouchOf(p)' = TouchOf(p)
    BY <1>1 DEF TouchOf
  <2> DEFINE after(j) == IF j = k THEN SentTo(k) \cup {new} ELSE SentTo(j)
  <2>4. \A j : SentTo(j)' = after(j)
    BY <1>1, <2>0, <2>2, <2>3 DEF SentTo
  <2>5. NetworkTypeOK'
    <3>1. IsFiniteSet(history[k] \cup {new})
      BY <2>1, FS_AddElement DEF NetworkInv, NetworkTypeOK
    <3>2. history' \in [Contacts -> SUBSET Touch]
      BY <2>1, <2>2 DEF NetworkInv, NetworkTypeOK
    <3>3. \A j \in Contacts : IsFiniteSet(history'[j])
      BY <2>1, <2>2, <3>1 DEF NetworkInv, NetworkTypeOK
    <3> QED
      BY <1>1, <2>2, <3>2, <3>3 DEF NetworkInv, NetworkTypeOK
  <2>6. PlanInOrder'
    <3>1. \A j \in Contacts : history'[j] = SentTo(j)'
      BY <1>1, <2>1, <2>2, <2>4 DEF NetworkInv, NetworkTypeOK, PlanInOrder
    <3>2. planned' \cap open' = {}
      BY <1>1, <2>2 DEF NetworkInv, PlanInOrder
    <3>3. \A p \in planned' : wish'[p].contact \in Contacts
      BY <1>1, <2>0, <2>1, <2>2 DEF NetworkInv, PlanInOrder
    <3>4. \A p \in planned', q \in open' : wish'[p].at <= wish'[q].at
      BY <1>1, <2>2 DEF NetworkInv, PlanInOrder
    <3> QED
      BY <3>1, <3>2, <3>3, <3>4 DEF PlanInOrder
  <2>a. PICK today : today = RelevantTouches(SentTo(k), wish[r].at)
    OBVIOUS
  <2>7. /\ IsFiniteSet(today) /\ Cardinality(today) + 1 <= MaxTouches
        /\ \A x \in today : wish[r].at - x[1] >= Spacing
    <3>1. IsFiniteSet(today)
      BY <2>a, <2>1, FS_Subset DEF NetworkInv, NetworkTypeOK, RelevantTouches
    <3>2. Cardinality(today) \in Nat /\ Cardinality(today) < MaxTouches
      BY <3>1, <1>4, <2>a, <2>0, <2>1, FS_CardinalityType DEF Rested
    <3>3. \A x \in today : wish[r].at - x[1] >= Spacing
      BY <1>4, <2>a, <2>0, <2>1 DEF Rested
    <3> QED
      BY <3>1, <3>2, <3>3, NetworkConstants DEF ValidNetworkPolicy
  <2>8. /\ RelevantTouches(SentTo(k) \cup {new}, wish[r].at) = today \cup {new}
        /\ Cardinality(today \cup {new}) <= MaxTouches
    <3>1. RelevantTouches(SentTo(k) \cup {new}, wish[r].at) = today \cup {new}
      BY <2>a, <1>2, <2>1, NetworkConstants DEF RelevantTouches, ValidNetworkPolicy
    <3>2. CASE new \in today
      <4>1. today \cup {new} = today
        BY <3>2
      <4>2. Cardinality(today) \in Nat /\ MaxTouches \in Nat
        BY <2>7, FS_CardinalityType, NetworkConstants DEF ValidNetworkPolicy
      <4>3. Cardinality(today \cup {new}) = Cardinality(today)
        BY <4>1
      <4>4. Cardinality(today) <= MaxTouches
        BY <4>2, <2>7
      <4> QED
        BY <3>1, <4>3, <4>4
    <3>3. CASE new \notin today
      <4>1. Cardinality(today \cup {new}) = Cardinality(today) + 1
        BY <3>3, <2>7, FS_AddElement
      <4> QED
        BY <3>1, <4>1, <2>7
    <3> QED
      BY <3>2, <3>3
  <2>9. ASSUME NEW p \in planned' PROVE HeldFor(p, after(wish[p].contact))
    <3>1. CASE p = r
      BY <2>0, <2>1, <2>7, <2>8, <3>1 DEF HeldFor
    <3>2. CASE p # r
      <4>1. p \in planned /\ p \in Requests /\ HeldFor(p, SentTo(wish[p].contact))
        BY <2>2, <3>2, FatigueByContact DEF NetworkInv, NetworkTypeOK
      <4>2. CASE wish[p].contact # k
        BY <4>1, <4>2
      <4>3. CASE wish[p].contact = k /\ wish[p].at # wish[r].at
        <5>1. wish[p].at < wish[r].at
          BY <1>1, <1>2, <4>1, <4>3 DEF NetworkInv, PlanInOrder
        <5>2. RelevantTouches(SentTo(k) \cup {new}, wish[p].at)
                = RelevantTouches(SentTo(k), wish[p].at)
          BY <1>2, <2>1, <4>1, <5>1 DEF RelevantTouches
        <5> QED
          BY <4>1, <4>3, <5>2 DEF HeldFor
      <4>4. CASE wish[p].contact = k /\ wish[p].at = wish[r].at
        <5>1. TouchOf(p) \in today /\ TouchOf(p)[1] = wish[r].at
          <6>1. TouchOf(p) \in SentTo(k) /\ TouchOf(p)[1] = wish[r].at
            BY <4>1, <4>4 DEF SentTo, TouchOf
          <6>2. wish[r].at >= wish[r].at - TouchWindow /\ wish[r].at <= wish[r].at
            BY <1>2, NetworkConstants DEF ValidNetworkPolicy
          <6> QED
            BY <2>a, <6>1, <6>2 DEF RelevantTouches
        <5>2. \A x \in today \cup {new} : wish[r].at - x[1] >= Spacing
          BY <2>1, <2>7, <5>1
        <5> QED
          BY <2>8, <4>1, <4>4, <5>2 DEF HeldFor
      <4> QED
        BY <4>2, <4>3, <4>4
    <3> QED
      BY <3>1, <3>2
  <2>10. FatigueHeld'
    <3>1. \A p : HeldFor(p, after(wish[p].contact)) => HeldFor(p, SentTo(wish[p].contact))'
      BY <1>1, <2>3, <2>4 DEF HeldFor, RelevantTouches
    <3>2. \A p \in planned' : HeldFor(p, SentTo(wish[p].contact))'
      BY <2>9, <3>1
    <3> QED
      BY <3>2 DEF FatigueHeld, HeldFor, SentTo
  <2> QED
    BY <2>5, <2>6, <2>10 DEF NetworkInv
<1> QED
  BY <1>3, <1>4

LEMMA CarryOutKeeps == ASSUME NetworkInv, NEW done \in SUBSET planned, CarryOut(done) PROVE NetworkInv'
<1>1. /\ wish # NoWish /\ planned' = {} /\ open = {} /\ wish' = NoWish
      /\ history' = [k \in Contacts |-> {}] /\ UNCHANGED <<permission, open, plans>>
      /\ touches' = [k \in Contacts |-> touches[k] \cup
                       {TouchOf(r) : r \in {q \in done : wish[q].contact = k}}]
  BY DEF CarryOut
<1>2. \A k \in Contacts : touches'[k] \subseteq history[k]
  BY <1>1 DEF NetworkInv, PlanInOrder, SentTo
<1>3. \A k \in Contacts : touches'[k] \subseteq Touch /\ IsFiniteSet(touches'[k])
  BY <1>2, FS_Subset DEF NetworkInv, NetworkTypeOK
<1>4. touches' \in [Contacts -> SUBSET Touch]
  BY <1>1, <1>3
<1>5. history' \in [Contacts -> SUBSET Touch] /\ \A k \in Contacts : IsFiniteSet(history'[k])
  BY <1>1, FS_EmptySet
<1>6. NetworkTypeOK'
  BY <1>1, <1>3, <1>4, <1>5 DEF NetworkInv, NetworkTypeOK
<1>7. PlanInOrder' /\ FatigueHeld'
  BY <1>1 DEF PlanInOrder, FatigueHeld
<1> QED
  BY <1>6, <1>7 DEF NetworkInv

LEMMA RevokeKeeps == ASSUME NetworkInv, NEW k \in Contacts, Revoke(k) PROVE NetworkInv'
<1> USE DEF Revoke
<1>1. planned = {} /\ planned' = {}
  BY DEF NetworkInv, NetworkTypeOK
<1>2. NetworkTypeOK'
  BY DEF NetworkInv, NetworkTypeOK
<1>3. PlanInOrder' /\ FatigueHeld'
  BY <1>1 DEF PlanInOrder, FatigueHeld
<1> QED
  BY <1>2, <1>3 DEF NetworkInv

\* No contact is worn out, whatever is wished for and whatever the limits: the
\* requests planned later on the same day, and those of earlier plans that were
\* carried out, are counted (network-planning.ts:103-208).
THEOREM FatigueAlwaysHeld == NetworkSpec => []FatigueHeld
<1>1. NetworkInit => NetworkInv
  BY NetworkInvInit
<1>2. NetworkInv /\ [NetworkNext]_networkVars => NetworkInv'
  <2> SUFFICES ASSUME NetworkInv, [NetworkNext]_networkVars PROVE NetworkInv'
    OBVIOUS
  <2>1. CASE UNCHANGED networkVars
    <3> USE <2>1 DEF networkVars
    <3>1. NetworkTypeOK'
      BY DEF NetworkInv, NetworkTypeOK
    <3>2. \A k : SentTo(k)' = SentTo(k)
      BY DEF SentTo, TouchOf
    <3>3. PlanInOrder'
      BY <3>2 DEF NetworkInv, PlanInOrder
    <3>4. \A r : HeldFor(r, SentTo(wish[r].contact))' <=> HeldFor(r, SentTo(wish[r].contact))
      BY DEF HeldFor, SentTo, RelevantTouches, TouchOf
    <3>5. \A r \in planned' : HeldFor(r, SentTo(wish[r].contact))'
      BY <3>4, FatigueByContact DEF NetworkInv
    <3>6. FatigueHeld'
      BY <3>5 DEF FatigueHeld, HeldFor, SentTo
    <3> QED
      BY <3>1, <3>3, <3>6 DEF NetworkInv
  <2> QED
    BY <2>1, StartPlanKeeps, PlanRequestKeeps, CarryOutKeeps, RevokeKeeps DEF NetworkNext
<1>3. NetworkInv => FatigueHeld
  BY DEF NetworkInv
<1> QED
  BY <1>1, <1>2, <1>3, PTL DEF NetworkSpec

-----------------------------------------------------------------------------
\* The assurance case.

\* A certificate that somebody gave names what was certified: this draft with
\* these approvals.
CertifiedAsHashed ==
    \A g \in certified :
        g.certificate.of = [draft |-> g.draft, approvals |-> g.approvals,
                            bindingHash |-> g.draft.content]

\* An answer "actionable" is earned in a state that satisfies it.
LEMMA EarnedByInvariant == CertifiedAsHashed => ActionableEarned
<1> SUFFICES ASSUME CertifiedAsHashed, file # NoCase, Actionable(file, seen, aDay)
             PROVE  LET d == file.draft
                        b == file.draft.content
                        good == {s \in signed : /\ s.scope = b
                                                /\ s.by # d.generator.principal
                                                /\ s.at <= aDay /\ aDay < s.until} IN
                    /\ seen.evidence = b.evidence
                    /\ seen.policy = b.policy
                    /\ aDay < b.freshUntil
                    /\ \A g \in certified : file.certification = g.certificate =>
                         /\ g.draft = d
                         /\ g.approvals = file.approvals
                         /\ Separate(g.certificate.by, d.generator)
                    /\ file.approvals \subseteq signed =>
                         /\ b.highStakes \/ b.outcome = "manual-review" => good # {}
                         /\ b.soft \in {"unresolved", "accepted"} =>
                              \E s \in good : s.acknowledges
  BY DEF ActionableEarned
<1> DEFINE d == file.draft
           b == file.draft.content
           active == ActiveApprovals(file, aDay)
           good == {s \in signed : /\ s.scope = b /\ s.by # d.generator.principal
                                   /\ s.at <= aDay /\ aDay < s.until}
<1>1. /\ file.bindingHash = b /\ file.caseHash = CaseHash(file) /\ aDay < b.freshUntil
      /\ seen.evidence = b.evidence /\ seen.policy = b.policy
      /\ ~Blocked(file, aDay) /\ IsCertified(file)
  BY DEF Actionable, IntegrityHolds, BindingHash, Fresh, MatchesState
<1>2. file.approvals \subseteq signed => active \subseteq good
  BY <1>1 DEF ActiveApprovals
<1>3. b.highStakes \/ b.outcome = "manual-review" => active # {}
  BY <1>1 DEF Blocked, RequiresApproval
<1>4. b.soft \in {"unresolved", "accepted"} => \E a \in active : a.acknowledges
  BY <1>1 DEF Blocked
<1>5. ASSUME NEW g \in certified, file.certification = g.certificate
      PROVE  /\ g.draft = d /\ g.approvals = file.approvals
             /\ Separate(g.certificate.by, d.generator)
  <2>1. g.certificate.of = CaseHash(file) /\ Separate(g.certificate.by, d.generator)
    BY <1>1, <1>5 DEF IsCertified
  <2>2. PICK shown : shown = g.certificate.of
    OBVIOUS
  <2>3. shown = [draft |-> g.draft, approvals |-> g.approvals, bindingHash |-> g.draft.content]
    BY <1>5, <2>2 DEF CertifiedAsHashed
  <2>4. shown.draft = g.draft /\ shown.approvals = g.approvals
    BY <2>3
  <2>5. CaseHash(file).draft = file.draft /\ CaseHash(file).approvals = file.approvals
    BY DEF CaseHash
  <2> QED
    BY <2>1, <2>2, <2>4, <2>5
<1> QED
  BY <1>1, <1>2, <1>3, <1>4, <1>5

\* A certifier is shown the file as it is, its hashes recomputed.
LEMMA CertifyKeeps ==
    ASSUME CertifiedAsHashed, NEW x, NEW at, NEW now, Certify(x, at, now)
    PROVE  CertifiedAsHashed'
<1>1. PICK shown : shown = [certificate |-> [by |-> x, at |-> at, of |-> file.caseHash],
                           draft |-> file.draft, approvals |-> file.approvals]
  OBVIOUS
<1>2. certified' = certified \cup {shown}
  BY <1>1 DEF Certify
<1>3. file.caseHash = [draft |-> file.draft, approvals |-> file.approvals,
                       bindingHash |-> file.draft.content]
  BY DEF Certify, IntegrityHolds, CaseHash, BindingHash
<1>4. shown.certificate.of = [draft |-> shown.draft, approvals |-> shown.approvals,
                              bindingHash |-> shown.draft.content]
  BY <1>1, <1>3
<1> QED
  BY <1>2, <1>4 DEF CertifiedAsHashed

\* Whenever acting on a case is called for, that was earned as far as the
\* signatures in the file are genuine: through edits by hand, recomputed hashes,
\* approvals of another content and certificates of another case, however many
\* people and drafts there are (assurance/case.ts).
THEOREM ActionableAlwaysEarned == AssuranceSpec => []ActionableEarned
<1>1. AssuranceInit => CertifiedAsHashed
  BY DEF AssuranceInit, CertifiedAsHashed
<1>2. CertifiedAsHashed /\ [AssuranceNext]_assuranceVars => CertifiedAsHashed'
  <2> SUFFICES ASSUME CertifiedAsHashed, [AssuranceNext]_assuranceVars PROVE CertifiedAsHashed'
    OBVIOUS
  <2>1. CASE UNCHANGED certified
    BY <2>1 DEF CertifiedAsHashed
  <2>2. CASE \E x \in Agents, at \in 0 .. aDay : \E now \in {at, aDay} : Certify(x, at, now)
    BY <2>2, CertifyKeeps
  <2> QED
    BY <2>1, <2>2 DEF AssuranceNext, assuranceVars, ADay, WorldChanges, CaptureState, Sign,
                      Build, EditFile
<1> QED
  BY <1>1, <1>2, EarnedByInvariant, PTL DEF AssuranceSpec

-----------------------------------------------------------------------------
\* Automation.

LogEvents ==
    [kind : ConfigKinds, config : AutoConfigs]
    \cup [kind : {"register", "revoke"}, key : ApproverKeys]
    \cup [kind : {"allow"}, opp : Opps, key : {p.approval.key : p \in Packets}]

AutoTypeOK ==
    /\ autoLog \in Seq(LogEvents) /\ trustedApprovers \subseteq ApproverKeys
    /\ autoConfig \in AutoConfigs

\* Before position i, this configuration came last, and one that is enabled came
\* with an enabling or an import.
Standing(log, c, i) ==
    \E e \in 1 .. i - 1 : /\ log[e].kind \in ConfigKinds /\ log[e].config = c
                          /\ c.enabled => log[e].kind \in {"enable", "import"}
                          /\ \A j \in e + 1 .. i - 1 : log[j].kind \notin ConfigKinds

\* Before position i, every kill was lifted.
Lifted(log, i) ==
    \A k \in 1 .. i - 1 : log[k].kind = "kill" =>
        \E l \in k + 1 .. i - 1 : log[l].kind \in {"rearm", "import"}

\* Before position i, the key was registered and not revoked since.
Registered(log, k, i) ==
    \E r \in 1 .. i - 1 : /\ log[r] = [kind |-> "register", key |-> k]
                          /\ \A j \in r + 1 .. i - 1 : log[j] # [kind |-> "revoke", key |-> k]

\* What a decision at position i rests on.
Founded(log, opp, k, i) ==
    /\ \E c \in AutoConfigs : Standing(log, c, i) /\ AutomaticFor(c, opp)
    /\ Lifted(log, i)
    /\ Registered(log, k, i)

\* What the authority holds is what its log last said, and every decision in
\* the log was taken in such a state.
LoggedState ==
    /\ autoConfig.enabled => Standing(autoLog, autoConfig, Len(autoLog) + 1)
    /\ ~autoConfig.killed => Lifted(autoLog, Len(autoLog) + 1)
    /\ \A k \in trustedApprovers : Registered(autoLog, k, Len(autoLog) + 1)
    /\ \A i \in 1 .. Len(autoLog) : autoLog[i].kind = "allow" =>
           Founded(autoLog, autoLog[i].opp, autoLog[i].key, i)

AutoInv == AutoTypeOK /\ LoggedState

(* Every nonempty set of naturals has a least element.                       *)
LEMMA LeastElement ==
    ASSUME NEW T, T \subseteq Nat, T # {}
    PROVE  \E m \in T : \A k \in T : m <= k
<1> DEFINE R == {x \in Nat \X Nat : x[1] < x[2]}
<1>1. OpToRel(<, Nat) = R
  BY DEF OpToRel
<1>2. IsWellFoundedOn(R, Nat)
  BY <1>1, NatLessThanWellFounded, Zenon
<1>3. \A x, y \in Nat : <<x, y>> \in R <=> x < y
  OBVIOUS
<1> HIDE DEF R
<1>4. PICK m \in T : \A k \in T : ~(<<k, m>> \in R)
  BY <1>2, WFMin
<1>5. \A k \in T : ~(k < m)
  BY <1>3, <1>4
<1>6. \A k \in T : k \in Nat /\ m \in Nat
  OBVIOUS
<1> QED
  BY <1>5, <1>6

\* A packet that no gate blocks passes every gate.
LEMMA GatesPass ==
    ASSUME NEW p, BlockedBy(p) = "none"
    PROVE  \A i \in DOMAIN GateOrder : ~GateFails(p, GateOrder[i])
<1> DEFINE Blocks(i) == GateFails(p, GateOrder[i]) /\ \A j \in 1..(i - 1) : ~GateFails(p, GateOrder[j])
           failing == {i \in DOMAIN GateOrder : GateFails(p, GateOrder[i])}
<1>1. DOMAIN GateOrder = 1 .. 25 /\ \A i \in DOMAIN GateOrder : GateOrder[i] # "none"
  BY DEF GateOrder
<1>2. ~\E i \in DOMAIN GateOrder : Blocks(i)
  <2> SUFFICES ASSUME \E i \in DOMAIN GateOrder : Blocks(i) PROVE FALSE
    OBVIOUS
  <2>1. (CHOOSE i \in DOMAIN GateOrder : Blocks(i)) \in DOMAIN GateOrder
    BY Zenon
  <2>2. BlockedBy(p) = GateOrder[CHOOSE i \in DOMAIN GateOrder : Blocks(i)]
    BY Zenon DEF BlockedBy
  <2> HIDE DEF Blocks
  <2> QED
    BY <1>1, <2>1, <2>2
<1>3. failing = {}
  <2> SUFFICES ASSUME failing # {} PROVE FALSE
    OBVIOUS
  <2>1. failing \subseteq Nat
    BY <1>1
  <2>2. PICK m \in failing : \A k \in failing : m <= k
    BY <2>1, LeastElement
  <2>3. m \in 1 .. 25 /\ \A j \in 1 .. (m - 1) : j \in 1 .. 25 /\ ~(m <= j)
    BY <1>1
  <2>4. \A j \in 1 .. (m - 1) : ~GateFails(p, GateOrder[j])
    BY <1>1, <2>2, <2>3
  <2> QED
    BY <1>2, <2>4
<1> QED
  BY <1>3

\* What a packet that was allowed has met.
LEMMA AllowedMeans ==
    ASSUME NEW p, BlockedBy(p) = "none"
    PROVE  AutomaticFor(autoConfig, p.opp) /\ p.approval.key \in trustedApprovers
<1>1. /\ GateOrder[4] = "kill-switch-engaged" /\ GateOrder[5] = "auto-apply-disabled"
      /\ GateOrder[6] = "mode-not-auto" /\ GateOrder[7] = "opportunity-excluded"
      /\ GateOrder[22] = "approver-not-trusted"
      /\ DOMAIN GateOrder = 1 .. 25
  BY DEF GateOrder
<1>2. /\ ~GateFails(p, "kill-switch-engaged") /\ ~GateFails(p, "auto-apply-disabled")
      /\ ~GateFails(p, "mode-not-auto") /\ ~GateFails(p, "opportunity-excluded")
      /\ ~GateFails(p, "approver-not-trusted")
  <2>1. 4 \in DOMAIN GateOrder /\ 5 \in DOMAIN GateOrder /\ 6 \in DOMAIN GateOrder
        /\ 7 \in DOMAIN GateOrder /\ 22 \in DOMAIN GateOrder
    BY <1>1
  <2> QED
    BY <1>1, <2>1, GatesPass
<1>3. /\ GateFails(p, "kill-switch-engaged") <=> autoConfig.killed
      /\ GateFails(p, "auto-apply-disabled") <=> ~autoConfig.enabled
      /\ GateFails(p, "mode-not-auto") <=> EffectiveMode(autoConfig, p.opp) # "auto"
      /\ GateFails(p, "opportunity-excluded") <=> p.opp \in autoConfig.excluded
      /\ GateFails(p, "approver-not-trusted") <=> ApprovalFails(p, "approver-not-trusted")
  BY DEF GateFails
<1>4. ApprovalFails(p, "approver-not-trusted") <=> p.approval.key \notin trustedApprovers
  BY DEF ApprovalFails
<1> QED
  BY <1>2, <1>3, <1>4 DEF AutomaticFor

\* Entries before a position stay as they are.
LEMMA PrefixStays ==
    ASSUME NEW log, NEW longer, NEW n \in Nat, \A j \in 1 .. n : longer[j] = log[j],
           NEW i \in 1 .. n + 1
    PROVE  /\ \A c : Standing(log, c, i) => Standing(longer, c, i)
           /\ Lifted(log, i) => Lifted(longer, i)
           /\ \A k : Registered(log, k, i) => Registered(longer, k, i)
<1>1. \A j \in 1 .. i - 1 : longer[j] = log[j]
  OBVIOUS
<1>2. \A m \in 1 .. i - 1 : \A j \in m + 1 .. i - 1 : longer[j] = log[j]
  <2> SUFFICES ASSUME NEW m \in 1 .. i - 1, NEW j \in m + 1 .. i - 1 PROVE j \in 1 .. i - 1
    BY <1>1
  <2> QED
    OBVIOUS
<1>3. ASSUME NEW c, Standing(log, c, i) PROVE Standing(longer, c, i)
  BY <1>1, <1>2, <1>3 DEF Standing
<1>4. ASSUME Lifted(log, i) PROVE Lifted(longer, i)
  BY <1>1, <1>2, <1>4 DEF Lifted
<1>5. ASSUME NEW k, Registered(log, k, i) PROVE Registered(longer, k, i)
  BY <1>1, <1>2, <1>5 DEF Registered
<1> QED
  BY <1>3, <1>4, <1>5

\* What one more entry changes.
LEMMA LogGrows ==
    ASSUME NEW log, NEW longer, NEW n \in Nat, NEW e, longer[n + 1] = e,
           \A j \in 1 .. n : longer[j] = log[j]
    PROVE  /\ \A c : Standing(log, c, n + 1) /\ e.kind \notin ConfigKinds => Standing(longer, c, n + 2)
           /\ e.kind \in ConfigKinds =>
                ((e.config.enabled => e.kind \in {"enable", "import"}) => Standing(longer, e.config, n + 2))
           /\ Lifted(log, n + 1) /\ e.kind # "kill" => Lifted(longer, n + 2)
           /\ e.kind \in {"rearm", "import"} => Lifted(longer, n + 2)
           /\ \A k : Registered(log, k, n + 1) /\ e # [kind |-> "revoke", key |-> k]
                => Registered(longer, k, n + 2)
           /\ \A k : e = [kind |-> "register", key |-> k] => Registered(longer, k, n + 2)
<1>1. /\ (n + 1) - 1 = n /\ (n + 2) - 1 = n + 1 /\ n + 1 \in 1 .. n + 1
      /\ \A m \in 1 .. n : m \in 1 .. n + 1
      /\ \A j \in (n + 1) + 1 .. n + 1 : FALSE
  OBVIOUS
<1>2. \A m \in 1 .. n : \A j \in m + 1 .. n + 1 :
          j = n + 1 \/ (j \in m + 1 .. n /\ j \in 1 .. n)
  OBVIOUS
<1>3. ASSUME NEW c, Standing(log, c, n + 1), e.kind \notin ConfigKinds PROVE Standing(longer, c, n + 2)
  <2>1. PICK m \in 1 .. n : /\ log[m].kind \in ConfigKinds /\ log[m].config = c
                            /\ c.enabled => log[m].kind \in {"enable", "import"}
                            /\ \A j \in m + 1 .. n : log[j].kind \notin ConfigKinds
    BY <1>1, <1>3 DEF Standing
  <2>2. longer[m] = log[m] /\ \A j \in m + 1 .. n + 1 : longer[j].kind \notin ConfigKinds
    BY <1>2, <1>3, <2>1
  <2> QED
    BY <1>1, <2>1, <2>2 DEF Standing
<1>4. ASSUME e.kind \in ConfigKinds, e.config.enabled => e.kind \in {"enable", "import"}
      PROVE  Standing(longer, e.config, n + 2)
  BY <1>1, <1>4 DEF Standing
<1>5. ASSUME Lifted(log, n + 1), e.kind # "kill" PROVE Lifted(longer, n + 2)
  <2> SUFFICES ASSUME NEW k \in 1 .. n + 1, longer[k].kind = "kill"
               PROVE  \E l \in k + 1 .. n + 1 : longer[l].kind \in {"rearm", "import"}
    BY <1>1 DEF Lifted
  <2>1. k \in 1 .. n
    BY <1>5
  <2>2. PICK l \in k + 1 .. n : log[l].kind \in {"rearm", "import"}
    BY <1>1, <1>5, <2>1 DEF Lifted
  <2>3. l \in 1 .. n /\ l \in k + 1 .. n + 1
    BY <2>1
  <2> QED
    BY <2>2, <2>3
<1>6. ASSUME e.kind \in {"rearm", "import"} PROVE Lifted(longer, n + 2)
  <2> SUFFICES ASSUME NEW k \in 1 .. n + 1, longer[k].kind = "kill"
               PROVE  n + 1 \in k + 1 .. n + 1
    BY <1>1, <1>6 DEF Lifted
  <2>1. k # n + 1
    BY <1>6
  <2> QED
    BY <2>1
<1>7. ASSUME NEW k, Registered(log, k, n + 1), e # [kind |-> "revoke", key |-> k]
      PROVE  Registered(longer, k, n + 2)
  <2>1. PICK m \in 1 .. n : /\ log[m] = [kind |-> "register", key |-> k]
                            /\ \A j \in m + 1 .. n : log[j] # [kind |-> "revoke", key |-> k]
    BY <1>1, <1>7 DEF Registered
  <2>2. longer[m] = log[m] /\ \A j \in m + 1 .. n + 1 : longer[j] # [kind |-> "revoke", key |-> k]
    BY <1>2, <1>7, <2>1
  <2> QED
    BY <1>1, <2>1, <2>2 DEF Registered
<1>8. ASSUME NEW k, e = [kind |-> "register", key |-> k] PROVE Registered(longer, k, n + 2)
  BY <1>1, <1>8 DEF Registered
<1> QED
  BY <1>3, <1>4, <1>5, <1>6, <1>7, <1>8

\* One entry is logged, and what the authority holds changes with it.
LEMMA LoggedKeeps ==
    ASSUME AutoInv, NEW e \in LogEvents, Logged(e),
           e.kind = "allow" => AutomaticFor(autoConfig, e.opp) /\ e.key \in trustedApprovers,
           \/ /\ e.kind \in ConfigKinds /\ autoConfig' = e.config
              /\ e.config.enabled => e.kind \in {"enable", "import"}
              /\ ~e.config.killed => e.kind \in {"rearm", "import"} \/ (e.kind = "enable" /\ ~autoConfig.killed)
           \/ e.kind \notin ConfigKinds /\ autoConfig' = autoConfig,
           \A k \in trustedApprovers' :
               \/ e = [kind |-> "register", key |-> k]
               \/ k \in trustedApprovers /\ e # [kind |-> "revoke", key |-> k]
    PROVE  LoggedState' /\ autoLog' \in Seq(LogEvents)
<1>1. PICK n \in Nat : n = Len(autoLog)
  BY DEF AutoInv, AutoTypeOK
<1>2. /\ autoLog' \in Seq(LogEvents) /\ Len(autoLog') = n + 1 /\ autoLog'[n + 1] = e
      /\ \A i \in 1 .. n : autoLog'[i] = autoLog[i]
  BY <1>1 DEF AutoInv, AutoTypeOK, Logged
<1>3. /\ autoConfig.enabled => Standing(autoLog, autoConfig, n + 1)
      /\ ~autoConfig.killed => Lifted(autoLog, n + 1)
      /\ \A k \in trustedApprovers : Registered(autoLog, k, n + 1)
      /\ \A i \in 1 .. n : autoLog[i].kind = "allow" =>
             Founded(autoLog, autoLog[i].opp, autoLog[i].key, i)
  BY <1>1 DEF AutoInv, LoggedState
<1>4. /\ \A c : Standing(autoLog, c, n + 1) /\ e.kind \notin ConfigKinds => Standing(autoLog', c, n + 2)
      /\ e.kind \in ConfigKinds =>
           ((e.config.enabled => e.kind \in {"enable", "import"}) => Standing(autoLog', e.config, n + 2))
      /\ Lifted(autoLog, n + 1) /\ e.kind # "kill" => Lifted(autoLog', n + 2)
      /\ e.kind \in {"rearm", "import"} => Lifted(autoLog', n + 2)
      /\ \A k : Registered(autoLog, k, n + 1) /\ e # [kind |-> "revoke", key |-> k]
           => Registered(autoLog', k, n + 2)
      /\ \A k : e = [kind |-> "register", key |-> k] => Registered(autoLog', k, n + 2)
  BY <1>2, LogGrows
<1>5. Len(autoLog') + 1 = n + 2
  BY <1>2
<1>6. autoConfig'.enabled => Standing(autoLog', autoConfig', n + 2)
  BY <1>3, <1>4
<1>7. ~autoConfig'.killed => Lifted(autoLog', n + 2)
  BY <1>3, <1>4 DEF ConfigKinds
<1>8. \A k \in trustedApprovers' : Registered(autoLog', k, n + 2)
  BY <1>3, <1>4
<1>9. ASSUME NEW i \in 1 .. n + 1, autoLog'[i].kind = "allow"
      PROVE  Founded(autoLog', autoLog'[i].opp, autoLog'[i].key, i)
  <2>1. Founded(autoLog, autoLog'[i].opp, autoLog'[i].key, i)
    <3>1. CASE i = n + 1
      <4>1. e.kind = "allow" /\ autoConfig \in AutoConfigs
        BY <1>2, <1>9, <3>1 DEF AutoInv, AutoTypeOK
      <4>2. Standing(autoLog, autoConfig, i) /\ Lifted(autoLog, i) /\ Registered(autoLog, e.key, i)
        BY <1>3, <3>1, <4>1 DEF AutomaticFor
      <4> QED
        BY <1>2, <3>1, <4>1, <4>2 DEF Founded
    <3>2. CASE i \in 1 .. n
      BY <1>2, <1>3, <1>9, <3>2
    <3> QED
      BY <3>1, <3>2
  <2> QED
    BY <1>2, <2>1, PrefixStays DEF Founded
<1> QED
  BY <1>2, <1>5, <1>6, <1>7, <1>8, <1>9 DEF LoggedState

LEMMA SetConfigKeeps ==
    ASSUME AutoInv, NEW kind \in ConfigKinds, NEW config \in AutoConfigs, SetConfig(kind, config),
           config.enabled => kind \in {"enable", "import"},
           ~config.killed => kind \in {"rearm", "import"} \/ (kind = "enable" /\ ~autoConfig.killed)
    PROVE  AutoInv'
<1>1. PICK e \in LogEvents : e = [kind |-> kind, config |-> config]
  BY DEF LogEvents
<1>2. /\ Logged(e) /\ autoConfig' = config /\ trustedApprovers' = trustedApprovers
      /\ e.kind = kind /\ e.config = config /\ e.kind # "allow"
      /\ \A k : e # [kind |-> "revoke", key |-> k]
  BY <1>1 DEF SetConfig, ConfigKinds
<1>3. LoggedState' /\ autoLog' \in Seq(LogEvents)
  BY <1>2, LoggedKeeps
<1> QED
  BY <1>2, <1>3 DEF AutoInv, AutoTypeOK

LEMMA ConfigKeeps ==
    ASSUME AutoInv,
           \/ KillSwitch \/ Rearm \/ \E mode \in {"draft-only", "auto"} : Enable(mode)
           \/ \E config \in LegacyConfigs : ImportConfig(config)
    PROVE  AutoInv'
<1>1. autoConfig \in AutoConfigs
  BY DEF AutoInv, AutoTypeOK
<1>2. CASE KillSwitch
  <2>1. PICK config \in AutoConfigs : config = Killed(autoConfig)
    BY <1>1 DEF Killed, AutoConfigs, Modes
  <2>2. ~config.enabled /\ config.killed
    BY <1>1, <2>1 DEF Killed, AutoConfigs
  <2>3. SetConfig("kill", config) /\ "kill" \in ConfigKinds
    BY <1>2, <2>1 DEF KillSwitch, ConfigKinds
  <2> QED
    BY <2>2, <2>3, SetConfigKeeps
<1>3. CASE Rearm
  <2>1. PICK config \in AutoConfigs : config = Rearmed(autoConfig)
    BY <1>1 DEF Rearmed, AutoConfigs, Modes
  <2>2. ~config.enabled
    BY <1>1, <2>1 DEF Rearmed, AutoConfigs
  <2> QED
    BY <1>3, <2>1, <2>2, SetConfigKeeps DEF Rearm, ConfigKinds
<1>4. ASSUME NEW mode \in {"draft-only", "auto"}, Enable(mode) PROVE AutoInv'
  <2>1. PICK config \in AutoConfigs : config = [autoConfig EXCEPT !.enabled = TRUE, !.mode = mode]
    BY <1>1 DEF AutoConfigs, Modes
  <2> QED
    BY <1>4, <2>1, SetConfigKeeps DEF Enable, ConfigKinds
<1>5. ASSUME NEW config \in LegacyConfigs, ImportConfig(config) PROVE AutoInv'
  BY <1>5, AutomationAssumption, SetConfigKeeps DEF ImportConfig, ConfigKinds
<1> QED
  BY <1>2, <1>3, <1>4, <1>5

LEMMA EvaluateKeeps == ASSUME AutoInv, NEW p \in Packets, Evaluate(p) PROVE AutoInv'
<1>1. PICK e \in LogEvents : e = [kind |-> "allow", opp |-> p.opp, key |-> p.approval.key]
  BY DEF LogEvents, Opps
<1>2. /\ e.kind = "allow" /\ e.kind \notin ConfigKinds /\ e.opp = p.opp /\ e.key = p.approval.key
      /\ \A k : e # [kind |-> "revoke", key |-> k]
  BY <1>1 DEF ConfigKinds
<1>3. Logged(e) /\ UNCHANGED <<autoConfig, trustedApprovers>>
  BY <1>1 DEF Evaluate
<1>4. AutomaticFor(autoConfig, p.opp) /\ p.approval.key \in trustedApprovers
  BY AllowedMeans DEF Evaluate
<1>5. LoggedState' /\ autoLog' \in Seq(LogEvents)
  BY <1>2, <1>3, <1>4, LoggedKeeps
<1> QED
  BY <1>3, <1>5 DEF AutoInv, AutoTypeOK

LEMMA ApproverKeeps == ASSUME AutoInv, NEW k \in ApproverKeys, SetApproverKey(k) PROVE AutoInv'
<1>1. PICK change \in {"register", "revoke"} :
          /\ Logged([kind |-> change, key |-> k]) /\ UNCHANGED autoConfig
          /\ trustedApprovers' = IF change = "revoke" THEN trustedApprovers \ {k}
                                                      ELSE trustedApprovers \cup {k}
  BY DEF SetApproverKey
<1>2. PICK e \in LogEvents : e = [kind |-> change, key |-> k]
  BY DEF LogEvents
<1>3. /\ e.kind # "allow" /\ e.kind \notin ConfigKinds
      /\ \A j \in trustedApprovers' : \/ e = [kind |-> "register", key |-> j]
                                      \/ j \in trustedApprovers /\ e # [kind |-> "revoke", key |-> j]
  BY <1>1, <1>2 DEF ConfigKinds
<1>4. LoggedState' /\ autoLog' \in Seq(LogEvents)
  BY <1>1, <1>2, <1>3, LoggedKeeps
<1> QED
  BY <1>1, <1>4 DEF AutoInv, AutoTypeOK

\* The decisions in the log rest on what the property names.
LEMMA KillByInvariant == AutoInv => KillHolds
<1> SUFFICES ASSUME AutoInv, NEW i \in DOMAIN autoLog, autoLog[i].kind = "allow"
             PROVE  /\ \E e \in 1..(i - 1) :
                         /\ autoLog[e].kind \in {"enable", "import"}
                         /\ AutomaticFor(autoLog[e].config, autoLog[i].opp)
                         /\ \A j \in (e + 1)..(i - 1) : autoLog[j].kind \notin ConfigKinds
                    /\ \A k \in 1..(i - 1) : autoLog[k].kind = "kill" =>
                         \E l \in (k + 1)..(i - 1) : autoLog[l].kind \in {"rearm", "import"}
                    /\ \E k \in 1..(i - 1) :
                         /\ autoLog[k] = [kind |-> "register", key |-> autoLog[i].key]
                         /\ \A j \in (k + 1)..(i - 1) : autoLog[j] # [kind |-> "revoke", key |-> autoLog[i].key]
  BY DEF KillHolds
<1>1. Founded(autoLog, autoLog[i].opp, autoLog[i].key, i)
  BY DEF AutoInv, AutoTypeOK, LoggedState
<1>2. PICK c \in AutoConfigs : Standing(autoLog, c, i) /\ AutomaticFor(c, autoLog[i].opp)
  BY <1>1 DEF Founded
<1>3. PICK e \in 1 .. i - 1 : /\ autoLog[e].kind \in ConfigKinds /\ autoLog[e].config = c
                              /\ c.enabled => autoLog[e].kind \in {"enable", "import"}
                              /\ \A j \in e + 1 .. i - 1 : autoLog[j].kind \notin ConfigKinds
  BY <1>2 DEF Standing
<1>4. autoLog[e].kind \in {"enable", "import"}
  BY <1>2, <1>3 DEF AutomaticFor
<1> QED
  BY <1>1, <1>2, <1>3, <1>4 DEF Founded, Lifted, Registered

-----------------------------------------------------------------------------
\* The phases of an agent run.

RunRecord ==
    [phase : {AgentPhases[i] : i \in 1 .. 10}, actor : DOMAIN Workers \cup Humans,
     outcome : {"passed", "blocked"}]

\* The records are the phases in their order, each but the last passed; the
\* evaluator is not the author and the approver is a human.
RunInv ==
    LET run == agentRun  n == Len(run.records) IN
    /\ run.records \in Seq(RunRecord) /\ n <= 10
    /\ \A i \in 1 .. n : run.records[i].phase = AgentPhases[i]
    /\ \A i \in 1 .. n : i < n \/ run.status # "blocked" => run.records[i].outcome = "passed"
    /\ n >= 5 => run.generator = run.records[5].actor
    /\ n >= 6 => run.records[6].actor # run.records[5].actor
    /\ n >= 7 => run.records[7].actor \in Humans

LEMMA TenPhases == Len(AgentPhases) = 10 /\ DOMAIN AgentPhases = 1 .. 10
BY DEF AgentPhases

LEMMA Phases ==
    /\ AgentPhases[5] = "generate" /\ AgentPhases[6] = "evaluate" /\ AgentPhases[7] = "approve"
    /\ \A i \in 1 .. 10 : AgentPhases[i] = "generate" => i = 5
    /\ \A i \in 1 .. 10 : AgentPhases[i] = "evaluate" => i = 6
    /\ \A i \in 1 .. 10 : AgentPhases[i] = "approve" => i = 7
    /\ \A i \in 1 .. 10 : AgentPhases[i] = "execute" => i = 8
BY DEF AgentPhases

LEMMA AdvanceKeeps ==
    ASSUME RunInv, NEW actor \in DOMAIN Workers \cup Humans, NEW outcome \in {"passed", "blocked"},
           Advance(actor, outcome)
    PROVE  RunInv'
<1> DEFINE run == agentRun
           n == Len(run.records)
           phase == AgentPhases[n + 1]
           new == [phase |-> phase, actor |-> actor, outcome |-> outcome]
<1>1. /\ n \in Nat /\ n < 10 /\ run.records \in Seq(RunRecord) /\ run.status = "active"
  BY TenPhases DEF RunInv, Advance, RunActive
<1>2. n + 1 \in 1 .. 10
  BY <1>1
<1>3. /\ MayAct(phase, actor)
      /\ phase = "evaluate" => actor # run.generator
      /\ agentRun'.status = "blocked" <=> outcome = "blocked"
      /\ agentRun'.records = Append(run.records, new)
      /\ agentRun'.generator = IF phase = "generate" THEN actor ELSE run.generator
  BY DEF Advance
<1>4. new \in RunRecord /\ new.phase = phase /\ new.actor = actor /\ new.outcome = outcome
  BY <1>2 DEF RunRecord
<1>5. PICK records : records = agentRun'.records
  OBVIOUS
<1> HIDE DEF new
<1>6. /\ records \in Seq(RunRecord) /\ Len(records) = n + 1 /\ records[n + 1] = new
      /\ \A i \in 1 .. n : records[i] = run.records[i]
  BY <1>1, <1>3, <1>4, <1>5
<1>7. /\ \A i \in 1 .. n : run.records[i].phase = AgentPhases[i]
      /\ \A i \in 1 .. n : run.records[i].outcome = "passed"
      /\ n >= 5 => run.generator = run.records[5].actor
      /\ n >= 6 => run.records[6].actor # run.records[5].actor
      /\ n >= 7 => run.records[7].actor \in Humans
  BY <1>1 DEF RunInv
<1>8. /\ n + 1 = 5 <=> phase = "generate"
      /\ n + 1 = 6 <=> phase = "evaluate"
      /\ n + 1 = 7 <=> phase = "approve"
  <2>1. PICK m \in 1 .. 10 : m = n + 1
    BY <1>2
  <2>2. /\ m = 5 <=> AgentPhases[m] = "generate"
        /\ m = 6 <=> AgentPhases[m] = "evaluate"
        /\ m = 7 <=> AgentPhases[m] = "approve"
    BY Phases
  <2> QED
    BY <2>1, <2>2
<1> HIDE DEF n, phase
<1>9. \A i \in 1 .. n + 1 : records[i].phase = AgentPhases[i]
  BY <1>1, <1>4, <1>6, <1>7 DEF phase
<1>10. \A i \in 1 .. n + 1 : i < n + 1 \/ agentRun'.status # "blocked" => records[i].outcome = "passed"
  BY <1>1, <1>3, <1>4, <1>6, <1>7
<1>11. n + 1 >= 5 => agentRun'.generator = records[5].actor
  BY <1>1, <1>3, <1>4, <1>6, <1>7, <1>8
<1>12. n + 1 >= 6 => records[6].actor # records[5].actor
  BY <1>1, <1>3, <1>4, <1>6, <1>7, <1>8
<1>13. n + 1 >= 7 => records[7].actor \in Humans
  <2>1. n + 1 = 7 => actor \in Humans
    BY <1>3, <1>8 DEF MayAct
  <2> QED
    BY <1>1, <2>1, <1>4, <1>6, <1>7
<1> QED
  BY <1>1, <1>5, <1>6, <1>9, <1>10, <1>11, <1>12, <1>13 DEF RunInv

LEMMA ExecutionByInvariant == RunInv => ExecutionEarned
<1> SUFFICES ASSUME RunInv, NEW i \in DOMAIN agentRun.records,
                    agentRun.records[i].phase = "execute"
             PROVE  LET Of(phase) == {r \in {agentRun.records[j] : j \in 1..(i - 1)} : r.phase = phase} IN
                    /\ \A j \in 1..(i - 1) : agentRun.records[j].outcome = "passed"
                    /\ \E a \in Of("approve") : a.actor \in Humans
                    /\ \A g \in Of("generate"), v \in Of("evaluate") : g.actor # v.actor
  BY DEF ExecutionEarned
<1> DEFINE records == agentRun.records
           n == Len(records)
           Of(phase) == {r \in {records[j] : j \in 1..(i - 1)} : r.phase = phase}
<1>1. /\ n \in Nat /\ n <= 10 /\ i \in 1 .. n
      /\ \A j \in 1 .. n : records[j].phase = AgentPhases[j]
      /\ \A j \in 1 .. n : j < n => records[j].outcome = "passed"
      /\ n >= 6 => records[6].actor # records[5].actor
      /\ n >= 7 => records[7].actor \in Humans
  BY DEF RunInv
<1> HIDE DEF records, n
<1>2. i = 8
  <2>1. i \in 1 .. 10 /\ AgentPhases[i] = records[i].phase
    BY <1>1
  <2>2. records[i].phase = "execute"
    BY DEF records
  <2> QED
    BY <2>1, <2>2, Phases
<1>3. \A j \in 1 .. (i - 1) : records[j].outcome = "passed"
  BY <1>1, <1>2
<1>4. records[7] \in Of("approve") /\ records[7].actor \in Humans
  BY <1>1, <1>2, Phases
<1>5. \A g \in Of("generate"), v \in Of("evaluate") : g = records[5] /\ v = records[6]
  <2>1. \A j \in 1 .. (i - 1) : j \in 1 .. 10 /\ records[j].phase = AgentPhases[j]
    BY <1>1, <1>2
  <2>2. ASSUME NEW g \in Of("generate") PROVE g = records[5]
    <3>1. PICK j \in 1 .. (i - 1) : g = records[j] /\ records[j].phase = "generate"
      OBVIOUS
    <3>2. j = 5
      BY <2>1, <3>1, Phases
    <3> QED
      BY <3>1, <3>2
  <2>3. ASSUME NEW v \in Of("evaluate") PROVE v = records[6]
    <3>1. PICK j \in 1 .. (i - 1) : v = records[j] /\ records[j].phase = "evaluate"
      OBVIOUS
    <3>2. j = 6
      BY <2>1, <3>1, Phases
    <3> QED
      BY <3>1, <3>2
  <2> QED
    BY <2>2, <2>3
<1> QED
  BY <1>1, <1>2, <1>3, <1>4, <1>5 DEF records

\* No automation without its authority, for any packets, keys, workers and
\* imported configurations: every allowed decision rests on an enabling or an
\* import that no configuration event has followed, on kills that a rearm or an
\* import has lifted and on a key not revoked since; and nothing is executed
\* after a blocked phase, without a human or on its author's own evaluation
\* (auto-apply.ts:308-349, legacy-import.ts:146-167, agent-controller.ts:140-188).
THEOREM AutomationAlwaysEarned == PolicySpec => []AutomationEarned
<1>1. PolicyInit => AutoInv /\ RunInv
  <2> SUFFICES ASSUME PolicyInit PROVE AutoInv /\ RunInv
    OBVIOUS
  <2> USE DEF PolicyInit
  <2>1. AutoTypeOK
    <3>1. DefaultConfig \in AutoConfigs
      BY AutomationAssumption DEF DefaultConfig, AutoConfigs, Modes
    <3> QED
      BY <3>1 DEF AutoTypeOK
  <2>2. LoggedState
    <3>1. ~autoConfig.enabled
      BY DEF DefaultConfig
    <3>2. Lifted(autoLog, Len(autoLog) + 1)
      BY DEF Lifted
    <3> QED
      BY <3>1, <3>2 DEF LoggedState
  <2>3. RunInv
    BY DEF RunInv
  <2> QED
    BY <2>1, <2>2, <2>3 DEF AutoInv
<1>2. AutoInv /\ RunInv /\ [PolicyNext]_policyVars => AutoInv' /\ RunInv'
  <2> SUFFICES ASSUME AutoInv, RunInv, [PolicyNext]_policyVars PROVE AutoInv' /\ RunInv'
    OBVIOUS
  <2>1. ASSUME UNCHANGED <<autoConfig, autoLog, trustedApprovers>> PROVE AutoInv'
    BY <2>1 DEF AutoInv, AutoTypeOK, LoggedState
  <2>2. ASSUME UNCHANGED agentRun PROVE RunInv'
    BY <2>2 DEF RunInv
  <2>3. CASE AutoNext
    <3>1. UNCHANGED agentRun
      BY <2>3 DEF AutoNext, KillSwitch, Rearm, NextDay, Enable, SetConfig, ImportConfig,
                  Evaluate, SubmitToday, EditDocument, SetApproverKey
    <3>2. NextDay \/ (\E p \in Packets : SubmitToday(p) \/ EditDocument(p)) => AutoInv'
      <4>1. NextDay => UNCHANGED <<autoConfig, autoLog, trustedApprovers>>
        BY DEF NextDay
      <4>2. \A p \in Packets : SubmitToday(p) \/ EditDocument(p) =>
                UNCHANGED <<autoConfig, autoLog, trustedApprovers>>
        BY DEF SubmitToday, EditDocument
      <4> QED
        BY <2>1, <4>1, <4>2
    <3>3. AutoInv'
      BY <2>3, <3>2, ConfigKeeps, EvaluateKeeps, ApproverKeeps DEF AutoNext
    <3> QED
      BY <2>2, <3>1, <3>3
  <2>4. CASE AgentRunNext
    <3>1. UNCHANGED autoVars /\ RunInv'
      BY <2>4, AdvanceKeeps DEF AgentRunNext, Advance
    <3> QED
      BY <2>1, <3>1 DEF autoVars
  <2>5. CASE UNCHANGED policyVars
    BY <2>1, <2>2, <2>5 DEF policyVars, autoVars
  <2> QED
    BY <2>3, <2>4, <2>5 DEF PolicyNext
<1>3. AutoInv /\ RunInv => AutomationEarned
  BY KillByInvariant, ExecutionByInvariant DEF AutomationEarned
<1> QED
  BY <1>1, <1>2, <1>3, PTL DEF PolicySpec

-----------------------------------------------------------------------------
\* The credential passport.

Contents == {o.content : o \in Originals}
CheckResults == {"pass", "fail", "not-checked", "not-applicable"}

CredJobs == [o : Originals, deps : {DaemonDeps, HostDeps}, expected : {"any", "user"}, at : Nat,
             began : SUBSET Contents, signature : CheckResults \cup {"open"},
             refresh : CheckResults \cup {"open"}]

ClaimHashes ==
    [content : Contents, claim : {"claim", "larger-claim"}, public : BOOLEAN, auto : BOOLEAN]

PlanApprovals == [hash : ClaimHashes, at : Nat, expires : Nat, public : BOOLEAN, auto : BOOLEAN]

ClaimPlans ==
    [content : Contents, claim : {"claim", "larger-claim"}, public : BOOLEAN, auto : BOOLEAN,
     publiclyAssertable : BOOLEAN, allowedInAutoApply : BOOLEAN, hash : ClaimHashes,
     status : {"pending", "approved"}, approval : PlanApprovals \cup {NoEntry}]

PassportEntries ==
    [o : Originals, overall : {"rejected", "verified", "incomplete"}, at : Nat,
     expected : {"any", "user"}, began : SUBSET Contents,
     mappings : SUBSET [plan : ClaimPlans, at : Nat]]

PassportTypeOK ==
    /\ world \in [withdrawn : SUBSET {o.issuer : o \in Originals}, revoked : SUBSET Contents,
                  service : ServiceStates, steps : Nat]
    /\ credDay \in Nat
    /\ credJob # NoCredJob => credJob \in CredJobs
    /\ passports \in [OriginalIds -> PassportEntries \cup {NoEntry}]
    /\ mapping # NoEntry => mapping \in ClaimPlans
    /\ recorded \subseteq ClaimPlans

\* What the import in progress has established already.
ImportSoFar ==
    credJob # NoCredJob => /\ credJob.began \subseteq world.revoked
                           /\ credJob.signature = "pass" => credJob.o.genuine

\* An approval names what the person who gave it was shown.
GivenAsShown ==
    \A g \in given : g.approval.hash = [content |-> g.content, claim |-> g.claim,
                                       public |-> g.public, auto |-> g.auto]

\* What is checked of a claim as it is attached to the entry e.
ClaimStands(m, e) ==
    LET a == m.plan.approval IN
    /\ e.overall = "verified" /\ m.plan.content = e.o.content
    /\ a.hash = MappingHash(m.plan)
    /\ a.at <= m.at + MaxClockSkew /\ m.at < a.expires /\ a.expires <= a.at + MaxPlanWindow
    /\ UseWithinPlan(m.plan) /\ UseApproved(m.plan)
    /\ m.plan.publiclyAssertable => ~e.o.restricted

\* What is checked of a plan as it is recorded.
PlanStands(m) ==
    /\ UseWithinPlan(m)
    /\ m.status = "approved" => m.approval.hash = MappingHash(m)
    /\ m.publiclyAssertable \/ m.allowedInAutoApply => m.status = "approved" /\ UseApproved(m)

ClaimsStand ==
    \A id \in OriginalIds : passports[id] # NoEntry =>
        \A m \in passports[id].mappings : ClaimStands(m, passports[id])

PlansStand == \A m \in recorded : PlanStands(m)

\* The inductive invariant of the passport.
PassportInv ==
    PassportTypeOK /\ ImportSoFar /\ VerifiedWasSound /\ GivenAsShown /\ ClaimsStand /\ PlansStand

\* A plan that is approved under its own hash says what was shown.
LEMMA HashedWasShown ==
    ASSUME GivenAsShown, NEW m, m.approval.hash = MappingHash(m)
    PROVE  SaysWhatWasShown(m)
<1> SUFFICES ASSUME NEW g \in given, m.approval = g.approval
             PROVE  /\ m.content = g.content /\ m.claim = g.claim
                    /\ m.public = g.public /\ m.auto = g.auto
  BY DEF SaysWhatWasShown
<1>1. PICK shown : shown = g.approval.hash
  OBVIOUS
<1>2. shown = [content |-> g.content, claim |-> g.claim, public |-> g.public, auto |-> g.auto]
  BY <1>1 DEF GivenAsShown
<1>3. shown = MappingHash(m)
  BY <1>1
<1>4. /\ shown.content = g.content /\ shown.claim = g.claim
      /\ shown.public = g.public /\ shown.auto = g.auto
  BY <1>2
<1>5. /\ shown.content = m.content /\ shown.claim = m.claim
      /\ shown.public = m.public /\ shown.auto = m.auto
  BY <1>3 DEF MappingHash
<1> QED
  BY <1>4, <1>5

LEMMA PassportInvSuffices == PassportInv => PassportSound
<1> SUFFICES ASSUME PassportInv PROVE ClaimAsApproved /\ PlanAsApproved
  BY DEF PassportInv, PassportSound
<1>1. ClaimAsApproved
  <2> SUFFICES ASSUME NEW id \in OriginalIds, passports[id] # NoEntry,
                      NEW m \in passports[id].mappings
               PROVE  LET a == m.plan.approval IN
                      /\ passports[id].overall = "verified"
                      /\ m.plan.content = passports[id].o.content
                      /\ SaysWhatWasShown(m.plan)
                      /\ a.at <= m.at + MaxClockSkew /\ m.at < a.expires
                      /\ a.expires <= a.at + MaxPlanWindow
                      /\ UseWithinPlan(m.plan) /\ UseApproved(m.plan)
                      /\ m.plan.publiclyAssertable => ~passports[id].o.restricted
    BY DEF ClaimAsApproved
  <2>1. ClaimStands(m, passports[id])
    BY DEF PassportInv, ClaimsStand
  <2>2. SaysWhatWasShown(m.plan)
    BY <2>1, HashedWasShown DEF ClaimStands, PassportInv
  <2> QED
    BY <2>1, <2>2 DEF ClaimStands
<1>2. PlanAsApproved
  BY HashedWasShown DEF PassportInv, PlansStand, PlanStands, PlanAsApproved
<1> QED
  BY <1>1, <1>2

LEMMA PassportInitInv == CredInit => PassportInv
BY DEF CredInit, PassportInv, PassportTypeOK, ImportSoFar, VerifiedWasSound, GivenAsShown,
   ClaimsStand, PlansStand, Eligible, ServiceStates

\* A step that leaves the entries and the plans alone.
LEMMA ImportMoves ==
    ASSUME PassportInv, UNCHANGED <<passports, mapping, recorded, given>>,
           world' \in [withdrawn : SUBSET {o.issuer : o \in Originals}, revoked : SUBSET Contents,
                       service : ServiceStates, steps : Nat],
           credDay' \in Nat,
           credJob' # NoCredJob => credJob' \in CredJobs,
           ImportSoFar'
    PROVE  PassportInv'
BY DEF PassportInv, PassportTypeOK, VerifiedWasSound, GivenAsShown, ClaimsStand, PlansStand, Eligible

LEMMA CheckKeepsTypes ==
    /\ \A o, deps, w : SignatureCheck(o, deps, w) \in CheckResults
    /\ \A o, deps, s, w : RefreshCheck(o, deps, s, w) \in CheckResults
    /\ \A o, deps, w : SignatureCheck(o, deps, w) = "pass" => o.genuine
BY DEF SignatureCheck, RefreshCheck, CheckResults, JwsVerifies, DataIntegrityVerifies

LEMMA ChecksKeep ==
    ASSUME PassportInv, RefuseProof \/ CheckSignature \/ CheckRefresh
    PROVE  PassportInv'
<1>1. CASE RefuseProof
  BY <1>1, ImportMoves DEF RefuseProof, ImportSoFar, PassportInv, PassportTypeOK
<1>2. CASE CheckSignature
  <2>1. PICK s \in CheckResults : s = SignatureCheck(credJob.o, credJob.deps, world)
    BY CheckKeepsTypes
  <2>2. credJob' = [credJob EXCEPT !.signature = s] /\ credJob \in CredJobs
    BY <1>2, <2>1 DEF CheckSignature, PassportInv, PassportTypeOK
  <2>3. s = "pass" => credJob.o.genuine
    BY <2>1, CheckKeepsTypes
  <2>4. credJob' \in CredJobs /\ ImportSoFar'
    BY <1>2, <2>2, <2>3 DEF CheckSignature, CredJobs, ImportSoFar, PassportInv
  <2> QED
    BY <1>2, <2>4, ImportMoves DEF CheckSignature, PassportInv, PassportTypeOK
<1>3. CASE CheckRefresh
  <2>1. PICK r \in CheckResults :
            r = RefreshCheck(credJob.o, credJob.deps, credJob.signature, world)
    BY CheckKeepsTypes
  <2>2. credJob' = [credJob EXCEPT !.refresh = r] /\ credJob \in CredJobs
    BY <1>3, <2>1 DEF CheckRefresh, PassportInv, PassportTypeOK
  <2>3. credJob' \in CredJobs /\ ImportSoFar'
    BY <1>3, <2>2 DEF CheckRefresh, CredJobs, ImportSoFar, PassportInv
  <2> QED
    BY <1>3, <2>3, ImportMoves DEF CheckRefresh, PassportInv, PassportTypeOK
<1> QED
  BY <1>1, <1>2, <1>3

LEMMA BeginImportKeeps ==
    ASSUME PassportInv, NEW o \in Originals, NEW deps \in {DaemonDeps, HostDeps},
           NEW expected \in {"any", "user"}, BeginImport(o, deps, expected)
    PROVE  PassportInv'
<1>1. credJob' \in CredJobs /\ ImportSoFar'
  BY DEF BeginImport, CredJobs, ImportSoFar, PassportInv, PassportTypeOK, CheckResults
<1> QED
  BY <1>1, ImportMoves DEF BeginImport, PassportInv, PassportTypeOK

\* What the report says of a verified original.
LEMMA ReportSound ==
    ASSUME NEW o \in Originals, NEW now \in Nat, NEW expected, NEW deps, NEW w, NEW signature,
           NEW refresh, NEW checks,
           checks = [schema     |-> SchemaCheck(o, deps),
                     signature  |-> signature,
                     issuer     |-> IssuerCheck(o, signature),
                     subject    |-> SubjectCheck(o, expected),
                     time       |-> TimeCheck(o, now),
                     refresh    |-> refresh,
                     revocation |-> RevocationCheck(o, deps, w)],
           Report(checks) = "verified"
    PROVE  /\ signature = "pass" /\ o.issuer # o.subject /\ o.subject = expected
           /\ o.from <= now /\ (o.until # 0 => now < o.until)
           /\ o.status => o.content \notin w.revoked
<1>1. /\ checks["signature"] = "pass" /\ checks["issuer"] = "pass" /\ checks["subject"] = "pass"
      /\ checks["time"] = "pass" /\ checks["revocation"] \in {"pass", "not-applicable"}
  BY DEF Report
<1>2. /\ signature = "pass" /\ IssuerCheck(o, signature) = "pass"
      /\ SubjectCheck(o, expected) = "pass" /\ TimeCheck(o, now) = "pass"
      /\ RevocationCheck(o, deps, w) \in {"pass", "not-applicable"}
  BY <1>1
<1>3. o.issuer # o.subject /\ o.subject = expected
  BY <1>2 DEF IssuerCheck, SubjectCheck
<1>4. o.from <= now /\ (o.until # 0 => now < o.until)
  BY <1>2, OriginalAssumption DEF TimeCheck
<1>5. o.status => o.content \notin w.revoked
  BY <1>2 DEF RevocationCheck
<1> QED
  BY <1>2, <1>3, <1>4, <1>5

LEMMA RecordKeeps == ASSUME PassportInv, Record PROVE PassportInv'
<1>1. credJob \in CredJobs
  BY DEF PassportInv, PassportTypeOK, Record
<1>2. PICK o \in Originals : o = credJob.o
  BY <1>1 DEF CredJobs
<1>3. PICK checks :
        checks = [schema     |-> SchemaCheck(o, credJob.deps),
                  signature  |-> credJob.signature,
                  issuer     |-> IssuerCheck(o, credJob.signature),
                  subject    |-> SubjectCheck(o, credJob.expected),
                  time       |-> TimeCheck(o, credJob.at),
                  refresh    |-> credJob.refresh,
                  revocation |-> RevocationCheck(o, credJob.deps, world)]
  OBVIOUS
<1>4. PICK overall \in {"rejected", "verified", "incomplete"} : overall = Report(checks)
  BY DEF Report
<1>5. PICK e \in PassportEntries :
        e = [o |-> o, overall |-> overall, at |-> credJob.at, expected |-> credJob.expected,
             began |-> credJob.began, mappings |-> {}]
  BY <1>1 DEF CredJobs, PassportEntries
<1>6. passports' = passports \/ passports' = [passports EXCEPT ![o.id] = e]
  BY <1>2, <1>3, <1>4, <1>5 DEF Record
<1>7. credJob' = NoCredJob /\ UNCHANGED <<world, credDay, mapping, recorded, given>>
  BY DEF Record
<1>8. PassportTypeOK' /\ ImportSoFar'
  BY <1>6, <1>7 DEF PassportInv, PassportTypeOK, ImportSoFar
<1>9. e.overall = "verified" =>
        /\ e.o.genuine /\ e.o.issuer # e.o.subject /\ e.o.subject = e.expected
        /\ e.o.from <= e.at /\ (e.o.until # 0 => e.at < e.o.until)
        /\ e.o.status => e.o.content \notin e.began
  <2> SUFFICES ASSUME overall = "verified"
               PROVE  /\ o.genuine /\ o.issuer # o.subject /\ o.subject = credJob.expected
                      /\ o.from <= credJob.at /\ (o.until # 0 => credJob.at < o.until)
                      /\ o.status => o.content \notin credJob.began
    BY <1>5
  <2>1. /\ credJob.signature = "pass" /\ o.issuer # o.subject /\ o.subject = credJob.expected
        /\ o.from <= credJob.at /\ (o.until # 0 => credJob.at < o.until)
        /\ o.status => o.content \notin world.revoked
    BY <1>1, <1>3, <1>4, ReportSound DEF CredJobs
  <2> QED
    BY <1>2, <2>1 DEF PassportInv, ImportSoFar, Record
<1>10. VerifiedWasSound'
  BY <1>6, <1>9 DEF PassportInv, PassportTypeOK, VerifiedWasSound, Eligible
<1>11. ClaimsStand' /\ PlansStand' /\ GivenAsShown'
  BY <1>5, <1>6, <1>7 DEF PassportInv, PassportTypeOK, ClaimsStand, PlansStand, GivenAsShown
<1> QED
  BY <1>8, <1>10, <1>11 DEF PassportInv

\* A step that changes the plan in hand and nothing else.
LEMMA PlanMoves ==
    ASSUME PassportInv, UNCHANGED <<world, credDay, credJob, passports, recorded>>,
           mapping' # NoEntry => mapping' \in ClaimPlans,
           GivenAsShown'
    PROVE  PassportInv'
BY DEF PassportInv, PassportTypeOK, ImportSoFar, VerifiedWasSound, ClaimsStand, PlansStand, Eligible

LEMMA CreateMappingKeeps ==
    ASSUME PassportInv, NEW id \in OriginalIds, NEW public \in BOOLEAN, NEW auto \in BOOLEAN,
           CreateMapping(id, public, auto)
    PROVE  PassportInv'
<1>1. PICK content \in Contents : content = passports[id].o.content
  BY DEF CreateMapping, PassportInv, PassportTypeOK, PassportEntries, Contents
<1>2. PICK hash \in ClaimHashes :
        hash = [content |-> content, claim |-> "claim", public |-> public, auto |-> auto]
  BY DEF ClaimHashes
<1>3. mapping' = [content |-> content, claim |-> "claim", public |-> public, auto |-> auto,
                  publiclyAssertable |-> FALSE, allowedInAutoApply |-> FALSE,
                  hash |-> hash, status |-> "pending", approval |-> NoEntry]
  BY <1>1, <1>2 DEF CreateMapping, MappingHash
<1>4. mapping' \in ClaimPlans
  BY <1>2, <1>3 DEF ClaimPlans
<1> QED
  BY <1>4, PlanMoves DEF CreateMapping, GivenAsShown, PassportInv

LEMMA EditPlanKeeps ==
    ASSUME PassportInv, NEW claim \in {"claim", "larger-claim"}, NEW asked \in Uses,
           NEW allowed \in Uses, NEW rehash \in BOOLEAN, NEW approves \in BOOLEAN,
           EditMapping(claim, asked, allowed, rehash, approves)
    PROVE  PassportInv'
<1>1. mapping \in ClaimPlans /\ credDay \in Nat
  BY DEF EditMapping, PassportInv, PassportTypeOK
<1>2. PICK changed \in ClaimPlans :
        changed = [mapping EXCEPT !.claim = claim, !.public = asked.public, !.auto = asked.auto,
                                 !.publiclyAssertable = allowed.public,
                                 !.allowedInAutoApply = allowed.auto]
  BY <1>1 DEF ClaimPlans, Uses
<1>3. PICK hash \in ClaimHashes : hash = IF rehash THEN MappingHash(changed) ELSE mapping.hash
  <2>1. /\ changed.content \in Contents /\ changed.claim \in {"claim", "larger-claim"}
        /\ changed.public \in BOOLEAN /\ changed.auto \in BOOLEAN
    BY DEF ClaimPlans
  <2>2. MappingHash(changed) \in ClaimHashes
    BY <2>1, Zenon DEF MappingHash, ClaimHashes
  <2>3. mapping.hash \in ClaimHashes
    BY <1>1 DEF ClaimPlans
  <2> QED
    BY <2>2, <2>3
<1>4. PICK granted \in PlanApprovals :
        granted = [hash |-> hash, at |-> credDay, expires |-> credDay + 1,
                    public |-> allowed.public, auto |-> allowed.auto]
  <2>1. credDay + 1 \in Nat /\ allowed.public \in BOOLEAN /\ allowed.auto \in BOOLEAN
    BY <1>1 DEF Uses
  <2> QED
    BY <1>1, <2>1, Zenon DEF PlanApprovals
<1>5. mapping' = IF approves
                 THEN [changed EXCEPT !.hash = hash, !.status = "approved", !.approval = granted]
                 ELSE [changed EXCEPT !.hash = hash]
  BY <1>2, <1>3, <1>4 DEF EditMapping
<1>6. mapping' \in ClaimPlans
  BY <1>5 DEF ClaimPlans
<1> QED
  BY <1>6, PlanMoves DEF EditMapping, GivenAsShown, PassportInv

LEMMA ApproveMappingKeeps ==
    ASSUME PassportInv, NEW id \in OriginalIds, NEW granted \in PlanApprovals,
           ApproveMapping(id, granted)
    PROVE  PassportInv'
<1>1. mapping \in ClaimPlans
  BY DEF ApproveMapping, PassportInv, PassportTypeOK
<1>2. mapping' \in ClaimPlans
  BY <1>1 DEF ApproveMapping, ClaimPlans, PlanApprovals
<1>3. PICK g : g = [approval |-> granted, content |-> mapping.content, claim |-> mapping.claim,
                    public |-> mapping.public, auto |-> mapping.auto]
  OBVIOUS
<1>4. given' = given \cup {g}
  BY <1>3 DEF ApproveMapping
<1>5. granted.hash = [content |-> mapping.content, claim |-> mapping.claim,
                       public |-> mapping.public, auto |-> mapping.auto]
  BY DEF ApproveMapping, ApprovalValid, MappingBound, MappingHash
<1>6. g.approval.hash = [content |-> g.content, claim |-> g.claim,
                         public |-> g.public, auto |-> g.auto]
  BY <1>3, <1>5
<1>7. GivenAsShown'
  BY <1>4, <1>6 DEF PassportInv, GivenAsShown
<1> QED
  BY <1>2, <1>7, PlanMoves DEF ApproveMapping

LEMMA AttachMappingKeeps ==
    ASSUME PassportInv, NEW id \in OriginalIds, AttachMapping(id)
    PROVE  PassportInv'
<1>1. /\ mapping \in ClaimPlans /\ credDay \in Nat
      /\ passports[id] \in PassportEntries /\ passports[id].overall = "verified"
  BY DEF AttachMapping, Eligible, PassportInv, PassportTypeOK
<1>2. PICK m \in [plan : ClaimPlans, at : Nat] : m = [plan |-> mapping, at |-> credDay]
  BY <1>1
<1>3. PICK e : e = [passports[id] EXCEPT !.mappings = passports[id].mappings \cup {m}]
  OBVIOUS
<1>4. /\ passports' = [passports EXCEPT ![id] = e] /\ mapping' = NoEntry
      /\ UNCHANGED <<world, credDay, credJob, recorded, given>>
  BY <1>2, <1>3 DEF AttachMapping
<1>5. /\ e \in PassportEntries /\ e.mappings = passports[id].mappings \cup {m}
      /\ e.o = passports[id].o /\ e.overall = passports[id].overall /\ e.at = passports[id].at
      /\ e.expected = passports[id].expected /\ e.began = passports[id].began
  BY <1>1, <1>2, <1>3 DEF PassportEntries
<1>6. PassportTypeOK' /\ ImportSoFar'
  BY <1>4, <1>5 DEF PassportInv, PassportTypeOK, ImportSoFar
<1>7. VerifiedWasSound'
  BY <1>1, <1>4, <1>5 DEF AttachMapping, PassportInv, PassportTypeOK, VerifiedWasSound, Eligible
<1>8. ClaimStands(m, passports[id])
  <2>1. /\ mapping.approval # NoEntry /\ mapping.content = passports[id].o.content
        /\ mapping.hash = MappingHash(mapping)
        /\ ApprovalValid(id, mapping.approval) /\ UseApproved(mapping)
    BY DEF AttachMapping, MappingBound
  <2>2. mapping.approval \in PlanApprovals
    BY <1>1, <2>1 DEF ClaimPlans
  <2>3. PICK a \in PlanApprovals : a = mapping.approval
    BY <2>2
  <2>4. /\ a.hash = MappingHash(mapping)
        /\ a.at <= credDay + MaxClockSkew /\ credDay < a.expires
        /\ a.expires <= a.at + MaxPlanWindow
    BY <1>1, <2>1, <2>3, ClockAssumption DEF ApprovalValid, PlanApprovals
  <2>5. /\ UseWithinPlan(mapping)
        /\ mapping.publiclyAssertable => ~passports[id].o.restricted
    BY <2>1, <2>3 DEF ApprovalValid, UseApproved, UseWithinPlan
  <2> QED
    BY <1>1, <1>2, <2>1, <2>3, <2>4, <2>5 DEF ClaimStands
<1>9. ClaimsStand'
  <2> SUFFICES ASSUME NEW k \in OriginalIds, passports'[k] # NoEntry,
                      NEW n \in passports'[k].mappings
               PROVE  ClaimStands(n, passports'[k])
    BY DEF ClaimsStand
  <2>1. CASE k = id /\ n = m
    BY <1>1, <1>4, <1>5, <1>8, <2>1 DEF PassportInv, PassportTypeOK, ClaimStands
  <2>2. CASE k # id \/ n # m
    <3>1. /\ passports[k] # NoEntry /\ n \in passports[k].mappings
          /\ passports'[k].overall = passports[k].overall /\ passports'[k].o = passports[k].o
      <4>1. passports \in [OriginalIds -> PassportEntries \cup {NoEntry}] /\ passports[id] # NoEntry
        BY DEF AttachMapping, Eligible, PassportInv, PassportTypeOK
      <4>2. CASE k # id
        BY <1>4, <4>1, <4>2
      <4>3. CASE k = id
        <5>1. passports'[k] = e
          BY <1>4, <4>1, <4>3
        <5> QED
          BY <1>5, <2>2, <4>1, <4>3, <5>1
      <4> QED
        BY <4>2, <4>3
    <3> QED
      BY <3>1 DEF PassportInv, ClaimsStand, ClaimStands
  <2> QED
    BY <2>1, <2>2
<1>10. PlansStand' /\ GivenAsShown'
  BY <1>4 DEF PassportInv, PlansStand, GivenAsShown
<1> QED
  BY <1>6, <1>7, <1>9, <1>10 DEF PassportInv

LEMMA RecordPlanKeeps == ASSUME PassportInv, RecordPlan PROVE PassportInv'
<1>1. mapping \in ClaimPlans /\ PlanAccepted(mapping)
  BY DEF RecordPlan, PassportInv, PassportTypeOK
<1>2. mapping.status = "approved" => mapping.approval.hash = MappingHash(mapping)
  BY <1>1 DEF PlanAccepted
<1>3. mapping.status = "pending" => ~mapping.publiclyAssertable /\ ~mapping.allowedInAutoApply
  BY <1>1 DEF PlanAccepted
<1>4. mapping.status = "approved" => UseWithinPlan(mapping) /\ UseApproved(mapping)
  BY <1>1 DEF PlanAccepted, UseApproved, UseWithinPlan
<1>5. PlanStands(mapping)
  <2>1. mapping.status \in {"pending", "approved"}
    BY <1>1 DEF ClaimPlans
  <2> QED
    BY <1>2, <1>3, <1>4, <2>1 DEF PlanStands, UseWithinPlan
<1>6. PlansStand'
  BY <1>5 DEF RecordPlan, PassportInv, PlansStand
<1> QED
  BY <1>1, <1>6 DEF RecordPlan, PassportInv, PassportTypeOK, ImportSoFar, VerifiedWasSound,
     ClaimsStand, GivenAsShown, Eligible

LEMMA WorldKeeps ==
    ASSUME PassportInv, Withdraw \/ RevokeCredential \/ StatusService \/ CredTick
    PROVE  PassportInv'
<1>1. ASSUME NEW w \in [withdrawn : SUBSET {o.issuer : o \in Originals}, revoked : SUBSET Contents,
                        service : ServiceStates, steps : Nat],
             WorldStep(w), world.revoked \subseteq w.revoked
      PROVE  PassportInv'
  <2>1. /\ world'.revoked = w.revoked
        /\ world' \in [withdrawn : SUBSET {o.issuer : o \in Originals}, revoked : SUBSET Contents,
                       service : ServiceStates, steps : Nat]
    BY <1>1 DEF WorldStep
  <2> QED
    BY <1>1, <2>1, ImportMoves DEF WorldStep, PassportInv, PassportTypeOK, ImportSoFar
<1>2. world \in [withdrawn : SUBSET {o.issuer : o \in Originals}, revoked : SUBSET Contents,
                 service : ServiceStates, steps : Nat]
  BY DEF PassportInv, PassportTypeOK
<1>3. CASE Withdraw
  <2>1. PICK o \in Originals : WorldStep([world EXCEPT !.withdrawn = world.withdrawn \cup {o.issuer}])
    BY <1>3 DEF Withdraw
  <2> QED
    BY <1>1, <1>2, <2>1
<1>4. CASE RevokeCredential
  <2>1. PICK o \in Originals : WorldStep([world EXCEPT !.revoked = world.revoked \cup {o.content}])
    BY <1>4 DEF RevokeCredential
  <2> QED
    BY <1>1, <1>2, <2>1 DEF Contents
<1>5. CASE StatusService
  BY <1>1, <1>2, <1>5 DEF StatusService
<1>6. CASE CredTick
  BY <1>2, <1>6, ImportMoves DEF CredTick, PassportInv, PassportTypeOK, ImportSoFar
<1> QED
  BY <1>3, <1>4, <1>5, <1>6

LEMMA PassportNextInv == PassportInv /\ [CredNext]_credVars => PassportInv'
<1> SUFFICES ASSUME PassportInv, [CredNext]_credVars PROVE PassportInv'
  OBVIOUS
<1>1. CASE UNCHANGED credVars
  BY <1>1 DEF credVars, PassportInv, PassportTypeOK, ImportSoFar, VerifiedWasSound,
     GivenAsShown, ClaimsStand, PlansStand, Eligible
<1>2. ASSUME NEW o \in Originals, NEW deps \in {DaemonDeps, HostDeps},
             NEW expected \in {"any", "user"}, BeginImport(o, deps, expected)
      PROVE  PassportInv'
  BY <1>2, BeginImportKeeps
<1>3. CASE RefuseProof \/ CheckSignature \/ CheckRefresh \/ Record
  BY <1>3, ChecksKeep, RecordKeeps
<1>4. CASE RecordPlan \/ DropMapping
  BY <1>4, PlanMoves, RecordPlanKeeps DEF DropMapping, GivenAsShown, PassportInv
<1>5. CASE Withdraw \/ RevokeCredential \/ StatusService \/ CredTick
  BY <1>5, WorldKeeps
<1>6. ASSUME NEW id \in OriginalIds, AttachMapping(id) PROVE PassportInv'
  BY <1>6, AttachMappingKeeps
<1>7. ASSUME NEW id \in OriginalIds, NEW public \in BOOLEAN, NEW auto \in BOOLEAN,
             CreateMapping(id, public, auto)
      PROVE  PassportInv'
  BY <1>7, CreateMappingKeeps
<1>8. ASSUME NEW id \in OriginalIds, NEW public \in BOOLEAN, NEW auto \in BOOLEAN,
             mapping # NoEntry, NEW at \in 0 .. credDay + MaxClockSkew,
             NEW expires \in {at + 1, at + MaxPlanWindow},
             ApproveMapping(id, [hash |-> mapping.hash, at |-> at, expires |-> expires,
                                 public |-> public, auto |-> auto])
      PROVE  PassportInv'
  <2>1. at \in Nat /\ expires \in Nat
    BY ClockAssumption DEF PassportInv, PassportTypeOK
  <2>2. mapping.hash \in ClaimHashes
    BY <1>8 DEF PassportInv, PassportTypeOK, ClaimPlans
  <2>3. [hash |-> mapping.hash, at |-> at, expires |-> expires, public |-> public, auto |-> auto]
          \in PlanApprovals
    BY <2>1, <2>2, Zenon DEF PlanApprovals
  <2> QED
    BY <1>8, <2>3, ApproveMappingKeeps
<1>9. ASSUME NEW claim \in {"claim", "larger-claim"}, NEW asked \in Uses, NEW allowed \in Uses,
             NEW rehash \in BOOLEAN, NEW approves \in BOOLEAN,
             EditMapping(claim, asked, allowed, rehash, approves)
      PROVE  PassportInv'
  BY <1>9, EditPlanKeeps
<1> QED
  BY <1>1, <1>2, <1>3, <1>4, <1>5, <1>6, <1>7, <1>8, <1>9 DEF CredNext

(* The passport says only what was verified and approved: whatever the       *)
(* issuers' services do while an import runs, and whatever happens to a plan *)
(* between its proposal, its approval and its use (importer.ts, mapping.ts). *)
THEOREM PassportAlwaysSound == CredSpec => []PassportSound
  BY PassportInitInv, PassportNextInv, PassportInvSuffices, PTL DEF CredSpec

-----------------------------------------------------------------------------
\* The discovery evidence.

TruthEntries ==
    [value : [mandatory : TruthFields, optional : TruthFields, assessedAt : Nat,
              disposition : {"blocked", "actionable"}],
     recordedAt : Nat]

EvidenceTimes == 0 .. MaxEvidenceDay + MaxFutureSkew + 1

EvidenceTypeOK ==
    /\ evDay \in 0 .. MaxEvidenceDay
    /\ \A o \in obs : o.at \in EvidenceTimes
    /\ \A a \in held : a.at \in Nat
    /\ liveness \in Seq([value : {"unresolved", "live", "stale", "closed", "unreachable"},
                         recordedAt : Nat])
    /\ truths \in Seq(TruthEntries)
    /\ duplicates \in Seq([value : DecidedSets, recordedAt : Nat])

TruthsHold == \A i \in DOMAIN truths : AssertTruth(truths[i].value)

\* The inductive invariant of the evidence: an assessment that is held was made
\* from the observations there are, and what is recorded reads back.
EvidenceInv ==
    /\ EvidenceTypeOK /\ TruthsHold /\ ClosedConfirmed
    /\ \A a \in held : a.state \in {"unresolved", "live", "stale", "closed", "unreachable"}

LEMMA EvidenceInitInv == EvidenceInit => EvidenceInv
<1> SUFFICES ASSUME EvidenceInit PROVE EvidenceInv
  OBVIOUS
<1>1. /\ evDay = 0 /\ obs = {} /\ held = {} /\ liveness = << >> /\ truths = << >>
      /\ duplicates = << >> /\ MaxEvidenceDay \in Nat
  BY EvidenceBounds DEF EvidenceInit
<1> QED
  BY <1>1 DEF EvidenceInv, EvidenceTypeOK, TruthsHold, ClosedConfirmed

\* The times of some of the observations are a finite set.
LEMMA TimesFinite ==
    ASSUME EvidenceTypeOK, NEW os \in SUBSET obs
    PROVE  /\ IsFiniteSet({o.at : o \in os}) /\ {o.at : o \in os} \subseteq Nat
           /\ Cardinality({o.at : o \in os}) \in Nat
<1>1. MaxEvidenceDay + MaxFutureSkew + 1 \in Nat
  BY EvidenceBounds
<1>2. IsFiniteSet(EvidenceTimes)
  BY <1>1, FS_Interval DEF EvidenceTimes
<1>3. {o.at : o \in os} \subseteq EvidenceTimes
  BY DEF EvidenceTypeOK
<1>4. EvidenceTimes \subseteq Nat
  BY <1>1 DEF EvidenceTimes
<1>5. IsFiniteSet({o.at : o \in os})
  BY <1>2, <1>3, FS_Subset
<1> QED
  BY <1>3, <1>4, <1>5, FS_CardinalityType

\* A run of negative observations long enough ends at a time since which
\* nothing else was seen.
LEMMA ClosedFromHead ==
    ASSUME EvidenceTypeOK, LivenessState(obs, evDay) = "closed"
    PROVE  \E since \in {o.at : o \in obs} :
             /\ evDay - since <= MaxNegativeAge
             /\ \A o \in obs : o.at > since => o.availability \in Negative
             /\ Cardinality({o.at : o \in {p \in obs :
                  p.at >= since /\ p.availability \in Negative}})
                  >= ClosedConfirmationCount
<1> DEFINE head == NegativeHead(obs, evDay)
           times == {o.at : o \in head}
<1>1. Cardinality(times) >= ClosedConfirmationCount
  BY DEF LivenessState
<1>2. head \subseteq obs
  BY DEF NegativeHead
<1>3. IsFiniteSet(times) /\ times \subseteq Nat /\ Cardinality(times) \in Nat
  BY <1>2, TimesFinite
<1>4. times # {}
  BY <1>1, FS_EmptySet, EvidenceBounds
<1>5. PICK since \in times : \A k \in times : since <= k
  BY <1>3, <1>4, LeastElement
<1>6. PICK s \in head : s.at = since
  OBVIOUS
<1>7. /\ s \in obs /\ s.availability \in Negative /\ Age(s, evDay) <= MaxNegativeAge
      /\ \A q \in obs : Newer(q, s) => q.availability \in Negative
  BY <1>6 DEF NegativeHead
<1>8. evDay - since <= MaxNegativeAge
  BY <1>6, <1>7 DEF Age
<1>9. \A o \in obs : o.at > since => o.availability \in Negative
  BY <1>6, <1>7 DEF Newer
<1> DEFINE run == {p \in obs : p.at >= since /\ p.availability \in Negative}
<1>10. head \subseteq run
  <2> SUFFICES ASSUME NEW p \in head PROVE p \in run
    OBVIOUS
  <2>1. p \in obs /\ p.availability \in Negative
    BY DEF NegativeHead
  <2>2. p.at \in times /\ p.at \in Nat /\ since \in Nat
    BY <1>3
  <2> QED
    BY <1>5, <2>1, <2>2
<1>11. Cardinality({o.at : o \in run}) >= ClosedConfirmationCount
  <2>1. times \subseteq {o.at : o \in run}
    BY <1>10
  <2>2. IsFiniteSet({o.at : o \in run}) /\ Cardinality({o.at : o \in run}) \in Nat
    BY TimesFinite
  <2>3. Cardinality(times) <= Cardinality({o.at : o \in run})
    BY <2>1, <2>2, FS_Subset
  <2> QED
    BY <1>1, <1>3, <2>2, <2>3, EvidenceBounds
<1>12. since \in {o.at : o \in obs}
  BY <1>6, <1>7
<1> QED
  BY <1>8, <1>9, <1>11, <1>12

LEMMA StatesOfLiveness ==
    ASSUME NEW os, NEW now
    PROVE  LivenessState(os, now) \in {"unresolved", "live", "stale", "closed", "unreachable"}
BY DEF LivenessState

\* What a record keeps of a field it accepted, it accepts again, unchanged.
LEMMA FieldReadsBack ==
    ASSUME NEW f \in TruthFields, NEW now \in Nat, FieldAccepted(f, now)
    PROVE  /\ CanonicalField(f, now) \in TruthFields
           /\ FieldAccepted(CanonicalField(f, now), now)
           /\ CanonicalField(CanonicalField(f, now), now) = CanonicalField(f, now)
<1> DEFINE s == CanonicalState(f, now)
<1>1. s \in TruthClaims \cup {"conflicting", "unresolved", "stale"}
  BY DEF CanonicalState, TruthFields
<1>2. PICK c \in TruthFields : c = CanonicalField(f, now)
  BY <1>1 DEF CanonicalField, TruthFields
<1>3. /\ c.state = s /\ c.known = f.known /\ c.evidence = f.evidence /\ c.at = f.at
      /\ f.at \in Int /\ c.at \in Int
  BY <1>2 DEF CanonicalField, TruthFields
<1>4. ~Aged(c, now)
  BY <1>3 DEF Aged, CanonicalState, TruthClaims
<1>5. CanonicalState(c, now) = c.state
  BY <1>4 DEF CanonicalState
<1>6. CanonicalField(c, now) = c
  BY <1>5 DEF CanonicalField, TruthFields
<1>7. FieldAccepted(c, now)
  <2>1. CASE Aged(f, now)
    <3>1. c.state = "stale" /\ now - f.at > MaxTruthAge
      BY <1>3, <2>1 DEF CanonicalState, Aged
    <3> QED
      BY <1>3, <1>5, <3>1 DEF FieldAccepted, TruthClaims
  <2>2. CASE ~Aged(f, now)
    <3>1. c.state = f.state /\ CanonicalState(f, now) = f.state
      BY <1>3, <2>2 DEF CanonicalState
    <3> QED
      BY <1>3, <1>5, <3>1 DEF FieldAccepted
  <2> QED
    BY <2>1, <2>2
<1> QED
  BY <1>2, <1>6, <1>7

LEMMA RecordReadsBack ==
    ASSUME NEW m \in TruthFields, NEW o \in TruthFields, NEW now \in Nat,
           FieldAccepted(m, now), FieldAccepted(o, now)
    PROVE  /\ AssertTruth(TruthRecord(m, o, now))
           /\ [value |-> TruthRecord(m, o, now), recordedAt |-> now] \in TruthEntries
<1>1. PICK c \in TruthFields : /\ c = CanonicalField(m, now) /\ FieldAccepted(c, now)
                               /\ CanonicalField(c, now) = c
  BY FieldReadsBack
<1>2. PICK d \in TruthFields : /\ d = CanonicalField(o, now) /\ FieldAccepted(d, now)
                               /\ CanonicalField(d, now) = d
  BY FieldReadsBack
<1>3. TruthRecord(m, o, now) = TruthRecord(c, d, now)
  BY <1>1, <1>2 DEF TruthRecord
<1>4. /\ TruthRecord(c, d, now).mandatory = c /\ TruthRecord(c, d, now).optional = d
      /\ TruthRecord(c, d, now).assessedAt = now
  BY <1>1, <1>2 DEF TruthRecord
<1>5. TruthRecord(c, d, now) \in [mandatory : TruthFields, optional : TruthFields,
                                  assessedAt : Nat, disposition : {"blocked", "actionable"}]
  BY <1>1, <1>2 DEF TruthRecord
<1> QED
  BY <1>1, <1>2, <1>3, <1>4, <1>5 DEF AssertTruth, TruthEntries

\* A step that leaves the observations and the assessment as they are.
LEMMA SameAssessment ==
    ASSUME EvidenceInv, UNCHANGED <<obs, held>>
    PROVE  ClosedConfirmed' /\ \A a \in held' :
              a.state \in {"unresolved", "live", "stale", "closed", "unreachable"}
BY DEF EvidenceInv, ClosedConfirmed, Negative

LEMMA EvidenceNextInv == EvidenceInv /\ [EvidenceNext]_evidenceVars => EvidenceInv'
<1> SUFFICES ASSUME EvidenceInv, [EvidenceNext]_evidenceVars PROVE EvidenceInv'
  OBVIOUS
<1>1. /\ EvidenceTypeOK /\ TruthsHold /\ ClosedConfirmed /\ evDay \in Nat /\ MaxEvidenceDay \in Nat
      /\ MaxFutureSkew \in Nat
  BY EvidenceBounds DEF EvidenceInv, EvidenceTypeOK
<1>2. ASSUME NEW f \in Fetched, NEW gap \in BOOLEAN, NEW ahead \in 0 .. MaxFutureSkew + 1,
             NEW digest \in 1 .. MaxObservations, Observe(f, gap, ahead, digest)
      PROVE  EvidenceInv'
  <2>1. PICK o : /\ obs' = obs \cup {o} /\ o.at = evDay + ahead
                 /\ held = {} /\ UNCHANGED <<evDay, held, liveness, truths, duplicates>>
    BY <1>2 DEF Observe
  <2>2. o.at \in EvidenceTimes
    BY <1>1, <2>1 DEF EvidenceTimes, EvidenceTypeOK
  <2> QED
    BY <1>1, <2>1, <2>2 DEF EvidenceInv, EvidenceTypeOK, TruthsHold, ClosedConfirmed
<1>3. CASE Assess
  <2>1. /\ held' = {[state |-> LivenessState(obs, evDay), at |-> evDay]}
        /\ UNCHANGED <<evDay, obs, liveness, truths, duplicates>>
    BY <1>3 DEF Assess
  <2>2. ClosedConfirmed'
    <3> SUFFICES ASSUME NEW a \in held', a.state = "closed"
                 PROVE  \E since \in {o.at : o \in obs} :
                          /\ a.at - since <= MaxNegativeAge
                          /\ \A o \in obs : o.at > since => o.availability \in Negative
                          /\ Cardinality({o.at : o \in {p \in obs :
                               p.at >= since /\ p.availability \in Negative}})
                               >= ClosedConfirmationCount
      BY <2>1 DEF ClosedConfirmed, Negative
    <3>1. a.at = evDay /\ LivenessState(obs, evDay) = "closed"
      BY <2>1
    <3> QED
      BY <1>1, <3>1, ClosedFromHead
  <2>3. \A a \in held' : /\ a.at \in Nat
                         /\ a.state \in {"unresolved", "live", "stale", "closed", "unreachable"}
    BY <1>1, <2>1, StatesOfLiveness
  <2>4. EvidenceTypeOK'
    BY <1>1, <2>1, <2>3 DEF EvidenceTypeOK
  <2>5. TruthsHold'
    BY <1>1, <2>1 DEF TruthsHold
  <2> QED
    BY <2>2, <2>3, <2>4, <2>5 DEF EvidenceInv
<1>4. ASSUME NEW a \in held, RecordLiveness(a) PROVE EvidenceInv'
  <2>1. /\ liveness' = Append(liveness, [value |-> a.state, recordedAt |-> evDay])
        /\ held' = {} /\ obs' = {} /\ UNCHANGED <<evDay, truths, duplicates>>
    BY <1>4 DEF RecordLiveness
  <2>2. a.state \in {"unresolved", "live", "stale", "closed", "unreachable"}
    BY DEF EvidenceInv
  <2>3. liveness' \in Seq([value : {"unresolved", "live", "stale", "closed", "unreachable"},
                           recordedAt : Nat])
    BY <1>1, <2>1, <2>2 DEF EvidenceTypeOK
  <2>4. EvidenceTypeOK'
    BY <1>1, <2>1, <2>3 DEF EvidenceTypeOK
  <2> QED
    BY <1>1, <2>1, <2>4 DEF EvidenceInv, TruthsHold, ClosedConfirmed
<1>5. ASSUME NEW m \in MandatoryInputs, NEW o \in OptionalInputs, RecordTruth(m, o)
      PROVE  EvidenceInv'
  <2>1. m \in TruthFields /\ o \in TruthFields
    BY FieldInputs
  <2>2. PICK e \in TruthEntries :
          /\ e = [value |-> TruthRecord(m, o, evDay), recordedAt |-> evDay]
          /\ AssertTruth(e.value)
    BY <1>1, <1>5, <2>1, RecordReadsBack DEF RecordTruth
  <2>3. /\ truths' = Append(truths, e)
        /\ UNCHANGED <<evDay, obs, held, liveness, duplicates>>
    BY <1>5, <2>2 DEF RecordTruth
  <2>4. truths \in Seq(TruthEntries)
    BY <1>1 DEF EvidenceTypeOK
  <2>5. truths' \in Seq(TruthEntries)
    BY <2>3, <2>4
  <2>6. \A i \in DOMAIN truths' : truths'[i] = e \/ (i \in DOMAIN truths /\ truths'[i] = truths[i])
    BY <2>3, <2>4
  <2>7. TruthsHold'
    <3> SUFFICES ASSUME NEW i \in DOMAIN truths' PROVE AssertTruth(truths'[i].value)
      BY DEF TruthsHold, AssertTruth, FieldAccepted, TruthRecord
    <3> QED
      BY <1>1, <2>2, <2>6 DEF TruthsHold
  <2>8. EvidenceTypeOK'
    BY <1>1, <2>3, <2>5 DEF EvidenceTypeOK
  <2> QED
    BY <2>3, <2>7, <2>8, SameAssessment DEF EvidenceInv
<1>6. ASSUME NEW outcomes \in DecidedSets, RecordDuplicates(outcomes) PROVE EvidenceInv'
  <2>1. /\ duplicates' = Append(duplicates, [value |-> outcomes, recordedAt |-> evDay])
        /\ UNCHANGED <<evDay, obs, held, liveness, truths>>
    BY <1>6 DEF RecordDuplicates
  <2>2. duplicates' \in Seq([value : DecidedSets, recordedAt : Nat])
    BY <1>1, <2>1 DEF EvidenceTypeOK
  <2>3. EvidenceTypeOK' /\ TruthsHold'
    BY <1>1, <2>1, <2>2 DEF EvidenceTypeOK, TruthsHold
  <2> QED
    BY <2>1, <2>3, SameAssessment DEF EvidenceInv
<1>7. CASE PassDay
  <2>1. /\ evDay' = evDay + 1 /\ evDay < MaxEvidenceDay
        /\ UNCHANGED <<obs, held, liveness, truths, duplicates>>
    BY <1>7 DEF PassDay
  <2>2. EvidenceTypeOK' /\ TruthsHold'
    BY <1>1, <2>1 DEF EvidenceTypeOK, TruthsHold
  <2> QED
    BY <2>1, <2>2, SameAssessment DEF EvidenceInv
<1>8. CASE UNCHANGED evidenceVars
  <2>1. EvidenceTypeOK' /\ TruthsHold'
    BY <1>1, <1>8 DEF evidenceVars, EvidenceTypeOK, TruthsHold
  <2> QED
    BY <1>8, <2>1, SameAssessment DEF EvidenceInv, evidenceVars
<1> QED
  BY <1>2, <1>3, <1>4, <1>5, <1>6, <1>7, <1>8 DEF EvidenceNext

\* What the list shows as ready has, of each kind, a newest record that says so.
LEMMA ReadyMeans ==
    ASSUME EvidenceInv, "ready" \in ReviewStatuses
    PROVE  /\ "live" \in Newest(liveness)
           /\ \E t \in Newest(truths) : t.disposition = "actionable"
<1>1. PICK s \in StatesShown, d \in DispositionsShown, u \in DuplicatesShown :
              Status(s, d, u) = "ready"
  BY DEF ReviewStatuses
<1>2. s = "live" /\ d = "actionable"
  BY <1>1 DEF Status
<1> QED
  BY <1>1, <1>2 DEF Or, StatesShown, DispositionsShown

LEMMA EvidenceInvSound == EvidenceInv => EvidenceSound
<1> SUFFICES ASSUME EvidenceInv PROVE ReviewSound
  BY DEF EvidenceInv, EvidenceSound
<1> SUFFICES ASSUME "ready" \in ReviewStatuses
             PROVE  /\ \E i \in DOMAIN liveness :
                         /\ liveness[i].value = "live"
                         /\ \A j \in DOMAIN liveness :
                              liveness[j].value = "closed" =>
                                liveness[j].recordedAt <= liveness[i].recordedAt
                    /\ \E i \in DOMAIN truths :
                         /\ truths[i].value.mandatory.state \in TruthClaims
                         /\ \A j \in DOMAIN truths :
                              truths[j].value.disposition = "blocked" =>
                                truths[j].recordedAt <= truths[i].recordedAt
  BY DEF EvidenceInv, TruthsHold, ReviewSound
<1>1. PICK i \in DOMAIN liveness : /\ liveness[i].value = "live"
                                   /\ \A k \in DOMAIN liveness :
                                        liveness[k].recordedAt <= liveness[i].recordedAt
  BY ReadyMeans DEF Newest
<1>2. PICK j \in DOMAIN truths : /\ truths[j].value.disposition = "actionable"
                                 /\ \A k \in DOMAIN truths :
                                      truths[k].recordedAt <= truths[j].recordedAt
  BY ReadyMeans DEF Newest
<1>3. truths[j].value.mandatory.state \in TruthClaims
  <2>1. PICK t : t = truths[j].value
    OBVIOUS
  <2>2. t.mandatory \in TruthFields /\ AssertTruth(t)
    <3>1. truths \in Seq(TruthEntries) /\ AssertTruth(t)
      BY <2>1 DEF EvidenceInv, EvidenceTypeOK, TruthsHold
    <3>2. truths[j] \in TruthEntries
      BY <3>1
    <3> QED
      BY <2>1, <3>1, <3>2 DEF TruthEntries
  <2>3. /\ t.mandatory = CanonicalField(t.mandatory, t.assessedAt)
        /\ ~HasBlockers(CanonicalField(t.mandatory, t.assessedAt),
                        CanonicalField(t.optional, t.assessedAt))
    <3>1. TruthRecord(t.mandatory, t.optional, t.assessedAt) = t
      BY <2>2 DEF AssertTruth
    <3>2. TruthRecord(t.mandatory, t.optional, t.assessedAt).disposition = "actionable"
      BY <1>2, <2>1, <3>1
    <3>3. TruthRecord(t.mandatory, t.optional, t.assessedAt).mandatory = t.mandatory
      BY <3>1
    <3> QED
      BY <3>2, <3>3 DEF TruthRecord
  <2>4. t.mandatory.state \notin {"conflicting", "unresolved", "stale"}
    BY <2>3 DEF HasBlockers
  <2> QED
    BY <2>1, <2>2, <2>4 DEF TruthFields
<1> QED
  BY <1>1, <1>2, <1>3

\* For any sources, ages, clocks and inputs, and in whatever order observations
\* and records arrive: closed is confirmed by what was observed, the review
\* list reads back, and ready stands on the last records (discovery/liveness.ts,
\* opportunity-truth.ts).
THEOREM EvidenceAlwaysSound == EvidenceSpec => []EvidenceSound
BY EvidenceInitInv, EvidenceNextInv, EvidenceInvSound, PTL DEF EvidenceSpec

-----------------------------------------------------------------------------
(* ApplicationTracker: for any numbers of attempts, keys and registrations,  *)
(* any clock, any skew and any approval window.                              *)

(* The inductive invariant: LedgerEarned is about confirmed attempts only,   *)
(* so StagesEarned carries what the confirmation relies on from the approval *)
(* and the submission to it.                                                 *)
Inv == TypeOK /\ StagesEarned /\ LedgerEarned

(* In the initial states there are no attempts and no entries.               *)
LEMMA InitInv == Init => Inv
  BY TrackerAssumption DEF Init, Inv, TypeOK, StagesEarned, LedgerEarned, Exists, Times

(* Steps that leave attempts and ledger alone keep invariant and history.    *)
LEMMA RegistryKeepsInv ==
  ASSUME Inv, TypeOK', UNCHANGED <<attempts, ledger>>
  PROVE  Inv' /\ HistoryStep
  BY DEF Inv, StagesEarned, LedgerEarned, HistoryStep, Exists

(* Registrations, revocations and the clock keep the types.                  *)
LEMMA RegistryTypes ==
  ASSUME TypeOK, NEW key \in KeyIds, NEW time \in Times,
         Registry(key) \/ SetClock(time)
  PROVE  TypeOK' /\ UNCHANGED <<attempts, ledger>>
  BY DEF TypeOK, Registry, SetClock, ApproverRegister, ApproverRevoke,
         CollectorRegister, CollectorRevoke

(* An operation on one attempt keeps the history of all when it keeps that   *)
(* of the attempt.                                                           *)
LEMMA OneAttemptKeepsHistory ==
  ASSUME TypeOK, NEW a \in AttemptIds, NEW record, record # None,
         attempts' = [attempts EXCEPT ![a] = record],
         Exists(a) => /\ record.scope = attempts[a].scope
                      /\ attempts[a].approval # None => record.approval = attempts[a].approval
                      /\ attempts[a].status # "confirmed"
                      /\ attempts[a].status = "blocked" => record.status = "blocked",
         ledger \subseteq ledger'
  PROVE  HistoryStep
  BY DEF TypeOK, HistoryStep, Exists

(* tracker-create makes a typed record without approval.                     *)
LEMMA CreateKeepsInv ==
  ASSUME Inv, NEW a \in AttemptIds, NEW scope \in Scopes, NEW gate \in BOOLEAN,
         Create(a, scope, gate)
  PROVE  Inv' /\ HistoryStep
<1> DEFINE fresh == [scope |-> scope, gate |-> gate, status |-> "prepared", updatedAt |-> clock,
                     approval |-> None, proof |-> None, submittedAt |-> None, signer |-> None,
                     version |-> 1]
<1>1. attempts[a] = None /\ attempts' = [attempts EXCEPT ![a] = fresh]
  BY DEF Create
<1>2. UNCHANGED <<clock, approvers, collectors, ledger>>
  BY DEF Create
<1>3. fresh \in AttemptRecords
  BY TrackerAssumption DEF Inv, TypeOK, AttemptRecords, Statuses
<1>4. TypeOK'
  BY <1>1, <1>2, <1>3 DEF Inv, TypeOK
<1>5. StagesEarned'
  BY <1>1 DEF Inv, TypeOK, StagesEarned, Exists
<1>6. LedgerEarned'
  BY <1>1, <1>2 DEF Inv, TypeOK, LedgerEarned, Exists, Entries
<1>7. HistoryStep
  <2> HIDE DEF fresh
  <2> QED
    BY <1>1, <1>2, <1>3, NoneAssumption, OneAttemptKeepsHistory DEF Inv, Exists
<1> QED
  BY <1>4, <1>5, <1>6, <1>7 DEF Inv

(* An operation that moves one existing attempt on, without confirming it,   *)
(* keeps the ledger earned: the attempt had no entry before and needs none   *)
(* after.                                                                    *)
LEMMA UnconfirmedKeepsLedger ==
  ASSUME Inv, NEW a \in AttemptIds, NEW record \in AttemptRecords,
         Exists(a), attempts[a].status # "confirmed", record.status # "confirmed",
         attempts' = [attempts EXCEPT ![a] = record],
         UNCHANGED <<clock, approvers, collectors, ledger>>
  PROVE  TypeOK' /\ LedgerEarned'
<1>1. TypeOK'
  BY DEF Inv, TypeOK
<1>2. \A entry \in ledger : entry.attempt \in AttemptIds /\ entry.attempt # a
  BY DEF Inv, TypeOK, LedgerEarned, Entries
<1>3. LedgerEarned'
  BY <1>2 DEF Inv, TypeOK, LedgerEarned, Exists
<1> QED
  BY <1>1, <1>3

(* tracker-approve: the approval it records was signed for this attempt.     *)
LEMMA ApproveKeepsInv ==
  ASSUME Inv, NEW a \in AttemptIds, NEW v \in 1 .. MaxVersion, NEW granted \in Approvals,
         Approve(a, v, granted)
  PROVE  Inv' /\ HistoryStep
<1> DEFINE record == [attempts[a] EXCEPT !.status = "approved", !.updatedAt = clock,
                                         !.approval = granted, !.version = v + 1]
<1>1. attempts' = [attempts EXCEPT ![a] = record]
  BY DEF Approve
<1>2. attempts[a] \in AttemptRecords /\ attempts[a].status = "prepared" /\ v + 1 \in 1 .. MaxVersion
  BY TrackerAssumption DEF Inv, TypeOK, Approve, Current
<1>3. record \in AttemptRecords
  BY <1>2 DEF Inv, TypeOK, AttemptRecords, Statuses
<1>4. record.status = "approved" /\ record.approval = granted /\ record.scope = attempts[a].scope
  BY <1>2 DEF AttemptRecords
<1>5. granted # None /\ granted.intent = a
  BY NoneAssumption DEF Approve, ValidApproval
<1>6. TypeOK' /\ LedgerEarned'
  <2> HIDE DEF record
  <2> QED
    BY <1>1, <1>2, <1>3, <1>4, UnconfirmedKeepsLedger DEF Approve, Current, Exists
<1>7. StagesEarned'
  <2> HIDE DEF record
  <2> QED
    BY <1>1, <1>4, <1>5 DEF Inv, TypeOK, StagesEarned, Exists
<1>8. attempts[a].approval = None
  BY <1>2, NoneAssumption DEF Inv, StagesEarned, Exists
<1>9. HistoryStep
  <2> HIDE DEF record
  <2> QED
    BY <1>1, <1>2, <1>3, <1>4, <1>8, NoneAssumption, OneAttemptKeepsHistory DEF Inv, Approve
<1> QED
  BY <1>6, <1>7, <1>9 DEF Inv

(* tracker-submit: the gate and the expiry are checked at the submission.    *)
LEMMA SubmitKeepsInv ==
  ASSUME Inv, NEW a \in AttemptIds, NEW v \in 1 .. MaxVersion, MarkSubmitted(a, v)
  PROVE  Inv' /\ HistoryStep
<1> DEFINE record == [attempts[a] EXCEPT !.status = "submitted_unconfirmed",
                                         !.updatedAt = clock, !.submittedAt = clock,
                                         !.signer = approvers[attempts[a].approval.key],
                                         !.version = v + 1]
<1>1. attempts' = [attempts EXCEPT ![a] = record]
  BY DEF MarkSubmitted
<1>2. attempts[a] \in AttemptRecords /\ attempts[a].status = "approved" /\ v + 1 \in 1 .. MaxVersion
  BY TrackerAssumption DEF Inv, TypeOK, MarkSubmitted, Current
<1>5. attempts[a].gate /\ attempts[a].approval # None /\ clock < attempts[a].approval.expiresAt
  BY DEF MarkSubmitted
<1>10. /\ approvers[attempts[a].approval.key] # None
       /\ approvers[attempts[a].approval.key].by = attempts[a].approval.by
  BY DEF MarkSubmitted, SignerActive
<1>11. approvers[attempts[a].approval.key] \in Approvers \cup {None}
  BY <1>2, <1>5 DEF Inv, TypeOK, AttemptRecords, Approvals
<1>3. record \in AttemptRecords
  BY <1>2, <1>11 DEF Inv, TypeOK, AttemptRecords, Statuses
<1>4. /\ record.status = "submitted_unconfirmed"
      /\ record.approval = attempts[a].approval
      /\ record.gate = attempts[a].gate /\ record.scope = attempts[a].scope
      /\ record.submittedAt = clock /\ record.updatedAt = clock
      /\ record.signer = approvers[attempts[a].approval.key]
  BY <1>2 DEF AttemptRecords
<1>6. attempts[a].approval.intent = a
  BY <1>5 DEF Inv, StagesEarned, Exists, MarkSubmitted, Current
<1>7. TypeOK' /\ LedgerEarned'
  <2> HIDE DEF record
  <2> QED
    BY <1>1, <1>2, <1>3, <1>4, UnconfirmedKeepsLedger DEF MarkSubmitted, Current, Exists
<1>8. StagesEarned'
  <2> HIDE DEF record
  <2> QED
    BY <1>1, <1>4, <1>5, <1>6, <1>10 DEF Inv, TypeOK, StagesEarned, Exists
<1>9. HistoryStep
  <2> HIDE DEF record
  <2> QED
    BY <1>1, <1>2, <1>3, <1>4, NoneAssumption, OneAttemptKeepsHistory DEF Inv, MarkSubmitted
<1> QED
  BY <1>7, <1>8, <1>9 DEF Inv

(* tracker-block: a blocked attempt keeps its approval.                      *)
LEMMA BlockKeepsInv ==
  ASSUME Inv, NEW a \in AttemptIds, NEW v \in 1 .. MaxVersion, Block(a, v)
  PROVE  Inv' /\ HistoryStep
<1> DEFINE record == [attempts[a] EXCEPT !.status = "blocked", !.updatedAt = clock,
                                         !.version = v + 1]
<1>1. attempts' = [attempts EXCEPT ![a] = record]
  BY DEF Block
<1>2. attempts[a] \in AttemptRecords /\ attempts[a].status # "confirmed" /\ v + 1 \in 1 .. MaxVersion
  BY TrackerAssumption DEF Inv, TypeOK, Block
<1>3. record \in AttemptRecords
  BY <1>2 DEF Inv, TypeOK, AttemptRecords, Statuses
<1>4. /\ record.status = "blocked" /\ record.approval = attempts[a].approval
      /\ record.scope = attempts[a].scope
  BY <1>2 DEF AttemptRecords
<1>5. TypeOK' /\ LedgerEarned'
  <2> HIDE DEF record
  <2> QED
    BY <1>1, <1>2, <1>3, <1>4, UnconfirmedKeepsLedger DEF Block, Exists
<1>6. StagesEarned'
  <2> HIDE DEF record
  <2> QED
    BY <1>1, <1>2, <1>4 DEF Inv, TypeOK, StagesEarned, Exists, Block
<1>7. HistoryStep
  <2> HIDE DEF record
  <2> QED
    BY <1>1, <1>2, <1>3, <1>4, NoneAssumption, OneAttemptKeepsHistory DEF Inv, Block
<1> QED
  BY <1>5, <1>6, <1>7 DEF Inv

(* tracker-confirm: the entry it adds rests on what the stages established.  *)
LEMMA ConfirmKeepsInv ==
  ASSUME Inv, NEW a \in AttemptIds, NEW v \in 1 .. MaxVersion, NEW proof \in Proofs,
         Confirm(a, v, proof)
  PROVE  Inv' /\ HistoryStep
<1> DEFINE record == [attempts[a] EXCEPT !.status = "confirmed", !.updatedAt = clock,
                                         !.proof = proof, !.version = v + 1]
           entry == [attempt |-> a, scope |-> attempts[a].scope, proof |-> proof]
<1>1. attempts' = [attempts EXCEPT ![a] = record] /\ ledger' = ledger \cup {entry}
  BY DEF Confirm
<1>2. /\ attempts[a] \in AttemptRecords /\ Exists(a)
      /\ attempts[a].status = "submitted_unconfirmed"
      /\ v + 1 \in 1 .. MaxVersion
  BY TrackerAssumption DEF Inv, TypeOK, Confirm, Current, Exists
<1>3. record \in AttemptRecords
  BY <1>2 DEF Inv, TypeOK, AttemptRecords, Statuses
<1>4. /\ record.status = "confirmed" /\ record.proof = proof
      /\ record.scope = attempts[a].scope /\ record.gate = attempts[a].gate
      /\ record.approval = attempts[a].approval
      /\ record.submittedAt = attempts[a].submittedAt
      /\ record.signer = attempts[a].signer
  BY <1>2 DEF AttemptRecords
<1>5. entry \in Entries /\ entry.attempt = a /\ entry.proof = proof /\ entry.scope = attempts[a].scope
  BY <1>2 DEF Entries, AttemptRecords
<1>6. /\ attempts[a].gate /\ attempts[a].approval # None /\ attempts[a].approval.intent = a
      /\ attempts[a].submittedAt = attempts[a].updatedAt
      /\ attempts[a].submittedAt < attempts[a].approval.expiresAt
      /\ attempts[a].signer # None /\ attempts[a].signer.by = attempts[a].approval.by
  BY <1>2 DEF Inv, StagesEarned
<1>7. proof.attempt = a /\ attempts[a].updatedAt <= proof.capturedAt + Skew
  BY DEF Confirm, ValidProof
<1>8. \A e \in ledger : e.attempt \in AttemptIds /\ e.attempt # a
  BY <1>2 DEF Inv, TypeOK, LedgerEarned, Entries
<1> HIDE DEF record, entry
<1>9. TypeOK'
  BY <1>1, <1>3, <1>5 DEF Inv, TypeOK, Confirm
<1>10. StagesEarned'
  BY <1>1, <1>4, <1>6 DEF Inv, TypeOK, StagesEarned, Exists
<1>11. \A e \in ledger' : e = entry \/ (e \in ledger /\ e.attempt \in AttemptIds /\ e.attempt # a)
  BY <1>1, <1>8
<1>12. attempts'[a] = record /\ record # None
  BY <1>1, <1>3, NoneAssumption DEF Inv, TypeOK
<1>13. LedgerEarned'
  <2>1. ASSUME NEW b \in AttemptIds, Exists(b)', attempts'[b].status = "confirmed"
        PROVE  [attempt |-> b, scope |-> attempts'[b].scope, proof |-> attempts'[b].proof] \in ledger'
    <3>1. CASE b = a
      BY <1>1, <1>4, <1>12, <3>1 DEF entry
    <3>2. CASE b # a
      BY <1>1, <2>1, <3>2 DEF Inv, TypeOK, LedgerEarned, Exists
    <3> QED
      BY <3>1, <3>2
  <2>2. ASSUME NEW e \in ledger'
        PROVE  /\ Exists(e.attempt)'
               /\ attempts'[e.attempt].status = "confirmed"
               /\ attempts'[e.attempt].gate
               /\ attempts'[e.attempt].proof = e.proof
               /\ attempts'[e.attempt].proof.attempt = e.attempt
               /\ attempts'[e.attempt].submittedAt < attempts'[e.attempt].approval.expiresAt
               /\ attempts'[e.attempt].signer # None
               /\ attempts'[e.attempt].signer.by = attempts'[e.attempt].approval.by
               /\ attempts'[e.attempt].submittedAt <= attempts'[e.attempt].proof.capturedAt + Skew
    <3>1. CASE e = entry
      BY <1>4, <1>5, <1>6, <1>7, <1>12, <3>1 DEF Exists
    <3>2. CASE e # entry
      BY <1>1, <1>11, <3>2 DEF Inv, TypeOK, LedgerEarned, Exists
    <3> QED
      BY <3>1, <3>2
  <2> QED
    BY <2>1, <2>2 DEF LedgerEarned
<1>14. HistoryStep
  BY <1>1, <1>2, <1>4, <1>12, OneAttemptKeepsHistory DEF Inv
<1> QED
  BY <1>9, <1>10, <1>13, <1>14 DEF Inv

(* Every step keeps the invariant and, if it is not a stutter, the history.  *)
LEMMA NextInv == Inv /\ [Next]_vars => Inv' /\ [HistoryStep]_vars
<1> SUFFICES ASSUME Inv, [Next]_vars PROVE Inv' /\ [HistoryStep]_vars
  OBVIOUS
<1>1. ASSUME NEW key \in KeyIds, Registry(key) PROVE Inv' /\ HistoryStep
  <2>1. 0 \in Times
    BY TrackerAssumption DEF Times
  <2> QED
    BY <1>1, <2>1, RegistryTypes, RegistryKeepsInv DEF Inv
<1>2. ASSUME NEW a \in AttemptIds, Lifecycle(a) PROVE Inv' /\ HistoryStep
  BY <1>2, CreateKeepsInv, ApproveKeepsInv, SubmitKeepsInv, BlockKeepsInv, ConfirmKeepsInv
     DEF Lifecycle
<1>3. ASSUME NEW time \in Times, SetClock(time) PROVE Inv' /\ HistoryStep
  <2>1. TypeOK' /\ UNCHANGED <<attempts, ledger>>
    BY <1>3 DEF Inv, TypeOK, SetClock
  <2> QED
    BY <2>1, RegistryKeepsInv
<1>4. CASE UNCHANGED vars
  BY <1>4 DEF vars, Inv, TypeOK, StagesEarned, LedgerEarned, Exists
<1> QED
  BY <1>1, <1>2, <1>3, <1>4 DEF Next

(* The invariant holds in every reachable state.                             *)
THEOREM Invariance == Spec => []Inv
  BY InitInv, NextInv, PTL DEF Spec

(* The types of the registries, the attempts and the ledger.                 *)
THEOREM TypeCorrect == Spec => []TypeOK
<1>1. Inv => TypeOK
  BY DEF Inv
<1> QED
  BY <1>1, Invariance, PTL

(* The ledger is earned, whatever is revoked, replayed, expired or reset     *)
(* between the steps of an attempt (application-lifecycle.ts).               *)
THEOREM LedgerAlwaysEarned == Spec => []LedgerEarned
<1>1. Inv => LedgerEarned
  BY DEF Inv
<1> QED
  BY <1>1, Invariance, PTL

(* An approval authorises one attempt only, because the action intent it is  *)
(* signed for names the attempt.                                             *)
THEOREM ApprovalNeverReused == Spec => []ApprovalUsedOnce
<1>1. Inv => ApprovalUsedOnce
  BY DEF Inv, StagesEarned, ApprovalUsedOnce
<1> QED
  BY <1>1, Invariance, PTL

(* Both together: every entry of the ledger stands on evidence of its own.   *)
THEOREM SubmissionsAlwaysEarned == Spec => []SubmissionsEarned
BY LedgerAlwaysEarned, ApprovalNeverReused, PTL DEF SubmissionsEarned

(* What an approval, a confirmation or a block settled is never rewritten,   *)
(* and the ledger only grows.                                                *)
THEOREM HistoryNeverRewritten == Spec => HistoryKept
  BY Invariance, NextInv, PTL DEF Spec, HistoryKept

-----------------------------------------------------------------------------
\* The rubric.

Ratings == [Dimensions -> [score : Scores \cup {Blank}, evidence : {"verified", "unverified"}]]

RatingTypeOK == rating \in Ratings

LEMMA ScoresGiven == \A s \in Scores \cup {Blank} : s \in Int /\ (s # Blank => s \in 0 .. 100)
BY RubricConstants DEF Blank

\* Rounding is monotone.
LEMMA QuotientsOrdered ==
    ASSUME NEW a \in Nat, NEW b \in Nat, NEW n \in Nat \ {0}, a <= b
    PROVE  a \div n <= b \div n /\ a \div n \in Nat
<1>1. PICK q \in Int, r \in Int : q = a \div n /\ r = b \div n
  OBVIOUS
<1>2. q * n <= a /\ a < (q + 1) * n /\ r * n <= b /\ b < (r + 1) * n
  BY <1>1
<1>3. q * n < (r + 1) * n
  BY <1>2
<1>4. \A x, y \in Int : x * n < y * n => x < y
  OBVIOUS
<1>5. q < r + 1
  BY <1>3, <1>4
<1>6. 0 <= q
  BY <1>1
<1> QED
  BY <1>1, <1>5, <1>6

LEMMA PointsFinite ==
    ASSUME NEW d \in Ratings
    PROVE  /\ IsFiniteSet(Scored(d)) /\ Cardinality(Scored(d)) \in Nat
           /\ IsFiniteSet(Points(d)) /\ Cardinality(Points(d)) \in Nat
           /\ Scored(d) # {} => Cardinality(Scored(d)) # 0
<1>1. Scored(d) \in SUBSET Dimensions
  BY DEF Scored
<1>2. IsFiniteSet(Scored(d))
  BY <1>1, RubricConstants, FS_Subset
<1>3. IsFiniteSet(Scored(d) \X (1 .. 100))
  <2>1. PICK a \in Int, b \in Int : a = 1 /\ b = 100
    OBVIOUS
  <2>2. IsFiniteSet(a .. b)
    BY FS_Interval
  <2> QED
    BY <1>2, <2>1, <2>2, FS_Product
<1>4. Points(d) \in SUBSET (Scored(d) \X (1 .. 100))
  BY DEF Points
<1>5. IsFiniteSet(Points(d))
  BY <1>3, <1>4, FS_Subset
<1> QED
  BY <1>2, <1>5, FS_CardinalityType, FS_EmptySet

\* One score raised, the others as they were.
RaisedIn(d, e, x) ==
    /\ d[x].score # Blank /\ e[x].score > d[x].score
    /\ \A y \in Dimensions \ {x} : e[y] = d[y]

LEMMA RaisedScores ==
    ASSUME NEW d \in Ratings, NEW e \in Ratings, NEW x \in Dimensions, RaisedIn(d, e, x)
    PROVE  /\ Scored(e) = Scored(d)
           /\ \A y \in Scored(d) : d[y].score \in Int /\ e[y].score \in Int /\ d[y].score <= e[y].score
<1>1. \A y \in Dimensions : /\ d[y].score \in Scores \cup {Blank} /\ e[y].score \in Scores \cup {Blank}
  BY DEF Ratings
<1>2. \A y \in Dimensions : /\ d[y].score \in Int /\ e[y].score \in Int
                            /\ d[y].score # Blank => d[y].score >= 0
  BY <1>1, ScoresGiven
<1>3. e[x].score # Blank /\ d[x].score <= e[x].score
  BY <1>2 DEF RaisedIn, Blank
<1>4. \A y \in Dimensions : d[y].score # Blank <=> e[y].score # Blank
  BY <1>3 DEF RaisedIn
<1>5. \A y \in Dimensions : d[y].score <= e[y].score
  <2> TAKE y \in Dimensions
  <2>1. CASE y = x
    BY <1>3, <2>1
  <2>2. CASE y # x
    BY <1>2, <2>2 DEF RaisedIn
  <2> QED
    BY <2>1, <2>2
<1> QED
  BY <1>2, <1>4, <1>5 DEF Scored

LEMMA MeanRises ==
    ASSUME NEW d \in Ratings, NEW e \in Ratings, NEW x \in Dimensions, RaisedIn(d, e, x)
    PROVE  /\ RoundedMean(d) \in Nat /\ RoundedMean(e) \in Nat
           /\ RoundedMean(d) <= RoundedMean(e)
<1>1. PICK n : n = Cardinality(Scored(d))
  OBVIOUS
<1>2. n = Cardinality(Scored(e)) /\ n \in Nat /\ n # 0
  <2>1. x \in Scored(d)
    BY DEF RaisedIn, Scored
  <2> QED
    BY <1>1, <2>1, PointsFinite, RaisedScores
<1>3. Points(d) \in SUBSET Points(e)
  <2> SUFFICES ASSUME NEW p \in Points(d) PROVE p \in Points(e)
    OBVIOUS
  <2>1. p \in Scored(d) \X (1 .. 100) /\ p[2] <= d[p[1]].score
    BY DEF Points
  <2>2. p[1] \in Scored(d) /\ p[2] \in Int
    BY <2>1
  <2>3. /\ d[p[1]].score \in Int /\ e[p[1]].score \in Int /\ d[p[1]].score <= e[p[1]].score
        /\ Scored(e) = Scored(d)
    BY <2>2, RaisedScores
  <2>4. p[2] <= e[p[1]].score
    BY <2>1, <2>2, <2>3
  <2> QED
    BY <2>1, <2>3, <2>4 DEF Points
<1>4. PICK s, t : s = Cardinality(Points(d)) /\ t = Cardinality(Points(e))
  OBVIOUS
<1>5. s \in Nat /\ t \in Nat /\ s <= t
  BY <1>3, <1>4, PointsFinite, FS_Subset
<1>6. PICK a \in Nat, b \in Nat, m \in Nat \ {0} : a = 2 * s + n /\ b = 2 * t + n /\ m = 2 * n
  BY <1>2, <1>5
<1>7. a <= b
  BY <1>2, <1>5, <1>6
<1>8. a \div m <= b \div m /\ a \div m \in Nat /\ b \div m \in Nat
  BY <1>7, QuotientsOrdered
<1> QED
  BY <1>1, <1>2, <1>4, <1>6, <1>8 DEF RoundedMean

\* The least of a set of naturals.
LEMMA MinOf ==
    ASSUME NEW S, S \subseteq Nat, S # {}
    PROVE  Min(S) \in S /\ \A y \in S : Min(S) <= y
BY LeastElement DEF Min

LEMMA CapsLift ==
    ASSUME NEW d \in Ratings, NEW e \in Ratings, NEW x \in Dimensions, RaisedIn(d, e, x)
    PROVE  Composite(e) >= Composite(d)
<1>1. PICK m, k : m = RoundedMean(d) /\ k = RoundedMean(e)
  OBVIOUS
<1>2. m \in Nat /\ k \in Nat /\ m <= k
  BY <1>1, MeanRises
<1>3. Capping(e) \subseteq Capping(d)
  <2> SUFFICES ASSUME NEW y \in Capping(e) PROVE y \in Capping(d)
    OBVIOUS
  <2>1. y \in DOMAIN Caps /\ y \in Dimensions /\ e[y].score # Blank /\ e[y].score < CapBelow
    BY RubricConstants DEF Capping
  <2>2. y \in Scored(e)
    BY <2>1 DEF Scored
  <2>3. /\ y \in Scored(d) /\ d[y].score \in Int /\ e[y].score \in Int
        /\ d[y].score <= e[y].score
    BY <2>2, RaisedScores
  <2>4. d[y].score < CapBelow
    BY <2>1, <2>3, RubricConstants
  <2> QED
    BY <2>1, <2>3, <2>4 DEF Capping, Scored
<1>4. PICK C, D : C = {Caps[y] : y \in Capping(d)} /\ D = {Caps[y] : y \in Capping(e)}
  OBVIOUS
<1>5. D \subseteq C /\ C \subseteq Nat
  BY <1>3, <1>4, RubricConstants DEF Capping
<1>6. PICK u, v : u = Min(C \cup {m}) /\ v = Min(D \cup {k})
  OBVIOUS
<1>7. u \in C \cup {m} /\ \A y \in C \cup {m} : u <= y
  BY <1>2, <1>5, <1>6, MinOf
<1>8. v \in D \cup {k}
  BY <1>2, <1>5, <1>6, MinOf
<1>9. u <= v
  <2>1. CASE v \in D
    BY <1>5, <1>7, <2>1
  <2>2. CASE v = k
    <3>1. u <= m /\ u \in Nat
      BY <1>2, <1>5, <1>7
    <3> QED
      BY <1>2, <2>2, <3>1
  <2> QED
    BY <1>8, <2>1, <2>2
<1>10. x \in Scored(d) /\ Scored(e) = Scored(d)
  BY RaisedScores DEF RaisedIn, Scored
<1>11. Composite(d) = u /\ Composite(e) = v
  BY <1>1, <1>4, <1>6, <1>10 DEF Composite, Capped
<1>12. u \in Nat /\ v \in Nat
  BY <1>2, <1>5, <1>7, <1>8
<1> QED
  BY <1>9, <1>11, <1>12

LEMMA RatingsStay == RatingTypeOK /\ [RubricNext]_rubricVars => RatingTypeOK'
<1> SUFFICES ASSUME rating \in Ratings, [RubricNext]_rubricVars PROVE rating' \in Ratings
  BY DEF RatingTypeOK
<1>1. ASSUME NEW x \in Dimensions, NEW s \in Scores \cup {Blank},
             NEW e \in {"verified", "unverified"}, Rate(x, s, e)
      PROVE  rating' \in Ratings
  BY <1>1 DEF Rate, Ratings
<1>2. ASSUME rating' = rating PROVE rating' \in Ratings
  BY <1>2
<1> QED
  BY <1>1, <1>2 DEF RubricNext, ApproveForced, ApprovalEnds, ScoreOpportunity, rubricVars

\* OpportunityRubric.  A better rating never makes an opportunity look worse
\* (rubric.ts: computeComposite): whatever the rounding and the caps do, the
\* composite does not fall when a score is raised and the others stay.
THEOREM RaisingIsSafe == RubricSpec => RaisingNeverHurts
<1>1. RubricInit => RatingTypeOK
  BY DEF RubricInit, RatingTypeOK, Ratings
<1>2. RatingTypeOK /\ [RubricNext]_rubricVars => RatingTypeOK'
  BY RatingsStay
<1>3. RatingTypeOK /\ [RubricNext]_rubricVars => [NoneHurt]_rubricVars
  <2> SUFFICES ASSUME rating \in Ratings, rating' \in Ratings, NEW x \in Dimensions, Raised(x)
               PROVE  Composite(rating') >= Composite(rating)
    BY <1>2 DEF NoneHurt, RatingTypeOK
  <2>1. RaisedIn(rating, rating', x)
    BY DEF Raised, RaisedIn
  <2> QED
    BY <2>1, CapsLift
<1> QED
  BY <1>1, <1>2, <1>3, PTL DEF RubricSpec, RaisingNeverHurts
=============================================================================
