---------------------------- MODULE NetworkPlan ----------------------------
(***************************************************************************)
(* Plans for reaching out to contacts (src/src/intelligence/               *)
(* network-planning.ts, planPermissionBoundedNetworkActions): a request is *)
(* planned for review only if its contact permits it and has not been      *)
(* touched too often or too recently.  Between two plans the operator      *)
(* carries out what was planned, and contacts withdraw their permission    *)
(* (external).                                                             *)
(*                                                                         *)
(* Time is in days.  A touch is <<day, id>>.  Evidence references and the  *)
(* wording of assertions are left out.                                     *)
(***************************************************************************)
EXTENDS Integers, FiniteSets

CONSTANTS
  Contacts,
  Requests,           \* ids of requests, numbers in the order of localeCompare
  Wishes,             \* what a request may be: [contact, channel, at]
  Channels,           \* contact -> allowedChannels
  TouchWindow,             \* policy.windowDays
  MaxTouches,         \* policy.maxTouchesPerWindow
  Spacing,            \* policy.minimumSpacingDays
  MaxPlans            \* bound: plans made

(* validatePolicy *)
ValidNetworkPolicy ==
  /\ TouchWindow \in Nat \ {0} /\ MaxTouches \in Nat \ {0}
  /\ Spacing \in Nat /\ Spacing <= TouchWindow

ASSUME NetworkConstants ==
  /\ ValidNetworkPolicy
  /\ Requests \subseteq Int /\ IsFiniteSet(Requests) /\ \A w \in Wishes : w.at \in Int

VARIABLES
  permission,   \* contact -> NetworkPermissionState
  touches,      \* contact -> its recentTouches
  wish,         \* request -> what it is, in the plan being made; or NoWish
  open,         \* requests of the plan not yet disposed of
  history,      \* contact -> touchHistory of the plan being made
  planned,      \* requests planned for review
  plans         \* plans made so far

networkVars == <<permission, touches, wish, open, history, planned, plans>>

NoWish == <<>>

StartPlan(wishes) ==
  /\ wish = NoWish /\ plans < MaxPlans
  /\ plans' = plans + 1
  /\ wish' = wishes
  /\ open' = Requests
  /\ history' = touches
  /\ UNCHANGED <<permission, touches, planned>>

(* The touches of the window that ends with day t. *)
RelevantTouches(days, t) == {x \in days : x[1] >= t - TouchWindow /\ x[1] <= t}

Permitted(w) ==
  /\ w.contact \in Contacts
  /\ permission[w.contact] \notin {"unknown", "revoked"}
  /\ w.channel \in Channels[w.contact]

Rested(w) ==
  LET relevant == RelevantTouches(history[w.contact], w.at) IN
  /\ Cardinality(relevant) < MaxTouches
  /\ \A x \in relevant : w.at - x[1] >= Spacing

(* Mutated form: a planned request does not count for those after it. *)
WithPlannedForgotten(h, w, r) == h

WithPlanned(h, w, r) == [h EXCEPT ![w.contact] = @ \cup {<<w.at, <<plans, r>> >>}]

(* The next request, by its day and then by its id. *)
PlanRequest(r) ==
  /\ r \in open
  /\ \A q \in open \ {r} :
       wish[r].at < wish[q].at \/ (wish[r].at = wish[q].at /\ r < q)
  /\ open' = open \ {r}
  /\ IF Permitted(wish[r]) /\ Rested(wish[r])
     THEN /\ planned' = planned \cup {r}
          /\ history' = WithPlanned(history, wish[r], r)
     ELSE UNCHANGED <<planned, history>>
  /\ UNCHANGED <<permission, touches, wish, plans>>

(* The touch a planned request becomes once it is carried out. *)
TouchOf(r) == <<wish[r].at, <<plans, r>> >>

CarryOut(done) ==
  /\ wish # NoWish /\ open = {}
  /\ touches' = [k \in Contacts |-> touches[k] \cup
                   {TouchOf(r) : r \in {q \in done : wish[q].contact = k}}]
  /\ wish' = NoWish /\ planned' = {} /\ history' = [k \in Contacts |-> {}]
  /\ UNCHANGED <<permission, open, plans>>

Revoke(k) ==
  /\ wish = NoWish /\ permission[k] # "revoked"
  /\ permission' = [permission EXCEPT ![k] = "revoked"]
  /\ UNCHANGED <<touches, wish, open, history, planned, plans>>

NetworkInit ==
  /\ permission = [k \in Contacts |-> "explicit-opt-in"]
  /\ touches = [k \in Contacts |-> {}] /\ history = [k \in Contacts |-> {}]
  /\ wish = NoWish /\ open = {} /\ planned = {} /\ plans = 0

NetworkNext ==
  \/ wish = NoWish /\ \E wishes \in [Requests -> Wishes] : StartPlan(wishes)
  \/ \E r \in Requests : PlanRequest(r)
  \/ \E done \in SUBSET planned : CarryOut(done)
  \/ \E k \in Contacts : Revoke(k)

NetworkSpec == NetworkInit /\ [][NetworkNext]_networkVars

----------------------------------------------------------------------------
(* No contact is worn out: for every request planned for review, its       *)
(* contact permits it, and the window that ends with it holds no more      *)
(* touches than the policy allows and none closer than the spacing, the    *)
(* other requests of the same plan and those of earlier plans that were    *)
(* carried out included (network-planning.ts).                             *)
FatigueHeld ==
  \A r \in planned :
    LET w == wish[r]
        sent == touches[w.contact] \cup
                  {TouchOf(q) : q \in {p \in planned : wish[p].contact = w.contact}}
        relevant == RelevantTouches(sent, w.at) IN
    /\ permission[w.contact] # "revoked"
    /\ Cardinality(relevant) <= MaxTouches
    /\ \A x \in relevant \ {TouchOf(r)} : w.at - x[1] >= Spacing
=============================================================================
