--------------------------- MODULE CampaignQueue ---------------------------
(***************************************************************************)
(* The review queue of a campaign (src/src/intelligence/campaign-policy.ts,*)
(* buildCampaignReviewQueue): which candidates a person is asked to review *)
(* today, under a daily limit and a quota for each kind of route.          *)
(*                                                                         *)
(* Scores and ids are small numbers; evidence references and the wording   *)
(* of assertions are left out.                                             *)
(***************************************************************************)
EXTENDS Integers, FiniteSets

CONSTANTS
  Candidates,         \* ids, numbers in the order localeCompare gives them
  Offers,             \* what a candidate may be: [member, gated, score, rank, route]
  MinimumScore,       \* policy.minimumQualityScore
  DailyLimit,         \* policy.dailyReviewLimit
  Quota               \* route -> routeReviewQuotas, or NoQuota

NoScore == -1         \* qualityScore = null
NoQuota == -1         \* a route without a quota

(* validateCampaignPolicy *)
ValidCampaignPolicy ==
  /\ MinimumScore \in 0 .. 100 /\ DailyLimit \in Nat \ {0}
  /\ \A r \in DOMAIN Quota : Quota[r] = NoQuota \/ Quota[r] \in Nat \ {0}

ASSUME QueueConstants ==
  /\ ValidCampaignPolicy
  /\ Candidates \subseteq Int /\ IsFiniteSet(Candidates)
  /\ \A o \in Offers : o.score \in Int /\ o.rank \in Int /\ o.route \in DOMAIN Quota

VARIABLES
  offer,        \* candidate -> what it is; NoOffer before the queue is built
  waiting,      \* eligible candidates not yet disposed of
  disposition   \* candidate -> [status, position]

queueVars == <<offer, waiting, disposition>>

NoOffer == <<>>
Undecided == [status |-> "none", position |-> 0]
Denied(status) == [status |-> status, position |-> 0]

(* The gates of a candidate, in the order they are tried. *)
Gate(c) ==
  IF ~c.member THEN Denied("not-member")
  ELSE IF c.gated THEN Denied("hard-gated")
  ELSE IF c.score = NoScore \/ c.score < MinimumScore THEN Denied("below-threshold")
  ELSE Undecided

StartQueue(offers) ==
  /\ offer = NoOffer
  /\ offer' = offers
  /\ disposition' = [c \in Candidates |-> Gate(offers[c])]
  /\ waiting' = {c \in Candidates : Gate(offers[c]) = Undecided}

(* The order of review: quality, then confidence, then id. *)
Before(c, d) ==
  \/ offer[c].score > offer[d].score
  \/ offer[c].score = offer[d].score /\ offer[c].rank > offer[d].rank
  \/ offer[c].score = offer[d].score /\ offer[c].rank = offer[d].rank /\ c < d

Queued == {c \in Candidates : disposition[c].status = "queued"}
QueuedOn(r) == {c \in Queued : offer[c].route = r}
QuotaUsed(r) == Quota[r] # NoQuota /\ Cardinality(QueuedOn(r)) >= Quota[r]

(* Mutated form: a candidate its quota defers uses up a place as well. *)
PlacesTakenByDeferred ==
  Cardinality({c \in Candidates : disposition[c].status \in {"queued", "quota"}})

PlacesTaken == Cardinality(Queued)

(* The next candidate of the sorted list. *)
Dispose(c) ==
  /\ c \in waiting /\ \A d \in waiting \ {c} : Before(c, d)
  /\ waiting' = waiting \ {c}
  /\ disposition' = [disposition EXCEPT ![c] =
       IF PlacesTaken >= DailyLimit THEN Denied("limit")
       ELSE IF QuotaUsed(offer[c].route) THEN Denied("quota")
       ELSE [status |-> "queued", position |-> PlacesTaken + 1]]
  /\ UNCHANGED offer

QueueInit ==
  offer = NoOffer /\ waiting = {} /\ disposition = [c \in Candidates |-> Undecided]

QueueNext ==
  \/ offer = NoOffer /\ \E offers \in [Candidates -> Offers] : StartQueue(offers)
  \/ \E c \in Candidates : Dispose(c)

QueueSpec == QueueInit /\ [][QueueNext]_queueVars

----------------------------------------------------------------------------
(* The queue is fair and full: nobody is put off while a place is free.  A *)
(* candidate is deferred for the daily limit only when that many better    *)
(* ones are queued, and for its quota only when its own route has that     *)
(* many better ones; so no candidate that waits is better than a queued    *)
(* one of its own route (campaign-policy.ts, buildCampaignReviewQueue).    *)
QueueFair ==
  waiting = {} =>
    /\ Cardinality(Queued) <= DailyLimit
    /\ \A c \in Candidates :
         /\ disposition[c].status = "limit" =>
              Cardinality({d \in Queued : Before(d, c)}) = DailyLimit
         /\ disposition[c].status = "quota" =>
              Cardinality({d \in QueuedOn(offer[c].route) : Before(d, c)})
                = Quota[offer[c].route]
=============================================================================
