------------------------- MODULE OpportunityRubric -------------------------
(***************************************************************************)
(* Scoring an opportunity (src/src/rubric.ts): rated dimensions, some of   *)
(* them without a score, are combined into a rounded mean that three of    *)
(* them can cap, with a confidence and a band of uncertainty; a score over *)
(* weak evidence is refused unless it is forced, which takes an approval   *)
(* of exactly these ratings.                                               *)
(*                                                                         *)
(* The rubric has twenty dimensions; the model has the capping ones and    *)
(* any number of others, with the thresholds as constants.  An approval is *)
(* the ratings it was given for and whether it still holds.                *)
(***************************************************************************)
EXTENDS Integers, FiniteSets, FiniteSetsExt

CONSTANTS
  Dimensions,         \* DIMENSION_IDS
  Caps,               \* capping dimension -> the most the composite may then be
  CapBelow,           \* a capping dimension caps below this score (40)
  Scores,             \* scores given: some of 0 .. 100
  HighVerified,       \* verified dimensions for confidence High (17)
  MediumVerified,     \* ... and for Medium (10)
  MediumMissing,      \* dimensions that may lack a score for Medium (3)
  MaxRatings          \* bound: ratings given

ASSUME RubricConstants ==
  /\ IsFiniteSet(Dimensions) /\ Scores \subseteq 0 .. 100
  /\ DOMAIN Caps \subseteq Dimensions /\ \A x \in DOMAIN Caps : Caps[x] \in 0 .. 100
  /\ CapBelow \in Nat
  /\ HighVerified \in Nat /\ MediumVerified \in Nat /\ MediumMissing \in Nat
  /\ MaxRatings \in Nat

VARIABLES
  rating,     \* dimension -> [score, evidence]
  ratings,    \* ratings given so far
  approval,   \* the approval of a forced score: [subject, valid]
  result      \* the last answer of scoreOpportunity, or Unscored

rubricVars == <<rating, ratings, approval, result>>

Blank == -1                      \* a dimension without a score
Unscored == [outcome |-> "none"]
Refused == [outcome |-> "refused"]
NoApproval == [subject |-> <<>>, valid |-> FALSE]

Scored(d) == {x \in Dimensions : d[x].score # Blank}
Verified(d) == {x \in Dimensions : d[x].evidence = "verified"}

(* The points of the scores, one by one: as many as their sum. *)
Points(d) == {p \in Scored(d) \X (1 .. 100) : p[2] <= d[p[1]].score}

(* Math.round(sum / n) *)
RoundedMean(d) ==
  LET n == Cardinality(Scored(d)) IN (2 * Cardinality(Points(d)) + n) \div (2 * n)

Capping(d) == {x \in DOMAIN Caps : d[x].score # Blank /\ d[x].score < CapBelow}

(* Mutated form: the last capping dimension sets the score. *)
CappedByLast(score, caps) ==
  IF caps = {} THEN score ELSE CHOOSE c \in caps : \A e \in caps : e <= c

Capped(score, caps) == Min(caps \cup {score})

(* computeComposite *)
Composite(d) ==
  IF Scored(d) = {} THEN Blank
  ELSE Capped(RoundedMean(d), {Caps[x] : x \in Capping(d)})

(* confidenceFromEvidence *)
Confidence(d, forced) ==
  LET missing == Cardinality(Dimensions \ Scored(d)) IN
  IF forced THEN "Low"
  ELSE IF Cardinality(Verified(d)) >= HighVerified /\ missing = 0 THEN "High"
  ELSE IF Cardinality(Verified(d)) >= MediumVerified /\ missing <= MediumMissing THEN "Medium"
  ELSE "Low"

UncertaintyWidth(confidence, forced) ==
  IF forced THEN 36
  ELSE IF confidence = "High" THEN 10
  ELSE IF confidence = "Medium" THEN 20 ELSE 34

(* makeBand *)
Band(score, width) ==
  IF score = Blank THEN <<Blank, Blank>>
  ELSE <<Max({0, score - width \div 2}), Min({100, score + width \div 2})>>

(* validateDimensions: weak evidence carries no score unless it is forced. *)
ValidDimensions(d, forced) ==
  \A x \in Dimensions :
    ~forced /\ d[x].evidence \in {"unverified", "current_source_required"} => d[x].score = Blank

----------------------------------------------------------------------------
Rate(x, score, evidence) ==
  /\ ratings < MaxRatings
  /\ ratings' = ratings + 1
  /\ rating' = [rating EXCEPT ![x] = [score |-> score, evidence |-> evidence]]
  /\ UNCHANGED <<approval, result>>

(* The operator approves a forced score of the ratings as they are. *)
ApproveForced ==
  /\ approval.subject # rating \/ ~approval.valid
  /\ approval' = [subject |-> rating, valid |-> TRUE]
  /\ UNCHANGED <<rating, ratings, result>>

(* The approval runs out, or its approver is no longer trusted. *)
ApprovalEnds ==
  /\ approval.valid
  /\ approval' = [approval EXCEPT !.valid = FALSE]
  /\ UNCHANGED <<rating, ratings, result>>

ForcedApproved == approval.valid /\ approval.subject = rating

(* scoreOpportunity *)
ScoreOpportunity(forced) ==
  /\ result' = IF ~ValidDimensions(rating, forced) \/ (forced /\ ~ForcedApproved) THEN Refused
               ELSE LET score == Composite(rating)
                        confidence == Confidence(rating, forced) IN
                    [outcome |-> "scored", composite |-> score, confidence |-> confidence,
                     band |-> Band(score, UncertaintyWidth(confidence, forced)),
                     dimensions |-> rating, forced |-> forced]
  /\ UNCHANGED <<rating, ratings, approval>>

RubricInit ==
  /\ rating = [x \in Dimensions |-> [score |-> Blank, evidence |-> "unverified"]]
  /\ ratings = 0 /\ approval = NoApproval /\ result = Unscored

RubricNext ==
  \/ \E x \in Dimensions, s \in Scores \cup {Blank}, e \in {"verified", "unverified"} : Rate(x, s, e)
  \/ ApproveForced \/ ApprovalEnds
  \/ \E forced \in BOOLEAN : ScoreOpportunity(forced)

RubricSpec == RubricInit /\ [][RubricNext]_rubricVars

----------------------------------------------------------------------------
Raised(x) ==
  /\ rating[x].score # Blank /\ rating'[x].score > rating[x].score
  /\ \A y \in Dimensions \ {x} : rating'[y] = rating[y]

NoneHurt == \A x \in Dimensions : Raised(x) => Composite(rating') >= Composite(rating)

(* A better rating never makes the opportunity look worse: when one        *)
(* dimension that has a score is rated higher and the others stay, the     *)
(* composite does not fall, whatever is capped before and after and        *)
(* however the mean is rounded (rubric.ts, computeComposite).              *)
RaisingNeverHurts == [][NoneHurt]_rubricVars
=============================================================================
