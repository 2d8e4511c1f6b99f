-------------------------- MODULE DiscoveryEvidence --------------------------
(***************************************************************************)
(* What the daemon knows of one discovered posting: the observations of    *)
(* its source, the liveness assessed from them, the truth records of its   *)
(* fields, the duplicate decisions about it, and the review list that      *)
(* folds the newest of each into a status                                  *)
(* (src/src/discovery/{source-observation,liveness,opportunity-truth}.ts,  *)
(* src/src/daemon/authority.ts).  Assessments are computed by whoever asks *)
(* and recorded later; observations carry the clock of the process that    *)
(* made them, which may run ahead.  Sorting breaks ties of time by the     *)
(* digest of the observation, modelled as an arbitrary distinct number.    *)
(* One client works at a time: it observes, assesses and records, or       *)
(* records a truth or a duplicate decision.                                *)
(***************************************************************************)
EXTENDS Integers, Sequences, FiniteSets

CONSTANTS
  ClosedConfirmationCount,  \* negative observations that confirm a closure
  MaxLiveAge,               \* age up to which a positive observation counts
  MaxNegativeAge,           \* age up to which a negative observation counts
  MaxFutureSkew,            \* how far ahead an observation may be dated
  MaxTruthAge,              \* recency policy of a truth field
  Fetched,                  \* what fetching the source may come to
  MandatoryInputs,          \* field inputs: [state, known, evidence, at]
  OptionalInputs,
  DecidedSets,              \* outcomes one dedupe result may hold about it
  MaxObservations,          \* bound on the observations of the source
  MaxEvidenceDay,           \* bound on the clock
  MaxRecords                \* bound on the records made
ASSUME EvidenceBounds ==
  /\ ClosedConfirmationCount \in 1 .. 10
  /\ {MaxLiveAge, MaxNegativeAge, MaxFutureSkew, MaxTruthAge} \subseteq Nat
  /\ {MaxObservations, MaxEvidenceDay, MaxRecords} \subseteq Nat

VARIABLES
  evDay,      \* the daemon's clock
  obs,        \* the client's observations: [digest, at, availability, gap]
  held,       \* the assessment it has computed and not yet recorded
  liveness,   \* recorded assessments, in the order of recording
  truths,     \* recorded truth records
  duplicates  \* recorded duplicate decisions about the posting

evidenceVars == <<evDay, obs, held, liveness, truths, duplicates>>

EvidenceInit ==
  /\ evDay = 0
  /\ obs = {}
  /\ held = {}
  /\ liveness = << >>
  /\ truths = << >>
  /\ duplicates = << >>

-----------------------------------------------------------------------------
(* One observation.  What a response or a failure of the governed fetch     *)
(* says about the source; a 2xx answer the adapter cannot parse is a parse  *)
(* error, an available one may lack an application endpoint.                *)
Negative == {"not-found", "gone"}
AvailabilityOf(fetched) ==
  CASE fetched = "2xx" -> "available"
    [] fetched = "2xx-unparsed" -> "parse-error"
    [] fetched = "404" -> "not-found"
    [] fetched = "410" -> "gone"
    [] fetched = "401" -> "access-denied"
    [] fetched = "429" -> "rate-limited"
    [] fetched = "timeout" -> "transport-error"
    [] fetched = "500" -> "uncertain"

Recorded == Len(liveness) + Len(truths) + Len(duplicates)

Observe(fetched, gap, ahead, digest) ==
  /\ Recorded < MaxRecords
  /\ held = {}
  /\ Cardinality(obs) < MaxObservations
  /\ \A o \in obs : o.digest # digest
  /\ gap => fetched = "2xx"
  /\ obs' = obs \cup {[digest |-> digest, at |-> evDay + ahead,
                       availability |-> AvailabilityOf(fetched), gap |-> gap]}
  /\ UNCHANGED <<evDay, held, liveness, truths, duplicates>>

-----------------------------------------------------------------------------
(* assessSourceLiveness over a set of observations, newest first.           *)
Newer(o, p) == o.at > p.at \/ (o.at = p.at /\ o.digest < p.digest)
LatestRecord(os) == CHOOSE o \in os : \A p \in os \ {o} : Newer(o, p)
Age(o, now) == now - o.at

(* The run of negative observations at the head: it ends at the first that  *)
(* is not negative, is too old or is dated too far ahead.                   *)
NegativeHeadPastOthers(os, now) ==
  {o \in os : /\ o.availability \in Negative
              /\ Age(o, now) <= MaxNegativeAge
              /\ Age(o, now) >= -MaxFutureSkew}
NegativeHead(os, now) ==
  {o \in os : \A p \in {o} \cup {q \in os : Newer(q, o)} :
     /\ p.availability \in Negative
     /\ Age(p, now) <= MaxNegativeAge
     /\ Age(p, now) >= -MaxFutureSkew}

LivenessState(os, now) ==
  IF os = {} THEN "unresolved"
  ELSE LET latest == LatestRecord(os)
           age    == Age(latest, now)
       IN IF age < -MaxFutureSkew THEN "unresolved"
          ELSE IF latest.availability = "available"
          THEN IF latest.gap THEN "unresolved"
               ELSE IF age > MaxLiveAge THEN "stale" ELSE "live"
          ELSE IF latest.availability \in Negative
          THEN IF age > MaxNegativeAge THEN "stale"
               ELSE IF Cardinality({o.at : o \in NegativeHead(os, now)})
                         >= ClosedConfirmationCount
               THEN "closed" ELSE "unresolved"
          ELSE IF latest.availability \in
                    {"access-denied", "rate-limited", "transport-error"}
          THEN "unreachable" ELSE "unresolved"

Assess ==
  /\ held = {}
  /\ obs # {}
  /\ held' = {[state |-> LivenessState(obs, evDay), at |-> evDay]}
  /\ UNCHANGED <<evDay, obs, liveness, truths, duplicates>>

RecordLiveness(a) ==
  /\ Recorded < MaxRecords
  /\ liveness' = Append(liveness, [value |-> a.state, recordedAt |-> evDay])
  /\ held' = {}
  /\ obs' = {}
  /\ UNCHANGED <<evDay, truths, duplicates>>

-----------------------------------------------------------------------------
(* Truth records: one mandatory field stands for the five, one optional     *)
(* field for the salary.  canonicalField ages a claim to "stale" and is run *)
(* again, on its own output, whenever the record is validated or read.      *)
TruthClaims == {"observed", "inferred", "consistent"}

(* A field as a source gives it, and as a record keeps it.                  *)
TruthFields ==
  [state : TruthClaims \cup {"conflicting", "unresolved", "stale"}, known : BOOLEAN,
   evidence : Nat, at : Int]

ASSUME FieldInputs == MandatoryInputs \cup OptionalInputs \subseteq TruthFields

AgedEarly(f, now) == f.state \in TruthClaims /\ now - f.at >= MaxTruthAge
Aged(f, now) == f.state \in TruthClaims /\ now - f.at > MaxTruthAge

CanonicalState(f, now) == IF Aged(f, now) THEN "stale" ELSE f.state

FieldAccepted(f, now) ==
  LET state == CanonicalState(f, now)
  IN /\ now - f.at >= -MaxFutureSkew
     /\ f.state = "stale" => now - f.at > MaxTruthAge
     /\ state \in TruthClaims => f.known
     /\ state \in {"conflicting", "unresolved"} => ~f.known
     /\ state \in {"consistent", "conflicting"} => f.evidence >= 2

CanonicalField(f, now) == [f EXCEPT !.state = CanonicalState(f, now)]

HasBlockers(mandatory, optional) ==
  \/ "conflicting" \in {mandatory.state, optional.state}
  \/ mandatory.state \in {"unresolved", "stale"}

(* createOpportunityTruthRecord: the record, or what it refuses.            *)
TruthRecord(mandatory, optional, now) ==
  LET m == CanonicalField(mandatory, now)
      o == CanonicalField(optional, now)
  IN [mandatory |-> m, optional |-> o, assessedAt |-> now,
      disposition |-> IF HasBlockers(m, o) THEN "blocked" ELSE "actionable"]

AssertTruth(t) ==
  /\ FieldAccepted(t.mandatory, t.assessedAt)
  /\ FieldAccepted(t.optional, t.assessedAt)
  /\ TruthRecord(t.mandatory, t.optional, t.assessedAt) = t

RecordTruth(mandatory, optional) ==
  /\ obs = {}
  /\ Recorded < MaxRecords
  /\ FieldAccepted(mandatory, evDay)
  /\ FieldAccepted(optional, evDay)
  /\ truths' = Append(truths, [value |-> TruthRecord(mandatory, optional, evDay),
                               recordedAt |-> evDay])
  /\ UNCHANGED <<evDay, obs, held, liveness, duplicates>>

RecordDuplicates(outcomes) ==
  /\ obs = {}
  /\ Recorded < MaxRecords
  /\ duplicates' = Append(duplicates, [value |-> outcomes, recordedAt |-> evDay])
  /\ UNCHANGED <<evDay, obs, held, liveness, truths>>

PassDay ==
  /\ evDay < MaxEvidenceDay
  /\ evDay' = evDay + 1
  /\ UNCHANGED <<obs, held, liveness, truths, duplicates>>

-----------------------------------------------------------------------------
(* discovery-review-list.  Of several records the newest recordedAt wins,   *)
(* and of those of one time the first listed, in any order of their ids;    *)
(* of the decisions about a candidate the most cautious of the last result. *)
Newest(records) ==
  {records[i].value : i \in {j \in DOMAIN records :
     \A k \in DOMAIN records : records[k].recordedAt <= records[j].recordedAt}}

Outcome(outcomes) ==
  IF "review" \in outcomes THEN "review"
  ELSE IF "merge" \in outcomes THEN "merge" ELSE "distinct"

Status(state, disposition, duplicate) ==
  IF state = "closed" \/ disposition = "blocked" THEN "blocked"
  ELSE IF \/ state # "live"
          \/ disposition # "actionable"
          \/ duplicate \in {"review", "merge"}
  THEN "needs_review" ELSE "ready"

(* What the list may show of each kind now, and the statuses it may show.   *)
Or(shown, default) == IF shown = {} THEN {default} ELSE shown
StatesShown == Or(Newest(liveness), "unassessed")
DispositionsShown == Or({t.disposition : t \in Newest(truths)}, "unassessed")
DuplicatesShown == Or({Outcome(x) : x \in Newest(duplicates)}, "unassessed")

ReviewStatuses ==
  {Status(s, d, u) : s \in StatesShown, d \in DispositionsShown, u \in DuplicatesShown}

EvidenceNext ==
  \/ \E f \in Fetched, gap \in BOOLEAN, ahead \in 0 .. MaxFutureSkew + 1,
        digest \in 1 .. MaxObservations : Observe(f, gap, ahead, digest)
  \/ Assess
  \/ \E a \in held : RecordLiveness(a)
  \/ \E m \in MandatoryInputs, o \in OptionalInputs : RecordTruth(m, o)
  \/ \E outcomes \in DecidedSets : RecordDuplicates(outcomes)
  \/ PassDay

EvidenceSpec == EvidenceInit /\ [][EvidenceNext]_evidenceVars

-----------------------------------------------------------------------------
(* A posting is called closed only on enough negative observations at       *)
(* different times, none of them too old, after which nothing else was      *)
(* seen: no availability, no outage and no refusal newer than the oldest of *)
(* them (assessSourceLiveness).                                             *)
ClosedConfirmed ==
  \A a \in held :
    a.state = "closed" =>
      \E since \in {o.at : o \in obs} :
        /\ a.at - since <= MaxNegativeAge
        /\ \A o \in obs : o.at > since => o.availability \in Negative
        /\ Cardinality({o.at : o \in {p \in obs :
             p.at >= since /\ p.availability \in Negative}})
             >= ClosedConfirmationCount

(* The review list can always be read, because every record it stands on    *)
(* still passes the validation it is read with, and it shows a posting as   *)
(* ready only if no closure and no blocking field was recorded later than   *)
(* the last live assessment and the last actionable truth.                  *)
ReviewSound ==
  /\ \A i \in DOMAIN truths : AssertTruth(truths[i].value)
  /\ "ready" \in ReviewStatuses =>
       /\ \E i \in DOMAIN liveness :
            /\ liveness[i].value = "live"
            /\ \A j \in DOMAIN liveness :
                 liveness[j].value = "closed" =>
                   liveness[j].recordedAt <= liveness[i].recordedAt
       /\ \E i \in DOMAIN truths :
            /\ truths[i].value.mandatory.state \in TruthClaims
            /\ \A j \in DOMAIN truths :
                 truths[j].value.disposition = "blocked" =>
                   truths[j].recordedAt <= truths[i].recordedAt

(* What the observations and records show of a posting is what its          *)
(* assessment and the review list say of it, in whatever order they arrive. *)
EvidenceSound == ClosedConfirmed /\ ReviewSound
=============================================================================
