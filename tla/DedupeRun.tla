------------------------------ MODULE DedupeRun ------------------------------
(***************************************************************************)
(* Duplicate detection (src/src/discovery/dedupe.ts) as a stepwise         *)
(* machine: the candidates are collected, every pair is decided in the     *)
(* order of the candidate ids, a merge joins two clusters of a disjoint    *)
(* set, and the result is published and validated as the daemon does when  *)
(* it records it.  A pair is decided from the two postings alone; whether  *)
(* a merge may join two clusters depends on every member they already      *)
(* have, so what the result says of one pair depends on the order of all   *)
(* earlier ones.  A candidate's id is its place in the sorted order.       *)
(***************************************************************************)
EXTENDS Naturals, Sequences, FiniteSets

CONSTANTS
  Postings,        \* the candidates a call may be given, before normalisation
  MaxCandidates,   \* bound on the candidates of one call
  IdentityText,    \* raw text -> its NFKC, lower-case, collapsed form
  IdentityUrl,     \* raw URL -> its canonical form, or "invalid"
  Adjacent         \* the sets of two titles the taxonomy puts at or above
                   \* minimumReviewAdjacency
ASSUME DedupeBound == MaxCandidates \in Nat

VARIABLES
  cands,      \* the candidates of the call, in the order of their ids
  dedupePhase,      \* "collect", "compare", "published" or "refused"
  decided,    \* decided pairs <<l, r>> -> [outcome, reason]
  root        \* the disjoint set: candidate -> root of its cluster

dedupeVars == <<cands, dedupePhase, decided, root>>

None == "none"
Cands == 1 .. Len(cands)
Pairs == {p \in Cands \X Cands : p[1] < p[2]}

DedupeInit ==
  /\ cands = << >>
  /\ dedupePhase = "collect"
  /\ decided = << >>
  /\ root = << >>

-----------------------------------------------------------------------------
(* Normalisation: texts and URLs are compared in their canonical form; a    *)
(* missing location is the empty text and matches nothing.                  *)
Normal(p) ==
  [p EXCEPT !.company = IdentityText[@], !.title = IdentityText[@],
            !.location = IdentityText[@], !.url = IdentityUrl[@],
            !.apply = IF @ = None THEN None ELSE IdentityUrl[@]]

Normalizes(p) ==
  LET n == Normal(p)
  IN n.company # "" /\ n.title # "" /\ n.url # "invalid" /\ n.apply # "invalid"

(* The decision on a pair, in the order of the early returns.  content      *)
(* stands for the description digest and the posting date together.         *)
SameCompany(l, r) ==
  \/ l.company = r.company
  \/ l.domain # None /\ l.domain = r.domain

SameKnown(a, b, missing) == a # missing /\ a = b

LocationConflict(l, r) ==
  l.location # "" /\ r.location # "" /\ l.location # r.location

SameRecordDecision(l, r) ==
  IF ~SameCompany(l, r) \/ l.title # r.title \/ LocationConflict(l, r)
  THEN [outcome |-> "distinct", reason |-> "material-identity-mismatch"]
  ELSE IF l.url = r.url
  THEN [outcome |-> "merge", reason |-> "same-provider-record"]
  ELSE [outcome |-> "review", reason |-> "identity-evidence-insufficient"]

EvidenceDecision(l, r) ==
  LET sameLocation == SameKnown(l.location, r.location, "")
      sameContent  == SameKnown(l.content, r.content, None)
      merge(why) == [outcome |-> "merge", reason |-> why]
  IN IF /\ SameKnown(l.apply, r.apply, None)
        /\ sameLocation
        /\ l.url = r.url \/ sameContent
     THEN merge("same-application-endpoint")
     ELSE IF l.url = r.url /\ sameLocation
     THEN merge("same-canonical-posting")
     ELSE IF sameContent /\ sameLocation
     THEN merge("same-content-provenance")
     ELSE [outcome |-> "review", reason |-> "identity-evidence-insufficient"]

EvaluateDedupePair(left, right) ==
  LET l == Normal(left)
      r == Normal(right)
  IN IF l.domain # None /\ r.domain # None /\ l.domain # r.domain
     THEN [outcome |-> "distinct", reason |-> "company-domain-conflict"]
     ELSE IF l.provider = r.provider /\ l.record # r.record
     THEN [outcome |-> "distinct", reason |-> "provider-record-conflict"]
     ELSE IF l.provider = r.provider
     THEN SameRecordDecision(l, r)
     ELSE IF ~SameCompany(l, r)
     THEN [outcome |-> "distinct", reason |-> "material-identity-mismatch"]
     ELSE IF l.title # r.title
     THEN IF {l.title, r.title} \in Adjacent
          THEN [outcome |-> "review", reason |-> "taxonomy-adjacent-role"]
          ELSE [outcome |-> "distinct", reason |-> "material-identity-mismatch"]
     ELSE EvidenceDecision(l, r)

HardIdentityConflict(d) ==
  /\ d.outcome = "distinct"
  /\ d.reason \in {"provider-record-conflict", "company-domain-conflict",
                   "material-identity-mismatch"}

-----------------------------------------------------------------------------
(* The disjoint set.  Path compression keeps every candidate's root.        *)
ClusterOf(c) == {d \in Cands : root[d] = root[c]}

Union(l, r) ==
  LET first  == IF root[l] < root[r] THEN root[l] ELSE root[r]
      second == IF root[l] < root[r] THEN root[r] ELSE root[l]
  IN [c \in Cands |-> IF root[c] = second THEN first ELSE root[c]]

ClustersConflictPairOnly(l, r) ==
  /\ root[l] # root[r]
  /\ HardIdentityConflict(EvaluateDedupePair(cands[l], cands[r]))
ClustersHaveHardIdentityConflict(l, r) ==
  /\ root[l] # root[r]
  /\ \E m \in ClusterOf(l), n \in ClusterOf(r) :
       HardIdentityConflict(EvaluateDedupePair(cands[m], cands[n]))

-----------------------------------------------------------------------------
CollectCandidate(p) ==
  /\ dedupePhase = "collect"
  /\ Len(cands) < MaxCandidates
  /\ cands' = Append(cands, p)
  /\ UNCHANGED <<dedupePhase, decided, root>>

(* deduplicateCandidates normalises every candidate first: one that cannot  *)
(* be normalised fails the whole call.                                      *)
StartDedupe ==
  /\ dedupePhase = "collect"
  /\ Len(cands) > 1
  /\ IF \A c \in Cands : Normalizes(cands[c])
     THEN /\ dedupePhase' = "compare"
          /\ root' = [c \in Cands |-> c]
     ELSE /\ dedupePhase' = "refused"
          /\ UNCHANGED root
  /\ UNCHANGED <<cands, decided>>

Undecided == Pairs \ DOMAIN decided
Before(p, q) == p[1] < q[1] \/ (p[1] = q[1] /\ p[2] < q[2])

ComparePair ==
  /\ dedupePhase = "compare"
  /\ \E p \in Undecided :
       /\ \A q \in Undecided \ {p} : Before(p, q)
       /\ LET own == EvaluateDedupePair(cands[p[1]], cands[p[2]])
              d   == IF /\ own.outcome = "merge"
                        /\ ClustersHaveHardIdentityConflict(p[1], p[2])
                     THEN [outcome |-> "distinct",
                           reason |-> "cluster-identity-conflict"]
                     ELSE own
          IN /\ decided' = [q \in DOMAIN decided \cup {p} |->
                              IF q = p THEN d ELSE decided[q]]
             /\ root' = IF d.outcome = "merge" THEN Union(p[1], p[2]) ELSE root
  /\ UNCHANGED <<cands, dedupePhase>>

(* Recording validates the result: the clusters must be the ones the merge  *)
(* decisions alone generate.                                                *)
MergedPairs == {p \in DOMAIN decided : decided[p].outcome = "merge"}

\* c and d are joined by merges: no set that takes with a candidate all it was
\* merged with has c and not d.
Joined(c, d) ==
  \A S \in SUBSET Cands :
    c \in S /\ (\A p \in MergedPairs : p[1] \in S <=> p[2] \in S) => d \in S

AssertDedupeResult ==
  \A c, d \in Cands : (root[c] = root[d]) <=> Joined(c, d)

PublishResult ==
  /\ dedupePhase = "compare"
  /\ Undecided = {}
  /\ dedupePhase' = IF AssertDedupeResult THEN "published" ELSE "refused"
  /\ UNCHANGED <<cands, decided, root>>

DedupeNext ==
  \/ \E p \in Postings : CollectCandidate(p)
  \/ StartDedupe
  \/ ComparePair
  \/ PublishResult

DedupeSpec == DedupeInit /\ [][DedupeNext]_dedupeVars

-----------------------------------------------------------------------------
(* Two postings the result calls distinct, be it because they conflict      *)
(* themselves or because the clusters they were in did, are never found in  *)
(* one cluster, whatever later pairs merge around them; two it merged stay  *)
(* in one; and two that conflict themselves are apart from the first step.  *)
(* A result of comparable candidates is never refused when it is recorded   *)
(* (deduplicateCandidates against assertDedupeResult).                      *)
DistinctStaysApart ==
  /\ \A p \in DOMAIN decided :
       /\ decided[p].outcome = "distinct" => root[p[1]] # root[p[2]]
       /\ decided[p].outcome = "merge" => root[p[1]] = root[p[2]]
  /\ root # << >> =>
       \A p \in Pairs :
         HardIdentityConflict(EvaluateDedupePair(cands[p[1]], cands[p[2]]))
           => root[p[1]] # root[p[2]]
  /\ dedupePhase = "refused" => root = << >>
=============================================================================
