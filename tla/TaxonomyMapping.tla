-------------------------- MODULE TaxonomyMapping --------------------------
(***************************************************************************)
(* Occupation taxonomies (src/src/taxonomy): versioned snapshots of ESCO   *)
(* and O*NET whose ids are bound to their content and provenance, the      *)
(* deterministic label matcher, and the cross-taxonomy mapping sets built  *)
(* from its proposals or by a curator.                                     *)
(*                                                                         *)
(* A label is its place in text order with what the code makes of it: its  *)
(* form without case, its normalised form and that form's tokens.  Only    *)
(* a-z and 0-9 are left by the normalisation, of a Greek label nothing.  A *)
(* SHA-256 hash is the value it is taken of.  A snapshot reaches the       *)
(* daemon as a file, which can be edited on the way.                       *)
(***************************************************************************)
EXTENDS Integers, FiniteSets, FiniteSetsExt

CONSTANTS
  Bundles,        \* snapshot inputs: [source, version, full, retrieved, published, concepts]
  EditedLabel,    \* a label a snapshot file may be edited to
  MinimumScore,   \* proposeTaxonomyMappings: minimumScore, as a fraction <<n, d>>
  MaxSnapshots,   \* bound: snapshots stored
  MaxSets         \* bound: mapping sets recorded

ASSUME TaxonomyConstants ==
  /\ MinimumScore[1] \in Nat /\ MinimumScore[2] \in Nat \ {0}
  /\ MaxSnapshots \in Nat /\ MaxSets \in Nat

VARIABLES
  bundle,      \* the snapshot file on disk, or NoBundle
  snapshots,   \* taxonomy-snapshots: snapshot id -> snapshot
  mappingSets  \* taxonomy-mapping-sets: the sets recorded

taxonomyVars == <<bundle, snapshots, mappingSets>>

NoBundle == [none |-> "bundle"]

(* 0.89 in ten-thousandths: the most a label match may claim. *)
LabelCeiling == 8900
CuratorConfidence == 9500

----------------------------------------------------------------------------
(* Snapshots. *)

Labels(c) == {c.preferred} \cup c.alternates

(* Of labels that differ in case the first is kept, and none that differs  *)
(* from the preferred one in nothing else.                                 *)
CanonicalConcept(c) ==
  [c EXCEPT !.alternates = {l \in @ : /\ l.fold # c.preferred.fold
                                      /\ \A o \in @ : o.fold = l.fold => l.text <= o.text}]

ContentHash(s) == [source |-> s.source, version |-> s.version, full |-> s.full,
                   concepts |-> s.concepts]

ProvenanceHash(s) == [source |-> s.source, version |-> s.version,
                      retrieved |-> s.retrieved, published |-> s.published]

(* Mutated form: an id that names the version and where it came from, as   *)
(* if two files of one version were always the same.                       *)
SnapshotIdOfVersion(s) == [source |-> s.source, version |-> s.version,
                           content |-> "any", provenance |-> s.provenanceHash]

SnapshotId(s) == [source |-> s.source, version |-> s.version,
                  content |-> s.contentHash, provenance |-> s.provenanceHash]

ConceptIds(s) == DOMAIN s.concepts

(* normalizeLabel: nothing of the label is left. *)
Blank == ""

(* What createTaxonomySnapshot is given: concepts by ids that are pairs of *)
(* a source and a number, with labels that their text determines, as their *)
(* normalised form does their tokens.                                      *)
InputLabels ==
  {EditedLabel} \cup
  UNION {UNION {Labels(b.concepts[c]) : c \in DOMAIN b.concepts} : b \in Bundles}

ASSUME TaxonomyInputs ==
  /\ \A l \in InputLabels : l.text \in Nat /\ IsFiniteSet(l.tokens)
  /\ \A l, o \in InputLabels : /\ l.text = o.text => l = o
                               /\ l.norm = o.norm => l.tokens = o.tokens
  /\ \A l \in InputLabels : l.norm = Blank => l.tokens = {}
  /\ \A b \in Bundles :
       /\ IsFiniteSet(DOMAIN b.concepts)
       /\ \A c \in DOMAIN b.concepts :
            /\ c = <<c[1], c[2]>> /\ c[2] \in Nat
            /\ b.concepts[c] = [preferred |-> b.concepts[c].preferred,
                                alternates |-> b.concepts[c].alternates,
                                broader |-> b.concepts[c].broader]
            /\ IsFiniteSet(b.concepts[c].alternates)

ValidSnapshot(s) ==
  /\ s.published <= s.retrieved
  /\ \A c \in ConceptIds(s) : c[1] = s.source /\ c \notin s.concepts[c].broader
  /\ s.full => \A c \in ConceptIds(s) : s.concepts[c].broader \subseteq ConceptIds(s)
  /\ s.contentHash = ContentHash(s)
  /\ s.provenanceHash = ProvenanceHash(s)
  /\ s.snapshotId = SnapshotId(s)

Hashed(s) ==
  LET h == [s EXCEPT !.contentHash = ContentHash(s), !.provenanceHash = ProvenanceHash(s)]
  IN  [h EXCEPT !.snapshotId = SnapshotId(h)]

(* createTaxonomySnapshot, before its own validation. *)
NewSnapshot(b) ==
  Hashed([source |-> b.source, version |-> b.version, full |-> b.full,
          retrieved |-> b.retrieved, published |-> b.published,
          concepts |-> [c \in DOMAIN b.concepts |-> CanonicalConcept(b.concepts[c])],
          contentHash |-> "pending", provenanceHash |-> "pending", snapshotId |-> "pending"])

(* taxonomySnapshotReference: all of a snapshot but its concepts. *)
Reference(s) == [snapshotId |-> s.snapshotId, source |-> s.source, version |-> s.version,
                 retrieved |-> s.retrieved, published |-> s.published,
                 contentHash |-> s.contentHash, provenanceHash |-> s.provenanceHash]

ValidReference(r) == /\ r.published <= r.retrieved
                     /\ r.provenanceHash = ProvenanceHash(r)
                     /\ r.snapshotId = SnapshotId(r)

----------------------------------------------------------------------------
(* The label matcher.  A score is a fraction <<n, d>>. *)

Above(x, y) == x[1] * y[2] > y[1] * x[2]
AtLeast(x, y) == ~Above(y, x)

Jaccard(l, r) == IF l \cup r = {} THEN <<0, 1>>
                 ELSE <<Cardinality(l \cap r), Cardinality(l \cup r)>>

(* Mutated form: tokens alone are compared, and a word of one letter is    *)
(* not a token.                                                            *)
TokenScore(q, l) == Jaccard(q.tokens, l.tokens)

LabelScore(q, l) == IF q.norm = l.norm THEN <<1, 1>> ELSE Jaccard(q.tokens, l.tokens)

(* bestLabelMatch: the highest score, and the first label that has it. *)
BestLabel(q, c) ==
  CHOOSE l \in Labels(c) : \A o \in Labels(c) :
    \/ Above(LabelScore(q, l), LabelScore(q, o))
    \/ LabelScore(q, l) = LabelScore(q, o) /\ l.text <= o.text
    \/ AtLeast(LabelScore(q, l), LabelScore(q, o)) /\ l.text < o.text

MatchScore(q, c) == LabelScore(q, BestLabel(q, c))

(* rankTaxonomyConcepts, what a taxonomy-query answers: an error when      *)
(* nothing of the query is left, otherwise the concepts that reach the     *)
(* minimum and have fewer than `limit' others before them, by score and    *)
(* then by id.                                                             *)
Ranks(q, s, c, o) ==
  LET x == MatchScore(q, s.concepts[c])  y == MatchScore(q, s.concepts[o]) IN
  Above(x, y) \/ (AtLeast(x, y) /\ c[2] < o[2])

RankConcepts(q, s, limit, minimum) ==
  LET Ranked == {c \in ConceptIds(s) :
                   /\ AtLeast(MatchScore(q, s.concepts[c]), minimum)
                   /\ Cardinality({o \in ConceptIds(s) : Ranks(q, s, o, c)}) < limit}
  IN  IF q.norm = Blank THEN [refused |-> TRUE, concepts |-> {}]
      ELSE [refused |-> FALSE, concepts |-> Ranked]

(* A label match is never claimed above 0.89. *)
Confidence(score) == Min({(10000 * score[1]) \div score[2], LabelCeiling})

(* proposeTaxonomyMappings: for each concept of one side the best of the   *)
(* other, over all labels of the first, ties to the smaller id.            *)
ScoreOf(f, t, c, o) ==
  LET scores == {MatchScore(l, t.concepts[o]) : l \in Labels(f.concepts[c])} IN
  CHOOSE x \in scores : \A y \in scores : AtLeast(x, y)

Nearest(f, t, c) ==
  CHOOSE o \in ConceptIds(t) : \A p \in ConceptIds(t) \ {o} :
    \/ Above(ScoreOf(f, t, c, o), ScoreOf(f, t, c, p))
    \/ AtLeast(ScoreOf(f, t, c, o), ScoreOf(f, t, c, p)) /\ o[2] < p[2]

Propose(f, t) ==
  {[from |-> c, to |-> Nearest(f, t, c), relation |-> "close", method |-> "deterministic-label",
    confidence |-> Confidence(ScoreOf(f, t, c, Nearest(f, t, c)))] :
     c \in {c \in ConceptIds(f) : /\ ConceptIds(t) # {}
                                  /\ AtLeast(ScoreOf(f, t, c, Nearest(f, t, c)), MinimumScore)}}

----------------------------------------------------------------------------
(* Mapping sets. *)

(* The checks createTaxonomyMappingSet and validateTaxonomyMappingSet      *)
(* share: one mapping per pair, and no label match that claims identity.   *)
ValidEntries(entries) ==
  /\ \A e, o \in entries : e.from = o.from /\ e.to = o.to => e = o
  /\ \A e \in entries : /\ e.confidence \in 0 .. 10000
                        /\ e.method = "deterministic-label" =>
                             e.relation # "exact" /\ e.confidence <= LabelCeiling

(* createTaxonomyMappingSet *)
SetAccepted(f, t, entries) ==
  /\ ValidSnapshot(f) /\ ValidSnapshot(t)
  /\ f.source # t.source
  /\ \A e \in entries : e.from \in ConceptIds(f) /\ e.to \in ConceptIds(t)
  /\ ValidEntries(entries)

(* The set id and every mapping id are bound to both references. *)
NewSet(f, t, entries) == [from |-> Reference(f), to |-> Reference(t), mappings |-> entries]

(* validateTaxonomyMappingSet, all that the record operation checks. *)
ValidSet(m) == /\ ValidReference(m.from) /\ ValidReference(m.to)
               /\ m.from.source # m.to.source
               /\ ValidEntries(m.mappings)

----------------------------------------------------------------------------
(* A snapshot file is written by createTaxonomySnapshot. *)
WriteBundle(b) == /\ ValidSnapshot(NewSnapshot(b))
                  /\ bundle' = NewSnapshot(b)
                  /\ UNCHANGED <<snapshots, mappingSets>>

(* It is edited: a label is changed, and its hashes are left as they were  *)
(* or computed again.                                                      *)
EditBundle(c, rehash) ==
  LET s == [bundle EXCEPT !.concepts[c].preferred = EditedLabel] IN
  /\ bundle # NoBundle
  /\ c \in ConceptIds(bundle)
  /\ bundle' = IF rehash THEN Hashed(s) ELSE s
  /\ UNCHANGED <<snapshots, mappingSets>>

(* taxonomy sync: validated by the command and again by the daemon, then   *)
(* recorded under its id.                                                  *)
Sync == /\ bundle # NoBundle
        /\ ValidSnapshot(bundle)
        /\ Cardinality(DOMAIN snapshots \cup {bundle.snapshotId}) <= MaxSnapshots
        /\ snapshots' = [i \in DOMAIN snapshots \cup {bundle.snapshotId} |->
                           IF i = bundle.snapshotId THEN bundle ELSE snapshots[i]]
        /\ UNCHANGED <<bundle, mappingSets>>

(* A mapping set is made from the proposals, or from them and a curator's  *)
(* exact mapping of the first proposal's concepts, and recorded.           *)
Curated(entries, e) == (entries \ {e}) \cup
  {[e EXCEPT !.relation = "exact", !.method = "curated", !.confidence = CuratorConfidence]}

RecordSet(f, t, entries) ==
  /\ Cardinality(mappingSets) < MaxSets
  /\ SetAccepted(f, t, entries)
  /\ ValidSet(NewSet(f, t, entries))
  /\ mappingSets' = mappingSets \cup {NewSet(f, t, entries)}
  /\ UNCHANGED <<bundle, snapshots>>

TaxonomyInit == bundle = NoBundle /\ snapshots = <<>> /\ mappingSets = {}

TaxonomyNext ==
  \/ \E b \in Bundles : WriteBundle(b)
  \/ \E c \in UNION {DOMAIN b.concepts : b \in Bundles}, rehash \in BOOLEAN :
       EditBundle(c, rehash)
  \/ Sync
  \/ \E i, j \in DOMAIN snapshots :
       LET f == snapshots[i]  t == snapshots[j]  proposals == Propose(f, t) IN
       /\ f.source # t.source
       /\ \/ RecordSet(f, t, proposals)
          \/ \E e \in proposals : RecordSet(f, t, Curated(proposals, e))

TaxonomySpec == TaxonomyInit /\ [][TaxonomyNext]_taxonomyVars

----------------------------------------------------------------------------
(* Each recorded set names snapshots that are stored under the ids it      *)
(* gives with the content it was made from, so that no later import        *)
(* replaces what a mapping points into; and every concept it maps is there. *)
SetsResolve ==
  \A m \in mappingSets : \A r \in {m.from, m.to} :
     /\ r.snapshotId \in DOMAIN snapshots
     /\ snapshots[r.snapshotId].contentHash = r.contentHash
     /\ \A e \in m.mappings : \A c \in {e.from, e.to} :
          c[1] = r.source => c \in ConceptIds(snapshots[r.snapshotId])

(* A query for a label of a stored concept, be it preferred or alternate,  *)
(* has a full match, unless nothing of the label is left to ask for.       *)
LabelsFound ==
  \A i \in DOMAIN snapshots : \A c \in ConceptIds(snapshots[i]) :
     \A q \in Labels(snapshots[i].concepts[c]) :
        LET answer == RankConcepts(q, snapshots[i], 1, <<1, 1>>) IN
        IF q.norm = Blank THEN answer.refused ELSE answer.concepts # {}

(* Whatever the matcher proposes between two stored snapshots is accepted  *)
(* as a mapping set and still validates when it is read back.              *)
ProposalsAccepted ==
  \A i, j \in DOMAIN snapshots :
     snapshots[i].source # snapshots[j].source =>
       LET p == Propose(snapshots[i], snapshots[j]) IN
       /\ SetAccepted(snapshots[i], snapshots[j], p)
       /\ ValidSet(NewSet(snapshots[i], snapshots[j], p))

(* Mappings resolve, stored labels are found and proposals are accepted    *)
(* (mapping.ts: createTaxonomyMappingSet, rankTaxonomyConcepts,            *)
(* proposeTaxonomyMappings).                                               *)
MappingsResolve == SetsResolve /\ LabelsFound /\ ProposalsAccepted
=============================================================================
