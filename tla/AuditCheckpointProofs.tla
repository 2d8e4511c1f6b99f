------------------------ MODULE AuditCheckpointProofs ------------------------
(***************************************************************************)
(* Proofs about the audit checkpoints, for histories, faults and tampering *)
(* of any length.                                                          *)
(*                                                                         *)
(* What verification decides follows from what a checkpoint digest is: in  *)
(* a database whose rows verify, the digest of row i is the sequence of    *)
(* the bodies of rows 1 .. i.  The rows are followed one after the other,  *)
(* which needs an induction over them: LeastElement gives the smallest row *)
(* that would break the claim.                                             *)
(***************************************************************************)
EXTENDS AuditCheckpoint, WellFoundedInduction, TLAPS

\* Every checkpoint row signs a prefix of the events it is stored with.
Rooted(image) ==
    \A i \in DOMAIN image.checkpoints :
        /\ image.checkpoints[i].body.count <= Len(image.events)
        /\ SubSeq(image.events, 1, image.checkpoints[i].body.count)
             = image.checkpoints[i].body.head

AllRooted == Rooted(db) /\ \A image \in images : Rooted(image)

Stopped == ~running => create = NoCreate

\* The digest outside the database names every acknowledged checkpoint.
AckedRetained ==
    \A body \in answered : digest # NoDigest /\ \E k \in DOMAIN digest : digest[k] = body

\* While a checkpoint is being created nobody else writes the database.
CreateSound ==
    /\ create.step = "save" =>
          /\ verifyCheckpointChain(db, digest)
          /\ \E id \in RequestIds : create.record = NewCheckpoint(db, id)
    /\ create.step = "digest" =>
          /\ verifyCheckpointRecords(db)
          /\ db.checkpoints # <<>>
          /\ create.record = db.checkpoints[Len(db.checkpoints)]
          /\ create.record.prev = IF digest = NoDigest THEN <<>> ELSE digest
    /\ create.step \in {"verify", "record"} =>
          /\ verifyCheckpointChain(db, digest)
          /\ \E i \in DOMAIN db.checkpoints : create.record = db.checkpoints[i]

\* The inductive invariant.
Inv ==
    /\ CheckpointTypeOK
    /\ AllRooted /\ Stopped /\ AckedRetained /\ CreateSound /\ NeverLocksItselfOut

-----------------------------------------------------------------------------

(* A nonempty set of natural numbers has a least element.                    *)
LEMMA LeastElement ==
    ASSUME NEW T, T \subseteq Nat, T # {}
    PROVE  \E m \in T : \A k \in T : m <= k
<1> DEFINE R == {x \in Nat \X Nat : x[1] < x[2]}
<1>1. OpToRel(<, Nat) = R
  BY DEF OpToRel
<1>2. IsWellFoundedOn(R, Nat)
  BY <1>1, NatLessThanWellFounded, Zenon
<1>3. \A x, y \in Nat : <<x, y>> \in R <=> x < y
  OBVIOUS
<1> HIDE DEF R
<1>4. PICK m \in T : \A k \in T : ~(<<k, m>> \in R)
  BY <1>2, WFMin
<1>5. \A k \in T : ~(k < m)
  BY <1>3, <1>4
<1>6. \A k \in T : k \in Nat /\ m \in Nat
  OBVIOUS
<1>7. \A k \in T : m <= k
  BY <1>5, <1>6
<1> QED BY <1>7

(* The elements of a sequence, and what appending one changes.               *)
LEMMA SeqFacts ==
    ASSUME NEW S, NEW s \in Seq(S)
    PROVE  /\ Len(s) \in Nat /\ DOMAIN s = 1 .. Len(s)
           /\ \A i \in DOMAIN s : s[i] \in S
           /\ \A e \in S : /\ Append(s, e) \in Seq(S)
                           /\ Len(Append(s, e)) = Len(s) + 1
                           /\ DOMAIN Append(s, e) = 1 .. Len(s) + 1
                           /\ Append(s, e)[Len(s) + 1] = e
                           /\ \A i \in 1 .. Len(s) : Append(s, e)[i] = s[i]
  OBVIOUS

LEMMA RowType ==
  \A r \in Checkpoints : r.body \in CheckpointBodies /\ r.prev \in Seq(CheckpointBodies)
  BY DEF Checkpoints

(* In a database that verifies, the digest of a row is the sequence of the   *)
(* checkpoint bodies up to it: what precedes row i is the bodies of the rows *)
(* before it, from the first row on.                                         *)
LEMMA VerifiedChain ==
    ASSUME NEW image \in Images, verifyCheckpointRecords(image)
    PROVE  \A i \in DOMAIN image.checkpoints :
             /\ Len(image.checkpoints[i].prev) = i - 1
             /\ \A j \in 1 .. i - 1 : image.checkpoints[i].prev[j] = image.checkpoints[j].body
<1> DEFINE rows == image.checkpoints
           P(i) == /\ Len(rows[i].prev) = i - 1
                   /\ \A j \in 1 .. i - 1 : rows[i].prev[j] = rows[j].body
           Bad == {i \in DOMAIN rows : ~P(i)}
<1>1. rows \in Seq(Checkpoints)
  BY DEF Images
<1> HIDE DEF rows
<1>2. /\ DOMAIN rows = 1 .. Len(rows) /\ Len(rows) \in Nat
      /\ \A i \in DOMAIN rows : rows[i].body \in CheckpointBodies /\ rows[i].prev \in Seq(CheckpointBodies)
  BY <1>1, SeqFacts, RowType
<1>3. \A i \in DOMAIN rows :
        rows[i].prev = IF i = 1 THEN <<>> ELSE Append(rows[i - 1].prev, rows[i - 1].body)
  BY DEF verifyCheckpointRecords, checkpointDigest, CHECKPOINT_GENESIS, rows
<1>4. ASSUME NEW i \in DOMAIN rows, i # 1, P(i - 1) PROVE P(i)
  <2>1. i - 1 \in DOMAIN rows /\ i \in Nat
    BY <1>2, <1>4
  <2> DEFINE s == rows[i - 1].prev
             b == rows[i - 1].body
  <2>2. s \in Seq(CheckpointBodies) /\ b \in CheckpointBodies /\ Len(s) = i - 2
    BY <1>2, <1>4, <2>1
  <2>3. rows[i].prev = Append(s, b)
    BY <1>3, <1>4
  <2>4. \A j \in 1 .. i - 2 : s[j] = rows[j].body
    BY <1>4
  <2> HIDE DEF s
  <2>5. /\ Len(Append(s, b)) = Len(s) + 1 /\ Append(s, b)[Len(s) + 1] = b
        /\ \A j \in 1 .. Len(s) : Append(s, b)[j] = s[j]
    BY <2>2
  <2> QED BY <2>1, <2>2, <2>3, <2>4, <2>5
<1>5. 1 \in DOMAIN rows => P(1)
  BY <1>3
<1>6. Bad = {}
  <2>1. SUFFICES ASSUME Bad # {} PROVE FALSE
    OBVIOUS
  <2>2. Bad \subseteq Nat
    BY <1>2
  <2>3. PICK m \in Bad : \A k \in Bad : m <= k
    BY <2>1, <2>2, LeastElement
  <2>4. m \in DOMAIN rows /\ m # 1 /\ ~P(m)
    BY <1>5, <2>3
  <2>5. m - 1 \in DOMAIN rows /\ m - 1 \notin Bad
    BY <1>2, <2>2, <2>3, <2>4
  <2> QED BY <1>4, <2>4, <2>5
<1> QED BY <1>6 DEF rows

(* The digest that verification compares lists the bodies of the rows.       *)
LEMMA VerifiedDigest ==
    ASSUME NEW image \in Images, NEW external, external # NoDigest,
           verifyCheckpointChain(image, external)
    PROVE  /\ external \in Seq(CheckpointBodies)
           /\ DOMAIN external = DOMAIN image.checkpoints
           /\ \A k \in DOMAIN external : external[k] = image.checkpoints[k].body
<1> DEFINE rows == image.checkpoints
           n == Len(rows)
<1>1. rows \in Seq(Checkpoints) /\ n \in Nat /\ DOMAIN rows = 1 .. n
  BY DEF Images
<1>2. rows # <<>> /\ external = Append(rows[n].prev, rows[n].body)
  BY DEF verifyCheckpointChain, LatestDigest, checkpointDigest
<1>3. n \in DOMAIN rows
  BY <1>1, <1>2
<1>4. rows[n].prev \in Seq(CheckpointBodies) /\ rows[n].body \in CheckpointBodies
  BY <1>1, <1>3, SeqFacts, RowType
<1>5. Len(rows[n].prev) = n - 1 /\ \A j \in 1 .. n - 1 : rows[n].prev[j] = rows[j].body
  BY <1>3, VerifiedChain DEF verifyCheckpointChain
<1> HIDE DEF rows, n
<1>6. /\ external \in Seq(CheckpointBodies) /\ DOMAIN external = 1 .. n /\ external[n] = rows[n].body
      /\ \A j \in 1 .. n - 1 : external[j] = rows[n].prev[j]
  <2>1. \A s \in Seq(CheckpointBodies), b \in CheckpointBodies : Len(s) = n - 1 =>
          /\ Append(s, b) \in Seq(CheckpointBodies) /\ DOMAIN Append(s, b) = 1 .. n /\ Append(s, b)[n] = b
          /\ \A j \in 1 .. n - 1 : Append(s, b)[j] = s[j]
    BY <1>1, SeqFacts
  <2> QED BY <1>2, <1>4, <1>5, <2>1
<1>7. ASSUME NEW k \in 1 .. n PROVE external[k] = rows[k].body
  <2>1. k = n \/ k \in 1 .. n - 1
    BY <1>1
  <2> QED BY <1>5, <1>6, <2>1
<1> QED BY <1>1, <1>6, <1>7 DEF rows, n

-----------------------------------------------------------------------------

LEMMA ImageType ==
    ASSUME NEW image \in Images
    PROVE  /\ image.events \in Seq(Contents) /\ image.checkpoints \in Seq(Checkpoints)
           /\ Len(image.events) \in Nat /\ Len(image.checkpoints) \in Nat
           /\ DOMAIN image.checkpoints = 1 .. Len(image.checkpoints)
           /\ \A i \in DOMAIN image.checkpoints : image.checkpoints[i] \in Checkpoints
           /\ image.checkpoints # <<>> => Len(image.checkpoints) \in DOMAIN image.checkpoints
<1>1. image.events \in Seq(Contents) /\ image.checkpoints \in Seq(Checkpoints)
  BY DEF Images
<1>2. image.checkpoints # <<>> => Len(image.checkpoints) \in DOMAIN image.checkpoints
  BY <1>1
<1> QED BY <1>1, <1>2, SeqFacts

LEMMA DigestType ==
    /\ \A r \in Checkpoints : checkpointDigest(r) \in Seq(CheckpointBodies)
    /\ \A image \in Images : image.checkpoints # <<>> => LatestDigest(image) \in Seq(CheckpointBodies)
<1>1. \A r \in Checkpoints : checkpointDigest(r) \in Seq(CheckpointBodies)
  BY RowType, SeqFacts DEF checkpointDigest
<1> QED BY <1>1, ImageType DEF LatestDigest

(* Appending an event or a row to a database, and the row that is appended.  *)
LEMMA ImageGrows ==
    ASSUME NEW image \in Images
    PROVE  /\ \A e \in Contents : [image EXCEPT !.events = Append(@, e)] \in Images
           /\ \A r \in Checkpoints : [image EXCEPT !.checkpoints = Append(@, r)] \in Images
           /\ \A id \in RequestIds : NewCheckpoint(image, id) \in Checkpoints
<1>1. image.events \in Seq(Contents) /\ image.checkpoints \in Seq(Checkpoints)
  BY ImageType
<1>2. \A e \in Contents : [image EXCEPT !.events = Append(@, e)] \in Images
  <2>1. \A e \in Contents : Append(image.events, e) \in Seq(Contents)
    BY <1>1, SeqFacts
  <2> QED BY <2>1 DEF Images
<1>3. \A r \in Checkpoints : [image EXCEPT !.checkpoints = Append(@, r)] \in Images
  <2>1. \A r \in Checkpoints : Append(image.checkpoints, r) \in Seq(Checkpoints)
    BY <1>1, SeqFacts
  <2> QED BY <2>1 DEF Images
<1>4. ASSUME NEW id \in RequestIds PROVE NewCheckpoint(image, id) \in Checkpoints
  <2>1. chainHead(image).count \in Nat /\ chainHead(image).hash \in Seq(Contents)
    BY ImageType DEF chainHead
  <2>2. [id |-> id, count |-> chainHead(image).count, head |-> chainHead(image).hash,
         signed |-> TRUE] \in CheckpointBodies
    BY <2>1 DEF CheckpointBodies
  <2>3. (IF image.checkpoints = <<>> THEN CHECKPOINT_GENESIS ELSE LatestDigest(image)) \in Seq(CheckpointBodies)
    BY DigestType DEF CHECKPOINT_GENESIS
  <2> QED BY <2>2, <2>3 DEF NewCheckpoint, Checkpoints
<1> QED BY <1>2, <1>3, <1>4

CreateType == [step : {"save", "digest", "verify", "record"}, record : Checkpoints]

(* A row that was lost leaves a sequence of rows, and a damaged one a row.   *)
LEMMA DamageType ==
    ASSUME NEW image \in Images, NEW i \in DOMAIN image.checkpoints
    PROVE  /\ [image EXCEPT !.checkpoints =
                 [j \in 1 .. Len(@) - 1 |-> IF j < i THEN @[j] ELSE @[j + 1]]] \in Images
           /\ [image EXCEPT !.checkpoints[i].body.signed = FALSE] \in Images
<1> DEFINE rows == image.checkpoints
<1>1. /\ rows \in Seq(Checkpoints) /\ Len(rows) \in Nat /\ DOMAIN rows = 1 .. Len(rows)
      /\ \A j \in DOMAIN rows : rows[j] \in Checkpoints
      /\ i \in 1 .. Len(rows)
  BY ImageType
<1>2. [j \in 1 .. Len(rows) - 1 |-> IF j < i THEN rows[j] ELSE rows[j + 1]] \in Seq(Checkpoints)
  <2>1. \A j \in 1 .. Len(rows) - 1 : j \in DOMAIN rows /\ j + 1 \in DOMAIN rows
    BY <1>1
  <2>2. Len(rows) - 1 \in Nat
    BY <1>1
  <2> HIDE DEF rows
  <2>3. [j \in 1 .. Len(rows) - 1 |-> IF j < i THEN rows[j] ELSE rows[j + 1]]
           \in [1 .. Len(rows) - 1 -> Checkpoints]
    BY <1>1, <2>1
  <2> QED BY <2>2, <2>3
<1>3. [rows EXCEPT ![i].body.signed = FALSE] \in Seq(Checkpoints)
  <2>1. [rows[i] EXCEPT !.body.signed = FALSE] \in Checkpoints
    <3>1. \A b \in CheckpointBodies : [b EXCEPT !.signed = FALSE] \in CheckpointBodies
      BY DEF CheckpointBodies
    <3> QED BY <1>1, <3>1 DEF Checkpoints
  <2> HIDE DEF rows
  <2>2. [rows EXCEPT ![i].body.signed = FALSE] \in [1 .. Len(rows) -> Checkpoints]
    BY <1>1, <2>1
  <2> QED BY <1>1, <2>2
<1> QED BY <1>2, <1>3 DEF Images

LEMMA CreateFacts ==
    ASSUME CheckpointTypeOK, create.step # "idle"
    PROVE  create \in CreateType /\ create.record \in Checkpoints /\ create # NoCreate
<1>1. create \in CreateType
  BY DEF CheckpointTypeOK, NoCreate, CreateType
<1> QED BY <1>1 DEF CreateType, NoCreate

(* Every step preserves the type invariant.                                  *)
LEMMA TypePreserved ==
    ASSUME CheckpointTypeOK, [CheckpointNext]_checkpointVars
    PROVE  CheckpointTypeOK'
<1> USE DEF CheckpointTypeOK
<1>1. CASE Start
  BY <1>1 DEF Start
<1>2. ASSUME NEW e \in Events, Mutate(e) PROVE CheckpointTypeOK'
  <2>1. db' \in Images
    BY <1>2, ImageGrows DEF Mutate, AppendTo, Contents
  <2> QED BY <1>2, <2>1 DEF Mutate
<1>3. ASSUME NEW id \in RequestIds, BeginCheckpoint(id) PROVE CheckpointTypeOK'
  <2>1. create' \in CreateType
    <3>1. CASE /\ id \in CheckpointIds(db)
               /\ LET i == CHOOSE i \in DOMAIN db.checkpoints : db.checkpoints[i].body.id = id
                  IN create' = [step |-> "record", record |-> db.checkpoints[i]]
      <4> DEFINE i == CHOOSE i \in DOMAIN db.checkpoints : db.checkpoints[i].body.id = id
      <4>1. i \in DOMAIN db.checkpoints
        BY <3>1 DEF CheckpointIds
      <4>2. db.checkpoints[i] \in Checkpoints
        BY <4>1, ImageType
      <4> QED BY <3>1, <4>2 DEF CreateType
    <3>2. CASE create' = [step |-> "save", record |-> NewCheckpoint(db, id)]
      BY <3>2, ImageGrows DEF CreateType
    <3> QED BY <1>3, <3>1, <3>2 DEF BeginCheckpoint
  <2> QED BY <1>3, <2>1 DEF BeginCheckpoint, CreateType
<1>4. CASE SaveCheckpoint
  <2>1. create \in CreateType /\ create.record \in Checkpoints
    BY <1>4, CreateFacts DEF SaveCheckpoint
  <2>2. create' \in CreateType
    BY <1>4, <2>1 DEF SaveCheckpoint, CreateType
  <2>3. db' \in Images
    BY <1>4, <2>1, ImageGrows DEF SaveCheckpoint
  <2> QED BY <1>4, <2>2, <2>3 DEF SaveCheckpoint, CreateType
<1>5. CASE SetDigest
  <2>1. create \in CreateType /\ create.record \in Checkpoints
    BY <1>5, CreateFacts DEF SetDigest
  <2>2. create' \in CreateType
    BY <1>5, <2>1 DEF SetDigest, CreateType
  <2>3. digest' \in Seq(CheckpointBodies)
    BY <1>5, <2>1, DigestType DEF SetDigest
  <2> QED BY <1>5, <2>2, <2>3 DEF SetDigest, CreateType
<1>6. CASE SetDigestFails
  BY <1>6, CheckpointAssumption DEF SetDigestFails
<1>7. CASE VerifyCreated
  <2>1. create \in CreateType
    BY <1>7, CreateFacts DEF VerifyCreated
  <2>2. create' \in CreateType \cup {NoCreate}
    BY <1>7, <2>1 DEF VerifyCreated, CreateType
  <2> QED BY <1>7, <2>2 DEF VerifyCreated, CreateType
<1>8. CASE RecordCheckpoint
  <2>1. create.record \in Checkpoints
    BY <1>8, CreateFacts DEF RecordCheckpoint
  <2>2. create.record.body \in CheckpointBodies /\ create.record.body.id \in Contents
    BY <2>1 DEF Checkpoints, CheckpointBodies, Contents
  <2>3. db' \in Images
    BY <1>8, <2>2, ImageGrows DEF RecordCheckpoint, AppendTo
  <2> QED BY <1>8, <2>2, <2>3 DEF RecordCheckpoint
<1>9. CASE Stop
  BY <1>9 DEF Stop
<1>10. CASE Crash
  <2>1. torn' \in BOOLEAN
    BY <1>10, Zenon DEF Crash
  <2>2. faults' \in 0 .. MaxFaults
    BY <1>10, CheckpointAssumption DEF Crash
  <2>3. UNCHANGED <<db, digest, answered, images, tampering>> /\ running' = FALSE /\ create' = NoCreate
    BY <1>10 DEF Crash
  <2> QED BY <2>1, <2>2, <2>3
<1>11. ASSUME NEW image \in images, ReplaceDatabase(image) PROVE CheckpointTypeOK'
  BY <1>11, CheckpointAssumption DEF ReplaceDatabase
<1>12. ASSUME NEW i \in DOMAIN db.checkpoints, DamageCheckpoint(i) PROVE CheckpointTypeOK'
  <2>1. db' \in Images
    BY <1>12, DamageType DEF DamageCheckpoint
  <2> QED BY <1>12, <2>1, CheckpointAssumption DEF DamageCheckpoint
<1>13. CASE UNCHANGED checkpointVars
  BY <1>13 DEF checkpointVars
<1> QED
  BY <1>1, <1>2, <1>3, <1>4, <1>5, <1>6, <1>7, <1>8, <1>9, <1>10, <1>11, <1>12, <1>13
  DEF CheckpointNext

-----------------------------------------------------------------------------

(* An event extends the history every row was signed over.                   *)
LEMMA EventKeepsRooted ==
    ASSUME NEW image \in Images, Rooted(image), NEW e \in Contents
    PROVE  Rooted([image EXCEPT !.events = Append(@, e)])
<1> DEFINE next == [image EXCEPT !.events = Append(@, e)]
<1>1. /\ next.checkpoints = image.checkpoints /\ next.events = Append(image.events, e)
      /\ image.events \in Seq(Contents)
  BY DEF Images
<1>2. ASSUME NEW i \in DOMAIN image.checkpoints
      PROVE  /\ image.checkpoints[i].body.count <= Len(next.events)
             /\ SubSeq(next.events, 1, image.checkpoints[i].body.count)
                  = SubSeq(image.events, 1, image.checkpoints[i].body.count)
  <2>1. image.checkpoints[i].body.count \in Nat
    BY ImageType, RowType DEF CheckpointBodies
  <2>2. image.checkpoints[i].body.count <= Len(image.events)
    BY DEF Rooted
  <2> DEFINE n == image.checkpoints[i].body.count
             s == image.events
  <2>3. n \in Nat /\ n <= Len(s) /\ s \in Seq(Contents)
    BY <1>1, <2>1, <2>2
  <2> HIDE DEF n, s
  <2>4. n <= Len(Append(s, e)) /\ SubSeq(Append(s, e), 1, n) = SubSeq(s, 1, n)
    BY <2>3
  <2> QED BY <1>1, <2>4 DEF n, s
<1> HIDE DEF next
<1>3. Rooted(next)
  BY <1>1, <1>2 DEF Rooted
<1> QED BY <1>3 DEF next

(* A row signed over the present history is rooted in it.                    *)
LEMMA RowKeepsRooted ==
    ASSUME NEW image \in Images, Rooted(image), NEW id \in RequestIds
    PROVE  Rooted([image EXCEPT !.checkpoints = Append(@, NewCheckpoint(image, id))])
<1> DEFINE row == NewCheckpoint(image, id)
           next == [image EXCEPT !.checkpoints = Append(@, row)]
           n == Len(image.checkpoints)
<1>1. row \in Checkpoints /\ image.checkpoints \in Seq(Checkpoints)
  BY ImageGrows, ImageType
<1>2. next.checkpoints = Append(image.checkpoints, row) /\ next.events = image.events
  BY DEF Images
<1>3. row.body.count = Len(image.events) /\ row.body.head = image.events
  BY DEF NewCheckpoint, chainHead
<1>4. SubSeq(image.events, 1, Len(image.events)) = image.events /\ Len(image.events) \in Nat
  BY ImageType
<1> HIDE DEF row, next
<1>5. /\ DOMAIN next.checkpoints = 1 .. n + 1 /\ next.checkpoints[n + 1] = row /\ n \in Nat
      /\ \A i \in 1 .. n : i \in DOMAIN image.checkpoints
                           /\ next.checkpoints[i] = image.checkpoints[i]
  BY <1>1, <1>2, SeqFacts
<1> HIDE DEF n
<1>6. ASSUME NEW i \in 1 .. n + 1
      PROVE  /\ next.checkpoints[i].body.count <= Len(next.events)
             /\ SubSeq(next.events, 1, next.checkpoints[i].body.count) = next.checkpoints[i].body.head
  <2>1. i = n + 1 \/ i \in 1 .. n
    BY <1>5
  <2> QED BY <1>2, <1>3, <1>4, <1>5, <2>1 DEF Rooted
<1>7. Rooted(next)
  BY <1>5, <1>6 DEF Rooted
<1> QED BY <1>7 DEF next, row

(* Losing or damaging a row leaves the others as they were signed.           *)
LEMMA DamageKeepsRooted ==
    ASSUME NEW image \in Images, Rooted(image), NEW i \in DOMAIN image.checkpoints
    PROVE  /\ Rooted([image EXCEPT !.checkpoints =
                 [j \in 1 .. Len(@) - 1 |-> IF j < i THEN @[j] ELSE @[j + 1]]])
           /\ Rooted([image EXCEPT !.checkpoints[i].body.signed = FALSE])
<1> DEFINE rows == image.checkpoints
           lost == [j \in 1 .. Len(rows) - 1 |-> IF j < i THEN rows[j] ELSE rows[j + 1]]
           hurt == [rows EXCEPT ![i].body.signed = FALSE]
           a == [image EXCEPT !.checkpoints = lost]
           b == [image EXCEPT !.checkpoints = hurt]
<1>1. /\ rows \in Seq(Checkpoints) /\ Len(rows) \in Nat /\ DOMAIN rows = 1 .. Len(rows)
      /\ \A j \in DOMAIN rows : rows[j] \in Checkpoints
      /\ i \in 1 .. Len(rows)
  BY ImageType
<1>2. /\ a.checkpoints = lost /\ a.events = image.events
      /\ b.checkpoints = hurt /\ b.events = image.events
  BY DEF Images
<1>3. ASSUME NEW j \in DOMAIN lost PROVE \E k \in DOMAIN rows : lost[j] = rows[k]
  <2>1. j \in 1 .. Len(rows) - 1
    OBVIOUS
  <2>2. j \in DOMAIN rows /\ j + 1 \in DOMAIN rows
    BY <1>1, <2>1
  <2> QED BY <2>1, <2>2
<1>4. ASSUME NEW j \in DOMAIN hurt
      PROVE  /\ hurt[j].body.count = rows[j].body.count /\ hurt[j].body.head = rows[j].body.head
             /\ j \in DOMAIN rows
  <2>1. \A r \in Checkpoints : /\ [r EXCEPT !.body.signed = FALSE].body.count = r.body.count
                               /\ [r EXCEPT !.body.signed = FALSE].body.head = r.body.head
    BY DEF Checkpoints, CheckpointBodies
  <2> QED BY <1>1, <2>1
<1> HIDE DEF lost, hurt, a, b
<1>5. Rooted(a)
  BY <1>2, <1>3 DEF Rooted
<1>6. Rooted(b)
  BY <1>2, <1>4 DEF Rooted
<1> QED BY <1>5, <1>6 DEF a, b, lost, hurt

-----------------------------------------------------------------------------

(* An event does not undo the verification of the rows: it moves the head of *)
(* the chain beyond the latest of them.                                      *)
LEMMA EventKeepsVerified ==
    ASSUME NEW image \in Images, NEW external, NEW e \in Contents,
           verifyCheckpointChain(image, external)
    PROVE  verifyCheckpointChain([image EXCEPT !.events = Append(@, e)], external)
<1> DEFINE next == [image EXCEPT !.events = Append(@, e)]
           n == Len(image.checkpoints)
           latest == image.checkpoints[n].body
<1>1. next.checkpoints = image.checkpoints /\ next.events = Append(image.events, e)
  BY DEF Images
<1>2. Len(image.events) \in Nat /\ Len(next.events) = Len(image.events) + 1
  BY <1>1, ImageType, SeqFacts
<1>3. image.checkpoints # <<>> => latest.count \in Nat /\ latest.count <= Len(image.events)
  <2>1. image.checkpoints # <<>> => latest \in CheckpointBodies
    BY ImageType, RowType
  <2>2. image.checkpoints # <<>> => latest.count <= chainHead(image).count
    BY DEF verifyCheckpointChain, verifyCheckpointRecords, Compatible
  <2> QED BY <2>1, <2>2 DEF CheckpointBodies, chainHead
<1> HIDE DEF next
<1>4. Compatible(next)
  BY <1>1, <1>2, <1>3 DEF Compatible, chainHead
<1>5. LatestDigest(next) = LatestDigest(image)
  BY <1>1 DEF LatestDigest
<1>6. verifyCheckpointChain(next, external)
  BY <1>1, <1>4, <1>5 DEF verifyCheckpointChain, verifyCheckpointRecords
<1> QED BY <1>6 DEF next

(* The checkpoint createSignedCheckpoint builds continues the chain.         *)
LEMMA RowKeepsVerified ==
    ASSUME NEW image \in Images, NEW external, NEW id \in RequestIds,
           verifyCheckpointChain(image, external)
    PROVE  LET row == NewCheckpoint(image, id)
               next == [image EXCEPT !.checkpoints = Append(@, row)]
           IN  /\ verifyCheckpointRecords(next)
               /\ next.checkpoints # <<>> /\ next.checkpoints[Len(next.checkpoints)] = row
               /\ row.prev = IF external = NoDigest THEN <<>> ELSE external
<1> DEFINE row == NewCheckpoint(image, id)
           next == [image EXCEPT !.checkpoints = Append(@, row)]
           rows == image.checkpoints
           n == Len(rows)
           more == Append(rows, row)
<1>1. row \in Checkpoints /\ rows \in Seq(Checkpoints)
  BY ImageGrows, ImageType
<1>2. next.checkpoints = more /\ next.events = image.events
  BY DEF Images
<1>3. row.body.signed = TRUE /\ row.body.count = Len(image.events) /\ row.body.head = image.events
  BY DEF NewCheckpoint, chainHead
<1>4. row.prev = IF rows = <<>> THEN <<>> ELSE checkpointDigest(rows[n])
  BY DEF NewCheckpoint, LatestDigest, CHECKPOINT_GENESIS
<1>5. external = LatestDigest(image) /\ Len(image.events) \in Nat
  BY ImageType DEF verifyCheckpointChain
<1>6. row.prev = IF external = NoDigest THEN <<>> ELSE external
  <2>1. rows # <<>> => external \in Seq(CheckpointBodies)
    BY <1>5, DigestType
  <2> QED BY <1>4, <1>5, <2>1, NoDigestAssumption DEF LatestDigest
<1>7. \A i \in DOMAIN rows :
        /\ rows[i].prev = IF i = 1 THEN CHECKPOINT_GENESIS ELSE checkpointDigest(rows[i - 1])
        /\ i > 1 => rows[i].body.count >= rows[i - 1].body.count
        /\ rows[i].body.signed
  BY DEF verifyCheckpointChain, verifyCheckpointRecords
<1>8. rows # <<>> => n >= 1 /\ rows[n].body.count <= Len(image.events)
  BY ImageType DEF verifyCheckpointChain, verifyCheckpointRecords, Compatible, chainHead
<1>9. rows = <<>> <=> n = 0
  BY <1>1
<1> HIDE DEF row, next, rows
<1>10. /\ Len(more) = n + 1 /\ DOMAIN more = 1 .. n + 1 /\ more[n + 1] = row /\ n \in Nat
       /\ DOMAIN rows = 1 .. n /\ \A i \in 1 .. n : more[i] = rows[i]
  BY <1>1, SeqFacts
<1> HIDE DEF more, n
<1>11. ASSUME NEW i \in 1 .. n + 1
       PROVE  /\ more[i].prev = IF i = 1 THEN CHECKPOINT_GENESIS ELSE checkpointDigest(more[i - 1])
              /\ i > 1 => more[i].body.count >= more[i - 1].body.count
              /\ more[i].body.signed
  <2>1. CASE i \in 1 .. n
    <3>1. i # 1 => i - 1 \in 1 .. n
      BY <1>10, <2>1
    <3> QED BY <1>7, <1>10, <2>1, <3>1
  <2>2. CASE i = n + 1 /\ n = 0
    BY <1>3, <1>4, <1>9, <1>10, <2>2 DEF CHECKPOINT_GENESIS
  <2>3. CASE i = n + 1 /\ n # 0
    <3>1. n \in 1 .. n /\ i - 1 = n /\ i # 1
      BY <1>10, <2>3
    <3>2. rows[n].body.count \in Nat
      BY <1>1, <1>10, <3>1, SeqFacts, RowType DEF CheckpointBodies
    <3>3. row.body.count >= rows[n].body.count
      BY <1>3, <1>5, <1>8, <1>9, <2>3, <3>2
    <3> QED BY <1>3, <1>4, <1>9, <1>10, <2>3, <3>1, <3>3
  <2> QED BY <1>10, <2>1, <2>2, <2>3
<1>12. Compatible(next)
  BY <1>2, <1>3, <1>5, <1>10 DEF Compatible, chainHead
<1>13. verifyCheckpointRecords(next)
  BY <1>2, <1>10, <1>11, <1>12 DEF verifyCheckpointRecords
<1>14. more # <<>>
  BY <1>10
<1> QED BY <1>2, <1>6, <1>10, <1>13, <1>14 DEF next, row

(* A database that verifies against the retained digest holds every          *)
(* checkpoint that was acknowledged, over the history it was signed for.     *)
LEMMA VerifiedCovers ==
    ASSUME CheckpointTypeOK, AllRooted, AckedRetained
    PROVE  VerifiedHoldsAcked
<1> SUFFICES ASSUME verifyCheckpointChain(db, digest), NEW body \in answered PROVE Covers(db, body)
  BY DEF VerifiedHoldsAcked
<1>1. PICK k \in DOMAIN digest : digest[k] = body /\ digest # NoDigest
  BY DEF AckedRetained
<1>2. k \in DOMAIN db.checkpoints /\ db.checkpoints[k].body = body
  BY <1>1, VerifiedDigest DEF CheckpointTypeOK
<1> QED BY <1>2 DEF AllRooted, Rooted, Covers

-----------------------------------------------------------------------------

LEMMA RootedPreserved ==
    ASSUME CheckpointTypeOK, AllRooted, CreateSound, [CheckpointNext]_checkpointVars
    PROVE  AllRooted'
<1>1. CASE Start \/ SetDigest \/ SetDigestFails \/ VerifyCreated \/ Stop \/ Crash \/ UNCHANGED checkpointVars
  BY <1>1 DEF Start, SetDigest, SetDigestFails, VerifyCreated, Stop, Crash, checkpointVars, AllRooted
<1>2. ASSUME NEW id \in RequestIds, BeginCheckpoint(id) PROVE AllRooted'
  BY <1>2 DEF BeginCheckpoint, AllRooted
<1>3. ASSUME Rooted(db'), images' = images \cup {db'} PROVE AllRooted'
  BY <1>3 DEF AllRooted
<1>4. ASSUME NEW e \in Contents, AppendTo(e), images' = images \cup {db'} PROVE AllRooted'
  <2>1. Rooted(db')
    BY <1>4, EventKeepsRooted DEF AppendTo, AllRooted, CheckpointTypeOK
  <2> QED BY <1>3, <1>4, <2>1
<1>5. ASSUME NEW e \in Events, Mutate(e) PROVE AllRooted'
  BY <1>4, <1>5 DEF Mutate, Contents
<1>6. CASE RecordCheckpoint
  <2>1. create.record \in Checkpoints
    BY <1>6, CreateFacts DEF RecordCheckpoint
  <2>2. create.record.body.id \in Contents
    BY <2>1 DEF Checkpoints, CheckpointBodies, Contents
  <2> QED BY <1>4, <1>6, <2>2 DEF RecordCheckpoint
<1>7. CASE SaveCheckpoint
  <2>1. PICK id \in RequestIds : create.record = NewCheckpoint(db, id)
    BY <1>7 DEF SaveCheckpoint, CreateSound
  <2>2. Rooted(db')
    BY <1>7, <2>1, RowKeepsRooted DEF SaveCheckpoint, AllRooted, CheckpointTypeOK
  <2> QED BY <1>3, <1>7, <2>2 DEF SaveCheckpoint
<1>8. ASSUME NEW image \in images, ReplaceDatabase(image) PROVE AllRooted'
  BY <1>8 DEF ReplaceDatabase, AllRooted
<1>9. ASSUME NEW i \in DOMAIN db.checkpoints, DamageCheckpoint(i) PROVE AllRooted'
  <2>1. Rooted(db')
    BY <1>9, DamageKeepsRooted DEF DamageCheckpoint, AllRooted, CheckpointTypeOK
  <2> QED BY <1>9, <2>1 DEF DamageCheckpoint, AllRooted
<1> QED BY <1>1, <1>2, <1>5, <1>6, <1>7, <1>8, <1>9 DEF CheckpointNext

(* Nobody else writes while a checkpoint is being created, and the digest    *)
(* that is retained names everything that was acknowledged.                  *)
LEMMA CreatePreserved ==
    ASSUME Inv, [CheckpointNext]_checkpointVars
    PROVE  Stopped' /\ CreateSound' /\ AckedRetained'
<1> USE DEF Inv
<1>1. CASE Start \/ Stop \/ SetDigestFails \/ Crash \/ UNCHANGED checkpointVars
  BY <1>1 DEF Start, Stop, SetDigestFails, Crash, checkpointVars, NoCreate, Stopped, CreateSound, AckedRetained
<1>2. ASSUME NEW e \in Events, Mutate(e) PROVE Stopped' /\ CreateSound' /\ AckedRetained'
  BY <1>2 DEF Mutate, NoCreate, Stopped, CreateSound, AckedRetained
<1>3. ASSUME NEW id \in RequestIds, BeginCheckpoint(id)
      PROVE  Stopped' /\ CreateSound' /\ AckedRetained'
  <2>1. AckedRetained' /\ Stopped' /\ db' = db /\ digest' = digest /\ verifyCheckpointChain(db, digest)
    BY <1>3 DEF BeginCheckpoint, AckedRetained, Stopped
  <2>2. \/ create'.step = "save" /\ create'.record = NewCheckpoint(db, id)
        \/ create'.step = "record" /\ \E i \in DOMAIN db.checkpoints : create'.record = db.checkpoints[i]
    BY <1>3 DEF BeginCheckpoint, CheckpointIds
  <2>3. CreateSound'
    BY <2>1, <2>2 DEF CreateSound
  <2> QED BY <2>1, <2>3
<1>4. CASE SaveCheckpoint
  <2>1. create \in CreateType
    BY <1>4, CreateFacts DEF SaveCheckpoint
  <2>2. create'.step = "digest" /\ create'.record = create.record
    BY <1>4, <2>1 DEF SaveCheckpoint, CreateType
  <2>3. PICK id \in RequestIds : create.record = NewCheckpoint(db, id)
    BY <1>4 DEF SaveCheckpoint, CreateSound
  <2>4. verifyCheckpointChain(db, digest)
    BY <1>4 DEF SaveCheckpoint, CreateSound
  <2>5. /\ verifyCheckpointRecords(db') /\ db'.checkpoints # <<>>
        /\ db'.checkpoints[Len(db'.checkpoints)] = create.record
        /\ create.record.prev = IF digest = NoDigest THEN <<>> ELSE digest
    <3> DEFINE next == [db EXCEPT !.checkpoints = Append(@, NewCheckpoint(db, id))]
    <3>1. db \in Images
      BY DEF CheckpointTypeOK
    <3>2. /\ verifyCheckpointRecords(next) /\ next.checkpoints # <<>>
          /\ next.checkpoints[Len(next.checkpoints)] = NewCheckpoint(db, id)
          /\ NewCheckpoint(db, id).prev = IF digest = NoDigest THEN <<>> ELSE digest
      BY <2>4, <3>1, RowKeepsVerified
    <3>3. db' = next
      BY <1>4, <2>3 DEF SaveCheckpoint
    <3> QED BY <2>3, <3>2, <3>3
  <2>6. CreateSound'
    BY <1>4, <2>2, <2>5 DEF SaveCheckpoint, CreateSound
  <2> QED BY <1>4, <2>6 DEF SaveCheckpoint, Stopped, AckedRetained
<1>5. CASE SetDigest
  <2>1. create \in CreateType /\ create.record \in Checkpoints
    BY <1>5, CreateFacts DEF SetDigest
  <2>2. create'.step = "verify" /\ create'.record = create.record
    BY <1>5, <2>1 DEF SetDigest, CreateType
  <2>3. /\ verifyCheckpointRecords(db) /\ db.checkpoints # <<>>
        /\ create.record = db.checkpoints[Len(db.checkpoints)]
        /\ create.record.prev = IF digest = NoDigest THEN <<>> ELSE digest
    BY <1>5 DEF SetDigest, CreateSound
  <2>4. digest' = checkpointDigest(create.record) /\ db' = db /\ answered' = answered /\ running' = running
    BY <1>5 DEF SetDigest
  <2>5. digest' = LatestDigest(db)
    BY <2>3, <2>4 DEF LatestDigest
  <2>6. Len(db.checkpoints) \in DOMAIN db.checkpoints
    BY <2>3, ImageType DEF CheckpointTypeOK
  <2>7. CreateSound'
    BY <2>2, <2>3, <2>4, <2>5, <2>6 DEF CreateSound, verifyCheckpointChain
  <2>8. AckedRetained'
    <3>1. digest' \in Seq(CheckpointBodies) /\ digest' # NoDigest
      BY <2>1, <2>4, DigestType, NoDigestAssumption
    <3>2. ASSUME NEW body \in answered PROVE \E k \in DOMAIN digest' : digest'[k] = body
      <4>1. PICK k \in DOMAIN digest : digest[k] = body /\ digest # NoDigest
        BY DEF AckedRetained
      <4>2. digest \in Seq(CheckpointBodies) /\ create.record.body \in CheckpointBodies
        BY <2>1, <4>1, RowType DEF CheckpointTypeOK
      <4>3. digest' = Append(digest, create.record.body)
        BY <2>3, <2>4, <4>1 DEF checkpointDigest
      <4>4. k \in DOMAIN digest' /\ digest'[k] = digest[k]
        BY <4>1, <4>2, <4>3, SeqFacts
      <4> QED BY <4>1, <4>4
    <3> QED BY <2>4, <3>1, <3>2 DEF AckedRetained
  <2> QED BY <1>5, <2>7, <2>8 DEF SetDigest, Stopped
<1>6. CASE VerifyCreated
  <2>1. create \in CreateType
    BY <1>6, CreateFacts DEF VerifyCreated
  <2>2. create' = NoCreate \/ (create'.step = "record" /\ create'.record = create.record)
    BY <1>6, <2>1 DEF VerifyCreated, CreateType
  <2>3. CreateSound'
    BY <1>6, <2>2 DEF VerifyCreated, CreateSound, NoCreate
  <2> QED BY <1>6, <2>3 DEF VerifyCreated, Stopped, AckedRetained
<1>7. CASE RecordCheckpoint
  <2>1. PICK i \in DOMAIN db.checkpoints : create.record = db.checkpoints[i]
    BY <1>7 DEF RecordCheckpoint, CreateSound
  <2>2. verifyCheckpointChain(db, digest)
    BY <1>7 DEF RecordCheckpoint, CreateSound
  <2>3. digest # NoDigest
    <3>1. db.checkpoints # <<>>
      BY <2>1
    <3>2. LatestDigest(db) \in Seq(CheckpointBodies)
      BY <3>1, DigestType DEF CheckpointTypeOK
    <3> QED BY <2>2, <3>2, NoDigestAssumption DEF verifyCheckpointChain
  <2>4. i \in DOMAIN digest /\ digest[i] = create.record.body
    BY <2>1, <2>2, <2>3, VerifiedDigest DEF CheckpointTypeOK
  <2>5. AckedRetained'
    BY <1>7, <2>3, <2>4 DEF RecordCheckpoint, AckedRetained
  <2> QED BY <1>7, <2>5 DEF RecordCheckpoint, Stopped, CreateSound, NoCreate
<1>8. ASSUME NEW image \in images, ReplaceDatabase(image)
      PROVE  Stopped' /\ CreateSound' /\ AckedRetained'
  BY <1>8 DEF ReplaceDatabase, NoCreate, Stopped, CreateSound, AckedRetained
<1>9. ASSUME NEW i \in DOMAIN db.checkpoints, DamageCheckpoint(i)
      PROVE  Stopped' /\ CreateSound' /\ AckedRetained'
  BY <1>9 DEF DamageCheckpoint, NoCreate, Stopped, CreateSound, AckedRetained
<1> QED BY <1>1, <1>2, <1>3, <1>4, <1>5, <1>6, <1>7, <1>8, <1>9 DEF CheckpointNext

(* Without tampering and torn creations, every state between requests        *)
(* verifies: events and rows are only added to a database that does.         *)
LEMMA UsePreserved ==
    ASSUME Inv, [CheckpointNext]_checkpointVars, CreateSound'
    PROVE  NeverLocksItselfOut'
<1> USE DEF Inv
<1> SUFFICES ASSUME tampering' = 0, ~torn', create'.step = "idle"
             PROVE  verifyCheckpointChain(db, digest)'
  BY DEF NeverLocksItselfOut, CreateSound
<1>1. /\ tampering = 0 /\ ~torn
      /\ ~\E image \in images : ReplaceDatabase(image)
      /\ ~\E i \in DOMAIN db.checkpoints : DamageCheckpoint(i)
  <2>1. tampering \in Nat
    BY CheckpointAssumption DEF CheckpointTypeOK
  <2>2. tampering' # tampering + 1
    BY <2>1
  <2>3. ~\E image \in images : ReplaceDatabase(image)
    BY <2>2 DEF ReplaceDatabase
  <2>4. ~\E i \in DOMAIN db.checkpoints : DamageCheckpoint(i)
    BY <2>2 DEF DamageCheckpoint
  <2>5. tampering' = tampering /\ (Crash \/ torn' = torn \/ torn' = TRUE)
    BY <2>3, <2>4 DEF CheckpointNext, Start, Mutate, BeginCheckpoint, SaveCheckpoint, SetDigest,
         SetDigestFails, VerifyCreated, RecordCheckpoint, Stop, Crash, checkpointVars
  <2>6. Crash => (torn => torn')
    BY Zenon DEF Crash
  <2>7. tampering = 0
    BY <2>5
  <2>8. ~torn
    BY <2>5, <2>6, Zenon
  <2> QED BY <2>3, <2>4, <2>7, <2>8
<1>2. create.step \in {"idle", "save", "verify", "record"} => verifyCheckpointChain(db, digest)
  BY <1>1 DEF NeverLocksItselfOut, CreateSound
<1>3. ASSUME NEW e \in Contents, AppendTo(e), digest' = digest, verifyCheckpointChain(db, digest)
      PROVE  verifyCheckpointChain(db, digest)'
  <2>1. verifyCheckpointChain(db', digest)
    BY <1>3, EventKeepsVerified DEF AppendTo, CheckpointTypeOK
  <2> QED BY <1>3, <2>1
<1>4. ASSUME NEW e \in Events, Mutate(e) PROVE verifyCheckpointChain(db, digest)'
  BY <1>3, <1>4 DEF Mutate, Contents
<1>5. CASE RecordCheckpoint
  <2>1. create.record \in Checkpoints
    BY <1>5, CreateFacts DEF RecordCheckpoint
  <2>2. create.record.body.id \in Contents
    BY <2>1 DEF Checkpoints, CheckpointBodies, Contents
  <2> QED BY <1>2, <1>3, <1>5, <2>2 DEF RecordCheckpoint
<1>6. CASE SaveCheckpoint
  BY <1>6, CreateFacts DEF SaveCheckpoint, CreateType
<1>7. CASE SetDigest
  BY <1>7, CreateFacts DEF SetDigest, CreateType
<1>8. ~SetDigestFails /\ ~(Crash /\ create.step = "digest")
  BY DEF SetDigestFails, Crash
<1>9. ASSUME db' = db, digest' = digest, create.step # "digest" PROVE verifyCheckpointChain(db, digest)'
  <2>1. create.step \in {"idle", "save", "verify", "record"}
    BY <1>9 DEF CheckpointTypeOK, NoCreate
  <2> QED BY <1>2, <1>9, <2>1
<1>10. CASE Start \/ Stop \/ VerifyCreated
  BY <1>9, <1>10 DEF Start, Stop, VerifyCreated, Stopped, NoCreate
<1>11. CASE Crash \/ UNCHANGED checkpointVars
  BY <1>8, <1>9, <1>11 DEF Crash, checkpointVars
<1>12. ASSUME NEW id \in RequestIds, BeginCheckpoint(id) PROVE verifyCheckpointChain(db, digest)'
  BY <1>9, <1>12 DEF BeginCheckpoint, NoCreate
<1>13. \/ Start \/ Stop \/ VerifyCreated \/ Crash \/ UNCHANGED checkpointVars
       \/ SaveCheckpoint \/ SetDigest \/ RecordCheckpoint
       \/ \E e \in Events : Mutate(e)
       \/ \E id \in RequestIds : BeginCheckpoint(id)
  BY <1>1, <1>8 DEF CheckpointNext
<1> QED BY <1>4, <1>5, <1>6, <1>7, <1>10, <1>11, <1>12, <1>13

LEMMA InvInit == CheckpointInit => Inv
<1> SUFFICES ASSUME CheckpointInit PROVE Inv
  OBVIOUS
<1> USE DEF CheckpointInit, EmptyImage, NoCreate
<1>1. EmptyImage \in Images
  BY DEF Images
<1>2. CheckpointTypeOK
  <2>1. faults \in 0 .. MaxFaults /\ tampering \in 0 .. MaxTampering
    BY CheckpointAssumption
  <2>2. /\ db \in Images /\ images \subseteq Images /\ answered \subseteq CheckpointBodies
        /\ digest \in Seq(CheckpointBodies) \cup {NoDigest} /\ running \in BOOLEAN /\ torn \in BOOLEAN
    BY <1>1
  <2> QED BY <2>1, <2>2 DEF CheckpointTypeOK
<1>3. AllRooted /\ Stopped /\ AckedRetained /\ CreateSound
  BY DEF AllRooted, Rooted, Stopped, AckedRetained, CreateSound
<1>4. NeverLocksItselfOut
  BY DEF NeverLocksItselfOut, verifyCheckpointChain, verifyCheckpointRecords, LatestDigest, Compatible
<1> QED BY <1>2, <1>3, <1>4 DEF Inv

LEMMA InvNext == Inv /\ [CheckpointNext]_checkpointVars => Inv'
<1> SUFFICES ASSUME Inv, [CheckpointNext]_checkpointVars PROVE Inv'
  OBVIOUS
<1>1. CheckpointTypeOK' /\ AllRooted'
  BY TypePreserved, RootedPreserved DEF Inv
<1>2. Stopped' /\ CreateSound' /\ AckedRetained'
  BY CreatePreserved
<1>3. NeverLocksItselfOut'
  BY <1>2, UsePreserved
<1> QED BY <1>1, <1>2, <1>3 DEF Inv

(* Rows stand on the history they signed, and the retained digest names what *)
(* was acknowledged, in every state.                                         *)
THEOREM CheckpointInvariant == CheckpointSpec => []Inv
<1> QED BY InvInit, InvNext, PTL DEF CheckpointSpec

(* Verification accepts what ordinary use leaves behind and nothing that     *)
(* lacks an acknowledged checkpoint, after tampering and faults of any       *)
(* number (verifyCheckpointChain).                                           *)
THEOREM CheckpointsAlwaysDecide == CheckpointSpec => []CheckpointsDecide
<1>1. Inv => CheckpointsDecide
  BY VerifiedCovers DEF Inv, CheckpointsDecide
<1> QED BY <1>1, CheckpointInvariant, PTL

(* Whatever replaced the database, the daemon appends only to a history that *)
(* holds every acknowledged checkpoint (the verification before a mutation,  *)
(* and the order of createSignedCheckpoint).                                 *)
THEOREM RolledBackNeverExtended == CheckpointSpec => NeverExtendsRolledBack
<1>1. ASSUME Inv, [CheckpointNext]_checkpointVars, Len(db'.events) > Len(db.events), tampering' = tampering,
             NEW body \in answered
      PROVE  Covers(db', body)
  <2>1. verifyCheckpointChain(db, digest) => Covers(db, body)
    BY <1>1, VerifiedCovers DEF Inv, VerifiedHoldsAcked
  <2>2. ASSUME NEW e \in Contents, AppendTo(e), verifyCheckpointChain(db, digest)
        PROVE  Covers(db', body)
    <3>1. db'.checkpoints = db.checkpoints
      BY <1>1, <2>2 DEF AppendTo, Inv, CheckpointTypeOK, Images
    <3>2. PICK i \in DOMAIN db.checkpoints : db.checkpoints[i].body = body
      BY <2>1, <2>2 DEF Covers
    <3>3. Rooted(db')
      BY <1>1, <2>2, EventKeepsRooted DEF AppendTo, Inv, CheckpointTypeOK, AllRooted
    <3> QED BY <3>1, <3>2, <3>3 DEF Rooted, Covers
  <2>3. ASSUME NEW e \in Events, Mutate(e) PROVE Covers(db', body)
    BY <2>2, <2>3 DEF Mutate, Contents
  <2>4. CASE RecordCheckpoint
    <3>1. create.record \in Checkpoints
      BY <1>1, <2>4, CreateFacts DEF RecordCheckpoint, Inv
    <3>2. create.record.body.id \in Contents
      BY <3>1 DEF Checkpoints, CheckpointBodies, Contents
    <3>3. verifyCheckpointChain(db, digest)
      BY <1>1, <2>4 DEF RecordCheckpoint, Inv, CreateSound
    <3> QED BY <2>2, <2>4, <3>2, <3>3 DEF RecordCheckpoint
  <2>5. db'.events # db.events
    BY <1>1 DEF Inv, CheckpointTypeOK, Images
  <2>6. ~SaveCheckpoint
    BY <1>1, <2>5 DEF SaveCheckpoint, Inv, CheckpointTypeOK, Images
  <2>7. tampering \in Nat
    BY <1>1, CheckpointAssumption DEF Inv, CheckpointTypeOK
  <2>8. ~UNCHANGED db /\ tampering' # tampering + 1
    BY <1>1, <2>5, <2>7
  <2>9. \/ \E e \in Events : Mutate(e)
        \/ RecordCheckpoint
    BY <1>1, <2>6, <2>8 DEF CheckpointNext, Start, BeginCheckpoint, SetDigest, SetDigestFails,
         VerifyCreated, Stop, Crash, ReplaceDatabase, DamageCheckpoint, checkpointVars
  <2> QED BY <2>3, <2>4, <2>9
<1>2. Inv /\ [CheckpointNext]_checkpointVars =>
        [Len(db'.events) > Len(db.events) /\ tampering' = tampering
           => \A body \in answered : Covers(db', body)]_checkpointVars
  BY <1>1
<1> QED BY <1>2, CheckpointInvariant, PTL DEF CheckpointSpec, NeverExtendsRolledBack
=============================================================================
