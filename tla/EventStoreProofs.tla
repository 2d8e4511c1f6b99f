--------------------------- MODULE EventStoreProofs ---------------------------
(***************************************************************************)
(* Proofs about the encrypted event store, for any number of callers, ids, *)
(* aggregates, events and damages.                                         *)
(*                                                                         *)
(* Neither ChainIntact nor DamageDetected is inductive: a pending append   *)
(* carries a head it read before its await.  PendingFresh says that such a *)
(* head is the current one or is already too short to match the table, and *)
(* DamageTrace keeps the reason why a damaged table cannot be read.        *)
(*                                                                         *)
(* The last part is about the opening of a store (StoreOpening): which     *)
(* layouts an opening goes through, for a store of an earlier build, for   *)
(* a new one and for one this build refuses.                               *)
(***************************************************************************)
EXTENDS EventStore, StoreOpening, SequenceTheorems, TLAPS

\* A pending append holds the current head, or one the table has outgrown.
PendingFresh ==
    \A c \in Calls :
        call[c].step = "append" =>
            \/ call[c].expected = head
            \/ call[c].expected.count < Len(events)

\* The evidence of damage: a row is missing, or a row holds garbled contents.
DamageTrace ==
    damage > 0 =>
        \/ Len(events) < head.count
        \/ \E i \in DOMAIN events : events[i].body.id = Garbled

\* The inductive invariant.
Inv ==
    /\ TypeOK
    /\ HeadIsHistory
    /\ Len(events) <= head.count
    /\ PendingFresh
    /\ DamageTrace
    /\ ChainIntact
    /\ AckedDurable

-----------------------------------------------------------------------------

(* Sequences of rows and of contents as the provers need them.               *)
LEMMA AppendFacts ==
    ASSUME NEW S, NEW s \in Seq(S), NEW e \in S
    PROVE  /\ Append(s, e) \in Seq(S)
           /\ Len(Append(s, e)) = Len(s) + 1
           /\ Append(s, e)[Len(s) + 1] = e
           /\ \A i \in 1 .. Len(s) : Append(s, e)[i] = s[i]
  OBVIOUS

(* A prefix of an extended sequence is the prefix of the sequence, and the   *)
(* whole sequence is its own longest prefix.                                 *)
LEMMA SubSeqFacts ==
    ASSUME NEW S, NEW s \in Seq(S), NEW e \in S
    PROVE  /\ SubSeq(s, 1, Len(s)) = s
           /\ SubSeq(Append(s, e), 1, Len(s) + 1) = Append(s, e)
           /\ \A n \in 0 .. Len(s) : SubSeq(Append(s, e), 1, n) = SubSeq(s, 1, n)
  OBVIOUS

(* A prefix is the next shorter prefix with one more element.                *)
LEMMA SubSeqStep ==
    ASSUME NEW S, NEW s \in Seq(S), NEW i \in 1 .. Len(s)
    PROVE  SubSeq(s, 1, i) = Append(SubSeq(s, 1, i - 1), s[i])
<1>1. SubSeq(s, 1, i) = SubSeq(s, 1, i - 1) \o <<s[i]>>
  BY SubSeqRecursiveSecond
<1>2. SubSeq(s, 1, i - 1) \in Seq(S) /\ s[i] \in S
  OBVIOUS
<1> QED BY <1>1, <1>2, AppendIsConcat

(* The fields of a row of a typed table.                                     *)
LEMMA RowFacts ==
    ASSUME events \in Seq(RowType), NEW i \in DOMAIN events
    PROVE  /\ events[i] \in RowType
           /\ events[i].body \in [id : EventIds \cup {Garbled}, agg : Aggregates]
           /\ events[i].prev \in Hashes
           /\ events[i].hash \in Hashes
<1>1. events[i] \in RowType
  OBVIOUS
<1> QED BY <1>1 DEF RowType

(* The last hash of a typed table is a hash.                                 *)
LEMMA LastHashType ==
    ASSUME events \in Seq(RowType)
    PROVE  LastHash(events) \in Hashes
<1>1. CASE events = <<>>
  BY <1>1 DEF LastHash, Hashes, GENESIS_HASH
<1>2. CASE events # <<>>
  <2>1. events[Len(events)] \in RowType
    BY <1>2
  <2> QED BY <1>2, <2>1 DEF LastHash, RowType
<1> QED BY <1>1, <1>2

(* What a pending call carries, by the step it is in.                        *)
LEMMA PendingType ==
    ASSUME TypeOK, NEW c \in Calls
    PROVE  /\ call[c].step = "append" =>
                 call[c] \in [step : {"append"}, body : Bodies,
                             expected : [count : Nat, hash : Hashes]]
           /\ call[c].step \in {"select", "upsert"} =>
                 call[c] \in [step : {"select", "upsert"}, agg : Aggregates,
                             snapshot : SnapshotType]
<1>1. call[c] \in CallType
  BY DEF TypeOK
<1>2. CASE call[c] = Idle
  BY <1>2 DEF Idle
<1>3. CASE call[c] \in [step : {"append"}, body : Bodies,
                       expected : [count : Nat, hash : Hashes]]
  BY <1>3
<1>4. CASE call[c] \in [step : {"select", "upsert"}, agg : Aggregates,
                       snapshot : SnapshotType]
  BY <1>4
<1> QED BY <1>1, <1>2, <1>3, <1>4 DEF CallType

(* Every step of the store preserves its type invariant.                     *)
LEMMA TypePreserved == TypeOK /\ [Next]_vars => TypeOK'
<1> SUFFICES ASSUME TypeOK, [Next]_vars PROVE TypeOK'
  OBVIOUS
<1> USE DEF TypeOK
<1>1. ASSUME NEW c \in Calls, NEW body \in Bodies, StartAppend(c, body) PROVE TypeOK'
  <2>1. [step |-> "append", body |-> body, expected |-> head] \in CallType
    BY DEF CallType
  <2> QED BY <1>1, <2>1 DEF StartAppend
<1>2. ASSUME NEW c \in Calls, CommitAppend(c) PROVE TypeOK'
  <2> DEFINE row == Row(LastHash(events), call[c].body)
  <2>1. call[c].body \in Bodies
    BY <1>2, PendingType DEF CommitAppend
  <2>2. LastHash(events) \in Seq(Bodies)
    BY LastHashType DEF Hashes
  <2>3. row.hash \in Seq(Bodies) /\ row.prev \in Seq(Bodies)
    BY <2>1, <2>2, AppendFacts DEF Row, computeEventHash
  <2>4. row \in RowType
    BY <2>1, <2>3 DEF Row, RowType, Hashes, Bodies
  <2>5. events' \in Seq(RowType) /\ log' \in Seq(Bodies)
    BY <1>2, <2>1, <2>4, AppendFacts DEF CommitAppend
  <2>6. head' \in [count : Nat, hash : Hashes]
    BY <1>2, <2>3 DEF CommitAppend, Hashes
  <2>7. acked' \subseteq [sequence : Nat \ {0}, row : RowType]
    BY <1>2, <2>4 DEF CommitAppend
  <2>8. call' \in [Calls -> CallType]
    BY <1>2 DEF CommitAppend, CallType
  <2> QED BY <1>2, <2>5, <2>6, <2>7, <2>8 DEF CommitAppend
<1>3. ASSUME NEW c \in Calls, RejectAppend(c) PROVE TypeOK'
  BY <1>3 DEF RejectAppend, CallType
<1>4. ASSUME NEW c \in Calls, NEW agg \in Aggregates, NEW i \in DOMAIN events,
             NEW version \in 1 .. Len(events),
             StartSnapshot(c, agg, version, events[i].hash)
      PROVE TypeOK'
  <2>1. events[i].hash \in Hashes
    BY RowFacts
  <2>2. [step |-> "select", agg |-> agg,
         snapshot |-> [version |-> version, last |-> events[i].hash]] \in CallType
    BY <2>1 DEF CallType, SnapshotType
  <2> QED BY <1>4, <2>2 DEF StartSnapshot
<1>5. ASSUME NEW c \in Calls, SelectSnapshot(c) PROVE TypeOK'
  <2>1. call[c] \in [step : {"select", "upsert"}, agg : Aggregates, snapshot : SnapshotType]
    BY <1>5, PendingType DEF SelectSnapshot
  <2>2. [call[c] EXCEPT !.step = "upsert"]
          \in [step : {"select", "upsert"}, agg : Aggregates, snapshot : SnapshotType]
    BY <2>1
  <2>3. Idle \in CallType /\ [call[c] EXCEPT !.step = "upsert"] \in CallType
    BY <2>2 DEF CallType
  <2> QED BY <1>5, <2>3 DEF SelectSnapshot
<1>6. ASSUME NEW c \in Calls, UpsertSnapshot(c) PROVE TypeOK'
  <2>1. call[c].agg \in Aggregates /\ call[c].snapshot \in SnapshotType
    BY <1>6, PendingType DEF UpsertSnapshot
  <2>2. Idle \in CallType
    BY DEF CallType
  <2> QED BY <1>6, <2>1, <2>2 DEF UpsertSnapshot
<1>7. CASE CloseOrCrash
  BY <1>7 DEF CloseOrCrash, CallType
<1>8. CASE Reopen
  BY <1>8 DEF Reopen
<1>9. ASSUME NEW i \in DOMAIN events, LoseRow(i) PROVE TypeOK'
  <2>1. events' \in Seq(RowType)
    BY <1>9 DEF LoseRow
  <2> QED BY <1>9, <2>1 DEF LoseRow
<1>10. ASSUME NEW i \in DOMAIN events, GarbleRow(i) PROVE TypeOK'
  <2>1. [events[i] EXCEPT !.body.id = Garbled] \in RowType
    <3>1. events[i] \in RowType /\ events[i].body \in [id : EventIds \cup {Garbled}, agg : Aggregates]
      BY RowFacts
    <3>2. [events[i].body EXCEPT !.id = Garbled] \in [id : EventIds \cup {Garbled}, agg : Aggregates]
      BY <3>1
    <3>3. [events[i] EXCEPT !.body = [events[i].body EXCEPT !.id = Garbled]] \in RowType
      BY <3>1, <3>2 DEF RowType
    <3> QED BY <3>1, <3>3
  <2>2. events' = [events EXCEPT ![i] = [events[i] EXCEPT !.body.id = Garbled]]
    BY <1>10 DEF GarbleRow
  <2>3. events' \in Seq(RowType)
    BY <2>1, <2>2
  <2> QED BY <1>10, <2>3 DEF GarbleRow
<1>11. CASE UNCHANGED vars
  BY <1>11 DEF vars
<1> QED
  BY <1>1, <1>2, <1>3, <1>4, <1>5, <1>6, <1>7, <1>8, <1>9, <1>10, <1>11 DEF Next, CallStep

-----------------------------------------------------------------------------

(* A step that leaves table, head and history alone and starts no append     *)
(* keeps the inductive invariant.                                            *)
LEMMA QuietStep ==
    ASSUME Inv, TypeOK', UNCHANGED <<events, head, acked, log, damage>>,
           \A c \in Calls : call'[c].step = "append" => call'[c] = call[c]
    PROVE  Inv'
  BY DEF Inv, HeadIsHistory, PendingFresh, DamageTrace, ChainIntact, AckedDurable

(* The transaction that commits an append was given the current head.        *)
LEMMA CommitSeesHead ==
    ASSUME Inv, NEW c \in Calls, CommitAppend(c)
    PROVE  /\ Len(events) = head.count
           /\ LastHash(events) = head.hash
           /\ call[c].body \in Bodies
           /\ call[c].expected = head
<1>1. call[c] \in [step : {"append"}, body : Bodies, expected : [count : Nat, hash : Hashes]]
  BY PendingType DEF Inv, CommitAppend
<1>2. call[c].expected = head \/ call[c].expected.count < Len(events)
  BY <1>1 DEF Inv, PendingFresh
<1>3. Len(events) = call[c].expected.count /\ LastHash(events) = call[c].expected.hash
  BY DEF CommitAppend, HeadMatches
<1>4. Len(events) \in Nat
  BY DEF Inv, TypeOK
<1>5. call[c].expected = head
  BY <1>2, <1>3, <1>4
<1> QED BY <1>1, <1>3, <1>5

(* Committing an append extends the chain by one row.                        *)
LEMMA CommitStep ==
    ASSUME Inv, TypeOK', NEW c \in Calls, CommitAppend(c)
    PROVE  Inv'
<1> DEFINE body == call[c].body
           row  == Row(LastHash(events), body)
<1> USE CommitSeesHead
<1>1. /\ events \in Seq(RowType) /\ log \in Seq(Bodies) /\ body \in Bodies
      /\ head.hash = log /\ head.count = Len(log) /\ Len(events) = Len(log)
  BY DEF Inv, TypeOK, HeadIsHistory
<1>2. row = [body |-> body, prev |-> log, hash |-> Append(log, body)]
  BY <1>1 DEF Row, computeEventHash
<1>3. row \in RowType
  BY <1>1, <1>2, AppendFacts DEF RowType, Hashes, Bodies
<1>4. /\ events' = Append(events, row)
      /\ log' = Append(log, body)
      /\ head' = [count |-> Len(events) + 1, hash |-> row.hash]
      /\ acked' = acked \cup {[sequence |-> Len(events) + 1, row |-> row]}
      /\ damage' = damage
      /\ call' = [call EXCEPT ![c] = Idle]
  BY DEF CommitAppend
<1>5. /\ Len(events') = Len(events) + 1 /\ events'[Len(events) + 1] = row
      /\ \A i \in 1 .. Len(events) : events'[i] = events[i]
  BY <1>1, <1>3, <1>4, AppendFacts
<1>6. /\ Len(log') = Len(log) + 1 /\ log'[Len(log) + 1] = body
      /\ \A i \in 1 .. Len(log) : log'[i] = log[i]
  BY <1>1, <1>4, AppendFacts
<1>7. HeadIsHistory'
  BY <1>1, <1>2, <1>4, <1>6 DEF HeadIsHistory
<1>8. Len(events') <= head'.count
  BY <1>4, <1>5
<1>9. PendingFresh'
  <2> SUFFICES ASSUME NEW d \in Calls, call'[d].step = "append"
               PROVE  call'[d].expected.count < Len(events')
    BY DEF PendingFresh
  <2>1. d # c /\ call'[d] = call[d]
    BY <1>4 DEF Inv, TypeOK, Idle
  <2>2. call[d] \in [step : {"append"}, body : Bodies, expected : [count : Nat, hash : Hashes]]
    BY <2>1, PendingType DEF Inv
  <2>3. call[d].expected = head \/ call[d].expected.count < Len(events)
    BY <2>1 DEF Inv, PendingFresh
  <2> QED BY <1>1, <1>5, <2>1, <2>2, <2>3
<1>10. DamageTrace'
  <2> SUFFICES ASSUME damage > 0
               PROVE  \E i \in DOMAIN events' : events'[i].body.id = Garbled
    BY <1>4 DEF DamageTrace
  <2>1. PICK i \in DOMAIN events : events[i].body.id = Garbled
    BY <1>1 DEF Inv, DamageTrace
  <2>2. i \in DOMAIN events' /\ events'[i] = events[i]
    BY <1>1, <1>3, <1>4, <1>5
  <2> QED BY <2>1, <2>2
<1>11. ChainIntact'
  <2> SUFFICES ASSUME damage = 0 PROVE ChainIntact'
    BY <1>4 DEF ChainIntact
  <2>1. \A i \in 1 .. Len(log) :
           events[i] = [body |-> log[i], prev |-> SubSeq(log, 1, i - 1), hash |-> SubSeq(log, 1, i)]
    BY DEF Inv, ChainIntact
  <2>2. /\ SubSeq(log, 1, Len(log)) = log
        /\ SubSeq(log', 1, Len(log) + 1) = log'
        /\ \A n \in 0 .. Len(log) : SubSeq(log', 1, n) = SubSeq(log, 1, n)
    BY <1>1, <1>4, SubSeqFacts
  <2>3. ASSUME NEW i \in 1 .. Len(log')
        PROVE  events'[i] = [body |-> log'[i], prev |-> SubSeq(log', 1, i - 1),
                             hash |-> SubSeq(log', 1, i)]
    <3>1. CASE i \in 1 .. Len(log)
      <4>1. i \in 0 .. Len(log) /\ i - 1 \in 0 .. Len(log)
        BY <1>1, <3>1
      <4>2. SubSeq(log', 1, i) = SubSeq(log, 1, i) /\ SubSeq(log', 1, i - 1) = SubSeq(log, 1, i - 1)
        BY <2>2, <4>1
      <4>3. events'[i] = events[i] /\ log'[i] = log[i]
        BY <1>1, <1>5, <1>6, <3>1
      <4> QED BY <2>1, <3>1, <4>2, <4>3
    <3>2. CASE i = Len(log) + 1
      <4>1. i - 1 = Len(log) /\ SubSeq(log', 1, i - 1) = log /\ SubSeq(log', 1, i) = log'
        BY <1>1, <2>2, <3>2
      <4> QED BY <1>1, <1>2, <1>4, <1>5, <1>6, <3>2, <4>1
    <3> QED BY <1>1, <1>6, <3>1, <3>2
  <2>4. ASSUME NEW i \in DOMAIN log', NEW j \in DOMAIN log', log'[i].id = log'[j].id
        PROVE  i = j
    <3>1. ASSUME NEW k \in 1 .. Len(log) PROVE log[k].id # body.id
      <4>1. k \in DOMAIN events
        BY <1>1
      <4>2. events[k].body = log[k]
        <5>1. events[k] = [body |-> log[k], prev |-> SubSeq(log, 1, k - 1), hash |-> SubSeq(log, 1, k)]
          BY <2>1
        <5> QED BY <5>1
      <4>3. \A l \in DOMAIN events : events[l].body.id # body.id
        BY DEF CommitAppend, IdIsFree
      <4> QED BY <4>1, <4>2, <4>3
    <3>2. \A k, l \in 1 .. Len(log) : log[k].id = log[l].id => k = l
      BY <1>1 DEF Inv, ChainIntact
    <3>3. i \in 1 .. Len(log) + 1 /\ j \in 1 .. Len(log) + 1
      BY <1>1, <1>4, <1>6, AppendFacts
    <3> QED BY <1>1, <1>6, <2>4, <3>1, <3>2, <3>3
  <2> QED BY <1>1, <1>5, <1>6, <2>3, <2>4 DEF ChainIntact
<1>12. AckedDurable'
  <2> SUFFICES ASSUME damage = 0, NEW a \in acked'
               PROVE  a.sequence <= Len(events') /\ events'[a.sequence] = a.row
    BY <1>4 DEF AckedDurable
  <2>1. CASE a \in acked
    <3>1. a.sequence \in Nat \ {0}
      BY <2>1 DEF Inv, TypeOK
    <3>2. a.sequence <= Len(events) /\ events[a.sequence] = a.row
      BY <2>1 DEF Inv, AckedDurable
    <3> QED BY <1>1, <1>5, <3>1, <3>2
  <2>2. CASE a = [sequence |-> Len(events) + 1, row |-> row]
    BY <1>1, <1>5, <2>2
  <2> QED BY <1>4, <2>1, <2>2
<1> QED BY <1>7, <1>8, <1>9, <1>10, <1>11, <1>12 DEF Inv

(* A lost row leaves the table shorter than the head says.                   *)
LEMMA LoseStep ==
    ASSUME Inv, TypeOK', NEW i \in DOMAIN events, LoseRow(i)
    PROVE  Inv'
<1>1. /\ events \in Seq(RowType) /\ head.count \in Nat /\ damage \in Nat
      /\ Len(events) <= head.count
  BY DEF Inv, TypeOK
<1>2. /\ UNCHANGED <<head, call, acked, log>> /\ damage' = damage + 1 /\ NoAppendPending
      /\ events' = [j \in 1 .. Len(events) - 1 |-> IF j < i THEN events[j] ELSE events[j + 1]]
  BY DEF LoseRow
<1>3. Len(events) >= 1
  BY <1>1
<1>4. Len(events') = Len(events) - 1
  BY <1>1, <1>2, <1>3
<1>5. Len(events') < head'.count
  BY <1>1, <1>2, <1>3, <1>4
<1>6. PendingFresh'
  BY <1>2 DEF PendingFresh, NoAppendPending
<1>7. damage' # 0 /\ damage' > 0
  BY <1>1, <1>2
<1>8. HeadIsHistory'
  BY <1>2 DEF Inv, HeadIsHistory
<1>9. Len(events') <= head'.count
  BY <1>1, <1>2, <1>3, <1>4
<1> QED BY <1>5, <1>6, <1>7, <1>8, <1>9 DEF Inv, DamageTrace, ChainIntact, AckedDurable

(* A garbled row stays garbled.                                              *)
LEMMA GarbleStep ==
    ASSUME Inv, TypeOK', NEW i \in DOMAIN events, GarbleRow(i)
    PROVE  Inv'
<1>1. /\ events \in Seq(RowType) /\ head.count \in Nat /\ damage \in Nat
      /\ Len(events) <= head.count
  BY DEF Inv, TypeOK
<1>2. /\ UNCHANGED <<head, call, acked, log>> /\ damage' = damage + 1 /\ NoAppendPending
      /\ events' = [events EXCEPT ![i].body.id = Garbled]
  BY DEF GarbleRow
<1>3. DOMAIN events' = DOMAIN events /\ Len(events') = Len(events)
  BY <1>1, <1>2
<1>4. events'[i].body.id = Garbled
  <2>1. events[i] \in RowType /\ events[i].body \in [id : EventIds \cup {Garbled}, agg : Aggregates]
    BY <1>1, RowFacts
  <2>2. events'[i] = [events[i] EXCEPT !.body.id = Garbled]
    BY <1>1, <1>2
  <2>3. events'[i].body = [events[i].body EXCEPT !.id = Garbled]
    BY <2>1, <2>2 DEF RowType
  <2> QED BY <2>1, <2>3
<1>5. DamageTrace'
  BY <1>3, <1>4 DEF DamageTrace
<1>6. PendingFresh'
  BY <1>2 DEF PendingFresh, NoAppendPending
<1>7. damage' # 0
  BY <1>1, <1>2
<1>8. HeadIsHistory' /\ Len(events') <= head'.count
  BY <1>1, <1>2, <1>3 DEF Inv, HeadIsHistory
<1> QED BY <1>5, <1>6, <1>7, <1>8 DEF Inv, ChainIntact, AckedDurable

(* Starting an append remembers the current head.                            *)
LEMMA StartStep ==
    ASSUME Inv, TypeOK', NEW c \in Calls, NEW body \in Bodies, StartAppend(c, body)
    PROVE  Inv'
<1>1. /\ UNCHANGED <<events, head, acked, log, damage>>
      /\ call' = [call EXCEPT ![c] = [step |-> "append", body |-> body, expected |-> head]]
  BY DEF StartAppend
<1>2. PendingFresh'
  BY <1>1 DEF Inv, TypeOK, PendingFresh
<1> QED BY <1>1, <1>2 DEF Inv, HeadIsHistory, DamageTrace, ChainIntact, AckedDurable

(* The inductive invariant holds initially.                                  *)
LEMMA InitInv == Init => Inv
<1> SUFFICES ASSUME Init PROVE Inv
  OBVIOUS
<1> USE DEF Init, GENESIS_HASH
<1>1. TypeOK
  BY DEF TypeOK, Hashes, CallType
<1>2. \A c \in Calls : call[c].step # "append"
  BY DEF Idle
<1>3. HeadIsHistory /\ Len(events) <= head.count
  BY DEF HeadIsHistory
<1>4. ChainIntact /\ AckedDurable
  BY DEF ChainIntact, AckedDurable
<1> QED BY <1>1, <1>2, <1>3, <1>4 DEF Inv, PendingFresh, DamageTrace

(* Every step preserves the inductive invariant.                             *)
LEMMA InvPreserved == Inv /\ [Next]_vars => Inv'
<1> SUFFICES ASSUME Inv, [Next]_vars PROVE Inv'
  OBVIOUS
<1>0. TypeOK /\ TypeOK'
  BY TypePreserved DEF Inv
<1>1. ASSUME NEW c \in Calls, NEW body \in Bodies, StartAppend(c, body) PROVE Inv'
  BY <1>0, <1>1, StartStep
<1>2. ASSUME NEW c \in Calls, CommitAppend(c) PROVE Inv'
  BY <1>0, <1>2, CommitStep
<1>3. ASSUME NEW c \in Calls,
             \/ RejectAppend(c)
             \/ SelectSnapshot(c)
             \/ UpsertSnapshot(c)
             \/ \E agg \in Aggregates, i \in DOMAIN events, version \in 1 .. Len(events) :
                   StartSnapshot(c, agg, version, events[i].hash)
      PROVE  Inv'
  <2>1. UNCHANGED <<events, head, acked, log, damage>>
    BY <1>3 DEF RejectAppend, SelectSnapshot, UpsertSnapshot, StartSnapshot
  <2>2. \A d \in Calls : d # c => call'[d] = call[d]
    BY <1>0, <1>3 DEF TypeOK, RejectAppend, SelectSnapshot, UpsertSnapshot, StartSnapshot
  <2>3. call'[c].step # "append"
    <3>1. CASE RejectAppend(c) \/ UpsertSnapshot(c)
      BY <1>0, <3>1 DEF TypeOK, RejectAppend, UpsertSnapshot, Idle
    <3>2. CASE SelectSnapshot(c)
      <4>1. call[c] \in [step : {"select", "upsert"}, agg : Aggregates, snapshot : SnapshotType]
        BY <1>0, <3>2, PendingType DEF SelectSnapshot
      <4>2. call'[c] = Idle \/ call'[c] = [call[c] EXCEPT !.step = "upsert"]
        BY <1>0, <3>2 DEF TypeOK, SelectSnapshot
      <4> QED BY <4>1, <4>2 DEF Idle
    <3>3. CASE \E agg \in Aggregates, i \in DOMAIN events, version \in 1 .. Len(events) :
                 StartSnapshot(c, agg, version, events[i].hash)
      BY <1>0, <3>3 DEF TypeOK, StartSnapshot
    <3> QED BY <1>3, <3>1, <3>2, <3>3
  <2> QED BY <1>0, <2>1, <2>2, <2>3, QuietStep
<1>4. CASE CloseOrCrash
  <2>1. \A c \in Calls : call'[c].step # "append"
    BY <1>4 DEF CloseOrCrash, Idle
  <2> QED BY <1>0, <1>4, <2>1, QuietStep DEF CloseOrCrash
<1>5. CASE Reopen
  BY <1>0, <1>5, QuietStep DEF Reopen
<1>6. ASSUME NEW i \in DOMAIN events, LoseRow(i) PROVE Inv'
  BY <1>0, <1>6, LoseStep
<1>7. ASSUME NEW i \in DOMAIN events, GarbleRow(i) PROVE Inv'
  BY <1>0, <1>7, GarbleStep
<1>8. CASE UNCHANGED vars
  BY <1>0, <1>8, QuietStep DEF vars
<1> QED
  BY <1>1, <1>2, <1>3, <1>4, <1>5, <1>6, <1>7, <1>8 DEF Next, CallStep

-----------------------------------------------------------------------------

(* The inductive invariant is an invariant of the store.                     *)
THEOREM Invariance == Spec => []Inv
<1>1. Init => Inv
  BY InitInv
<1>2. Inv /\ [Next]_vars => Inv'
  BY InvPreserved
<1> QED BY <1>1, <1>2, PTL DEF Spec

(* The tables, the pending calls and the history always have their types.    *)
THEOREM TypeCorrect == Spec => []TypeOK
<1>1. Inv => TypeOK
  BY DEF Inv
<1> QED BY <1>1, Invariance, PTL

(* Concurrent appends with stale heads never fork the chain, drop a row or   *)
(* store an event id twice (append).                                         *)
THEOREM ChainNeverForks == Spec => []ChainIntact
<1>1. Inv => ChainIntact
  BY DEF Inv
<1> QED BY <1>1, Invariance, PTL

(* What append returned stays in the table at its sequence.                  *)
THEOREM AckedSurvives == Spec => []AckedDurable
<1>1. Inv => AckedDurable
  BY DEF Inv
<1> QED BY <1>1, Invariance, PTL

(* A garbled row does not hash to its event hash: readAll refuses it.        *)
LEMMA GarbledUnreadable ==
    ASSUME events \in Seq(RowType), NEW i \in DOMAIN events, events[i].body.id = Garbled
    PROVE  events[i].hash # computeEventHash(events[i].prev, events[i].body)
<1>1. events[i].hash \in Seq(Bodies) /\ events[i].prev \in Seq(Bodies)
  BY RowFacts DEF Hashes
<1> DEFINE Any == Bodies \cup {events[i].body}
           h   == Append(events[i].prev, events[i].body)
<1>3. events[i].prev \in Seq(Any) /\ events[i].body \in Any
  BY <1>1
<1>4. Len(h) = Len(events[i].prev) + 1 /\ h[Len(events[i].prev) + 1] = events[i].body
  BY <1>3, AppendFacts
<1>5. SUFFICES ASSUME events[i].hash = h PROVE FALSE
  BY DEF computeEventHash
<1>6. Len(h) \in 1 .. Len(events[i].hash) /\ h[Len(h)] = events[i].body
  BY <1>1, <1>4, <1>5
<1>7. h[Len(h)] \in Bodies
  BY <1>1, <1>5, <1>6
<1>8. events[i].body.id \in EventIds
  BY <1>6, <1>7 DEF Bodies
<1> QED BY <1>8, GarbledAssumption

(* Whatever rows the disk loses or garbles, readAll and open refuse the      *)
(* table from then on; no append makes it look sound again.                  *)
THEOREM DamageAlwaysDetected == Spec => []DamageDetected
<1>1. Inv => DamageDetected
  <2> SUFFICES ASSUME Inv, damage > 0, ReadAllSucceeds(events, head) PROVE FALSE
    BY DEF DamageDetected
  <2>1. CASE Len(events) < head.count
    BY <2>1 DEF Inv, TypeOK, ReadAllSucceeds
  <2>2. ASSUME NEW i \in DOMAIN events, events[i].body.id = Garbled PROVE FALSE
    BY <2>2, GarbledUnreadable DEF Inv, TypeOK, ReadAllSucceeds
  <2> QED BY <2>1, <2>2 DEF Inv, DamageTrace
<1> QED BY <1>1, Invariance, PTL

(* A sound store always reads back and can always be reopened.               *)
THEOREM SoundAlwaysReadable == Spec => []SoundStoreReadable
<1>1. Inv => SoundStoreReadable
  <2> SUFFICES ASSUME Inv, damage = 0 PROVE ReadAllSucceeds(events, head)
    BY DEF SoundStoreReadable
  <2>1. /\ events \in Seq(RowType) /\ log \in Seq(Bodies) /\ Len(events) = Len(log)
        /\ head.count = Len(log) /\ head.hash = log
    BY DEF Inv, TypeOK, HeadIsHistory, ChainIntact
  <2>2. ASSUME NEW i \in DOMAIN events
        PROVE  events[i] = [body |-> log[i], prev |-> SubSeq(log, 1, i - 1),
                            hash |-> SubSeq(log, 1, i)]
    <3>1. i \in 1 .. Len(log)
      BY <2>1
    <3> QED BY <3>1 DEF Inv, ChainIntact
  <2>3. ASSUME NEW i \in DOMAIN events
        PROVE  /\ events[i].prev = IF i = 1 THEN GENESIS_HASH ELSE events[i - 1].hash
               /\ events[i].hash = computeEventHash(events[i].prev, events[i].body)
    <3>1. i \in 1 .. Len(log) /\ events[i].prev = SubSeq(log, 1, i - 1)
          /\ events[i].hash = SubSeq(log, 1, i) /\ events[i].body = log[i]
      BY <2>1, <2>2
    <3>2. CASE i = 1
      <4>1. SubSeq(log, 1, i - 1) = <<>>
        BY <2>1, <3>2
      <4>2. SubSeq(log, 1, i) = Append(SubSeq(log, 1, i - 1), log[i])
        BY <2>1, <3>1, SubSeqStep
      <4> QED BY <3>1, <3>2, <4>1, <4>2 DEF GENESIS_HASH, computeEventHash
    <3>3. CASE i # 1
      <4>1. i - 1 \in DOMAIN events
        BY <2>1, <3>1, <3>3
      <4>2. events[i - 1].hash = SubSeq(log, 1, i - 1)
        BY <2>2, <4>1
      <4>3. SubSeq(log, 1, i) = Append(SubSeq(log, 1, i - 1), log[i])
        BY <2>1, <3>1, SubSeqStep
      <4> QED BY <3>1, <3>3, <4>2, <4>3 DEF computeEventHash
    <3> QED BY <3>2, <3>3
  <2>4. LastHash(events) = log
    <3>1. CASE events = <<>>
      BY <2>1, <3>1 DEF LastHash, GENESIS_HASH
    <3>2. CASE events # <<>>
      <4>1. Len(events) \in DOMAIN events
        BY <2>1, <3>2
      <4>2. events[Len(events)].hash = SubSeq(log, 1, Len(log))
        BY <2>1, <2>2, <4>1
      <4>3. SubSeq(log, 1, Len(log)) = log
        BY <2>1
      <4> QED BY <3>2, <4>2, <4>3 DEF LastHash
    <3> QED BY <3>1, <3>2
  <2> QED BY <2>1, <2>3, <2>4 DEF ReadAllSucceeds
<1> QED BY <1>1, Invariance, PTL

(* No operation of the store shortens or rewrites the events table.          *)
THEOREM TableAppendOnly == Spec => AppendOnly
<1> DEFINE Grows == \/ events' = events
                    \/ damage' > damage
                    \/ /\ Len(events') = Len(events) + 1
                       /\ SubSeq(events', 1, Len(events)) = events
<1>1. Inv /\ [Next]_vars => [Grows]_vars
  <2> SUFFICES ASSUME Inv, Next PROVE Grows
    OBVIOUS
  <2>1. ASSUME NEW c \in Calls, CommitAppend(c) PROVE Grows
    <3> DEFINE row == Row(LastHash(events), call[c].body)
    <3>1. events \in Seq(RowType) /\ events' = Append(events, row)
      BY <2>1 DEF Inv, TypeOK, CommitAppend
    <3>2. events \in Seq(RowType \cup {row}) /\ row \in RowType \cup {row}
      BY <3>1
    <3>3. Len(events) \in 0 .. Len(events) /\ SubSeq(events, 1, Len(events)) = events
      BY <3>1
    <3>4. SubSeq(events', 1, Len(events)) = events
      BY <3>1, <3>2, <3>3, SubSeqFacts
    <3>5. Len(events') = Len(events) + 1
      BY <3>1, <3>2, AppendFacts
    <3> QED BY <3>4, <3>5
  <2>2. ASSUME NEW i \in DOMAIN events, LoseRow(i) \/ GarbleRow(i) PROVE Grows
    BY <2>2 DEF Inv, TypeOK, LoseRow, GarbleRow
  <2>3. ASSUME NEW c \in Calls, CallStep(c), ~CommitAppend(c) PROVE Grows
    BY <2>3 DEF CallStep, StartAppend, RejectAppend, StartSnapshot, SelectSnapshot, UpsertSnapshot
  <2>4. CASE CloseOrCrash \/ Reopen
    BY <2>4 DEF CloseOrCrash, Reopen
  <2> QED BY <2>1, <2>2, <2>3, <2>4 DEF Next
<1> QED BY <1>1, Invariance, PTL DEF Spec, AppendOnly

(* The store is sound while its disk is: every interleaving of append and    *)
(* every crash keeps the chain, the types and what append returned.          *)
THEOREM StoreAlwaysSound == Spec => []StoreSound
<1>1. TypeOK /\ ChainIntact /\ AckedDurable => StoreSound
  BY DEF StoreSound
<1> QED BY <1>1, TypeCorrect, ChainNeverForks, AckedSurvives, PTL

(* Appending keeps every checkpoint: the version of a row counts the rows    *)
(* before it, which an append leaves alone.                                  *)
LEMMA CheckpointKept ==
    ASSUME NEW S, NEW rows \in Seq(S), NEW row \in S, NEW agg, NEW version, NEW hash,
           HasCheckpoint(rows, agg, version, hash)
    PROVE  HasCheckpoint(Append(rows, row), agg, version, hash)
<1> DEFINE longer == Append(rows, row)
<1>1. PICK i \in DOMAIN rows : /\ rows[i].body.agg = agg /\ VersionAt(rows, agg, i) = version
                              /\ rows[i].hash = hash
  BY DEF HasCheckpoint
<1>2. /\ \A j \in 1 .. i : j \in 1 .. Len(rows)
      /\ \A j \in 1 .. Len(rows) : longer[j] = rows[j]
      /\ i \in DOMAIN longer /\ longer[i] = rows[i]
  BY AppendFacts
<1>3. {j \in 1 .. i : longer[j].body.agg = agg} = {j \in 1 .. i : rows[j].body.agg = agg}
  BY <1>2
<1>4. VersionAt(longer, agg, i) = version
  BY <1>1, <1>3 DEF VersionAt
<1> HIDE DEF longer
<1>5. HasCheckpoint(longer, agg, version, hash)
  BY <1>1, <1>2, <1>4 DEF HasCheckpoint
<1> QED BY <1>5 DEF longer

\* A snapshot between its check and its upsert is on the chain as well.
PendingOnChain ==
    damage = 0 =>
        \A c \in Calls :
            call[c].step \in {"select", "upsert"} =>
                HasCheckpoint(events, call[c].agg, call[c].snapshot.version, call[c].snapshot.last)

(* A snapshot names an event of its own aggregate at its version, although   *)
(* saveSnapshot awaits twice between checking that and storing the snapshot  *)
(* and other appends and snapshots are committed meanwhile.                  *)
THEOREM SnapshotsStayOnChain == Spec => []SnapshotOnChain
<1>1. Init => SnapshotOnChain /\ PendingOnChain
  BY DEF Init, SnapshotOnChain, PendingOnChain, Idle
<1>2. /\ Inv /\ SnapshotOnChain /\ PendingOnChain /\ [Next]_vars
      => SnapshotOnChain' /\ PendingOnChain'
  <2> SUFFICES ASSUME Inv, SnapshotOnChain, PendingOnChain, [Next]_vars
               PROVE  SnapshotOnChain' /\ PendingOnChain'
    OBVIOUS
  <2>0. TypeOK /\ call \in [Calls -> CallType] /\ events \in Seq(RowType) /\ damage \in Nat
    BY DEF Inv, TypeOK
  <2>1. ASSUME NEW c \in Calls, CommitAppend(c) PROVE SnapshotOnChain' /\ PendingOnChain'
    <3> DEFINE row == Row(LastHash(events), call[c].body)
    <3>1. /\ events' = Append(events, row) /\ damage' = damage /\ snapshots' = snapshots
          /\ call' = [call EXCEPT ![c] = Idle]
      BY <2>1 DEF CommitAppend
    <3> HIDE DEF row
    <3>2. \A agg, version, hash : HasCheckpoint(events, agg, version, hash)
                                     => HasCheckpoint(events', agg, version, hash)
      <4>1. events \in Seq(RowType \cup {row}) /\ row \in RowType \cup {row}
        BY <2>0
      <4> QED BY <3>1, <4>1, CheckpointKept
    <3>3. SnapshotOnChain'
      BY <3>1, <3>2 DEF SnapshotOnChain
    <3>4. \A d \in Calls : call'[d].step \in {"select", "upsert"} => call'[d] = call[d]
      BY <2>0, <3>1 DEF Idle
    <3> QED BY <3>1, <3>2, <3>3, <3>4 DEF PendingOnChain
  <2>2. ASSUME UNCHANGED <<events, damage, snapshots>>,
               \A d \in Calls : call'[d].step \in {"select", "upsert"} =>
                   \/ /\ call[d].step \in {"select", "upsert"}
                      /\ call'[d].agg = call[d].agg /\ call'[d].snapshot = call[d].snapshot
                   \/ HasCheckpoint(events, call'[d].agg, call'[d].snapshot.version,
                                    call'[d].snapshot.last)
        PROVE  SnapshotOnChain' /\ PendingOnChain'
    BY <2>2 DEF SnapshotOnChain, PendingOnChain
  <2>3. ASSUME NEW c \in Calls, NEW body \in Bodies, StartAppend(c, body)
        PROVE  SnapshotOnChain' /\ PendingOnChain'
    BY <2>0, <2>2, <2>3 DEF StartAppend
  <2>4. ASSUME NEW c \in Calls, RejectAppend(c) PROVE SnapshotOnChain' /\ PendingOnChain'
    BY <2>0, <2>2, <2>4 DEF RejectAppend, Idle
  <2>5. ASSUME NEW c \in Calls, NEW agg \in Aggregates, NEW i \in DOMAIN events,
               NEW version \in 1 .. Len(events), StartSnapshot(c, agg, version, events[i].hash)
        PROVE  SnapshotOnChain' /\ PendingOnChain'
    BY <2>0, <2>2, <2>5 DEF StartSnapshot
  <2>6. ASSUME NEW c \in Calls, SelectSnapshot(c) PROVE SnapshotOnChain' /\ PendingOnChain'
    <3>1. call[c] \in [step : {"select", "upsert"}, agg : Aggregates, snapshot : SnapshotType]
      BY <2>0, <2>6, PendingType DEF SelectSnapshot
    <3>2. /\ call'[c] = Idle \/ call'[c] = [call[c] EXCEPT !.step = "upsert"]
          /\ \A d \in Calls : d # c => call'[d] = call[d]
          /\ UNCHANGED <<events, damage, snapshots>>
      BY <2>0, <2>6 DEF SelectSnapshot
    <3> QED BY <2>2, <3>1, <3>2 DEF Idle
  <2>7. ASSUME NEW c \in Calls, UpsertSnapshot(c) PROVE SnapshotOnChain' /\ PendingOnChain'
    <3>1. /\ call[c].agg \in Aggregates /\ snapshots \in [Aggregates -> SnapshotType \cup {NoSnapshot}]
          /\ snapshots' = [snapshots EXCEPT ![call[c].agg] = call[c].snapshot]
          /\ call' = [call EXCEPT ![c] = Idle] /\ UNCHANGED <<events, damage>>
      BY <2>0, <2>7, PendingType DEF UpsertSnapshot, TypeOK
    <3>2. damage = 0 => HasCheckpoint(events, call[c].agg, call[c].snapshot.version,
                                      call[c].snapshot.last)
      BY <2>7 DEF UpsertSnapshot, PendingOnChain
    <3>3. SnapshotOnChain'
      BY <3>1, <3>2 DEF SnapshotOnChain
    <3>4. \A d \in Calls : call'[d].step \in {"select", "upsert"} => call'[d] = call[d]
      BY <2>0, <3>1 DEF Idle
    <3> QED BY <3>1, <3>3, <3>4 DEF PendingOnChain
  <2>8. CASE CloseOrCrash
    BY <2>2, <2>8 DEF CloseOrCrash, Idle
  <2>9. ASSUME NEW i \in DOMAIN events, LoseRow(i) \/ GarbleRow(i)
        PROVE  SnapshotOnChain' /\ PendingOnChain'
    <3>1. damage' = damage + 1
      BY <2>9 DEF LoseRow, GarbleRow
    <3>2. damage' # 0
      BY <2>0, <3>1
    <3> QED BY <3>2 DEF SnapshotOnChain, PendingOnChain
  <2>10. CASE Reopen \/ UNCHANGED vars
    BY <2>2, <2>10 DEF Reopen, vars
  <2> QED
    BY <2>1, <2>3, <2>4, <2>5, <2>6, <2>7, <2>8, <2>9, <2>10 DEF Next, CallStep
<1> QED BY <1>1, <1>2, Invariance, PTL DEF Spec

(* Reading decides soundness exactly, for every history and any damage of    *)
(* the disk the model knows (readAll, verifyChain).                          *)
THEOREM ReadingDecides == Spec => []VerifyDecides
<1>1. SoundStoreReadable /\ DamageDetected => VerifyDecides
  BY DEF VerifyDecides
<1> QED BY <1>1, SoundAlwaysReadable, DamageAlwaysDetected, PTL

-----------------------------------------------------------------------------
\* The opening of a store.

\* What an opening makes of a database, commit by commit: one with core
\* tables, and a new one.
Unlisted(d) == d.tables = CoreTables /\ d.rows = {}
Listed(d)   == d.tables = CoreTables \cup {HistoryTable} /\ d.rows = {}
Founded(d)    == d.tables = CoreTables \cup {HistoryTable} /\ d.rows = {1}
Complete(d)    == d.tables = Tables /\ d.rows = {1, 2}
Blank(d)    == d.tables = {} /\ d.rows = {}
Begun(d)    == d.tables = {HistoryTable} /\ d.rows = {}

Clean(d) == d.odd = {} /\ d.untrusted = {}

Layered(d) == Clean(d) /\ (Unlisted(d) \/ Listed(d) \/ Founded(d) \/ Complete(d))

OpenShape ==
    /\ openings \in Nat /\ seed \in SeedStores
    /\ dbFile = [tables |-> dbFile.tables, odd |-> dbFile.odd, rows |-> dbFile.rows,
                 untrusted |-> dbFile.untrusted, salt |-> dbFile.salt, pass |-> dbFile.pass,
                 id |-> dbFile.id, count |-> dbFile.count]
    /\ openOutcome = [result |-> openOutcome.result, pass |-> openOutcome.pass]
    /\ opening # NoOpening =>
          /\ opening = [at |-> opening.at, pass |-> opening.pass,
                        existing |-> opening.existing, id |-> opening.id]
          /\ openOutcome.result # "refused"

Refusable == openOutcome.result = "refused" =>
                openOutcome.pass # dbFile.pass \/ openOutcome.pass \in TooShort

\* A store this build refuses is not touched.
ForeignUntouched ==
    seed \in Unsupported =>
        /\ dbFile = seed /\ preBackups = {} /\ openOutcome.result # "opened"
        /\ opening # NoOpening => opening.at = "authenticate"

SeedKept == \E b \in preBackups : b.image = seed

\* A store found at the first start: its database while the opening works on
\* it, the calls, and the images kept.
OlderFile ==
    /\ Layered(dbFile)
    /\ dbFile.salt = seed.salt /\ dbFile.salt # NoSalt /\ dbFile.pass = seed.pass
    /\ dbFile.id \in {seed.id, AdoptedId(seed)}
    /\ ~Complete(dbFile) => dbFile = [seed EXCEPT !.tables = dbFile.tables, !.rows = dbFile.rows]

OlderCall ==
    opening # NoOpening =>
        /\ opening.existing
        /\ opening.at \in {"authenticate", "backup", "history", "adopt", "pending", "metadata", "open"}
        /\ opening.at # "authenticate" => opening.id = AdoptedId(seed)
        /\ opening.at \in {"adopt", "pending"} => ~Unlisted(dbFile)
        /\ opening.at = "pending" => ~Listed(dbFile)
        /\ opening.at \in {"metadata", "open"} => Complete(dbFile)
        /\ opening.at \in {"history", "adopt", "pending"} => Complete(dbFile) \/ SeedKept

OlderImages ==
    /\ dbFile.tables # seed.tables \/ dbFile.rows # seed.rows => SeedKept
    /\ \A b \in preBackups :
          /\ b.id = AdoptedId(seed) /\ b.id = AdoptedId(b.image)
          /\ b.versions \in {1 .. 1, 1 .. 2}

OlderOpens ==
    seed \notin Unsupported /\ seed.tables # {} =>
        OlderFile /\ OlderCall /\ OlderImages /\ Refusable

\* A store that is created: until its metadata is inserted nobody opens it.
NewFileKept ==
    /\ Clean(dbFile)
    /\ \/ (Blank(dbFile) \/ Begun(dbFile) \/ Complete(dbFile)) /\ dbFile.salt = NoSalt
       \/ Complete(dbFile) /\ dbFile.salt # NoSalt

NewCall ==
    opening # NoOpening =>
        \/ /\ opening.existing = TRUE /\ dbFile.tables # {}
           /\ \/ opening.at = "authenticate"
              \/ opening.at \in {"history", "adopt", "pending", "metadata", "open"}
                 /\ dbFile.salt # NoSalt
        \/ /\ opening.existing = FALSE
           /\ \/ opening.at = "history" /\ Blank(dbFile)
              \/ opening.at \in {"adopt", "pending"} /\ Begun(dbFile)
              \/ opening.at = "metadata" /\ Complete(dbFile)
              \/ opening.at = "open" /\ Complete(dbFile) /\ dbFile.salt # NoSalt

NewOpens ==
    seed \notin Unsupported /\ seed.tables = {} =>
        /\ NewFileKept /\ NewCall /\ preBackups = {}
        /\ openOutcome.result = "refused" =>
             \/ openOutcome.pass # dbFile.pass \/ openOutcome.pass \in TooShort
             \/ HalfMade

OpenInv == OpenShape /\ ForeignUntouched /\ OlderOpens /\ NewOpens

-----------------------------------------------------------------------------
\* What the checks of migrations.ts say of each layout.

LEMMA LastVersions ==
    /\ LastVersion({}) = 0 /\ LastVersion({1}) = 1 /\ LastVersion({1, 2}) = 2
    /\ \A R : R \subseteq 1 .. 2 /\ R # {} => LastVersion(R) >= 1
    /\ \A R : R \subseteq 1 .. 2 /\ 2 \in R => LastVersion(R) = 2
<1>1. LastVersion({}) = 0
  BY DEF LastVersion
<1>2. ASSUME NEW R, R \subseteq 1 .. 2, NEW m \in R, \A w \in R : w <= m
      PROVE  LastVersion(R) = m
  <2>1. PICK v : v = LastVersion(R)
    OBVIOUS
  <2>2. v \in R \cup {0} /\ \A w \in R : w <= v
    BY <1>2, <2>1 DEF LastVersion
  <2>3. m <= v /\ m \in 1 .. 2 /\ v \in 0 .. 2
    BY <1>2, <2>2
  <2>4. v \in R
    BY <2>2, <2>3
  <2>5. v <= m
    BY <1>2, <2>4
  <2> QED
    BY <2>1, <2>3, <2>5
<1>3. LastVersion({1}) = 1 /\ LastVersion({1, 2}) = 2
  <2>1. LastVersion({1}) = 1
    <3>1. {1} \subseteq 1 .. 2 /\ 1 \in {1} /\ \A w \in {1} : w <= 1
      OBVIOUS
    <3> QED
      BY <1>2, <3>1
  <2>2. LastVersion({1, 2}) = 2
    <3>1. {1, 2} \subseteq 1 .. 2 /\ 2 \in {1, 2} /\ \A w \in {1, 2} : w <= 2
      OBVIOUS
    <3> QED
      BY <1>2, <3>1
  <2> QED
    BY <2>1, <2>2
<1>4. ASSUME NEW R, R \subseteq 1 .. 2, 2 \in R PROVE LastVersion(R) = 2
  <2>1. \A w \in R : w <= 2
    BY <1>4
  <2> QED
    BY <1>2, <1>4, <2>1
<1>5. ASSUME NEW R, R \subseteq 1 .. 2, R # {} PROVE LastVersion(R) >= 1
  <2>1. CASE 2 \in R
    <3>1. LastVersion(R) = 2
      BY <1>4, <1>5, <2>1
    <3> QED
      BY <3>1
  <2>2. CASE 2 \notin R
    <3>1. \A x \in R : x = 1
      <4>1. \A x \in R : x \in 1 .. 2 /\ x # 2
        BY <1>5, <2>2
      <4> QED
        BY <4>1
    <3>2. R = {1}
      BY <1>5, <3>1
    <3> QED
      BY <1>3, <3>2
  <2> QED
    BY <2>1, <2>2
<1> QED
  BY <1>1, <1>3, <1>4, <1>5

LEMMA LayeredPasses ==
    ASSUME NEW d, Layered(d)
    PROVE  /\ ListStoreMigrationsSucceeds(d) /\ AssertMigrationHistory(d)
           /\ HistoryTable \notin d.tables => AssertLegacyCoreSchema(d)
           /\ d.rows # {} => AssertStoreSchemaForVersion(d, LastVersion(d.rows))
           /\ "metadata" \in d.tables /\ "events" \in d.tables /\ d.tables # {}
           /\ MigrationVersions(d) \in {1 .. 1, 1 .. 2}
           /\ LastVersion(MigrationVersions(d)) < LATEST_STORE_MIGRATION <=> ~Complete(d)
<1>1. CoreTables \subseteq d.tables /\ d.odd = {} /\ d.untrusted = {}
  BY DEF Layered, Clean, Unlisted, Listed, Founded, Complete, Tables
<1>2. AssertLegacyCoreSchema(d)
  BY <1>1 DEF AssertLegacyCoreSchema, AsContracted
<1>3. d.rows \in {{}, {1}, {1, 2}} /\ DOMAIN Creates = 1 .. 2
  BY DEF Layered, Unlisted, Listed, Founded, Complete, Creates
<1>4. AssertMigrationHistory(d)
  BY <1>1, <1>3 DEF AssertMigrationHistory
<1>5. /\ d.rows # {} => HistoryTable \in d.tables
      /\ d.rows = {1, 2} => VersionTwoTables \subseteq d.tables
  BY DEF Layered, Unlisted, Listed, Founded, Complete, Tables
<1>6. ASSUME NEW v \in 0 .. 2, v = 2 => d.rows = {1, 2}, v >= 1 => d.rows # {}
      PROVE  AssertStoreSchemaForVersion(d, v)
  <2>1. "metadata" \in d.tables
    BY <1>1 DEF CoreTables
  <2>2. v >= 1 => AssertTableContracts(d, {HistoryTable})
    BY <1>1, <1>5, <1>6 DEF AssertTableContracts, AsContracted
  <2>3. v >= 2 => AssertTableContracts(d, VersionTwoTables)
    BY <1>1, <1>5, <1>6 DEF AssertTableContracts, AsContracted
  <2> QED
    BY <1>2, <2>1, <2>2, <2>3 DEF AssertStoreSchemaForVersion
<1>7. AssertStoreSchemaForVersion(d, LastVersion(d.rows))
  <2>1. CASE d.rows = {}
    BY <1>6, <2>1, LastVersions
  <2>2. CASE d.rows = {1}
    BY <1>6, <2>2, LastVersions
  <2>3. CASE d.rows = {1, 2}
    BY <1>6, <2>3, LastVersions
  <2> QED
    BY <1>3, <2>1, <2>2, <2>3
<1>8. ListStoreMigrationsSucceeds(d)
  BY <1>2, <1>4, <1>7 DEF ListStoreMigrationsSucceeds
<1>9. MigrationVersions(d) \in {{1}, {1, 2}} /\ (MigrationVersions(d) = {1, 2} <=> Complete(d))
  BY <1>3 DEF MigrationVersions, Layered, Unlisted, Listed, Founded, Complete
<1>10. LastVersion(MigrationVersions(d)) < 2 <=> ~Complete(d)
  BY <1>9, LastVersions
<1>11. {1} = 1 .. 1 /\ {1, 2} = 1 .. 2
  OBVIOUS
<1>12. "metadata" \in d.tables /\ "events" \in d.tables
  BY <1>1 DEF CoreTables
<1>13. MigrationVersions(d) \in {1 .. 1, 1 .. 2}
  BY <1>9, <1>11
<1> QED
  BY <1>2, <1>4, <1>7, <1>8, <1>10, <1>12, <1>13 DEF LATEST_STORE_MIGRATION

LEMMA DefectiveFails ==
    ASSUME NEW d, Defective(d)
    PROVE  d.tables # {} /\ ~ListStoreMigrationsSucceeds(d)
<1>1. CASE HistoryTable \notin d.tables
  <2>1. d.tables \cap CoreTables # {} /\ ~(CoreTables \subseteq d.tables \ d.odd)
    BY <1>1 DEF Defective
  <2>2. ~AssertLegacyCoreSchema(d)
    BY <2>1 DEF AssertLegacyCoreSchema, AsContracted
  <2> QED
    BY <1>1, <2>1, <2>2 DEF ListStoreMigrationsSucceeds
<1>2. CASE HistoryTable \in d.tables
  <2>1. DOMAIN Creates = 1 .. 2
    BY DEF Creates
  <2>2. SUFFICES ASSUME AssertMigrationHistory(d)
                 PROVE  ~AssertStoreSchemaForVersion(d, LastVersion(d.rows))
    BY <1>2 DEF ListStoreMigrationsSucceeds
  <2>3. d.rows \subseteq 1 .. 2 /\ d.rows \cap d.untrusted = {}
    BY <2>1, <2>2 DEF AssertMigrationHistory
  <2>4. \/ d.rows # {} /\ ~(CoreTables \subseteq d.tables \ d.odd)
        \/ 2 \in d.rows /\ ~(VersionTwoTables \subseteq d.tables \ d.odd)
    BY <1>2, <2>3 DEF Defective, LATEST_STORE_MIGRATION
  <2>5. CASE d.rows # {} /\ ~(CoreTables \subseteq d.tables \ d.odd)
    <3>1. LastVersion(d.rows) >= 1
      BY <2>3, <2>5, LastVersions
    <3>2. ~(AssertLegacyCoreSchema(d) /\ "metadata" \in d.tables)
      BY <2>5 DEF AssertLegacyCoreSchema, AsContracted, CoreTables
    <3> QED
      BY <3>1, <3>2 DEF AssertStoreSchemaForVersion
  <2>6. CASE 2 \in d.rows /\ ~(VersionTwoTables \subseteq d.tables \ d.odd)
    <3>1. LastVersion(d.rows) = 2
      BY <2>3, <2>6, LastVersions
    <3>2. ~AssertTableContracts(d, VersionTwoTables)
      BY <2>6 DEF AssertTableContracts, AsContracted
    <3> QED
      BY <3>1, <3>2 DEF AssertStoreSchemaForVersion
  <2> QED
    BY <2>4, <2>5, <2>6
<1> QED
  BY <1>1, <1>2

-----------------------------------------------------------------------------
\* The steps.

LEMMA OpenStarts == OpenInit => OpenInv
<1> SUFFICES ASSUME OpenInit PROVE OpenInv
  OBVIOUS
<1>1. /\ seed \in SeedStores /\ dbFile = seed /\ opening = NoOpening /\ preBackups = {}
      /\ openOutcome.result = "none" /\ openings = 0
      /\ openOutcome = [result |-> openOutcome.result, pass |-> openOutcome.pass]
  BY DEF OpenInit
<1>2. seed \in Databases /\ (seed \notin Unsupported => LeftByABuild(seed))
  BY <1>1, OpeningAssumption
<1>3. OpenShape
  BY <1>1, <1>2 DEF OpenShape, Databases
<1>4. ForeignUntouched
  BY <1>1 DEF ForeignUntouched
<1>5. OlderOpens
  <2> SUFFICES ASSUME seed \notin Unsupported, seed.tables # {}
               PROVE  OlderFile /\ OlderCall /\ OlderImages /\ Refusable
    BY DEF OlderOpens
  <2>1. Layered(dbFile)
    BY <1>1, <1>2 DEF LeftByABuild, Layered, Clean, Unlisted, Founded, Complete
  <2>2. dbFile = [seed EXCEPT !.tables = dbFile.tables, !.rows = dbFile.rows]
    BY <1>1, <1>2 DEF Databases
  <2>3. OlderFile
    BY <1>1, <1>2, <2>1, <2>2 DEF OlderFile, LeftByABuild
  <2> QED
    BY <1>1, <2>3 DEF OlderCall, OlderImages, Refusable
<1>6. NewOpens
  <2> SUFFICES ASSUME seed \notin Unsupported, seed.tables = {}
               PROVE  NewFileKept
    BY <1>1 DEF NewOpens, NewCall
  <2>1. <<seed.tables, seed.rows>> \in {<<{}, {}>>} /\ seed.odd = {} /\ seed.untrusted = {}
        /\ seed.salt = NoSalt
    BY <1>2 DEF LeftByABuild, CoreTables, Tables
  <2> QED
    BY <1>1, <2>1 DEF NewFileKept, Clean, Blank
<1> QED
  BY <1>3, <1>4, <1>5, <1>6 DEF OpenInv

LEMMA OpenShapeSteps == ASSUME OpenShape, OpenNext PROVE OpenShape'
<1>1. ASSUME NEW pass, BeginOpen(pass) PROVE OpenShape'
  BY <1>1 DEF OpenShape, BeginOpen, Refuse
<1>2. ASSUME opening # NoOpening, Authenticate PROVE OpenShape'
  <2>1. UNCHANGED <<dbFile, seed, openings>>
    BY <1>2 DEF Authenticate
  <2>2. CASE opening' = NoOpening /\ openOutcome' = [result |-> "refused", pass |-> opening.pass]
    BY <2>1, <2>2 DEF OpenShape
  <2>3. CASE \E i, a : opening' = [opening EXCEPT !.id = i, !.at = a] /\ openOutcome' = openOutcome
    BY <1>2, <2>1, <2>3 DEF OpenShape
  <2> QED
    BY <1>2, <2>2, <2>3 DEF Authenticate, Refuse
<1>3. ASSUME opening # NoOpening, WriteBackup PROVE OpenShape'
  BY <1>3 DEF OpenShape, WriteBackup, Advance
<1>4. ASSUME opening # NoOpening, CreateHistory PROVE OpenShape'
  BY <1>4 DEF OpenShape, CreateHistory, Advance, Refuse
<1>5. ASSUME opening # NoOpening, AdoptFoundation PROVE OpenShape'
  BY <1>5 DEF OpenShape, AdoptFoundation, Advance
<1>6. ASSUME opening # NoOpening, ApplyPending PROVE OpenShape'
  <2>1. UNCHANGED <<seed, openings>> /\ dbFile' \in {dbFile, Migrated}
    BY <1>6 DEF ApplyPending
  <2>2. dbFile' = [tables |-> dbFile'.tables, odd |-> dbFile'.odd, rows |-> dbFile'.rows,
                   untrusted |-> dbFile'.untrusted, salt |-> dbFile'.salt,
                   pass |-> dbFile'.pass, id |-> dbFile'.id, count |-> dbFile'.count]
    BY <2>1 DEF OpenShape, Migrated
  <2>3. CASE opening' = NoOpening /\ openOutcome' = [result |-> "refused", pass |-> opening.pass]
    BY <2>1, <2>2, <2>3 DEF OpenShape
  <2>4. CASE opening' = [opening EXCEPT !.at = "metadata"] /\ openOutcome' = openOutcome
    BY <1>6, <2>1, <2>2, <2>4 DEF OpenShape
  <2> QED
    BY <1>6, <2>3, <2>4 DEF ApplyPending, Advance, Refuse
<1>7. ASSUME opening # NoOpening, InsertMetadata PROVE OpenShape'
  BY <1>7 DEF OpenShape, InsertMetadata, Advance
<1>8. ASSUME AppendOne PROVE OpenShape'
  BY <1>8 DEF OpenShape, AppendOne
<1>9. ASSUME Stops PROVE OpenShape'
  BY <1>9 DEF OpenShape, Stops
<1> QED
  BY <1>1, <1>2, <1>3, <1>4, <1>5, <1>6, <1>7, <1>8, <1>9 DEF OpenNext

LEMMA ForeignSteps == ASSUME OpenShape, ForeignUntouched, OpenNext PROVE ForeignUntouched'
<1> SUFFICES ASSUME seed \in Unsupported PROVE ForeignUntouched'
  <2>1. seed' = seed
    BY DEF OpenNext, BeginOpen, Authenticate, WriteBackup, CreateHistory, AdoptFoundation,
           ApplyPending, InsertMetadata, AppendOne, Stops
  <2> QED
    BY <2>1 DEF ForeignUntouched
<1>1. /\ dbFile = seed /\ preBackups = {} /\ openOutcome.result # "opened"
      /\ opening # NoOpening => opening.at = "authenticate"
  BY DEF ForeignUntouched
<1>2. dbFile.tables # {} /\ ~ListStoreMigrationsSucceeds(dbFile)
  BY <1>1, OpeningAssumption, DefectiveFails
<1>3. ASSUME NEW pass, BeginOpen(pass) PROVE ForeignUntouched'
  BY <1>1, <1>2, <1>3 DEF ForeignUntouched, BeginOpen, Refuse
<1>4. ASSUME Authenticate PROVE ForeignUntouched'
  BY <1>1, <1>2, <1>4 DEF ForeignUntouched, Authenticate, Refuse
<1>5. ASSUME Stops PROVE ForeignUntouched'
  BY <1>1, <1>5 DEF ForeignUntouched, Stops
<1>6. opening # NoOpening => ~(WriteBackup \/ CreateHistory \/ AdoptFoundation \/ ApplyPending
                               \/ InsertMetadata \/ AppendOne)
  BY <1>1 DEF WriteBackup, CreateHistory, AdoptFoundation, ApplyPending, InsertMetadata, AppendOne
<1>7. AppendOne => opening # NoOpening
  BY DEF AppendOne
<1> QED
  BY <1>3, <1>4, <1>5, <1>6, <1>7 DEF OpenNext

\* What adopting an id and migrating make of a database.
LEMMA AdoptedIds ==
    ASSUME NEW d, NEW s, d.salt = s.salt, d.id \in {s.id, AdoptedId(s)}
    PROVE  AdoptedId(d) = AdoptedId(s)
BY DEF AdoptedId

LEMMA MigrationResult ==
    ASSUME OpenShape, Clean(dbFile)
    PROVE  /\ Founded(dbFile) \/ Begun(dbFile) =>
                /\ ~Collides /\ Complete(Migrated)
                /\ Migrated = [dbFile EXCEPT !.tables = Tables, !.rows = {1, 2}]
           /\ Complete(dbFile) => ~Collides /\ Migrated = dbFile
<1>1. DOMAIN Creates = {1, 2} /\ Creates[1] = CoreTables /\ Creates[2] = VersionTwoTables
  BY DEF Creates
<1>2. ASSUME Complete(dbFile) PROVE ~Collides /\ Migrated = dbFile
  <2>1. Pending = {}
    BY <1>1, <1>2 DEF Pending, Complete
  <2>2. UNION {Creates[v] : v \in Pending} = {}
    BY <2>1
  <2> QED
    BY <2>1, <2>2 DEF Collides, Migrated, OpenShape
<1>3. ASSUME Founded(dbFile)
      PROVE  ~Collides /\ Migrated = [dbFile EXCEPT !.tables = Tables, !.rows = {1, 2}]
  <2>1. Pending = {2}
    BY <1>1, <1>3 DEF Pending, Founded
  <2>2. UNION {Creates[v] : v \in Pending} = VersionTwoTables
    BY <1>1, <2>1
  <2>3. dbFile.tables \cup VersionTwoTables = Tables
    BY <1>3 DEF Founded, Tables
  <2>4. dbFile.rows \cup Pending = {1, 2}
    BY <1>3, <2>1 DEF Founded
  <2>5. Migrated = [dbFile EXCEPT !.tables = Tables, !.rows = {1, 2}]
    BY <2>2, <2>3, <2>4 DEF Migrated
  <2>6. VersionTwoTables \cap dbFile.tables = {}
    BY <1>3 DEF Founded, CoreTables, VersionTwoTables, HistoryTable
  <2>7. ~Collides
    BY <1>1, <2>1, <2>6 DEF Collides
  <2> QED
    BY <2>5, <2>7
<1>4. ASSUME Begun(dbFile)
      PROVE  ~Collides /\ Migrated = [dbFile EXCEPT !.tables = Tables, !.rows = {1, 2}]
  <2>1. Pending = {1, 2}
    BY <1>1, <1>4 DEF Pending, Begun
  <2>2. UNION {Creates[v] : v \in Pending} = CoreTables \cup VersionTwoTables
    BY <1>1, <2>1
  <2>3. dbFile.tables \cup (CoreTables \cup VersionTwoTables) = Tables
    BY <1>4 DEF Begun, Tables
  <2>4. dbFile.rows \cup Pending = {1, 2}
    BY <1>4, <2>1 DEF Begun
  <2>5. Migrated = [dbFile EXCEPT !.tables = Tables, !.rows = {1, 2}]
    BY <2>2, <2>3, <2>4 DEF Migrated
  <2>6. VersionTwoTables \cap dbFile.tables = {} /\ CoreTables \cap dbFile.tables = {}
    BY <1>4 DEF Begun, CoreTables, VersionTwoTables, HistoryTable
  <2>7. ~Collides
    BY <1>1, <2>1, <2>6 DEF Collides
  <2> QED
    BY <2>5, <2>7
<1>5. PICK m : m = [dbFile EXCEPT !.tables = Tables, !.rows = {1, 2}]
  OBVIOUS
<1>6. Complete(m)
  BY <1>5 DEF OpenShape, Complete
<1> QED
  BY <1>2, <1>3, <1>4, <1>5, <1>6

\* The migration of a store that can be migrated passes the final check.
LEMMA ApplyPendingResult ==
    ASSUME OpenShape, opening # NoOpening, ApplyPending, Clean(dbFile),
           Founded(dbFile) \/ Begun(dbFile) \/ Complete(dbFile)
    PROVE  /\ Complete(dbFile') /\ Clean(dbFile')
           /\ dbFile' = dbFile \/ dbFile' = [dbFile EXCEPT !.tables = Tables, !.rows = {1, 2}]
           /\ opening' = [opening EXCEPT !.at = "metadata"] /\ opening.at = "pending"
           /\ UNCHANGED <<seed, preBackups, openings, openOutcome>>
<1>1. PICK m : m = Migrated
  OBVIOUS
<1>2. /\ ~Collides /\ Complete(m)
      /\ m = dbFile \/ m = [dbFile EXCEPT !.tables = Tables, !.rows = {1, 2}]
  BY <1>1, MigrationResult
<1>3. Clean(m)
  BY <1>2 DEF Clean, OpenShape
<1>4. Layered(m) /\ m.rows # {}
  BY <1>2, <1>3 DEF Layered, Complete
<1>5. AssertMigrationHistory(m) /\ AssertStoreSchemaForVersion(m, LastVersion(m.rows))
  BY <1>4, LayeredPasses
<1>6. dbFile' = m /\ opening' = [opening EXCEPT !.at = "metadata"] /\ opening.at = "pending"
      /\ UNCHANGED <<seed, preBackups, openings, openOutcome>>
  BY <1>1, <1>2, <1>5 DEF ApplyPending, Advance
<1> QED
  BY <1>2, <1>3, <1>6

Older == OlderFile /\ OlderCall /\ OlderImages /\ Refusable

\* Nothing but the call and its outcome changes.
LEMMA OlderCallSteps ==
    ASSUME Older, UNCHANGED <<dbFile, seed, preBackups>>, OlderCall', Refusable'
    PROVE  Older'
<1>1. OlderFile'
  BY DEF Older, OlderFile, Layered, Clean, Unlisted, Listed, Founded, Complete, AdoptedId
<1>2. OlderImages'
  BY DEF Older, OlderImages, SeedKept, AdoptedId
<1> QED
  BY <1>1, <1>2 DEF Older

LEMMA OlderBegins ==
    ASSUME OpenShape, Older, NEW pass, BeginOpen(pass) PROVE Older'
<1>1. dbFile.tables # {} /\ UNCHANGED <<dbFile, seed, preBackups>>
  BY LayeredPasses DEF Older, OlderFile, BeginOpen
<1>2. CASE pass \in TooShort
  <2>1. opening' = NoOpening /\ openOutcome'.pass \in TooShort
    BY <1>2 DEF BeginOpen, Refuse
  <2>2. OlderCall' /\ Refusable'
    BY <2>1 DEF OlderCall, Refusable
  <2> QED
    BY <1>1, <2>2, OlderCallSteps
<1>3. CASE pass \notin TooShort
  <2>1. opening'.at = "authenticate" /\ opening'.existing /\ openOutcome'.result = "none"
    <3>1. PICK e : e = (dbFile.tables # {})
      OBVIOUS
    <3>2. e
      BY <1>1, <3>1
    <3>3. /\ opening' = [at |-> IF dbFile.tables # {} THEN "authenticate" ELSE "history",
                        pass |-> pass, existing |-> e, id |-> NoDbId]
          /\ openOutcome' = [result |-> "none", pass |-> pass]
      BY <1>3, <3>1, Zenon DEF BeginOpen
    <3>4. opening'.at = "authenticate" /\ openOutcome'.result = "none"
      BY <1>1, <3>3
    <3>5. opening'.existing
      BY <3>2, <3>3, Zenon
    <3> QED
      BY <3>4, <3>5
  <2>2. OlderCall' /\ Refusable'
    BY <2>1 DEF OlderCall, Refusable
  <2> QED
    BY <1>1, <2>2, OlderCallSteps
<1> QED
  BY <1>2, <1>3

LEMMA OlderAuthenticates ==
    ASSUME OpenShape, Older, opening # NoOpening, Authenticate PROVE Older'
<1>1. /\ ListStoreMigrationsSucceeds(dbFile) /\ "metadata" \in dbFile.tables
      /\ "events" \in dbFile.tables /\ dbFile.salt # NoSalt
      /\ LastVersion(MigrationVersions(dbFile)) < LATEST_STORE_MIGRATION <=> ~Complete(dbFile)
  BY LayeredPasses DEF Older, OlderFile
<1>2. UNCHANGED <<dbFile, seed, preBackups>> /\ opening.at = "authenticate" /\ opening.existing
  BY DEF Authenticate, Older, OlderCall
<1>3. CASE dbFile.pass # opening.pass
  <2>1. opening' = NoOpening /\ openOutcome'.pass # dbFile'.pass
    BY <1>2, <1>3 DEF Authenticate, AuthenticateExistingStore, Refuse
  <2> QED
    BY <1>2, <2>1, OlderCallSteps DEF OlderCall, Refusable
<1>4. CASE dbFile.pass = opening.pass
  <2>1. AdoptedId(dbFile) = AdoptedId(seed)
    BY AdoptedIds DEF Older, OlderFile
  <2>2. PICK a, i : /\ a = IF Complete(dbFile) THEN "history" ELSE "backup"
                    /\ i = AdoptedId(seed)
    OBVIOUS
  <2>3. opening' = [opening EXCEPT !.id = i, !.at = a] /\ openOutcome' = openOutcome
    BY <1>1, <1>4, <2>1, <2>2 DEF Authenticate, AuthenticateExistingStore
  <2>4. opening'.id = i /\ opening'.at = a /\ opening'.existing
    BY <1>2, <2>3 DEF OpenShape
  <2>5. Refusable'
    BY <1>2, <2>3 DEF Older, Refusable
  <2>6. Complete(dbFile') <=> Complete(dbFile)
    BY <1>2
  <2>7. AdoptedId(seed)' = AdoptedId(seed)
    BY <1>2 DEF AdoptedId
  <2>8. OlderCall'
    BY <2>2, <2>4, <2>6, <2>7 DEF OlderCall
  <2> QED
    BY <1>2, <2>5, <2>8, OlderCallSteps
<1> QED
  BY <1>3, <1>4

LEMMA OlderBacksUp ==
    ASSUME OpenShape, Older, opening # NoOpening, WriteBackup PROVE Older'
<1>1. PICK b : b = [image |-> dbFile, id |-> opening.id, versions |-> MigrationVersions(dbFile)]
  OBVIOUS
<1>2. /\ UNCHANGED <<dbFile, seed, openOutcome>> /\ preBackups' = preBackups \cup {b}
      /\ opening.at = "backup" /\ opening' = [opening EXCEPT !.at = "history"]
  BY <1>1 DEF WriteBackup, Advance
<1>3. /\ b.id = AdoptedId(seed) /\ b.id = AdoptedId(b.image) /\ b.versions \in {1 .. 1, 1 .. 2}
      /\ opening.existing
  <2>1. AdoptedId(dbFile) = AdoptedId(seed)
    BY AdoptedIds DEF Older, OlderFile
  <2>2. opening.id = AdoptedId(seed) /\ opening.existing
    BY <1>2 DEF Older, OlderCall
  <2>3. MigrationVersions(dbFile) \in {1 .. 1, 1 .. 2}
    BY LayeredPasses DEF Older, OlderFile
  <2> QED
    BY <1>1, <2>1, <2>2, <2>3
<1>4. AdoptedId(seed)' = AdoptedId(seed)
  BY <1>2 DEF AdoptedId
<1>5. SeedKept' \/ Complete(dbFile)
  <2> SUFFICES ASSUME ~Complete(dbFile) PROVE \E c \in preBackups' : c.image = seed
    BY <1>2 DEF SeedKept
  <2>1. CASE dbFile.tables # seed.tables \/ dbFile.rows # seed.rows
    BY <1>2, <2>1 DEF Older, OlderImages, SeedKept
  <2>2. CASE dbFile.tables = seed.tables /\ dbFile.rows = seed.rows
    <3>1. seed \in Databases
      BY OpeningAssumption DEF OpenShape
    <3>2. dbFile = [seed EXCEPT !.tables = seed.tables, !.rows = seed.rows]
      BY <2>2 DEF Older, OlderFile
    <3>3. dbFile = seed
      BY <3>1, <3>2 DEF Databases
    <3> QED
      BY <1>1, <1>2, <3>3
  <2> QED
    BY <2>1, <2>2
<1>6. OlderImages'
  <2>1. SeedKept => SeedKept'
    BY <1>2 DEF SeedKept
  <2>2. \A c \in preBackups' : /\ c.id = AdoptedId(seed) /\ c.id = AdoptedId(c.image)
                               /\ c.versions \in {1 .. 1, 1 .. 2}
    BY <1>2, <1>3 DEF Older, OlderImages
  <2> QED
    BY <1>2, <1>4, <2>1, <2>2 DEF Older, OlderImages
<1>7. opening'.at = "history" /\ opening'.existing /\ opening'.id = AdoptedId(seed)
  BY <1>2, <1>3 DEF OpenShape, Older, OlderCall
<1>8. OlderCall'
  BY <1>2, <1>4, <1>5, <1>7 DEF OlderCall, Complete
<1>9. OlderFile' /\ Refusable'
  BY <1>2, <1>4 DEF Older, OlderFile, Refusable, Layered, Clean, Unlisted, Listed, Founded, Complete
<1> QED
  BY <1>6, <1>8, <1>9 DEF Older

\* A step that rewrites the tables and the history, and nothing else.
LEMMA OlderRewrites ==
    ASSUME OpenShape, Older, opening # NoOpening,
           NEW t, NEW r, NEW a, a \in {"adopt", "pending", "metadata"},
           UNCHANGED <<seed, preBackups, openOutcome>>,
           dbFile' = [dbFile EXCEPT !.tables = t, !.rows = r],
           opening' = [opening EXCEPT !.at = a],
           opening.at \in {"history", "adopt", "pending"},
           Listed(dbFile') \/ Founded(dbFile') \/ Complete(dbFile'),
           a = "pending" => ~Listed(dbFile'), a = "metadata" => Complete(dbFile'),
           Complete(dbFile) => Complete(dbFile')
    PROVE  Older'
<1>1. AdoptedId(seed)' = AdoptedId(seed)
  BY DEF AdoptedId
<1>2. /\ dbFile'.tables = t /\ dbFile'.rows = r /\ dbFile'.odd = {} /\ dbFile'.untrusted = {}
      /\ dbFile'.salt = dbFile.salt /\ dbFile'.pass = dbFile.pass /\ dbFile'.id = dbFile.id
  BY DEF OpenShape, Older, OlderFile, Layered, Clean
<1>3. OlderFile'
  <2>1. Layered(dbFile')
    BY <1>2 DEF Layered, Clean
  <2>2. ASSUME ~Complete(dbFile')
        PROVE  dbFile' = [seed EXCEPT !.tables = t, !.rows = r]
    <3>1. dbFile = [seed EXCEPT !.tables = dbFile.tables, !.rows = dbFile.rows]
      BY <2>2 DEF Older, OlderFile
    <3> QED
      BY <3>1
  <2>3. ~Complete(dbFile') => dbFile' = [seed EXCEPT !.tables = dbFile'.tables, !.rows = dbFile'.rows]
    BY <1>2, <2>2
  <2>4. /\ dbFile'.salt = seed'.salt /\ dbFile'.salt # NoSalt /\ dbFile'.pass = seed'.pass
        /\ dbFile'.id \in {seed'.id, AdoptedId(seed)'}
    BY <1>1, <1>2 DEF Older, OlderFile
  <2> QED
    BY <2>1, <2>3, <2>4 DEF OlderFile
<1>4. ~Unlisted(dbFile')
  BY <1>2 DEF Unlisted, Listed, Founded, Complete, HistoryTable, CoreTables, Tables
<1>5. SeedKept' <=> SeedKept
  BY DEF SeedKept
<1>6. Complete(dbFile) \/ SeedKept
  BY DEF Older, OlderCall
<1>7. /\ opening'.at = a /\ opening'.existing /\ opening'.id = AdoptedId(seed)
  BY DEF OpenShape, Older, OlderCall
<1>8. OlderCall'
  BY <1>1, <1>4, <1>5, <1>6, <1>7 DEF OlderCall
<1>9. OlderImages'
  <2>1. dbFile'.tables # seed.tables \/ dbFile'.rows # seed.rows => SeedKept
    <3>1. CASE SeedKept
      BY <3>1
    <3>2. CASE ~SeedKept
      <4>1. Complete(dbFile) /\ dbFile.tables = seed.tables /\ dbFile.rows = seed.rows
        BY <1>6, <3>2 DEF Older, OlderImages
      <4> QED
        BY <4>1 DEF Complete
    <3> QED
      BY <3>1, <3>2
  <2> QED
    BY <1>1, <1>5, <2>1 DEF Older, OlderImages
<1>10. Refusable'
  BY <1>2 DEF Older, Refusable
<1> QED
  BY <1>3, <1>8, <1>9, <1>10 DEF Older

LEMMA OlderSteps ==
    ASSUME OpenShape, Older, OpenNext PROVE Older'
<1>0. /\ Layered(dbFile) /\ Clean(dbFile) /\ dbFile = [dbFile EXCEPT !.tables = @]
      /\ dbFile = [dbFile EXCEPT !.tables = dbFile.tables, !.rows = dbFile.rows]
  BY DEF OpenShape, Older, OlderFile, Layered
<1>1. ASSUME opening # NoOpening, CreateHistory PROVE Older'
  <2>1. /\ opening.at = "history"
        /\ dbFile' = [dbFile EXCEPT !.tables = dbFile.tables \cup {HistoryTable}]
        /\ opening' = [opening EXCEPT !.at = "adopt"] /\ UNCHANGED <<seed, preBackups, openOutcome>>
    BY <1>0, <1>1, LayeredPasses DEF CreateHistory, Advance
  <2>2. PICK t : t = dbFile.tables \cup {HistoryTable}
    OBVIOUS
  <2>3. dbFile' = [dbFile EXCEPT !.tables = t, !.rows = dbFile.rows]
    BY <1>0, <2>1, <2>2
  <2>4. dbFile'.tables = t /\ dbFile'.rows = dbFile.rows
    BY <2>3 DEF OpenShape
  <2>5. Complete(dbFile) => Complete(dbFile')
    BY <2>2, <2>4 DEF Complete, Tables
  <2>6. Listed(dbFile') \/ Founded(dbFile') \/ Complete(dbFile')
    BY <1>0, <2>2, <2>4, <2>5 DEF Layered, Unlisted, Listed, Founded
  <2> QED
    BY <1>1, <2>1, <2>3, <2>5, <2>6, OlderRewrites
<1>2. ASSUME opening # NoOpening, AdoptFoundation PROVE Older'
  <2>1. /\ opening.at = "adopt" /\ UNCHANGED <<seed, preBackups, openOutcome>>
        /\ dbFile' = IF dbFile.rows = {} THEN [dbFile EXCEPT !.rows = {1}] ELSE dbFile
        /\ opening' = [opening EXCEPT !.at = "pending"]
    BY <1>0, <1>2, LayeredPasses DEF AdoptFoundation, Advance
  <2>2. PICK r : r = IF dbFile.rows = {} THEN {1} ELSE dbFile.rows
    OBVIOUS
  <2>3. dbFile' = [dbFile EXCEPT !.tables = dbFile.tables, !.rows = r]
    BY <1>0, <2>1, <2>2 DEF OpenShape
  <2>4. dbFile'.tables = dbFile.tables /\ dbFile'.rows = r
    BY <2>3 DEF OpenShape
  <2>5. ~Unlisted(dbFile)
    BY <1>2, <2>1 DEF Older, OlderCall
  <2>6. Complete(dbFile) => Complete(dbFile')
    BY <2>2, <2>4 DEF Complete
  <2>7. Founded(dbFile') \/ Complete(dbFile')
    BY <1>0, <2>2, <2>4, <2>5, <2>6 DEF Layered, Listed, Founded
  <2>8. ~Listed(dbFile')
    BY <2>2, <2>4 DEF Listed
  <2> QED
    BY <1>2, <2>1, <2>3, <2>6, <2>7, <2>8, OlderRewrites
<1>3. ASSUME opening # NoOpening, ApplyPending PROVE Older'
  <2>1. Founded(dbFile) \/ Complete(dbFile)
    BY <1>0, <1>3 DEF ApplyPending, Older, OlderCall, Layered
  <2>2. /\ Complete(dbFile') /\ opening.at = "pending"
        /\ dbFile' = dbFile \/ dbFile' = [dbFile EXCEPT !.tables = Tables, !.rows = {1, 2}]
        /\ opening' = [opening EXCEPT !.at = "metadata"]
        /\ UNCHANGED <<seed, preBackups, openings, openOutcome>>
    BY <1>0, <1>3, <2>1, ApplyPendingResult
  <2>3. PICK t, r : dbFile' = [dbFile EXCEPT !.tables = t, !.rows = r]
    BY <1>0, <2>2
  <2> QED
    BY <1>3, <2>2, <2>3, OlderRewrites
<1>4. ASSUME opening # NoOpening, InsertMetadata PROVE Older'
  <2>1. /\ opening.at = "metadata" /\ opening.existing /\ Complete(dbFile)
        /\ opening.id = AdoptedId(seed)
    BY <1>4 DEF InsertMetadata, Older, OlderCall
  <2>2. PICK i : i = IF dbFile.id = NoDbId THEN opening.id ELSE dbFile.id
    OBVIOUS
  <2>3. /\ dbFile' = [dbFile EXCEPT !.id = i] /\ opening' = [opening EXCEPT !.at = "open"]
        /\ openOutcome' = [openOutcome EXCEPT !.result = "opened"]
        /\ UNCHANGED <<seed, preBackups>>
    BY <1>4, <2>1, <2>2 DEF InsertMetadata, Advance
  <2>4. AdoptedId(seed)' = AdoptedId(seed)
    BY <2>3 DEF AdoptedId
  <2>5. /\ dbFile'.tables = dbFile.tables /\ dbFile'.rows = dbFile.rows /\ dbFile'.id = i
        /\ dbFile'.odd = dbFile.odd /\ dbFile'.untrusted = dbFile.untrusted
        /\ dbFile'.salt = dbFile.salt /\ dbFile'.pass = dbFile.pass
    BY <2>3 DEF OpenShape
  <2>6. i \in {seed.id, AdoptedId(seed)}
    BY <2>1, <2>2 DEF Older, OlderFile
  <2>7. Complete(dbFile') /\ Layered(dbFile')
    BY <1>0, <2>1, <2>5 DEF Complete, Layered, Clean
  <2>8. OlderFile'
    BY <2>3, <2>4, <2>5, <2>6, <2>7 DEF Older, OlderFile
  <2>9. opening'.at = "open" /\ opening'.existing /\ opening'.id = AdoptedId(seed)
    BY <1>4, <2>1, <2>3 DEF OpenShape
  <2>10. OlderCall'
    BY <2>4, <2>7, <2>9 DEF OlderCall
  <2>11. OlderImages'
    BY <2>3, <2>4, <2>5 DEF Older, OlderImages, SeedKept
  <2>12. Refusable'
    BY <2>3 DEF OpenShape, Refusable
  <2> QED
    BY <2>8, <2>10, <2>11, <2>12 DEF Older
<1>5. ASSUME AppendOne PROVE Older'
  <2>1. /\ opening # NoOpening /\ opening.at = "open"
        /\ dbFile' = [dbFile EXCEPT !.count = dbFile.count + 1]
        /\ UNCHANGED <<seed, opening, preBackups, openOutcome>>
    BY <1>5 DEF AppendOne
  <2>2. Complete(dbFile)
    BY <2>1 DEF Older, OlderCall
  <2>3. AdoptedId(seed)' = AdoptedId(seed)
    BY <2>1 DEF AdoptedId
  <2>4. /\ dbFile'.tables = dbFile.tables /\ dbFile'.rows = dbFile.rows /\ dbFile'.id = dbFile.id
        /\ dbFile'.odd = dbFile.odd /\ dbFile'.untrusted = dbFile.untrusted
        /\ dbFile'.salt = dbFile.salt /\ dbFile'.pass = dbFile.pass
    BY <2>1 DEF OpenShape
  <2>5. Complete(dbFile') /\ Layered(dbFile')
    BY <1>0, <2>2, <2>4 DEF Complete, Layered, Clean
  <2>6. OlderFile'
    BY <2>1, <2>3, <2>4, <2>5 DEF Older, OlderFile
  <2>7. OlderCall'
    BY <2>1, <2>3, <2>5 DEF Older, OlderCall
  <2>8. OlderImages' /\ Refusable'
    BY <2>1, <2>3, <2>4 DEF Older, OlderImages, SeedKept, Refusable
  <2> QED
    BY <2>6, <2>7, <2>8 DEF Older
<1>6. ASSUME Stops PROVE Older'
  <2>1. OlderCall' /\ Refusable'
    BY <1>6 DEF Stops, Older, OlderCall, Refusable
  <2> QED
    BY <1>6, <2>1, OlderCallSteps DEF Stops
<1> QED
  BY <1>1, <1>2, <1>3, <1>4, <1>5, <1>6, OlderBegins, OlderAuthenticates, OlderBacksUp DEF OpenNext

\* A store being created.
New ==
    /\ NewFileKept /\ NewCall /\ preBackups = {}
    /\ openOutcome.result = "refused" =>
         \/ openOutcome.pass # dbFile.pass \/ openOutcome.pass \in TooShort
         \/ HalfMade

\* The calls that find the store made meet what an older store does.
LEMMA MadePasses ==
    ASSUME NewFileKept, dbFile.salt # NoSalt
    PROVE  /\ Complete(dbFile) /\ Layered(dbFile) /\ Clean(dbFile)
BY DEF NewFileKept, Layered, Clean

LEMMA NewBegins ==
    ASSUME OpenShape, New, NEW pass, BeginOpen(pass) PROVE New'
<1>1. UNCHANGED <<dbFile, seed, preBackups>>
  BY DEF BeginOpen
<1>2. NewFileKept'
  BY <1>1 DEF New, NewFileKept, Clean, Blank, Begun, Complete
<1>3. CASE pass \in TooShort
  <2>1. opening' = NoOpening /\ openOutcome'.pass \in TooShort
    BY <1>3 DEF BeginOpen, Refuse
  <2> QED
    BY <1>1, <1>2, <2>1 DEF New, NewCall
<1>4. CASE pass \notin TooShort
  <2>1. /\ opening'.at = IF dbFile.tables # {} THEN "authenticate" ELSE "history"
        /\ opening'.existing = (dbFile.tables # {}) /\ openOutcome'.result = "none"
    BY <1>4 DEF BeginOpen
  <2>2. NewCall'
    <3>1. CASE dbFile.tables # {}
      BY <1>1, <2>1, <3>1 DEF NewCall
    <3>2. CASE dbFile.tables = {}
      <4>1. Blank(dbFile)
        BY <3>2 DEF New, NewFileKept, Begun, Complete, Tables, HistoryTable
      <4>2. Blank(dbFile')
        BY <1>1, <4>1 DEF Blank
      <4> QED
        BY <2>1, <3>2, <4>2 DEF NewCall
    <3> QED
      BY <3>1, <3>2
  <2> QED
    BY <1>1, <1>2, <2>1, <2>2 DEF New
<1> QED
  BY <1>3, <1>4

LEMMA NewAuthenticates ==
    ASSUME OpenShape, New, opening # NoOpening, Authenticate PROVE New'
<1>1. /\ UNCHANGED <<dbFile, seed, preBackups>> /\ opening.at = "authenticate"
      /\ opening.existing = TRUE /\ dbFile.tables # {}
  BY DEF Authenticate, New, NewCall
<1>2. NewFileKept'
  BY <1>1 DEF New, NewFileKept, Clean, Blank, Begun, Complete
<1>3. HalfMade' <=> HalfMade
  BY <1>1 DEF HalfMade
<1>4. CASE AuthenticateExistingStore(dbFile, opening.pass)
  <2>1. dbFile.salt # NoSalt /\ Layered(dbFile) /\ Complete(dbFile)
    BY <1>4, MadePasses DEF AuthenticateExistingStore, New
  <2>2. /\ ListStoreMigrationsSucceeds(dbFile)
        /\ ~(LastVersion(MigrationVersions(dbFile)) < LATEST_STORE_MIGRATION)
    BY <2>1, LayeredPasses
  <2>3. PICK i : i = AdoptedId(dbFile)
    OBVIOUS
  <2>4. opening' = [opening EXCEPT !.id = i, !.at = "history"] /\ openOutcome' = openOutcome
    BY <1>4, <2>2, <2>3 DEF Authenticate
  <2>5. opening'.at = "history" /\ opening'.existing = TRUE
    BY <1>1, <2>4 DEF OpenShape
  <2>6. NewCall'
    BY <1>1, <2>1, <2>5 DEF NewCall
  <2> QED
    BY <1>1, <1>2, <1>3, <2>4, <2>6 DEF New
<1>5. CASE ~AuthenticateExistingStore(dbFile, opening.pass)
  <2>1. opening' = NoOpening /\ openOutcome'.pass = opening.pass
    BY <1>5 DEF Authenticate, Refuse
  <2>2. dbFile.pass # opening.pass \/ HalfMade
    <3>1. CASE dbFile.salt # NoSalt
      BY <1>5, <3>1, MadePasses, LayeredPasses DEF AuthenticateExistingStore, New
    <3>2. CASE dbFile.salt = NoSalt
      BY <1>1, <3>2 DEF New, NewCall, HalfMade
    <3> QED
      BY <3>1, <3>2
  <2> QED
    BY <1>1, <1>2, <1>3, <2>1, <2>2 DEF New, NewCall
<1> QED
  BY <1>4, <1>5

LEMMA NewSteps ==
    ASSUME OpenShape, New, seed.tables = {}, OpenNext PROVE New'
<1>0. Clean(dbFile) /\ dbFile = [dbFile EXCEPT !.tables = dbFile.tables, !.rows = dbFile.rows]
  BY DEF OpenShape, New, NewFileKept
<1>1. opening # NoOpening => ~WriteBackup
  BY DEF WriteBackup, New, NewCall
<1>2. ASSUME opening # NoOpening, CreateHistory PROVE New'
  <2>1. \/ opening.existing = FALSE /\ Blank(dbFile)
        \/ opening.existing = TRUE /\ dbFile.salt # NoSalt /\ Complete(dbFile) /\ Layered(dbFile)
    BY <1>2, MadePasses DEF CreateHistory, New, NewCall
  <2>2. /\ HistoryTable \notin dbFile.tables => AssertLegacyCoreSchema(dbFile)
        /\ AssertMigrationHistory(dbFile)
        /\ dbFile.rows # {} => AssertStoreSchemaForVersion(dbFile, LastVersion(dbFile.rows))
    <3>1. CASE Blank(dbFile)
      BY <3>1 DEF Blank, AssertLegacyCoreSchema, AssertMigrationHistory
    <3>2. CASE Layered(dbFile)
      BY <3>2, LayeredPasses
    <3> QED
      BY <2>1, <3>1, <3>2
  <2>3. PICK t : t = dbFile.tables \cup {HistoryTable}
    OBVIOUS
  <2>4. /\ opening.at = "history" /\ dbFile' = [dbFile EXCEPT !.tables = t]
        /\ opening' = [opening EXCEPT !.at = "adopt"] /\ UNCHANGED <<seed, preBackups, openOutcome>>
    BY <1>2, <2>2, <2>3 DEF CreateHistory, Advance
  <2>5. /\ dbFile'.tables = t /\ dbFile'.rows = dbFile.rows /\ dbFile'.salt = dbFile.salt
        /\ dbFile'.odd = dbFile.odd /\ dbFile'.untrusted = dbFile.untrusted
        /\ opening'.at = "adopt" /\ opening'.existing = opening.existing
    BY <1>2, <2>4 DEF OpenShape
  <2>6. t # {}
    BY <2>3
  <2>7. NewFileKept' /\ NewCall'
    <3>1. CASE opening.existing = FALSE /\ Blank(dbFile)
      <4>1. Begun(dbFile') /\ Clean(dbFile') /\ dbFile'.salt = NoSalt
        BY <1>0, <2>3, <2>5, <3>1 DEF Begun, Blank, Clean, New, NewFileKept, Complete, Tables,
                                      HistoryTable
      <4> QED
        BY <2>5, <3>1, <4>1 DEF NewFileKept, NewCall
    <3>2. CASE opening.existing = TRUE /\ dbFile.salt # NoSalt /\ Complete(dbFile)
      <4>1. Complete(dbFile') /\ Clean(dbFile') /\ dbFile'.salt # NoSalt
        BY <1>0, <2>3, <2>5, <3>2 DEF Complete, Clean, Tables
      <4> QED
        BY <2>5, <2>6, <3>2, <4>1 DEF NewFileKept, NewCall
    <3> QED
      BY <2>1, <3>1, <3>2
  <2>8. openOutcome'.result # "refused"
    BY <1>2, <2>4 DEF OpenShape
  <2> QED
    BY <2>4, <2>7, <2>8 DEF New
<1>3. ASSUME opening # NoOpening, AdoptFoundation PROVE New'
  <2>1. \/ opening.existing = FALSE /\ Begun(dbFile)
        \/ opening.existing = TRUE /\ dbFile.salt # NoSalt /\ Complete(dbFile)
    BY <1>3, MadePasses DEF AdoptFoundation, New, NewCall
  <2>2. /\ opening.at = "adopt" /\ dbFile' = dbFile
        /\ opening' = [opening EXCEPT !.at = "pending"] /\ UNCHANGED <<seed, preBackups, openOutcome>>
    BY <1>3, <2>1 DEF AdoptFoundation, Advance, Begun, Complete, HistoryTable
  <2>3. opening'.at = "pending" /\ opening'.existing = opening.existing
    BY <1>3, <2>2 DEF OpenShape
  <2>4. NewFileKept'
    BY <2>2 DEF New, NewFileKept, Clean, Blank, Begun, Complete
  <2>5. NewCall'
    BY <1>3, <2>1, <2>2, <2>3 DEF New, NewCall, Begun, Complete
  <2>6. openOutcome'.result # "refused"
    BY <1>3, <2>2 DEF OpenShape
  <2> QED
    BY <2>2, <2>4, <2>5, <2>6 DEF New
<1>4. ASSUME opening # NoOpening, ApplyPending PROVE New'
  <2>1. \/ opening.existing = FALSE /\ Begun(dbFile)
        \/ opening.existing = TRUE /\ dbFile.salt # NoSalt /\ Complete(dbFile)
    BY <1>4, MadePasses DEF ApplyPending, New, NewCall
  <2>2. /\ Complete(dbFile') /\ Clean(dbFile')
        /\ dbFile' = dbFile \/ dbFile' = [dbFile EXCEPT !.tables = Tables, !.rows = {1, 2}]
        /\ opening' = [opening EXCEPT !.at = "metadata"]
        /\ UNCHANGED <<seed, preBackups, openings, openOutcome>>
    BY <1>0, <1>4, <2>1, ApplyPendingResult
  <2>3. opening'.at = "metadata" /\ opening'.existing = opening.existing
    BY <1>4, <2>2 DEF OpenShape
  <2>4. dbFile'.salt = dbFile.salt /\ dbFile'.tables # {}
    BY <2>2 DEF OpenShape, Complete, Tables, HistoryTable
  <2>5. NewFileKept'
    BY <2>2 DEF NewFileKept
  <2>6. NewCall'
    BY <2>1, <2>2, <2>3, <2>4 DEF NewCall
  <2>7. openOutcome'.result # "refused"
    BY <1>4, <2>2 DEF OpenShape
  <2> QED
    BY <2>2, <2>5, <2>6, <2>7 DEF New
<1>5. ASSUME opening # NoOpening, InsertMetadata PROVE New'
  <2>0. dbFile.salt # NoSalt => Complete(dbFile)
    BY MadePasses DEF New
  <2>1. /\ opening.at = "metadata" /\ Complete(dbFile)
        /\ \/ opening.existing = FALSE
           \/ opening.existing = TRUE /\ dbFile.salt # NoSalt
    BY <1>5, <2>0 DEF InsertMetadata, New, NewCall
  <2>2. /\ opening' = [opening EXCEPT !.at = "open"]
        /\ openOutcome' = [openOutcome EXCEPT !.result = "opened"] /\ UNCHANGED <<seed, preBackups>>
    BY <1>5 DEF InsertMetadata, Advance
  <2>3. PICK salt, pass, id : /\ dbFile' = [dbFile EXCEPT !.salt = salt, !.pass = pass, !.id = id]
                              /\ salt # NoSalt
    <3>1. openings # NoSalt
      BY OpeningAssumption DEF OpenShape
    <3>2. dbFile = [dbFile EXCEPT !.salt = dbFile.salt, !.pass = dbFile.pass]
      BY DEF OpenShape
    <3> QED
      BY <1>5, <2>1, <3>1, <3>2 DEF InsertMetadata
  <2>4. /\ dbFile'.tables = dbFile.tables /\ dbFile'.rows = dbFile.rows /\ dbFile'.salt = salt
        /\ dbFile'.odd = dbFile.odd /\ dbFile'.untrusted = dbFile.untrusted
        /\ opening'.at = "open" /\ opening'.existing = opening.existing
        /\ openOutcome'.result = "opened"
    BY <1>5, <2>2, <2>3 DEF OpenShape
  <2>5. Complete(dbFile') /\ Clean(dbFile') /\ dbFile'.salt # NoSalt /\ dbFile'.tables # {}
    BY <1>0, <2>1, <2>3, <2>4 DEF Complete, Clean, Tables, HistoryTable
  <2>6. NewFileKept' /\ NewCall'
    BY <2>1, <2>4, <2>5 DEF NewFileKept, NewCall
  <2> QED
    BY <2>2, <2>4, <2>6 DEF New
<1>6. ASSUME AppendOne PROVE New'
  <2>1. /\ opening # NoOpening /\ opening.at = "open"
        /\ dbFile' = [dbFile EXCEPT !.count = dbFile.count + 1]
        /\ UNCHANGED <<seed, opening, preBackups, openOutcome>>
    BY <1>6 DEF AppendOne
  <2>2. dbFile.salt # NoSalt /\ Complete(dbFile)
    BY <2>1, MadePasses DEF New, NewCall
  <2>3. /\ dbFile'.tables = dbFile.tables /\ dbFile'.rows = dbFile.rows
        /\ dbFile'.odd = dbFile.odd /\ dbFile'.untrusted = dbFile.untrusted
        /\ dbFile'.salt = dbFile.salt /\ openOutcome.result # "refused"
    BY <2>1 DEF OpenShape
  <2>4. Complete(dbFile') /\ Clean(dbFile') /\ dbFile'.salt # NoSalt
    BY <1>0, <2>2, <2>3 DEF Complete, Clean
  <2>5. NewFileKept' /\ NewCall'
    BY <2>1, <2>2, <2>3, <2>4 DEF New, NewFileKept, NewCall
  <2> QED
    BY <2>1, <2>3, <2>5 DEF New
<1>7. ASSUME Stops PROVE New'
  <2>1. opening' = NoOpening /\ UNCHANGED <<dbFile, seed, preBackups, openOutcome>>
    BY <1>7 DEF Stops
  <2>2. NewFileKept' /\ NewCall' /\ (HalfMade' <=> HalfMade)
    BY <2>1 DEF New, NewFileKept, Clean, Blank, Begun, Complete, NewCall, HalfMade
  <2> QED
    BY <2>1, <2>2 DEF New
<1> QED
  BY <1>1, <1>2, <1>3, <1>4, <1>5, <1>6, <1>7, NewBegins, NewAuthenticates DEF OpenNext

LEMMA OpenSteps == OpenInv /\ [OpenNext]_openVars => OpenInv'
<1>1. ASSUME OpenInv, OpenNext PROVE OpenInv'
  <2>1. seed' = seed
    BY <1>1 DEF OpenNext, BeginOpen, Authenticate, WriteBackup, CreateHistory, AdoptFoundation,
           ApplyPending, InsertMetadata, AppendOne, Stops
  <2>2. OpenShape' /\ ForeignUntouched'
    BY <1>1, OpenShapeSteps, ForeignSteps DEF OpenInv
  <2>3. OlderOpens'
    <3> SUFFICES ASSUME seed \notin Unsupported, seed.tables # {} PROVE Older'
      BY <2>1 DEF OlderOpens, Older
    <3> QED
      BY <1>1, OlderSteps DEF OpenInv, OlderOpens, Older
  <2>4. NewOpens'
    <3> SUFFICES ASSUME seed \notin Unsupported, seed.tables = {} PROVE New'
      BY <2>1 DEF NewOpens, New
    <3> QED
      BY <1>1, NewSteps DEF OpenInv, NewOpens, New
  <2> QED
    BY <2>2, <2>3, <2>4 DEF OpenInv
<1>2. ASSUME OpenInv, UNCHANGED openVars PROVE OpenInv'
  <2>1. UNCHANGED <<dbFile, seed, opening, preBackups, openOutcome, openings>>
    BY <1>2 DEF openVars
  <2>2. OpenShape' /\ ForeignUntouched'
    BY <1>2, <2>1 DEF OpenInv, OpenShape, ForeignUntouched
  <2>3. OlderOpens'
    <3> SUFFICES ASSUME seed \notin Unsupported, seed.tables # {} PROVE Older'
      BY <2>1 DEF OlderOpens, Older
    <3>1. OlderCall' /\ Refusable'
      BY <1>2, <2>1 DEF OpenInv, OlderOpens, OlderCall, Refusable, SeedKept, AdoptedId, Unlisted,
                        Listed, Complete
    <3> QED
      BY <1>2, <2>1, <3>1, OlderCallSteps DEF OpenInv, OlderOpens, Older
  <2>4. NewOpens'
    BY <1>2, <2>1 DEF OpenInv, NewOpens, NewFileKept, NewCall, HalfMade, Clean, Blank, Begun, Complete
  <2> QED
    BY <2>2, <2>3, <2>4 DEF OpenInv
<1> QED
  BY <1>1, <1>2

LEMMA OpenInvSound == OpenInv => OpeningSound
<1> SUFFICES ASSUME OpenInv PROVE OpeningSound
  OBVIOUS
<1>1. OpensAgain
  BY DEF OpenInv, OpensAgain, OlderOpens, NewOpens, Refusable
<1>2. RefusedUntouched
  BY DEF OpenInv, ForeignUntouched, RefusedUntouched
<1>3. KeptBeforeMigration
  <2>1. CASE seed \in Unsupported
    BY <2>1 DEF OpenInv, ForeignUntouched, KeptBeforeMigration
  <2>2. CASE seed \notin Unsupported /\ seed.tables = {}
    BY <2>2 DEF OpenInv, NewOpens, KeptBeforeMigration
  <2>3. CASE seed \notin Unsupported /\ seed.tables # {}
    <3>1. OlderFile /\ OlderImages
      BY <2>3 DEF OpenInv, OlderOpens
    <3>2. dbFile.tables # seed.tables \/ dbFile.rows # seed.rows => \E b \in preBackups : b.image = seed
      BY <3>1 DEF OlderImages, SeedKept
    <3>3. ASSUME NEW b \in preBackups
          PROVE  /\ b.id = AdoptedId(b.image)
                 /\ \E v \in DOMAIN Creates : b.versions = 1 .. v
                 /\ dbFile.id \in {NoDbId, b.id}
      <4>1. 1 \in DOMAIN Creates /\ 2 \in DOMAIN Creates
        BY DEF Creates
      <4>2. b.id = AdoptedId(seed) /\ b.id = AdoptedId(b.image) /\ b.versions \in {1 .. 1, 1 .. 2}
        BY <3>1 DEF OlderImages
      <4>3. dbFile.id \in {NoDbId, b.id}
        BY <3>1, <4>2 DEF OlderFile, AdoptedId
      <4> QED
        BY <4>1, <4>2, <4>3
    <3> QED
      BY <3>2, <3>3 DEF KeptBeforeMigration
  <2> QED
    BY <2>1, <2>2, <2>3
<1> QED
  BY <1>1, <1>2, <1>3 DEF OpeningSound

\* StoreOpening.  What open promises to a store it did not create, wherever an
\* opening is cut off: a store of an earlier build is refused only to another
\* passphrase, one this build cannot read is not touched, and a schema is
\* altered only once an image that restores is kept
\* (encrypted-event-store.ts: open; migrations.ts).
THEOREM OpeningAlwaysSound == OpenSpec => []OpeningSound
<1>1. OpenInit => OpenInv
  BY OpenStarts
<1>2. OpenInv /\ [OpenNext]_openVars => OpenInv'
  BY OpenSteps
<1>3. OpenInv => OpeningSound
  BY OpenInvSound
<1> QED
  BY <1>1, <1>2, <1>3, PTL DEF OpenSpec
=============================================================================
