-------------------------- MODULE ApplicationTracker --------------------------
(***************************************************************************)
(* The life of an application attempt (src/src/application-lifecycle.ts,   *)
(* src/src/storage/application-tracker.ts) under the two trust registries  *)
(* of the authority (src/src/storage/runtime-repository.ts): approvers,    *)
(* whose signed approval lets an attempt be submitted, and collectors,     *)
(* whose signed proof lets it be confirmed.                                *)
(*                                                                         *)
(* The authority runs one request at a time (RuntimeAuthority), so that    *)
(* every operation is one step; between two of them anything may happen:   *)
(* keys are revoked and registered again, approvals expire, another client *)
(* moves the attempt on, the wall clock is set.  Clients hold arbitrary    *)
(* approvals and proofs signed with any key pair.  A scope stands for      *)
(* opportunity, packet, adapter, reversibility and source domain, and the  *)
(* action intent hash for the scope and the attempt it is computed from.   *)
(***************************************************************************)
EXTENDS Naturals

CONSTANTS
    AttemptIds,     \* random attempt ids
    Scopes,         \* what an attempt is bound to
    KeyIds,         \* key ids of approvers and collectors
    Approvers,      \* registrations of approvers: [by, material]
    Collectors,     \* registrations of collectors: [by, material, scopes, kinds]
    Observations,   \* what a collector saw (see ObservationTypes)
    Skew,           \* tolerated clock skew
    Window,         \* longest validity of an approval
    MaxTime,        \* bound: the wall clock
    MaxVersion,     \* bound: versions of a record
    None            \* absence of a record, a key or a timestamp

Times == 0 .. MaxTime

SUBMISSION_PROOF_KINDS == {"confirmation-page", "ats-dashboard", "sent-items", "receipt-email"}

ObservationTypes ==
    [kind : SUBMISSION_PROOF_KINDS, negative : BOOLEAN, positive : BOOLEAN,
     reference : BOOLEAN, recipient : BOOLEAN, attached : BOOLEAN,
     sentAt : Times \cup {None}]

ASSUME TrackerAssumption ==
    /\ Skew \in Nat /\ Window \in Nat /\ MaxTime \in Nat /\ MaxVersion \in Nat \ {0}
    /\ Observations \subseteq ObservationTypes
    /\ None \notin Times /\ None \notin Approvers /\ None \notin Collectors

VARIABLES
    clock,        \* the wall clock
    approvers,    \* key id -> registration, listTrustedApprovers
    collectors,   \* key id -> registration, listTrustedCollectors
    attempts,     \* attempt id -> the latest version of its record
    ledger        \* confirmation entries, stored with the confirming event

vars == <<clock, approvers, collectors, attempts, ledger>>

-----------------------------------------------------------------------------

\* An approval reference, signed with the private key of material.
Approvals ==
    [by : {a.by : a \in Approvers}, key : KeyIds, material : {a.material : a \in Approvers},
     approvedAt : Times, expiresAt : Times, scope : Scopes, intent : AttemptIds]

\* A submission proof, signed likewise.
Proofs ==
    [by : {c.by : c \in Collectors}, key : KeyIds, material : {c.material : c \in Collectors},
     attempt : AttemptIds, scope : Scopes, capturedAt : Times, seen : Observations]

Statuses == {"prepared", "approved", "submitted_unconfirmed", "confirmed", "blocked"}

\* approval and proof stand for the identifiers the record keeps of them;
\* submittedAt and signer are history: the time of the submission, and who was
\* registered then under the key of the approval.
AttemptRecords ==
    [scope : Scopes, gate : BOOLEAN, status : Statuses, updatedAt : Times,
     approval : Approvals \cup {None}, proof : Proofs \cup {None},
     submittedAt : Times \cup {None}, signer : Approvers \cup {None},
     version : 1 .. MaxVersion]

ASSUME NoneAssumption == None \notin AttemptRecords /\ None \notin Approvals

Init ==
    /\ clock = 0
    /\ approvers = [k \in KeyIds |-> None]
    /\ collectors = [k \in KeyIds |-> None]
    /\ attempts = [a \in AttemptIds |-> None]
    /\ ledger = {}

-----------------------------------------------------------------------------
(* The trust registries.                                                     *)

\* approver-register: a registered key id keeps its material.
ApproverRegister(key, approver) ==
    /\ approvers[key] \in {None, approver}
    /\ approvers' = [approvers EXCEPT ![key] = approver]
    /\ UNCHANGED <<clock, collectors, attempts, ledger>>

ApproverRevoke(key) ==
    /\ approvers' = [approvers EXCEPT ![key] = None]
    /\ UNCHANGED <<clock, collectors, attempts, ledger>>

CollectorRegister(key, collector) ==
    /\ collectors[key] \in {None, collector}
    /\ collectors' = [collectors EXCEPT ![key] = collector]
    /\ UNCHANGED <<clock, approvers, attempts, ledger>>

CollectorRevoke(key) ==
    /\ collectors' = [collectors EXCEPT ![key] = None]
    /\ UNCHANGED <<clock, approvers, attempts, ledger>>

-----------------------------------------------------------------------------
(* The lifecycle operations.                                                 *)

\* tracker-create: a fresh id; the gate passes when no high stakes flag is set.
Create(a, scope, gate) ==
    /\ attempts[a] = None
    /\ attempts' = [attempts EXCEPT ![a] =
                      [scope |-> scope, gate |-> gate, status |-> "prepared", updatedAt |-> clock,
                       approval |-> None, proof |-> None, submittedAt |-> None,
                       signer |-> None, version |-> 1]]
    /\ UNCHANGED <<clock, approvers, collectors, ledger>>

\* current: the record exists and the caller saw its latest version.
Current(a, expectedVersion, status) ==
    /\ attempts[a] # None
    /\ attempts[a].version = expectedVersion
    /\ attempts[a].status = status
    /\ expectedVersion < MaxVersion

\* Mutated form: the action intent is compared without the attempt id.
ValidApprovalAnyAttempt(approval, a) ==
    /\ approvers[approval.key] # None
    /\ approvers[approval.key].by = approval.by
    /\ approvers[approval.key].material = approval.material
    /\ approval.approvedAt <= clock + Skew
    /\ approval.approvedAt < approval.expiresAt
    /\ clock < approval.expiresAt
    /\ approval.expiresAt <= approval.approvedAt + Window
    /\ approval.scope = attempts[a].scope

\* validateApprovalReference.
ValidApproval(approval, a) ==
    /\ approvers[approval.key] # None
    /\ approvers[approval.key].by = approval.by
    /\ approvers[approval.key].material = approval.material
    /\ approval.approvedAt <= clock + Skew
    /\ approval.approvedAt < approval.expiresAt
    /\ clock < approval.expiresAt
    /\ approval.expiresAt <= approval.approvedAt + Window
    /\ approval.scope = attempts[a].scope
    /\ approval.intent = a

\* approveApplicationAttempt.
Approve(a, expectedVersion, approval) ==
    /\ Current(a, expectedVersion, "prepared")
    /\ ValidApproval(approval, a)
    /\ attempts' = [attempts EXCEPT ![a] =
                      [@ EXCEPT !.status = "approved", !.updatedAt = clock, !.approval = approval,
                                !.version = expectedVersion + 1]]
    /\ UNCHANGED <<clock, approvers, collectors, ledger>>

\* The signer is looked up again by identity and key id.
SignerActive(approval) ==
    /\ approvers[approval.key] # None
    /\ approvers[approval.key].by = approval.by

\* Mutated form: the expiry is not checked again.
MarkSubmittedLate(a, expectedVersion) ==
    /\ Current(a, expectedVersion, "approved")
    /\ attempts[a].gate
    /\ attempts[a].approval # None
    /\ SignerActive(attempts[a].approval)
    /\ attempts' = [attempts EXCEPT ![a] =
                      [@ EXCEPT !.status = "submitted_unconfirmed", !.updatedAt = clock,
                                !.submittedAt = clock,
                                !.signer = approvers[attempts[a].approval.key],
                                !.version = expectedVersion + 1]]
    /\ UNCHANGED <<clock, approvers, collectors, ledger>>

\* Mutated form: the signer is not looked up again.
MarkSubmittedUnsigned(a, expectedVersion) ==
    /\ Current(a, expectedVersion, "approved")
    /\ attempts[a].gate
    /\ attempts[a].approval # None
    /\ clock < attempts[a].approval.expiresAt
    /\ attempts' = [attempts EXCEPT ![a] =
                      [@ EXCEPT !.status = "submitted_unconfirmed", !.updatedAt = clock,
                                !.submittedAt = clock,
                                !.signer = approvers[attempts[a].approval.key],
                                !.version = expectedVersion + 1]]
    /\ UNCHANGED <<clock, approvers, collectors, ledger>>

\* markSubmissionAttempted.
MarkSubmitted(a, expectedVersion) ==
    /\ Current(a, expectedVersion, "approved")
    /\ attempts[a].gate
    /\ attempts[a].approval # None
    /\ clock < attempts[a].approval.expiresAt
    /\ SignerActive(attempts[a].approval)
    /\ attempts' = [attempts EXCEPT ![a] =
                      [@ EXCEPT !.status = "submitted_unconfirmed", !.updatedAt = clock,
                                !.submittedAt = clock,
                                !.signer = approvers[attempts[a].approval.key],
                                !.version = expectedVersion + 1]]
    /\ UNCHANGED <<clock, approvers, collectors, ledger>>

\* blockApplicationAttempt.
Block(a, expectedVersion) ==
    /\ attempts[a] # None
    /\ attempts[a].version = expectedVersion
    /\ expectedVersion < MaxVersion
    /\ attempts[a].status # "confirmed"
    /\ attempts' = [attempts EXCEPT ![a] =
                      [@ EXCEPT !.status = "blocked", !.updatedAt = clock,
                                !.version = expectedVersion + 1]]
    /\ UNCHANGED <<clock, approvers, collectors, ledger>>

\* The part of evaluateSubmissionProof about what the collector saw.
SeenCompletion(proof, submittedAt) ==
    /\ ~proof.seen.negative
    /\ IF proof.seen.kind = "sent-items"
       THEN /\ proof.seen.recipient
            /\ proof.seen.attached
            /\ proof.seen.sentAt # None
            /\ submittedAt <= proof.seen.sentAt + Skew
            /\ proof.seen.sentAt <= proof.capturedAt + Skew
       ELSE /\ proof.seen.kind = "ats-dashboard" => proof.seen.reference
            /\ proof.seen.positive

\* evaluateSubmissionProof returns "confirmed".
ValidProof(proof, a) ==
    LET collector == collectors[proof.key] IN
    /\ collector # None
    /\ collector.by = proof.by
    /\ proof.scope \in collector.scopes
    /\ proof.seen.kind \in collector.kinds
    /\ proof.attempt = a
    /\ proof.scope = attempts[a].scope
    /\ attempts[a].updatedAt <= proof.capturedAt + Skew
    /\ proof.capturedAt <= clock + Skew
    /\ collector.material = proof.material
    /\ SeenCompletion(proof, attempts[a].updatedAt)

\* confirmApplicationAttempt and confirmationLedgerEntry, in one event.
Confirm(a, expectedVersion, proof) ==
    /\ Current(a, expectedVersion, "submitted_unconfirmed")
    /\ ValidProof(proof, a)
    /\ attempts[a].gate /\ attempts[a].approval # None   \* confirmationLedgerEntry
    /\ attempts' = [attempts EXCEPT ![a] =
                      [@ EXCEPT !.status = "confirmed", !.updatedAt = clock, !.proof = proof,
                                !.version = expectedVersion + 1]]
    /\ ledger' = ledger \cup {[attempt |-> a, scope |-> attempts[a].scope, proof |-> proof]}
    /\ UNCHANGED <<clock, approvers, collectors>>

-----------------------------------------------------------------------------

\* The wall clock moves on, or is set.
SetClock(time) ==
    /\ clock' = time
    /\ UNCHANGED <<approvers, collectors, attempts, ledger>>

Registry(key) ==
    \/ \E approver \in Approvers : ApproverRegister(key, approver)
    \/ ApproverRevoke(key)
    \/ \E collector \in Collectors : CollectorRegister(key, collector)
    \/ CollectorRevoke(key)

Lifecycle(a) ==
    \/ \E scope \in Scopes, gate \in BOOLEAN : Create(a, scope, gate)
    \/ \E v \in 1 .. MaxVersion :
         \/ \E approval \in Approvals : Approve(a, v, approval)
         \/ MarkSubmitted(a, v)
         \/ Block(a, v)
         \/ \E proof \in Proofs : Confirm(a, v, proof)

Next ==
    \/ \E key \in KeyIds : Registry(key)
    \/ \E a \in AttemptIds : Lifecycle(a)
    \/ \E time \in Times : SetClock(time)

Spec == Init /\ [][Next]_vars

-----------------------------------------------------------------------------

Entries == [attempt : AttemptIds, scope : Scopes, proof : Proofs]

(* The type invariant of the registries, the attempts and the ledger.        *)
TypeOK ==
    /\ clock \in Times
    /\ approvers \in [KeyIds -> Approvers \cup {None}]
    /\ collectors \in [KeyIds -> Collectors \cup {None}]
    /\ attempts \in [AttemptIds -> AttemptRecords \cup {None}]
    /\ ledger \subseteq Entries

Exists(a) == attempts[a] # None

(* What holds at every stage of an attempt: an approval on record names this *)
(* attempt, a prepared attempt has none and an approved one has, and a       *)
(* submitted attempt passed the high stakes gate before its approval expired *)
(* and while its signer was registered.                                      *)
StagesEarned ==
    \A a \in AttemptIds : Exists(a) =>
        LET record == attempts[a] IN
        /\ record.approval # None => record.approval.intent = a
        /\ record.status = "prepared" => record.approval = None
        /\ record.status \in {"approved", "submitted_unconfirmed", "confirmed"} =>
               record.approval # None
        /\ record.status = "submitted_unconfirmed" =>
               /\ record.gate
               /\ record.submittedAt = record.updatedAt
               /\ record.submittedAt < record.approval.expiresAt
               /\ record.signer # None /\ record.signer.by = record.approval.by

(* No approval authorises two attempts, whatever is replayed ("Replaying     *)
(* approval against another ... application attempt fails closed",           *)
(* SAFETY.md:25).                                                            *)
ApprovalUsedOnce ==
    \A a, b \in AttemptIds :
        Exists(a) /\ Exists(b) /\ a # b /\ attempts[a].approval # None =>
            attempts[a].approval # attempts[b].approval

(* The ledger is earned: an entry exists exactly for the confirmed attempts, *)
(* one for each, and behind it stand a passed high stakes gate, an approval  *)
(* that had not expired and whose signer was registered when the attempt was *)
(* submitted, and a proof of that very attempt captured no earlier than the  *)
(* submission, up to clock skew.                                             *)
LedgerEarned ==
    /\ \A a \in AttemptIds : Exists(a) /\ attempts[a].status = "confirmed" =>
           [attempt |-> a, scope |-> attempts[a].scope, proof |-> attempts[a].proof] \in ledger
    /\ \A entry \in ledger :
           LET record == attempts[entry.attempt] IN
           /\ Exists(entry.attempt)
           /\ record.status = "confirmed"
           /\ record.gate
           /\ record.proof = entry.proof
           /\ record.proof.attempt = entry.attempt
           /\ record.submittedAt < record.approval.expiresAt
           /\ record.signer # None /\ record.signer.by = record.approval.by
           /\ record.submittedAt <= record.proof.capturedAt + Skew

(* What counts as submitted was earned, each time by evidence of its own.    *)
SubmissionsEarned == LedgerEarned /\ ApprovalUsedOnce

\* A step that rewrites nothing an earlier step settled.
HistoryStep ==
    /\ \A a \in AttemptIds : Exists(a) =>
          /\ attempts'[a] # None
          /\ attempts'[a].scope = attempts[a].scope
          /\ attempts[a].approval # None => attempts'[a].approval = attempts[a].approval
          /\ attempts[a].status = "confirmed" => attempts'[a] = attempts[a]
          /\ attempts[a].status = "blocked" => attempts'[a].status = "blocked"
    /\ ledger \subseteq ledger'

(* What was approved is what is submitted and confirmed: once an attempt is  *)
(* approved neither its scope nor its approval changes, a confirmed attempt  *)
(* never changes again, a blocked one is never revived, and the ledger only  *)
(* grows.                                                                    *)
HistoryKept == [][HistoryStep]_vars
=============================================================================
