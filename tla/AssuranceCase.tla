--------------------------- MODULE AssuranceCase ---------------------------
(***************************************************************************)
(* The career assurance case (src/src/assurance/case.ts): the argument for *)
(* one career decision, bound by hashes to the evidence, policies and      *)
(* versions it was made from, approved by people other than its generator, *)
(* certified independently, and evaluated again each time somebody means   *)
(* to act on it.                                                           *)
(*                                                                         *)
(* A case is a file: between two commands it can be edited by hand, with   *)
(* or without its hashes being recomputed, its approvals run out, and the  *)
(* evidence it cites changes.  A SHA-256 hash is modelled by the value it  *)
(* is taken of, so two hashes are equal exactly when the contents are.     *)
(* Nothing in this code looks behind a signatureReceiptHash, so that a     *)
(* file may hold approvals nobody signed and a certificate nobody gave:    *)
(* `signed' and `certified' remember what people really did, and the code  *)
(* never reads them.  observedAt stands for every time that a draft may    *)
(* not put after its creation.  Receipts, whose scope is checked like an   *)
(* approval's, are left out.                                               *)
(***************************************************************************)
EXTENDS Integers, FiniteSets

CONSTANTS
  Agents,             \* a principal together with the component it works through
  Drafts,             \* the drafts a command may be given: see DraftType
  Pasted,             \* approvals a file may be given though nobody signed them
  MaxWindow,          \* MAX_APPROVAL_WINDOW_MS, in days
  MaxCaseDay,         \* bound: the last day
  MaxChanges,         \* bound: how often the world changes
  MaxSigned,          \* bound: approvals ever signed, and certificates ever given
  MaxEdits            \* bound: how often the file is changed by hand

VARIABLES
  aDay,       \* the clock, in days
  current,    \* the versions of the evidence and of the policies as they are now
  seen,       \* the --current-state file: `current' when it was written
  signed,     \* history: every approval a person gave
  certified,  \* history: every certification a person gave
  file,       \* the case file, or NoCase
  edits

assuranceVars == <<aDay, current, seen, signed, certified, file, edits>>

Days == 0 .. MaxCaseDay + MaxWindow + 1
NoCase == [none |-> "case"]
NoCertificate == [none |-> "certificate"]

(* What a draft binds: the versions, when its evidence was seen and goes   *)
(* stale, and the state of what speaks for and against the decision.       *)
ContentType ==
  [evidence : Nat, policy : Nat, observedAt : Days, freshUntil : Days,
   recommendation : {"proceed", "defer", "decline"}, highStakes : BOOLEAN,
   hard : {"none", "unresolved", "resolved", "accepted"},
   soft : {"none", "unresolved", "resolved", "accepted"},
   material : {"none", "unresolved", "resolved"},
   outcome : {"allow", "deny", "manual-review"}]

DraftType == [caseId : STRING, createdAt : Days, generator : Agents, content : ContentType]

ApprovalType ==
  [by : {x.principal : x \in Agents}, scope : ContentType, at : Days, until : Days,
   acknowledges : BOOLEAN]

ASSUME AssuranceConstants ==
  /\ Agents \subseteq [principal : STRING, component : STRING]
  /\ Drafts \subseteq DraftType
  /\ Pasted \subseteq ApprovalType
  /\ MaxWindow \in Nat \ {0} /\ MaxCaseDay \in Nat /\ MaxChanges \in Nat /\ MaxSigned \in Nat
  /\ MaxEdits \in Nat

----------------------------------------------------------------------------
(* The hashes.  The binding hash is what an approval names: it leaves out  *)
(* the id of the case, its creation, its generator and its approvals, so   *)
(* that an approval of one draft serves every other of the same content.   *)
(* The case hash has everything but the certificate.                       *)

BindingHash(c) == c.draft.content

(* Mutated form: the case hash leaves the approvals out, as the binding    *)
(* hash does.                                                              *)
CaseHashNoApprovals(c) == [draft |-> c.draft, approvals |-> {}, bindingHash |-> c.bindingHash]

CaseHash(c) == [draft |-> c.draft, approvals |-> c.approvals, bindingHash |-> c.bindingHash]

(* The file built from a draft, with its hashes. *)
CaseOf(d, approvals, certificate) ==
  LET c == [draft |-> d, approvals |-> approvals, bindingHash |-> d.content] IN
  [draft |-> d, approvals |-> approvals, bindingHash |-> d.content, caseHash |-> CaseHash(c),
   certification |-> certificate]

(* The two checks that keep an agent from judging its own work.            *)
Separate(x, generator) ==
  x.principal # generator.principal /\ x.component # generator.component

(* invariantReasons: what no case may be, whoever reads it and whenever.   *)
InvariantsHold(c) ==
  LET b == c.draft.content  k == c.certification IN
  /\ b.observedAt <= c.draft.createdAt
  /\ b.observedAt < b.freshUntil
  /\ b.hard # "accepted"
  /\ \A a \in c.approvals :
       /\ a.scope = c.bindingHash
       /\ a.by # c.draft.generator.principal
       /\ a.at < a.until
       /\ a.until - a.at <= MaxWindow
       /\ a.acknowledges => b.soft # "none"
  /\ k # NoCertificate => /\ Separate(k.by, c.draft.generator)
                          /\ k.of = c.caseHash
                          /\ c.draft.createdAt <= k.at

(* currentStateReasons *)
MatchesState(b, state) == /\ b.evidence = state.evidence
                          /\ b.policy = state.policy

Fresh(b, now) == now < b.freshUntil

(* The integrity half of evaluateCareerAssuranceCase: the invariants, the  *)
(* two hashes, and freshness; the current state only when one is given.    *)
IntegrityHolds(c, now) ==
  /\ InvariantsHold(c)
  /\ c.bindingHash = BindingHash(c)
  /\ c.caseHash = CaseHash(c)
  /\ Fresh(c.draft.content, now)

(* Mutated form: an approval that ran out still counts. *)
ActiveApprovalsForever(c, now) ==
  {a \in c.approvals : /\ a.scope = c.bindingHash
                       /\ a.by # c.draft.generator.principal
                       /\ a.at <= now}

ActiveApprovals(c, now) ==
  {a \in c.approvals : /\ a.scope = c.bindingHash
                       /\ a.by # c.draft.generator.principal
                       /\ a.at <= now
                       /\ now < a.until}

RequiresApproval(b) == b.highStakes \/ b.outcome = "manual-review"

(* actionBlockers, without the recommendation itself. *)
Blocked(c, now) ==
  LET b == c.draft.content  active == ActiveApprovals(c, now) IN
  \/ ~Fresh(b, now)
  \/ b.material = "unresolved"
  \/ b.hard \in {"unresolved", "accepted"}
  \/ b.outcome = "deny"
  \/ RequiresApproval(b) /\ active = {}
  \/ b.soft \in {"unresolved", "accepted"} /\ ~\E a \in active : a.acknowledges

IsCertified(c) ==
  LET k == c.certification IN
  k # NoCertificate /\ Separate(k.by, c.draft.generator) /\ k.of = c.caseHash

(* evaluateCareerAssuranceCase with a current state, as "assurance         *)
(* validate" and assertCareerAssuranceCaseActionable ask it.               *)
Actionable(c, state, now) ==
  /\ IntegrityHolds(c, now)
  /\ MatchesState(c.draft.content, state)
  /\ c.draft.content.recommendation = "proceed"
  /\ ~Blocked(c, now)
  /\ IsCertified(c)

----------------------------------------------------------------------------
(* What goes on around the case. *)

ADay == /\ aDay < MaxCaseDay
        /\ aDay' = aDay + 1
        /\ UNCHANGED <<current, seen, signed, certified, file, edits>>

WorldChanges(part) ==
  /\ current.evidence + current.policy < MaxChanges
  /\ current' = [current EXCEPT ![part] = @ + 1]
  /\ UNCHANGED <<aDay, seen, signed, certified, file, edits>>

(* Somebody writes the --current-state file. *)
CaptureState == /\ seen' = current
                /\ UNCHANGED <<aDay, current, signed, certified, file, edits>>

(* A person approves the content of a draft, for some days. *)
Sign(p, d, days, acknowledges) ==
  /\ Cardinality(signed) < MaxSigned
  /\ signed' = signed \cup {[by |-> p, scope |-> d.content, at |-> aDay, until |-> aDay + days,
                             acknowledges |-> acknowledges]}
  /\ UNCHANGED <<aDay, current, seen, certified, file, edits>>

(* createCareerAssuranceCase, and assurance-case-record after it: the      *)
(* repository evaluates the case as of the time it says it was created.    *)
Build(d, approvals) ==
  LET c == CaseOf(d, approvals, NoCertificate) IN
  /\ InvariantsHold(c)
  /\ d.content.recommendation = "proceed" => ~Blocked(c, aDay)
  /\ IntegrityHolds(c, d.createdAt)
  /\ file' = c
  /\ UNCHANGED <<aDay, current, seen, signed, certified, edits>>

(* The file is changed by hand: another draft, approvals or certificate,   *)
(* with the hashes recomputed or left as they were.                        *)
EditFile(d, approvals, certificate, rehash) ==
  /\ file # NoCase
  /\ edits < MaxEdits
  /\ edits' = edits + 1
  /\ file' = IF rehash THEN CaseOf(d, approvals, certificate)
             ELSE [file EXCEPT !.draft = d, !.approvals = approvals,
                               !.certification = certificate]
  /\ UNCHANGED <<aDay, current, seen, signed, certified>>

(* What an editor may put in the place of the certificate: one of another  *)
(* case, or one that nobody gave.                                          *)
CertificatesAtHand(d, approvals) ==
  {file.certification} \cup {g.certificate : g \in certified}
  \cup {[by |-> x, at |-> aDay, of |-> CaseOf(d, approvals, NoCertificate).caseHash] : x \in Agents}

(* certifyCareerAssuranceCase, at operation time now.                      *)
Certify(x, at, now) ==
  LET k == [by |-> x, at |-> at, of |-> file.caseHash]
      c == [file EXCEPT !.certification = k] IN
  /\ file # NoCase
  /\ Cardinality(certified) < MaxSigned
  /\ Separate(x, file.draft.generator)
  /\ file.draft.createdAt <= at /\ at <= now
  /\ IntegrityHolds(file, now)
  /\ IntegrityHolds(c, now) /\ IsCertified(c)
  /\ file' = c
  /\ certified' = certified \cup {[certificate |-> k, draft |-> file.draft,
                                   approvals |-> file.approvals]}
  /\ UNCHANGED <<aDay, current, seen, signed, edits>>

----------------------------------------------------------------------------
AssuranceInit ==
  /\ aDay = 0
  /\ current = [evidence |-> 0, policy |-> 0]
  /\ seen = current
  /\ signed = {} /\ certified = {}
  /\ file = NoCase
  /\ edits = 0

AssuranceNext ==
  \/ ADay
  \/ \E part \in {"evidence", "policy"} : WorldChanges(part)
  \/ CaptureState
  \/ \E x \in Agents, d \in Drafts, days \in 1 .. MaxWindow + 1, ack \in BOOLEAN :
       Sign(x.principal, d, days, ack)
  \/ \E d \in Drafts, approvals \in SUBSET (signed \cup Pasted) : Build(d, approvals)
  \/ /\ file # NoCase
     /\ \E d \in Drafts, approvals \in SUBSET (signed \cup Pasted), rehash \in BOOLEAN :
          \E k \in CertificatesAtHand(d, approvals) : EditFile(d, approvals, k, rehash)
  \/ \E x \in Agents, at \in 0 .. aDay : \E now \in {at, aDay} : Certify(x, at, now)

AssuranceSpec == AssuranceInit /\ [][AssuranceNext]_assuranceVars

----------------------------------------------------------------------------
(* Whenever the evaluation would answer "actionable", the evidence and     *)
(* policies the case was built on are the ones in the state file and the   *)
(* evidence is still fresh; and as far as its signatures are genuine, the  *)
(* answer is earned by what people did.  A genuine certificate was given   *)
(* to this very draft with these very approvals, through edits, recomputed *)
(* hashes and certificates taken from other cases.  If the approvals are   *)
(* genuine, a decision that needs one, or has a soft objection still open, *)
(* has one from somebody else than this draft's generator, given to this   *)
(* content (perhaps in another draft of it), not yet run out, that         *)
(* acknowledges the objection (case.ts, evaluateCareerAssuranceCase).      *)
ActionableEarned ==
  file # NoCase /\ Actionable(file, seen, aDay) =>
    LET d == file.draft
        b == file.draft.content
        good == {s \in signed : /\ s.scope = b
                                /\ s.by # d.generator.principal
                                /\ s.at <= aDay /\ aDay < s.until} IN
    /\ seen.evidence = b.evidence
    /\ seen.policy = b.policy
    /\ aDay < b.freshUntil
    /\ \A g \in certified : file.certification = g.certificate =>
         /\ g.draft = d
         /\ g.approvals = file.approvals
         /\ Separate(g.certificate.by, d.generator)
    /\ file.approvals \subseteq signed =>
         /\ b.highStakes \/ b.outcome = "manual-review" => good # {}
         /\ b.soft \in {"unresolved", "accepted"} => \E s \in good : s.acknowledges
=============================================================================
