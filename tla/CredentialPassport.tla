--------------------------- MODULE CredentialPassport ---------------------------
(***************************************************************************)
(* The credential passport (src/src/credentials/): an original is taken    *)
(* apart, its checks are made one after the other against documents the    *)
(* world serves and may change in between, the report decides, and claims  *)
(* are mapped from a verified entry under an approval.                     *)
(*                                                                         *)
(* An original is abstracted to what the checks tell apart: its container, *)
(* the faults its bytes have, who issued it to whom, the window it is      *)
(* valid in, the kind of key and proof, and the services it names.         *)
(*                                                                         *)
(* A claim mapping is a JSON value in the hands of a caller, and nothing   *)
(* here looks behind the signatureReceiptHash of an approval: `given'      *)
(* remembers which approvals a person gave, and to what.                   *)
(***************************************************************************)
EXTENDS Naturals, FiniteSets

CONSTANTS
    Originals,       \* the originals offered (records, see OriginalAssumption)
    NoEntry,
    NoCredJob,
    MaxClockSkew,    \* how far ahead of the clock an approval may be dated
    MaxPlanWindow,   \* MAX_APPROVAL_WINDOW_MS, in the unit of the clock
    MaxCredDay,      \* bound: the clock
    MaxWorldSteps,   \* bound: changes of the issuers' services
    MaxCredOps       \* bound: imports and mappings begun, and edits of a mapping

ASSUME OriginalAssumption ==
    \A o \in Originals :
      /\ {"id", "content", "hint", "container", "holds", "faults", "issuer", "subject", "keyOf",
          "key", "genuine", "from", "until", "status", "refresh", "restricted"} \subseteq DOMAIN o
      /\ o.from \in Nat /\ o.until \in Nat

ASSUME ClockAssumption == MaxClockSkew \in Nat /\ MaxPlanWindow \in Nat \ {0}

VARIABLES
    world,           \* withdrawn keys, revoked contents, the status service, changes made
    credDay,
    credJob,         \* the import in progress, or NoJob
    passports,       \* original id -> its entry, or NoEntry
    mapping,         \* the claim mapping in hand, or NoEntry
    recorded,        \* mapping plans recorded
    given,           \* a ghost: approvals people gave, with what they were shown
    credOps          \* imports and mappings begun, and edits made

credVars == <<world, credDay, credJob, passports, mapping, recorded, given, credOps>>

-----------------------------------------------------------------------------
\* Taking an original apart. A fault of these sets refuses the import.

\* JsonSafetyScanner and parseJsonObjectStrict.
JsonFaults == {"json-trailing-content", "json-depth-exceeded", "json-node-limit-exceeded",
               "json-key-prohibited", "json-duplicate-key", "json-number-out-of-range"}

\* extractPngCredential: whole chunks, their checksums, one credential, nothing after the end.
PngFaults == {"png-crc-invalid", "png-credential-duplicate", "png-credential-missing",
              "png-credential-compressed", "png-trailing-or-missing-end"}

\* extractSvgCredential: one root, one credential, no active content.
SvgFaults == {"svg-xml-entity-prohibited", "svg-active-content-prohibited",
              "svg-credential-cardinality-invalid", "svg-credential-ambiguous"}

ContainerFaults(o) ==
    CASE o.container = "baked-png" -> PngFaults
      [] o.container = "baked-svg" -> SvgFaults
      [] OTHER                     -> {}

\* extractCredentialEnvelope: the hint, when there is one, fits the container,
\* and a textual hint fits what the text holds; sizes are within the limits.
Extracted(o) ==
    /\ o.faults \cap (ContainerFaults(o) \cup {"credential-input-too-large",
                                               "embedded-credential-too-large"}) = {}
    /\ o.hint # "none" =>
         /\ o.hint \in {"baked-png", "baked-svg"} \/ o.container \in {"baked-png", "baked-svg"}
              => o.hint = o.container
         /\ o.hint = "compact-jws" => o.holds = "compact-jws"
         /\ o.hint \in {"json", "json-ld"} => o.holds # "compact-jws"

\* assertJwtBindings: the claims of the envelope repeat those of the credential.
BindingFaults == {"jws-issuer-binding-mismatch", "jws-subject-binding-mismatch",
                  "jws-id-binding-mismatch", "jws-time-binding-mismatch"}

\* assertJwkSafe, assertKidSafe.
EmbeddedKeyFaults == {"jws-private-key-prohibited", "jws-key-type-mismatch", "jws-key-id-invalid",
                      "jws-key-reference-conflict", "jws-key-operations-invalid"}

\* parseCompactJws.
ParsedJws(o) ==
    o.holds = "compact-jws" =>
      o.faults \cap (BindingFaults \cup EmbeddedKeyFaults \cup JsonFaults
                     \cup {"jws-header-field-prohibited", "jws-algorithm-prohibited"}) = {}

\* assertDataIntegrityProofPolicy refuses the import as well.
ProofPolicyFaults == {"credential-proof-type-prohibited", "credential-proof-purpose-invalid",
                      "credential-proof-cryptosuite-prohibited"}

\* validateContext: what is not on the list of contexts refuses the import.
ContextRefused == {"jsonld-inline-context-prohibited", "jsonld-context-not-allowlisted",
                   "jsonld-context-limit-exceeded"}

Importable(o) ==
    /\ Extracted(o) /\ ParsedJws(o)
    /\ o.holds # "compact-jws" => o.faults \cap JsonFaults = {}
    /\ o.faults \cap ContextRefused = {}

\* structuralReasons, with the contexts that did not resolve: these do not
\* refuse the import, they fail its schema check.
StructuralReasons(o) ==
    o.faults \cap {"jsonld-required-context-order-invalid", "jsonld-context-unresolved",
                   "open-badge-credential-type-missing", "credential-achievement-missing",
                   "credential-issuer-invalid", "credential-subject-invalid"}

-----------------------------------------------------------------------------
\* The checks. Each is "pass", "fail", "not-checked" or "not-applicable".

\* createLocalCredentialDocumentLoader: the local trust set resolves did:key
\* material and nothing else of an issuer.
LocalLoads(o) == o.key = "did"

\* The loader in use: the local one, and behind it the one a host supplies.
DocumentLoads(o, deps) == LocalLoads(o) \/ "loader" \in deps

\* keyIdAnchoredToIssuer.
KeyAnchored(o) == o.keyOf = o.issuer

\* extractResolvedKey: exactly one key, which the issuer's document still
\* authorizes for assertions. A did:key document is derived from its own name.
KeyAuthorized(o, w) == o.key = "did" \/ o.issuer \notin w.withdrawn

\* verifyCompactJws: a key embedded in the header needs no document.
JwsVerifies(o, deps, w) ==
    /\ KeyAnchored(o)
    /\ o.key = "embedded" \/ (DocumentLoads(o, deps) /\ KeyAuthorized(o, w))
    /\ "jws-key-strength-invalid" \notin o.faults
    /\ o.genuine

\* verifyDataIntegrity: one proof of the supported suite, by a method the issuer's
\* own document authorizes.
DataIntegrityVerifies(o, deps, w) ==
    /\ "data-integrity-proof-cardinality-unsupported" \notin o.faults
    /\ DocumentLoads(o, deps) /\ KeyAuthorized(o, w) /\ KeyAnchored(o)
    /\ o.genuine

\* verifySignature.
SignatureCheck(o, deps, w) ==
    IF o.key = "none" THEN "not-checked"
    ELSE IF "crypto" \notin deps THEN "not-checked"
    ELSE IF o.holds = "compact-jws"
         THEN IF JwsVerifies(o, deps, w) THEN "pass" ELSE "fail"
         ELSE IF DataIntegrityVerifies(o, deps, w) THEN "pass" ELSE "fail"

\* The status service: it answers, answers without having looked, or throws.
ServiceStates == {"up", "silent", "throws"}

\* verifySchema.
SchemaCheck(o, deps) ==
    IF StructuralReasons(o) # {} THEN "fail"
    ELSE IF "schema" \notin deps THEN "not-checked"
    ELSE IF o.faults \cap {"open-badges-schema-invalid", "schema-verifier-failed"} # {}
         THEN "fail" ELSE "pass"

\* verifyIssuer: the signer a verifier names is the issuer (see KeyAnchored).
IssuerCheck(o, signature) ==
    IF o.issuer = o.subject \/ signature = "fail" THEN "fail"
    ELSE signature

\* verifySubject.
SubjectCheck(o, expected) ==
    IF expected = "any" THEN "not-checked" ELSE IF o.subject = expected THEN "pass" ELSE "fail"

\* verifyTime; an until of 0 is none.
TimeCheck(o, now) ==
    IF \/ o.from > now
       \/ o.until # 0 /\ (o.until <= o.from \/ o.until <= now)
    THEN "fail" ELSE "pass"

\* verifyRefresh: not asked of an original whose signature does not stand.
RefreshCheck(o, deps, signature, w) ==
    IF ~o.refresh THEN "not-applicable"
    ELSE IF signature # "pass" \/ "status" \notin deps \/ w.service = "silent" THEN "not-checked"
    ELSE IF w.service = "throws" \/ "refresh-invalid" \in o.faults THEN "fail" ELSE "pass"

\* Mutated form of RevocationCheck: no answer counts as no status to check.
RevocationCheckOpen(o, deps, w) ==
    IF ~o.status \/ w.service # "up" THEN "not-applicable"
    ELSE IF "status" \notin deps THEN "not-checked"
    ELSE IF o.content \in w.revoked THEN "fail" ELSE "pass"

\* verifyRevocation: a service that answers without having looked leaves the
\* check open; one that throws fails it.
RevocationCheck(o, deps, w) ==
    IF ~o.status THEN "not-applicable"
    ELSE IF "status" \notin deps \/ w.service = "silent" THEN "not-checked"
    ELSE IF w.service = "throws" \/ o.content \in w.revoked THEN "fail" ELSE "pass"

\* verificationReport.
Report(checks) ==
    IF \E c \in DOMAIN checks : checks[c] = "fail" THEN "rejected"
    ELSE IF /\ \A c \in {"schema", "signature", "issuer", "subject", "time"} : checks[c] = "pass"
            /\ \A c \in {"revocation", "refresh"} : checks[c] \in {"pass", "not-applicable"}
         THEN "verified" ELSE "incomplete"

\* assertCredentialPassport: the repository looks at a verified report again.
PassportAccepted(overall, checks) ==
    overall = "verified" =>
      /\ \A c \in {"schema", "signature", "issuer", "subject", "time"} : checks[c] = "pass"
      /\ \A c \in {"revocation", "refresh"} : checks[c] \in {"pass", "not-applicable"}

-----------------------------------------------------------------------------
\* importCredential: one step per await. `now` is read once, at the start.

\* The verifiers of the daemon, and those of a host that supplies all of them.
DaemonDeps == {"crypto"}
HostDeps == {"crypto", "schema", "status", "loader"}

BeginImport(o, deps, expected) ==
    /\ credJob = NoCredJob /\ Importable(o)
    /\ credOps < MaxCredOps /\ credOps' = credOps + 1
    /\ credJob' = [o |-> o, deps |-> deps, expected |-> expected, at |-> credDay,
                   began |-> world.revoked, signature |-> "open", refresh |-> "open"]
    /\ UNCHANGED <<world, credDay, passports, mapping, recorded, given>>

\* A proof outside the policy ends the import without an entry.
RefuseProof ==
    /\ credJob # NoCredJob /\ credJob.signature = "open"
    /\ credJob.o.holds # "compact-jws" /\ credJob.o.faults \cap ProofPolicyFaults # {}
    /\ credJob' = NoCredJob
    /\ UNCHANGED <<world, credDay, passports, mapping, credOps, recorded, given>>

CheckSignature ==
    /\ credJob # NoCredJob /\ credJob.signature = "open"
    /\ credJob.o.holds = "compact-jws" \/ credJob.o.faults \cap ProofPolicyFaults = {}
    /\ credJob' = [credJob EXCEPT !.signature = SignatureCheck(credJob.o, credJob.deps, world)]
    /\ UNCHANGED <<world, credDay, passports, mapping, credOps, recorded, given>>

CheckRefresh ==
    /\ credJob # NoCredJob /\ credJob.signature # "open" /\ credJob.refresh = "open"
    /\ credJob' = [credJob EXCEPT
                     !.refresh = RefreshCheck(credJob.o, credJob.deps, credJob.signature, world)]
    /\ UNCHANGED <<world, credDay, passports, mapping, credOps, recorded, given>>

\* The revocation check, the report, and the entry recorded under the original's
\* hash; an earlier version of the entry and its mappings are replaced.
Record ==
    /\ credJob # NoCredJob /\ credJob.refresh # "open"
    /\ LET o == credJob.o
           checks == [schema     |-> SchemaCheck(o, credJob.deps),
                      signature  |-> credJob.signature,
                      issuer     |-> IssuerCheck(o, credJob.signature),
                      subject    |-> SubjectCheck(o, credJob.expected),
                      time       |-> TimeCheck(o, credJob.at),
                      refresh    |-> credJob.refresh,
                      revocation |-> RevocationCheck(o, credJob.deps, world)]
       IN passports' = IF PassportAccepted(Report(checks), checks)
            THEN [passports EXCEPT ![o.id] =
                   [o |-> o, overall |-> Report(checks), at |-> credJob.at,
                    expected |-> credJob.expected, began |-> credJob.began, mappings |-> {}]]
            ELSE passports
    /\ credJob' = NoCredJob
    /\ UNCHANGED <<world, credDay, mapping, credOps, recorded, given>>

-----------------------------------------------------------------------------
\* Claim mappings (mapping.ts).

\* mappingPayload: the hash covers the claim and the use asked for, and not the
\* use that is allowed.
MappingHash(m) == [content |-> m.content, claim |-> m.claim, public |-> m.public, auto |-> m.auto]

\* createCredentialClaimMapping: of any entry, eligible or not.
CreateMapping(id, public, auto) ==
    /\ passports[id] # NoEntry /\ mapping = NoEntry
    /\ credOps < MaxCredOps /\ credOps' = credOps + 1
    /\ auto => public
    /\ LET hash == MappingHash([content |-> passports[id].o.content, claim |-> "claim",
                               public |-> public, auto |-> auto])
       IN mapping' = [content |-> passports[id].o.content, claim |-> "claim",
                      public |-> public, auto |-> auto,
                      publiclyAssertable |-> FALSE, allowedInAutoApply |-> FALSE,
                      hash |-> hash, status |-> "pending", approval |-> NoEntry]
    /\ UNCHANGED <<world, credDay, credJob, passports, recorded, given>>

\* The caller changes the mapping in its hands: the text of the claim, the use
\* asked for, the use allowed.  It may compute the hash again, and write an
\* approval that nobody gave.
EditMapping(claim, asked, allowed, rehash, approves) ==
    /\ mapping # NoEntry
    /\ credOps < MaxCredOps /\ credOps' = credOps + 1
    /\ LET edited == [mapping EXCEPT !.claim = claim, !.public = asked.public, !.auto = asked.auto,
                                     !.publiclyAssertable = allowed.public,
                                     !.allowedInAutoApply = allowed.auto]
           hash == IF rehash THEN MappingHash(edited) ELSE mapping.hash
           approval == [hash |-> hash, at |-> credDay, expires |-> credDay + 1,
                        public |-> allowed.public, auto |-> allowed.auto]
       IN mapping' = IF approves
                     THEN [edited EXCEPT !.hash = hash, !.status = "approved", !.approval = approval]
                     ELSE [edited EXCEPT !.hash = hash]
    /\ UNCHANGED <<world, credDay, credJob, passports, recorded, given>>

\* assertPassportEntryEligible.
Eligible(id) == passports[id] # NoEntry /\ passports[id].overall = "verified"

\* Mutated form of MappingBound: the hash is not recomputed.
MappingBoundLoosely(id) == mapping.content = passports[id].o.content

\* assertMappingBound.
MappingBound(id) ==
    /\ mapping.content = passports[id].o.content
    /\ mapping.hash = MappingHash(mapping)

\* assertApprovalValid: of this mapping, not run out, no longer than a day, dated
\* ahead of the clock by the skew at most, and no wider than what was asked; a
\* restricted audience admits no public use.
ApprovalValid(id, approval) ==
    /\ approval.hash = mapping.hash
    /\ approval.at < approval.expires /\ approval.expires - approval.at <= MaxPlanWindow
    /\ approval.at <= credDay + MaxClockSkew /\ credDay < approval.expires
    /\ approval.public => mapping.public
    /\ approval.auto => mapping.auto /\ mapping.public /\ approval.public
    /\ approval.public \/ approval.auto => ~passports[id].o.restricted

\* approveCredentialClaimMapping, with the approval of a person who was shown the
\* mapping as it is.
ApproveMapping(id, approval) ==
    /\ mapping # NoEntry /\ mapping.status = "pending" /\ mapping.approval = NoEntry
    /\ Eligible(id) /\ MappingBound(id) /\ ApprovalValid(id, approval)
    /\ mapping' = [mapping EXCEPT !.publiclyAssertable = approval.public,
                                  !.allowedInAutoApply = approval.auto,
                                  !.status = "approved", !.approval = approval]
    /\ given' = given \cup {[approval |-> approval, content |-> mapping.content,
                             claim |-> mapping.claim, public |-> mapping.public,
                             auto |-> mapping.auto]}
    /\ UNCHANGED <<world, credDay, credJob, passports, credOps, recorded>>

\* The use a plan allows is the use its approval allows.
UseApproved(m) ==
    /\ m.publiclyAssertable = m.approval.public
    /\ m.allowedInAutoApply = m.approval.auto

\* addCredentialMapping: everything is checked again at the time of attachment.
AttachMapping(id) ==
    /\ mapping # NoEntry /\ mapping.status = "approved" /\ mapping.approval # NoEntry
    /\ Eligible(id) /\ MappingBound(id)
    /\ ApprovalValid(id, mapping.approval) /\ UseApproved(mapping)
    /\ mapping \notin {m.plan : m \in passports[id].mappings}
    /\ passports' = [passports EXCEPT ![id].mappings = @ \cup {[plan |-> mapping, at |-> credDay]}]
    /\ mapping' = NoEntry
    /\ UNCHANGED <<world, credDay, credJob, credOps, recorded, given>>

\* Mutated form of PlanAccepted: the repository takes the plan as it comes.
PlanAcceptedAsIs(m) == TRUE

\* assertCredentialMappingPlan: the plan is its own, a pending one allows nothing,
\* and an approval is an approval of it, no wider than what it asks for.  Neither
\* the clock nor the entry is looked at.
PlanAccepted(m) ==
    /\ m.hash = MappingHash(m)
    /\ m.auto => m.public
    /\ m.status = "pending" =>
         m.approval = NoEntry /\ ~m.publiclyAssertable /\ ~m.allowedInAutoApply
    /\ m.status = "approved" =>
         LET a == m.approval IN
         /\ a # NoEntry
         /\ a.at < a.expires /\ a.expires - a.at <= MaxPlanWindow
         /\ a.hash = m.hash
         /\ UseApproved(m)
         /\ a.public => m.public
         /\ a.auto => m.auto /\ m.public /\ a.public

\* credential-mapping-record: the plan in the caller's hands becomes a record,
\* eligible entry or not.
RecordPlan ==
    /\ mapping # NoEntry /\ PlanAccepted(mapping)
    /\ recorded' = recorded \cup {mapping} /\ mapping' = NoEntry
    /\ UNCHANGED <<world, credDay, credJob, passports, given, credOps>>

DropMapping ==
    /\ mapping # NoEntry /\ mapping' = NoEntry
    /\ UNCHANGED <<world, credDay, credJob, passports, recorded, given, credOps>>

-----------------------------------------------------------------------------
\* The world.

WorldStep(w) ==
    /\ world.steps < MaxWorldSteps
    /\ world' = [w EXCEPT !.steps = @ + 1]
    /\ UNCHANGED <<credDay, credJob, passports, mapping, credOps, recorded, given>>

Withdraw == \E o \in Originals :
    /\ o.issuer \notin world.withdrawn
    /\ WorldStep([world EXCEPT !.withdrawn = @ \cup {o.issuer}])

RevokeCredential == \E o \in Originals :
    /\ o.content \notin world.revoked
    /\ WorldStep([world EXCEPT !.revoked = @ \cup {o.content}])

StatusService == \E service \in ServiceStates \ {world.service} :
    WorldStep([world EXCEPT !.service = service])

CredTick ==
    /\ credDay < MaxCredDay /\ credDay' = credDay + 1
    /\ UNCHANGED <<world, credJob, passports, mapping, credOps, recorded, given>>

-----------------------------------------------------------------------------

Uses == [public : BOOLEAN, auto : BOOLEAN]

OriginalIds == {o.id : o \in Originals}

CredInit ==
    /\ world = [withdrawn |-> {}, revoked |-> {}, service |-> "up", steps |-> 0]
    /\ credDay = 1 /\ credJob = NoCredJob
    /\ passports = [id \in OriginalIds |-> NoEntry] /\ mapping = NoEntry /\ recorded = {}
    /\ given = {}
    /\ credOps = 0

CredNext ==
    \/ \E o \in Originals, deps \in {DaemonDeps, HostDeps}, expected \in {"any", "user"} :
         BeginImport(o, deps, expected)
    \/ RefuseProof \/ CheckSignature \/ CheckRefresh \/ Record
    \/ RecordPlan \/ DropMapping
    \/ \E claim \in {"claim", "larger-claim"}, asked, allowed \in Uses, rehash, approves \in BOOLEAN :
         EditMapping(claim, asked, allowed, rehash, approves)
    \/ Withdraw \/ RevokeCredential \/ StatusService \/ CredTick
    \/ \E id \in OriginalIds :
         \/ AttachMapping(id)
         \/ \E public, auto \in BOOLEAN :
              \/ CreateMapping(id, public, auto)
              \/ /\ mapping # NoEntry
                 /\ \E at \in 0 .. credDay + MaxClockSkew : \E expires \in {at + 1, at + MaxPlanWindow} :
                      ApproveMapping(id, [hash |-> mapping.hash, at |-> at, expires |-> expires,
                                          public |-> public, auto |-> auto])

CredSpec == CredInit /\ [][CredNext]_credVars

-----------------------------------------------------------------------------
\* Properties.

\* A verified entry is genuine, issued by another than its subject to the expected
\* one, within its window when it was imported, and was not revoked when the import
\* began, whatever the issuer's services did while it ran: an outage of the status
\* service leaves it incomplete (importer.ts:355-470; docs/THREAT_MODEL.md:87).
VerifiedWasSound ==
    \A id \in OriginalIds : Eligible(id) =>
      LET e == passports[id] IN
      /\ e.o.genuine /\ e.o.issuer # e.o.subject /\ e.o.subject = e.expected
      /\ e.o.from <= e.at /\ (e.o.until # 0 => e.at < e.o.until)
      /\ e.o.status => e.o.content \notin e.began

\* What was shown to the person who gave the approval in a plan, if somebody did,
\* is what the plan says.
SaysWhatWasShown(m) ==
    \A g \in given : m.approval = g.approval =>
        /\ m.content = g.content /\ m.claim = g.claim
        /\ m.public = g.public /\ m.auto = g.auto

\* The use a plan allows was asked for, and automatic use is public use.
UseWithinPlan(m) ==
    /\ m.publiclyAssertable => m.public
    /\ m.allowedInAutoApply => m.auto /\ m.publiclyAssertable

\* A claim in the passport is of a verified credential, says what its approver was
\* shown, was attached while the approval stood, and is used no more widely than it
\* was asked for and approved; no claim of a restricted credential is public
\* (mapping.ts:100-232).
ClaimAsApproved ==
    \A id \in OriginalIds : passports[id] # NoEntry => \A m \in passports[id].mappings :
      LET a == m.plan.approval IN
      /\ passports[id].overall = "verified" /\ m.plan.content = passports[id].o.content
      /\ SaysWhatWasShown(m.plan)
      /\ a.at <= m.at + MaxClockSkew /\ m.at < a.expires /\ a.expires <= a.at + MaxPlanWindow
      /\ UseWithinPlan(m.plan) /\ UseApproved(m.plan)
      /\ m.plan.publiclyAssertable => ~passports[id].o.restricted

\* A plan kept as a record says what its approver was shown and allows only what the
\* approval in it does, and before that nothing: text or use changed in the caller's
\* hands, before or after the approval, is not recorded under a genuine approval
\* (decision-intelligence-repositories.ts:237-275).
PlanAsApproved ==
    \A m \in recorded :
      /\ UseWithinPlan(m)
      /\ m.status = "approved" => SaysWhatWasShown(m)
      /\ m.publiclyAssertable \/ m.allowedInAutoApply => m.status = "approved" /\ UseApproved(m)

\* The passport says only what was verified and approved, over outages,
\* revocations and changes made while an import or an approval is under way.
PassportSound == VerifiedWasSound /\ ClaimAsApproved /\ PlanAsApproved
=============================================================================
