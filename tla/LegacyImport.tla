----------------------------- MODULE LegacyImport -----------------------------
(***************************************************************************)
(* legacy-import-plan and legacy-import-apply                              *)
(* (src/src/storage/legacy-import.ts, src/src/daemon/authority.ts): the    *)
(* files of an earlier release become events of the encrypted store.       *)
(*                                                                         *)
(* The plan is computed from the files each time, and applying it takes    *)
(* the hash the operator approved.  A rollback backup named by the plan    *)
(* and by the store's head is made before the first event; candidates are  *)
(* then imported one by one, event first and receipt second.  The daemon   *)
(* may die between any two of these steps and the operator applies again.  *)
(* Journals are written but read by nobody, and are left out.              *)
(***************************************************************************)
EXTENDS Naturals, Sequences, FiniteSets

CONSTANTS
    Entries,      \* logical keys of state files, the config and ledger lines
    Contents,     \* contents of an entry
    Broken,       \* the contents that fail their schema
    NoLegJob,
    MaxEdits,     \* bound: edits of the legacy files
    MaxApplies,   \* bound: applications
    MaxKills,     \* bound: crashes of the daemon
    MaxOthers     \* bound: events of other requests

ASSUME LegacyAssumption ==
    /\ Broken \subseteq Contents /\ "other" \notin Entries
    /\ MaxEdits \in Nat /\ MaxApplies \in Nat /\ MaxKills \in Nat /\ MaxOthers \in Nat

VARIABLES
    legacy,       \* the files: a set of entries with their content
    legEvents,    \* the event log: imported candidates and other events
    legReceipts,  \* candidates with a legacy import receipt
    rollbacks,    \* rollback backups: the plan and the head they were made at
    legJob,       \* the application in progress
    applied,      \* plans whose application was answered
    stuck,        \* plans an application of which was refused once approved
    legBudget     \* edits, applications, crashes and other events so far

legVars == <<legacy, legEvents, legReceipts, rollbacks, legJob, applied, stuck, legBudget>>

-----------------------------------------------------------------------------

\* A candidate: the digest covers the entry and its content.
Candidate(entry, content) == <<entry, content>>

Other == <<"other", 0>>

\* planLegacyImport: every readable entry, valid only if all of them are.  A
\* logical key names at most one entry (a duplicate is an error as well).
Plan(files) ==
    [candidates |-> {f \in files : f[2] \notin Broken},
     valid |-> /\ \A f \in files : f[2] \notin Broken
               /\ \A f, g \in files : f[1] = g[1] => f = g]

\* store.hasEvent, and the positions of a candidate's events.
Positions(c) == {i \in DOMAIN legEvents : legEvents[i] = c}

Spend(what, max) == legBudget[what] < max /\ legBudget' = [legBudget EXCEPT ![what] = @ + 1]

LegInit ==
    /\ legacy = {}
    /\ legEvents = <<>>
    /\ legReceipts = {}
    /\ rollbacks = {}
    /\ legJob = NoLegJob
    /\ applied = {} /\ stuck = {}
    /\ legBudget = [edits |-> 0, applies |-> 0, kills |-> 0, others |-> 0]

\* The operator's files change, before or after a plan was approved.
Edit(entry, content) ==
    /\ Spend("edits", MaxEdits)
    /\ \E keep \in {{}, {f \in legacy : f[1] = entry}} :
          legacy' = ((legacy \ {f \in legacy : f[1] = entry}) \cup keep) \cup {Candidate(entry, content)}
    /\ UNCHANGED <<legEvents, legReceipts, rollbacks, legJob, applied, stuck>>

\* legacy-import-apply with an approved hash: the plan is computed again, and
\* one that changed since is refused before anything is written.  An invalid
\* plan is refused by applyLegacyImport, after the backup was made.
Apply ==
    /\ legJob = NoLegJob
    /\ Spend("applies", MaxApplies)
    /\ legJob' = [plan |-> Plan(legacy), head |-> Len(legEvents), step |-> "backup",
                  todo |-> Plan(legacy).candidates, now |-> Other]
    /\ UNCHANGED <<legacy, legEvents, legReceipts, rollbacks, applied, stuck>>

\* Mutated form: the backup's path is not bound to the plan, so that one
\* made for an earlier plan is found there.
BackupUnbound ==
    /\ legJob # NoLegJob /\ legJob.step = "backup"
    /\ rollbacks' = IF rollbacks # {} THEN rollbacks
                    ELSE {[plan |-> legJob.plan, head |-> legJob.head]}
    /\ legJob' = [legJob EXCEPT !.step = "next"]
    /\ UNCHANGED <<legacy, legEvents, legReceipts, applied, stuck, legBudget>>

\* The rollback backup of this plan at this head: created, or found there
\* and checked to be of the same head.
BackupBeforeImport ==
    /\ legJob # NoLegJob /\ legJob.step = "backup"
    /\ rollbacks' = rollbacks \cup {[plan |-> legJob.plan, head |-> legJob.head]}
    /\ legJob' = [legJob EXCEPT !.step = "next"]
    /\ UNCHANGED <<legacy, legEvents, legReceipts, applied, stuck, legBudget>>

Refuse ==
    /\ legJob' = NoLegJob
    /\ stuck' = stuck \cup {legJob.plan}

\* The loop of applyLegacyImport takes the next candidate: one with a receipt
\* must have its authenticated event, one with an event gets its receipt, any
\* other is appended.  The order of event ids, hashes, is any order.
NextCandidate(c) ==
    /\ legJob # NoLegJob /\ legJob.step = "next"
    /\ legJob.plan.valid /\ c \in legJob.todo
    /\ CASE c \in legReceipts /\ Positions(c) = {} -> Refuse
         [] c \in legReceipts /\ Positions(c) # {} ->
              legJob' = [legJob EXCEPT !.todo = @ \ {c}] /\ UNCHANGED stuck
         [] OTHER ->
              /\ legJob' = [legJob EXCEPT !.now = c,
                              !.step = IF Positions(c) = {} THEN "append" ELSE "receipt"]
              /\ UNCHANGED stuck
    /\ UNCHANGED <<legacy, legEvents, legReceipts, rollbacks, applied, legBudget>>

RefuseInvalid ==
    /\ legJob # NoLegJob /\ legJob.step = "next"
    /\ ~legJob.plan.valid
    /\ Refuse
    /\ UNCHANGED <<legacy, legEvents, legReceipts, rollbacks, applied, legBudget>>

\* Mutated form: the receipt is written before the event.
AppendAfterReceipt ==
    /\ legJob # NoLegJob /\ legJob.step = "append"
    /\ \/ /\ legJob.now \notin legReceipts
          /\ legReceipts' = legReceipts \cup {legJob.now}
          /\ UNCHANGED <<legEvents, legJob>>
       \/ /\ legJob.now \in legReceipts
          /\ legEvents' = Append(legEvents, legJob.now)
          /\ legJob' = [legJob EXCEPT !.step = "receipt"]
          /\ UNCHANGED legReceipts
    /\ UNCHANGED <<legacy, rollbacks, applied, stuck, legBudget>>

AppendCandidate ==
    /\ legJob # NoLegJob /\ legJob.step = "append"
    /\ legEvents' = Append(legEvents, legJob.now)
    /\ legJob' = [legJob EXCEPT !.step = "receipt"]
    /\ UNCHANGED <<legacy, legReceipts, rollbacks, applied, stuck, legBudget>>

ReceiptCandidate ==
    /\ legJob # NoLegJob /\ legJob.step = "receipt"
    /\ legReceipts' = legReceipts \cup {legJob.now}
    /\ legJob' = [legJob EXCEPT !.step = "next", !.todo = @ \ {legJob.now}]
    /\ UNCHANGED <<legacy, legEvents, rollbacks, applied, stuck, legBudget>>

\* recordCommand: the application is answered.
FinishApply ==
    /\ legJob # NoLegJob /\ legJob.step = "next"
    /\ legJob.plan.valid /\ legJob.todo = {}
    /\ legEvents' = Append(legEvents, Other)
    /\ applied' = applied \cup {legJob.plan}
    /\ legJob' = NoLegJob
    /\ UNCHANGED <<legacy, legReceipts, rollbacks, stuck, legBudget>>

LegKilled ==
    /\ legJob # NoLegJob
    /\ Spend("kills", MaxKills)
    /\ legJob' = NoLegJob
    /\ UNCHANGED <<legacy, legEvents, legReceipts, rollbacks, applied, stuck>>

\* Another request commits an event between two applications.
OtherEvent ==
    /\ legJob = NoLegJob
    /\ Spend("others", MaxOthers)
    /\ legEvents' = Append(legEvents, Other)
    /\ UNCHANGED <<legacy, legReceipts, rollbacks, legJob, applied, stuck>>

LegNext ==
    \/ \E entry \in Entries, content \in Contents : Edit(entry, content)
    \/ Apply \/ BackupBeforeImport \/ RefuseInvalid \/ AppendCandidate \/ ReceiptCandidate
    \/ \E c \in IF legJob = NoLegJob THEN {} ELSE legJob.todo : NextCandidate(c)
    \/ FinishApply \/ LegKilled \/ OtherEvent

LegSpec == LegInit /\ [][LegNext]_legVars

-----------------------------------------------------------------------------
\* Properties.

\* An imported event can be undone: for every one there is a rollback backup
\* of a plan with it, made at a head before it.  (The path an application
\* answers is of its own head: after a crash it holds the events the earlier
\* attempts had imported.)
RollbackExists ==
    \A i \in DOMAIN legEvents :
        legEvents[i] # Other =>
            \E b \in rollbacks : legEvents[i] \in b.plan.candidates /\ b.head < i

\* However often applications are interrupted and the files change in
\* between, an approved valid plan is never refused, no candidate is imported
\* twice, and an answered application has imported every candidate.
ImportExact ==
    /\ \A p \in stuck : ~p.valid
    /\ \A entry \in Entries, content \in Contents : Cardinality(Positions(Candidate(entry, content))) <= 1
    /\ \A p \in applied : \A c \in p.candidates : Positions(c) # {} /\ c \in legReceipts

\* An import is exact and can be undone, over crashes and edits in between.
ImportSound == RollbackExists /\ ImportExact
=============================================================================
