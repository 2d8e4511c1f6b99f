-------------------------- MODULE MCAuthorityRecords --------------------------
(* The authority and the computations its commands record, one part per       *)
(* behaviour: the request queue, a dedupe run, the mapping of labels to       *)
(* taxonomy concepts.  The parts share no state; part says which one runs.    *)
EXTENDS MCRuntimeAuthority, DedupeRun, TaxonomyMapping

VARIABLE part

\* Dedupe: one posting and what differs from it by a tracking parameter, a
\* location, a domain, a title that is adjacent or not, a URL without a host.
Posting ==
    [provider |-> "lever", record |-> "r1", company |-> "Acme", domain |-> None,
     title |-> "Engineer", location |-> "Berlin", url |-> "u1", apply |-> "a1", content |-> "c1"]

SomePostings ==
    {Posting,
     [Posting EXCEPT !.provider = "ashby", !.company = "ACME", !.url = "u1?utm",
                     !.apply = None, !.content = None],
     [Posting EXCEPT !.record = "r2"],
     [Posting EXCEPT !.url = "u2", !.location = ""],
     [Posting EXCEPT !.provider = "workday", !.domain = "acme.example", !.url = "u2", !.apply = None],
     [Posting EXCEPT !.provider = "greenhouse", !.domain = "other.example", !.apply = "a2"],
     [Posting EXCEPT !.provider = "smart", !.title = "Developer"],
     [Posting EXCEPT !.provider = "smart", !.title = "Cook"],
     [Posting EXCEPT !.provider = "ashby", !.url = "http:"]}

NormalText ==
    "Acme" :> "acme" @@ "ACME" :> "acme" @@ "Engineer" :> "engineer" @@
    "Developer" :> "developer" @@ "Cook" :> "cook" @@ "Berlin" :> "berlin" @@ "" :> ""

NormalUrl ==
    "u1" :> "u1" @@ "u1?utm" :> "u1" @@ "u2" :> "u2" @@ "a1" :> "a1" @@ "a2" :> "a2" @@
    "http:" :> "invalid"

AdjacentTitles == {{"engineer", "developer"}}

\* Taxonomy: labels that share tokens or differ in case, labels in Greek and
\* Bulgarian and a word of one letter, two sources, a version that is imported
\* again with other content, and concepts whose broader concept is missing.
Label(text, fold, norm, tokens) == [text |-> text, fold |-> fold, norm |-> norm, tokens |-> tokens]
Nurse == Label(1, "care nurse", "care nurse", {"care", "nurse"})
Carer == Label(2, "care", "care", {"care"})
Developer == Label(3, "soft dev", "soft dev", {"soft", "dev"})
SoftDeveloper == Label(4, "dev-soft", "dev soft", {"dev", "soft"})
Engineer == Label(5, "soft eng", "soft eng", {"soft", "eng"})
BigDeveloper == Label(6, "soft dev", "soft dev", {"soft", "dev"})
GreekNurse == Label(7, "greek nurse", "", {})
BulgarianCarer == Label(8, "bulgarian carer", "", {})
ProgrammerInC == Label(9, "c", "c", {})

TaxConcept(preferred, alternates, broader) ==
    [preferred |-> preferred, alternates |-> alternates, broader |-> broader]

TaxBundle(source, version, full, retrieved, published, concepts) ==
    [source |-> source, version |-> version, full |-> full, retrieved |-> retrieved,
     published |-> published, concepts |-> concepts]

Esco(n) == <<"esco", n>>
Onet(n) == <<"onet", n>>

SomeBundles ==
    {TaxBundle("esco", 1, TRUE, 1, 0,
               Esco(1) :> TaxConcept(Nurse, {Carer}, {})
               @@ Esco(2) :> TaxConcept(Developer, {BigDeveloper, Engineer}, {Esco(1)})),
     TaxBundle("esco", 1, FALSE, 1, 0, Esco(1) :> TaxConcept(GreekNurse, {ProgrammerInC}, {Esco(2)})),
     TaxBundle("onet", 1, TRUE, 1, 1,
               Onet(1) :> TaxConcept(SoftDeveloper, {BulgarianCarer}, {})
               @@ Onet(2) :> TaxConcept(Carer, {Nurse}, {Onet(1)})),
     TaxBundle("onet", 1, TRUE, 1, 1, Onet(1) :> TaxConcept(Engineer, {SoftDeveloper}, {})),
     TaxBundle("onet", 2, TRUE, 1, 2, Onet(1) :> TaxConcept(Engineer, {}, {})),
     TaxBundle("onet", 2, TRUE, 2, 2, Onet(1) :> TaxConcept(Engineer, {}, {Onet(2)}))}

ThreeQuarters == <<3, 4>>

RecordsInit ==
    /\ part \in {"requests", "dedupe", "taxonomy"}
    /\ Init /\ DedupeInit /\ TaxonomyInit

RecordsNext ==
    \/ part = "requests" /\ Next /\ UNCHANGED <<part, dedupeVars, taxonomyVars>>
    \/ part = "dedupe" /\ DedupeNext /\ UNCHANGED <<part, vars, taxonomyVars>>
    \/ part = "taxonomy" /\ TaxonomyNext /\ UNCHANGED <<part, vars, dedupeVars>>

RecordsSpec == RecordsInit /\ [][RecordsNext]_<<part, vars, dedupeVars, taxonomyVars>>
=============================================================================
