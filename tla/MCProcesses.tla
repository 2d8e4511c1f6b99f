----------------------------- MODULE MCProcesses -----------------------------
(* Processes that must not get in each other's way, one part per behaviour:   *)
(* two daemons and two offline commands around the lock file, two init        *)
(* clients in one onboarding session, the parser process of a profile import. *)
(* The parts share no state; part says which one runs.                        *)
EXTENDS MCSingleInstance, Onboarding, ProfileParser

VARIABLE part

\* One client always runs the demo; the other one imports a profile as well.
DemoAndProfile == [c \in InitClients |-> IF c = "i1" THEN {"demo"} ELSE {"demo", "profile", "resume"}]

Document(format, bytes, faults) == [format |-> format, bytes |-> bytes, faults |-> faults]

\* Files that parse, one above the size limit, and files the parser refuses.
SomeDocuments ==
    {Document("text", 1, {}), Document("text", 2, {}), Document("pdf", 1, {"pages"}),
     Document("pdf", 1, {"encrypted"}), Document("docx", 1, {"crc"}), Document("docx", 1, {})}

SizeLimit == [format \in {"text", "pdf", "docx"} |-> 1]

\* A line as the parser leaves it: no space at an end, no two in a row.
Trimmed(line) ==
    /\ \A i \in {1, Len(line)} : line[i] # Space
    /\ \A i \in 1 .. Len(line) - 1 : line[i] # Space \/ line[i + 1] # Space

SomeLines == {line \in UNION {[1 .. n -> {"a", Space}] : n \in {2, 5, 7, 9, 10}} : Trimmed(line)}
ShortLines == {line \in SomeLines : Len(line) <= 7}
SomeTexts == {<<line>> : line \in SomeLines} \cup {<<line, next>> : line, next \in ShortLines}

ProcessesInit ==
    /\ part \in {"instance", "onboarding", "parser"}
    /\ Init /\ ObInit /\ ParserInit

ProcessesNext ==
    \/ part = "instance" /\ Next /\ UNCHANGED <<part, obVars, parserVars>>
    \/ part = "onboarding" /\ ObNext /\ UNCHANGED <<part, vars, parserVars>>
    \/ part = "parser" /\ ParserNext /\ UNCHANGED <<part, vars, obVars>>

\* ObFair and ParserFair, each while its part runs.
ProcessesFair ==
    /\ \A c \in InitClients :
         /\ WF_obVars(part = "onboarding" /\ Client(c))
         /\ WF_obVars(part = "onboarding" /\ RunInit(c))
    /\ WF_obVars(part = "onboarding" /\ Tick)
    /\ WF_parserVars(part = "parser" /\ OnTimeout)
    /\ WF_parserVars(part = "parser" /\ OnEscalation)
    /\ WF_parserVars(part = "parser" /\ OnMessage)
    /\ WF_parserVars(part = "parser" /\ OnClose)
    /\ WF_parserVars(part = "parser" /\ Obeys)

ProcessesSpec ==
    ProcessesInit /\ [][ProcessesNext]_<<part, vars, obVars, parserVars>> /\ ProcessesFair
=============================================================================
