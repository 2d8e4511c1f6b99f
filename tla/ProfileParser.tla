--------------------------- MODULE ProfileParser ---------------------------
(***************************************************************************)
(* Reading a profile document (src/src/import): the parser process the     *)
(* daemon forks for one file, with its time limit and its escalation from  *)
(* SIGTERM to SIGKILL (parseProfileArtifact), what that process checks     *)
(* before it answers (profile-parser-worker.ts), and the import plan cut   *)
(* from the text it extracted (createProfileImportPlan).                   *)
(*                                                                         *)
(* A file is its format, its size and the set of things wrong with it that *)
(* the checks look for; what a check computes from bytes is not modelled.  *)
(* A line of text is a sequence of characters, Space among them, as it is  *)
(* after trimming.  Deaths of processes, signals and pipes are external,   *)
(* modelled as Node documents them: "close" comes after the last message.  *)
(***************************************************************************)
EXTENDS Integers, Sequences, FiniteSets

CONSTANTS
  Documents,              \* the documents: [format, bytes, faults]
  MaxBytes,           \* format -> PROFILE_IMPORT_LIMITS of that format
  Characters,         \* what a line is made of
  Texts,              \* what may be extracted: sequences of lines
  Space,              \* the character a long line is cut at
  MinLine,            \* a shorter line is no candidate (3)
  MaxCandidate,       \* MAX_CANDIDATE_CHARACTERS
  MaxCandidates,      \* MAX_CANDIDATES
  MaxParses           \* bound: documents parsed

ASSUME ParserConstants ==
  /\ Texts \subseteq Seq(Seq(Characters))
  /\ MinLine \in Nat \ {0} /\ MaxCandidate \in Nat /\ MaxCandidate >= MinLine
  /\ MaxCandidates \in Nat /\ MaxParses \in Nat

VARIABLES
  document,  \* the file being parsed, or NoFile
  parses,    \* how many were started
  parser,    \* the process: "none", "running", "sent", "gone" (ended), "closed" (close seen)
  hung,      \* the process no longer obeys SIGTERM
  signals,   \* signals sent to it and not yet obeyed
  reply,     \* its message on the channel, or NoReply
  call,      \* parseProfileArtifact: [settled, timedOut, timer, escalation]
  plan       \* the plan being cut: [phase, text, at, rest, cut, seen, out]

parserVars == <<document, parses, parser, hung, signals, reply, call, plan>>

NoDocument == [none |-> "file"]
NoReply == "none"
Idle == [settled |-> "no", timedOut |-> FALSE, timer |-> "off", escalation |-> "off"]
NoImportPlan == [phase |-> "none", text |-> <<>>, at |-> 0, rest |-> <<>>, cut |-> <<>>,
           seen |-> {}, out |-> <<>>]

----------------------------------------------------------------------------
(* What the checks refuse. *)

BoundedSource(f) == f.bytes > 0 /\ f.bytes <= MaxBytes[f.format]

(* Read off the archive's directory, without inflating anything. *)
DocxDirectoryFaults == {"end-record", "zip64", "entry-limits", "entry-ratio", "entry-name",
                        "duplicate-name", "active-part", "missing-part", "local-header", "overlap"}
(* Found only by inflating the entries. *)
DocxDataFaults == {"crc", "inflated-length", "doctype"}

PdfStructureFaults == {"header", "trailer", "object-limits", "stream-length", "object-streams",
                       "encrypted", "active-name"}
(* Found only by loading the document. *)
PdfDocumentFaults == {"pages", "attachments", "actions", "text-limits"}

Preflight(f) ==
  /\ BoundedSource(f)
  /\ f.format = "docx" => f.faults \cap DocxDirectoryFaults = {}
  /\ f.format = "pdf" => f.faults \cap PdfStructureFaults = {}

ParsePdf(f) == f.faults \cap PdfDocumentFaults = {}
ParseDocx(f) == f.faults \cap DocxDataFaults = {}
ParseUtf8(f) == "utf8" \notin f.faults

(* parseProfileBuffer: the process repeats the preflight of the daemon. *)
Parses(f) ==
  /\ Preflight(f)
  /\ "text-length" \notin f.faults
  /\ f.format = "pdf" => ParsePdf(f)
  /\ f.format = "docx" => ParseDocx(f)
  /\ f.format = "text" => ParseUtf8(f)

----------------------------------------------------------------------------
(* parseProfileArtifact.  Settling clears the time limit, and the          *)
(* escalation too unless the caller still needs it.                        *)

Settled(c, how, keepEscalation) ==
  [c EXCEPT !.settled = how, !.timer = "off",
            !.escalation = IF keepEscalation THEN @ ELSE "off"]

(* Mutated form: settling always clears both timers. *)
SettledClearing(c, how) == Settled(c, how, FALSE)

SettledKeeping(c, how) == Settled(c, how, TRUE)

Ended == parser \in {"none", "closed"}

StartParse(f) ==
  /\ parses < MaxParses
  /\ Ended /\ plan.phase \in {"none", "done", "refused"}
  /\ document' = f
  /\ parses' = parses + 1
  /\ hung' = FALSE /\ signals' = {} /\ reply' = NoReply /\ plan' = NoImportPlan
  /\ \/ /\ ~Preflight(f)
        /\ parser' = "none"
        /\ call' = [Idle EXCEPT !.settled = "rejected"]
     \/ /\ Preflight(f)
        /\ parser' = "running"
        /\ call' = [Idle EXCEPT !.timer = "armed"]
     \/ /\ Preflight(f)                    \* "error": the process does not start
        /\ parser' = "closed"
        /\ call' = Settled(Idle, "rejected", FALSE)

(* child.send reports that the request was not delivered. *)
SendFails ==
  /\ parser = "running" /\ reply = NoReply /\ call.settled = "no"
  /\ signals' = signals \cup {"KILL"}
  /\ call' = Settled(call, "rejected", FALSE)
  /\ UNCHANGED <<document, parses, parser, hung, reply, plan>>

OnTimeout ==
  /\ call.timer = "armed"
  /\ signals' = signals \cup {"TERM"}
  /\ call' = SettledKeeping([call EXCEPT !.timedOut = TRUE, !.escalation = "armed"], "rejected")
  /\ UNCHANGED <<document, parses, parser, hung, reply, plan>>

OnEscalation ==
  /\ call.escalation = "armed"
  /\ signals' = signals \cup {"KILL"}
  /\ call' = [call EXCEPT !.escalation = "off"]
  /\ UNCHANGED <<document, parses, parser, hung, reply, plan>>

(* A reply that comes after the call was settled is dropped. *)
OnMessage ==
  /\ reply # NoReply
  /\ reply' = NoReply
  /\ IF call.timedOut \/ call.settled # "no" THEN UNCHANGED <<signals, call>>
     ELSE /\ signals' = signals \cup {"TERM"}
          /\ call' = SettledKeeping([call EXCEPT !.escalation = "armed"],
                                    IF reply = "parsed" THEN "resolved" ELSE "rejected")
  /\ UNCHANGED <<document, parses, parser, hung, plan>>

OnClose ==
  /\ parser = "gone" /\ reply = NoReply
  /\ parser' = "closed"
  /\ signals' = {}
  /\ call' = IF call.settled # "no" THEN [call EXCEPT !.escalation = "off"]
             ELSE Settled(call, "rejected", FALSE)
  /\ UNCHANGED <<document, parses, hung, reply, plan>>

(* The process: it answers, hangs, dies of its memory limit, or ends.  One *)
(* that hangs does not obey SIGTERM.                                       *)
WorkerAnswers ==
  /\ parser = "running" /\ ~hung
  /\ parser' = "sent"
  /\ reply' = IF Parses(document) THEN "parsed" ELSE "failed"
  /\ UNCHANGED <<document, parses, hung, signals, call, plan>>

WorkerHangs ==
  /\ parser \in {"running", "sent"} /\ ~hung
  /\ hung' = TRUE
  /\ UNCHANGED <<document, parses, parser, signals, reply, call, plan>>

WorkerEnds ==
  /\ parser \in {"running", "sent"} /\ ~hung
  /\ parser' = "gone"
  /\ UNCHANGED <<document, parses, hung, signals, reply, call, plan>>

Obeys ==
  /\ parser \in {"running", "sent"}
  /\ "KILL" \in signals \/ ("TERM" \in signals /\ ~hung)
  /\ parser' = "gone"
  /\ UNCHANGED <<document, parses, hung, signals, reply, call, plan>>

----------------------------------------------------------------------------
(* createProfileImportPlan: the lines of the text, one after the other. *)

Extract ==
  /\ call.settled = "resolved" /\ plan.phase = "none"
  /\ \E text \in Texts : plan' = [NoImportPlan EXCEPT !.phase = "line", !.text = text]
  /\ UNCHANGED <<document, parses, parser, hung, signals, reply, call>>

(* candidateLines: the next line, unless it is too short or was seen. *)
TakeLine ==
  /\ plan.phase = "line"
  /\ IF plan.at = Len(plan.text) THEN plan' = [plan EXCEPT !.phase = "done"]
     ELSE LET line == plan.text[plan.at + 1] IN
          IF Len(line) < MinLine \/ line \in plan.seen
          THEN plan' = [plan EXCEPT !.at = @ + 1]
          ELSE plan' = [plan EXCEPT !.at = @ + 1, !.phase = "cut", !.rest = line,
                                    !.cut = <<>>, !.seen = @ \cup {line}]
  /\ UNCHANGED <<document, parses, parser, hung, signals, reply, call>>

(* Where splitCandidateLine cuts: at the last space that is not past the   *)
(* limit, or at the limit if there is none far enough in.                  *)
CutAt(rest) ==
  LET spaces == {i \in 0 .. MaxCandidate : i < Len(rest) /\ rest[i + 1] = Space /\ i >= MinLine}
  IN  IF spaces = {} THEN MaxCandidate
      ELSE CHOOSE i \in spaces : \A j \in spaces : j <= i

TrimStart(s) ==
  LET kept == {i \in 1 .. Len(s) : s[i] # Space} IN
  IF kept = {} THEN <<>>
  ELSE SubSeq(s, CHOOSE i \in kept : \A j \in kept : i <= j, Len(s))

(* Mutated form: the character at the cut is always taken to be a space. *)
AfterCutSkipping(rest, end) == SubSeq(rest, end + 2, Len(rest))

AfterCut(rest, end) == TrimStart(SubSeq(rest, end + 1, Len(rest)))

(* splitCandidateLine, one segment. *)
CutSegment ==
  /\ plan.phase = "cut" /\ Len(plan.rest) > MaxCandidate
  /\ plan' = [plan EXCEPT !.cut = Append(@, SubSeq(plan.rest, 1, CutAt(plan.rest))),
                          !.rest = AfterCut(plan.rest, CutAt(plan.rest))]
  /\ UNCHANGED <<document, parses, parser, hung, signals, reply, call>>

(* The last segment of a line; all of them are added, or the import is     *)
(* refused: it never keeps only a part.                                    *)
EndLine ==
  /\ plan.phase = "cut" /\ Len(plan.rest) <= MaxCandidate
  /\ LET segments == IF plan.rest = <<>> THEN plan.cut ELSE Append(plan.cut, plan.rest) IN
     IF Len(plan.out) + Len(segments) > MaxCandidates
     THEN plan' = [NoImportPlan EXCEPT !.phase = "refused"]
     ELSE plan' = [plan EXCEPT !.phase = "line", !.rest = <<>>, !.cut = <<>>,
                               !.out = @ \o [i \in 1 .. Len(segments) |->
                                               [line |-> plan.at, text |-> segments[i]]]]
  /\ UNCHANGED <<document, parses, parser, hung, signals, reply, call>>

----------------------------------------------------------------------------
ParserInit ==
  /\ document = NoDocument /\ parses = 0 /\ parser = "none" /\ hung = FALSE
  /\ signals = {} /\ reply = NoReply /\ call = Idle /\ plan = NoImportPlan

Daemon == OnTimeout \/ OnEscalation \/ OnMessage \/ OnClose
Planning == TakeLine \/ CutSegment \/ EndLine

ParserNext ==
  \/ \E f \in Documents : StartParse(f)
  \/ SendFails
  \/ Daemon
  \/ WorkerAnswers \/ WorkerHangs \/ WorkerEnds \/ Obeys
  \/ Extract \/ Planning

(* Timers fire, events are delivered and signals reach a process that can  *)
(* obey them.  Nothing is assumed of the parser itself.                    *)
ParserFair ==
  /\ WF_parserVars(OnTimeout) /\ WF_parserVars(OnEscalation)
  /\ WF_parserVars(OnMessage) /\ WF_parserVars(OnClose)
  /\ WF_parserVars(Obeys)

ParserSpec == ParserInit /\ [][ParserNext]_parserVars /\ ParserFair

----------------------------------------------------------------------------
(* Every parse ends, whatever the parser process does: a call that forked  *)
(* one is answered, the process is gone, one that hangs before or after it *)
(* answered included, and no timer is left that could signal a process     *)
(* which is no longer there (profile-import.ts, parseProfileArtifact).     *)
ParserReaped ==
  parser \in {"running", "sent", "gone"} ~>
    /\ parser = "closed" /\ call.settled # "no"
    /\ call.timer = "off" /\ call.escalation = "off"

(* A line that becomes candidates: long enough, and not there before. *)
Imported(text, i) == Len(text[i]) >= MinLine /\ \A j \in 1 .. i - 1 : text[j] # text[i]

(* The candidates cut from line i. *)
Pieces(out, i) == [k \in {k \in 1 .. Len(out) : out[k].line = i} |-> out[k].text]

(* Pieces found in a line behind the offsets `from', in the line's order   *)
(* and apart from each other, with nothing but spaces between them up to   *)
(* the position `upto'.                                                    *)
Covers(line, pieces, from, upto) ==
  /\ \A k \in DOMAIN pieces :
       /\ from[k] + Len(pieces[k]) <= upto
       /\ \A j \in 1 .. Len(pieces[k]) : pieces[k][j] = line[from[k] + j]
       /\ \A m \in DOMAIN pieces : m < k => from[m] + Len(pieces[m]) <= from[k]
  /\ \A j \in 1 .. upto :
       line[j] = Space \/ \E k \in DOMAIN pieces : from[k] < j /\ j <= from[k] + Len(pieces[k])

CutLosslessly(line, pieces) ==
  \E from \in [DOMAIN pieces -> 0 .. Len(line)] : Covers(line, pieces, from, Len(line))

(* An import plan is lossless: when it is made, each line that is long     *)
(* enough is there, cut into segments no longer than the limit that give   *)
(* its words back in order and no character less, however the spaces lie;  *)
(* and there are no more segments than the limit (profile-import.ts,       *)
(* splitCandidateLine, candidateLines).                                    *)
PlanLossless ==
  plan.phase = "done" =>
    /\ Len(plan.out) <= MaxCandidates
    /\ \A k \in 1 .. Len(plan.out) :
         /\ Len(plan.out[k].text) \in 1 .. MaxCandidate
         /\ plan.out[k].line \in 1 .. Len(plan.text) /\ Imported(plan.text, plan.out[k].line)
         /\ \A m \in 1 .. k : plan.out[m].line <= plan.out[k].line
    /\ \A i \in 1 .. Len(plan.text) :
         Imported(plan.text, i) => CutLosslessly(plan.text[i], Pieces(plan.out, i))
=============================================================================
