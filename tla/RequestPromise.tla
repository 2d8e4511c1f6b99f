---------------------------- MODULE RequestPromise ----------------------------
(***************************************************************************)
(* What vocationd promises its clients: "Mutating request IDs are durable  *)
(* and idempotent.  Reusing an ID with different canonical parameters      *)
(* fails closed." (src/docs/ARCHITECTURE.md:31).                           *)
(*                                                                         *)
(* A request id is decided at most once, for one command and one response; *)
(* every answer a client gets is that decision.                            *)
(***************************************************************************)
CONSTANTS
    Ids,          \* request ids
    Commands,     \* canonical operation and payload of a request
    Responses,    \* what a command may answer
    Undecided     \* the decision of an id no command was committed for

VARIABLES
    decision,     \* the durable decision of every id
    answers       \* answers delivered to clients

Init == decision = [id \in Ids |-> Undecided] /\ answers = {}

\* One command is committed for an undecided id, with the response it computes.
Decide(id) ==
    /\ decision[id] = Undecided
    /\ decision'[id] \in [cmd : Commands, resp : Responses]
    /\ decision' = [decision EXCEPT ![id] = decision'[id]]
    /\ UNCHANGED answers

\* A client receives the decision of its request id.
Answer(id) ==
    /\ decision[id] # Undecided
    /\ answers' = answers \cup {[id |-> id, cmd |-> decision[id].cmd, resp |-> decision[id].resp]}
    /\ UNCHANGED decision

Next == \E id \in Ids : Decide(id) \/ Answer(id)

Spec == Init /\ [][Next]_<<decision, answers>>
=============================================================================
