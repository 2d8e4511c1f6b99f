------------------------ MODULE MCApplicationTracker ------------------------
(* Two attempts on one opportunity, one key id for approvers and collectors, *)
(* one key pair.                                                             *)
EXTENDS ApplicationTracker, TLC

CONSTANTS k1, s1, human, robot, pairA

OneApprover == {[by |-> human, material |-> pairA]}

OneCollector ==
    {[by |-> robot, material |-> pairA, scopes |-> {s1},
      kinds |-> {"sent-items", "ats-dashboard", "confirmation-page"}]}

Seen(kind, negative, sentAt) ==
    [kind |-> kind, negative |-> negative, positive |-> TRUE, reference |-> TRUE,
     recipient |-> TRUE, attached |-> TRUE, sentAt |-> sentAt]

\* A sent message, a dashboard without a completion signal, a page the
\* collector is not allowed for, and a page that confirms.
SomeObservations ==
    {Seen("sent-items", FALSE, 1), Seen("ats-dashboard", TRUE, None),
     Seen("receipt-email", FALSE, None), Seen("confirmation-page", FALSE, None)}

Symmetry == Permutations(AttemptIds)
=============================================================================
