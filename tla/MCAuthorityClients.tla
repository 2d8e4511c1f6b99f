-------------------------- MODULE MCAuthorityClients --------------------------
(* What a caller of the daemon may wait for, one part per behaviour: the      *)
(* request queue behind the dispatch, and the connections before it.  The     *)
(* parts share no state; part says which one runs.                            *)
EXTENDS MCRuntimeAuthority, IpcSession

VARIABLE part

ClientsInit ==
    /\ part \in {"requests", "connections"}
    /\ Init /\ IpcInit

ClientsNext ==
    \/ part = "requests" /\ Next /\ UNCHANGED <<part, ipcVars>>
    \/ part = "connections" /\ IpcNext /\ UNCHANGED <<part, vars>>

\* Fairness and IpcFair, each while its part runs.
ClientsFair ==
    /\ WF_vars(part = "requests" /\ \E t \in Tickets : DaemonStep(t))
    /\ \A c \in IpcCallers : WF_ipcVars(part = "connections" /\ CallerStep(c))
    /\ \A s \in Socks : WF_ipcVars(part = "connections" /\ ServerStep(s))
    /\ WF_ipcVars(part = "connections" /\ Respond)
    /\ WF_ipcVars(part = "connections" /\ CloseServer)

ClientsSpec == ClientsInit /\ [][ClientsNext]_<<part, vars, ipcVars>> /\ ClientsFair
=============================================================================
