-------------------------- MODULE MCSingleInstance --------------------------
(* Two daemons and two offline commands around one lock file.                *)
EXTENDS SingleInstance, TLC

\* Daemons are interchangeable, and so are offline commands.
Symmetry == Permutations(Daemons) \cup Permutations(Tools)
=============================================================================
