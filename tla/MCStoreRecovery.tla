--------------------------- MODULE MCStoreRecovery ---------------------------
(* Backup and restore of histories of up to MaxCommits commits.              *)
EXTENDS StoreRecovery

\* Bound: restores, kills, failing steps and losses together.
FewTroubles == restores + kills + faults + disasters <= 3
=============================================================================
