-------------------------- MODULE MCAuditCheckpoint --------------------------
(* Audit checkpoints on a small instance: two event contents, so that a      *)
(* replaced database can grow a different history of the same length.        *)
EXTENDS AuditCheckpoint
=============================================================================
