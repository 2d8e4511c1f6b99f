------------------------------ MODULE MCStorage ------------------------------
(* What the installation keeps on disk, one part per behaviour: the restore   *)
(* of a backup, the credential store, the artifact vault, the import of the   *)
(* legacy files.  The parts share no state; part says which one runs.         *)
EXTENDS MCStoreRecovery, CredentialVault, ArtifactStore, LegacyImport

VARIABLE part

ArtRequest(op, c, v) == [op |-> op, src |-> c, version |-> v, try |-> 1]

\* Every operation on one original, a second original above the size limit,
\* and the re-import of the passport while its export may be under way.
SomeArtRequests ==
    {ArtRequest("import", "c1", 0), ArtRequest("import", "c2", 0),
     ArtRequest("export-file", "c1", 0), ArtRequest("credential-import", "c1", 0),
     [ArtRequest("credential-import", "c1", 1) EXCEPT !.try = 2],
     ArtRequest("credential-export", "c1", 0), ArtRequest("taxonomy-import", "c1", 0)}

\* The original and the second export of its passport share a directory.
SomeShardOf(art) == IF art.of = 1 THEN "5e" ELSE "a7"

StorageInit ==
    /\ part \in {"restore", "credentials", "artifacts", "legacy"}
    /\ Init /\ VaultInit /\ ArtInit /\ LegInit
    /\ part = "credentials" \/ headless

StorageNext ==
    \/ part = "restore" /\ Next /\ UNCHANGED <<part, vaultVars, artVars, legVars>>
    \/ part = "credentials" /\ VaultNext /\ UNCHANGED <<part, vars, artVars, legVars>>
    \/ part = "artifacts" /\ ArtNext /\ UNCHANGED <<part, vars, vaultVars, legVars>>
    \/ part = "legacy" /\ LegNext /\ UNCHANGED <<part, vars, vaultVars, artVars>>

StorageSpec ==
    StorageInit /\ [][StorageNext]_<<part, vars, vaultVars, artVars, legVars>>
=============================================================================
