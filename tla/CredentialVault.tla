-------------------------- MODULE CredentialVault --------------------------
(***************************************************************************)
(* The credential stores (src/src/security/credential-store.ts): the       *)
(* headless vault, one encrypted file that every process reads whole into  *)
(* memory and writes back whole, and the keyring of the operating system,  *)
(* which keeps each account on its own.  The processes that use them are   *)
(* the daemon, the offline store commands, the restore commands and the    *)
(* clients (src/src/vocationd.ts, src/src/cli.ts).                         *)
(*                                                                         *)
(* A secret is a number that no other secret has.  All processes are given *)
(* the same master passphrase.  The instance lock is the one of module     *)
(* SingleInstance, taken and left here in one step.                        *)
(***************************************************************************)
EXTENDS Integers

CONSTANTS
  Procs,         \* processes that may run at the same time
  MaxSecrets,    \* bound: secrets ever created
  MaxProcStarts      \* bound: processes ever started

ASSUME VaultConstants ==
  MaxSecrets \in Nat /\ MaxProcStarts \in Nat /\ "nobody" \notin Procs

VARIABLES
  headless,      \* which of the two stores this installation uses
  credentials,         \* what the store holds: NoVault, or account -> secret
  holder,        \* the process that holds the instance lock
  procs,         \* process -> [kind, pc, values, base]
  sealed,        \* data on disk: <<account, secret>> it was encrypted under
  secrets,       \* secrets created so far
  procStarts,        \* processes started so far
  overwritten    \* a process without the lock wrote over what it had not read

vaultVars == <<headless, credentials, holder, procs, sealed, secrets, procStarts, overwritten>>

Kinds == {"daemon", "store", "restore", "client"}
Accounts == {"database", "ipc", "artifact", "rollback", "digest"}
Missing == 0                     \* an account without a secret
Nobody == "nobody"
Empty == [a \in Accounts |-> Missing]
NoVault == [none |-> "vault"]
NotRunning == [kind |-> "none", pc |-> "off", values |-> Empty, base |-> NoVault]

----------------------------------------------------------------------------
(* The two stores. *)

(* get: from the memory of the process, or from the keyring. *)
Get(p, a) == IF headless THEN procs[p].values[a] ELSE credentials[a]

(* persist: the whole map replaces the file, by renaming a synced one over *)
(* it.  base is what the process last knew of the file.                    *)
Persist(p, values, pc) ==
  /\ credentials' = values
  /\ procs' = [procs EXCEPT ![p] = [@ EXCEPT !.values = values, !.base = values, !.pc = pc]]
  /\ overwritten' = (overwritten \/ (/\ procs[p].kind \in {"restore", "client"}
                                     /\ procs[p].base # credentials))

(* Mutated form: the secret that could not be written stays in memory. *)
AfterFailedWriteKept(values, a, s) == [values EXCEPT ![a] = s]

(* What set and delete leave in memory when the file cannot be written. *)
AfterFailedWrite(values, a, s) == values

(* OsCredentialStore.set and delete: one account of the keyring. *)
PutInKeyring(p, a, s, pc) ==
  /\ credentials' = [credentials EXCEPT ![a] = s]
  /\ procs' = [procs EXCEPT ![p].pc = pc]
  /\ UNCHANGED overwritten

(* set, and delete with s = Missing: pc is where a process that succeeds   *)
(* goes on, failed where one goes on whose write failed.                   *)
Put(p, a, s, pc, failed) ==
  \/ headless /\ Persist(p, [procs[p].values EXCEPT ![a] = s], pc)
  \/ ~headless /\ PutInKeyring(p, a, s, pc)
  \/ /\ procs' = [procs EXCEPT ![p].values = AfterFailedWrite(procs[p].values, a, s),
                               ![p].pc = failed]
     /\ UNCHANGED <<credentials, overwritten>>

FreshSecret == secrets + 1

(* getOrCreateCredential, for an account that is missing. *)
CreateCredential(p, a, pc, failed) ==
  /\ Get(p, a) = Missing
  /\ secrets < MaxSecrets /\ secrets' = FreshSecret
  /\ Put(p, a, FreshSecret, pc, failed)

----------------------------------------------------------------------------
(* Opening the store. *)

(* Who holds the instance lock before it opens the credential store. *)
LockFirst == {"daemon", "store"}

StartProc(p, kind) ==
  /\ procs[p].pc = "off" /\ procStarts < MaxProcStarts
  /\ procStarts' = procStarts + 1
  /\ procs' = [procs EXCEPT ![p] = [NotRunning EXCEPT !.kind = kind,
                 !.pc = IF kind \in LockFirst THEN "locking" ELSE "opening"]]
  /\ UNCHANGED <<headless, credentials, holder, sealed, secrets, overwritten>>

(* acquireSingleInstanceLock: a restore takes it after it read its secrets. *)
AcquireLock(p) ==
  /\ holder = Nobody
  /\ holder' = p
  /\ \/ /\ procs[p].pc = "locking"
        /\ procs' = [procs EXCEPT ![p].pc = "opening"]
     \/ /\ procs[p].pc = "open" /\ procs[p].kind = "restore"
        /\ Get(p, "database") # Missing
        /\ procs' = [procs EXCEPT ![p].pc = "locked"]
  /\ UNCHANGED <<headless, credentials, sealed, secrets, procStarts, overwritten>>

(* open reads the file if there is one ... *)
OpenVault(p) ==
  /\ procs[p].pc = "opening"
  /\ procs' = [procs EXCEPT ![p] =
       IF ~headless THEN [@ EXCEPT !.pc = "open"]
       ELSE IF credentials = NoVault THEN [@ EXCEPT !.pc = "creating", !.base = NoVault]
       ELSE [@ EXCEPT !.pc = "open", !.values = credentials, !.base = credentials]]
  /\ UNCHANGED <<headless, credentials, holder, sealed, secrets, procStarts, overwritten>>

(* ... and otherwise derives a key and writes an empty one. *)
CreateVault(p) ==
  /\ procs[p].pc = "creating"
  /\ Persist(p, Empty, "open")
  /\ UNCHANGED <<headless, holder, sealed, secrets, procStarts>>

----------------------------------------------------------------------------
(* The daemon. *)

(* loadOrCreateRuntimeSecrets: database, then IPC, then artifact vault. *)
LoadSecrets(p) ==
  /\ procs[p].kind = "daemon" /\ procs[p].pc = "open"
  /\ \/ CreateCredential(p, "database", "open", "ending")
     \/ /\ Get(p, "database") # Missing
        /\ CreateCredential(p, "ipc", "open", "ending")
     \/ /\ Get(p, "database") # Missing /\ Get(p, "ipc") # Missing
        /\ CreateCredential(p, "artifact", "open", "ending")
  /\ UNCHANGED <<headless, holder, sealed, procStarts>>

(* EncryptedEventStore.open: a new database is encrypted under the secret, *)
(* an existing one must open with it.                                      *)
OpensDatabase(p) == \A e \in sealed : e[1] = "database" => e[2] = Get(p, "database")

Serve(p) ==
  /\ procs[p].kind = "daemon" /\ procs[p].pc = "open"
  /\ \A a \in {"database", "ipc", "artifact"} : Get(p, a) # Missing
  /\ IF OpensDatabase(p)
     THEN /\ sealed' = sealed \cup {<<"database", Get(p, "database")>>}
          /\ procs' = [procs EXCEPT ![p].pc = "serving"]
     ELSE /\ procs' = [procs EXCEPT ![p].pc = "ending"]
          /\ UNCHANGED sealed
  /\ UNCHANGED <<headless, credentials, holder, secrets, procStarts, overwritten>>

Serving(p) == procs[p].kind = "daemon" /\ procs[p].pc = "serving"

(* ArtifactVault.put: an artifact under the key of this daemon's vault. *)
StoreArtifact(p) ==
  /\ Serving(p)
  /\ sealed' = sealed \cup {<<"artifact", Get(p, "artifact")>>}
  /\ UNCHANGED <<headless, credentials, holder, procs, secrets, procStarts, overwritten>>

(* legacy-import-apply: the rollback secret, then the backup under it.  A  *)
(* request whose write failed fails, and the daemon goes on.               *)
EnsureRollback(p) ==
  /\ Serving(p)
  /\ CreateCredential(p, "rollback", "serving", "serving")
  /\ UNCHANGED <<headless, holder, sealed, procStarts>>

WriteBackup(p) ==
  /\ Serving(p) /\ Get(p, "rollback") # Missing
  /\ sealed' = sealed \cup {<<"rollback", Get(p, "rollback")>>}
  /\ UNCHANGED <<headless, credentials, holder, procs, secrets, procStarts, overwritten>>

(* createSignedCheckpoint records the digest of the newest checkpoint. *)
RecordDigest(p) ==
  /\ Serving(p)
  /\ secrets < MaxSecrets /\ secrets' = FreshSecret
  /\ Put(p, "digest", FreshSecret, "serving", "serving")
  /\ UNCHANGED <<headless, holder, sealed, procStarts>>

----------------------------------------------------------------------------
(* The commands. *)

(* storeRestore, storeRollback: a restore that anchors the checkpoints     *)
(* anew sets or deletes the digest, and puts the old one back if it fails. *)
Reanchor(p) ==
  /\ procs[p].kind = "restore" /\ procs[p].pc = "locked"
  /\ \/ Put(p, "digest", Missing, "ending", "ending") /\ UNCHANGED secrets
     \/ Put(p, "digest", Get(p, "digest"), "ending", "ending") /\ UNCHANGED secrets
     \/ /\ secrets < MaxSecrets /\ secrets' = FreshSecret
        /\ Put(p, "digest", FreshSecret, "ending", "ending")
  /\ UNCHANGED <<headless, holder, sealed, procStarts>>

(* A process ends, fails or is killed, wherever it is; a lock it leaves    *)
(* behind is taken over.                                                   *)
Leave(p) ==
  /\ procs[p].pc # "off"
  /\ procs' = [procs EXCEPT ![p] = NotRunning]
  /\ holder' = IF holder = p THEN Nobody ELSE holder
  /\ UNCHANGED <<headless, credentials, sealed, secrets, procStarts, overwritten>>

----------------------------------------------------------------------------
VaultInit ==
  /\ headless \in BOOLEAN
  /\ credentials = IF headless THEN NoVault ELSE Empty
  /\ holder = Nobody /\ procs = [p \in Procs |-> NotRunning]
  /\ sealed = {} /\ secrets = 0 /\ procStarts = 0 /\ overwritten = FALSE

VaultNext ==
  \E p \in Procs :
    \/ \E kind \in Kinds : StartProc(p, kind)
    \/ AcquireLock(p) \/ OpenVault(p) \/ CreateVault(p)
    \/ LoadSecrets(p) \/ Serve(p)
    \/ StoreArtifact(p) \/ EnsureRollback(p) \/ WriteBackup(p) \/ RecordDigest(p)
    \/ Reanchor(p)
    \/ Leave(p)

VaultSpec == VaultInit /\ [][VaultNext]_vaultVars

----------------------------------------------------------------------------
(* Nothing on disk becomes unreadable: the database, each artifact and     *)
(* each rollback backup stays encrypted under the secret the credential    *)
(* store holds for it, whatever order daemons start, are killed between    *)
(* two secrets, fail to write one and go on, and are replaced.  The        *)
(* exception the code leaves is a command that opens the headless vault    *)
(* without the instance lock and later writes over what a daemon put there *)
(* meanwhile: a client that creates the vault, or a restore.               *)
SealedOpens ==
  ~overwritten =>
    \A e \in sealed : credentials # NoVault /\ credentials[e[1]] = e[2]
=============================================================================
