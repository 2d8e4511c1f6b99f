---------------------------- MODULE StoreOpening ----------------------------
(***************************************************************************)
(* EncryptedEventStore.open (src/src/storage/encrypted-event-store.ts) and *)
(* the schema migrations it runs (src/src/storage/migrations.ts): a store  *)
(* is created, or a store of an earlier build is authenticated, backed up  *)
(* and migrated.                                                           *)
(*                                                                         *)
(* Only the process that holds the instance lock opens the database, so    *)
(* there is one opening at a time; it may die, or fail with an I/O error,  *)
(* between any two of its commits.  An SQLite statement outside a          *)
(* transaction commits on its own, the pending migrations commit together. *)
(*                                                                         *)
(* A database is the set of its tables, the ones among them that differ    *)
(* from their column and index contract, the rows of schema_migrations     *)
(* (versions, and the versions whose name or checksum is not the trusted   *)
(* one), and what the metadata table holds: the salt, the passphrase whose *)
(* key check it stores, the database id.  An empty file has no tables.     *)
(* The chain of the events is EventStore's; here only their number counts. *)
(***************************************************************************)
EXTENDS Naturals, FiniteSets

CONSTANTS
    SeedStores,     \* databases found at the first start
    Unsupported,    \* the ones this build must refuse
    Passphrases,    \* passphrases a start may bring
    TooShort,       \* the ones below twelve characters
    NoSalt, NoDbId, \* absence of the metadata row
    NoOpening,
    MaxOpenings,    \* bound: calls of open
    MaxLaterEvents  \* bound: events appended once the store is open

CoreTables == {"metadata", "events", "snapshots"}

HistoryTable == "schema_migrations"

VersionTwoTables == {"legacy_import_receipts", "authority_receipts", "signed_checkpoints"}

\* The tables each migration creates.
Creates == [version \in 1 .. 2 |-> IF version = 1 THEN CoreTables ELSE VersionTwoTables]

LATEST_STORE_MIGRATION == 2

Tables == CoreTables \cup VersionTwoTables \cup {HistoryTable}

Databases ==
    [tables : SUBSET Tables, odd : SUBSET Tables,
     rows : SUBSET (1 .. LATEST_STORE_MIGRATION + 1),
     untrusted : SUBSET (1 .. LATEST_STORE_MIGRATION + 1),
     salt : Nat \cup {NoSalt}, pass : Passphrases,
     id : {NoDbId} \cup ({"derived", "random"} \X Nat), count : Nat]

\* A database as a build left it: an empty file, the core tables of a build
\* that kept no history, or a store at one of the versions.
LeftByABuild(d) ==
    /\ <<d.tables, d.rows>> \in
          {<<{}, {}>>, <<CoreTables, {}>>, <<CoreTables \cup {HistoryTable}, {1}>>,
           <<Tables, {1, 2}>>}
    /\ d.odd = {} /\ d.untrusted = {}
    /\ d.tables = {} => d.salt = NoSalt /\ d.id = NoDbId
    /\ d.tables # {} => d.salt # NoSalt

\* What this build must refuse: the rows of a later build or of another
\* migration, or tables that are missing or differ below the version stated.
Defective(d) ==
    \/ HistoryTable \notin d.tables /\ d.tables \cap CoreTables # {}
       /\ ~(CoreTables \subseteq d.tables \ d.odd)
    \/ /\ HistoryTable \in d.tables
       /\ \/ ~(d.rows \subseteq 1 .. LATEST_STORE_MIGRATION) \/ d.rows \cap d.untrusted # {}
          \/ d.rows # {} /\ ~(CoreTables \subseteq d.tables \ d.odd)
          \/ 2 \in d.rows /\ ~(VersionTwoTables \subseteq d.tables \ d.odd)

ASSUME OpeningAssumption ==
    /\ Unsupported \subseteq SeedStores /\ SeedStores \subseteq Databases
    /\ \A d \in Unsupported : Defective(d)
    /\ \A d \in SeedStores \ Unsupported : LeftByABuild(d)
    /\ TooShort \subseteq Passphrases
    /\ NoSalt \notin Nat
    /\ MaxOpenings \in Nat /\ MaxLaterEvents \in Nat

VARIABLES
    dbFile,       \* the database file
    seed,         \* the database found at the first start
    opening,      \* the call of open under way, or the open store
    preBackups,   \* the pre-migration backups
    openOutcome,  \* how the last call of open ended, and its passphrase
    openings

openVars == <<dbFile, seed, opening, preBackups, openOutcome, openings>>

-----------------------------------------------------------------------------
\* The checks of migrations.ts.

\* The table is there with the columns and indexes this build expects.
AsContracted(d, table) == table \in d.tables /\ table \notin d.odd

AssertTableContracts(d, tables) == \A t \in tables : AsContracted(d, t)

\* Mutated form: the tables are looked for, their columns are not compared.
LegacyCorePresent(d) == d.tables \cap CoreTables = {} \/ CoreTables \subseteq d.tables

\* None of the core tables, or all of them as contracted.
AssertLegacyCoreSchema(d) ==
    \/ d.tables \cap CoreTables = {}
    \/ \A t \in CoreTables : AsContracted(d, t)

LastVersion(versions) == CHOOSE v \in versions \cup {0} : \A w \in versions : w <= v

AssertStoreSchemaForVersion(d, version) ==
    /\ version >= 1 =>
          /\ AssertLegacyCoreSchema(d)
          /\ "metadata" \in d.tables
          /\ AssertTableContracts(d, {HistoryTable})
    /\ version >= 2 => AssertTableContracts(d, VersionTwoTables)

AssertMigrationHistory(d) ==
    d.rows \subseteq DOMAIN Creates /\ d.rows \cap d.untrusted = {}

ListStoreMigrationsSucceeds(d) ==
    IF HistoryTable \notin d.tables
    THEN AssertLegacyCoreSchema(d)
    ELSE AssertMigrationHistory(d) /\ AssertStoreSchemaForVersion(d, LastVersion(d.rows))

-----------------------------------------------------------------------------
\* open.

\* authenticateExistingStore: the metadata is complete and the passphrase
\* opens the key check; the events can be read.
AuthenticateExistingStore(d, pass) ==
    /\ "metadata" \in d.tables /\ d.salt # NoSalt
    /\ d.pass = pass
    /\ "events" \in d.tables

\* Mutated form: a store without a database id is given a random one.
AdoptedIdRandom(d) == IF d.id # NoDbId THEN d.id ELSE <<"random", openings>>

\* The id of a store, derived from its salt where an early build stored none.
AdoptedId(d) == IF d.id # NoDbId THEN d.id ELSE <<"derived", d.salt>>

\* The versions a store is at: an early build kept no history and was at 1.
MigrationVersions(d) == IF d.rows = {} THEN {1} ELSE d.rows

Advance(step) == opening' = [opening EXCEPT !.at = step]

\* open throws: the connection is closed.
Refuse(pass) ==
    /\ opening' = NoOpening
    /\ openOutcome' = [result |-> "refused", pass |-> pass]

\* open is called: is there a store already?
BeginOpen(pass) ==
    /\ opening = NoOpening /\ openings < MaxOpenings
    /\ openings' = openings + 1
    /\ IF pass \in TooShort
       THEN Refuse(pass)
       ELSE /\ opening' = [at |-> IF dbFile.tables # {} THEN "authenticate" ELSE "history",
                           pass |-> pass, existing |-> dbFile.tables # {}, id |-> NoDbId]
            /\ openOutcome' = [result |-> "none", pass |-> pass]
    /\ UNCHANGED <<dbFile, seed, preBackups>>

\* An existing store is authenticated and its migrations are listed.
Authenticate ==
    /\ opening.at = "authenticate"
    /\ IF AuthenticateExistingStore(dbFile, opening.pass) /\ ListStoreMigrationsSucceeds(dbFile)
       THEN /\ opening' = [opening EXCEPT !.id = AdoptedId(dbFile),
                  !.at = IF LastVersion(MigrationVersions(dbFile)) < LATEST_STORE_MIGRATION
                         THEN "backup" ELSE "history"]
            /\ UNCHANGED openOutcome
       ELSE Refuse(opening.pass)
    /\ UNCHANGED <<dbFile, seed, preBackups, openings>>

\* The image is sealed under a new name before the schema is touched.
WriteBackup ==
    /\ opening.at = "backup"
    /\ preBackups' = preBackups \cup
          {[image |-> dbFile, id |-> opening.id, versions |-> MigrationVersions(dbFile)]}
    /\ Advance("history")
    /\ UNCHANGED <<dbFile, seed, openOutcome, openings>>

\* applyStoreMigrations: the history table is created where it is missing.
CreateHistory ==
    /\ opening.at = "history"
    /\ IF /\ HistoryTable \notin dbFile.tables => AssertLegacyCoreSchema(dbFile)
          /\ AssertMigrationHistory(dbFile)
          /\ dbFile.rows # {} => AssertStoreSchemaForVersion(dbFile, LastVersion(dbFile.rows))
       THEN /\ dbFile' = [dbFile EXCEPT !.tables = @ \cup {HistoryTable}]
            /\ Advance("adopt")
            /\ UNCHANGED openOutcome
       ELSE Refuse(opening.pass) /\ UNCHANGED dbFile
    /\ UNCHANGED <<seed, preBackups, openings>>

\* Core tables without a history are recorded as the foundation.
AdoptFoundation ==
    /\ opening.at = "adopt"
    /\ dbFile' = IF dbFile.rows = {} /\ "metadata" \in dbFile.tables
                 THEN [dbFile EXCEPT !.rows = {1}] ELSE dbFile
    /\ Advance("pending")
    /\ UNCHANGED <<seed, preBackups, openOutcome, openings>>

Pending == DOMAIN Creates \ dbFile.rows

\* The database the pending migrations leave.
Migrated ==
    [dbFile EXCEPT !.tables = @ \cup UNION {Creates[v] : v \in Pending},
                   !.rows = @ \cup Pending]

\* CREATE TABLE fails on a table that is there.
Collides == \E v \in Pending : Creates[v] \cap dbFile.tables # {}

\* Mutated form: no transaction; the tables are committed before their rows.
ApplyPendingInSteps ==
    /\ \/ /\ opening.at = "pending" /\ Collides
          /\ Refuse(opening.pass) /\ UNCHANGED dbFile
       \/ /\ opening.at = "pending" /\ ~Collides
          /\ dbFile' = [dbFile EXCEPT !.tables = Migrated.tables]
          /\ Advance("rows") /\ UNCHANGED openOutcome
       \/ /\ opening.at = "rows"
          /\ dbFile' = [dbFile EXCEPT !.rows = Migrated.rows]
          /\ Advance("metadata") /\ UNCHANGED openOutcome
    /\ UNCHANGED <<seed, preBackups, openings>>

\* The pending migrations and their rows, in one transaction; then the result
\* is checked.
ApplyPending ==
    /\ opening.at = "pending"
    /\ IF Collides
       THEN Refuse(opening.pass) /\ UNCHANGED dbFile
       ELSE /\ dbFile' = Migrated
            /\ IF /\ AssertMigrationHistory(Migrated)
                  /\ AssertStoreSchemaForVersion(Migrated, LastVersion(Migrated.rows))
               THEN Advance("metadata") /\ UNCHANGED openOutcome
               ELSE Refuse(opening.pass)
    /\ UNCHANGED <<seed, preBackups, openings>>

\* A new store gets its metadata, an early one its database id.
InsertMetadata ==
    /\ opening.at = "metadata"
    /\ dbFile' = IF ~opening.existing
                 THEN [dbFile EXCEPT !.salt = openings, !.pass = opening.pass,
                                     !.id = <<"random", openings>>]
                 ELSE [dbFile EXCEPT !.id = IF @ = NoDbId THEN opening.id ELSE @]
    /\ Advance("open")
    /\ openOutcome' = [openOutcome EXCEPT !.result = "opened"]
    /\ UNCHANGED <<seed, preBackups, openings>>

\* The open store appends an event.
AppendOne ==
    /\ opening # NoOpening /\ opening.at = "open"
    /\ dbFile.count < seed.count + MaxLaterEvents
    /\ dbFile' = [dbFile EXCEPT !.count = @ + 1]
    /\ UNCHANGED <<seed, opening, preBackups, openOutcome, openings>>

\* The process dies, a step of open throws an I/O error, or the store is closed.
Stops ==
    /\ opening # NoOpening
    /\ opening' = NoOpening
    /\ UNCHANGED <<dbFile, seed, preBackups, openOutcome, openings>>

-----------------------------------------------------------------------------

OpenInit ==
    /\ seed \in SeedStores
    /\ dbFile = seed
    /\ opening = NoOpening
    /\ preBackups = {}
    /\ openOutcome = [result |-> "none", pass |-> CHOOSE p \in Passphrases : TRUE]
    /\ openings = 0

OpenNext ==
    \/ \E pass \in Passphrases : BeginOpen(pass)
    \/ opening # NoOpening /\ (\/ Authenticate \/ WriteBackup \/ CreateHistory
                               \/ AdoptFoundation \/ ApplyPending \/ InsertMetadata)
    \/ AppendOne \/ Stops

OpenSpec == OpenInit /\ [][OpenNext]_openVars

-----------------------------------------------------------------------------
\* Properties.

\* A new store whose creation stopped before its metadata was inserted: it is
\* neither empty nor recognisable, and every later open refuses it.
HalfMade == dbFile.tables # {} /\ dbFile.salt = NoSalt

\* A store of this or of an earlier build is refused only to another
\* passphrase, wherever its creation, adoption or migration was cut off.
OpensAgain ==
    openOutcome.result = "refused" /\ seed \notin Unsupported
    => openOutcome.pass # dbFile.pass \/ openOutcome.pass \in TooShort \/ HalfMade

\* A store this build does not support is neither opened nor altered.
RefusedUntouched ==
    seed \in Unsupported => dbFile = seed /\ openOutcome.result # "opened"

\* A schema is altered only once its image is kept, and every image kept
\* restores: a restore compares the id of the staged image, and a prefix of
\* its migrations, with the manifest, which names the id the store itself has
\* at the end.
KeptBeforeMigration ==
    /\ seed.tables # {} /\ (dbFile.tables # seed.tables \/ dbFile.rows # seed.rows)
       => \E b \in preBackups : b.image = seed
    /\ \A b \in preBackups :
          /\ b.id = AdoptedId(b.image)
          /\ \E v \in DOMAIN Creates : b.versions = 1 .. v
          /\ dbFile.id \in {NoDbId, b.id}

\* What open promises to a store it did not create, through every interruption.
OpeningSound == OpensAgain /\ RefusedUntouched /\ KeptBeforeMigration
=============================================================================
