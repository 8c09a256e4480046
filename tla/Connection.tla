----------------------------- MODULE Connection -----------------------------
(***************************************************************************)
(* The database connection (database/mod.rs), with the schema it applies   *)
(* (schema.rs) and the migrations it runs (migrations.rs).  Each connect   *)
(* opens an embedded database of its own, in memory; what took a handle of *)
(* a former one keeps it.  Every query is an await, between two of which   *)
(* other tasks ask for the client.                                         *)
(***************************************************************************)
EXTENDS Parts, Integers, Sequences, FiniteSets

CONSTANTS
  Connector,    \* tasks that connect or migrate
  Statements,   \* the number of schema statements
  MaxDatabases  \* bound: the connects

ASSUME ConnectionAssumption == Statements \in Nat /\ MaxDatabases \in Nat

VARIABLES
  client,     \* the database connected to, 0: none
  databases,  \* what each one has: statements applied, those that have failed
              \* once, version records
  connecting  \* connector -> where its call is

connectionVars == <<client, databases, connecting>>

NewDatabase == [applied |-> {}, failed |-> {}, versions |-> 0]
NotConnecting == [phase |-> "idle", db |-> 0]

CurrentSchemaVersion == 1

(* get_current_version *)
CurrentVersion(db) == IF databases[db].versions = 0 THEN 0 ELSE CurrentSchemaVersion

(* Mutant: the current version does not suffice. *)
UpToDateBeyond(db) == CurrentVersion(db) > CurrentSchemaVersion

UpToDate(db) == CurrentVersion(db) >= CurrentSchemaVersion

(* Mutant: the first statement that fails ends the pass. *)
AppliedHalting(fails) == {s \in 1 .. Statements : \A f \in fails : s < f}

(* apply_all_statements and apply_schema: every statement is tried, and its *)
(* error ignored.                                                          *)
Applied(fails) == (1 .. Statements) \ fails

(* A pass over the statements, in which some fail; one fails once, unless   *)
(* the risk "twice".                                                       *)
Pass(db) ==
  \E fails \in SUBSET (1 .. Statements) :
    /\ fails \cap databases[db].failed # {} => Risk("twice")
    /\ databases' = [databases EXCEPT ![db] =
                       [applied |-> @.applied \cup Applied(fails),
                        failed |-> @.failed \cup fails,
                        versions |-> @.versions]]

At(c, phase) == connecting[c].phase = phase
Goes(c, phase) == connecting' = [connecting EXCEPT ![c].phase = phase]
Ends(c) == connecting' = [connecting EXCEPT ![c] = NotConnecting]
Quiet == \A c \in Connector : At(c, "idle")

-----------------------------------------------------------------------------
(* connect, up to a new embedded database. *)
Connect(c) ==
  /\ At(c, "idle")
  /\ Len(databases) < MaxDatabases
  /\ databases' = Append(databases, NewDatabase)
  /\ connecting' = [connecting EXCEPT ![c] = [phase |-> "open", db |-> Len(databases) + 1]]
  /\ UNCHANGED client

(* The client is stored before it has a schema. *)
StoreClient(c) ==
  /\ At(c, "open")
  /\ client' = connecting[c].db
  /\ Goes(c, "stored")
  /\ UNCHANGED databases

ApplyAllStatements(c) ==
  /\ At(c, "stored")
  /\ Pass(connecting[c].db)
  /\ Goes(c, "migrate")
  /\ UNCHANGED client

(* run_migrations, also called on its own. *)
RunMigrations(c) ==
  /\ At(c, "idle")
  /\ client # 0
  /\ Quiet \/ Risk("overlap")
  /\ connecting' = [connecting EXCEPT ![c] = [phase |-> "migrate", db |-> client]]
  /\ UNCHANGED <<client, databases>>

(* ensure_schema_version_table, and the current version. *)
ReadVersion(c) ==
  /\ At(c, "migrate")
  /\ IF UpToDate(connecting[c].db) THEN Ends(c) ELSE Goes(c, "apply")
  /\ UNCHANGED <<client, databases>>

ApplySchema(c) ==
  /\ At(c, "apply")
  /\ Pass(connecting[c].db)
  /\ Goes(c, "record")
  /\ UNCHANGED client

RecordVersion(c) ==
  /\ At(c, "record")
  /\ databases' = [databases EXCEPT ![connecting[c].db].versions = @ + 1]
  /\ Ends(c)
  /\ UNCHANGED client

(* A query whose error counts fails: the call ends, a client that was       *)
(* stored stays.                                                           *)
ConnectFails(c) ==
  /\ At(c, "open") \/ At(c, "migrate") \/ At(c, "record")
  /\ Ends(c)
  /\ UNCHANGED <<client, databases>>

Disconnect ==
  /\ client # 0
  /\ client' = 0
  /\ UNCHANGED <<databases, connecting>>

ConnectionInit ==
  /\ client = 0
  /\ databases = << >>
  /\ connecting = [c \in Connector |-> NotConnecting]

ConnectionNext ==
  /\ Moves("connection")
  /\ UNCHANGED mix
  /\ \/ \E c \in Connector :
          \/ Connect(c) \/ StoreClient(c) \/ ApplyAllStatements(c) \/ RunMigrations(c)
          \/ ReadVersion(c) \/ ApplySchema(c) \/ RecordVersion(c) \/ ConnectFails(c)
     \/ Disconnect

ConnectionTypeOK ==
  /\ client \in 0 .. Len(databases)
  /\ \A db \in DOMAIN databases : databases[db].applied \subseteq 1 .. Statements
  /\ \A c \in Connector : connecting[c].db \in 0 .. Len(databases)

-----------------------------------------------------------------------------
(* A database with a recorded version has the whole schema: errors of       *)
(* statements are ignored, but there are two passes over them before the   *)
(* version is recorded; unless one fails twice, or a migration that is     *)
(* called meanwhile records the version after its own pass.                *)
VersionMeansSchema ==
  Safe({"twice", "overlap"}) =>
    \A db \in DOMAIN databases :
      databases[db].versions > 0 => databases[db].applied = 1 .. Statements

(* "Idempotent - calling it multiple times is safe": the version is         *)
(* recorded once, unless two migrations of a database overlap.             *)
RecordedOnce ==
  Safe({"overlap"}) => \A db \in DOMAIN databases : databases[db].versions <= 1
=============================================================================
