----------------------------- MODULE LocalStore -----------------------------
(***************************************************************************)
(* The SQLite database of a device (edge/local_db.rs) and the statements   *)
(* on it of LocalStore (edge/store.rs) and ChangeTracker                   *)
(* (edge/tracking.rs), then those of ConflictResolver, each as the tables  *)
(* it leaves.  Device.tla runs them in the order of the methods.           *)
(*                                                                         *)
(* All parts of the edge mode share one connection behind one mutex: a     *)
(* statement is atomic, what lies between two statements is not, and a     *)
(* transaction belongs to the connection, not to the thread that began it. *)
(***************************************************************************)
EXTENDS Integers, Sequences, FiniteSets

CONSTANTS
  Entity,    \* the identities of records
  KindOf,    \* the kind, and so the table, of each
  AccountOf, \* the account that a transaction entry is on
  Number,    \* the numbers of accounts and transactions
  Stored,    \* the records that are in the database from the start, clean
  NoDb       \* no transaction is open

(* ENTITY_TABLES. *)
Kinds == {"account", "transaction", "journal_entry", "transaction_entry",
          "invoice", "bill", "asset"}

(* Account and transaction numbers are looked up before a save. *)
Numbered == {"account", "transaction"}

VARIABLES
  db,     \* the tables
  undo,   \* the tables as the open transaction found them, or NoDb
  lastId  \* last_insert_rowid() of the connection

(* A row; `ver` stands for its content, 0 where there is no row. *)
Row == [ver: Nat, num: Number, dirty: BOOLEAN]
Operation == {"insert", "update", "delete"}
Change == [id: Nat, of: Entity, op: Operation, synced: BOOLEAN]
(* An entry of conflict_log: the two versions and, once resolved, which won. *)
Conflict == [of: Entity, local: Nat, remote: Nat, won: Nat, lost: Nat]
Db == [rows: [Entity -> Row], changes: SUBSET Change, log: Seq(Conflict),
       nextChange: Nat, rowid: [Kinds -> Nat], pending: Nat]

(* Records and numbers are what a finite file can hold, and the database   *)
(* is not NoDb.                                                            *)
ASSUME LocalStoreAssumption ==
  /\ IsFiniteSet(Entity) /\ Entity # {}
  /\ Number # {}
  /\ KindOf \in [Entity -> Kinds]
  /\ AccountOf \in [Entity -> Entity]
  /\ Stored \subseteq Entity
  /\ NoDb \notin Db

Here(e) == db.rows[e].ver # 0
Dirty(e) == db.rows[e].dirty
DirtyRows == {e \in Entity : Dirty(e)}

(* run_migrations on a new file, and what a first synchronisation brought. *)
Schema(number) ==
  [rows |-> [e \in Entity |-> [ver |-> IF e \in Stored THEN 1 ELSE 0,
                               num |-> number[e], dirty |-> FALSE]],
   changes |-> {}, log |-> << >>, nextChange |-> 1,
   rowid |-> [k \in Kinds |-> 1], pending |-> 0]

DbInit ==
  /\ \E number \in [Entity -> Number] :
       /\ \A e, f \in Stored : e # f => number[e] # number[f]
       /\ \A e \in Entity \ Stored : number[e] = CHOOSE n \in Number : TRUE
       /\ db = Schema(number)
  /\ undo = NoDb
  /\ lastId = 0

-----------------------------------------------------------------------------
(* One statement: execute, or an execute_batch of a single one. *)
Execute(new) ==
  /\ db' = new
  /\ UNCHANGED <<undo, lastId>>

(* A statement that inserts a row under the given rowid. *)
Insert(new, id) ==
  /\ db' = new
  /\ lastId' = id
  /\ UNCHANGED undo

(* A query, or a statement that is refused. *)
Query == UNCHANGED <<db, undo, lastId>>

(* Mutant: a transaction inside another is accepted. *)
CanBeginNested == TRUE

(* BEGIN is refused while a transaction is open. *)
CanBegin == undo = NoDb

BeginTransaction ==
  /\ undo' = db
  /\ UNCHANGED <<db, lastId>>

Commit ==
  /\ undo' = NoDb
  /\ UNCHANGED <<db, lastId>>

Rollback ==
  /\ db' = IF undo = NoDb THEN db ELSE undo
  /\ undo' = NoDb
  /\ UNCHANGED lastId

(* The process dies and opens the file again; its migrations find the     *)
(* schema in place.                                                        *)
Reopen ==
  /\ db' = IF undo = NoDb THEN db ELSE undo
  /\ undo' = NoDb
  /\ lastId' = 0

(* record_change. *)
Recorded(e, operation) ==
  [db EXCEPT !.changes = @ \cup {[id |-> db.nextChange, of |-> e,
                                  op |-> operation, synced |-> FALSE]},
             !.nextChange = @ + 1]

-----------------------------------------------------------------------------
(* Mutant: only the numbers of records of other kinds are looked at. *)
NumberTakenElsewhere(e, n) ==
  \E o \in Entity \ {e} : KindOf[o] # KindOf[e] /\ Here(o) /\ db.rows[o].num = n

(* Mutant: transactions are checked against the accounts' numbers. *)
NumberTakenByAccount(e, n) ==
  \E o \in Entity \ {e} : KindOf[o] = "account" /\ Here(o) /\ db.rows[o].num = n

(* The check of save_account and save_transaction for another record's     *)
(* number.                                                                 *)
NumberTaken(e, n) ==
  \E o \in Entity \ {e} : /\ KindOf[o] = KindOf[e]
                          /\ Here(o)
                          /\ db.rows[o].num = n

(* Mutant: an operation that the table's CHECK does not know. *)
OperationForNew(e) == IF Here(e) THEN "update" ELSE "create"

(* "insert" or "update", by a query for the id. *)
OperationFor(e) == IF Here(e) THEN "update" ELSE "insert"

(* The rows that INSERT OR REPLACE removes: only accounts.number is UNIQUE. *)
Displaced(e, n) ==
  {o \in Entity \ {e} : /\ KindOf[e] = "account"
                        /\ KindOf[o] = "account"
                        /\ Here(o)
                        /\ db.rows[o].num = n}

(* foreign_keys = ON: an entry's account must be there, and stay. *)
ReferencesHold(e, n) ==
  /\ KindOf[e] = "transaction_entry" => Here(AccountOf[e])
  /\ \A x \in Entity : KindOf[x] = "transaction_entry" /\ Here(x)
                         => AccountOf[x] \notin Displaced(e, n)

(* INSERT OR REPLACE INTO the table of e. *)
Replaced(e, n, ver) ==
  [db EXCEPT !.rows = [o \in Entity |->
                         IF o = e
                           THEN [ver |-> ver, num |-> n, dirty |-> TRUE]
                           ELSE IF o \in Displaced(e, n)
                                  THEN [db.rows[o] EXCEPT !.ver = 0, !.dirty = FALSE]
                                  ELSE db.rows[o]],
             !.rowid[KindOf[e]] = @ + 1]

(* delete_account and delete_transaction: the status becomes Closed, or     *)
(* Voided, which is another content of the row.                             *)
SoftDeleted(e, ver) ==
  [db EXCEPT !.rows[e].ver = ver, !.rows[e].dirty = TRUE]

Deletable(e) == KindOf[e] \in Numbered

(* mark_clean, and the first statement of mark_synced_inner. *)
Cleaned(e) == [db EXCEPT !.rows[e].dirty = FALSE]

(* Mutant: the WHERE is missing. *)
ChangesSyncedOfAll(e) ==
  [db EXCEPT !.changes = {[c EXCEPT !.synced = TRUE] : c \in @}]

(* The second statement of mark_synced_inner. *)
ChangesSynced(e) ==
  [db EXCEPT !.changes = {IF c.of = e THEN [c EXCEPT !.synced = TRUE] ELSE c : c \in @}]

(* mark_all_synced, one batch. *)
AllSynced ==
  [db EXCEPT !.rows = [e \in Entity |-> [db.rows[e] EXCEPT !.dirty = FALSE]],
             !.changes = {},
             !.pending = 0]

(* clear_synced_changes. *)
SyncedCleared == [db EXCEPT !.changes = {c \in @ : ~c.synced}]

(* The UPDATE of update_sync_state, with the count it was given. *)
PendingWritten(n) == [db EXCEPT !.pending = n]
-----------------------------------------------------------------------------
(* The statements of ConflictResolver (edge/conflict.rs): the log of       *)
(* conflicts and the row a resolution is applied to.                       *)

Strategy == {"RemoteWins", "LocalWins", "LastWriteWins", "Manual"}
Winner == {"Local", "Remote"}

(* Mutant: the latest entry of any entity. *)
EntriesOfAll(e) == DOMAIN db.log

(* The entries of an entity; log_conflict takes the latest. *)
EntriesOf(e) == {i \in DOMAIN db.log : db.log[i].of = e}
LatestOf(e) == CHOOSE i \in EntriesOf(e) : \A j \in EntriesOf(e) : j <= i

Unresolved(e, local, remote) ==
  [of |-> e, local |-> local, remote |-> remote, won |-> 0, lost |-> 0]

(* Mutants: the winner stays; the local version stays. *)
ResetButWinner(id, local, remote) ==
  [db EXCEPT !.log[id].local = local, !.log[id].remote = remote]
ResetButLocal(id, local, remote) ==
  [db EXCEPT !.log[id] = Unresolved(db.log[id].of, db.log[id].local, remote)]

(* log_conflict where the entity has an entry: it is reset. *)
Reset(id, local, remote) ==
  [db EXCEPT !.log[id] = Unresolved(db.log[id].of, local, remote)]

(* log_conflict where it has none. *)
Logged(e, local, remote) ==
  [db EXCEPT !.log = Append(@, Unresolved(e, local, remote))]

(* determine_winner.  A conflict that the engine reports has the later     *)
(* local time, so that LastWriteWins keeps the local version.              *)
WinnerBy(strategy) == IF strategy = "RemoteWins" THEN "Remote" ELSE "Local"

WinningOf(winner, local, remote) == IF winner = "Local" THEN local ELSE remote
LosingOf(winner, local, remote) == IF winner = "Local" THEN remote ELSE local

(* UPDATE conflict_log ... WHERE id: no entry may have that id. *)
ResolvedAs(id, won, lost) ==
  IF id \in DOMAIN db.log
    THEN [db EXCEPT !.log[id].won = won, !.log[id].lost = lost]
    ELSE db

(* Kinds for which LocalStore has a save_ method. *)
Typed == {"account", "transaction", "journal_entry", "transaction_entry"}

(* apply_raw_json: an UPDATE of the row, if it is there. *)
RawApplied(e, ver) ==
  IF Here(e) THEN [db EXCEPT !.rows[e].ver = ver] ELSE db
=============================================================================
