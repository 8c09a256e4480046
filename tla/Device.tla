------------------------------- MODULE Device -------------------------------
(***************************************************************************)
(* A device: threads that save, delete, mark and resolve records of one    *)
(* database, statement by statement.  Each thread makes one call at a      *)
(* time; call[t] holds its locals.  In a part of its runs the device does  *)
(* nothing but start and stop synchronisations (EdgeManager).              *)
(***************************************************************************)
EXTENDS LocalStore, EdgeManager

CONSTANTS
  Thread,
  MaxFaults, \* failing statements and crashes in a behaviour
  Mixes      \* the behaviours that are looked at: which kinds of calls are
             \* made together, on which records, how many at most, and which
             \* risky steps are allowed:
             \* "write_in_transaction": a thread writes between the BEGIN
             \*   and the COMMIT of another;
             \* "same_number": two saves of one number overlap;
             \* "unlogged": record_change fails, or the process dies, after
             \*   the row has been written;
             \* "commit_error": COMMIT or ROLLBACK fails, the transaction
             \*   stays open;
             \* "insert_during_log": a thread inserts between the INSERT of
             \*   log_conflict and its last_insert_rowid();
             \* "same_conflict": two resolutions of one record overlap;
             \* "save_before_apply": a record is saved or deleted between
             \*   the report of its conflict and the end of its resolution

ASSUME DeviceAssumption ==
  /\ Mixes \subseteq [calls: SUBSET {"save", "mark", "state", "conflict", "manager"},
                      of: SUBSET Entity,
                      most: Nat,
                      risks: SUBSET {"write_in_transaction", "same_number", "unlogged",
                                     "commit_error", "insert_during_log",
                                     "same_conflict", "save_before_apply"}]
  /\ MaxFaults \in Nat

VARIABLES
  mix,    \* the calls and the risks of this behaviour
  call,   \* each thread's locals
  calls,  \* calls made so far
  faults, \* faults so far
  clock,  \* the versions written so far
  saved   \* the version of each record that the last write left (history)

deviceVars == <<db, undo, lastId, mix, call, calls, faults, clock, saved>>
vars == <<deviceVars, managerVars>>

Positions ==
  {"idle", "number", "exists", "replace", "record", "post", "delete",
   "begin", "clean", "synced", "commit", "rollback", "count", "pending",
   "look", "reset", "insert", "lastid", "strategy", "resolve", "apply",
   "entry"}

(* A call at rest.  `op` is the operation to be recorded, `then` whether    *)
(* post_apply follows, `id` the entry of the log, `n` a count.              *)
Rest(e, n) ==
  [at |-> "idle", e |-> e, num |-> n, ver |-> 0, op |-> "update",
   then |-> FALSE, local |-> 0, remote |-> 0, id |-> 0, won |-> 0,
   winner |-> "Remote", n |-> 0]
Idle == Rest(CHOOSE e \in Entity : TRUE, CHOOSE n \in Number : TRUE)

Risk(name) == name \in mix.risks
Safe(names) == names \cap mix.risks = {}

At(t, p) == call[t].at = p
InTransaction(t) == call[t].at \in {"clean", "synced", "commit", "rollback"}
Logging(t) == call[t].at = "lastid"
Resolving(t, e) ==
  /\ call[t].e = e
  /\ \/ call[t].at \in {"look", "reset", "insert", "lastid", "strategy",
                        "resolve", "apply", "entry", "post"}
     \/ call[t].then
(* Between the row of a save and its entry in the change log. *)
Saving(t, e) == call[t].e = e /\ call[t].at \in {"record"}
Others(t) == Thread \ {t}

(* A thread may write, or insert, where no other is in its transaction, or  *)
(* about to ask for its last id.                                           *)
MayWrite(t) ==
  Risk("write_in_transaction") \/ \A u \in Others(t) : ~InTransaction(u)
MayInsert(t) ==
  /\ MayWrite(t)
  /\ Risk("insert_during_log") \/ \A u \in Others(t) : ~Logging(u)

Becomes(t, c) == call' = [call EXCEPT ![t] = c]
Goto(t, p) == Becomes(t, [call[t] EXCEPT !.at = p])
Return(t) == Becomes(t, Idle)

Still == UNCHANGED <<mix, calls, faults, clock, saved, managerVars>>

-----------------------------------------------------------------------------
(* The beginnings of calls. *)

Starts(t, kind) ==
  /\ kind \in mix.calls
  /\ At(t, "idle")
  /\ calls < mix.most
  /\ calls' = calls + 1
  /\ Query
  /\ UNCHANGED <<mix, faults, saved, managerVars>>

NotResolving(t, e) ==
  Risk("save_before_apply") \/ \A u \in Others(t) : ~Resolving(u, e)

(* save_account, save_transaction (of a balanced one), save_journal_entry   *)
(* and save_transaction_entry with a new content.                          *)
Save(t, e, n) ==
  /\ Starts(t, "save")
  /\ KindOf[e] \in Typed
  /\ NotResolving(t, e)
  /\ clock' = clock + 1
  /\ Becomes(t, [Rest(e, n) EXCEPT
                   !.at = IF KindOf[e] \in Numbered THEN "number" ELSE "exists",
                   !.ver = clock + 1])

Delete(t, e) ==
  /\ Starts(t, "save")
  /\ Deletable(e)
  /\ NotResolving(t, e)
  /\ clock' = clock + 1
  /\ Becomes(t, [Rest(e, Idle.num) EXCEPT
                   !.at = "delete", !.ver = clock + 1, !.op = "delete"])

MarkSynced(t, e) ==
  /\ Starts(t, "mark")
  /\ Becomes(t, [Rest(e, Idle.num) EXCEPT !.at = "begin"])
  /\ UNCHANGED clock

UpdateSyncState(t) ==
  /\ Starts(t, "state")
  /\ Goto(t, "count")
  /\ UNCHANGED clock

(* A pull has met a row with a later local change: upsert_remote returns    *)
(* both versions, and they come to resolve_with_strategy.                  *)
ReportConflict(t, e) ==
  /\ Starts(t, "conflict")
  /\ Here(e)
  /\ Risk("same_conflict") \/ \A u \in Others(t) : ~Resolving(u, e)
  /\ Risk("save_before_apply") \/
       \A u \in Others(t) : ~(call[u].e = e /\ call[u].at \in
                               {"number", "exists", "replace", "delete"})
  /\ clock' = clock + 1
  /\ Becomes(t, [Rest(e, db.rows[e].num) EXCEPT
                   !.at = "look", !.local = db.rows[e].ver, !.remote = clock + 1])

(* A person takes up an entry of the log: resolve_manually. *)
ResolveManually(t, id, w) ==
  /\ Starts(t, "conflict")
  /\ id \in DOMAIN db.log
  /\ Risk("same_conflict") \/ \A u \in Others(t) : ~Resolving(u, db.log[id].of)
  /\ Risk("save_before_apply") \/ db.rows[db.log[id].of].ver = db.log[id].local
  /\ Risk("save_before_apply") \/
       \A u \in Others(t) : ~(call[u].e = db.log[id].of /\ call[u].at \in
                               {"number", "exists", "replace", "delete"})
  /\ Becomes(t, [Rest(db.log[id].of, db.rows[db.log[id].of].num) EXCEPT
                   !.at = "entry", !.id = id, !.winner = w])
  /\ UNCHANGED clock

(* mark_all_synced, clear_synced_changes, mark_clean: one statement each,   *)
(* the first refused inside a transaction.                                 *)
AtOnce(t) ==
  /\ "mark" \in mix.calls
  /\ At(t, "idle")
  /\ calls < mix.most
  /\ calls' = calls + 1
  /\ MayWrite(t)
  /\ UNCHANGED <<mix, call, faults, clock, saved, managerVars>>

MarkAllSynced(t) ==
  /\ AtOnce(t)
  /\ IF CanBegin THEN Execute(AllSynced) ELSE Query

ClearSyncedChanges(t) ==
  /\ AtOnce(t)
  /\ Execute(SyncedCleared)

MarkClean(t, e) ==
  /\ AtOnce(t)
  /\ Execute(Cleaned(e))

-----------------------------------------------------------------------------
(* The statements of a save. *)

CheckNumber(t) ==
  /\ At(t, "number")
  /\ \/ Risk("same_number")
     \/ \A u \in Others(t) : ~(/\ call[u].at \in {"exists", "replace"}
                                /\ call[u].num = call[t].num)
  /\ Query
  /\ IF NumberTaken(call[t].e, call[t].num) THEN Return(t) ELSE Goto(t, "exists")
  /\ Still

CheckExists(t) ==
  /\ At(t, "exists")
  /\ Query
  /\ Becomes(t, [call[t] EXCEPT !.at = "replace", !.op = OperationFor(call[t].e)])
  /\ Still

Replace(t) ==
  LET c == call[t] IN
  /\ At(t, "replace")
  /\ MayInsert(t)
  /\ IF ReferencesHold(c.e, c.num)
       THEN /\ Insert(Replaced(c.e, c.num, c.ver), db.rowid[KindOf[c.e]])
            /\ saved' = [saved EXCEPT ![c.e] = c.ver]
            /\ Goto(t, "record")
       ELSE /\ Query
            /\ Return(t)
            /\ UNCHANGED saved
  /\ UNCHANGED <<mix, calls, faults, clock, managerVars>>

SoftDelete(t) ==
  LET c == call[t] IN
  /\ At(t, "delete")
  /\ MayWrite(t)
  /\ IF Here(c.e)
       THEN /\ Execute(SoftDeleted(c.e, c.ver))
            /\ saved' = [saved EXCEPT ![c.e] = c.ver]
            /\ Goto(t, "record")
       ELSE /\ Query
            /\ Return(t)
            /\ UNCHANGED saved
  /\ UNCHANGED <<mix, calls, faults, clock, managerVars>>

RecordChange(t) ==
  /\ At(t, "record")
  /\ MayInsert(t)
  /\ Insert(Recorded(call[t].e, call[t].op), db.nextChange)
  /\ IF call[t].then THEN Goto(t, "post") ELSE Return(t)
  /\ Still

-----------------------------------------------------------------------------
(* The statements of mark_synced and update_sync_state. *)

Begin(t) ==
  /\ At(t, "begin")
  /\ IF CanBegin
       THEN BeginTransaction /\ Goto(t, "clean")
       ELSE Query /\ Return(t)
  /\ Still

CleanRow(t) ==
  /\ At(t, "clean")
  /\ Execute(Cleaned(call[t].e))
  /\ Goto(t, "synced")
  /\ Still

SyncChanges(t) ==
  /\ At(t, "synced")
  /\ Execute(ChangesSynced(call[t].e))
  /\ Goto(t, "commit")
  /\ Still

CommitMark(t) ==
  /\ At(t, "commit")
  /\ Commit
  /\ Return(t)
  /\ Still

RollbackMark(t) ==
  /\ At(t, "rollback")
  /\ Rollback
  /\ Return(t)
  /\ Still

CountPending(t) ==
  /\ At(t, "count")
  /\ Query
  /\ Becomes(t, [call[t] EXCEPT !.at = "pending", !.n = Cardinality(DirtyRows)])
  /\ Still

WritePending(t) ==
  /\ At(t, "pending")
  /\ MayWrite(t)
  /\ Execute(PendingWritten(call[t].n))
  /\ Return(t)
  /\ Still

-----------------------------------------------------------------------------
(* The statements of log_conflict, resolve_with_strategy, resolve_manually  *)
(* and apply_resolution.                                                   *)

LookForEntry(t) ==
  LET e == call[t].e IN
  /\ At(t, "look")
  /\ Query
  /\ IF EntriesOf(e) = {}
       THEN Goto(t, "insert")
       ELSE Becomes(t, [call[t] EXCEPT !.at = "reset", !.id = LatestOf(e)])
  /\ Still

ResetEntry(t) ==
  /\ At(t, "reset")
  /\ MayWrite(t)
  /\ Execute(Reset(call[t].id, call[t].local, call[t].remote))
  /\ Goto(t, "strategy")
  /\ Still

InsertEntry(t) ==
  /\ At(t, "insert")
  /\ MayInsert(t)
  /\ Insert(Logged(call[t].e, call[t].local, call[t].remote), Len(db.log) + 1)
  /\ Goto(t, "lastid")
  /\ Still

ReadLastId(t) ==
  /\ At(t, "lastid")
  /\ Query
  /\ Becomes(t, [call[t] EXCEPT !.at = "strategy", !.id = lastId])
  /\ Still

(* The UPDATE of the strategy, which is left out, and the return of         *)
(* ManualRequired under the strategy Manual.                               *)
ChooseStrategy(t, s) ==
  /\ At(t, "strategy")
  /\ Query
  /\ IF s = "Manual"
       THEN Return(t)
       ELSE Becomes(t, [call[t] EXCEPT !.at = "resolve", !.winner = WinnerBy(s)])
  /\ Still

(* get_conflict of resolve_manually. *)
ReadEntry(t) ==
  LET c == call[t] IN
  /\ At(t, "entry")
  /\ Query
  /\ IF c.id \in DOMAIN db.log
       THEN Becomes(t, [c EXCEPT !.at = "resolve",
                                 !.local = db.log[c.id].local,
                                 !.remote = db.log[c.id].remote])
       ELSE Return(t)
  /\ Still

ResolveEntry(t) ==
  LET c == call[t]
      won == WinningOf(c.winner, c.local, c.remote)
      loser == LosingOf(c.winner, c.local, c.remote)
  IN
  /\ At(t, "resolve")
  /\ MayWrite(t)
  /\ Execute(ResolvedAs(c.id, won, loser))
  /\ Becomes(t, [c EXCEPT !.at = "apply", !.ver = won])
  /\ Still

(* apply_resolution of a kind with a save_ method, which it goes through;   *)
(* of the other kinds it writes the columns.                               *)
ApplyTyped(t) ==
  /\ At(t, "apply")
  /\ KindOf[call[t].e] \in Typed
  /\ Query
  /\ Becomes(t, [call[t] EXCEPT !.then = TRUE,
                   !.at = IF KindOf[call[t].e] \in Numbered THEN "number" ELSE "exists"])
  /\ Still

ApplyRaw(t) ==
  LET c == call[t] IN
  /\ At(t, "apply")
  /\ KindOf[c.e] \notin Typed
  /\ MayWrite(t)
  /\ Execute(RawApplied(c.e, c.ver))
  /\ saved' = [saved EXCEPT ![c.e] = IF Here(c.e) THEN c.ver ELSE @]
  /\ Goto(t, "post")
  /\ UNCHANGED <<mix, calls, faults, clock, managerVars>>

PostApply(t) ==
  /\ At(t, "post")
  /\ MayWrite(t)
  /\ Execute(Cleaned(call[t].e))
  /\ Return(t)
  /\ Still

-----------------------------------------------------------------------------
(* Faults. *)

Faulty ==
  /\ faults < MaxFaults
  /\ faults' = faults + 1
  /\ UNCHANGED <<mix, calls, clock, saved, managerVars>>

(* A statement fails, and the call returns its error.  The query for the    *)
(* id is different: its failure counts as "insert".                        *)
StatementFails(t) ==
  /\ call[t].at \in Positions \ {"idle", "exists", "clean", "synced", "commit",
                                 "rollback", "apply"}
  /\ At(t, "record") => Risk("unlogged")
  /\ Faulty
  /\ Query
  /\ Return(t)

ExistsFails(t) ==
  /\ At(t, "exists")
  /\ Faulty
  /\ Query
  /\ Becomes(t, [call[t] EXCEPT !.at = "replace", !.op = "insert"])

MarkFails(t) ==
  /\ call[t].at \in {"clean", "synced"}
  /\ Faulty
  /\ Query
  /\ Goto(t, "rollback")

(* COMMIT fails and mark_synced returns without a ROLLBACK, or the ROLLBACK *)
(* fails and is ignored.                                                   *)
CommitFails(t) ==
  /\ Risk("commit_error")
  /\ call[t].at \in {"commit", "rollback"}
  /\ Faulty
  /\ Query
  /\ Return(t)

Crash ==
  /\ Risk("unlogged") \/ \A t \in Thread : ~At(t, "record")
  /\ Faulty
  /\ Reopen
  /\ call' = [t \in Thread |-> Idle]

-----------------------------------------------------------------------------
Init ==
  /\ DbInit
  /\ mix \in Mixes
  /\ call = [t \in Thread |-> Idle]
  /\ calls = 0
  /\ faults = 0
  /\ clock = 1
  /\ saved = [e \in Entity |-> db.rows[e].ver]
  /\ ManagerInit
  /\ "manager" \notin mix.calls => \A h \in Handle : offline[h]

StoreStep(t) ==
  \/ \E e \in mix.of, n \in Number : Save(t, e, n)
  \/ \E e \in mix.of : Delete(t, e)
  \/ CheckNumber(t) \/ CheckExists(t) \/ Replace(t) \/ SoftDelete(t)
  \/ RecordChange(t)

TrackerStep(t) ==
  \/ \E e \in mix.of : MarkSynced(t, e) \/ MarkClean(t, e)
  \/ UpdateSyncState(t) \/ MarkAllSynced(t) \/ ClearSyncedChanges(t)
  \/ Begin(t) \/ CleanRow(t) \/ SyncChanges(t) \/ CommitMark(t) \/ RollbackMark(t)
  \/ CountPending(t) \/ WritePending(t)

ResolverStep(t) ==
  \/ \E e \in mix.of : ReportConflict(t, e)
  \/ \E id \in DOMAIN db.log, w \in Winner : ResolveManually(t, id, w)
  \/ LookForEntry(t) \/ ResetEntry(t) \/ InsertEntry(t) \/ ReadLastId(t)
  \/ \E s \in Strategy : ChooseStrategy(t, s)
  \/ ReadEntry(t) \/ ResolveEntry(t) \/ ApplyTyped(t) \/ ApplyRaw(t) \/ PostApply(t)

FaultStep(t) ==
  StatementFails(t) \/ ExistsFails(t) \/ MarkFails(t) \/ CommitFails(t)

Synchronise == "manager" \in mix.calls /\ ManagerNext /\ UNCHANGED deviceVars

Next ==
  \/ \E t \in Thread : StoreStep(t) \/ TrackerStep(t) \/ ResolverStep(t) \/ FaultStep(t)
  \/ Crash
  \/ Synchronise

Spec == Init /\ [][Next]_vars

-----------------------------------------------------------------------------
Call ==
  [at: Positions, e: Entity, num: Number, ver: Nat, op: Operation,
   then: BOOLEAN, local: Nat, remote: Nat, id: Nat, won: Nat,
   winner: Winner, n: Nat]

(* Every variable has its type. *)
TypeOK ==
  /\ db \in Db
  /\ undo \in Db \cup {NoDb}
  /\ lastId \in Nat
  /\ mix \in Mixes
  /\ call \in [Thread -> Call]
  /\ calls \in 0 .. mix.most
  /\ faults \in 0 .. MaxFaults
  /\ clock \in Nat
  /\ saved \in [Entity -> Nat]
  /\ ManagerTypeOK

(* mark_synced's transaction, which is the connection's, is open exactly    *)
(* while one thread is inside it: two never share one, and none is left    *)
(* behind for every later write to be lost with ("wrapped in a transaction *)
(* so they succeed or fail atomically", tracking.rs).  A COMMIT or ROLLBACK *)
(* that fails leaves one.                                                  *)
OneTransaction ==
  Safe({"commit_error"}) =>
    /\ undo # NoDb <=> \E t \in Thread : InTransaction(t)
    /\ \A t, u \in Thread : InTransaction(t) /\ InTransaction(u) => t = u

(* What the last write to a record left is what its row holds: no          *)
(* ROLLBACK, crash or other record's save takes it away - unless it was    *)
(* written inside another thread's transaction, or two saves of one number *)
(* overlapped and INSERT OR REPLACE removed the other row.                 *)
Durable ==
  Safe({"commit_error", "write_in_transaction", "same_number"}) =>
    \A e \in Entity : db.rows[e].ver = saved[e]

(* A dirty row whose save is over has an unsynced entry in the change log,  *)
(* so that the log never says less is pending than there is - unless the   *)
(* save ended between the two, or wrote inside another's mark_synced.      *)
DirtyRowsLogged ==
  Safe({"commit_error", "write_in_transaction", "unlogged"}) =>
    \A e \in DirtyRows :
      \/ \E c \in db.changes : c.of = e /\ ~c.synced
      \/ \E t \in Thread : Saving(t, e)

(* "Account and transaction numbers must be unique" (store.rs): they are,   *)
(* unless two saves of one number overlap.                                 *)
NumbersUnique ==
  Safe({"same_number", "write_in_transaction", "commit_error"}) =>
    \A e, f \in Entity :
      (/\ KindOf[e] = KindOf[f]
       /\ KindOf[e] \in Numbered
       /\ Here(e) /\ Here(f)
       /\ db.rows[e].num = db.rows[f].num)
        => e = f

(* log_conflict "returns the conflict_log entry ID": the id at hand is that *)
(* of an entry of the conflict's record.                                   *)
LogIdIsOwn ==
  \A t \in Thread :
    call[t].at \in {"strategy", "resolve"} =>
      /\ call[t].id \in DOMAIN db.log
      /\ db.log[call[t].id].of = call[t].e

(* It is, unless another insert comes between the INSERT and the            *)
(* last_insert_rowid() of log_conflict.                                    *)
OwnLogId == Safe({"insert_during_log", "write_in_transaction", "commit_error"}) => LogIdIsOwn

(* A resolution is recorded with the conflict it resolved: the entry's      *)
(* winning and losing versions are its own two - unless two conflicts of   *)
(* one record are resolved at the same time, or under a foreign id.        *)
LogConsistent ==
  Safe({"insert_during_log", "same_conflict", "write_in_transaction", "commit_error"}) =>
    \A i \in DOMAIN db.log :
      db.log[i].won # 0 => {db.log[i].won, db.log[i].lost} =
                           {db.log[i].local, db.log[i].remote}

(* A resolution that is about to replace a row replaces one of the two      *)
(* versions the log has for it: no edit disappears unrecorded - unless the *)
(* record is edited between the report of the conflict and then, or the    *)
(* INSERT OR REPLACE of another of the same number removes it.             *)
NoSilentLoss ==
  Safe({"save_before_apply", "same_conflict", "insert_during_log",
        "same_number", "write_in_transaction", "commit_error"}) =>
    \A t \in Thread :
      At(t, "apply") \/ (At(t, "replace") /\ call[t].then) =>
        \E i \in EntriesOf(call[t].e) :
          db.rows[call[t].e].ver \in {db.log[i].local, db.log[i].remote}

(* What a device's database is for: what was saved is there, the change log *)
(* knows what is pending, numbers are unique, transactions do not mix.     *)
StoreSound ==
  TypeOK /\ OneTransaction /\ Durable /\ DirtyRowsLogged /\ NumbersUnique

(* What the log of conflicts is for: every resolution can be looked up with *)
(* both versions, and none takes away a third.                             *)
ConflictsSound == OwnLogId /\ LogConsistent /\ NoSilentLoss

(* The manager's flag is set while, and only while, its one synchronisation *)
(* runs.                                                                   *)
FlagSound == OneSync /\ FlagNotStuck
=============================================================================
