----------------------------- MODULE AuditTrail -----------------------------
(***************************************************************************)
(* The audit trail: the audit agent's checks and plain log calls           *)
(* (audit/mod.rs) and the repositories they log to (database/audit.rs).    *)
(* The orchestrator gives the agent the database's repository when there   *)
(* is a database, the risk "database", and one in memory otherwise.  A     *)
(* check reads the whole trail and logs its entry in two calls; the agent  *)
(* is locked meanwhile, but another holder of the repository is not.       *)
(***************************************************************************)
EXTENDS Parts, Integers, Sequences, FiniteSets, SequencesExt

(* A mix also has `actions`, those that are logged; a custom one has the    *)
(* text of another only in one with the risk "named".                      *)
CONSTANTS
  Auditor,     \* holders of the repository
  MaxEntries,  \* bound: entries that are begun
  MaxStamp     \* bound: the time, which stamps entries

ASSUME AuditBounds == MaxEntries \in Nat /\ MaxStamp \in Nat

VARIABLES
  logs,         \* the repository's entries, in the order of their logging
  checks,       \* auditor -> the check in progress
  purge,        \* the delete_older_than in progress
  stamp,        \* the time
  entriesBegun,
  acknowledged, \* the entries whose log call has returned (history)
  purgedTo,     \* the latest date that entries were deleted up to (history)
  purged        \* the number the last deletion reported, and the true one (history)

auditVars ==
  <<logs, checks, purge, stamp, entriesBegun, acknowledged, purgedTo, purged>>

Database == Risk("database")

(* AuditAction: a kind, and the text of a custom one. *)
Action ==
  {<<"Create", "">>, <<"Update", "">>, <<"Delete", "">>,
   <<"Custom", "System audit check">>, <<"Custom", "create">>, <<"Custom", "sale">>}

ASSUME ActionsAssumption ==
  \A m \in Mixes :
    m.actions \subseteq IF "named" \in m.risks THEN Action ELSE Action \ {<<"Custom", "create">>}

(* Mutant: custom actions are stored without their text. *)
ActionStoredKind(action) ==
  CASE action[1] = "Custom" -> "create"
    [] action[1] = "Create" -> "create"
    [] action[1] = "Update" -> "update"
    [] action[1] = "Delete" -> "delete"

(* action_to_string, which parse_audit_log inverts where it can. *)
ActionStored(action) ==
  CASE action[1] = "Custom" -> action[2]
    [] action[1] = "Create" -> "create"
    [] action[1] = "Update" -> "update"
    [] action[1] = "Delete" -> "delete"

(* compute_audit_hash, without collisions: the hash tells the entries of a  *)
(* chain up to this one.                                                   *)
NoHash == << >>
AuditHash(id, previous) == Append(previous, id)

AuditEntry(action) ==
  [id |-> entriesBegun + 1, action |-> action, stamp |-> stamp,
   prev |-> NoHash, hash |-> NoHash]
Idle == [phase |-> "idle"]

WithHashes(e, prev, hash) ==
  [id |-> e.id, action |-> e.action, stamp |-> e.stamp, prev |-> prev, hash |-> hash]

(* The row of an entry: that of the database has no hashes. *)
LogRow(entry) == IF Database THEN WithHashes(entry, NoHash, NoHash) ELSE entry

(* list_all: the database's newest first. *)
ListAll == IF Database THEN SortSeq(logs, LAMBDA a, b : a.stamp > b.stamp) ELSE logs

(* Mutant: the first entry of the trail. *)
PreviousFirst == IF logs = << >> THEN NoHash ELSE Head(ListAll).hash

(* log_with_chain: the hash of the last entry listed. *)
Previous == IF logs = << >> THEN NoHash ELSE Last(ListAll).hash

-----------------------------------------------------------------------------
Begins == entriesBegun < MaxEntries /\ entriesBegun' = entriesBegun + 1

(* process_audit_check, up to the call of log_with_chain. *)
ProcessAuditCheck(p, action) ==
  /\ Begins
  /\ checks[p] = Idle
  /\ Risk("overlap") \/ \A q \in Auditor : checks[q] = Idle
  /\ checks' = [checks EXCEPT ![p] = [phase |-> "list", entry |-> AuditEntry(action)]]
  /\ UNCHANGED <<logs, purge, stamp, acknowledged, purgedTo, purged>>

(* log_with_chain: the list, from which the entry gets its hashes. *)
ChainListed(p) ==
  /\ checks[p].phase = "list"
  /\ LET e == checks[p].entry IN
     checks' = [checks EXCEPT ![p] =
       [phase |-> "log",
        entry |-> WithHashes(e, Previous, AuditHash(e.id, Previous))]]
  /\ UNCHANGED <<logs, purge, stamp, entriesBegun, acknowledged, purgedTo, purged>>

(* repository.log, and the return of the call. *)
Log(entry) ==
  /\ logs' = Append(logs, LogRow(entry))
  /\ acknowledged' = acknowledged \cup {entry}

(* An entry that is older than a date up to which it is being deleted. *)
LateForPurge(entry) == purge # Idle /\ entry.stamp < purge.date

ChainLogged(p) ==
  /\ checks[p].phase = "log"
  /\ LateForPurge(checks[p].entry) => Risk("late")
  /\ Log(checks[p].entry)
  /\ checks' = [checks EXCEPT ![p] = Idle]
  /\ UNCHANGED <<purge, stamp, entriesBegun, purgedTo, purged>>

(* The database fails in a query: so does the check, without an entry. *)
CheckFails(p) ==
  /\ Database
  /\ checks[p] # Idle
  /\ checks' = [checks EXCEPT ![p] = Idle]
  /\ UNCHANGED <<logs, purge, stamp, entriesBegun, acknowledged, purgedTo, purged>>

(* log_create, log_update, log_delete and log_error of the agent: no hash. *)
LogPlain(action) ==
  /\ Risk("plain")
  /\ Begins
  /\ LateForPurge(AuditEntry(action)) => Risk("late")
  /\ Log(AuditEntry(action))
  /\ UNCHANGED <<checks, purge, stamp, purgedTo, purged>>

LogCreate == LogPlain(<<"Create", "">>)
LogUpdate == LogPlain(<<"Update", "">>)
LogDelete == LogPlain(<<"Delete", "">>)
LogError == \E action \in mix.actions : LogPlain(action)

-----------------------------------------------------------------------------
(* delete_older_than. *)

(* Mutant: entries of the date itself go too. *)
RetainedAfter(entry, date) == entry.stamp > date

Retained(entry, date) == entry.stamp >= date

Keep(date) == Those(logs, {i \in DOMAIN logs : Retained(logs[i], date)})

(* Mutant: the number is taken of what is left. *)
DeletedWrong(before, after) == Len(after)

Deleted(before, after) == Len(before) - Len(after)

Reported(count) ==
  purged' = [reported |-> count, actual |-> Len(logs) - Len(logs')]
PurgedTo(date) == purgedTo' = IF date > purgedTo THEN date ELSE purgedTo

(* In memory under the repository's lock. *)
PurgeMemory(date) ==
  /\ ~Database
  /\ logs' = Keep(date)
  /\ Reported(Deleted(logs, logs'))
  /\ PurgedTo(date)
  /\ UNCHANGED <<checks, purge, stamp, entriesBegun, acknowledged>>

(* In the database a count, and then the deletion. *)
PurgeCounts(date) ==
  /\ Database /\ purge = Idle
  /\ purge' = [phase |-> "delete", date |-> date, count |-> Deleted(logs, Keep(date))]
  /\ UNCHANGED <<logs, checks, stamp, entriesBegun, acknowledged, purgedTo, purged>>

PurgeDeletes ==
  /\ purge # Idle
  /\ logs' = Keep(purge.date)
  /\ Reported(purge.count)
  /\ PurgedTo(purge.date)
  /\ purge' = Idle
  /\ UNCHANGED <<checks, stamp, entriesBegun, acknowledged>>

AuditTick ==
  /\ stamp < MaxStamp
  /\ stamp' = stamp + 1
  /\ UNCHANGED <<logs, checks, purge, entriesBegun, acknowledged, purgedTo, purged>>

AuditInit ==
  /\ logs = << >>
  /\ checks = [p \in Auditor |-> Idle]
  /\ purge = Idle
  /\ stamp = 0 /\ entriesBegun = 0
  /\ acknowledged = {} /\ purgedTo = 0
  /\ purged = [reported |-> 0, actual |-> 0]

AuditNext ==
  /\ Moves("audit")
  /\ UNCHANGED mix
  /\ \/ \E p \in Auditor :
          \/ \E action \in mix.actions : ProcessAuditCheck(p, action)
          \/ ChainListed(p) \/ ChainLogged(p) \/ CheckFails(p)
     \/ LogCreate \/ LogUpdate \/ LogDelete \/ LogError
     \/ \E date \in 0 .. MaxStamp : PurgeMemory(date) \/ PurgeCounts(date)
     \/ PurgeDeletes \/ AuditTick

AuditTypeOK ==
  /\ \A i \in DOMAIN logs : logs[i].action \in Action /\ logs[i].stamp \in 0 .. stamp
  /\ \A p \in Auditor : checks[p].phase \in {"idle", "list", "log"}
  /\ \A e \in acknowledged : e.id \in 1 .. entriesBegun

-----------------------------------------------------------------------------
(* Queries: find_by_date_range, and find_by_action, which compares actions, *)
(* or the texts of rows.                                                   *)
FindByDateRange(from, to) == {e \in ToSet(logs) : from <= e.stamp /\ e.stamp <= to}

FindByAction(action) ==
  {e \in ToSet(logs) : IF Database THEN ActionStored(e.action) = ActionStored(action)
                                   ELSE e.action = action}

(* "Each entry links to the previous via SHA-256": it names the hash of the *)
(* entry before it, so that one left out shows; with checks of one agent    *)
(* alone, in memory.  A plain entry has no hash, two checks at a time name  *)
(* the same one, and the database keeps none.                              *)
EntriesLinked ==
  Safe({"overlap", "plain", "database"}) =>
    /\ \A i \in 2 .. Len(logs) : logs[i].prev = logs[i - 1].hash
    /\ \A i \in DOMAIN logs : logs[i].hash = AuditHash(logs[i].id, logs[i].prev)

(* An entry that was logged is found under its date until a date after its  *)
(* own is deleted up to, whatever calls overlap.                           *)
RetentionKeeps ==
  \A e \in acknowledged : e.stamp >= purgedTo =>
    \E found \in FindByDateRange(e.stamp, e.stamp) : found.id = e.id

(* A deletion reports how many entries it removed, unless an older one was  *)
(* logged after the database had counted.                                  *)
PurgeCountTrue == Safe({"late"}) => purged.reported = purged.actual

(* A query by action finds the entries of that action only, unless a custom *)
(* one, as the text "create" of a check makes it, has the name of another. *)
ActionsApart ==
  \A action \in mix.actions :
    Safe({"named"}) => \A e \in FindByAction(action) : e.action = action
=============================================================================
