------------------------------ MODULE EdgeSync ------------------------------
(***************************************************************************)
(* The sync engine of edge/sync.rs: a device keeps rows in a local SQLite  *)
(* database, a remote database keeps the shared copy, and a sync cycle     *)
(* pushes the dirty rows and then pulls what changed remotely.             *)
(*                                                                         *)
(* Row contents are abstracted to versions.  A version is named by the     *)
(* time at which a user made it (0 means: the row does not exist), a time  *)
(* stamp is a value of the logical clock `now', and every write to either  *)
(* database that stamps a row advances the clock, so that stamps are       *)
(* distinct.  Each step between two awaits, or between two acquisitions of *)
(* the SQLite connection, is an action of its own; the application's       *)
(* threads, other devices and failures interleave with them.               *)
(***************************************************************************)
EXTENDS Naturals

CONSTANTS
    Rows,             \* identities of the records kept on both sides
    Types,            \* entity types, pulled one at a time
    TypeOf,           \* the type of each row
    Unsupported,      \* types that save_remote_record does not implement
    Callers,          \* tasks that call sync, push_changes or pull_changes
    MAX_RETRIES,      \* retries of a failed push (3 in the code)
    Hazards,          \* the risky environment steps that are allowed
    MaxEdits,         \* bound: saves by this device's application
    MaxRemoteWrites,  \* bound: writes by other devices
    MaxFaults         \* bound: failures, crashes and outages

HazardKinds ==
    {"edit_during_push",    \* a save while the row's push is in flight
     "edit_during_upsert",  \* a save while the row is being upserted
     "write_during_pull",   \* a remote write after its type was queried
     "pull_error",          \* a type's query fails
     "upsert_error",        \* a remote record cannot be stored locally
     "read_error",          \* the conflict check cannot read the local row
     "cancel"}              \* the future of a cycle is dropped at an await

ASSUME EdgeSyncAssumption ==
    /\ TypeOf \in [Rows -> Types]
    /\ Unsupported \subseteq Types
    /\ Hazards \subseteq HazardKinds
    /\ MAX_RETRIES \in Nat
    /\ MaxEdits \in Nat /\ MaxRemoteWrites \in Nat /\ MaxFaults \in Nat

VARIABLES
    local,      \* the SQLite row: its version, _modified_at and _dirty
    remote,     \* the remote record: its version and modified_at
    lastSync,   \* sync_state.last_sync; 0 before the first cycle
    syncing,    \* the flag behind the engine's mutex
    run,        \* the state of each caller's cycle
    reachable,  \* whether the remote answers
    now,        \* the logical clock
    received,   \* history: the versions the remote has stored, per row
    known,      \* history: the versions made, applied or reported here
    edits, remoteWrites, faults   \* what has been used of the bounds

vars == <<local, remote, lastSync, syncing, run, reachable, now,
          received, known, edits, remoteWrites, faults>>
bounds == <<edits, remoteWrites>>
history == <<received, known>>

PushPcs == {"snapshot", "next", "sending", "mark"}
PullPcs == {"query", "check", "save", "mark_pulled", "stamp", "finish"}
Pcs == {"idle", "reach", "since", "release"} \cup PushPcs \cup PullPcs

\* A record as pull_changes returns it, or as push_single has read it.
Record == [row : Rows, ver : Nat, ts : Nat]

\* The locals of a running cycle.  `rec' is a set of at most one record: the
\* one the loop body is working on.
Cycle == [pc : Pcs, op : {"sync", "push", "pull"},
          batch : SUBSET Rows, rec : SUBSET Record, attempt : 0..MAX_RETRIES,
          since : Nat, todo : SUBSET Types, inbox : SUBSET Record]

Idle == [pc |-> "idle", op |-> "sync", batch |-> {}, rec |-> {},
         attempt |-> 0, since |-> 0, todo |-> {}, inbox |-> {}]

Init ==
    /\ local = [r \in Rows |-> [ver |-> 0, ts |-> 0, dirty |-> FALSE]]
    /\ remote = [r \in Rows |-> [ver |-> 0, ts |-> 0]]
    /\ lastSync = 0
    /\ syncing = FALSE
    /\ run = [c \in Callers |-> Idle]
    /\ reachable = TRUE
    /\ now = 0
    /\ received = [r \in Rows |-> {}]
    /\ known = [r \in Rows |-> {}]
    /\ edits = 0 /\ remoteWrites = 0 /\ faults = 0

-----------------------------------------------------------------------------
(* The environment: the application on this device and the other devices.  *)

At(r, pcs) == \E c \in Callers : /\ run[c].pc \in pcs
                                 /\ \E m \in run[c].rec : m.row = r

\* Row r has been read for a push that has not been marked synced yet.
PushWindow(r) == At(r, {"sending", "mark"})
\* The conflict check of r is done and its upsert is not.
UpsertWindow(r) == At(r, {"save", "mark_pulled", "stamp"})
\* The type of r has been queried and last_sync has not been written yet.
PullWindow(r) == \E c \in Callers : /\ run[c].pc \in PullPcs
                                    /\ TypeOf[r] \notin run[c].todo

\* LocalStore::save_* (and delete_*, which is a save of a closed row).
LocalSave(r) ==
    /\ edits < MaxEdits
    /\ PushWindow(r) => "edit_during_push" \in Hazards
    /\ UpsertWindow(r) => "edit_during_upsert" \in Hazards
    /\ edits' = edits + 1
    /\ now' = now + 1
    /\ local' = [local EXCEPT ![r] = [ver |-> now', ts |-> now', dirty |-> TRUE]]
    /\ known' = [known EXCEPT ![r] = @ \cup {now'}]
    /\ UNCHANGED <<remote, lastSync, syncing, run, reachable, received,
                   remoteWrites, faults>>

\* Another device's push lands on the remote database.
RemoteWrite(r) ==
    /\ remoteWrites < MaxRemoteWrites
    /\ PullWindow(r) => "write_during_pull" \in Hazards
    /\ remoteWrites' = remoteWrites + 1
    /\ now' = now + 1
    /\ remote' = [remote EXCEPT ![r] = [ver |-> now', ts |-> now']]
    /\ received' = [received EXCEPT ![r] = @ \cup {now'}]
    /\ UNCHANGED <<local, lastSync, syncing, run, reachable, known, edits, faults>>

Fault == faults < MaxFaults /\ faults' = faults + 1

\* The remote becomes unreachable, or reachable again.
Disconnect ==
    /\ reachable /\ Fault
    /\ reachable' = FALSE
    /\ UNCHANGED <<local, remote, lastSync, syncing, run, now, history, bounds>>

Reconnect ==
    /\ ~reachable
    /\ reachable' = TRUE
    /\ UNCHANGED <<local, remote, lastSync, syncing, run, now, history, bounds,
                   faults>>

-----------------------------------------------------------------------------
(* The engine.  Step(c, next) is what all its steps have in common.        *)

Step(c, from, next) ==
    /\ run[c].pc = from
    /\ run' = [run EXCEPT ![c] = next]
    /\ UNCHANGED <<reachable, bounds>>

Goto(c, pc) == [run[c] EXCEPT !.pc = pc]

\* Leave the loop body for the next record of the batch, or of the inbox.
NextPush(c) == [run[c] EXCEPT !.pc = "next", !.rec = {}, !.attempt = 0]
NextPull(c) == [run[c] EXCEPT !.pc = "check", !.rec = {}]

LocalUnchanged == UNCHANGED <<local, known>>
RemoteUnchanged == UNCHANGED <<remote, received, now>>

\* Mutated form of Acquire: the flag is set without being tested.
AcquireUntested(c, op) ==
    /\ Step(c, "idle", [Idle EXCEPT !.pc = "reach", !.op = op])
    /\ syncing' = TRUE
    /\ LocalUnchanged /\ RemoteUnchanged /\ UNCHANGED <<lastSync, faults>>

\* try_acquire_sync_lock succeeds; a caller that finds the flag set returns
\* AlreadySyncing and changes nothing.
Acquire(c, op) ==
    /\ ~syncing
    /\ Step(c, "idle", [Idle EXCEPT !.pc = "reach", !.op = op])
    /\ syncing' = TRUE
    /\ LocalUnchanged /\ RemoteUnchanged /\ UNCHANGED <<lastSync, faults>>

\* is_reachable: an unreachable remote ends the cycle with Offline.
CheckReachable(c) ==
    /\ Step(c, "reach", Goto(c, IF ~reachable THEN "release"
                                ELSE IF run[c].op = "pull" THEN "since"
                                ELSE "snapshot"))
    /\ LocalUnchanged /\ RemoteUnchanged /\ UNCHANGED <<lastSync, syncing, faults>>

\* get_dirty_records.
Snapshot(c) ==
    /\ Step(c, "snapshot",
            [run[c] EXCEPT !.pc = "next",
                           !.batch = {r \in Rows : local[r].dirty}])
    /\ LocalUnchanged /\ RemoteUnchanged /\ UNCHANGED <<lastSync, syncing, faults>>

\* The query fails: push_changes ends with the error, sync only logs it.
SnapshotFails(c) ==
    /\ Fault
    /\ Step(c, "snapshot", Goto(c, "next"))
    /\ LocalUnchanged /\ RemoteUnchanged /\ UNCHANGED <<lastSync, syncing>>

\* push_single reads the row as it is now and hands it to the remote.
ReadRecord(c, r) ==
    /\ r \in run[c].batch
    /\ Step(c, "next",
            [run[c] EXCEPT !.pc = "sending", !.batch = @ \ {r},
                           !.rec = {[row |-> r, ver |-> local[r].ver,
                                     ts |-> local[r].ts]}])
    /\ LocalUnchanged /\ RemoteUnchanged /\ UNCHANGED <<lastSync, syncing, faults>>

\* read_record_data fails: the row is left dirty.
ReadRecordFails(c, r) ==
    /\ r \in run[c].batch /\ Fault
    /\ Step(c, "next", [run[c] EXCEPT !.batch = @ \ {r}])
    /\ LocalUnchanged /\ RemoteUnchanged /\ UNCHANGED <<lastSync, syncing>>

\* Mutated form of PushDone: sync ends without the pull phase.
PushDoneEnds(c) ==
    /\ run[c].batch = {}
    /\ Step(c, "next", Goto(c, "release"))
    /\ LocalUnchanged /\ RemoteUnchanged /\ UNCHANGED <<lastSync, syncing, faults>>

\* The batch is empty: sync goes on to the pull phase, push_changes ends.
PushDone(c) ==
    /\ run[c].batch = {}
    /\ Step(c, "next", Goto(c, IF run[c].op = "sync" THEN "since" ELSE "release"))
    /\ LocalUnchanged /\ RemoteUnchanged /\ UNCHANGED <<lastSync, syncing, faults>>

\* push_record: the remote stores the record under its own time stamp.
Upsert(m) ==
    /\ now' = now + 1
    /\ remote' = [remote EXCEPT ![m.row] = [ver |-> m.ver, ts |-> now']]
    /\ received' = [received EXCEPT ![m.row] = @ \cup {m.ver}]

PushOk(c) ==
    /\ reachable
    /\ \E m \in run[c].rec : Upsert(m)
    /\ Step(c, "sending", Goto(c, "mark"))
    /\ LocalUnchanged /\ UNCHANGED <<lastSync, syncing, faults>>

\* Mutated forms of PushFail: one retry too many; a row whose retries are used
\* up is marked synced like one that was pushed.
PushFailOnceMore(c) ==
    /\ IF reachable THEN Fault ELSE UNCHANGED faults
    /\ RemoteUnchanged
    /\ Step(c, "sending", IF run[c].attempt <= MAX_RETRIES
                          THEN [run[c] EXCEPT !.attempt = @ + 1]
                          ELSE NextPush(c))
    /\ LocalUnchanged /\ UNCHANGED <<lastSync, syncing>>

PushFailThenMark(c) ==
    /\ IF reachable THEN Fault ELSE UNCHANGED faults
    /\ RemoteUnchanged
    /\ Step(c, "sending", IF run[c].attempt < MAX_RETRIES
                          THEN [run[c] EXCEPT !.attempt = @ + 1]
                          ELSE Goto(c, "mark"))
    /\ LocalUnchanged /\ UNCHANGED <<lastSync, syncing>>

\* An attempt fails, or its answer is lost; retry_with_backoff tries again
\* until the retries are used up, and then leaves the row dirty.  Only the
\* outage that made the remote unreachable is charged to the fault bound.
PushFail(c) ==
    /\ IF reachable THEN Fault ELSE UNCHANGED faults
    /\ \/ RemoteUnchanged
       \/ reachable /\ \E m \in run[c].rec : Upsert(m)
    /\ Step(c, "sending", IF run[c].attempt < MAX_RETRIES
                          THEN [run[c] EXCEPT !.attempt = @ + 1]
                          ELSE NextPush(c))
    /\ LocalUnchanged /\ UNCHANGED <<lastSync, syncing>>

\* mark_synced clears _dirty whatever the row holds by now.
MarkSynced(c, from, next) ==
    /\ Step(c, from, next)
    /\ \E m \in run[c].rec : local' = [local EXCEPT ![m.row].dirty = FALSE]
    /\ RemoteUnchanged /\ UNCHANGED <<known, lastSync, syncing, faults>>

MarkPushed(c) == MarkSynced(c, "mark", NextPush(c))

MarkPushedFails(c) ==
    /\ Fault
    /\ Step(c, "mark", NextPush(c))
    /\ LocalUnchanged /\ RemoteUnchanged /\ UNCHANGED <<lastSync, syncing>>

\* Mutated form of BeginPull: the present time instead of last_sync.
BeginPullNow(c) ==
    /\ Step(c, "since", [run[c] EXCEPT !.pc = "query", !.since = now,
                                       !.todo = Types])
    /\ LocalUnchanged /\ RemoteUnchanged /\ UNCHANGED <<lastSync, syncing, faults>>

\* pull_remote_changes reads last_sync once, for all types.
BeginPull(c) ==
    /\ Step(c, "since", [run[c] EXCEPT !.pc = "query", !.since = lastSync,
                                       !.todo = Types])
    /\ LocalUnchanged /\ RemoteUnchanged /\ UNCHANGED <<lastSync, syncing, faults>>

\* The records of type t that the remote modified after `since'.
Changed(t, since) ==
    {[row |-> r, ver |-> remote[r].ver, ts |-> remote[r].ts] :
        r \in {q \in Rows : TypeOf[q] = t /\ remote[q].ts > since}}

Query(c, t) ==
    /\ reachable
    /\ t \in run[c].todo
    /\ Step(c, "query", [run[c] EXCEPT !.pc = "check", !.todo = @ \ {t},
                                       !.inbox = Changed(t, run[c].since)])
    /\ LocalUnchanged /\ RemoteUnchanged /\ UNCHANGED <<lastSync, syncing, faults>>

\* pull_for_type fails: the error is recorded and the next type is tried.
QueryFails(c, t) ==
    /\ "pull_error" \in Hazards
    /\ IF reachable THEN Fault ELSE UNCHANGED faults
    /\ t \in run[c].todo
    /\ Step(c, "query", [run[c] EXCEPT !.todo = @ \ {t}])
    /\ LocalUnchanged /\ RemoteUnchanged /\ UNCHANGED <<lastSync, syncing>>

\* Mutated form of QueriesDone: the pull is repeated instead of ended.
QueriesAgain(c) ==
    /\ run[c].todo = {}
    /\ Step(c, "query", Goto(c, "since"))
    /\ LocalUnchanged /\ RemoteUnchanged /\ UNCHANGED <<lastSync, syncing, faults>>

QueriesDone(c) ==
    /\ run[c].todo = {}
    /\ Step(c, "query", Goto(c, "finish"))
    /\ LocalUnchanged /\ RemoteUnchanged /\ UNCHANGED <<lastSync, syncing, faults>>

InboxDone(c) ==
    /\ run[c].inbox = {}
    /\ Step(c, "check", Goto(c, "query"))
    /\ LocalUnchanged /\ RemoteUnchanged /\ UNCHANGED <<lastSync, syncing, faults>>

\* Mutated form of Conflicting: the comparison the wrong way round.
ConflictingReversed(m) == local[m.row].ts < m.ts

\* upsert_remote: a local row modified later than the remote record is a
\* conflict, which is reported and otherwise left alone.
Conflicting(m) == local[m.row].ts > m.ts

Conflict(c, m) ==
    /\ Conflicting(m)
    /\ Step(c, "check", [run[c] EXCEPT !.inbox = @ \ {m}])
    /\ known' = [known EXCEPT ![m.row] = @ \cup {m.ver}]
    /\ RemoteUnchanged /\ UNCHANGED <<local, lastSync, syncing, faults>>

\* get_local_modified_at turns a failed read into `no such row'.
NoConflict(c, m) ==
    /\ \/ ~Conflicting(m) /\ UNCHANGED faults
       \/ Conflicting(m) /\ "read_error" \in Hazards /\ Fault
    /\ Step(c, "check", IF TypeOf[m.row] \in Unsupported
                        THEN [run[c] EXCEPT !.inbox = @ \ {m}]
                        ELSE [run[c] EXCEPT !.inbox = @ \ {m}, !.rec = {m},
                                            !.pc = "save"])
    /\ LocalUnchanged /\ RemoteUnchanged /\ UNCHANGED <<lastSync, syncing>>

\* save_remote_record, first half: LocalStore::save_* overwrites the row and
\* stamps it dirty at the present time.
SavePulled(c) ==
    /\ Step(c, "save", Goto(c, "mark_pulled"))
    /\ \E m \in run[c].rec :
        /\ local' = [local EXCEPT ![m.row] =
                        [ver |-> m.ver, ts |-> now, dirty |-> TRUE]]
        /\ known' = [known EXCEPT ![m.row] = @ \cup {m.ver}]
    /\ RemoteUnchanged /\ UNCHANGED <<lastSync, syncing, faults>>

\* The record cannot be deserialized or saved, or a conflicting local row
\* cannot be read for the report: the error is recorded, the record dropped.
UpsertFails(c) ==
    /\ "upsert_error" \in Hazards /\ Fault
    /\ \/ Step(c, "save", NextPull(c))
       \/ \E m \in run[c].inbox :
            /\ Conflicting(m)
            /\ Step(c, "check", [run[c] EXCEPT !.inbox = @ \ {m}])
    /\ LocalUnchanged /\ RemoteUnchanged /\ UNCHANGED <<lastSync, syncing>>

MarkPulled(c) == MarkSynced(c, "mark_pulled", Goto(c, "stamp"))

\* update_modified_at gives the row the remote's time stamp.
StampPulled(c) ==
    /\ Step(c, "stamp", NextPull(c))
    /\ \E m \in run[c].rec : local' = [local EXCEPT ![m.row].ts = m.ts]
    /\ RemoteUnchanged /\ UNCHANGED <<known, lastSync, syncing, faults>>

\* mark_synced or update_modified_at fails and ends the upsert there.
PulledStepFails(c) ==
    /\ Fault
    /\ \E pc \in {"mark_pulled", "stamp"} : Step(c, pc, NextPull(c))
    /\ LocalUnchanged /\ RemoteUnchanged /\ UNCHANGED <<lastSync, syncing>>

\* update_sync_state(Utc::now()), whatever the pull's errors were; its own
\* failure is only logged.
Finish(c) ==
    /\ Step(c, "finish", Goto(c, "release"))
    /\ \/ lastSync' = now /\ UNCHANGED faults
       \/ Fault /\ UNCHANGED lastSync
    /\ LocalUnchanged /\ RemoteUnchanged /\ UNCHANGED syncing

Release(c) ==
    /\ Step(c, "release", Idle)
    /\ syncing' = FALSE
    /\ LocalUnchanged /\ RemoteUnchanged /\ UNCHANGED <<lastSync, faults>>

\* The cycle's future is dropped where it awaits the remote.  A push that was
\* under way may still land.
Cancel(c) ==
    /\ "cancel" \in Hazards /\ Fault
    /\ \/ /\ \E pc \in {"reach", "sending", "query"} : Step(c, pc, Idle)
          /\ RemoteUnchanged
       \/ /\ reachable
          /\ Step(c, "sending", Idle)
          /\ \E m \in run[c].rec : Upsert(m)
    /\ LocalUnchanged /\ UNCHANGED <<lastSync, syncing>>

\* The process dies and starts again: the databases survive, cycles do not.
Crash ==
    /\ syncing /\ Fault
    /\ run' = [c \in Callers |-> Idle]
    /\ syncing' = FALSE
    /\ UNCHANGED <<local, remote, lastSync, reachable, now, history, bounds>>

-----------------------------------------------------------------------------
PushStep(c) ==
    \/ Snapshot(c) \/ SnapshotFails(c)
    \/ (\E r \in Rows : ReadRecord(c, r) \/ ReadRecordFails(c, r)) \/ PushDone(c)
    \/ PushOk(c) \/ PushFail(c) \/ MarkPushed(c) \/ MarkPushedFails(c)

PullStep(c) ==
    \/ BeginPull(c)
    \/ (\E t \in Types : Query(c, t) \/ QueryFails(c, t)) \/ QueriesDone(c)
    \/ (\E m \in run[c].inbox : Conflict(c, m) \/ NoConflict(c, m)) \/ InboxDone(c)
    \/ SavePulled(c) \/ UpsertFails(c) \/ MarkPulled(c)
    \/ StampPulled(c) \/ PulledStepFails(c) \/ Finish(c)

CycleStep(c) == CheckReachable(c) \/ PushStep(c) \/ PullStep(c) \/ Release(c)

Start(c) == \E op \in {"sync", "push", "pull"} : Acquire(c, op)

Environment ==
    \/ \E r \in Rows : LocalSave(r) \/ RemoteWrite(r)
    \/ Disconnect \/ Reconnect \/ Crash

Next ==
    \/ Environment
    \/ \E c \in Callers : Start(c) \/ CycleStep(c) \/ Cancel(c)

Spec == Init /\ [][Next]_vars

\* A started cycle is driven on by the runtime, the remote comes back after
\* an outage, and full cycles are requested again and again.
Fairness ==
    /\ WF_vars(Reconnect)
    /\ \A c \in Callers : WF_vars(CycleStep(c))
    /\ SF_vars(\E c \in Callers : Acquire(c, "sync"))

FairSpec == Spec /\ Fairness

-----------------------------------------------------------------------------
(* Properties.                                                             *)

TypeOK ==
    /\ local \in [Rows -> [ver : Nat, ts : Nat, dirty : BOOLEAN]]
    /\ remote \in [Rows -> [ver : Nat, ts : Nat]]
    /\ lastSync \in Nat /\ now \in Nat
    /\ syncing \in BOOLEAN /\ reachable \in BOOLEAN
    /\ run \in [Callers -> Cycle]
    /\ received \in [Rows -> SUBSET Nat] /\ known \in [Rows -> SUBSET Nat]
    /\ edits \in 0..MaxEdits /\ remoteWrites \in 0..MaxRemoteWrites
    /\ faults \in 0..MaxFaults

\* At most one caller is between try_acquire_sync_lock and
\* release_sync_lock, and the flag is set while one is, also after crashes
\* and dropped futures (sync.rs, SyncEngine "Concurrency").
MutualExclusion ==
    /\ \A c \in Callers : run[c].pc # "idle" => syncing
    /\ \A c, d \in Callers : run[c].pc # "idle" /\ run[d].pc # "idle" => c = d

\* A row that is not dirty holds a version the remote has received: what is
\* still to be pushed is never forgotten, through retries, lost answers,
\* failed local statements and crashes.  It holds as long as no save hits
\* the row between the read and the mark_synced of a push, or between the
\* save and the mark_synced of a pulled record.
CleanIsReceived ==
    \A r \in Rows : local[r].ver # 0 /\ ~local[r].dirty
                      => local[r].ver \in received[r]

\* What the remote holds with a time stamp up to last_sync, the device made
\* itself, has applied, or has reported as a conflict: the next pull, which
\* asks only for later stamps, misses nothing.
CaughtUp ==
    \A r \in Rows : remote[r].ver # 0 /\ remote[r].ts <= lastSync
                      => remote[r].ver \in known[r]

\* A pull never replaces a local version by one the remote stamped earlier
\* than the local row (the conflict check of upsert_remote).  A step that
\* gives a row a version other than a save of this moment is a pull's.
NewestWins ==
    [][\A r \in Rows : local'[r].ver \notin {local[r].ver, now + 1}
                         => local[r].ts <= remote[r].ts]_vars

\* The flag that a cycle sets is cleared again (sync.rs: "Ensure the lock is
\* always released").
LockReleased == syncing ~> ~syncing

\* When saves, other devices' writes and failures cease, repeated cycles make
\* both sides equal and leave nothing dirty, for good.
Converged ==
    \A r \in Rows : local[r].ver = remote[r].ver /\ ~local[r].dirty
Converges == <>[]Converged

=============================================================================
