--------------------------- MODULE EdgeSyncProofs ---------------------------
(* Theorems about EdgeSync for any rows, callers, types and bounds.        *)
EXTENDS EdgeSync, TLAPS

-----------------------------------------------------------------------------
(* Types: each action keeps the parts of TypeOK that it writes.            *)

\* The locals of a cycle have the types of their fields.
LEMMA CycleFields ==
    ASSUME TypeOK, NEW c \in Callers
    PROVE  /\ run[c] \in Cycle
           /\ run[c].pc \in Pcs /\ run[c].op \in {"sync", "push", "pull"}
           /\ run[c].batch \subseteq Rows /\ run[c].rec \subseteq Record
           /\ run[c].attempt \in 0..MAX_RETRIES /\ run[c].since \in Nat
           /\ run[c].todo \subseteq Types /\ run[c].inbox \subseteq Record
BY DEF TypeOK, Cycle

LEMMA IdleType == Idle \in Cycle
BY EdgeSyncAssumption DEF Idle, Cycle, Pcs

\* A step of the engine moves one caller and leaves the others alone.
LEMMA StepType ==
    ASSUME TypeOK, NEW c \in Callers, NEW from, NEW next \in Cycle,
           Step(c, from, next)
    PROVE  /\ run' \in [Callers -> Cycle]
           /\ reachable' \in BOOLEAN
           /\ edits' \in 0..MaxEdits /\ remoteWrites' \in 0..MaxRemoteWrites
BY DEF TypeOK, Step, bounds

LEMMA FaultType == TypeOK /\ (Fault \/ UNCHANGED faults) => faults' \in 0..MaxFaults
BY EdgeSyncAssumption DEF TypeOK, Fault

LEMMA UpsertType ==
    ASSUME TypeOK, NEW m \in Record, Upsert(m)
    PROVE  /\ now' \in Nat
           /\ remote' \in [Rows -> [ver : Nat, ts : Nat]]
           /\ received' \in [Rows -> SUBSET Nat]
BY DEF TypeOK, Record, Upsert

LEMMA NextTypes ==
    ASSUME TypeOK, NEW c \in Callers
    PROVE  /\ NextPush(c) \in Cycle /\ NextPull(c) \in Cycle
           /\ \A pc \in Pcs : Goto(c, pc) \in Cycle
<1> USE CycleFields
<1>1. NextPush(c) \in Cycle
  <2>1. 0 \in 0..MAX_RETRIES BY EdgeSyncAssumption
  <2> QED BY <2>1 DEF NextPush, Cycle, Pcs, PushPcs
<1>2. NextPull(c) \in Cycle
  BY DEF NextPull, Cycle, Pcs, PullPcs
<1>3. ASSUME NEW pc \in Pcs PROVE Goto(c, pc) \in Cycle
  BY DEF Goto, Cycle
<1> QED BY <1>1, <1>2, <1>3

LEMMA MarkSyncedType ==
    ASSUME TypeOK, NEW c \in Callers, NEW from, NEW next \in Cycle,
           MarkSynced(c, from, next)
    PROVE  TypeOK'
<1>1. local' \in [Rows -> [ver : Nat, ts : Nat, dirty : BOOLEAN]]
  <2>1. PICK m \in run[c].rec : local' = [local EXCEPT ![m.row].dirty = FALSE]
    BY DEF MarkSynced
  <2>2. m.row \in Rows BY CycleFields DEF Record
  <2> QED BY <2>1, <2>2 DEF TypeOK
<1> QED BY <1>1, StepType DEF MarkSynced, RemoteUnchanged, TypeOK

LEMMA PushStepType ==
    ASSUME TypeOK, NEW c \in Callers, PushStep(c) PROVE TypeOK'
<1> USE CycleFields DEF LocalUnchanged, RemoteUnchanged
<1>1. CASE Snapshot(c)
  <2>1. [run[c] EXCEPT !.pc = "next", !.batch = {r \in Rows : local[r].dirty}] \in Cycle
    BY <1>1, EdgeSyncAssumption, ZenonT(60) DEF Snapshot, Cycle, Record, TypeOK, Pcs, PushPcs, PullPcs
  <2> QED BY <1>1, <2>1, StepType DEF Snapshot, TypeOK
<1>2. CASE SnapshotFails(c)
  BY <1>2, NextTypes, StepType, FaultType DEF SnapshotFails, TypeOK, Pcs, PushPcs, PullPcs
<1>3. CASE \E r \in Rows : ReadRecord(c, r)
  <2>1. PICK r \in Rows : ReadRecord(c, r) BY <1>3
  <2>2. {[row |-> r, ver |-> local[r].ver, ts |-> local[r].ts]} \subseteq Record
    BY DEF TypeOK, Record
  <2>3. [run[c] EXCEPT !.pc = "sending", !.batch = @ \ {r},
                        !.rec = {[row |-> r, ver |-> local[r].ver, ts |-> local[r].ts]}] \in Cycle
    BY <2>2 DEF Cycle, Pcs, PushPcs
  <2> QED BY <2>1, <2>3, StepType DEF ReadRecord, TypeOK
<1>4. CASE \E r \in Rows : ReadRecordFails(c, r)
  <2>1. PICK r \in Rows : ReadRecordFails(c, r) BY <1>4
  <2>2. [run[c] EXCEPT !.batch = @ \ {r}] \in Cycle
    BY <2>1, EdgeSyncAssumption, ZenonT(60) DEF ReadRecordFails, Cycle, Record, TypeOK, Pcs, PushPcs, PullPcs
  <2> QED BY <2>1, <2>2, StepType, FaultType DEF ReadRecordFails, TypeOK
<1>5. CASE PushDone(c)
  BY <1>5, NextTypes, StepType DEF PushDone, TypeOK, Pcs, PushPcs, PullPcs
<1>6. CASE PushOk(c)
  BY <1>6, NextTypes, StepType, UpsertType DEF PushOk, TypeOK, Pcs, PushPcs, PullPcs
<1>7. CASE PushFail(c)
  <2>1. ASSUME run[c].attempt < MAX_RETRIES
        PROVE  [run[c] EXCEPT !.attempt = @ + 1] \in Cycle
    <3>1. run[c].attempt + 1 \in 0..MAX_RETRIES BY <2>1, EdgeSyncAssumption
    <3> QED BY <3>1 DEF Cycle
  <2>2. run' \in [Callers -> Cycle] /\ reachable' \in BOOLEAN
        /\ edits' \in 0..MaxEdits /\ remoteWrites' \in 0..MaxRemoteWrites
    BY <1>7, <2>1, NextTypes, StepType DEF PushFail
  <2>3. /\ now' \in Nat
        /\ remote' \in [Rows -> [ver : Nat, ts : Nat]]
        /\ received' \in [Rows -> SUBSET Nat]
    BY <1>7, UpsertType DEF PushFail, TypeOK
  <2> QED BY <1>7, <2>2, <2>3, FaultType DEF PushFail, TypeOK
<1>8. CASE MarkPushed(c)
  BY <1>8, NextTypes, MarkSyncedType DEF MarkPushed
<1>9. CASE MarkPushedFails(c)
  BY <1>9, NextTypes, StepType, FaultType DEF MarkPushedFails, TypeOK, Pcs, PushPcs, PullPcs
<1> QED BY <1>1, <1>2, <1>3, <1>4, <1>5, <1>6, <1>7, <1>8, <1>9 DEF PushStep

LEMMA PullStepType ==
    ASSUME TypeOK, NEW c \in Callers, PullStep(c) PROVE TypeOK'
<1> USE CycleFields DEF LocalUnchanged, RemoteUnchanged
<1>1. CASE BeginPull(c)
  <2>1. [run[c] EXCEPT !.pc = "query", !.since = lastSync, !.todo = Types] \in Cycle
    BY <1>1, EdgeSyncAssumption, ZenonT(60) DEF BeginPull, Cycle, Record, TypeOK, Pcs, PushPcs, PullPcs
  <2> QED BY <1>1, <2>1, StepType DEF BeginPull, TypeOK
<1>2. CASE \E t \in Types : Query(c, t)
  <2>1. PICK t \in Types : Query(c, t) BY <1>2
  <2>2. Changed(t, run[c].since) \subseteq Record
    BY DEF Changed, TypeOK, Record
  <2>3. [run[c] EXCEPT !.pc = "check", !.todo = @ \ {t},
                        !.inbox = Changed(t, run[c].since)] \in Cycle
    BY <2>2 DEF Cycle, Pcs, PullPcs
  <2> QED BY <2>1, <2>3, StepType DEF Query, TypeOK
<1>3. CASE \E t \in Types : QueryFails(c, t)
  <2>1. PICK t \in Types : QueryFails(c, t) BY <1>3
  <2>2. [run[c] EXCEPT !.todo = @ \ {t}] \in Cycle
    BY <2>1, EdgeSyncAssumption, ZenonT(60) DEF QueryFails, Cycle, Record, TypeOK, Pcs, PushPcs, PullPcs
  <2> QED BY <2>1, <2>2, StepType, FaultType DEF QueryFails, TypeOK
<1>4. CASE QueriesDone(c)
  BY <1>4, NextTypes, StepType DEF QueriesDone, TypeOK, Pcs, PushPcs, PullPcs
<1>5. CASE \E m \in run[c].inbox : Conflict(c, m)
  <2>1. PICK m \in run[c].inbox : Conflict(c, m) BY <1>5
  <2>2. [run[c] EXCEPT !.inbox = @ \ {m}] \in Cycle
    BY DEF Cycle
  <2>3. known' \in [Rows -> SUBSET Nat]
    BY <2>1 DEF Conflict, TypeOK, Record
  <2> QED BY <2>1, <2>2, <2>3, StepType DEF Conflict, TypeOK
<1>6. CASE \E m \in run[c].inbox : NoConflict(c, m)
  <2>1. PICK m \in run[c].inbox : NoConflict(c, m) BY <1>6
  <2>2. /\ [run[c] EXCEPT !.inbox = @ \ {m}] \in Cycle
        /\ [run[c] EXCEPT !.inbox = @ \ {m}, !.rec = {m}, !.pc = "save"] \in Cycle
    BY DEF Cycle, Pcs, PullPcs
  <2> QED BY <2>1, <2>2, StepType, FaultType DEF NoConflict, TypeOK
<1>7. CASE InboxDone(c)
  BY <1>7, NextTypes, StepType DEF InboxDone, TypeOK, Pcs, PushPcs, PullPcs
<1>8. CASE SavePulled(c)
  BY <1>8, NextTypes, StepType DEF SavePulled, Record, TypeOK, Pcs, PushPcs, PullPcs
<1>9. CASE UpsertFails(c)
  <2>1. ASSUME NEW m \in run[c].inbox PROVE [run[c] EXCEPT !.inbox = @ \ {m}] \in Cycle
    BY DEF Cycle
  <2>2. run' \in [Callers -> Cycle] /\ reachable' \in BOOLEAN
        /\ edits' \in 0..MaxEdits /\ remoteWrites' \in 0..MaxRemoteWrites
    BY <1>9, <2>1, NextTypes, StepType DEF UpsertFails
  <2> QED BY <1>9, <2>2, FaultType DEF UpsertFails, TypeOK
<1>10. CASE MarkPulled(c)
  BY <1>10, NextTypes, MarkSyncedType DEF MarkPulled, Pcs, PullPcs
<1>11. CASE StampPulled(c)
  BY <1>11, NextTypes, StepType, SMTT(30) DEF StampPulled, Record, TypeOK, Pcs, PushPcs, PullPcs
<1>12. CASE PulledStepFails(c)
  BY <1>12, NextTypes, StepType, FaultType DEF PulledStepFails, TypeOK, Pcs, PushPcs, PullPcs
<1>13. CASE Finish(c)
  BY <1>13, NextTypes, StepType, FaultType DEF Finish, TypeOK, Pcs, PushPcs, PullPcs
<1> QED BY <1>1, <1>2, <1>3, <1>4, <1>5, <1>6, <1>7, <1>8, <1>9, <1>10, <1>11, <1>12, <1>13 DEF PullStep

LEMMA CancelType ==
    ASSUME TypeOK, NEW c \in Callers, Cancel(c) PROVE TypeOK'
<1>1. /\ run' \in [Callers -> Cycle] /\ reachable' \in BOOLEAN
      /\ edits' \in 0..MaxEdits /\ remoteWrites' \in 0..MaxRemoteWrites
  BY IdleType, StepType DEF Cancel
<1>2. /\ now' \in Nat
      /\ remote' \in [Rows -> [ver : Nat, ts : Nat]]
      /\ received' \in [Rows -> SUBSET Nat]
  BY UpsertType, CycleFields DEF Cancel, RemoteUnchanged, TypeOK
<1> QED BY <1>1, <1>2, FaultType DEF Cancel, LocalUnchanged, TypeOK

LEMMA LocalSaveType ==
    ASSUME TypeOK, NEW r \in Rows, LocalSave(r) PROVE TypeOK'
<1>1. now' \in Nat /\ edits' \in 0..MaxEdits
  BY EdgeSyncAssumption DEF LocalSave, TypeOK
<1> QED BY <1>1 DEF LocalSave, TypeOK

LEMMA RemoteWriteType ==
    ASSUME TypeOK, NEW r \in Rows, RemoteWrite(r) PROVE TypeOK'
<1>1. now' \in Nat /\ remoteWrites' \in 0..MaxRemoteWrites
  BY EdgeSyncAssumption DEF RemoteWrite, TypeOK
<1> QED BY <1>1 DEF RemoteWrite, TypeOK

LEMMA InitType == Init => TypeOK
<1> SUFFICES ASSUME Init PROVE TypeOK OBVIOUS
<1>1. run \in [Callers -> Cycle] BY IdleType DEF Init
<1>2. edits \in 0..MaxEdits /\ remoteWrites \in 0..MaxRemoteWrites /\ faults \in 0..MaxFaults
  BY EdgeSyncAssumption DEF Init
<1> QED BY <1>1, <1>2 DEF Init, TypeOK

LEMMA NextType == TypeOK /\ [Next]_vars => TypeOK'
<1> SUFFICES ASSUME TypeOK, [Next]_vars PROVE TypeOK' OBVIOUS
<1>1. CASE Environment
  <2>1. CASE Disconnect \/ Reconnect
    BY <2>1, FaultType DEF Disconnect, Reconnect, TypeOK, history, bounds
  <2>2. CASE Crash
    BY <2>2, FaultType, IdleType DEF Crash, TypeOK, history, bounds
  <2> QED BY <1>1, <2>1, <2>2, LocalSaveType, RemoteWriteType DEF Environment
<1>2. ASSUME NEW c \in Callers, Start(c) PROVE TypeOK'
  <2>1. PICK op \in {"sync", "push", "pull"} : Acquire(c, op) BY <1>2 DEF Start
  <2>2. [Idle EXCEPT !.pc = "reach", !.op = op] \in Cycle
    BY IdleType DEF Cycle, Pcs
  <2> QED BY <2>1, <2>2, StepType DEF Acquire, TypeOK, LocalUnchanged, RemoteUnchanged
<1>3. ASSUME NEW c \in Callers, CheckReachable(c) PROVE TypeOK'
  BY <1>3, NextTypes, StepType
  DEF CheckReachable, TypeOK, LocalUnchanged, RemoteUnchanged, Pcs, PushPcs
<1>4. ASSUME NEW c \in Callers, Release(c) PROVE TypeOK'
  BY <1>4, IdleType, StepType DEF Release, TypeOK, LocalUnchanged, RemoteUnchanged
<1>5. CASE UNCHANGED vars
  BY <1>5 DEF vars, TypeOK
<1> QED BY <1>1, <1>2, <1>3, <1>4, <1>5, PushStepType, PullStepType, CancelType
        DEF Next, CycleStep

\* The state of the engine stays well-formed: rows, records and cycles have
\* the shapes of the code's structures, attempts stay within the retries.
THEOREM TypeCorrect == Spec => []TypeOK
BY InitType, NextType, PTL DEF Spec

-----------------------------------------------------------------------------
(* Mutual exclusion.                                                       *)

\* What a step of a running cycle does to the lock: it needs the cycle, moves
\* only that caller, and leaves the flag alone or clears it at the end.
Moves(c) ==
    /\ run[c].pc # "idle"
    /\ \E next : run' = [run EXCEPT ![c] = next]
    /\ syncing' = syncing

LEMMA PushMoves == ASSUME TypeOK, NEW c \in Callers, PushStep(c) PROVE Moves(c)
BY DEF PushStep, Snapshot, SnapshotFails, ReadRecord, ReadRecordFails, PushDone,
       PushOk, PushFail, MarkPushed, MarkPushedFails, MarkSynced, Step, Moves

LEMMA PullMoves == ASSUME TypeOK, NEW c \in Callers, PullStep(c) PROVE Moves(c)
BY DEF PullStep, BeginPull, Query, QueryFails, QueriesDone, Conflict, NoConflict,
       InboxDone, SavePulled, UpsertFails, MarkPulled, StampPulled,
       PulledStepFails, Finish, MarkSynced, Step, Moves

LEMMA OtherMoves ==
    ASSUME TypeOK, NEW c \in Callers, CheckReachable(c) \/ Cancel(c)
    PROVE  Moves(c)
BY DEF CheckReachable, Cancel, Step, Moves

\* Steps that do not touch the engine.
LEMMA EnvironmentMoves ==
    ASSUME Environment
    PROVE  \/ run' = run /\ syncing' = syncing
           \/ run' = [c \in Callers |-> Idle]
BY DEF Environment, LocalSave, RemoteWrite, Disconnect, Reconnect, Crash

LEMMA NextMutex == TypeOK /\ MutualExclusion /\ [Next]_vars => MutualExclusion'
<1> SUFFICES ASSUME TypeOK, MutualExclusion, [Next]_vars PROVE MutualExclusion'
  OBVIOUS
<1> USE DEF MutualExclusion, TypeOK
<1>1. ASSUME NEW c \in Callers, Moves(c) PROVE MutualExclusion'
  BY <1>1 DEF Moves
<1>2. ASSUME NEW c \in Callers, Start(c) PROVE MutualExclusion'
  BY <1>2 DEF Start, Acquire, Step
<1>3. ASSUME NEW c \in Callers, Release(c) PROVE MutualExclusion'
  BY <1>3 DEF Release, Step, Idle
<1>4. CASE Environment
  BY <1>4, EnvironmentMoves DEF Idle
<1>5. CASE UNCHANGED vars
  BY <1>5 DEF vars
<1> QED BY <1>1, <1>2, <1>3, <1>4, <1>5, PushMoves, PullMoves, OtherMoves
        DEF Next, CycleStep

\* At most one caller is in a sync cycle, whatever fails and whenever.
THEOREM OneCycleAtATime == Spec => []MutualExclusion
<1>1. Init => MutualExclusion BY DEF Init, MutualExclusion, Idle
<1> QED BY <1>1, NextMutex, TypeCorrect, PTL DEF Spec

-----------------------------------------------------------------------------
(* What is still to be pushed is never forgotten.                          *)

\* The loop body works on one record.
OneRecord == \A c \in Callers : \A m, n \in run[c].rec : m = n

LEMMA StepMoves ==
    ASSUME TypeOK, NEW c \in Callers, NEW from, NEW next, Step(c, from, next)
    PROVE  /\ run[c].pc = from /\ run'[c] = next
           /\ \A d \in Callers \ {c} : run'[d] = run[d]
BY DEF TypeOK, Step

\* What a step makes of the caller's locals that the invariants speak of.
Becomes(c, pc, rec, inbox, todo, since) ==
    /\ run'[c].pc = pc /\ run'[c].rec = rec /\ run'[c].inbox = inbox
    /\ run'[c].todo = todo /\ run'[c].since = since
    /\ \A d \in Callers \ {c} : run'[d] = run[d]

\* The same with only the program counter and the record at hand changed.
Takes(c, pc, rec) ==
    Becomes(c, pc, rec, run[c].inbox, run[c].todo, run[c].since)

LEMMA Fields ==
    ASSUME TypeOK, NEW c \in Callers
    PROVE  /\ \A pc : LET g == Goto(c, pc) IN
              /\ g.pc = pc /\ g.rec = run[c].rec /\ g.inbox = run[c].inbox
              /\ g.todo = run[c].todo /\ g.since = run[c].since
           /\ LET g == NextPush(c) IN
              /\ g.pc = "next" /\ g.rec = {} /\ g.inbox = run[c].inbox
              /\ g.todo = run[c].todo /\ g.since = run[c].since
           /\ LET g == NextPull(c) IN
              /\ g.pc = "check" /\ g.rec = {} /\ g.inbox = run[c].inbox
              /\ g.todo = run[c].todo /\ g.since = run[c].since
<1>0. run[c] \in Cycle BY CycleFields
<1>1. \A pc : LET g == Goto(c, pc) IN
        /\ g.pc = pc /\ g.rec = run[c].rec /\ g.inbox = run[c].inbox
        /\ g.todo = run[c].todo /\ g.since = run[c].since
  BY <1>0 DEF Goto, Cycle
<1>2. LET g == NextPush(c) IN
        /\ g.pc = "next" /\ g.rec = {} /\ g.inbox = run[c].inbox
        /\ g.todo = run[c].todo /\ g.since = run[c].since
  BY <1>0 DEF NextPush, Cycle
<1>3. LET g == NextPull(c) IN
        /\ g.pc = "check" /\ g.rec = {} /\ g.inbox = run[c].inbox
        /\ g.todo = run[c].todo /\ g.since = run[c].since
  BY <1>0 DEF NextPull, Cycle
<1> QED BY <1>1, <1>2, <1>3

\* What each step does to the fields the invariants speak of.
LEMMA SnapshotEffect ==
    ASSUME TypeOK, NEW c \in Callers, Snapshot(c)
    PROVE  /\ run[c].pc = "snapshot"
           /\ Takes(c, "next", run[c].rec)
<1>1. run'[c] = [run[c] EXCEPT !.pc = "next", !.batch = {r \in Rows : local[r].dirty}]
  BY StepMoves DEF Snapshot
<1>2. run[c].pc = "snapshot" /\ \A d \in Callers \ {c} : run'[d] = run[d]
  BY StepMoves DEF Snapshot
<1>3. run[c] \in Cycle BY CycleFields
<1> QED BY <1>1, <1>2, <1>3 DEF Takes, Becomes, Cycle

LEMMA SnapshotFailsEffect ==
    ASSUME TypeOK, NEW c \in Callers, SnapshotFails(c)
    PROVE  /\ run[c].pc = "snapshot"
           /\ Takes(c, "next", run[c].rec)
BY StepMoves, Fields DEF SnapshotFails, Takes, Becomes

LEMMA ReadRecordEffect ==
    ASSUME TypeOK, NEW c \in Callers, NEW r \in Rows, ReadRecord(c, r)
    PROVE  /\ run[c].pc = "next"
           /\ Takes(c, "sending", {[row |-> r, ver |-> local[r].ver, ts |-> local[r].ts]})
<1>1. run'[c] = [run[c] EXCEPT !.pc = "sending", !.batch = @ \ {r},
            !.rec = {[row |-> r, ver |-> local[r].ver, ts |-> local[r].ts]}]
  BY StepMoves DEF ReadRecord
<1>2. run[c].pc = "next" /\ \A d \in Callers \ {c} : run'[d] = run[d]
  BY StepMoves DEF ReadRecord
<1>3. run[c] \in Cycle BY CycleFields
<1> QED BY <1>1, <1>2, <1>3 DEF Takes, Becomes, Cycle

LEMMA ReadRecordFailsEffect ==
    ASSUME TypeOK, NEW c \in Callers, NEW r \in Rows, ReadRecordFails(c, r)
    PROVE  /\ run[c].pc = "next"
           /\ Takes(c, "next", run[c].rec)
BY StepMoves, CycleFields DEF ReadRecordFails, Takes, Becomes, Cycle

LEMMA PushDoneEffect ==
    ASSUME TypeOK, NEW c \in Callers, PushDone(c)
    PROVE  /\ run[c].pc = "next"
           /\ \/ Takes(c, "since", run[c].rec)
              \/ Takes(c, "release", run[c].rec)
BY StepMoves, Fields DEF PushDone, Takes, Becomes

LEMMA PushOkEffect ==
    ASSUME TypeOK, NEW c \in Callers, PushOk(c)
    PROVE  /\ run[c].pc = "sending"
           /\ Takes(c, "mark", run[c].rec)
BY StepMoves, Fields DEF PushOk, Takes, Becomes

LEMMA PushFailEffect ==
    ASSUME TypeOK, NEW c \in Callers, PushFail(c)
    PROVE  /\ run[c].pc = "sending"
           /\ \/ Takes(c, "sending", run[c].rec)
              \/ Takes(c, "next", {})
<1>1. CASE Step(c, "sending", NextPush(c))
  BY <1>1, StepMoves, Fields DEF Takes, Becomes
<1>2. CASE Step(c, "sending", [run[c] EXCEPT !.attempt = @ + 1])
  BY <1>2, StepMoves, CycleFields DEF Takes, Becomes, Cycle
<1> QED BY <1>1, <1>2 DEF PushFail

LEMMA MarkPushedEffect ==
    ASSUME TypeOK, NEW c \in Callers, MarkPushed(c)
    PROVE  /\ run[c].pc = "mark"
           /\ Takes(c, "next", {})
BY StepMoves, Fields DEF MarkPushed, MarkSynced, Takes, Becomes

LEMMA MarkPushedFailsEffect ==
    ASSUME TypeOK, NEW c \in Callers, MarkPushedFails(c)
    PROVE  /\ run[c].pc = "mark"
           /\ Takes(c, "next", {})
BY StepMoves, Fields DEF MarkPushedFails, Takes, Becomes

LEMMA BeginPullEffect ==
    ASSUME TypeOK, NEW c \in Callers, BeginPull(c)
    PROVE  /\ run[c].pc = "since"
           /\ Becomes(c, "query", run[c].rec, run[c].inbox, Types, lastSync)
<1>1. run'[c] = [run[c] EXCEPT !.pc = "query", !.since = lastSync, !.todo = Types]
  BY StepMoves DEF BeginPull
<1>2. run[c].pc = "since" /\ \A d \in Callers \ {c} : run'[d] = run[d]
  BY StepMoves DEF BeginPull
<1>3. run[c] \in Cycle BY CycleFields
<1> QED BY <1>1, <1>2, <1>3 DEF Takes, Becomes, Cycle

LEMMA QueryEffect ==
    ASSUME TypeOK, NEW c \in Callers, NEW t \in Types, Query(c, t)
    PROVE  /\ run[c].pc = "query"
           /\ Becomes(c, "check", run[c].rec, Changed(t, run[c].since),
                    run[c].todo \ {t}, run[c].since)
<1>1. run'[c] = [run[c] EXCEPT !.pc = "check", !.todo = @ \ {t},
                           !.inbox = Changed(t, run[c].since)]
  BY StepMoves DEF Query
<1>2. run[c].pc = "query" /\ \A d \in Callers \ {c} : run'[d] = run[d]
  BY StepMoves DEF Query
<1>3. run[c] \in Cycle BY CycleFields
<1> QED BY <1>1, <1>2, <1>3 DEF Takes, Becomes, Cycle

LEMMA QueryFailsEffect ==
    ASSUME TypeOK, NEW c \in Callers, NEW t \in Types, QueryFails(c, t)
    PROVE  /\ run[c].pc = "query"
           /\ Becomes(c, "query", run[c].rec, run[c].inbox, run[c].todo \ {t},
                    run[c].since)
BY StepMoves, CycleFields DEF QueryFails, Takes, Becomes, Cycle

LEMMA QueriesDoneEffect ==
    ASSUME TypeOK, NEW c \in Callers, QueriesDone(c)
    PROVE  /\ run[c].pc = "query"
           /\ Takes(c, "finish", run[c].rec)
BY StepMoves, Fields DEF QueriesDone, Takes, Becomes

LEMMA ConflictEffect ==
    ASSUME TypeOK, NEW c \in Callers, NEW m \in run[c].inbox, Conflict(c, m)
    PROVE  /\ run[c].pc = "check"
           /\ Becomes(c, "check", run[c].rec, run[c].inbox \ {m},
                    run[c].todo, run[c].since)
BY StepMoves, CycleFields DEF Conflict, Takes, Becomes, Cycle

LEMMA NoConflictEffect ==
    ASSUME TypeOK, NEW c \in Callers,
           NEW m \in run[c].inbox, NoConflict(c, m)
    PROVE  /\ run[c].pc = "check"
           /\ IF TypeOf[m.row] \in Unsupported
              THEN Becomes(c, "check", run[c].rec, run[c].inbox \ {m},
                           run[c].todo, run[c].since)
              ELSE Becomes(c, "save", {m}, run[c].inbox \ {m},
                           run[c].todo, run[c].since)
<1>1. run'[c] = IF TypeOf[m.row] \in Unsupported
                THEN [run[c] EXCEPT !.inbox = @ \ {m}]
                ELSE [run[c] EXCEPT !.inbox = @ \ {m}, !.rec = {m}, !.pc = "save"]
  BY StepMoves DEF NoConflict
<1>2. run[c].pc = "check" /\ \A d \in Callers \ {c} : run'[d] = run[d]
  BY StepMoves DEF NoConflict
<1>3. run[c] \in Cycle BY CycleFields
<1>4. CASE TypeOf[m.row] \in Unsupported
  BY <1>1, <1>2, <1>3, <1>4 DEF Becomes, Cycle
<1>5. CASE TypeOf[m.row] \notin Unsupported
  BY <1>1, <1>2, <1>3, <1>5 DEF Becomes, Cycle
<1> QED BY <1>4, <1>5

LEMMA InboxDoneEffect ==
    ASSUME TypeOK, NEW c \in Callers, InboxDone(c)
    PROVE  /\ run[c].pc = "check"
           /\ Takes(c, "query", run[c].rec)
BY StepMoves, Fields DEF InboxDone, Takes, Becomes

LEMMA SavePulledEffect ==
    ASSUME TypeOK, NEW c \in Callers, SavePulled(c)
    PROVE  /\ run[c].pc = "save"
           /\ Takes(c, "mark_pulled", run[c].rec)
BY StepMoves, Fields DEF SavePulled, Takes, Becomes

LEMMA UpsertFailsEffect ==
    ASSUME TypeOK, NEW c \in Callers, UpsertFails(c)
    PROVE  /\ run[c].pc \in {"save", "check"}
           /\ \/ run[c].pc = "save" /\ Takes(c, "check", {})
              \/ \E m \in run[c].inbox :
                  /\ run[c].pc = "check"
                  /\ Becomes(c, "check", run[c].rec, run[c].inbox \ {m},
                             run[c].todo, run[c].since)
<1>1. CASE Step(c, "save", NextPull(c))
  BY <1>1, StepMoves, Fields DEF Takes, Becomes
<1>2. ASSUME NEW m \in run[c].inbox,
             Step(c, "check", [run[c] EXCEPT !.inbox = @ \ {m}])
      PROVE  /\ run[c].pc = "check"
             /\ Becomes(c, "check", run[c].rec, run[c].inbox \ {m},
                        run[c].todo, run[c].since)
  BY <1>2, StepMoves, CycleFields DEF Becomes, Cycle
<1> QED BY <1>1, <1>2 DEF UpsertFails

LEMMA MarkPulledEffect ==
    ASSUME TypeOK, NEW c \in Callers, MarkPulled(c)
    PROVE  /\ run[c].pc = "mark_pulled"
           /\ Takes(c, "stamp", run[c].rec)
BY StepMoves, Fields DEF MarkPulled, MarkSynced, Takes, Becomes

LEMMA StampPulledEffect ==
    ASSUME TypeOK, NEW c \in Callers, StampPulled(c)
    PROVE  /\ run[c].pc = "stamp"
           /\ Takes(c, "check", {})
BY StepMoves, Fields DEF StampPulled, Takes, Becomes

LEMMA PulledStepFailsEffect ==
    ASSUME TypeOK, NEW c \in Callers, PulledStepFails(c)
    PROVE  /\ run[c].pc \in {"mark_pulled", "stamp"}
           /\ Takes(c, "check", {})
BY StepMoves, Fields DEF PulledStepFails, Takes, Becomes

LEMMA FinishEffect ==
    ASSUME TypeOK, NEW c \in Callers, Finish(c)
    PROVE  /\ run[c].pc = "finish"
           /\ Takes(c, "release", run[c].rec)
BY StepMoves, Fields DEF Finish, Takes, Becomes

LEMMA CheckReachableEffect ==
    ASSUME TypeOK, NEW c \in Callers, CheckReachable(c)
    PROVE  /\ run[c].pc = "reach"
           /\ \E pc \in {"release", "since", "snapshot"} : Takes(c, pc, run[c].rec)
BY StepMoves, Fields DEF CheckReachable, Takes, Becomes

LEMMA ReleaseEffect ==
    ASSUME TypeOK, NEW c \in Callers, Release(c)
    PROVE  /\ run[c].pc = "release"
           /\ Becomes(c, "idle", {}, {}, {}, 0)
BY StepMoves DEF Release, Takes, Becomes, Idle

LEMMA CancelEffect ==
    ASSUME TypeOK, NEW c \in Callers, Cancel(c)
    PROVE  /\ run[c].pc \in {"reach", "sending", "query"}
           /\ Becomes(c, "idle", {}, {}, {}, 0)
BY StepMoves DEF Cancel, Takes, Becomes, Idle

LEMMA AcquireEffect ==
    ASSUME TypeOK, NEW c \in Callers,
           NEW op \in {"sync", "push", "pull"}, Acquire(c, op)
    PROVE  /\ run[c].pc = "idle"
           /\ Becomes(c, "reach", {}, {}, {}, 0)
<1>1. run'[c] = [Idle EXCEPT !.pc = "reach", !.op = op]
  BY StepMoves DEF Acquire
<1>2. run[c].pc = "idle" /\ \A d \in Callers \ {c} : run'[d] = run[d]
  BY StepMoves DEF Acquire
<1> QED BY <1>1, <1>2 DEF Becomes, Idle

-----------------------------------------------------------------------------
(* Only one record is at hand.                                             *)

LEMMA OneRecordStep ==
    ASSUME TypeOK, OneRecord, NEW c \in Callers,
           CycleStep(c) \/ Cancel(c) \/ Start(c)
    PROVE  OneRecord'
<1>1. ASSUME NEW pc, NEW rec, NEW inbox, NEW todo, NEW since,
             Becomes(c, pc, rec, inbox, todo, since),
             rec = run[c].rec \/ \E m : rec \subseteq {m}
      PROVE  OneRecord'
  BY <1>1 DEF OneRecord, Becomes
<1>2. ASSUME NEW pc, NEW rec, Takes(c, pc, rec),
             rec = run[c].rec \/ \E m : rec \subseteq {m}
      PROVE  OneRecord'
  BY <1>1, <1>2 DEF Takes
<1>3. CASE Snapshot(c)
  BY <1>1, <1>2, <1>3, SnapshotEffect
<1>4. CASE SnapshotFails(c)
  BY <1>1, <1>2, <1>4, SnapshotFailsEffect
<1>5. ASSUME NEW r \in Rows, ReadRecord(c, r) PROVE OneRecord'
  BY <1>1, <1>2, <1>5, ReadRecordEffect
<1>6. ASSUME NEW r \in Rows, ReadRecordFails(c, r) PROVE OneRecord'
  BY <1>1, <1>2, <1>6, ReadRecordFailsEffect
<1>7. CASE PushDone(c)
  BY <1>1, <1>2, <1>7, PushDoneEffect
<1>8. CASE PushOk(c)
  BY <1>1, <1>2, <1>8, PushOkEffect
<1>9. CASE PushFail(c)
  BY <1>1, <1>2, <1>9, PushFailEffect
<1>10. CASE MarkPushed(c)
  BY <1>1, <1>2, <1>10, MarkPushedEffect
<1>11. CASE MarkPushedFails(c)
  BY <1>1, <1>2, <1>11, MarkPushedFailsEffect
<1>12. CASE BeginPull(c)
  BY <1>1, <1>2, <1>12, BeginPullEffect
<1>13. ASSUME NEW t \in Types, Query(c, t) PROVE OneRecord'
  BY <1>1, <1>2, <1>13, QueryEffect
<1>14. ASSUME NEW t \in Types, QueryFails(c, t) PROVE OneRecord'
  BY <1>1, <1>2, <1>14, QueryFailsEffect
<1>15. CASE QueriesDone(c)
  BY <1>1, <1>2, <1>15, QueriesDoneEffect
<1>16. ASSUME NEW m \in run[c].inbox, Conflict(c, m) PROVE OneRecord'
  BY <1>1, <1>2, <1>16, ConflictEffect
<1>17. ASSUME NEW m \in run[c].inbox, NoConflict(c, m) PROVE OneRecord'
  BY <1>1, <1>2, <1>17, NoConflictEffect
<1>18. CASE InboxDone(c)
  BY <1>1, <1>2, <1>18, InboxDoneEffect
<1>19. CASE SavePulled(c)
  BY <1>1, <1>2, <1>19, SavePulledEffect
<1>20. CASE UpsertFails(c)
  BY <1>1, <1>2, <1>20, UpsertFailsEffect
<1>21. CASE MarkPulled(c)
  BY <1>1, <1>2, <1>21, MarkPulledEffect
<1>22. CASE StampPulled(c)
  BY <1>1, <1>2, <1>22, StampPulledEffect
<1>23. CASE PulledStepFails(c)
  BY <1>1, <1>2, <1>23, PulledStepFailsEffect
<1>24. CASE Finish(c)
  BY <1>1, <1>2, <1>24, FinishEffect
<1>25. CASE CheckReachable(c)
  BY <1>1, <1>2, <1>25, CheckReachableEffect
<1>26. CASE Release(c)
  BY <1>1, <1>2, <1>26, ReleaseEffect
<1>27. CASE Cancel(c)
  BY <1>1, <1>2, <1>27, CancelEffect
<1>28. ASSUME NEW op \in {"sync", "push", "pull"}, Acquire(c, op) PROVE OneRecord'
  BY <1>1, <1>2, <1>28, AcquireEffect
<1> QED BY <1>3, <1>4, <1>5, <1>6, <1>7, <1>8, <1>9, <1>10, <1>11, <1>12, <1>13, <1>14, <1>15, <1>16, <1>17, <1>18, <1>19, <1>20, <1>21, <1>22, <1>23, <1>24, <1>25, <1>26, <1>27, <1>28 DEF CycleStep, PushStep, PullStep, Start

LEMMA NextOneRecord == TypeOK /\ OneRecord /\ [Next]_vars => OneRecord'
<1> SUFFICES ASSUME TypeOK, OneRecord, [Next]_vars PROVE OneRecord'
  OBVIOUS
<1>1. CASE Environment
  BY <1>1, EnvironmentMoves DEF OneRecord, Idle
<1>2. CASE UNCHANGED vars
  BY <1>2 DEF vars, OneRecord
<1> QED BY <1>1, <1>2, OneRecordStep DEF Next-----------------------------------------------------------------------------
(* What is still to be pushed is never forgotten.                          *)

\* What the push and the pull of caller c rely on: a row being pushed, or
\* just pulled, still holds the version at hand, and that version has reached
\* the remote by the time the row is marked synced.
CleanCycle(c) ==
    /\ \A m \in run[c].rec :
        /\ run[c].pc \in {"sending", "mark", "mark_pulled"}
            => local[m.row].ver = m.ver
        /\ run[c].pc \in {"mark", "save", "mark_pulled"}
            => m.ver \in received[m.row]
    /\ \A m \in run[c].inbox : m.ver \in received[m.row]

CleanInv ==
    /\ CleanIsReceived
    /\ \A r \in Rows : remote[r].ts # 0 => remote[r].ver \in received[r]
    /\ \A c \in Callers : CleanCycle(c)

NoOverlap == "edit_during_push" \notin Hazards /\ "edit_during_upsert" \notin Hazards

LEMMA CleanEnvironment ==
    ASSUME TypeOK, CleanInv, NoOverlap, Environment PROVE CleanInv'
<1> USE DEF TypeOK, CleanInv, CleanIsReceived, CleanCycle
<1>1. ASSUME NEW r \in Rows, LocalSave(r) PROVE CleanInv'
  <2>1. ~At(r, {"sending", "mark", "mark_pulled"})
    BY <1>1 DEF LocalSave, NoOverlap, PushWindow, UpsertWindow, At
  <2>2. CleanIsReceived' BY <1>1 DEF LocalSave
  <2>3. \A c \in Callers : CleanCycle(c)'
    BY <1>1, <2>1, CycleFields DEF LocalSave, At, Record
  <2> QED BY <1>1, <2>2, <2>3 DEF LocalSave
<1>2. ASSUME NEW r \in Rows, RemoteWrite(r) PROVE CleanInv'
  BY <1>2, CycleFields DEF RemoteWrite, Record
<1>3. CASE Disconnect \/ Reconnect
  BY <1>3 DEF Disconnect, Reconnect, history
<1>4. CASE Crash
  BY <1>4 DEF Crash, Idle, history
<1> QED BY <1>1, <1>2, <1>3, <1>4 DEF Environment

RemoteIsReceived == \A r \in Rows : remote[r].ts # 0 => remote[r].ver \in received[r]

\* What push_record leaves behind.
LEMMA UpsertEffect ==
    ASSUME TypeOK, NEW m \in Record, Upsert(m)
    PROVE  /\ m.ver \in received'[m.row]
           /\ \A r \in Rows : received[r] \subseteq received'[r]
           /\ \A r \in Rows : \/ remote'[r] = remote[r]
                               \/ /\ remote'[r].ver = m.ver /\ r = m.row
                                  /\ remote'[r].ts = now + 1
BY DEF TypeOK, Record, Upsert

LEMMA MarkSyncedEffect ==
    ASSUME TypeOK, NEW c \in Callers, NEW from, NEW next,
           MarkSynced(c, from, next)
    PROVE  \E m \in run[c].rec :
             /\ \A r \in Rows : local'[r].ver = local[r].ver
             /\ \A r \in Rows \ {m.row} : local'[r] = local[r]
<1>1. PICK m \in run[c].rec : local' = [local EXCEPT ![m.row].dirty = FALSE]
  BY DEF MarkSynced
<1>2. ASSUME NEW r \in Rows PROVE local'[r].ver = local[r].ver
  BY <1>1 DEF TypeOK
<1>3. \A r \in Rows \ {m.row} : local'[r] = local[r]
  BY <1>1 DEF TypeOK
<1> QED BY <1>2, <1>3

\* A step of caller c, the only one in a cycle, has to re-establish its own
\* part of the invariant; the other callers hold no record.
LEMMA CleanMove ==
    ASSUME TypeOK, CleanInv, MutualExclusion, NEW c \in Callers,
           run[c].pc # "idle" \/ ~syncing,
           \A d \in Callers \ {c} : run'[d] = run[d],
           \A r \in Rows : received[r] \subseteq received'[r],
           CleanCycle(c)', CleanIsReceived', RemoteIsReceived'
    PROVE  CleanInv'
<1>1. ASSUME NEW d \in Callers \ {c} PROVE CleanCycle(d)'
  <2>1. run[d].pc = "idle" BY DEF MutualExclusion
  <2>2. \A m \in run[d].inbox : m.row \in Rows BY CycleFields DEF Record
  <2> QED BY <2>1, <2>2 DEF CleanInv, CleanCycle
<1> QED BY <1>1 DEF CleanInv, RemoteIsReceived

LEMMA CleanStep ==
    ASSUME TypeOK, CleanInv, MutualExclusion, OneRecord, NEW c \in Callers,
           CycleStep(c) \/ Cancel(c) \/ Start(c)
    PROVE  CleanInv'
<1>1. \A m \in run[c].rec \cup run[c].inbox : m \in Record /\ m.row \in Rows
  BY CycleFields DEF Record
<1> USE <1>1 DEF CleanInv, CleanCycle, CleanIsReceived, RemoteIsReceived, Takes, Becomes,
        LocalUnchanged, RemoteUnchanged
<1>2. CASE Snapshot(c)
  BY CleanMove, <1>2, SnapshotEffect DEF Snapshot
<1>3. CASE SnapshotFails(c)
  BY CleanMove, <1>3, SnapshotFailsEffect DEF SnapshotFails
<1>4. ASSUME NEW r \in Rows, ReadRecord(c, r) PROVE CleanInv'
  <2>1. LET m == [row |-> r, ver |-> local[r].ver, ts |-> local[r].ts] IN
        /\ run'[c].pc = "sending" /\ run'[c].rec = {m}
        /\ run'[c].inbox = run[c].inbox /\ received' = received /\ local' = local
    BY <1>4, ReadRecordEffect DEF ReadRecord
  <2>2. CleanCycle(c)' BY <2>1
  <2> QED BY CleanMove, <1>4, <2>2, ReadRecordEffect DEF ReadRecord
<1>5. ASSUME NEW r \in Rows, ReadRecordFails(c, r) PROVE CleanInv'
  BY CleanMove, <1>5, ReadRecordFailsEffect DEF ReadRecordFails
<1>6. CASE PushDone(c)
  BY CleanMove, <1>6, PushDoneEffect DEF PushDone
<1>7. CASE PushOk(c)
  <2>1. PICK m \in run[c].rec : Upsert(m) BY <1>7 DEF PushOk
  <2>2. m.row \in Rows /\ RemoteIsReceived' BY <2>1, UpsertEffect
  <2>3. CleanCycle(c)'
    BY <1>7, <2>1, PushOkEffect, UpsertEffect DEF PushOk, OneRecord
  <2>4. CleanIsReceived' BY <1>7, <2>1, UpsertEffect DEF PushOk
  <2> QED BY CleanMove, <1>7, <2>1, <2>2, <2>3, <2>4, PushOkEffect, UpsertEffect
<1>8. CASE PushFail(c)
  <2>1. /\ \A r \in Rows : received[r] \subseteq received'[r]
        /\ RemoteIsReceived'
    BY <1>8, UpsertEffect DEF PushFail
  <2>2. local' = local BY <1>8 DEF PushFail
  <2>3. CleanIsReceived' BY <2>1, <2>2
  <2>4. CASE Takes(c, "sending", run[c].rec)
    <3>1. CleanCycle(c)' BY <1>8, <2>1, <2>2, <2>4, PushFailEffect
    <3> QED BY CleanMove, <1>8, <2>1, <2>3, <2>4, <3>1, PushFailEffect
  <2>5. CASE Takes(c, "next", {})
    <3>1. CleanCycle(c)' BY <1>8, <2>1, <2>2, <2>5, PushFailEffect
    <3> QED BY CleanMove, <1>8, <2>1, <2>3, <2>5, <3>1, PushFailEffect
  <2> QED BY CleanMove, <1>8, <2>4, <2>5, PushFailEffect
<1>9. CASE MarkPushed(c)
  <2>1. PICK m \in run[c].rec :
          /\ \A r \in Rows : local'[r].ver = local[r].ver
          /\ \A r \in Rows \ {m.row} : local'[r] = local[r]
    BY <1>9, MarkSyncedEffect DEF MarkPushed
  <2>2. received' = received /\ remote' = remote
    BY <1>9 DEF MarkPushed, MarkSynced
  <2>3. CleanCycle(c)' BY <1>9, <2>2, MarkPushedEffect
  <2>4. local[m.row].ver \in received[m.row] BY <1>9, MarkPushedEffect
  <2>5. CleanIsReceived' BY <2>1, <2>2, <2>4
  <2> QED BY CleanMove, <1>9, <2>2, <2>3, <2>5, MarkPushedEffect
<1>10. CASE MarkPushedFails(c)
  BY CleanMove, <1>10, MarkPushedFailsEffect DEF MarkPushedFails
<1>11. CASE BeginPull(c)
  BY CleanMove, <1>11, BeginPullEffect DEF BeginPull
<1>12. ASSUME NEW t \in Types, Query(c, t) PROVE CleanInv'
  <2>1. \A m \in Changed(t, run[c].since) : m.ver \in received[m.row]
    BY CycleFields DEF Changed, TypeOK
  <2>2. /\ run'[c].pc = "check" /\ run'[c].inbox = Changed(t, run[c].since)
        /\ received' = received
    BY <1>12, QueryEffect DEF Query
  <2>3. CleanCycle(c)' BY <2>1, <2>2
  <2> QED BY CleanMove, <1>12, <2>3, QueryEffect DEF Query
<1>13. ASSUME NEW t \in Types, QueryFails(c, t) PROVE CleanInv'
  BY CleanMove, <1>13, QueryFailsEffect DEF QueryFails
<1>14. CASE QueriesDone(c)
  BY CleanMove, <1>14, QueriesDoneEffect DEF QueriesDone
<1>15. ASSUME NEW m \in run[c].inbox, Conflict(c, m) PROVE CleanInv'
  BY CleanMove, <1>15, ConflictEffect, ZenonT(60) DEF Conflict
<1>16. ASSUME NEW m \in run[c].inbox, NoConflict(c, m) PROVE CleanInv'
  <2>1. CleanCycle(c)'
    <3>1. CASE TypeOf[m.row] \in Unsupported
      <4>1. /\ run'[c].pc = "check" /\ run'[c].inbox = run[c].inbox \ {m}
            /\ received' = received
        BY <1>16, <3>1, NoConflictEffect DEF NoConflict
      <4> QED BY <4>1
    <3>2. CASE TypeOf[m.row] \notin Unsupported
      <4>1. /\ run'[c].pc = "save" /\ run'[c].rec = {m}
            /\ run'[c].inbox = run[c].inbox \ {m} /\ received' = received
        BY <1>16, <3>2, NoConflictEffect DEF NoConflict
      <4> QED BY <4>1
    <3> QED BY <3>1, <3>2
  <2>2. run[c].pc # "idle" /\ \A d \in Callers \ {c} : run'[d] = run[d]
    BY <1>16, NoConflictEffect
  <2> QED BY CleanMove, <1>16, <2>1, <2>2 DEF NoConflict
<1>17. CASE InboxDone(c)
  BY CleanMove, <1>17, InboxDoneEffect DEF InboxDone
<1>18. CASE SavePulled(c)
  <2>1. PICK m \in run[c].rec :
          local' = [local EXCEPT ![m.row] = [ver |-> m.ver, ts |-> now, dirty |-> TRUE]]
    BY <1>18 DEF SavePulled
  <2>2. /\ local'[m.row] = [ver |-> m.ver, ts |-> now, dirty |-> TRUE]
        /\ \A r \in Rows \ {m.row} : local'[r] = local[r]
    BY <2>1 DEF TypeOK
  <2>3. run[c].rec = {m} BY DEF OneRecord
  <2>4. CleanCycle(c)'
    <3>1. /\ run[c].pc = "save" /\ run'[c].pc = "mark_pulled"
          /\ run'[c].rec = {m} /\ run'[c].inbox = run[c].inbox
          /\ received' = received
      BY <1>18, <2>3, SavePulledEffect DEF SavePulled
    <3> QED BY <2>2, <3>1
  <2>5. CleanIsReceived' BY <1>18, <2>2 DEF SavePulled
  <2> QED BY CleanMove, <1>18, <2>4, <2>5, SavePulledEffect DEF SavePulled
<1>19. CASE UpsertFails(c)
  BY CleanMove, <1>19, UpsertFailsEffect, SMTT(30) DEF UpsertFails
<1>20. CASE MarkPulled(c)
  <2>1. PICK m \in run[c].rec :
          /\ \A r \in Rows : local'[r].ver = local[r].ver
          /\ \A r \in Rows \ {m.row} : local'[r] = local[r]
    BY <1>20, MarkSyncedEffect DEF MarkPulled
  <2>2. received' = received /\ remote' = remote
    BY <1>20 DEF MarkPulled, MarkSynced
  <2>3. CleanCycle(c)' BY <1>20, <2>2, MarkPulledEffect
  <2>4. local[m.row].ver \in received[m.row] BY <1>20, MarkPulledEffect
  <2>5. CleanIsReceived' BY <2>1, <2>2, <2>4
  <2> QED BY CleanMove, <1>20, <2>2, <2>3, <2>5, MarkPulledEffect
<1>21. CASE StampPulled(c)
  <2>1. PICK m \in run[c].rec : local' = [local EXCEPT ![m.row].ts = m.ts]
    BY <1>21 DEF StampPulled
  <2>2. \A r \in Rows : local'[r].ver = local[r].ver /\ local'[r].dirty = local[r].dirty
    BY <2>1 DEF TypeOK
  <2>3. CleanCycle(c)' BY <1>21, StampPulledEffect DEF StampPulled
  <2>4. CleanIsReceived' BY <1>21, <2>2 DEF StampPulled
  <2> QED BY CleanMove, <1>21, <2>3, <2>4, StampPulledEffect DEF StampPulled
<1>22. CASE PulledStepFails(c)
  BY CleanMove, <1>22, PulledStepFailsEffect DEF PulledStepFails
<1>23. CASE Finish(c)
  BY CleanMove, <1>23, FinishEffect DEF Finish
<1>24. CASE CheckReachable(c)
  BY CleanMove, <1>24, CheckReachableEffect DEF CheckReachable
<1>25. CASE Release(c)
  BY CleanMove, <1>25, ReleaseEffect DEF Release
<1>26. CASE Cancel(c)
  <2>1. /\ \A r \in Rows : received[r] \subseteq received'[r]
        /\ RemoteIsReceived'
    BY <1>26, UpsertEffect DEF Cancel
  <2>2. local' = local BY <1>26 DEF Cancel
  <2>3. CleanIsReceived' BY <2>1, <2>2
  <2>4. CleanCycle(c)' BY <1>26, CancelEffect
  <2> QED BY CleanMove, <1>26, <2>1, <2>3, <2>4, CancelEffect
<1>27. ASSUME NEW op \in {"sync", "push", "pull"}, Acquire(c, op) PROVE CleanInv'
  BY CleanMove, <1>27, AcquireEffect DEF Acquire
<1> QED BY <1>2, <1>3, <1>4, <1>5, <1>6, <1>7, <1>8, <1>9, <1>10, <1>11, <1>12, <1>13, <1>14, <1>15, <1>16, <1>17, <1>18, <1>19, <1>20, <1>21, <1>22, <1>23, <1>24, <1>25, <1>26, <1>27 DEF CycleStep, PushStep, PullStep, Start

LEMMA NextClean ==
    ASSUME NoOverlap
    PROVE  TypeOK /\ MutualExclusion /\ OneRecord /\ CleanInv /\ [Next]_vars
           => CleanInv'
<1> SUFFICES ASSUME TypeOK, MutualExclusion, OneRecord, CleanInv, [Next]_vars
             PROVE  CleanInv'
  OBVIOUS
<1>1. CASE UNCHANGED vars
  BY <1>1 DEF vars, CleanInv, CleanCycle, CleanIsReceived
<1> QED BY <1>1, CleanEnvironment, CleanStep DEF Next

LEMMA InitOneRecord == Init => OneRecord
BY DEF Init, OneRecord, Idle

\* A cycle works on one record at a time, whichever step of it fails; both
\* of the invariants below rest on this.
THEOREM OneRecordAtATime == Spec => []OneRecord
BY InitOneRecord, NextOneRecord, TypeCorrect, PTL DEF Spec

\* Where no save hits a row in the middle of its push or its upsert, a row
\* is only ever clean when the remote has received what it holds.
THEOREM CleanRowsAreReceived ==
    ASSUME NoOverlap PROVE Spec => []CleanIsReceived
<1>1. Init => CleanInv
  BY DEF Init, CleanInv, CleanIsReceived, CleanCycle, Idle
<1>2. TypeOK /\ MutualExclusion /\ OneRecord /\ CleanInv /\ [Next]_vars => CleanInv'
  BY NextClean
<1>3. CleanInv => CleanIsReceived
  BY DEF CleanInv
<1> QED BY <1>1, <1>2, <1>3, TypeCorrect, OneCycleAtATime, OneRecordAtATime, PTL
        DEF Spec

-----------------------------------------------------------------------------
(* The pull misses nothing up to last_sync.                                *)

NoMissedPull ==
    /\ Hazards \cap {"write_during_pull", "pull_error", "upsert_error"} = {}
    /\ Unsupported = {}

\* The record of row r, as the remote has it now, is still to be applied by c.
Pending(c, r) ==
    \E m \in run[c].inbox \cup (IF run[c].pc = "save" THEN run[c].rec ELSE {}) :
        m.row = r /\ m.ver = remote[r].ver

\* In the pull of caller c, rows of the types queried so far are known here or
\* wait in the inbox; the older ones are known because last_sync says so.
CaughtCycle(c) ==
    /\ run[c].pc \notin {"check", "save", "mark_pulled", "stamp"}
        => run[c].inbox = {}
    /\ run[c].pc \in PullPcs =>
        /\ run[c].since <= lastSync
        /\ run[c].pc = "finish" => run[c].todo = {}
        /\ \A r \in Rows : TypeOf[r] \notin run[c].todo /\ remote[r].ver # 0
                          => remote[r].ver \in known[r] \/ Pending(c, r)

CaughtInv ==
    /\ CaughtUp
    /\ lastSync <= now
    /\ \A c \in Callers : CaughtCycle(c)

LEMMA CaughtEnvironment ==
    ASSUME TypeOK, CaughtInv, NoMissedPull, Environment PROVE CaughtInv'
<1> USE DEF TypeOK, CaughtInv, CaughtUp, CaughtCycle, Pending
<1>1. ASSUME NEW r \in Rows, LocalSave(r) PROVE CaughtInv'
  BY <1>1 DEF LocalSave
<1>2. ASSUME NEW r \in Rows, RemoteWrite(r) PROVE CaughtInv'
  <2>1. \A c \in Callers : run[c].pc \in PullPcs => TypeOf[r] \in run[c].todo
    BY <1>2 DEF RemoteWrite, NoMissedPull, PullWindow
  <2>2. /\ remote'[r].ts = now + 1 /\ \A q \in Rows \ {r} : remote'[q] = remote[q]
        /\ run' = run /\ known' = known /\ lastSync' = lastSync /\ now' = now + 1
    BY <1>2 DEF RemoteWrite
  <2>3. CaughtUp' BY <2>2
  <2>4. ASSUME NEW c \in Callers PROVE CaughtCycle(c)'
    <3>1. ASSUME NEW q \in Rows, run[c].pc \in PullPcs,
                 TypeOf[q] \notin run[c].todo, remote'[q].ver # 0
          PROVE  remote'[q].ver \in known[q] \/ Pending(c, q)'
      BY <2>1, <2>2, <3>1
    <3> QED BY <2>2, <3>1
  <2> QED BY <2>2, <2>3, <2>4
<1>3. CASE Disconnect \/ Reconnect
  BY <1>3 DEF Disconnect, Reconnect, history
<1>4. CASE Crash
  BY <1>4 DEF Crash, Idle, history, PullPcs
<1> QED BY <1>1, <1>2, <1>3, <1>4 DEF Environment

LEMMA CaughtMove ==
    ASSUME TypeOK, CaughtInv, MutualExclusion, NEW c \in Callers,
           run[c].pc # "idle" \/ ~syncing,
           \A d \in Callers \ {c} : run'[d] = run[d],
           CaughtUp', lastSync' <= now', CaughtCycle(c)'
    PROVE  CaughtInv'
<1>1. ASSUME NEW d \in Callers \ {c} PROVE CaughtCycle(d)'
  <2>1. run[d].pc = "idle" BY DEF MutualExclusion
  <2> QED BY <2>1 DEF CaughtInv, CaughtCycle, PullPcs
<1> QED BY <1>1 DEF CaughtInv

\* What a push stores on the remote is stamped later than last_sync.
LEMMA CaughtUpsert ==
    ASSUME TypeOK, CaughtInv, NEW m \in Record, Upsert(m),
           known' = known, lastSync' = lastSync
    PROVE  CaughtUp' /\ lastSync' <= now'
<1>1. lastSync <= now /\ lastSync \in Nat /\ now \in Nat
  BY DEF CaughtInv, TypeOK
<1>2. now' = now + 1 BY DEF Upsert
<1>3. ASSUME NEW r \in Rows, remote'[r].ver # 0, remote'[r].ts <= lastSync'
      PROVE  remote'[r].ver \in known'[r]
  <2>1. remote'[r] = remote[r] BY <1>1, <1>3, UpsertEffect
  <2> QED BY <1>3, <2>1 DEF CaughtInv, CaughtUp
<1> QED BY <1>1, <1>2, <1>3 DEF CaughtUp

LEMMA CaughtStep ==
    ASSUME TypeOK, CaughtInv, MutualExclusion, OneRecord, NoMissedPull,
           NEW c \in Callers, CycleStep(c) \/ Cancel(c) \/ Start(c)
    PROVE  CaughtInv'
<1>1. \A m \in run[c].rec \cup run[c].inbox : m \in Record /\ m.row \in Rows
  BY CycleFields DEF Record
<1> USE <1>1 DEF CaughtInv, CaughtCycle, CaughtUp, PullPcs, Takes, Becomes,
        LocalUnchanged, RemoteUnchanged
<1>2. CASE Snapshot(c)
  BY CaughtMove, <1>2, SnapshotEffect DEF Snapshot
<1>3. CASE SnapshotFails(c)
  BY CaughtMove, <1>3, SnapshotFailsEffect DEF SnapshotFails
<1>4. ASSUME NEW r \in Rows, ReadRecord(c, r) PROVE CaughtInv'
  BY CaughtMove, <1>4, ReadRecordEffect, ZenonT(60) DEF ReadRecord
<1>5. ASSUME NEW r \in Rows, ReadRecordFails(c, r) PROVE CaughtInv'
  BY CaughtMove, <1>5, ReadRecordFailsEffect DEF ReadRecordFails
<1>6. CASE PushDone(c)
  BY CaughtMove, <1>6, PushDoneEffect DEF PushDone
<1>7. CASE PushOk(c)
  <2>1. CaughtUp' /\ lastSync' <= now'
    <3>1. PICK m \in run[c].rec : Upsert(m) BY <1>7 DEF PushOk
    <3>2. known' = known /\ lastSync' = lastSync BY <1>7 DEF PushOk
    <3> QED BY <1>1, <3>1, <3>2, CaughtUpsert
  <2>2. CaughtCycle(c)' BY <1>7, PushOkEffect
  <2>3. lastSync' = lastSync BY <1>7 DEF PushOk
  <2> QED BY CaughtMove, <1>7, <2>1, <2>2, <2>3, PushOkEffect
<1>8. CASE PushFail(c)
  <2>1. CaughtUp' /\ lastSync' <= now'
    <3>1. known' = known /\ lastSync' = lastSync BY <1>8 DEF PushFail
    <3>2. CASE RemoteUnchanged BY <3>1, <3>2
    <3>3. CASE \E m \in run[c].rec : Upsert(m)
      BY <1>1, <3>1, <3>3, CaughtUpsert
    <3> QED BY <1>8, <3>2, <3>3 DEF PushFail
  <2>2. CaughtCycle(c)' BY <1>8, PushFailEffect
  <2>3. lastSync' = lastSync BY <1>8 DEF PushFail
  <2> QED BY CaughtMove, <1>8, <2>1, <2>2, <2>3, PushFailEffect
<1>9. CASE MarkPushed(c)
  BY CaughtMove, <1>9, MarkPushedEffect DEF MarkPushed, MarkSynced
<1>10. CASE MarkPushedFails(c)
  BY CaughtMove, <1>10, MarkPushedFailsEffect DEF MarkPushedFails
<1>11. CASE BeginPull(c)
  <2>1. /\ run[c].pc = "since" /\ run'[c].pc = "query" /\ run'[c].inbox = {}
        /\ run'[c].todo = Types /\ run'[c].since = lastSync
    BY <1>11, BeginPullEffect
  <2>2. \A r \in Rows : TypeOf[r] \in Types BY EdgeSyncAssumption
  <2>3. CaughtCycle(c)' BY <1>11, <2>1, <2>2 DEF BeginPull, TypeOK
  <2> QED BY CaughtMove, <1>11, <2>3, BeginPullEffect DEF BeginPull
<1>12. ASSUME NEW t \in Types, Query(c, t) PROVE CaughtInv'
  <2>1. /\ run[c].pc = "query" /\ run'[c].pc = "check"
        /\ run'[c].inbox = Changed(t, run[c].since)
        /\ run'[c].todo = run[c].todo \ {t} /\ run'[c].since = run[c].since
        /\ remote' = remote /\ known' = known /\ lastSync' = lastSync
    BY <1>12, QueryEffect DEF Query
  <2>2. ASSUME NEW r \in Rows, TypeOf[r] \notin run'[c].todo, remote[r].ver # 0
        PROVE  remote[r].ver \in known[r] \/ Pending(c, r)'
    <3>1. CASE TypeOf[r] = t /\ remote[r].ts > run[c].since
      <4>1. [row |-> r, ver |-> remote[r].ver, ts |-> remote[r].ts] \in run'[c].inbox
        BY <2>1, <3>1 DEF Changed
      <4> QED BY <2>1, <4>1 DEF Pending
    <3>2. CASE TypeOf[r] = t /\ ~(remote[r].ts > run[c].since)
      BY <2>1, <2>2, <3>2 DEF TypeOK, Cycle
    <3>3. CASE TypeOf[r] # t
      BY <2>1, <2>2, <3>3 DEF Pending
    <3> QED BY <3>1, <3>2, <3>3
  <2>3. CaughtCycle(c)' BY <2>1, <2>2
  <2> QED BY CaughtMove, <1>12, <2>1, <2>3, QueryEffect, ZenonT(60) DEF Query
<1>13. ASSUME NEW t \in Types, QueryFails(c, t) PROVE CaughtInv'
  BY CaughtMove, <1>13, QueryFailsEffect DEF QueryFails, NoMissedPull
<1>14. CASE QueriesDone(c)
  <2>1. /\ run[c].pc = "query" /\ run'[c].pc = "finish" /\ run[c].todo = {}
        /\ run'[c].inbox = {} /\ run'[c].todo = {} /\ run'[c].since = run[c].since
        /\ remote' = remote /\ known' = known /\ lastSync' = lastSync
    BY <1>14, QueriesDoneEffect DEF QueriesDone
  <2>2. CaughtCycle(c)' BY <2>1 DEF Pending
  <2> QED BY CaughtMove, <1>14, <2>1, <2>2, QueriesDoneEffect DEF QueriesDone
<1>15. ASSUME NEW m \in run[c].inbox, Conflict(c, m) PROVE CaughtInv'
  <2>1. /\ run[c].pc = "check" /\ run'[c].pc = "check"
        /\ run'[c].inbox = run[c].inbox \ {m}
        /\ run'[c].todo = run[c].todo /\ run'[c].since = run[c].since
        /\ remote' = remote /\ lastSync' = lastSync
        /\ known' = [known EXCEPT ![m.row] = @ \cup {m.ver}]
    BY <1>15, ConflictEffect DEF Conflict
  <2>2. m.ver \in known'[m.row] /\ \A r \in Rows : known[r] \subseteq known'[r]
    BY <1>1, <2>1 DEF TypeOK
  <2>3. ASSUME NEW r \in Rows, TypeOf[r] \notin run[c].todo, remote[r].ver # 0
        PROVE  remote[r].ver \in known'[r] \/ Pending(c, r)'
    BY <2>1, <2>2, <2>3 DEF Pending
  <2>4. CaughtCycle(c)' BY <2>1, <2>3
  <2>5. CaughtUp' BY <2>1, <2>2
  <2> QED BY CaughtMove, <1>15, <2>1, <2>4, <2>5, ConflictEffect DEF Conflict
<1>16. ASSUME NEW m \in run[c].inbox, NoConflict(c, m) PROVE CaughtInv'
  <2>1. /\ run[c].pc = "check" /\ run'[c].pc = "save" /\ run'[c].rec = {m}
        /\ run'[c].inbox = run[c].inbox \ {m}
        /\ run'[c].todo = run[c].todo /\ run'[c].since = run[c].since
        /\ remote' = remote /\ lastSync' = lastSync /\ known' = known
    BY <1>16, NoConflictEffect, EdgeSyncAssumption DEF NoConflict, NoMissedPull
  <2>2. ASSUME NEW r \in Rows, TypeOf[r] \notin run[c].todo, remote[r].ver # 0
        PROVE  remote[r].ver \in known[r] \/ Pending(c, r)'
    BY <2>1, <2>2 DEF Pending
  <2>3. CaughtCycle(c)' BY <2>1, <2>2
  <2>4. \A d \in Callers \ {c} : run'[d] = run[d]
    BY <1>16, NoConflictEffect
  <2> QED BY CaughtMove, <1>16, <2>1, <2>3, <2>4 DEF NoConflict
<1>17. CASE InboxDone(c)
  BY CaughtMove, <1>17, InboxDoneEffect DEF InboxDone, Pending
<1>18. CASE SavePulled(c)
  <2>1. PICK m \in run[c].rec : known' = [known EXCEPT ![m.row] = @ \cup {m.ver}]
    BY <1>18 DEF SavePulled
  <2>2. /\ run[c].pc = "save" /\ run'[c].pc = "mark_pulled"
        /\ run'[c].inbox = run[c].inbox /\ run[c].rec = {m}
        /\ run'[c].todo = run[c].todo /\ run'[c].since = run[c].since
        /\ remote' = remote /\ lastSync' = lastSync
    BY <1>18, SavePulledEffect, ZenonT(60) DEF SavePulled, OneRecord
  <2>3. m.ver \in known'[m.row] /\ \A r \in Rows : known[r] \subseteq known'[r]
    BY <1>1, <2>1 DEF TypeOK
  <2>4. ASSUME NEW r \in Rows, TypeOf[r] \notin run[c].todo, remote[r].ver # 0
        PROVE  remote[r].ver \in known'[r] \/ Pending(c, r)'
    BY <2>2, <2>3, <2>4 DEF Pending
  <2>5. CaughtCycle(c)' BY <2>2, <2>4
  <2>6. CaughtUp' BY <2>2, <2>3
  <2> QED BY CaughtMove, <1>18, <2>2, <2>5, <2>6, SavePulledEffect DEF SavePulled
<1>19. CASE UpsertFails(c)
  BY <1>19 DEF UpsertFails, NoMissedPull
<1>20. CASE MarkPulled(c)
  <2>1. /\ run[c].pc = "mark_pulled" /\ run'[c].pc = "stamp"
        /\ run'[c].inbox = run[c].inbox
        /\ run'[c].todo = run[c].todo /\ run'[c].since = run[c].since
        /\ remote' = remote /\ lastSync' = lastSync /\ known' = known
    BY <1>20, MarkPulledEffect DEF MarkPulled, MarkSynced
  <2>2. CaughtCycle(c)' BY <2>1 DEF Pending
  <2>3. /\ CaughtUp' /\ lastSync' <= now'
        /\ \A d \in Callers \ {c} : run'[d] = run[d]
    BY <1>20, <2>1, MarkPulledEffect DEF MarkPulled, MarkSynced
  <2> QED BY CaughtMove, <2>1, <2>2, <2>3
<1>21. CASE StampPulled(c)
  <2>1. /\ run[c].pc = "stamp" /\ run'[c].pc = "check"
        /\ run'[c].inbox = run[c].inbox
        /\ run'[c].todo = run[c].todo /\ run'[c].since = run[c].since
        /\ remote' = remote /\ lastSync' = lastSync /\ known' = known
    BY <1>21, StampPulledEffect DEF StampPulled
  <2>2. CaughtCycle(c)' BY <2>1 DEF Pending
  <2>3. /\ CaughtUp' /\ lastSync' <= now'
        /\ \A d \in Callers \ {c} : run'[d] = run[d]
    BY <1>21, <2>1, StampPulledEffect DEF StampPulled
  <2> QED BY CaughtMove, <2>1, <2>2, <2>3
<1>22. CASE PulledStepFails(c)
  BY CaughtMove, <1>22, PulledStepFailsEffect DEF PulledStepFails, Pending
<1>23. CASE Finish(c)
  <2>1. /\ run[c].pc = "finish" /\ run'[c].pc = "release" /\ run'[c].inbox = {}
        /\ run[c].todo = {} /\ run[c].inbox = {}
        /\ remote' = remote /\ known' = known /\ now' = now
    BY <1>23, FinishEffect DEF Finish
  <2>2. CaughtCycle(c)' BY <2>1
  <2>3. \A r \in Rows : remote[r].ver # 0 => remote[r].ver \in known[r]
    BY <2>1 DEF Pending
  <2>4. CaughtUp' BY <2>1, <2>3
  <2>5. lastSync' <= now' BY <1>23, <2>1 DEF Finish, TypeOK
  <2>6. \A d \in Callers \ {c} : run'[d] = run[d] BY <1>23, FinishEffect
  <2> QED BY CaughtMove, <2>1, <2>2, <2>4, <2>5, <2>6
<1>24. CASE CheckReachable(c)
  BY CaughtMove, <1>24, CheckReachableEffect DEF CheckReachable
<1>25. CASE Release(c)
  BY CaughtMove, <1>25, ReleaseEffect DEF Release
<1>26. CASE Cancel(c)
  <2>1. CaughtUp' /\ lastSync' <= now'
    <3>1. known' = known /\ lastSync' = lastSync BY <1>26 DEF Cancel
    <3>2. CASE RemoteUnchanged BY <3>1, <3>2
    <3>3. CASE \E m \in run[c].rec : Upsert(m)
      BY <1>1, <3>1, <3>3, CaughtUpsert
    <3> QED BY <1>26, <3>2, <3>3 DEF Cancel
  <2>2. CaughtCycle(c)' BY <1>26, CancelEffect
  <2>3. lastSync' = lastSync BY <1>26 DEF Cancel
  <2> QED BY CaughtMove, <1>26, <2>1, <2>2, <2>3, CancelEffect
<1>27. ASSUME NEW op \in {"sync", "push", "pull"}, Acquire(c, op) PROVE CaughtInv'
  BY CaughtMove, <1>27, AcquireEffect DEF Acquire
<1> QED BY <1>2, <1>3, <1>4, <1>5, <1>6, <1>7, <1>8, <1>9, <1>10, <1>11, <1>12, <1>13, <1>14, <1>15, <1>16, <1>17, <1>18, <1>19, <1>20, <1>21, <1>22, <1>23, <1>24, <1>25, <1>26, <1>27 DEF CycleStep, PushStep, PullStep, Start

LEMMA NextCaught ==
    ASSUME NoMissedPull
    PROVE  TypeOK /\ MutualExclusion /\ OneRecord /\ CaughtInv /\ [Next]_vars
           => CaughtInv'
<1> SUFFICES ASSUME TypeOK, MutualExclusion, OneRecord, CaughtInv, [Next]_vars
             PROVE  CaughtInv'
  OBVIOUS
<1>1. CASE UNCHANGED vars
  BY <1>1 DEF vars, CaughtInv, CaughtUp, CaughtCycle, Pending
<1> QED BY <1>1, CaughtEnvironment, CaughtStep DEF Next

\* Where every query and every upsert of a pull succeeds and no other device
\* writes between a query and the end of its pull, nothing stamped up to
\* last_sync has been missed, so that asking for later stamps is enough.
THEOREM PullMissesNothing ==
    ASSUME NoMissedPull PROVE Spec => []CaughtUp
<1>1. Init => CaughtInv
  BY DEF Init, CaughtInv, CaughtUp, CaughtCycle, Idle, PullPcs
<1>2. TypeOK /\ MutualExclusion /\ OneRecord /\ CaughtInv /\ [Next]_vars
      => CaughtInv'
  BY NextCaught
<1>3. CaughtInv => CaughtUp
  BY DEF CaughtInv
<1> QED BY <1>1, <1>2, <1>3, TypeCorrect, OneCycleAtATime, OneRecordAtATime, PTL
        DEF Spec

-----------------------------------------------------------------------------
(* A pull replaces no local version by an older one.                       *)

NoOverwrite == Hazards \cap {"edit_during_upsert", "read_error"} = {}

\* What a pull has read is no newer than what the remote has now, and the row
\* it is about to save is no newer than what it saves.
NewestCycle(c) ==
    /\ \A m \in run[c].inbox : m.ts <= remote[m.row].ts
    /\ run[c].pc = "save" =>
        \A m \in run[c].rec : m.ts <= remote[m.row].ts /\ local[m.row].ts <= m.ts

NewestInv ==
    /\ \A r \in Rows : remote[r].ts <= now
    /\ \A c \in Callers : NewestCycle(c)

\* The remote's stamps only grow.
Grows ==
    \A r \in Rows : /\ remote'[r].ts \in Nat /\ remote'[r].ts <= now'
                    /\ remote[r].ts <= remote'[r].ts

LEMMA UpsertGrows ==
    ASSUME TypeOK, NewestInv, NEW m \in Record, Upsert(m) PROVE Grows
<1>1. now' = now + 1 /\ now \in Nat BY DEF Upsert, TypeOK
<1>2. ASSUME NEW r \in Rows
      PROVE  /\ remote'[r].ts \in Nat /\ remote'[r].ts <= now'
             /\ remote[r].ts <= remote'[r].ts
  <2>1. remote[r].ts \in Nat /\ remote[r].ts <= now BY DEF TypeOK, NewestInv
  <2>2. remote'[r] = remote[r] \/ remote'[r].ts = now + 1 BY UpsertEffect
  <2> QED BY <1>1, <2>1, <2>2
<1> QED BY <1>2 DEF Grows

\* Records stay as old as they are while the remote grows.
LEMMA InboxGrows ==
    ASSUME TypeOK, NewestInv, Grows, NEW c \in Callers
    PROVE  \A m \in run[c].inbox : m.ts <= remote'[m.row].ts
<1> SUFFICES ASSUME NEW m \in run[c].inbox PROVE m.ts <= remote'[m.row].ts
  OBVIOUS
<1>1. m.row \in Rows /\ m.ts \in Nat BY CycleFields DEF Record
<1>2. m.ts <= remote[m.row].ts BY DEF NewestInv, NewestCycle
<1>3. /\ remote[m.row].ts \in Nat /\ remote'[m.row].ts \in Nat
      /\ remote[m.row].ts <= remote'[m.row].ts
  BY <1>1 DEF Grows, TypeOK
<1> QED BY <1>1, <1>2, <1>3

LEMMA NewestEnvironment ==
    ASSUME TypeOK, NewestInv, NoOverwrite, Environment PROVE NewestInv'
<1>1. ASSUME NEW r \in Rows, LocalSave(r) PROVE NewestInv'
  <2>1. /\ \A q \in Rows \ {r} : local'[q] = local[q]
        /\ remote' = remote /\ run' = run /\ now' = now + 1 /\ ~UpsertWindow(r)
    BY <1>1 DEF LocalSave, TypeOK, NoOverwrite
  <2>2. ASSUME NEW c \in Callers, NEW m \in run[c].rec, run[c].pc = "save"
        PROVE  m.row \in Rows \ {r}
    BY <2>1, <2>2, CycleFields DEF UpsertWindow, At, Record
  <2> QED BY <2>1, <2>2 DEF NewestInv, NewestCycle, TypeOK
<1>2. ASSUME NEW r \in Rows, RemoteWrite(r) PROVE NewestInv'
  <2>1. /\ \A q \in Rows \ {r} : remote'[q] = remote[q]
        /\ remote'[r].ts = now + 1 /\ now' = now + 1 /\ run' = run /\ local' = local
        /\ now \in Nat
    BY <1>2 DEF RemoteWrite, TypeOK
  <2>2. Grows BY <2>1 DEF Grows, NewestInv, TypeOK
  <2>3. ASSUME NEW c \in Callers, NEW m \in run[c].rec, run[c].pc = "save"
        PROVE  m.ts <= remote'[m.row].ts
    <3>1. m.row \in Rows /\ m.ts \in Nat BY CycleFields DEF Record
    <3>2. m.ts <= remote[m.row].ts /\ remote[m.row].ts <= now
      BY <2>3, <3>1 DEF NewestInv, NewestCycle
    <3> QED BY <2>1, <3>1, <3>2 DEF TypeOK
  <2> QED BY <2>1, <2>2, <2>3, InboxGrows DEF NewestInv, NewestCycle, Grows
<1>3. CASE Disconnect \/ Reconnect
  BY <1>3 DEF Disconnect, Reconnect, NewestInv, NewestCycle
<1>4. CASE Crash
  BY <1>4 DEF Crash, Idle, NewestInv, NewestCycle
<1> QED BY <1>1, <1>2, <1>3, <1>4 DEF Environment

\* A step of the cycle that takes no new record is harmless.
LEMMA NewestMove ==
    ASSUME TypeOK, NewestInv, MutualExclusion, NEW c \in Callers,
           run[c].pc # "idle" \/ ~syncing,
           \A d \in Callers \ {c} : run'[d] = run[d],
           Grows \/ UNCHANGED <<remote, now>>, NewestCycle(c)'
    PROVE  NewestInv'
<1>1. Grows BY DEF Grows, NewestInv, TypeOK
<1>2. ASSUME NEW d \in Callers \ {c} PROVE NewestCycle(d)'
  <2>1. run[d].pc = "idle" BY DEF MutualExclusion
  <2> QED BY <1>1, <2>1, InboxGrows DEF NewestCycle
<1> QED BY <1>1, <1>2 DEF NewestInv, Grows

LEMMA NewestQuiet ==
    ASSUME TypeOK, NewestInv, MutualExclusion, NEW c \in Callers,
           run[c].pc # "idle" \/ ~syncing,
           \A d \in Callers \ {c} : run'[d] = run[d],
           Grows \/ UNCHANGED <<remote, now>>,
           run'[c].inbox \subseteq run[c].inbox, run'[c].pc # "save"
    PROVE  NewestInv'
<1>1. Grows BY DEF Grows, NewestInv, TypeOK
<1>2. NewestCycle(c)' BY <1>1, InboxGrows DEF NewestCycle
<1> QED BY <1>2, NewestMove

LEMMA NewestStep ==
    ASSUME TypeOK, NewestInv, MutualExclusion, NoOverwrite,
           NEW c \in Callers, CycleStep(c) \/ Cancel(c) \/ Start(c)
    PROVE  NewestInv'
<1>1. \A m \in run[c].rec \cup run[c].inbox : m \in Record /\ m.row \in Rows
  BY CycleFields DEF Record
<1> USE DEF Takes, Becomes, LocalUnchanged, RemoteUnchanged
<1>2. CASE Snapshot(c)
  BY NewestQuiet, <1>2, SnapshotEffect DEF Snapshot
<1>3. CASE SnapshotFails(c)
  BY NewestQuiet, <1>3, SnapshotFailsEffect DEF SnapshotFails
<1>4. ASSUME NEW r \in Rows, ReadRecord(c, r) PROVE NewestInv'
  BY NewestQuiet, <1>4, ReadRecordEffect DEF ReadRecord
<1>5. ASSUME NEW r \in Rows, ReadRecordFails(c, r) PROVE NewestInv'
  BY NewestQuiet, <1>5, ReadRecordFailsEffect DEF ReadRecordFails
<1>6. CASE PushDone(c)
  BY NewestQuiet, <1>6, PushDoneEffect DEF PushDone
<1>7. CASE PushOk(c)
  <2>1. Grows BY <1>1, <1>7, UpsertGrows DEF PushOk
  <2> QED BY NewestQuiet, <1>7, <2>1, PushOkEffect
<1>8. CASE PushFail(c)
  <2>1. Grows \/ UNCHANGED <<remote, now>> BY <1>1, <1>8, UpsertGrows DEF PushFail
  <2> QED BY NewestQuiet, <1>8, <2>1, PushFailEffect
<1>9. CASE MarkPushed(c)
  BY NewestQuiet, <1>9, MarkPushedEffect DEF MarkPushed, MarkSynced
<1>10. CASE MarkPushedFails(c)
  BY NewestQuiet, <1>10, MarkPushedFailsEffect DEF MarkPushedFails
<1>11. CASE BeginPull(c)
  BY NewestQuiet, <1>11, BeginPullEffect DEF BeginPull
<1>12. ASSUME NEW t \in Types, Query(c, t) PROVE NewestInv'
  <2>1. /\ run[c].pc = "query" /\ run'[c].pc = "check"
        /\ run'[c].inbox = Changed(t, run[c].since)
        /\ UNCHANGED <<remote, now>> /\ \A d \in Callers \ {c} : run'[d] = run[d]
    BY <1>12, QueryEffect DEF Query
  <2>2. ASSUME NEW m \in Changed(t, run[c].since)
        PROVE  m.ts <= remote[m.row].ts
    BY <2>2 DEF Changed, TypeOK
  <2>3. NewestCycle(c)' BY <2>1, <2>2 DEF NewestCycle
  <2> QED BY NewestMove, <2>1, <2>3
<1>13. ASSUME NEW t \in Types, QueryFails(c, t) PROVE NewestInv'
  BY NewestQuiet, <1>13, QueryFailsEffect DEF QueryFails
<1>14. CASE QueriesDone(c)
  BY NewestQuiet, <1>14, QueriesDoneEffect DEF QueriesDone
<1>15. ASSUME NEW m \in run[c].inbox, Conflict(c, m) PROVE NewestInv'
  BY NewestQuiet, <1>15, ConflictEffect DEF Conflict
<1>16. ASSUME NEW m \in run[c].inbox, NoConflict(c, m) PROVE NewestInv'
  <2>1. /\ run[c].pc = "check" /\ UNCHANGED <<remote, now, local>>
        /\ ~Conflicting(m)
        /\ \A d \in Callers \ {c} : run'[d] = run[d]
    BY <1>16, NoConflictEffect DEF NoConflict, NoOverwrite
  <2>2. CASE run'[c].pc # "save" /\ run'[c].inbox \subseteq run[c].inbox
    BY NewestQuiet, <2>1, <2>2
  <2>3. CASE run'[c].rec = {m} /\ run'[c].inbox \subseteq run[c].inbox
    <3>1. m.ts <= remote[m.row].ts /\ local[m.row].ts <= m.ts
      <4>1. m.ts \in Nat /\ local[m.row].ts \in Nat
        BY <1>1 DEF Record, TypeOK
      <4>2. m.ts <= remote[m.row].ts BY DEF NewestInv, NewestCycle
      <4> QED BY <2>1, <4>1, <4>2 DEF Conflicting
    <3>2. NewestCycle(c)' BY <2>1, <2>3, <3>1 DEF NewestInv, NewestCycle
    <3> QED BY NewestMove, <2>1, <3>2
  <2> QED BY <1>16, <2>2, <2>3, NoConflictEffect
<1>17. CASE InboxDone(c)
  BY NewestQuiet, <1>17, InboxDoneEffect DEF InboxDone
<1>18. CASE SavePulled(c)
  BY NewestQuiet, <1>18, SavePulledEffect DEF SavePulled
<1>19. CASE UpsertFails(c)
  <2>1. UNCHANGED <<remote, now>> BY <1>19 DEF UpsertFails
  <2> QED BY NewestQuiet, <1>19, <2>1, UpsertFailsEffect
<1>20. CASE MarkPulled(c)
  BY NewestQuiet, <1>20, MarkPulledEffect DEF MarkPulled, MarkSynced
<1>21. CASE StampPulled(c)
  BY NewestQuiet, <1>21, StampPulledEffect DEF StampPulled
<1>22. CASE PulledStepFails(c)
  BY NewestQuiet, <1>22, PulledStepFailsEffect DEF PulledStepFails
<1>23. CASE Finish(c)
  BY NewestQuiet, <1>23, FinishEffect DEF Finish
<1>24. CASE CheckReachable(c)
  BY NewestQuiet, <1>24, CheckReachableEffect DEF CheckReachable
<1>25. CASE Release(c)
  BY NewestQuiet, <1>25, ReleaseEffect DEF Release
<1>26. CASE Cancel(c)
  <2>1. Grows \/ UNCHANGED <<remote, now>> BY <1>1, <1>26, UpsertGrows DEF Cancel
  <2> QED BY NewestQuiet, <1>26, <2>1, CancelEffect
<1>27. ASSUME NEW op \in {"sync", "push", "pull"}, Acquire(c, op) PROVE NewestInv'
  BY NewestQuiet, <1>27, AcquireEffect DEF Acquire
<1> QED
  BY <1>2, <1>3, <1>4, <1>5, <1>6, <1>7, <1>8, <1>9, <1>10, <1>11, <1>12, <1>13, <1>14,
     <1>15, <1>16, <1>17, <1>18, <1>19, <1>20, <1>21, <1>22, <1>23, <1>24, <1>25, <1>26,
     <1>27 DEF CycleStep, PushStep, PullStep, Start

\* What NewestWins says of a step.
WinsNewest ==
    \A r \in Rows : local'[r].ver \notin {local[r].ver, now + 1}
                      => local[r].ts <= remote[r].ts

LEMMA VersionsStay ==
    ASSUME TypeOK, NEW c \in Callers, CycleStep(c) \/ Cancel(c) \/ Start(c), ~SavePulled(c)
    PROVE  \A r \in Rows : local'[r].ver = local[r].ver
<1>1. CASE MarkPushed(c) \/ MarkPulled(c)
  BY <1>1, MarkSyncedEffect DEF MarkPushed, MarkPulled
<1>2. CASE StampPulled(c)
  <2>1. PICK m \in run[c].rec : local' = [local EXCEPT ![m.row].ts = m.ts]
    BY <1>2 DEF StampPulled
  <2> QED BY <2>1 DEF TypeOK
<1>3. CASE ~(MarkPushed(c) \/ MarkPulled(c) \/ StampPulled(c))
  <2>1. CASE PushStep(c)
    BY <1>3, <2>1 DEF PushStep, Snapshot, SnapshotFails, ReadRecord, ReadRecordFails,
       PushDone, PushOk, PushFail, MarkPushedFails, LocalUnchanged
  <2>2. CASE PullStep(c)
    BY <1>3, <2>2 DEF PullStep, BeginPull, Query, QueryFails, QueriesDone, Conflict,
       NoConflict, InboxDone, UpsertFails, PulledStepFails, Finish, LocalUnchanged
  <2>3. CASE CheckReachable(c) \/ Release(c) \/ Cancel(c) \/ Start(c)
    BY <2>3 DEF CheckReachable, Release, Cancel, Start, Acquire, LocalUnchanged
  <2> QED BY <2>1, <2>2, <2>3 DEF CycleStep
<1> QED BY <1>1, <1>2, <1>3

LEMMA NewestAction ==
    ASSUME TypeOK, NewestInv, [Next]_vars
    PROVE  WinsNewest
<1>1. ASSUME NEW c \in Callers, SavePulled(c) PROVE WinsNewest
  <2>1. PICK m \in run[c].rec :
          local' = [local EXCEPT ![m.row] = [ver |-> m.ver, ts |-> now, dirty |-> TRUE]]
    BY <1>1 DEF SavePulled
  <2>2. /\ m.row \in Rows /\ m.ts \in Nat
        /\ m.ts <= remote[m.row].ts /\ local[m.row].ts <= m.ts
    BY <1>1, SavePulledEffect, CycleFields DEF NewestInv, NewestCycle, Record
  <2>3. local[m.row].ts \in Nat /\ remote[m.row].ts \in Nat BY <2>2 DEF TypeOK
  <2>4. \A r \in Rows \ {m.row} : local'[r] = local[r] BY <2>1, <2>2 DEF TypeOK
  <2> QED BY <2>2, <2>3, <2>4 DEF WinsNewest
<1>2. ASSUME NEW c \in Callers, CycleStep(c) \/ Cancel(c) \/ Start(c), ~SavePulled(c)
      PROVE  WinsNewest
  BY <1>2, VersionsStay DEF WinsNewest
<1>3. ASSUME NEW r \in Rows, LocalSave(r) PROVE WinsNewest
  BY <1>3 DEF LocalSave, WinsNewest, TypeOK
<1>4. CASE Disconnect \/ Reconnect \/ Crash \/ (\E r \in Rows : RemoteWrite(r))
           \/ UNCHANGED vars
  BY <1>4 DEF Disconnect, Reconnect, Crash, RemoteWrite, vars, WinsNewest
<1> QED BY <1>1, <1>2, <1>3, <1>4 DEF Next, Environment

\* Where nothing is saved inside an upsert and every stamp can be read, a pull
\* never replaces a local version by one stamped earlier, whatever else fails.
THEOREM PullsKeepNewer ==
    ASSUME NoOverwrite PROVE Spec => NewestWins
<1>1. Init => NewestInv
  BY DEF Init, NewestInv, NewestCycle, Idle
<1>2. TypeOK /\ MutualExclusion /\ NewestInv /\ [Next]_vars => NewestInv'
  BY NewestEnvironment, NewestStep DEF Next, NewestInv, NewestCycle, vars
<1>3. TypeOK /\ NewestInv /\ [Next]_vars => [WinsNewest]_vars
  BY NewestAction
<1> QED BY <1>1, <1>2, <1>3, TypeCorrect, OneCycleAtATime, PTL
        DEF Spec, NewestWins, WinsNewest
=============================================================================
