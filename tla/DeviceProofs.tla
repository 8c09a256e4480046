---------------------------- MODULE DeviceProofs ----------------------------
(***************************************************************************)
(* Proofs about Device, for any records, numbers, threads and handles, any *)
(* mixes of calls and risks, and every bound: transactions do not mix,     *)
(* what was saved is there, the change log knows what is pending, the log  *)
(* of conflicts has both versions, and the manager's flag is right.        *)
(***************************************************************************)
EXTENDS Device, Facts

-----------------------------------------------------------------------------
(* What the statements leave.                                              *)

\* Two tables with the same contents, whatever is dirty.
SameContent(d, u) ==
    \A e \in Entity : d.rows[e].ver = u.rows[e].ver /\ d.rows[e].num = u.rows[e].num

\* The change log knows that a record is to be pushed.
Pends(d, e) == \E c \in d.changes : c.of = e /\ ~c.synced

\* Nothing about a record that is of consequence for its push is lost.
KeepsPending(d, u, e) == Pends(d, e) => Pends(u, e)

LEMMA DbFields ==
    ASSUME NEW d \in Db
    PROVE  /\ d.rows \in [Entity -> Row] /\ d.changes \in SUBSET Change
           /\ d.log \in Seq(Conflict) /\ d.nextChange \in Nat
           /\ d.rowid \in [Kinds -> Nat] /\ d.pending \in Nat
           /\ \A e \in Entity : /\ d.rows[e] \in Row /\ d.rows[e].ver \in Nat
                                /\ d.rows[e].num \in Number
                                /\ d.rows[e].dirty \in BOOLEAN
BY DEF Db, Row

LEMMA SameRow ==
    ASSUME NEW r \in Row, NEW s \in Row, r.ver = s.ver, r.num = s.num, r.dirty = s.dirty
    PROVE  r = s
BY DEF Row

\* Tables whose rows are replaced.
LEMMA RowsReplaced ==
    ASSUME NEW d \in Db, NEW rows \in [Entity -> Row]
    PROVE  /\ [d EXCEPT !.rows = rows] \in Db
           /\ [d EXCEPT !.rows = rows].rows = rows
           /\ [d EXCEPT !.rows = rows].changes = d.changes
           /\ [d EXCEPT !.rows = rows].log = d.log
BY DEF Db

LEMMA CleanedIs ==
    ASSUME db \in Db, NEW e \in Entity
    PROVE  /\ Cleaned(e) \in Db
           /\ SameContent(db, Cleaned(e))
           /\ \A o \in Entity : Cleaned(e).rows[o].dirty <=> o # e /\ Dirty(o)
           /\ Cleaned(e).changes = db.changes
           /\ Cleaned(e).log = db.log
<1> DEFINE rows == [db.rows EXCEPT ![e] = [db.rows[e] EXCEPT !.dirty = FALSE]]
<1>1. rows \in [Entity -> Row]
    BY DbFields DEF Row
<1>2. Cleaned(e) = [db EXCEPT !.rows = rows]
    BY DbFields DEF Cleaned
<1>3. \A o \in Entity : /\ rows[o].ver = db.rows[o].ver /\ rows[o].num = db.rows[o].num
                        /\ rows[o].dirty <=> o # e /\ db.rows[o].dirty
    BY DbFields DEF Row
<1> HIDE DEF rows
<1> QED
    BY <1>1, <1>2, <1>3, RowsReplaced DEF SameContent, Dirty

LEMMA ChangesReplaced ==
    ASSUME NEW d \in Db, NEW changes \in SUBSET Change
    PROVE  /\ [d EXCEPT !.changes = changes] \in Db
           /\ [d EXCEPT !.changes = changes].changes = changes
           /\ [d EXCEPT !.changes = changes].rows = d.rows
           /\ [d EXCEPT !.changes = changes].log = d.log
BY DEF Db

LEMMA ChangesSyncedIs ==
    ASSUME db \in Db, NEW e \in Entity
    PROVE  /\ ChangesSynced(e) \in Db
           /\ ChangesSynced(e).rows = db.rows
           /\ \A o \in Entity \ {e} : KeepsPending(db, ChangesSynced(e), o)
           /\ ChangesSynced(e).log = db.log
<1> DEFINE changes == {IF c.of = e THEN [c EXCEPT !.synced = TRUE] ELSE c : c \in db.changes}
<1>1. changes \in SUBSET Change
    BY DbFields DEF Change
<1>2. ChangesSynced(e) = [db EXCEPT !.changes = changes]
    BY DEF ChangesSynced
<1>3. \A c \in db.changes : c.of # e => c \in changes
    OBVIOUS
<1> HIDE DEF changes
<1> QED
    BY <1>1, <1>2, <1>3, ChangesReplaced DEF KeepsPending, Pends

LEMMA AllSyncedIs ==
    ASSUME db \in Db
    PROVE  /\ AllSynced \in Db
           /\ SameContent(db, AllSynced)
           /\ \A o \in Entity : ~AllSynced.rows[o].dirty
           /\ AllSynced.log = db.log
<1> DEFINE rows == [e \in Entity |-> [db.rows[e] EXCEPT !.dirty = FALSE]]
<1>1. rows \in [Entity -> Row]
    BY DbFields DEF Row
<1>2. \A o \in Entity : /\ rows[o].ver = db.rows[o].ver /\ rows[o].num = db.rows[o].num
                        /\ ~rows[o].dirty
    BY DbFields DEF Row
<1> HIDE DEF rows
<1>3. AllSynced = [db EXCEPT !.rows = rows, !.changes = {}, !.pending = 0]
    BY DEF AllSynced, rows
<1>4. AllSynced \in Db /\ AllSynced.rows = rows /\ AllSynced.log = db.log
    BY <1>1, <1>3 DEF Db
<1> QED
    BY <1>2, <1>4 DEF SameContent

LEMMA SyncedClearedIs ==
    ASSUME db \in Db
    PROVE  /\ SyncedCleared \in Db
           /\ SyncedCleared.rows = db.rows
           /\ \A o \in Entity : KeepsPending(db, SyncedCleared, o)
           /\ SyncedCleared.log = db.log
<1> DEFINE changes == {c \in db.changes : ~c.synced}
<1>1. changes \in SUBSET Change
    BY DbFields
<1>2. SyncedCleared = [db EXCEPT !.changes = changes]
    BY DEF SyncedCleared
<1> QED
    BY <1>1, <1>2, ChangesReplaced DEF KeepsPending, Pends

LEMMA PendingWrittenIs ==
    ASSUME db \in Db, NEW n \in Nat
    PROVE  /\ PendingWritten(n) \in Db
           /\ PendingWritten(n).rows = db.rows
           /\ PendingWritten(n).changes = db.changes
           /\ PendingWritten(n).log = db.log
BY DEF PendingWritten, Db

LEMMA RecordedIs ==
    ASSUME db \in Db, NEW e \in Entity, NEW operation \in Operation
    PROVE  /\ Recorded(e, operation) \in Db
           /\ Recorded(e, operation).rows = db.rows
           /\ \A o \in Entity : KeepsPending(db, Recorded(e, operation), o)
           /\ Pends(Recorded(e, operation), e)
           /\ Recorded(e, operation).log = db.log
<1> DEFINE new == [id |-> db.nextChange, of |-> e, op |-> operation, synced |-> FALSE]
           changes == db.changes \cup {new}
           next == db.nextChange + 1
<1>1. new \in Change /\ new.of = e /\ ~new.synced
    BY DbFields DEF Change
<1>2. changes \in SUBSET Change /\ next \in Nat
    <2> HIDE DEF new
    <2>1. db.changes \in SUBSET Change /\ db.nextChange \in Nat
        BY DbFields
    <2> QED
        BY <1>1, <2>1
<1>3. Recorded(e, operation) = [db EXCEPT !.changes = changes, !.nextChange = next]
    BY DEF Recorded
<1>4. new \in changes /\ db.changes \subseteq changes
    OBVIOUS
<1> HIDE DEF new, changes, next
<1>5. /\ Recorded(e, operation) \in Db
      /\ Recorded(e, operation).rows = db.rows
      /\ Recorded(e, operation).changes = changes
      /\ Recorded(e, operation).log = db.log
    BY <1>2, <1>3 DEF Db
<1> QED
    BY <1>1, <1>4, <1>5 DEF KeepsPending, Pends

LEMMA ReplacedIs ==
    ASSUME db \in Db, NEW e \in Entity, NEW n \in Number, NEW ver \in Nat
    PROVE  /\ Replaced(e, n, ver) \in Db
           /\ Replaced(e, n, ver).rows[e] = [ver |-> ver, num |-> n, dirty |-> TRUE]
           /\ \A o \in Displaced(e, n) : /\ Replaced(e, n, ver).rows[o].ver = 0
                                         /\ ~Replaced(e, n, ver).rows[o].dirty
           /\ \A o \in Entity \ {e} : o \notin Displaced(e, n) =>
                    Replaced(e, n, ver).rows[o] = db.rows[o]
           /\ Replaced(e, n, ver).changes = db.changes
           /\ Replaced(e, n, ver).log = db.log
<1> DEFINE rows == [o \in Entity |->
                         IF o = e
                           THEN [ver |-> ver, num |-> n, dirty |-> TRUE]
                           ELSE IF o \in Displaced(e, n)
                                  THEN [db.rows[o] EXCEPT !.ver = 0, !.dirty = FALSE]
                                  ELSE db.rows[o]]
<1>1. \A o \in Entity : [db.rows[o] EXCEPT !.ver = 0, !.dirty = FALSE] \in Row
    BY DbFields DEF Row
<1>2. rows \in [Entity -> Row]
    BY <1>1, DbFields DEF Row
<1>3. Displaced(e, n) \subseteq Entity \ {e}
    BY DEF Displaced
<1>4. /\ rows[e] = [ver |-> ver, num |-> n, dirty |-> TRUE]
      /\ \A o \in Displaced(e, n) : rows[o] = [db.rows[o] EXCEPT !.ver = 0, !.dirty = FALSE]
      /\ \A o \in Entity \ {e} : o \notin Displaced(e, n) => rows[o] = db.rows[o]
    BY <1>3
<1>5. \A o \in Displaced(e, n) : rows[o].ver = 0 /\ ~rows[o].dirty
    <2> SUFFICES ASSUME NEW o \in Displaced(e, n)
                 PROVE  rows[o].ver = 0 /\ ~rows[o].dirty
        OBVIOUS
    <2>1. PICK old \in Row : old = db.rows[o]
        BY <1>3, DbFields
    <2>2. [old EXCEPT !.ver = 0, !.dirty = FALSE].ver = 0
          /\ [old EXCEPT !.ver = 0, !.dirty = FALSE].dirty = FALSE
        BY <2>1 DEF Row
    <2>3. rows[o] = [old EXCEPT !.ver = 0, !.dirty = FALSE]
        BY <1>4, <2>1
    <2> QED
        BY <2>2, <2>3
<1> HIDE DEF rows
<1>6. PICK ids : ids \in [Kinds -> Nat] /\ ids = [db.rowid EXCEPT ![KindOf[e]] = @ + 1]
    <2>1. db.rowid \in [Kinds -> Nat]
        BY DbFields
    <2>2. [db.rowid EXCEPT ![KindOf[e]] = @ + 1] \in [Kinds -> Nat]
        <3>1. PICK k \in Kinds : k = KindOf[e]
            BY LocalStoreAssumption
        <3>2. PICK id \in [Kinds -> Nat] : id = db.rowid
            BY <2>1
        <3>3. id[k] + 1 \in Nat
            OBVIOUS
        <3>4. [id EXCEPT ![k] = id[k] + 1] \in [Kinds -> Nat]
            BY <3>3
        <3> QED
            BY <3>1, <3>2, <3>4
    <2> QED
        BY <2>2
<1>7. Replaced(e, n, ver) = [db EXCEPT !.rows = rows, !.rowid = ids]
    BY <1>6 DEF Replaced, rows
<1>8. /\ Replaced(e, n, ver) \in Db
      /\ Replaced(e, n, ver).rows = rows
      /\ Replaced(e, n, ver).changes = db.changes
      /\ Replaced(e, n, ver).log = db.log
    <2>1. ids \in [Kinds -> Nat]
        BY <1>6
    <2> QED
        BY <1>2, <1>7, <2>1 DEF Db
<1> QED
    BY <1>4, <1>5, <1>8

LEMMA SoftDeletedIs ==
    ASSUME db \in Db, NEW e \in Entity, NEW ver \in Nat
    PROVE  /\ SoftDeleted(e, ver) \in Db
           /\ SoftDeleted(e, ver).rows[e] = [ver |-> ver, num |-> db.rows[e].num, dirty |-> TRUE]
           /\ \A o \in Entity \ {e} : SoftDeleted(e, ver).rows[o] = db.rows[o]
           /\ SoftDeleted(e, ver).changes = db.changes
           /\ SoftDeleted(e, ver).log = db.log
<1> DEFINE row == [ver |-> ver, num |-> db.rows[e].num, dirty |-> TRUE]
           rows == [db.rows EXCEPT ![e] = row]
<1>1. row \in Row
    BY DbFields DEF Row
<1>2. rows \in [Entity -> Row] /\ rows[e] = row
      /\ \A o \in Entity \ {e} : rows[o] = db.rows[o]
    BY <1>1, DbFields
<1>3. row = [[db.rows[e] EXCEPT !.ver = ver] EXCEPT !.dirty = TRUE]
    <2>1. PICK old \in Row : old = db.rows[e]
        BY DbFields
    <2>2. PICK new : new = [[old EXCEPT !.ver = ver] EXCEPT !.dirty = TRUE]
        OBVIOUS
    <2>3. new \in Row /\ new.ver = ver /\ new.num = old.num /\ new.dirty = TRUE
        BY <2>2 DEF Row
    <2>4. row.ver = ver /\ row.num = old.num /\ row.dirty = TRUE
        BY <2>1
    <2> HIDE DEF row
    <2>5. row = new
        BY <1>1, <2>3, <2>4, SameRow
    <2> QED
        BY <2>1, <2>2, <2>5
<1>4. SoftDeleted(e, ver) = [db EXCEPT !.rows = rows]
    <2>1. rows = [[db.rows EXCEPT ![e].ver = ver] EXCEPT ![e].dirty = TRUE]
        BY <1>3, DbFields
    <2> QED
        BY <2>1 DEF SoftDeleted
<1> HIDE DEF rows
<1> QED
    BY <1>2, <1>4, RowsReplaced

LEMMA RawAppliedIs ==
    ASSUME db \in Db, NEW e \in Entity, NEW ver \in Nat
    PROVE  /\ RawApplied(e, ver) \in Db
           /\ Here(e) => RawApplied(e, ver).rows[e].ver = ver
           /\ ~Here(e) => RawApplied(e, ver) = db
           /\ \A o \in Entity : /\ RawApplied(e, ver).rows[o].num = db.rows[o].num
                                /\ RawApplied(e, ver).rows[o].dirty = db.rows[o].dirty
           /\ \A o \in Entity \ {e} : RawApplied(e, ver).rows[o] = db.rows[o]
           /\ RawApplied(e, ver).changes = db.changes
           /\ RawApplied(e, ver).log = db.log
<1> DEFINE row == [db.rows[e] EXCEPT !.ver = ver]
           rows == [db.rows EXCEPT ![e] = row]
<1>1. row \in Row /\ row.ver = ver /\ row.num = db.rows[e].num /\ row.dirty = db.rows[e].dirty
    BY DbFields DEF Row
<1> HIDE DEF row
<1>2. rows \in [Entity -> Row] /\ rows[e] = row
      /\ \A o \in Entity \ {e} : rows[o] = db.rows[o]
    BY <1>1, DbFields
<1>3. Here(e) => RawApplied(e, ver) = [db EXCEPT !.rows = rows]
    BY DbFields DEF RawApplied, row
<1>4. ~Here(e) => RawApplied(e, ver) = db
    BY DEF RawApplied
<1> HIDE DEF rows
<1>5. CASE Here(e)
    <2>1. /\ RawApplied(e, ver) \in Db /\ RawApplied(e, ver).rows = rows
          /\ RawApplied(e, ver).changes = db.changes /\ RawApplied(e, ver).log = db.log
        <3>1. RawApplied(e, ver) = [db EXCEPT !.rows = rows]
            BY <1>3, <1>5
        <3>2. rows \in [Entity -> Row]
            BY <1>2
        <3> QED
            BY <3>1, <3>2, RowsReplaced
    <2>2. \A o \in Entity : rows[o].num = db.rows[o].num /\ rows[o].dirty = db.rows[o].dirty
        BY <1>1, <1>2
    <2> QED
        BY <1>1, <1>2, <1>5, <2>1, <2>2
<1>6. CASE ~Here(e)
    BY <1>4, <1>6
<1> QED
    BY <1>5, <1>6

-----------------------------------------------------------------------------
(* What the statements leave in the log of conflicts.                      *)

LEMMA LogReplaced ==
    ASSUME NEW d \in Db, NEW log \in Seq(Conflict)
    PROVE  /\ [d EXCEPT !.log = log] \in Db
           /\ [d EXCEPT !.log = log].log = log
           /\ [d EXCEPT !.log = log].rows = d.rows
           /\ [d EXCEPT !.log = log].changes = d.changes
BY DEF Db

LEMMA EntryFields ==
    ASSUME db \in Db, NEW i \in DOMAIN db.log
    PROVE  /\ i \in 1..Len(db.log)
           /\ i \in Nat
           /\ db.log[i] \in Conflict /\ db.log[i].of \in Entity
           /\ db.log[i].local \in Nat /\ db.log[i].remote \in Nat
           /\ db.log[i].won \in Nat /\ db.log[i].lost \in Nat
<1>1. db.log \in Seq(Conflict) /\ i \in 1..Len(db.log) /\ i \in Nat
    BY DbFields
<1>2. db.log[i] \in Conflict
    BY <1>1, ElementOfSeq
<1> QED
    BY <1>1, <1>2 DEF Conflict

\* An entry that is written anew.
LEMMA EntryReplaced ==
    ASSUME db \in Db, NEW i \in DOMAIN db.log, NEW entry \in Conflict
    PROVE  /\ [db.log EXCEPT ![i] = entry] \in Seq(Conflict)
           /\ DOMAIN [db.log EXCEPT ![i] = entry] = DOMAIN db.log
           /\ [db.log EXCEPT ![i] = entry][i] = entry
           /\ \A j \in DOMAIN db.log \ {i} : [db.log EXCEPT ![i] = entry][j] = db.log[j]
<1>1. db.log \in Seq(Conflict) /\ i \in 1..Len(db.log)
    BY DbFields
<1> QED
    BY <1>1, ExceptSeq

LEMMA ResetIs ==
    ASSUME db \in Db, NEW i \in DOMAIN db.log, NEW local \in Nat, NEW remote \in Nat
    PROVE  /\ Reset(i, local, remote) \in Db
           /\ Reset(i, local, remote).rows = db.rows
           /\ Reset(i, local, remote).changes = db.changes
           /\ DOMAIN Reset(i, local, remote).log = DOMAIN db.log
           /\ Reset(i, local, remote).log[i] = Unresolved(db.log[i].of, local, remote)
           /\ \A j \in DOMAIN db.log \ {i} : Reset(i, local, remote).log[j] = db.log[j]
<1>1. PICK entry \in Conflict : entry = Unresolved(db.log[i].of, local, remote)
    BY EntryFields DEF Unresolved, Conflict
<1>2. PICK log : log = [db.log EXCEPT ![i] = entry]
    OBVIOUS
<1>3. /\ log \in Seq(Conflict) /\ DOMAIN log = DOMAIN db.log /\ log[i] = entry
      /\ \A j \in DOMAIN db.log \ {i} : log[j] = db.log[j]
    BY <1>2, EntryReplaced
<1>4. Reset(i, local, remote) = [db EXCEPT !.log = log]
    BY <1>1, <1>2 DEF Reset
<1> QED
    BY <1>1, <1>3, <1>4, LogReplaced

LEMMA LoggedIs ==
    ASSUME db \in Db, NEW e \in Entity, NEW local \in Nat, NEW remote \in Nat
    PROVE  /\ Logged(e, local, remote) \in Db
           /\ Logged(e, local, remote).rows = db.rows
           /\ Logged(e, local, remote).changes = db.changes
           /\ DOMAIN Logged(e, local, remote).log = DOMAIN db.log \cup {Len(db.log) + 1}
           /\ Len(db.log) + 1 \in Nat /\ Len(db.log) + 1 \notin DOMAIN db.log
           /\ Logged(e, local, remote).log[Len(db.log) + 1] = Unresolved(e, local, remote)
           /\ \A j \in DOMAIN db.log : Logged(e, local, remote).log[j] = db.log[j]
<1>1. PICK entry \in Conflict : entry = Unresolved(e, local, remote)
    BY DEF Unresolved, Conflict
<1>2. db.log \in Seq(Conflict)
    BY DbFields
<1>3. PICK log : log = Append(db.log, entry)
    OBVIOUS
<1>4. /\ log \in Seq(Conflict) /\ Len(log) = Len(db.log) + 1 /\ log[Len(db.log) + 1] = entry
      /\ \A j \in 1..Len(db.log) : log[j] = db.log[j]
    BY <1>2, <1>3, AppendProperties
<1>5. /\ DOMAIN log = DOMAIN db.log \cup {Len(db.log) + 1}
      /\ DOMAIN db.log = 1..Len(db.log) /\ Len(db.log) \in Nat
    <2>1. DOMAIN db.log = 1..Len(db.log) /\ Len(db.log) \in Nat
        BY <1>2
    <2>2. DOMAIN log = 1..(Len(db.log) + 1)
        BY <1>4
    <2> QED
        BY <2>1, <2>2
<1>6. Logged(e, local, remote) = [db EXCEPT !.log = log]
    BY <1>1, <1>3 DEF Logged
<1>7. Len(db.log) + 1 \in Nat /\ Len(db.log) + 1 \notin DOMAIN db.log
    BY <1>5
<1> QED
    BY <1>1, <1>4, <1>5, <1>6, <1>7, LogReplaced

LEMMA ResolvedIs ==
    ASSUME db \in Db, NEW i \in Nat, NEW won \in Nat, NEW lost \in Nat
    PROVE  /\ ResolvedAs(i, won, lost) \in Db
           /\ ResolvedAs(i, won, lost).rows = db.rows
           /\ ResolvedAs(i, won, lost).changes = db.changes
           /\ DOMAIN ResolvedAs(i, won, lost).log = DOMAIN db.log
           /\ \A j \in DOMAIN db.log :
                /\ ResolvedAs(i, won, lost).log[j].of = db.log[j].of
                /\ ResolvedAs(i, won, lost).log[j].local = db.log[j].local
                /\ ResolvedAs(i, won, lost).log[j].remote = db.log[j].remote
                /\ j # i => ResolvedAs(i, won, lost).log[j] = db.log[j]
                /\ j = i => /\ ResolvedAs(i, won, lost).log[j].won = won
                            /\ ResolvedAs(i, won, lost).log[j].lost = lost
<1>1. CASE i \notin DOMAIN db.log
    BY <1>1 DEF ResolvedAs
<1>2. CASE i \in DOMAIN db.log
    <2>1. PICK entry : entry = [[db.log[i] EXCEPT !.won = won] EXCEPT !.lost = lost]
        OBVIOUS
    <2>2. /\ entry \in Conflict /\ entry.of = db.log[i].of /\ entry.local = db.log[i].local
          /\ entry.remote = db.log[i].remote /\ entry.won = won /\ entry.lost = lost
        BY <1>2, <2>1, EntryFields DEF Conflict
    <2>3. PICK log : log = [db.log EXCEPT ![i] = entry]
        OBVIOUS
    <2>4. /\ log \in Seq(Conflict) /\ DOMAIN log = DOMAIN db.log /\ log[i] = entry
          /\ \A j \in DOMAIN db.log \ {i} : log[j] = db.log[j]
        BY <1>2, <2>2, <2>3, EntryReplaced
    <2>5. log = [[db.log EXCEPT ![i].won = won] EXCEPT ![i].lost = lost]
        BY <1>2, <2>1, <2>3
    <2>6. ResolvedAs(i, won, lost) = [db EXCEPT !.log = log]
        BY <1>2, <2>5 DEF ResolvedAs
    <2> QED
        BY <2>2, <2>4, <2>6, LogReplaced
<1> QED
    BY <1>1, <1>2

\* The latest of the entries of a record is one of them.
LEMMA LatestIs ==
    ASSUME db \in Db, NEW e, EntriesOf(e) # {}
    PROVE  LatestOf(e) \in EntriesOf(e)
<1> DEFINE before == {Len(db.log) - i : i \in EntriesOf(e)}
<1>1. Len(db.log) \in Nat /\ \A i \in EntriesOf(e) : i \in 1..Len(db.log)
    BY DbFields DEF EntriesOf
<1>2. before \in SUBSET Nat /\ before # {}
    BY <1>1
<1>3. PICK m \in before : \A n \in before : m <= n
    BY <1>2, LeastElement
<1>4. PICK i \in EntriesOf(e) : m = Len(db.log) - i
    BY <1>3
<1>5. ASSUME NEW j \in EntriesOf(e)
      PROVE  j <= i
    <2>1. Len(db.log) - j \in before
        BY <1>5
    <2>2. m <= Len(db.log) - j
        BY <1>3, <2>1
    <2> QED
        BY <1>1, <1>4, <2>2
<1> QED
    BY <1>5 DEF LatestOf

-----------------------------------------------------------------------------
(* Types.                                                                  *)

StoreTypeOK ==
    /\ db \in Db
    /\ undo \in Db \cup {NoDb}
    /\ lastId \in Nat
    /\ mix \in Mixes
    /\ call \in [Thread -> Call]
    /\ calls \in 0 .. mix.most
    /\ faults \in 0 .. MaxFaults
    /\ clock \in Nat
    /\ saved \in [Entity -> Nat]

\* The other threads' calls stay where they are.
Alone(t) == \A u \in Thread \ {t} : call'[u] = call[u]

\* What a call has at hand besides its entry of the log of conflicts.
SameCall(c, d) ==
    c.e = d.e /\ c.num = d.num /\ c.ver = d.ver /\ c.op = d.op /\ c.then = d.then
    /\ c.local = d.local /\ c.remote = d.remote /\ c.winner = d.winner /\ c.n = d.n

LEMMA CallFields ==
    ASSUME NEW c \in Call
    PROVE  /\ c.at \in Positions /\ c.e \in Entity /\ c.num \in Number /\ c.ver \in Nat
           /\ c.op \in Operation /\ c.then \in BOOLEAN /\ c.local \in Nat
           /\ c.remote \in Nat /\ c.id \in Nat /\ c.won \in Nat /\ c.winner \in Winner
           /\ c.n \in Nat
BY DEF Call

LEMMA RestIs ==
    ASSUME NEW e \in Entity, NEW n \in Number
    PROVE  /\ Rest(e, n) \in Call
           /\ Rest(e, n).at = "idle" /\ Rest(e, n).e = e /\ Rest(e, n).num = n
           /\ Rest(e, n).then = FALSE
BY DEF Rest, Call, Positions, Operation, Winner

LEMMA IdleIs ==
    /\ Idle \in Call /\ Idle.at = "idle" /\ Idle.then = FALSE
    /\ Idle.num \in Number
<1>1. (CHOOSE e \in Entity : TRUE) \in Entity /\ (CHOOSE n \in Number : TRUE) \in Number
    BY LocalStoreAssumption
<1> QED
    BY <1>1, RestIs, CallFields DEF Idle

LEMMA BecomesIs ==
    ASSUME StoreTypeOK, NEW t \in Thread, NEW c \in Call, Becomes(t, c)
    PROVE  call' \in [Thread -> Call] /\ call'[t] = c /\ Alone(t)
BY DEF StoreTypeOK, Becomes, Alone

LEMMA GotoIs ==
    ASSUME StoreTypeOK, NEW t \in Thread, NEW p \in Positions, Goto(t, p)
    PROVE  /\ call' \in [Thread -> Call] /\ Alone(t)
           /\ call'[t].at = p /\ call'[t].id = call[t].id /\ SameCall(call'[t], call[t])
<1>1. call[t] \in Call
    BY DEF StoreTypeOK
<1>2. PICK c : c = [call[t] EXCEPT !.at = p]
    OBVIOUS
<1>3. c \in Call /\ c.at = p /\ c.id = call[t].id /\ SameCall(c, call[t])
    BY <1>1, <1>2 DEF Call, SameCall
<1> QED
    BY <1>2, <1>3, BecomesIs DEF Goto

LEMMA ReturnIs ==
    ASSUME StoreTypeOK, NEW t \in Thread, Return(t)
    PROVE  /\ call' \in [Thread -> Call] /\ Alone(t)
           /\ call'[t] = Idle /\ call'[t].at = "idle" /\ call'[t].then = FALSE
BY IdleIs, BecomesIs DEF Return

\* The calls that more than their positions change in.

LEMMA SaveIs ==
    ASSUME StoreTypeOK, NEW t \in Thread, NEW e \in Entity, NEW n \in Number, Save(t, e, n)
    PROVE  /\ call' \in [Thread -> Call] /\ Alone(t)
           /\ call'[t].at = IF KindOf[e] \in Numbered THEN "number" ELSE "exists"
           /\ call'[t].e = e /\ call'[t].num = n /\ call'[t].then = FALSE
<1> DEFINE p == IF KindOf[e] \in Numbered THEN "number" ELSE "exists"
<1>1. clock + 1 \in Nat /\ p \in Positions
    BY DEF StoreTypeOK, Positions
<1> HIDE DEF p
<1>2. PICK c : c = [Rest(e, n) EXCEPT !.at = p, !.ver = clock + 1]
    OBVIOUS
<1>3. c \in Call /\ c.at = p /\ c.e = e /\ c.num = n /\ c.then = FALSE
    <2>1. PICK r \in Call : /\ r = Rest(e, n) /\ r.e = e
                              /\ r.num = n /\ r.then = FALSE
        BY RestIs
    <2> QED
        BY <1>1, <1>2, <2>1 DEF Call
<1>4. Becomes(t, c)
    BY <1>2 DEF Save, p
<1> QED
    BY <1>3, <1>4, BecomesIs DEF p

LEMMA DeleteIs ==
    ASSUME StoreTypeOK, NEW t \in Thread, NEW e \in Entity, Delete(t, e)
    PROVE  /\ call' \in [Thread -> Call] /\ Alone(t)
           /\ call'[t].at = "delete" /\ call'[t].e = e /\ call'[t].then = FALSE
<1>1. clock + 1 \in Nat /\ "delete" \in Positions /\ "delete" \in Operation
    BY DEF StoreTypeOK, Positions, Operation
<1>2. PICK c : c = [Rest(e, Idle.num) EXCEPT !.at = "delete", !.ver = clock + 1, !.op = "delete"]
    OBVIOUS
<1>3. c \in Call /\ c.at = "delete" /\ c.e = e /\ c.then = FALSE
    <2>1. PICK r \in Call : /\ r = Rest(e, Idle.num) /\ r.e = e
                              /\ r.num = Idle.num /\ r.then = FALSE
        BY RestIs, IdleIs
    <2> QED
        BY <1>1, <1>2, <2>1 DEF Call
<1>4. Becomes(t, c)
    BY <1>2 DEF Delete
<1> QED
    BY <1>3, <1>4, BecomesIs

LEMMA MarkSyncedIs ==
    ASSUME StoreTypeOK, NEW t \in Thread, NEW e \in Entity, MarkSynced(t, e)
    PROVE  /\ call' \in [Thread -> Call] /\ Alone(t)
           /\ call'[t].at = "begin" /\ call'[t].e = e /\ call'[t].then = FALSE
<1>1. PICK c : c = [Rest(e, Idle.num) EXCEPT !.at = "begin"]
    OBVIOUS
<1>2. c \in Call /\ c.at = "begin" /\ c.e = e /\ c.then = FALSE
    <2>1. PICK r \in Call : /\ r = Rest(e, Idle.num) /\ r.e = e
                              /\ r.num = Idle.num /\ r.then = FALSE
        BY RestIs, IdleIs
    <2> QED
        BY <1>1, <2>1 DEF Call, Positions
<1>3. Becomes(t, c)
    BY <1>1 DEF MarkSynced
<1> QED
    BY <1>2, <1>3, BecomesIs

LEMMA ReportIs ==
    ASSUME StoreTypeOK, NEW t \in Thread, NEW e \in Entity, ReportConflict(t, e)
    PROVE  /\ call' \in [Thread -> Call] /\ Alone(t)
           /\ call'[t].at = "look" /\ call'[t].e = e /\ call'[t].then = FALSE
           /\ call'[t].local = db.rows[e].ver
<1>1. /\ clock + 1 \in Nat /\ "look" \in Positions
      /\ db.rows[e].ver \in Nat /\ db.rows[e].num \in Number
    BY DbFields DEF StoreTypeOK, Positions
<1>2. PICK c : c = [Rest(e, db.rows[e].num) EXCEPT
                      !.at = "look", !.local = db.rows[e].ver, !.remote = clock + 1]
    OBVIOUS
<1>3. c \in Call /\ c.at = "look" /\ c.e = e /\ c.then = FALSE /\ c.local = db.rows[e].ver
    <2>1. PICK r \in Call : /\ r = Rest(e, db.rows[e].num) /\ r.e = e
                              /\ r.num = db.rows[e].num /\ r.then = FALSE
        BY <1>1, RestIs
    <2> QED
        BY <1>1, <1>2, <2>1 DEF Call
<1>4. Becomes(t, c)
    BY <1>2 DEF ReportConflict
<1> QED
    BY <1>3, <1>4, BecomesIs

LEMMA ManualIs ==
    ASSUME StoreTypeOK, NEW t \in Thread, NEW id \in DOMAIN db.log, NEW w \in Winner,
           ResolveManually(t, id, w)
    PROVE  /\ call' \in [Thread -> Call] /\ Alone(t)
           /\ call'[t].at = "entry" /\ call'[t].e = db.log[id].of /\ call'[t].id = id
           /\ call'[t].then = FALSE
<1>1. PICK e \in Entity : e = db.log[id].of
    BY EntryFields DEF StoreTypeOK
<1>2. id \in Nat /\ db.rows[e].num \in Number /\ "entry" \in Positions
    BY EntryFields, DbFields DEF StoreTypeOK, Positions
<1>3. PICK c : c = [Rest(e, db.rows[e].num) EXCEPT !.at = "entry", !.id = id, !.winner = w]
    OBVIOUS
<1>4. c \in Call /\ c.at = "entry" /\ c.e = e /\ c.id = id /\ c.then = FALSE
    <2>1. PICK r \in Call : /\ r = Rest(e, db.rows[e].num) /\ r.e = e
                              /\ r.num = db.rows[e].num /\ r.then = FALSE
        BY <1>2, RestIs
    <2> QED
        BY <1>2, <1>3, <2>1 DEF Call
<1>5. Becomes(t, c)
    BY <1>1, <1>3 DEF ResolveManually
<1> QED
    BY <1>1, <1>4, <1>5, BecomesIs

LEMMA ExistsIs ==
    ASSUME StoreTypeOK, NEW t \in Thread, CheckExists(t) \/ ExistsFails(t)
    PROVE  /\ call' \in [Thread -> Call] /\ Alone(t)
           /\ call'[t].at = "replace" /\ call'[t].e = call[t].e
           /\ call'[t].num = call[t].num /\ call'[t].then = call[t].then
<1> DEFINE IsCall(c) == /\ c \in Call /\ c.at = "replace" /\ c.e = call[t].e
                        /\ c.num = call[t].num /\ c.then = call[t].then
<1>1. ASSUME NEW op \in Operation
      PROVE  IsCall([call[t] EXCEPT !.at = "replace", !.op = op])
    BY ZenonT(60) DEF StoreTypeOK, Call, Positions
<1>2. OperationFor(call[t].e) \in Operation /\ "insert" \in Operation
    BY DEF OperationFor, Operation
<1>3. CASE CheckExists(t)
    <2>1. PICK c : c = [call[t] EXCEPT !.at = "replace", !.op = OperationFor(call[t].e)]
        OBVIOUS
    <2>2. IsCall(c) /\ Becomes(t, c)
        BY <1>1, <1>2, <1>3, <2>1 DEF CheckExists
    <2> QED
        BY <2>2, BecomesIs
<1>4. CASE ExistsFails(t)
    <2>1. PICK c : c = [call[t] EXCEPT !.at = "replace", !.op = "insert"]
        OBVIOUS
    <2>2. IsCall(c) /\ Becomes(t, c)
        BY <1>1, <1>2, <1>4, <2>1 DEF ExistsFails
    <2> QED
        BY <2>2, BecomesIs
<1> QED
    BY <1>3, <1>4

LEMMA CountIs ==
    ASSUME StoreTypeOK, NEW t \in Thread, CountPending(t)
    PROVE  /\ call' \in [Thread -> Call] /\ Alone(t)
           /\ call'[t].at = "pending" /\ call'[t].e = call[t].e
           /\ call'[t].then = call[t].then
<1>1. Cardinality(DirtyRows) \in Nat
    BY LocalStoreAssumption, FS_Subset, FS_CardinalityType DEF DirtyRows
<1>2. PICK c : c = [call[t] EXCEPT !.at = "pending", !.n = Cardinality(DirtyRows)]
    OBVIOUS
<1>3. c \in Call /\ c.at = "pending" /\ c.e = call[t].e /\ c.then = call[t].then
    BY <1>1, <1>2, ZenonT(60) DEF StoreTypeOK, Call, Positions
<1>4. Becomes(t, c)
    BY <1>2 DEF CountPending
<1> QED
    BY <1>3, <1>4, BecomesIs

\* A call that has learnt the id of its entry.
LEMMA IdIs ==
    ASSUME StoreTypeOK, NEW t \in Thread, NEW p \in Positions, NEW id \in Nat,
           Becomes(t, [call[t] EXCEPT !.at = p, !.id = id])
    PROVE  /\ call' \in [Thread -> Call] /\ Alone(t)
           /\ call'[t].at = p /\ call'[t].id = id /\ SameCall(call'[t], call[t])
<1>1. PICK c : c = [call[t] EXCEPT !.at = p, !.id = id]
    OBVIOUS
<1>2. c \in Call /\ c.at = p /\ c.id = id /\ SameCall(c, call[t])
    BY <1>1 DEF StoreTypeOK, Call, SameCall
<1> QED
    BY <1>1, <1>2, BecomesIs

LEMMA LookIs ==
    ASSUME StoreTypeOK, NEW t \in Thread, LookForEntry(t)
    PROVE  /\ call' \in [Thread -> Call] /\ Alone(t) /\ SameCall(call'[t], call[t])
           /\ \/ call'[t].at = "insert"
              \/ call'[t].at = "reset" /\ call'[t].id \in EntriesOf(call[t].e)
<1>1. "insert" \in Positions /\ "reset" \in Positions
    BY DEF Positions
<1>2. CASE EntriesOf(call[t].e) = {}
    <2>1. Goto(t, "insert")
        BY <1>2 DEF LookForEntry
    <2> QED
        BY <1>1, <2>1, GotoIs
<1>3. CASE EntriesOf(call[t].e) # {}
    <2>1. PICK id : id = LatestOf(call[t].e)
        OBVIOUS
    <2>2. id \in EntriesOf(call[t].e)
        BY <1>3, <2>1, LatestIs DEF StoreTypeOK
    <2>3. id \in Nat
        BY <2>2, EntryFields DEF EntriesOf, StoreTypeOK
    <2>4. Becomes(t, [call[t] EXCEPT !.at = "reset", !.id = id])
        BY <1>3, <2>1 DEF LookForEntry
    <2> QED
        BY <1>1, <2>2, <2>3, <2>4, IdIs
<1> QED
    BY <1>2, <1>3

LEMMA LastIdIs ==
    ASSUME StoreTypeOK, NEW t \in Thread, ReadLastId(t)
    PROVE  /\ call' \in [Thread -> Call] /\ Alone(t) /\ SameCall(call'[t], call[t])
           /\ call'[t].at = "strategy" /\ call'[t].id = lastId
<1>1. "strategy" \in Positions /\ lastId \in Nat
    BY DEF Positions, StoreTypeOK
<1>2. Becomes(t, [call[t] EXCEPT !.at = "strategy", !.id = lastId])
    BY DEF ReadLastId
<1> QED
    BY <1>1, <1>2, IdIs

LEMMA StrategyIs ==
    ASSUME StoreTypeOK, NEW t \in Thread, NEW s \in Strategy, ChooseStrategy(t, s)
    PROVE  /\ call' \in [Thread -> Call] /\ Alone(t)
           /\ \/ call'[t].at = "idle" /\ call'[t].then = FALSE
              \/ /\ call'[t].at = "resolve" /\ call'[t].e = call[t].e
                 /\ call'[t].id = call[t].id /\ call'[t].then = call[t].then
                 /\ call'[t].local = call[t].local /\ call'[t].remote = call[t].remote
<1>1. CASE s = "Manual"
    <2>1. Return(t)
        BY <1>1 DEF ChooseStrategy
    <2> QED
        BY <2>1, ReturnIs
<1>2. CASE s # "Manual"
    <2>1. WinnerBy(s) \in Winner /\ "resolve" \in Positions
        BY DEF WinnerBy, Winner, Positions
    <2>2. PICK c : c = [call[t] EXCEPT !.at = "resolve", !.winner = WinnerBy(s)]
        OBVIOUS
    <2>3. /\ c \in Call /\ c.at = "resolve" /\ c.e = call[t].e /\ c.id = call[t].id
          /\ c.then = call[t].then /\ c.local = call[t].local /\ c.remote = call[t].remote
        BY <2>1, <2>2 DEF StoreTypeOK, Call
    <2>4. Becomes(t, c)
        BY <1>2, <2>2 DEF ChooseStrategy
    <2> QED
        BY <2>3, <2>4, BecomesIs
<1> QED
    BY <1>1, <1>2

LEMMA EntryIs ==
    ASSUME StoreTypeOK, NEW t \in Thread, ReadEntry(t)
    PROVE  /\ call' \in [Thread -> Call] /\ Alone(t)
           /\ \/ call'[t].at = "idle" /\ call'[t].then = FALSE
              \/ /\ call[t].id \in DOMAIN db.log
                 /\ call'[t].at = "resolve" /\ call'[t].e = call[t].e
                 /\ call'[t].id = call[t].id /\ call'[t].then = call[t].then
                 /\ call'[t].local = db.log[call[t].id].local
                 /\ call'[t].remote = db.log[call[t].id].remote
<1>1. CASE call[t].id \notin DOMAIN db.log
    <2>1. Return(t)
        BY <1>1 DEF ReadEntry
    <2> QED
        BY <2>1, ReturnIs
<1>2. CASE call[t].id \in DOMAIN db.log
    <2>1. PICK l \in Nat, r \in Nat : l = db.log[call[t].id].local /\ r = db.log[call[t].id].remote
        BY <1>2, EntryFields DEF StoreTypeOK
    <2>2. PICK c : c = [call[t] EXCEPT !.at = "resolve", !.local = l, !.remote = r]
        OBVIOUS
    <2>3. /\ c \in Call /\ c.at = "resolve" /\ c.e = call[t].e /\ c.id = call[t].id
          /\ c.then = call[t].then /\ c.local = l /\ c.remote = r
        BY <2>2, ZenonT(60) DEF StoreTypeOK, Call, Positions
    <2>4. Becomes(t, c)
        BY <1>2, <2>1, <2>2 DEF ReadEntry
    <2> QED
        BY <1>2, <2>1, <2>3, <2>4, BecomesIs
<1> QED
    BY <1>1, <1>2

LEMMA ResolveIs ==
    ASSUME StoreTypeOK, NEW t \in Thread, ResolveEntry(t)
    PROVE  /\ call' \in [Thread -> Call] /\ Alone(t)
           /\ call'[t].at = "apply" /\ call'[t].e = call[t].e
           /\ call'[t].id = call[t].id /\ call'[t].then = call[t].then
           /\ call'[t].local = call[t].local /\ call'[t].remote = call[t].remote
           /\ \E won, lost \in {call[t].local, call[t].remote} :
                /\ {won, lost} = {call[t].local, call[t].remote}
                /\ db' = ResolvedAs(call[t].id, won, lost)
<1>1. PICK won : won = WinningOf(call[t].winner, call[t].local, call[t].remote)
    OBVIOUS
<1>2. PICK lost : lost = LosingOf(call[t].winner, call[t].local, call[t].remote)
    OBVIOUS
<1>3. /\ won \in {call[t].local, call[t].remote} /\ lost \in {call[t].local, call[t].remote}
      /\ {won, lost} = {call[t].local, call[t].remote}
    BY <1>1, <1>2 DEF WinningOf, LosingOf
<1>4. won \in Nat
    BY <1>3, CallFields DEF StoreTypeOK
<1>5. PICK c : c = [call[t] EXCEPT !.at = "apply", !.ver = won]
    OBVIOUS
<1>6. /\ c \in Call /\ c.at = "apply" /\ c.e = call[t].e /\ c.id = call[t].id
      /\ c.then = call[t].then /\ c.local = call[t].local /\ c.remote = call[t].remote
    BY <1>4, <1>5, ZenonT(60) DEF StoreTypeOK, Call, Positions
<1>7. Becomes(t, c) /\ db' = ResolvedAs(call[t].id, won, lost)
    BY <1>1, <1>2, <1>5 DEF ResolveEntry, Execute
<1> QED
    BY <1>3, <1>6, <1>7, BecomesIs

LEMMA ApplyTypedIs ==
    ASSUME StoreTypeOK, NEW t \in Thread, ApplyTyped(t)
    PROVE  /\ call' \in [Thread -> Call] /\ Alone(t)
           /\ call'[t].at = IF KindOf[call[t].e] \in Numbered THEN "number" ELSE "exists"
           /\ call'[t].e = call[t].e /\ call'[t].id = call[t].id /\ call'[t].then = TRUE
<1> DEFINE p == IF KindOf[call[t].e] \in Numbered THEN "number" ELSE "exists"
<1>1. p \in Positions
    BY DEF Positions
<1>2. Becomes(t, [call[t] EXCEPT !.then = TRUE, !.at = p])
    BY DEF ApplyTyped
<1> HIDE DEF p
<1>3. PICK c : c = [call[t] EXCEPT !.then = TRUE, !.at = p]
    OBVIOUS
<1>4. c \in Call /\ c.at = p /\ c.e = call[t].e /\ c.id = call[t].id /\ c.then = TRUE
    BY <1>1, <1>3 DEF StoreTypeOK, Call
<1> QED
    BY <1>2, <1>3, <1>4, BecomesIs DEF p

\* A mix is about records, and has a bound on its calls.
LEMMA MixIs ==
    ASSUME StoreTypeOK
    PROVE  mix.of \subseteq Entity /\ mix.most \in Nat
BY DeviceAssumption DEF StoreTypeOK

LEMMA StartsType ==
    ASSUME StoreTypeOK, NEW t \in Thread, NEW kind, Starts(t, kind),
           call' \in [Thread -> Call], clock' \in Nat
    PROVE  StoreTypeOK'
<1>1. calls' \in 0..mix.most /\ mix' = mix
    BY MixIs DEF StoreTypeOK, Starts
<1> QED
    BY <1>1 DEF StoreTypeOK, Starts, Query

\* A step of a call that is under way.
LEMMA StillType ==
    ASSUME StoreTypeOK, Still, call' \in [Thread -> Call],
           db' \in Db, undo' \in Db \cup {NoDb}, lastId' \in Nat
    PROVE  StoreTypeOK'
BY DEF StoreTypeOK, Still

LEMMA QueryType ==
    ASSUME StoreTypeOK, Query
    PROVE  db' \in Db /\ undo' \in Db \cup {NoDb} /\ lastId' \in Nat
BY DEF StoreTypeOK, Query

LEMMA ExecuteType ==
    ASSUME StoreTypeOK, NEW new \in Db, Execute(new)
    PROVE  db' \in Db /\ undo' \in Db \cup {NoDb} /\ lastId' \in Nat
BY DEF StoreTypeOK, Execute

LEMMA InsertType ==
    ASSUME StoreTypeOK, NEW new \in Db, NEW id \in Nat, Insert(new, id)
    PROVE  db' \in Db /\ undo' \in Db \cup {NoDb} /\ lastId' \in Nat
BY DEF StoreTypeOK, Insert

\* Where a save or a deletion writes its row.
LEMMA WriteType ==
    ASSUME StoreTypeOK, call' \in [Thread -> Call],
           db' \in Db, undo' \in Db \cup {NoDb}, lastId' \in Nat,
           saved' \in [Entity -> Nat], UNCHANGED <<mix, calls, faults, clock>>
    PROVE  StoreTypeOK'
BY DEF StoreTypeOK

LEMMA FaultyType ==
    ASSUME StoreTypeOK, Faulty, call' \in [Thread -> Call],
           db' \in Db, undo' \in Db \cup {NoDb}, lastId' \in Nat
    PROVE  StoreTypeOK'
<1>1. faults' \in 0..MaxFaults
    BY DeviceAssumption DEF StoreTypeOK, Faulty
<1> QED
    BY <1>1 DEF StoreTypeOK, Faulty

LEMMA AtOnceType ==
    ASSUME StoreTypeOK, NEW t \in Thread, AtOnce(t),
           db' \in Db, undo' \in Db \cup {NoDb}, lastId' \in Nat
    PROVE  StoreTypeOK'
<1>1. calls' \in 0..mix.most /\ mix' = mix
    BY MixIs DEF StoreTypeOK, AtOnce
<1> QED
    BY <1>1 DEF StoreTypeOK, AtOnce

LEMMA CallType ==
    ASSUME StoreTypeOK, NEW t \in Thread
    PROVE  /\ call[t] \in Call /\ call[t].at \in Positions
           /\ call[t].e \in Entity /\ call[t].num \in Number
           /\ call[t].ver \in Nat /\ call[t].op \in Operation /\ call[t].then \in BOOLEAN
           /\ call[t].local \in Nat /\ call[t].remote \in Nat /\ call[t].id \in Nat
           /\ call[t].n \in Nat
<1>1. call[t] \in Call
    BY DEF StoreTypeOK
<1> QED
    BY <1>1, CallFields

LEMMA RowId ==
    ASSUME db \in Db, NEW e \in Entity
    PROVE  db.rowid[KindOf[e]] \in Nat
<1>1. KindOf[e] \in Kinds
    BY LocalStoreAssumption
<1> QED
    BY <1>1, DbFields

LEMMA StoreTypeStep ==
    ASSUME StoreTypeOK, NEW t \in Thread, StoreStep(t)
    PROVE  StoreTypeOK'
<1> USE DEF Positions
<1>0. db \in Db /\ clock + 1 \in Nat /\ saved \in [Entity -> Nat]
    BY DEF StoreTypeOK
<1>1. ASSUME NEW e \in mix.of, NEW n \in Number, Save(t, e, n)
      PROVE  StoreTypeOK'
    <2>1. e \in Entity
        BY MixIs
    <2>2. Starts(t, "save") /\ clock' = clock + 1
        BY <1>1 DEF Save
    <2> QED
        BY <1>0, <1>1, <2>1, <2>2, SaveIs, StartsType
<1>2. ASSUME NEW e \in mix.of, Delete(t, e)
      PROVE  StoreTypeOK'
    <2>1. e \in Entity
        BY MixIs
    <2>2. Starts(t, "save") /\ clock' = clock + 1
        BY <1>2 DEF Delete
    <2> QED
        BY <1>0, <1>2, <2>1, <2>2, DeleteIs, StartsType
<1>3. CASE CheckNumber(t)
    <2>1. Query /\ Still /\ (Return(t) \/ Goto(t, "exists"))
        BY <1>3 DEF CheckNumber
    <2>2. call' \in [Thread -> Call]
        BY <2>1, ReturnIs, GotoIs
    <2> QED
        BY <2>1, <2>2, StillType, QueryType
<1>4. CASE CheckExists(t)
    <2>1. Query /\ Still
        BY <1>4 DEF CheckExists
    <2> QED
        BY <1>4, <2>1, ExistsIs, StillType, QueryType
<1>5. CASE Replace(t)
    <2>1. UNCHANGED <<mix, calls, faults, clock>>
        BY <1>5 DEF Replace
    <2>2. CASE ReferencesHold(call[t].e, call[t].num)
        <3>1. /\ Insert(Replaced(call[t].e, call[t].num, call[t].ver),
                        db.rowid[KindOf[call[t].e]])
              /\ saved' = [saved EXCEPT ![call[t].e] = call[t].ver]
              /\ Goto(t, "record")
            BY <1>5, <2>2 DEF Replace
        <3>2. Replaced(call[t].e, call[t].num, call[t].ver) \in Db
              /\ db.rowid[KindOf[call[t].e]] \in Nat
            BY <1>0, CallType, ReplacedIs, RowId
        <3>3. saved' \in [Entity -> Nat]
            BY <1>0, <3>1, CallType
        <3>4. call' \in [Thread -> Call]
            BY <3>1, GotoIs
        <3>5. db' \in Db /\ undo' \in Db \cup {NoDb} /\ lastId' \in Nat
            BY <3>1, <3>2, InsertType
        <3> QED
            BY <2>1, <3>3, <3>4, <3>5, WriteType
    <2>3. CASE ~ReferencesHold(call[t].e, call[t].num)
        <3>1. Query /\ Return(t) /\ UNCHANGED saved
            BY <1>5, <2>3 DEF Replace
        <3> QED
            BY <1>0, <2>1, <3>1, ReturnIs, QueryType, WriteType
    <2> QED
        BY <2>2, <2>3
<1>6. CASE SoftDelete(t)
    <2>1. UNCHANGED <<mix, calls, faults, clock>>
        BY <1>6 DEF SoftDelete
    <2>2. CASE Here(call[t].e)
        <3>1. /\ Execute(SoftDeleted(call[t].e, call[t].ver))
              /\ saved' = [saved EXCEPT ![call[t].e] = call[t].ver]
              /\ Goto(t, "record")
            BY <1>6, <2>2 DEF SoftDelete
        <3>2. SoftDeleted(call[t].e, call[t].ver) \in Db
            BY <1>0, CallType, SoftDeletedIs
        <3>3. saved' \in [Entity -> Nat]
            BY <1>0, <3>1, CallType
        <3>4. call' \in [Thread -> Call]
            BY <3>1, GotoIs
        <3>5. db' \in Db /\ undo' \in Db \cup {NoDb} /\ lastId' \in Nat
            BY <3>1, <3>2, ExecuteType
        <3> QED
            BY <2>1, <3>3, <3>4, <3>5, WriteType
    <2>3. CASE ~Here(call[t].e)
        <3>1. Query /\ Return(t) /\ UNCHANGED saved
            BY <1>6, <2>3 DEF SoftDelete
        <3> QED
            BY <1>0, <2>1, <3>1, ReturnIs, QueryType, WriteType
    <2> QED
        BY <2>2, <2>3
<1>7. CASE RecordChange(t)
    <2>1. /\ Still /\ Insert(Recorded(call[t].e, call[t].op), db.nextChange)
          /\ Goto(t, "post") \/ Return(t)
        BY <1>7 DEF RecordChange
    <2>2. Recorded(call[t].e, call[t].op) \in Db /\ db.nextChange \in Nat
        BY <1>0, CallType, RecordedIs, DbFields
    <2>3. call' \in [Thread -> Call]
        BY <2>1, ReturnIs, GotoIs
    <2> QED
        BY <2>1, <2>2, <2>3, InsertType, StillType
<1> QED
    BY <1>1, <1>2, <1>3, <1>4, <1>5, <1>6, <1>7 DEF StoreStep

LEMMA TrackerTypeStep ==
    ASSUME StoreTypeOK, NEW t \in Thread, TrackerStep(t)
    PROVE  StoreTypeOK'
<1> USE DEF Positions
<1>0. db \in Db /\ clock \in Nat /\ mix.of \subseteq Entity
    BY MixIs DEF StoreTypeOK
<1>1. ASSUME NEW e \in mix.of, MarkSynced(t, e)
      PROVE  StoreTypeOK'
    <2>1. Starts(t, "mark") /\ clock' = clock
        BY <1>1 DEF MarkSynced
    <2> QED
        BY <1>0, <1>1, <2>1, MarkSyncedIs, StartsType
<1>2. ASSUME NEW e \in mix.of, MarkClean(t, e)
      PROVE  StoreTypeOK'
    <2>1. AtOnce(t) /\ Execute(Cleaned(e))
        BY <1>2 DEF MarkClean
    <2> QED
        BY <1>0, <2>1, CleanedIs, ExecuteType, AtOnceType
<1>3. CASE UpdateSyncState(t)
    <2>1. Starts(t, "state") /\ clock' = clock /\ Goto(t, "count")
        BY <1>3 DEF UpdateSyncState
    <2> QED
        BY <1>0, <2>1, GotoIs, StartsType
<1>4. CASE MarkAllSynced(t)
    <2>1. AtOnce(t) /\ (Execute(AllSynced) \/ Query)
        BY <1>4 DEF MarkAllSynced
    <2> QED
        BY <1>0, <2>1, AllSyncedIs, ExecuteType, QueryType, AtOnceType
<1>5. CASE ClearSyncedChanges(t)
    <2>1. AtOnce(t) /\ Execute(SyncedCleared)
        BY <1>5 DEF ClearSyncedChanges
    <2> QED
        BY <1>0, <2>1, SyncedClearedIs, ExecuteType, AtOnceType
<1>6. CASE Begin(t)
    <2>1. CASE CanBegin
        <3>1. BeginTransaction /\ Goto(t, "clean") /\ Still
            BY <1>6, <2>1 DEF Begin
        <3>2. db' \in Db /\ undo' \in Db \cup {NoDb} /\ lastId' \in Nat
            BY <3>1 DEF BeginTransaction, StoreTypeOK
        <3> QED
            BY <3>1, <3>2, GotoIs, StillType
    <2>2. CASE ~CanBegin
        <3>1. Query /\ Return(t) /\ Still
            BY <1>6, <2>2 DEF Begin
        <3> QED
            BY <3>1, QueryType, ReturnIs, StillType
    <2> QED
        BY <2>1, <2>2
<1>7. CASE CleanRow(t)
    <2>1. Still /\ Execute(Cleaned(call[t].e)) /\ Goto(t, "synced")
        BY <1>7 DEF CleanRow
    <2> QED
        BY <1>0, <2>1, CallType, CleanedIs, ExecuteType, GotoIs, StillType
<1>8. CASE SyncChanges(t)
    <2>1. Still /\ Execute(ChangesSynced(call[t].e)) /\ Goto(t, "commit")
        BY <1>8 DEF SyncChanges
    <2> QED
        BY <1>0, <2>1, CallType, ChangesSyncedIs, ExecuteType, GotoIs, StillType
<1>9. CASE CommitMark(t)
    <2>1. Still /\ Commit /\ Return(t)
        BY <1>9 DEF CommitMark
    <2>2. db' \in Db /\ undo' \in Db \cup {NoDb} /\ lastId' \in Nat
        BY <2>1 DEF Commit, StoreTypeOK
    <2> QED
        BY <2>1, <2>2, ReturnIs, StillType
<1>10. CASE RollbackMark(t)
    <2>1. Still /\ Rollback /\ Return(t)
        BY <1>10 DEF RollbackMark
    <2>2. db' \in Db /\ undo' \in Db \cup {NoDb} /\ lastId' \in Nat
        BY <2>1 DEF Rollback, StoreTypeOK
    <2> QED
        BY <2>1, <2>2, ReturnIs, StillType
<1>11. CASE CountPending(t)
    <2>1. Still /\ Query
        BY <1>11 DEF CountPending
    <2> QED
        BY <1>11, <2>1, CountIs, QueryType, StillType
<1>12. CASE WritePending(t)
    <2>1. Still /\ Execute(PendingWritten(call[t].n)) /\ Return(t)
        BY <1>12 DEF WritePending
    <2> QED
        BY <1>0, <2>1, CallType, PendingWrittenIs, ExecuteType, ReturnIs, StillType
<1> QED
    BY <1>1, <1>2, <1>3, <1>4, <1>5, <1>6, <1>7, <1>8, <1>9, <1>10, <1>11, <1>12
       DEF TrackerStep

LEMMA ResolverTypeStep ==
    ASSUME StoreTypeOK, NEW t \in Thread, ResolverStep(t)
    PROVE  StoreTypeOK'
<1> USE DEF Positions
<1>0. /\ db \in Db /\ clock \in Nat /\ clock + 1 \in Nat /\ mix.of \subseteq Entity
      /\ saved \in [Entity -> Nat]
    BY MixIs DEF StoreTypeOK
<1>1. ASSUME NEW e \in mix.of, ReportConflict(t, e)
      PROVE  StoreTypeOK'
    <2>1. Starts(t, "conflict") /\ clock' = clock + 1
        BY <1>1 DEF ReportConflict
    <2> QED
        BY <1>0, <1>1, <2>1, ReportIs, StartsType
<1>2. ASSUME NEW id \in DOMAIN db.log, NEW w \in Winner, ResolveManually(t, id, w)
      PROVE  StoreTypeOK'
    <2>1. Starts(t, "conflict") /\ clock' = clock
        BY <1>2 DEF ResolveManually
    <2> QED
        BY <1>0, <1>2, <2>1, ManualIs, StartsType
<1>3. CASE LookForEntry(t)
    <2>1. Still /\ Query
        BY <1>3 DEF LookForEntry
    <2> QED
        BY <1>3, <2>1, LookIs, QueryType, StillType
<1>4. CASE ResetEntry(t)
    <2>1. /\ Still /\ Goto(t, "strategy")
          /\ Execute(Reset(call[t].id, call[t].local, call[t].remote))
        BY <1>4 DEF ResetEntry
    <2>2. Reset(call[t].id, call[t].local, call[t].remote) \in Db
        <3>1. CASE call[t].id \in DOMAIN db.log
            BY <1>0, <3>1, CallType, ResetIs
        <3>2. CASE call[t].id \notin DOMAIN db.log
            <4>1. PICK i : i = call[t].id
                OBVIOUS
            <4>2. PICK entry : entry = Unresolved(db.log[i].of, call[t].local, call[t].remote)
                OBVIOUS
            <4>3. db.log \in Seq(Conflict) /\ i \notin DOMAIN db.log
                BY <1>0, <3>2, <4>1, DbFields
            <4>4. [db.log EXCEPT ![i] = entry] = db.log
                BY <4>3
            <4>5. Reset(i, call[t].local, call[t].remote)
                    = [db EXCEPT !.log = [db.log EXCEPT ![i] = entry]]
                BY <4>2 DEF Reset
            <4> QED
                BY <1>0, <4>1, <4>3, <4>4, <4>5, LogReplaced
        <3> QED
            BY <3>1, <3>2
    <2> QED
        BY <2>1, <2>2, ExecuteType, GotoIs, StillType
<1>5. CASE InsertEntry(t)
    <2>1. /\ Still /\ Goto(t, "lastid")
          /\ Insert(Logged(call[t].e, call[t].local, call[t].remote), Len(db.log) + 1)
        BY <1>5 DEF InsertEntry
    <2> QED
        BY <1>0, <2>1, CallType, LoggedIs, InsertType, GotoIs, StillType
<1>6. CASE ReadLastId(t)
    <2>1. Still /\ Query
        BY <1>6 DEF ReadLastId
    <2> QED
        BY <1>6, <2>1, LastIdIs, QueryType, StillType
<1>7. ASSUME NEW s \in Strategy, ChooseStrategy(t, s)
      PROVE  StoreTypeOK'
    <2>1. Still /\ Query
        BY <1>7 DEF ChooseStrategy
    <2> QED
        BY <1>7, <2>1, StrategyIs, QueryType, StillType
<1>8. CASE ReadEntry(t)
    <2>1. Still /\ Query
        BY <1>8 DEF ReadEntry
    <2> QED
        BY <1>8, <2>1, EntryIs, QueryType, StillType
<1>9. CASE ResolveEntry(t)
    <2>1. PICK won \in Nat, lost \in Nat : db' = ResolvedAs(call[t].id, won, lost)
        BY <1>9, ResolveIs, CallType
    <2>2. Still /\ UNCHANGED <<undo, lastId>>
        BY <1>9 DEF ResolveEntry, Execute
    <2>3. undo' \in Db \cup {NoDb} /\ lastId' \in Nat
        BY <2>2 DEF StoreTypeOK
    <2> QED
        BY <1>0, <1>9, <2>1, <2>2, <2>3, CallType, ResolvedIs, ResolveIs, StillType
<1>10. CASE ApplyTyped(t)
    <2>1. Still /\ Query
        BY <1>10 DEF ApplyTyped
    <2> QED
        BY <1>10, <2>1, ApplyTypedIs, QueryType, StillType
<1>11. CASE ApplyRaw(t)
    <2>1. /\ UNCHANGED <<mix, calls, faults, clock>> /\ Goto(t, "post")
          /\ Execute(RawApplied(call[t].e, call[t].ver))
        BY <1>11 DEF ApplyRaw
    <2>2. saved' \in [Entity -> Nat]
        BY <1>0, <1>11, CallType DEF ApplyRaw
    <2> QED
        BY <1>0, <2>1, <2>2, CallType, RawAppliedIs, ExecuteType, GotoIs, WriteType
<1>12. CASE PostApply(t)
    <2>1. Still /\ Execute(Cleaned(call[t].e)) /\ Return(t)
        BY <1>12 DEF PostApply
    <2> QED
        BY <1>0, <2>1, CallType, CleanedIs, ExecuteType, ReturnIs, StillType
<1> QED
    BY <1>1, <1>2, <1>3, <1>4, <1>5, <1>6, <1>7, <1>8, <1>9, <1>10, <1>11, <1>12
       DEF ResolverStep

LEMMA FaultTypeStep ==
    ASSUME StoreTypeOK, NEW t \in Thread, FaultStep(t)
    PROVE  StoreTypeOK'
<1> USE DEF Positions
<1>1. CASE StatementFails(t) \/ CommitFails(t)
    <2>1. Faulty /\ Query /\ Return(t)
        BY <1>1 DEF StatementFails, CommitFails
    <2> QED
        BY <2>1, ReturnIs, QueryType, FaultyType
<1>2. CASE ExistsFails(t)
    <2>1. Faulty /\ Query
        BY <1>2 DEF ExistsFails
    <2> QED
        BY <1>2, <2>1, ExistsIs, QueryType, FaultyType
<1>3. CASE MarkFails(t)
    <2>1. Faulty /\ Query /\ Goto(t, "rollback")
        BY <1>3 DEF MarkFails
    <2> QED
        BY <2>1, GotoIs, QueryType, FaultyType
<1> QED
    BY <1>1, <1>2, <1>3 DEF FaultStep

\* A crash leaves what a ROLLBACK would, and no call under way.
LEMMA CrashIs ==
    ASSUME StoreTypeOK, Crash
    PROVE  /\ call' \in [Thread -> Call]
           /\ \A t \in Thread : call'[t] = Idle /\ call'[t].at = "idle" /\ call'[t].then = FALSE
           /\ db' = (IF undo = NoDb THEN db ELSE undo) /\ db' \in Db
           /\ undo' = NoDb /\ lastId' = 0
           /\ mix' = mix /\ saved' = saved
BY IdleIs DEF Crash, Reopen, Faulty, StoreTypeOK

LEMMA StoreTypeNext ==
    ASSUME StoreTypeOK, [Next]_vars
    PROVE  StoreTypeOK'
<1>1. CASE Crash
    <2>1. Faulty
        BY <1>1 DEF Crash
    <2> QED
        BY <1>1, <2>1, CrashIs, FaultyType
<1>2. CASE UNCHANGED deviceVars
    BY <1>2 DEF deviceVars, StoreTypeOK
<1> QED
    BY <1>1, <1>2, StoreTypeStep, TrackerTypeStep, ResolverTypeStep, FaultTypeStep
       DEF Next, Synchronise, vars

LEMMA InitIs ==
    ASSUME Init
    PROVE  /\ StoreTypeOK
           /\ undo = NoDb /\ db.log = <<>>
           /\ \A e \in Entity : /\ ~Dirty(e) /\ saved[e] = db.rows[e].ver
                                /\ Here(e) => e \in Stored
           /\ \A e, f \in Stored : e # f => db.rows[e].num # db.rows[f].num
           /\ \A t \in Thread : call[t].at = "idle" /\ call[t].then = FALSE
<1>1. PICK number \in [Entity -> Number] :
        /\ db = Schema(number)
        /\ \A e, f \in Stored : e # f => number[e] # number[f]
    BY DEF Init, DbInit
<1>2. /\ db.rows = [e \in Entity |-> [ver |-> IF e \in Stored THEN 1 ELSE 0,
                                      num |-> number[e], dirty |-> FALSE]]
      /\ db.changes = {} /\ db.log = <<>> /\ db.nextChange = 1
      /\ db.rowid = [k \in Kinds |-> 1] /\ db.pending = 0
    BY <1>1 DEF Schema
<1>3. db.rows \in [Entity -> Row]
    BY <1>2 DEF Row
<1>4. \A e \in Entity : /\ db.rows[e].ver = IF e \in Stored THEN 1 ELSE 0
                        /\ db.rows[e].num = number[e] /\ db.rows[e].dirty = FALSE
    BY <1>2
<1>5. db \in Db
    <2>1. PICK rows \in [Entity -> Row], ids \in [Kinds -> Nat] :
              db = [rows |-> rows, changes |-> {}, log |-> <<>>, nextChange |-> 1,
                    rowid |-> ids, pending |-> 0]
        <3>1. PICK rows : rows = [e \in Entity |-> [ver |-> IF e \in Stored THEN 1 ELSE 0,
                                                    num |-> number[e], dirty |-> FALSE]]
            OBVIOUS
        <3>2. PICK ids : ids = [k \in Kinds |-> 1]
            OBVIOUS
        <3>3. rows \in [Entity -> Row] /\ ids \in [Kinds -> Nat]
            BY <1>2, <1>3, <3>1, <3>2
        <3>4. db = [rows |-> rows, changes |-> {}, log |-> <<>>, nextChange |-> 1,
                    rowid |-> ids, pending |-> 0]
            BY <1>1, <3>1, <3>2 DEF Schema
        <3> QED
            BY <3>3, <3>4
    <2>2. /\ {} \in SUBSET Change /\ <<>> \in Seq(Conflict) /\ 1 \in Nat /\ 0 \in Nat
          /\ [k \in Kinds |-> 1] \in [Kinds -> Nat]
        OBVIOUS
    <2> QED
        BY <2>1, <2>2 DEF Db
<1>6. /\ undo = NoDb /\ lastId = 0 /\ mix \in Mixes /\ calls = 0 /\ faults = 0 /\ clock = 1
      /\ call = [t \in Thread |-> Idle] /\ saved = [e \in Entity |-> db.rows[e].ver]
    BY DEF Init, DbInit
<1>7. call \in [Thread -> Call] /\ \A t \in Thread : call[t].at = "idle" /\ call[t].then = FALSE
    BY <1>6, IdleIs
<1>8. saved \in [Entity -> Nat] /\ \A e \in Entity : saved[e] = db.rows[e].ver
    BY <1>5, <1>6, DbFields
<1>9. calls \in 0..mix.most /\ faults \in 0..MaxFaults /\ clock \in Nat /\ lastId \in Nat
    BY <1>6, DeviceAssumption
<1>10. StoreTypeOK
    BY <1>5, <1>6, <1>7, <1>8, <1>9 DEF StoreTypeOK
<1>11. \A e \in Entity : ~Dirty(e) /\ (Here(e) => e \in Stored)
    BY <1>4 DEF Dirty, Here
<1>12. Stored \subseteq Entity
    BY LocalStoreAssumption
<1> QED
    BY <1>1, <1>2, <1>4, <1>6, <1>7, <1>8, <1>10, <1>11, <1>12

-----------------------------------------------------------------------------
(* Transactions.                                                           *)

\* A step of a thread that neither opens nor closes a transaction.
Steady(t) ==
    Alone(t) /\ undo' = undo /\ mix' = mix /\ (InTransaction(t)' <=> InTransaction(t))

LEMMA StoreSteady ==
    ASSUME StoreTypeOK, NEW t \in Thread, StoreStep(t)
    PROVE  Steady(t)
<1> USE DEF Positions
<1>1. ASSUME NEW e \in mix.of, NEW n \in Number, Save(t, e, n)
      PROVE  Steady(t)
    <2>1. e \in Entity
        BY MixIs
    <2>2. At(t, "idle") /\ undo' = undo /\ mix' = mix
        BY <1>1 DEF Save, Starts, Query
    <2> QED
        BY <1>1, <2>1, <2>2, SaveIs DEF Steady, InTransaction, At
<1>2. ASSUME NEW e \in mix.of, Delete(t, e)
      PROVE  Steady(t)
    <2>1. e \in Entity
        BY MixIs
    <2>2. At(t, "idle") /\ undo' = undo /\ mix' = mix
        BY <1>2 DEF Delete, Starts, Query
    <2> QED
        BY <1>2, <2>1, <2>2, DeleteIs DEF Steady, InTransaction, At
<1>3. CASE CheckNumber(t)
    <2>1. At(t, "number") /\ Query /\ Still /\ (Return(t) \/ Goto(t, "exists"))
        BY <1>3 DEF CheckNumber
    <2> QED
        BY <2>1, ReturnIs, GotoIs DEF Steady, InTransaction, At, Query, Still
<1>4. CASE CheckExists(t)
    <2>1. At(t, "exists") /\ Query /\ Still
        BY <1>4 DEF CheckExists
    <2> QED
        BY <1>4, <2>1, ExistsIs DEF Steady, InTransaction, At, Query, Still
<1>5. CASE Replace(t)
    <2>1. At(t, "replace") /\ undo' = undo /\ mix' = mix /\ (Return(t) \/ Goto(t, "record"))
        BY <1>5 DEF Replace, Insert, Query
    <2> QED
        BY <2>1, ReturnIs, GotoIs DEF Steady, InTransaction, At
<1>6. CASE SoftDelete(t)
    <2>1. At(t, "delete") /\ undo' = undo /\ mix' = mix /\ (Return(t) \/ Goto(t, "record"))
        BY <1>6 DEF SoftDelete, Execute, Query
    <2> QED
        BY <2>1, ReturnIs, GotoIs DEF Steady, InTransaction, At
<1>7. CASE RecordChange(t)
    <2>1. At(t, "record") /\ undo' = undo /\ mix' = mix /\ (Return(t) \/ Goto(t, "post"))
        BY <1>7 DEF RecordChange, Insert, Still
    <2> QED
        BY <2>1, ReturnIs, GotoIs DEF Steady, InTransaction, At
<1> QED
    BY <1>1, <1>2, <1>3, <1>4, <1>5, <1>6, <1>7 DEF StoreStep

\* The beginnings and ends of transactions.
Opens(t) == Begin(t) /\ CanBegin
Closes(t) == CommitMark(t) \/ RollbackMark(t)

LEMMA TrackerSteady ==
    ASSUME StoreTypeOK, NEW t \in Thread, TrackerStep(t), ~Opens(t), ~Closes(t)
    PROVE  Steady(t)
<1> USE DEF Positions
<1>1. ASSUME NEW e \in mix.of, MarkSynced(t, e)
      PROVE  Steady(t)
    <2>1. e \in Entity
        BY MixIs
    <2>2. At(t, "idle") /\ undo' = undo /\ mix' = mix
        BY <1>1 DEF MarkSynced, Starts, Query
    <2> QED
        BY <1>1, <2>1, <2>2, MarkSyncedIs DEF Steady, InTransaction, At
<1>2. ASSUME AtOnce(t), undo' = undo
      PROVE  Steady(t)
    BY <1>2 DEF AtOnce, Steady, Alone, InTransaction
<1>3. ASSUME NEW e \in mix.of, MarkClean(t, e)
      PROVE  Steady(t)
    BY <1>2, <1>3 DEF MarkClean, Execute
<1>4. CASE UpdateSyncState(t)
    <2>1. At(t, "idle") /\ undo' = undo /\ mix' = mix /\ Goto(t, "count")
        BY <1>4 DEF UpdateSyncState, Starts, Query
    <2> QED
        BY <2>1, GotoIs DEF Steady, InTransaction, At
<1>5. CASE MarkAllSynced(t)
    BY <1>2, <1>5 DEF MarkAllSynced, Execute, Query
<1>6. CASE ClearSyncedChanges(t)
    BY <1>2, <1>6 DEF ClearSyncedChanges, Execute
<1>7. CASE Begin(t)
    <2>1. At(t, "begin") /\ Query /\ Still /\ Return(t)
        BY <1>7 DEF Begin, Opens
    <2> QED
        BY <2>1, ReturnIs DEF Steady, InTransaction, At, Query, Still
<1>8. CASE CleanRow(t)
    <2>1. At(t, "clean") /\ undo' = undo /\ Still /\ Goto(t, "synced")
        BY <1>8 DEF CleanRow, Execute
    <2> QED
        BY <2>1, GotoIs DEF Steady, InTransaction, At, Still
<1>9. CASE SyncChanges(t)
    <2>1. At(t, "synced") /\ undo' = undo /\ Still /\ Goto(t, "commit")
        BY <1>9 DEF SyncChanges, Execute
    <2> QED
        BY <2>1, GotoIs DEF Steady, InTransaction, At, Still
<1>10. CASE CountPending(t)
    <2>1. At(t, "count") /\ Query /\ Still
        BY <1>10 DEF CountPending
    <2> QED
        BY <1>10, <2>1, CountIs DEF Steady, InTransaction, At, Query, Still
<1>11. CASE WritePending(t)
    <2>1. At(t, "pending") /\ undo' = undo /\ Still /\ Return(t)
        BY <1>11 DEF WritePending, Execute
    <2> QED
        BY <2>1, ReturnIs DEF Steady, InTransaction, At, Still
<1> QED
    BY <1>1, <1>3, <1>4, <1>5, <1>6, <1>7, <1>8, <1>9, <1>10, <1>11 DEF TrackerStep, Closes

LEMMA ResolverSteady ==
    ASSUME StoreTypeOK, NEW t \in Thread, ResolverStep(t)
    PROVE  Steady(t)
<1> USE DEF Positions
<1>1. ASSUME NEW e \in mix.of, ReportConflict(t, e)
      PROVE  Steady(t)
    <2>1. e \in Entity
        BY MixIs
    <2>2. At(t, "idle") /\ undo' = undo /\ mix' = mix
        BY <1>1 DEF ReportConflict, Starts, Query
    <2> QED
        BY <1>1, <2>1, <2>2, ReportIs DEF Steady, InTransaction, At
<1>2. ASSUME NEW id \in DOMAIN db.log, NEW w \in Winner, ResolveManually(t, id, w)
      PROVE  Steady(t)
    <2>1. At(t, "idle") /\ undo' = undo /\ mix' = mix
        BY <1>2 DEF ResolveManually, Starts, Query
    <2> QED
        BY <1>2, <2>1, ManualIs DEF Steady, InTransaction, At
<1>3. CASE LookForEntry(t)
    <2>1. At(t, "look") /\ Query /\ Still
        BY <1>3 DEF LookForEntry
    <2> QED
        BY <1>3, <2>1, LookIs DEF Steady, InTransaction, At, Query, Still
<1>4. CASE ResetEntry(t)
    <2>1. At(t, "reset") /\ undo' = undo /\ Still /\ Goto(t, "strategy")
        BY <1>4 DEF ResetEntry, Execute
    <2> QED
        BY <2>1, GotoIs DEF Steady, InTransaction, At, Still
<1>5. CASE InsertEntry(t)
    <2>1. At(t, "insert") /\ undo' = undo /\ Still /\ Goto(t, "lastid")
        BY <1>5 DEF InsertEntry, Insert
    <2> QED
        BY <2>1, GotoIs DEF Steady, InTransaction, At, Still
<1>6. CASE ReadLastId(t)
    <2>1. At(t, "lastid") /\ Query /\ Still
        BY <1>6 DEF ReadLastId
    <2> QED
        BY <1>6, <2>1, LastIdIs DEF Steady, InTransaction, At, Query, Still
<1>7. ASSUME NEW s \in Strategy, ChooseStrategy(t, s)
      PROVE  Steady(t)
    <2>1. At(t, "strategy") /\ Query /\ Still
        BY <1>7 DEF ChooseStrategy
    <2> QED
        BY <1>7, <2>1, StrategyIs DEF Steady, InTransaction, At, Query, Still
<1>8. CASE ReadEntry(t)
    <2>1. At(t, "entry") /\ Query /\ Still
        BY <1>8 DEF ReadEntry
    <2> QED
        BY <1>8, <2>1, EntryIs DEF Steady, InTransaction, At, Query, Still
<1>9. CASE ResolveEntry(t)
    <2>1. At(t, "resolve") /\ undo' = undo /\ Still
        BY <1>9 DEF ResolveEntry, Execute
    <2> QED
        BY <1>9, <2>1, ResolveIs DEF Steady, InTransaction, At, Still
<1>10. CASE ApplyTyped(t)
    <2>1. At(t, "apply") /\ Query /\ Still
        BY <1>10 DEF ApplyTyped
    <2> QED
        BY <1>10, <2>1, ApplyTypedIs DEF Steady, InTransaction, At, Query, Still
<1>11. CASE ApplyRaw(t)
    <2>1. At(t, "apply") /\ undo' = undo /\ mix' = mix /\ Goto(t, "post")
        BY <1>11 DEF ApplyRaw, Execute
    <2> QED
        BY <2>1, GotoIs DEF Steady, InTransaction, At
<1>12. CASE PostApply(t)
    <2>1. At(t, "post") /\ undo' = undo /\ Still /\ Return(t)
        BY <1>12 DEF PostApply, Execute
    <2> QED
        BY <2>1, ReturnIs DEF Steady, InTransaction, At, Still
<1> QED
    BY <1>1, <1>2, <1>3, <1>4, <1>5, <1>6, <1>7, <1>8, <1>9, <1>10, <1>11, <1>12
       DEF ResolverStep

LEMMA FaultSteady ==
    ASSUME StoreTypeOK, NEW t \in Thread, FaultStep(t), ~CommitFails(t)
    PROVE  Steady(t)
<1> USE DEF Positions
<1>1. CASE StatementFails(t)
    <2>1. ~InTransaction(t) /\ Query /\ Faulty /\ Return(t)
        BY <1>1 DEF StatementFails, InTransaction
    <2> QED
        BY <2>1, ReturnIs DEF Steady, InTransaction, Query, Faulty
<1>2. CASE ExistsFails(t)
    <2>1. At(t, "exists") /\ Query /\ Faulty
        BY <1>2 DEF ExistsFails
    <2> QED
        BY <1>2, <2>1, ExistsIs DEF Steady, InTransaction, At, Query, Faulty
<1>3. CASE MarkFails(t)
    <2>1. InTransaction(t) /\ Query /\ Faulty /\ Goto(t, "rollback")
        BY <1>3 DEF MarkFails, InTransaction
    <2> QED
        BY <2>1, GotoIs DEF Steady, InTransaction, Query, Faulty
<1> QED
    BY <1>1, <1>2, <1>3 DEF FaultStep

LEMMA StepSteady ==
    ASSUME StoreTypeOK, [Next]_vars
    PROVE  \/ UNCHANGED deviceVars
           \/ Crash
           \/ \E t \in Thread : Opens(t) \/ Closes(t) \/ CommitFails(t) \/ Steady(t)
BY StoreSteady, TrackerSteady, ResolverSteady, FaultSteady DEF Next, Synchronise, vars

\* What opening and closing do.
LEMMA OpensIs ==
    ASSUME StoreTypeOK, NEW t \in Thread, Opens(t)
    PROVE  /\ Alone(t) /\ call'[t].at = "clean" /\ call[t].at = "begin"
           /\ call'[t].e = call[t].e /\ call'[t].then = call[t].then
           /\ undo = NoDb /\ undo' = db /\ db' = db /\ lastId' = lastId
           /\ mix' = mix /\ saved' = saved
<1>1. At(t, "begin") /\ BeginTransaction /\ Goto(t, "clean") /\ Still /\ CanBegin
    BY DEF Opens, Begin
<1> QED
    BY <1>1, GotoIs DEF At, BeginTransaction, Still, CanBegin, Positions, SameCall

LEMMA ClosesIs ==
    ASSUME StoreTypeOK, NEW t \in Thread, Closes(t)
    PROVE  /\ Alone(t) /\ call'[t].at = "idle" /\ call'[t].then = FALSE
           /\ call[t].at \in {"commit", "rollback"}
           /\ undo' = NoDb /\ lastId' = lastId /\ mix' = mix /\ saved' = saved
           /\ db' = db \/ db' = (IF undo = NoDb THEN db ELSE undo)
<1>1. /\ call[t].at \in {"commit", "rollback"} /\ (Commit \/ Rollback) /\ Return(t) /\ Still
    BY DEF Closes, CommitMark, RollbackMark, At
<1> QED
    BY <1>1, ReturnIs DEF Commit, Rollback, Still

LEMMA InitTransaction ==
    Init => OneTransaction
BY InitIs DEF OneTransaction, InTransaction

LEMMA NextTransaction ==
    ASSUME StoreTypeOK, OneTransaction, [Next]_vars
    PROVE  OneTransaction'
<1>0. undo # NoDb <=> undo \in Db
    BY LocalStoreAssumption DEF StoreTypeOK
<1>1. CASE UNCHANGED deviceVars
    BY <1>1 DEF deviceVars, OneTransaction, Safe, InTransaction
<1>2. CASE Crash
    BY <1>2, CrashIs DEF OneTransaction, Safe, InTransaction
<1>3. ASSUME NEW t \in Thread, Steady(t)
      PROVE  OneTransaction'
    <2>1. \A u \in Thread : InTransaction(u)' <=> InTransaction(u)
        BY <1>3 DEF Steady, Alone, InTransaction
    <2>2. undo' = undo /\ mix' = mix
        BY <1>3 DEF Steady
    <2> QED
        BY <2>1, <2>2 DEF OneTransaction, Safe
<1>4. ASSUME NEW t \in Thread, Opens(t)
      PROVE  OneTransaction'
    <2>1. InTransaction(t)' /\ \A u \in Thread \ {t} : InTransaction(u)' <=> InTransaction(u)
        BY <1>4, OpensIs DEF Alone, InTransaction
    <2>2. undo = NoDb /\ undo' # NoDb /\ mix' = mix
        BY <1>4, OpensIs, LocalStoreAssumption DEF StoreTypeOK
    <2> QED
        BY <2>1, <2>2 DEF OneTransaction, Safe
<1>5. ASSUME NEW t \in Thread, Closes(t)
      PROVE  OneTransaction'
    <2>1. /\ InTransaction(t) /\ ~InTransaction(t)'
          /\ \A u \in Thread \ {t} : InTransaction(u)' <=> InTransaction(u)
        BY <1>5, ClosesIs DEF Alone, InTransaction
    <2>2. undo' = NoDb /\ mix' = mix
        BY <1>5, ClosesIs
    <2> QED
        BY <2>1, <2>2 DEF OneTransaction, Safe
<1>6. ASSUME NEW t \in Thread, CommitFails(t)
      PROVE  OneTransaction'
    BY <1>6 DEF CommitFails, Risk, Faulty, OneTransaction, Safe
<1> QED
    BY <1>1, <1>2, <1>3, <1>4, <1>5, <1>6, StepSteady

-----------------------------------------------------------------------------
(* What happens while a transaction is open.                               *)

\* Where nobody writes in another's transaction, only marks are undone.
Unmixed == Safe({"commit_error", "write_in_transaction"})

UndoInv == Unmixed /\ undo # NoDb => SameContent(undo, db) /\ undo.log = db.log

\* Who writes outside a transaction finds none open.
LEMMA WritesOutside ==
    ASSUME OneTransaction, Unmixed, NEW t \in Thread, MayWrite(t), ~InTransaction(t)
    PROVE  undo = NoDb
BY DEF OneTransaction, Unmixed, Safe, MayWrite, Risk, Others

\* What a step leaves of the contents and of the log of conflicts.
Content(t) ==
    \/ Replace(t) /\ ReferencesHold(call[t].e, call[t].num)
    \/ SoftDelete(t) /\ Here(call[t].e)
    \/ ApplyRaw(t)
Logs(t) == ResetEntry(t) \/ InsertEntry(t) \/ ResolveEntry(t)
Kept == SameContent(db, db') /\ db'.log = db.log /\ saved' = saved /\ undo' = undo

LEMMA SameIs ==
    /\ \A d : SameContent(d, d)
    /\ \A d, u : SameContent(d, u) => SameContent(u, d)
    /\ \A d, u, v : SameContent(d, u) /\ SameContent(u, v) => SameContent(d, v)
BY DEF SameContent

LEMMA StoreKeeps ==
    ASSUME StoreTypeOK, NEW t \in Thread, StoreStep(t), ~Content(t)
    PROVE  Kept
<1>1. ASSUME Query, saved' = saved
      PROVE  Kept
    BY <1>1, SameIs DEF Kept, Query
<1>2. ASSUME NEW e \in mix.of, NEW n \in Number, Save(t, e, n)
      PROVE  Kept
    BY <1>1, <1>2 DEF Save, Starts
<1>3. ASSUME NEW e \in mix.of, Delete(t, e)
      PROVE  Kept
    BY <1>1, <1>3 DEF Delete, Starts
<1>4. CASE CheckNumber(t) \/ CheckExists(t)
    BY <1>1, <1>4 DEF CheckNumber, CheckExists, Still
<1>5. CASE Replace(t)
    BY <1>1, <1>5 DEF Replace, Content
<1>6. CASE SoftDelete(t)
    BY <1>1, <1>6 DEF SoftDelete, Content
<1>7. CASE RecordChange(t)
    <2>1. db' = Recorded(call[t].e, call[t].op) /\ undo' = undo /\ saved' = saved
        BY <1>7 DEF RecordChange, Insert, Still
    <2>2. db'.rows = db.rows /\ db'.log = db.log
        BY <2>1, CallType, RecordedIs DEF StoreTypeOK
    <2> QED
        BY <2>1, <2>2 DEF Kept, SameContent
<1> QED
    BY <1>2, <1>3, <1>4, <1>5, <1>6, <1>7 DEF StoreStep

LEMMA TrackerKeeps ==
    ASSUME StoreTypeOK, NEW t \in Thread, TrackerStep(t), ~Opens(t), ~Closes(t)
    PROVE  Kept
<1>0. db \in Db /\ mix.of \subseteq Entity
    BY MixIs DEF StoreTypeOK
<1>1. ASSUME Query, saved' = saved
      PROVE  Kept
    BY <1>1, SameIs DEF Kept, Query
<1>2. ASSUME NEW new, Execute(new), SameContent(db, new), new.log = db.log, saved' = saved
      PROVE  Kept
    BY <1>2 DEF Kept, Execute
<1>3. ASSUME NEW new, Execute(new), new.rows = db.rows, new.log = db.log, saved' = saved
      PROVE  Kept
    BY <1>3 DEF Kept, Execute, SameContent
<1>4. ASSUME NEW e \in mix.of, MarkSynced(t, e)
      PROVE  Kept
    BY <1>1, <1>4 DEF MarkSynced, Starts
<1>5. ASSUME NEW e \in mix.of, MarkClean(t, e)
      PROVE  Kept
    BY <1>0, <1>2, <1>5, CleanedIs DEF MarkClean, AtOnce
<1>6. CASE UpdateSyncState(t)
    BY <1>1, <1>6 DEF UpdateSyncState, Starts
<1>7. CASE MarkAllSynced(t)
    BY <1>0, <1>1, <1>2, <1>7, AllSyncedIs DEF MarkAllSynced, AtOnce
<1>8. CASE ClearSyncedChanges(t)
    BY <1>0, <1>3, <1>8, SyncedClearedIs DEF ClearSyncedChanges, AtOnce
<1>9. CASE Begin(t)
    BY <1>1, <1>9 DEF Begin, Opens, Still
<1>10. CASE CleanRow(t)
    BY <1>0, <1>2, <1>10, CallType, CleanedIs DEF CleanRow, Still
<1>11. CASE SyncChanges(t)
    BY <1>0, <1>3, <1>11, CallType, ChangesSyncedIs DEF SyncChanges, Still
<1>12. CASE CountPending(t)
    BY <1>1, <1>12 DEF CountPending, Still
<1>13. CASE WritePending(t)
    BY <1>0, <1>3, <1>13, CallType, PendingWrittenIs DEF WritePending, Still
<1> QED
    BY <1>4, <1>5, <1>6, <1>7, <1>8, <1>9, <1>10, <1>11, <1>12, <1>13 DEF TrackerStep, Closes

LEMMA ResolverKeeps ==
    ASSUME StoreTypeOK, NEW t \in Thread, ResolverStep(t), ~Content(t), ~Logs(t)
    PROVE  Kept
<1>1. ASSUME Query, saved' = saved
      PROVE  Kept
    BY <1>1, SameIs DEF Kept, Query
<1>2. ASSUME NEW e \in mix.of, ReportConflict(t, e)
      PROVE  Kept
    BY <1>1, <1>2 DEF ReportConflict, Starts
<1>3. ASSUME NEW id \in DOMAIN db.log, NEW w \in Winner, ResolveManually(t, id, w)
      PROVE  Kept
    BY <1>1, <1>3 DEF ResolveManually, Starts
<1>4. CASE LookForEntry(t) \/ ReadLastId(t) \/ ReadEntry(t) \/ ApplyTyped(t)
    BY <1>1, <1>4 DEF LookForEntry, ReadLastId, ReadEntry, ApplyTyped, Still
<1>5. ASSUME NEW s \in Strategy, ChooseStrategy(t, s)
      PROVE  Kept
    BY <1>1, <1>5 DEF ChooseStrategy, Still
<1>6. CASE PostApply(t)
    <2>1. Execute(Cleaned(call[t].e)) /\ saved' = saved
        BY <1>6 DEF PostApply, Still
    <2> QED
        BY <2>1, CallType, CleanedIs DEF StoreTypeOK, Execute, Kept
<1> QED
    BY <1>2, <1>3, <1>4, <1>5, <1>6 DEF ResolverStep, Content, Logs

LEMMA FaultKeeps ==
    ASSUME StoreTypeOK, NEW t \in Thread, FaultStep(t)
    PROVE  Kept
<1>1. Query /\ Faulty
    BY DEF FaultStep, StatementFails, ExistsFails, MarkFails, CommitFails
<1> QED
    BY <1>1, SameIs DEF Kept, Query, Faulty

LEMMA StepKeeps ==
    ASSUME StoreTypeOK, [Next]_vars
    PROVE  \/ Kept
           \/ Crash
           \/ \E t \in Thread : Opens(t) \/ Closes(t) \/ Content(t) \/ Logs(t)
<1>1. CASE UNCHANGED deviceVars
    BY <1>1, SameIs DEF deviceVars, Kept
<1> QED
    BY <1>1, StoreKeeps, TrackerKeeps, ResolverKeeps, FaultKeeps DEF Next, Synchronise, vars

\* Contents and log are written where no transaction is open.
LEMMA WritersOutside ==
    ASSUME OneTransaction, Unmixed, NEW t \in Thread, Content(t) \/ Logs(t)
    PROVE  undo = NoDb /\ undo' = NoDb
<1>1. MayWrite(t) /\ ~InTransaction(t)
    BY DEF Content, Logs, Replace, SoftDelete, ApplyRaw, ResetEntry, InsertEntry, ResolveEntry,
           MayInsert, At, InTransaction
<1>2. undo' = undo
    BY DEF Content, Logs, Replace, SoftDelete, ApplyRaw, ResetEntry, InsertEntry, ResolveEntry,
           Insert, Execute, Query
<1> QED
    BY <1>1, <1>2, WritesOutside

LEMMA MixStays ==
    ASSUME StoreTypeOK, [Next]_vars
    PROVE  mix' = mix
<1>1. CASE UNCHANGED deviceVars
    BY <1>1 DEF deviceVars
<1>2. CASE Crash
    BY <1>2, CrashIs
<1>3. ASSUME NEW t \in Thread, Opens(t) \/ Closes(t) \/ CommitFails(t) \/ Steady(t)
      PROVE  mix' = mix
    BY <1>3, OpensIs, ClosesIs DEF CommitFails, Faulty, Steady
<1> QED
    BY <1>1, <1>2, <1>3, StepSteady

LEMMA NextUndo ==
    ASSUME StoreTypeOK, OneTransaction, UndoInv, [Next]_vars
    PROVE  UndoInv'
<1>0. mix' = mix
    BY MixStays
<1>1. SUFFICES ASSUME Unmixed, undo' # NoDb
               PROVE  SameContent(undo', db') /\ undo'.log = db'.log
    BY <1>0 DEF UndoInv, Unmixed, Safe
<1>2. CASE Kept
    BY <1>1, <1>2, SameIs DEF Kept, UndoInv
<1>3. CASE Crash
    BY <1>1, <1>3, CrashIs
<1>4. ASSUME NEW t \in Thread, Opens(t)
      PROVE  SameContent(undo', db') /\ undo'.log = db'.log
    BY <1>4, OpensIs, SameIs
<1>5. ASSUME NEW t \in Thread, Closes(t)
      PROVE  FALSE
    BY <1>1, <1>5, ClosesIs
<1>6. ASSUME NEW t \in Thread, Content(t) \/ Logs(t)
      PROVE  FALSE
    BY <1>1, <1>6, WritersOutside
<1> QED
    BY <1>2, <1>3, <1>4, <1>5, <1>6, StepKeeps

\* Outside of the steps that write them, contents and log stay, also where a
\* transaction is undone.
LEMMA ContentsStay ==
    ASSUME StoreTypeOK, OneTransaction, UndoInv, Unmixed, [Next]_vars
    PROVE  \/ SameContent(db, db') /\ db'.log = db.log /\ saved' = saved
           \/ \E t \in Thread : Content(t) \/ Logs(t)
<1>1. undo # NoDb => SameContent(db, undo) /\ undo.log = db.log
    BY SameIs DEF UndoInv
<1>2. CASE Kept
    BY <1>2 DEF Kept
<1>3. CASE Crash
    BY <1>1, <1>3, CrashIs, SameIs
<1>4. ASSUME NEW t \in Thread, Opens(t)
      PROVE  SameContent(db, db') /\ db'.log = db.log /\ saved' = saved
    BY <1>4, OpensIs, SameIs
<1>5. ASSUME NEW t \in Thread, Closes(t)
      PROVE  SameContent(db, db') /\ db'.log = db.log /\ saved' = saved
    <2>1. saved' = saved /\ (db' = db \/ db' = (IF undo = NoDb THEN db ELSE undo))
        BY <1>5, ClosesIs
    <2>2. db' = db \/ (undo # NoDb /\ db' = undo)
        BY <2>1
    <2>3. SameContent(db, db)
        BY SameIs
    <2> QED
        BY <1>1, <2>1, <2>2, <2>3
<1> QED
    BY <1>2, <1>3, <1>4, <1>5, StepKeeps

-----------------------------------------------------------------------------
(* Numbers, and what was saved.                                            *)

\* A save that has found its number free.
Claims(t) == call[t].at \in {"exists", "replace"} /\ KindOf[call[t].e] \in Numbered

\* Where saves of one number do not overlap, and nobody writes in another's
\* transaction.
Apart == Safe({"same_number", "write_in_transaction", "commit_error"})

\* A number that a save has found free stays free until its row is written.
NumbersInv ==
    Apart =>
        /\ \A t \in Thread : Claims(t) => ~NumberTaken(call[t].e, call[t].num)
        /\ \A t, u \in Thread : Claims(t) /\ Claims(u) /\ t # u => call[t].num # call[u].num

LEMMA ApartUnmixed == Apart => Unmixed
BY DEF Apart, Unmixed, Safe

\* How a call comes to its claim.
LEMMA ClaimStep ==
    ASSUME StoreTypeOK, [Next]_vars, NEW t \in Thread, Claims(t)'
    PROVE  /\ call'[t].e = call[t].e /\ call'[t].num = call[t].num
           /\ \/ Claims(t)
              \/ /\ ~NumberTaken(call[t].e, call[t].num) /\ db' = db /\ Alone(t)
                 /\ Apart => \A u \in Thread \ {t} : ~(/\ call[u].at \in {"exists", "replace"}
                                                       /\ call[u].num = call[t].num)
<1> USE DEF Positions
<1> DEFINE Claimed ==
           /\ call'[t].e = call[t].e /\ call'[t].num = call[t].num
           /\ \/ Claims(t)
              \/ /\ ~NumberTaken(call[t].e, call[t].num) /\ db' = db /\ Alone(t)
                 /\ Apart => \A u \in Thread \ {t} : ~(/\ call[u].at \in {"exists", "replace"}
                                                       /\ call[u].num = call[t].num)
<1>1. CASE call'[t] = call[t]
    BY <1>1 DEF Claims
<1>2. CASE Crash
    BY <1>2, CrashIs DEF Claims
<1>3. CASE \E u \in Thread \ {t} : StoreStep(u) \/ TrackerStep(u) \/ ResolverStep(u) \/ FaultStep(u)
    <2>1. \A u \in Thread \ {t} : Alone(u) => call'[t] = call[t]
        BY DEF Alone
    <2>2. \A u \in Thread : CommitFails(u) => Alone(u)
        BY ReturnIs DEF CommitFails
    <2> QED
        BY <1>1, <1>3, <2>1, <2>2, StoreSteady, TrackerSteady, ResolverSteady, FaultSteady,
           OpensIs, ClosesIs DEF Steady
<1>4. ASSUME NEW e \in mix.of, NEW n \in Number, Save(t, e, n)
      PROVE  Claimed
    <2>1. e \in Entity
        BY MixIs
    <2> QED
        BY <1>4, <2>1, SaveIs DEF Claims
<1>5. ASSUME NEW e \in mix.of, Delete(t, e)
      PROVE  Claimed
    <2>1. e \in Entity
        BY MixIs
    <2> QED
        BY <1>5, <2>1, DeleteIs DEF Claims
<1>6. CASE CheckNumber(t)
    <2>1. CASE NumberTaken(call[t].e, call[t].num)
        <3>1. Return(t)
            BY <1>6, <2>1 DEF CheckNumber
        <3> QED
            BY <3>1, ReturnIs DEF Claims
    <2>2. CASE ~NumberTaken(call[t].e, call[t].num)
        <3>1. /\ Goto(t, "exists") /\ Query
              /\ Risk("same_number") \/ \A u \in Others(t) : ~(/\ call[u].at \in {"exists", "replace"}
                                                               /\ call[u].num = call[t].num)
            BY <1>6, <2>2 DEF CheckNumber
        <3>2. Apart => ~Risk("same_number")
            BY DEF Apart, Safe, Risk
        <3>3. call'[t].e = call[t].e /\ call'[t].num = call[t].num /\ Alone(t) /\ db' = db
            BY <3>1, GotoIs DEF SameCall, Query
        <3> QED
            BY <2>2, <3>1, <3>2, <3>3 DEF Others
    <2> QED
        BY <2>1, <2>2
<1>7. CASE CheckExists(t) \/ ExistsFails(t)
    <2>1. call[t].at = "exists"
        BY <1>7 DEF CheckExists, ExistsFails, At
    <2> QED
        BY <1>7, <2>1, ExistsIs DEF Claims
<1>8. CASE Replace(t) \/ SoftDelete(t) \/ RecordChange(t)
    <2>1. Return(t) \/ Goto(t, "record") \/ Goto(t, "post")
        BY <1>8 DEF Replace, SoftDelete, RecordChange
    <2> QED
        BY <2>1, ReturnIs, GotoIs DEF Claims
<1>9. CASE StoreStep(t)
    BY <1>4, <1>5, <1>6, <1>7, <1>8, <1>9 DEF StoreStep
<1>10. CASE TrackerStep(t)
    <2>1. ASSUME NEW e \in mix.of, MarkSynced(t, e)
          PROVE  Claimed
        <3>1. e \in Entity
            BY MixIs
        <3> QED
            BY <2>1, <3>1, MarkSyncedIs DEF Claims
    <2>2. ASSUME AtOnce(t)
          PROVE  Claimed
        BY <1>1, <2>2 DEF AtOnce
    <2>3. CASE CountPending(t)
        BY <2>3, CountIs DEF Claims
    <2>4. CASE \/ UpdateSyncState(t) \/ Begin(t) \/ CleanRow(t) \/ SyncChanges(t)
               \/ CommitMark(t) \/ RollbackMark(t) \/ WritePending(t)
        <3>1. \/ Return(t) \/ Goto(t, "count") \/ Goto(t, "clean") \/ Goto(t, "synced")
              \/ Goto(t, "commit")
            BY <2>4 DEF UpdateSyncState, Begin, CleanRow, SyncChanges, CommitMark,
               RollbackMark, WritePending
        <3> QED
            BY <3>1, ReturnIs, GotoIs DEF Claims
    <2> QED
        BY <1>10, <2>1, <2>2, <2>3, <2>4 DEF TrackerStep, MarkClean, MarkAllSynced,
           ClearSyncedChanges
<1>11. CASE ResolverStep(t)
    <2>1. ASSUME NEW e \in mix.of, ReportConflict(t, e)
          PROVE  Claimed
        <3>1. e \in Entity
            BY MixIs
        <3> QED
            BY <2>1, <3>1, ReportIs DEF Claims
    <2>2. ASSUME NEW id \in DOMAIN db.log, NEW w \in Winner, ResolveManually(t, id, w)
          PROVE  Claimed
        BY <2>2, ManualIs DEF Claims
    <2>3. ASSUME NEW s \in Strategy, ChooseStrategy(t, s)
          PROVE  Claimed
        BY <2>3, StrategyIs DEF Claims
    <2>4. CASE LookForEntry(t)
        BY <2>4, LookIs DEF Claims
    <2>5. CASE ReadLastId(t)
        BY <2>5, LastIdIs DEF Claims
    <2>6. CASE ReadEntry(t)
        BY <2>6, EntryIs DEF Claims
    <2>7. CASE ResolveEntry(t)
        BY <2>7, ResolveIs DEF Claims
    <2>8. CASE ApplyTyped(t)
        BY <2>8, ApplyTypedIs DEF Claims
    <2>9. CASE ResetEntry(t) \/ InsertEntry(t) \/ ApplyRaw(t) \/ PostApply(t)
        <3>1. Return(t) \/ Goto(t, "strategy") \/ Goto(t, "lastid") \/ Goto(t, "post")
            BY <2>9 DEF ResetEntry, InsertEntry, ApplyRaw, PostApply
        <3> QED
            BY <3>1, ReturnIs, GotoIs DEF Claims
    <2> QED
        BY <1>11, <2>1, <2>2, <2>3, <2>4, <2>5, <2>6, <2>7, <2>8, <2>9 DEF ResolverStep
<1>12. CASE FaultStep(t)
    <2>1. CASE StatementFails(t) \/ MarkFails(t) \/ CommitFails(t)
        <3>1. Return(t) \/ Goto(t, "rollback")
            BY <2>1 DEF StatementFails, MarkFails, CommitFails
        <3> QED
            BY <3>1, ReturnIs, GotoIs DEF Claims
    <2> QED
        BY <1>7, <1>12, <2>1 DEF FaultStep
<1>13. CASE UNCHANGED deviceVars
    BY <1>1, <1>13 DEF deviceVars
<1> QED
    BY <1>2, <1>3, <1>9, <1>10, <1>11, <1>12, <1>13 DEF Next, Synchronise, vars

\* A save whose number is free removes no other row.
LEMMA NothingDisplaced ==
    ASSUME StoreTypeOK, NumbersInv, Apart, NEW t \in Thread, Replace(t)
    PROVE  Displaced(call[t].e, call[t].num) = {}
<1>1. call[t].at = "replace"
    BY DEF Replace, At
<1>2. CASE KindOf[call[t].e] = "account"
    <2>1. ~NumberTaken(call[t].e, call[t].num)
        BY <1>1, <1>2 DEF NumbersInv, Claims, Numbered
    <2> QED
        BY <1>2, <2>1 DEF NumberTaken, Displaced
<1>3. CASE KindOf[call[t].e] # "account"
    BY <1>3 DEF Displaced
<1> QED
    BY <1>2, <1>3

\* What writing a row does to the rows, and to what was saved.
LEMMA ContentIs ==
    ASSUME StoreTypeOK, NumbersInv, Apart, NEW t \in Thread, Content(t)
    PROVE  /\ \A o \in Entity \ {call[t].e} :
                /\ db'.rows[o] = db.rows[o] /\ saved'[o] = saved[o]
           /\ db'.rows[call[t].e].ver = saved'[call[t].e] \/ UNCHANGED <<db, saved>>
           /\ db'.log = db.log
           /\ \/ /\ Replace(t) /\ db'.rows[call[t].e].num = call[t].num
                 /\ call'[t].at = "record"
              \/ \A o \in Entity : db'.rows[o].num = db.rows[o].num /\ (Here(o)' => Here(o))
<1>0. db \in Db /\ saved \in [Entity -> Nat]
    BY DEF StoreTypeOK
<1>1. CASE Replace(t) /\ ReferencesHold(call[t].e, call[t].num)
    <2>1. /\ db' = Replaced(call[t].e, call[t].num, call[t].ver)
          /\ saved' = [saved EXCEPT ![call[t].e] = call[t].ver]
          /\ Goto(t, "record")
        BY <1>1 DEF Replace, Insert
    <2>2. Displaced(call[t].e, call[t].num) = {}
        BY <1>1, NothingDisplaced
    <2>3. /\ \A o \in Entity \ {call[t].e} : db'.rows[o] = db.rows[o]
          /\ db'.rows[call[t].e] = [ver |-> call[t].ver, num |-> call[t].num, dirty |-> TRUE]
          /\ db'.log = db.log
        BY <1>0, <2>1, <2>2, CallType, ReplacedIs
    <2>4. call'[t].at = "record"
        BY <2>1, GotoIs DEF Positions
    <2>5. /\ saved'[call[t].e] = call[t].ver
          /\ \A o \in Entity \ {call[t].e} : saved'[o] = saved[o]
        BY <1>0, <2>1, CallType
    <2> QED
        BY <1>1, <2>3, <2>4, <2>5
<1>2. CASE SoftDelete(t) /\ Here(call[t].e)
    <2>1. /\ db' = SoftDeleted(call[t].e, call[t].ver)
          /\ saved' = [saved EXCEPT ![call[t].e] = call[t].ver]
        BY <1>2 DEF SoftDelete, Execute
    <2>2. /\ \A o \in Entity \ {call[t].e} : db'.rows[o] = db.rows[o]
          /\ db'.rows[call[t].e] = [ver |-> call[t].ver, num |-> db.rows[call[t].e].num,
                                    dirty |-> TRUE]
          /\ db'.log = db.log
        BY <1>0, <2>1, CallType, SoftDeletedIs
    <2>3. /\ saved'[call[t].e] = call[t].ver
          /\ \A o \in Entity \ {call[t].e} : saved'[o] = saved[o]
        BY <1>0, <2>1, CallType
    <2>4. \A o \in Entity : db'.rows[o].num = db.rows[o].num /\ (Here(o)' => Here(o))
        BY <1>2, <2>2 DEF Here
    <2> QED
        BY <2>2, <2>3, <2>4
<1>3. CASE ApplyRaw(t)
    <2>1. /\ db' = RawApplied(call[t].e, call[t].ver)
          /\ saved' = [saved EXCEPT ![call[t].e] = IF Here(call[t].e) THEN call[t].ver ELSE @]
        BY <1>3 DEF ApplyRaw, Execute
    <2>2. /\ \A o \in Entity \ {call[t].e} : db'.rows[o] = db.rows[o]
          /\ \A o \in Entity : db'.rows[o].num = db.rows[o].num
          /\ Here(call[t].e) => db'.rows[call[t].e].ver = call[t].ver
          /\ ~Here(call[t].e) => db' = db
          /\ db'.log = db.log
        BY <1>0, <2>1, CallType, RawAppliedIs
    <2>3. /\ Here(call[t].e) => saved'[call[t].e] = call[t].ver
          /\ ~Here(call[t].e) => saved' = saved
          /\ \A o \in Entity \ {call[t].e} : saved'[o] = saved[o]
        BY <1>0, <2>1, CallType
    <2>4. \A o \in Entity : db'.rows[o].num = db.rows[o].num /\ (Here(o)' => Here(o))
        BY <2>2 DEF Here
    <2> QED
        BY <2>2, <2>3, <2>4
<1> QED
    BY <1>1, <1>2, <1>3 DEF Content

LEMMA LogsIs ==
    ASSUME StoreTypeOK, NEW t \in Thread, Logs(t)
    PROVE  db'.rows = db.rows /\ db'.changes = db.changes /\ saved' = saved
<1>0. db \in Db
    BY DEF StoreTypeOK
<1>1. CASE ResetEntry(t)
    <2>1. PICK i, l \in Nat, r \in Nat : i = call[t].id /\ l = call[t].local /\ r = call[t].remote
        BY CallType
    <2>2. db' = Reset(i, l, r) /\ saved' = saved
        BY <1>1, <2>1 DEF ResetEntry, Execute, Still
    <2>3. db'.rows = db.rows /\ db'.changes = db.changes
        <3>1. PICK log : db' = [db EXCEPT !.log = log]
            BY <2>2 DEF Reset
        <3> QED
            BY <1>0, <3>1 DEF Db
    <2> QED
        BY <2>2, <2>3
<1>2. CASE InsertEntry(t)
    BY <1>0, <1>2, CallType, LoggedIs DEF InsertEntry, Insert, Still
<1>3. CASE ResolveEntry(t)
    <2>1. PICK won \in Nat, lost \in Nat : db' = ResolvedAs(call[t].id, won, lost)
        BY <1>3, ResolveIs, CallType
    <2> QED
        BY <1>0, <1>3, <2>1, CallType, ResolvedIs DEF ResolveEntry, Still
<1> QED
    BY <1>1, <1>2, <1>3 DEF Logs

LEMMA InitNumbers ==
    Init => NumbersInv /\ NumbersUnique /\ Durable
BY InitIs DEF NumbersInv, NumbersUnique, Durable, Claims

LEMMA NextNumbers ==
    ASSUME StoreTypeOK, OneTransaction, UndoInv, NumbersInv, NumbersUnique, [Next]_vars
    PROVE  NumbersInv' /\ NumbersUnique'
<1>0. mix' = mix
    BY MixStays
<1>1. SUFFICES ASSUME Apart
               PROVE  NumbersInv' /\ NumbersUnique'
    BY <1>0 DEF Apart, NumbersInv, NumbersUnique, Safe
<1>2. Unmixed
    BY <1>1, ApartUnmixed
<1>3. \A t \in Thread : call[t].e \in Entity
    BY CallType
<1>4. ASSUME \A o \in Entity : db'.rows[o].num = db.rows[o].num /\ (Here(o)' => Here(o))
      PROVE  NumbersInv' /\ NumbersUnique'
    <2>1. ASSUME NEW e, NEW n, NumberTaken(e, n)'
          PROVE  NumberTaken(e, n)
        BY <1>4, <2>1 DEF NumberTaken
    <2>2. NumbersUnique'
        BY <1>1, <1>4 DEF NumbersUnique, Apart, Safe
    <2>3. ASSUME NEW t \in Thread, Claims(t)'
          PROVE  ~NumberTaken(call[t].e, call[t].num)'
        <3>1. call'[t].e = call[t].e /\ call'[t].num = call[t].num
              /\ ~NumberTaken(call[t].e, call[t].num)
            BY <1>1, <2>3, ClaimStep DEF NumbersInv
        <3>2. PICK e, n : e = call[t].e /\ n = call[t].num
            OBVIOUS
        <3>3. ~NumberTaken(e, n)'
            BY <2>1, <3>1, <3>2
        <3> QED
            BY <3>1, <3>2, <3>3 DEF NumberTaken
    <2>4. ASSUME NEW t \in Thread, NEW u \in Thread, Claims(t)', Claims(u)', t # u
          PROVE  call'[t].num # call'[u].num
        <3>1. /\ call'[t].num = call[t].num /\ call'[u].num = call[u].num
              /\ \/ Claims(t) /\ Claims(u)
                 \/ \A v \in Thread \ {t} : ~(call[v].at \in {"exists", "replace"}
                                              /\ call[v].num = call[t].num)
                 \/ \A v \in Thread \ {u} : ~(call[v].at \in {"exists", "replace"}
                                              /\ call[v].num = call[u].num)
            BY <1>1, <2>4, ClaimStep
        <3>2. CASE Claims(t) /\ Claims(u)
            BY <1>1, <2>4, <3>1, <3>2 DEF NumbersInv
        <3>3. CASE ~Claims(t)
            <4>1. \A v \in Thread \ {t} : ~(call[v].at \in {"exists", "replace"}
                                            /\ call[v].num = call[t].num)
                BY <1>1, <2>4, <3>3, ClaimStep
            <4>2. call'[u] = call[u]
                BY <2>4, <3>3, ClaimStep DEF Alone
            <4>3. call[u].at \in {"exists", "replace"}
                BY <2>4, <4>2 DEF Claims
            <4> QED
                BY <2>4, <3>1, <4>1, <4>3
        <3>4. CASE ~Claims(u)
            <4>1. \A v \in Thread \ {u} : ~(call[v].at \in {"exists", "replace"}
                                            /\ call[v].num = call[u].num)
                BY <1>1, <2>4, <3>4, ClaimStep
            <4>2. call'[t] = call[t]
                BY <2>4, <3>4, ClaimStep DEF Alone
            <4>3. call[t].at \in {"exists", "replace"}
                BY <2>4, <4>2 DEF Claims
            <4> QED
                BY <2>4, <3>1, <4>1, <4>3
        <3> QED
            BY <3>2, <3>3, <3>4
    <2> QED
        BY <2>2, <2>3, <2>4 DEF NumbersInv
<1>5. CASE SameContent(db, db')
    BY <1>4, <1>5 DEF SameContent, Here
<1>6. ASSUME NEW t \in Thread, Logs(t)
      PROVE  NumbersInv' /\ NumbersUnique'
    BY <1>4, <1>6, LogsIs DEF Here
<1>7. ASSUME NEW t \in Thread, Content(t), Replace(t),
             db'.rows[call[t].e].num = call[t].num, call'[t].at = "record"
      PROVE  NumbersInv' /\ NumbersUnique'
    <2>1. call[t].at = "replace"
        BY <1>7 DEF Replace, At
    <2>2. \A o \in Entity \ {call[t].e} : db'.rows[o] = db.rows[o]
        BY <1>1, <1>7, ContentIs
    <2>3. Alone(t)
        BY <1>7, StoreSteady DEF StoreStep, Steady
    <2>4. KindOf[call[t].e] \in Numbered => Claims(t) /\ ~NumberTaken(call[t].e, call[t].num)
        BY <1>1, <2>1 DEF Claims, NumbersInv
    <2>5. NumbersUnique'
        <3> SUFFICES ASSUME NEW e \in Entity, NEW f \in Entity, e # f, KindOf[e] = KindOf[f],
                            KindOf[e] \in Numbered, Here(e)', Here(f)',
                            db'.rows[e].num = db'.rows[f].num
                     PROVE  FALSE
            BY DEF NumbersUnique
        <3>1. CASE e # call[t].e /\ f # call[t].e
            BY <1>1, <2>2, <3>1 DEF NumbersUnique, Apart, Safe, Here
        <3>2. CASE e = call[t].e
            BY <1>7, <2>2, <2>4, <3>2 DEF NumberTaken, Here
        <3>3. CASE f = call[t].e
            BY <1>7, <2>2, <2>4, <3>3 DEF NumberTaken, Here
        <3> QED
            BY <3>1, <3>2, <3>3
    <2>6. ASSUME NEW u \in Thread, Claims(u)'
          PROVE  u # t /\ Claims(u) /\ call'[u] = call[u]
        BY <1>7, <2>3, <2>6 DEF Claims, Alone
    <2>7. ASSUME NEW u \in Thread, Claims(u)', NumberTaken(call[u].e, call[u].num)'
          PROVE  FALSE
        <3>1. PICK o \in Entity \ {call[u].e} :
                 KindOf[o] = KindOf[call[u].e] /\ Here(o)' /\ db'.rows[o].num = call[u].num
            BY <2>6, <2>7 DEF NumberTaken
        <3>2. CASE o = call[t].e
            <4>1. KindOf[call[t].e] \in Numbered
                BY <2>6, <2>7, <3>1, <3>2 DEF Claims
            <4> QED
                BY <1>1, <1>7, <2>4, <2>6, <2>7, <3>1, <3>2, <4>1 DEF NumbersInv
        <3>3. CASE o # call[t].e
            BY <1>1, <2>2, <2>6, <2>7, <3>1, <3>3 DEF NumbersInv, NumberTaken, Here
        <3> QED
            BY <3>2, <3>3
    <2>8. NumbersInv'
        BY <1>1, <2>6, <2>7 DEF NumbersInv
    <2> QED
        BY <2>5, <2>8
<1>8. ASSUME NEW t \in Thread, Content(t)
      PROVE  NumbersInv' /\ NumbersUnique'
    BY <1>1, <1>4, <1>7, <1>8, ContentIs
<1> QED
    BY <1>2, <1>5, <1>6, <1>8, ContentsStay

LEMMA NextDurable ==
    ASSUME StoreTypeOK, OneTransaction, UndoInv, NumbersInv, Durable, [Next]_vars
    PROVE  Durable'
<1>0. mix' = mix
    BY MixStays
<1>1. SUFFICES ASSUME Apart
               PROVE  \A e \in Entity : db'.rows[e].ver = saved'[e]
    BY <1>0 DEF Apart, Durable, Safe
<1>2. Unmixed /\ \A e \in Entity : db.rows[e].ver = saved[e]
    BY <1>1, ApartUnmixed DEF Durable, Apart, Safe
<1>3. CASE SameContent(db, db') /\ saved' = saved
    BY <1>2, <1>3 DEF SameContent
<1>4. ASSUME NEW t \in Thread, Logs(t)
      PROVE  \A e \in Entity : db'.rows[e].ver = saved'[e]
    BY <1>2, <1>4, LogsIs
<1>5. ASSUME NEW t \in Thread, Content(t)
      PROVE  \A e \in Entity : db'.rows[e].ver = saved'[e]
    BY <1>1, <1>2, <1>5, ContentIs, CallType
<1> QED
    BY <1>2, <1>3, <1>4, <1>5, ContentsStay

-----------------------------------------------------------------------------
(* The change log.                                                         *)

\* Where no save ends between its row and its entry, and nobody writes in
\* another's transaction.
Marked == Safe({"commit_error", "write_in_transaction", "unlogged"})

\* A dirty row is known to the change log, or about to be.
Known(d) ==
    \A e \in Entity : d.rows[e].dirty => Pends(d, e) \/ \E t \in Thread : Saving(t, e)

\* So it is in the tables and in what a ROLLBACK returns to; and between its
\* two statements mark_synced finds the row clean that it has cleaned.
PendingInv ==
    Marked =>
        /\ Known(db)
        /\ undo # NoDb => Known(undo)
        /\ \A t \in Thread : At(t, "synced") => ~Dirty(call[t].e)

LEMMA MarkedUnmixed == Marked => Unmixed
BY DEF Marked, Unmixed, Safe

\* How a call leaves the entry it owes, and how it comes between the two
\* statements of mark_synced.
LEMMA OwedStep ==
    ASSUME StoreTypeOK, [Next]_vars, Marked, NEW t \in Thread
    PROVE  /\ At(t, "record") => call'[t] = call[t] \/ RecordChange(t)
           /\ At(t, "synced")' => call'[t] = call[t] \/ CleanRow(t)
<1> USE DEF Positions
<1> DEFINE Fine == /\ At(t, "record") => call'[t] = call[t] \/ RecordChange(t)
                   /\ At(t, "synced")' => call'[t] = call[t] \/ CleanRow(t)
<1>0. ~Risk("unlogged") /\ ~Risk("commit_error")
    BY DEF Marked, Safe, Risk
<1>1. CASE call'[t] = call[t]
    BY <1>1 DEF At
<1>2. CASE Crash
    BY <1>0, <1>2, CrashIs DEF Crash, At
<1>3. CASE \E u \in Thread \ {t} : StoreStep(u) \/ TrackerStep(u) \/ ResolverStep(u) \/ FaultStep(u)
    <2>1. \A u \in Thread \ {t} : Alone(u) => call'[t] = call[t]
        BY DEF Alone
    <2>2. \A u \in Thread : CommitFails(u) => Alone(u)
        BY ReturnIs DEF CommitFails
    <2> QED
        BY <1>1, <1>3, <2>1, <2>2, StoreSteady, TrackerSteady, ResolverSteady, FaultSteady,
           OpensIs, ClosesIs DEF Steady
<1>4. ASSUME ~At(t, "record"), Return(t)
      PROVE  Fine
    BY <1>4, ReturnIs DEF At
<1>5. ASSUME ~At(t, "record"), NEW p \in Positions \ {"synced"}, Goto(t, p)
      PROVE  Fine
    BY <1>5, GotoIs DEF At
<1>6. CASE StoreStep(t)
    <2>1. ASSUME NEW e \in mix.of, NEW n \in Number, Save(t, e, n)
          PROVE  Fine
        <3>1. e \in Entity /\ At(t, "idle")
            BY <2>1, MixIs DEF Save, Starts
        <3> QED
            BY <2>1, <3>1, SaveIs DEF At
    <2>2. ASSUME NEW e \in mix.of, Delete(t, e)
          PROVE  Fine
        <3>1. e \in Entity /\ At(t, "idle")
            BY <2>2, MixIs DEF Delete, Starts
        <3> QED
            BY <2>2, <3>1, DeleteIs DEF At
    <2>3. CASE CheckNumber(t)
        <3>1. At(t, "number") /\ (Return(t) \/ Goto(t, "exists"))
            BY <2>3 DEF CheckNumber
        <3> QED
            BY <1>4, <1>5, <3>1 DEF At
    <2>4. CASE CheckExists(t)
        <3>1. At(t, "exists")
            BY <2>4 DEF CheckExists
        <3> QED
            BY <2>4, <3>1, ExistsIs DEF At
    <2>5. CASE Replace(t)
        <3>1. At(t, "replace") /\ (Return(t) \/ Goto(t, "record"))
            BY <2>5 DEF Replace
        <3> QED
            BY <1>4, <1>5, <3>1 DEF At
    <2>6. CASE SoftDelete(t)
        <3>1. At(t, "delete") /\ (Return(t) \/ Goto(t, "record"))
            BY <2>6 DEF SoftDelete
        <3> QED
            BY <1>4, <1>5, <3>1 DEF At
    <2>7. CASE RecordChange(t)
        <3>1. Return(t) \/ Goto(t, "post")
            BY <2>7 DEF RecordChange
        <3> QED
            BY <2>7, <3>1, ReturnIs, GotoIs DEF At
    <2> QED
        BY <1>6, <2>1, <2>2, <2>3, <2>4, <2>5, <2>6, <2>7 DEF StoreStep
<1>7. CASE TrackerStep(t)
    <2>1. ASSUME NEW e \in mix.of, MarkSynced(t, e)
          PROVE  Fine
        <3>1. e \in Entity /\ At(t, "idle")
            BY <2>1, MixIs DEF MarkSynced, Starts
        <3> QED
            BY <2>1, <3>1, MarkSyncedIs DEF At
    <2>2. ASSUME AtOnce(t)
          PROVE  Fine
        BY <1>1, <2>2 DEF AtOnce
    <2>3. CASE CountPending(t)
        <3>1. At(t, "count")
            BY <2>3 DEF CountPending
        <3> QED
            BY <2>3, <3>1, CountIs DEF At
    <2>4. CASE CleanRow(t)
        <3>1. At(t, "clean")
            BY <2>4 DEF CleanRow
        <3> QED
            BY <2>4, <3>1 DEF At
    <2>5. CASE \/ UpdateSyncState(t) \/ Begin(t) \/ SyncChanges(t)
               \/ CommitMark(t) \/ RollbackMark(t) \/ WritePending(t)
        <3>1. ~At(t, "record")
            BY <2>5 DEF UpdateSyncState, Starts, Begin, SyncChanges, CommitMark,
               RollbackMark, WritePending, At
        <3>2. Return(t) \/ Goto(t, "count") \/ Goto(t, "clean") \/ Goto(t, "commit")
            BY <2>5 DEF UpdateSyncState, Begin, SyncChanges, CommitMark,
               RollbackMark, WritePending
        <3> QED
            BY <1>4, <1>5, <3>1, <3>2
    <2> QED
        BY <1>7, <2>1, <2>2, <2>3, <2>4, <2>5 DEF TrackerStep, MarkClean, MarkAllSynced,
           ClearSyncedChanges
<1>8. CASE ResolverStep(t)
    <2>1. ASSUME NEW e \in mix.of, ReportConflict(t, e)
          PROVE  Fine
        <3>1. e \in Entity /\ At(t, "idle")
            BY <2>1, MixIs DEF ReportConflict, Starts
        <3> QED
            BY <2>1, <3>1, ReportIs DEF At
    <2>2. ASSUME NEW id \in DOMAIN db.log, NEW w \in Winner, ResolveManually(t, id, w)
          PROVE  Fine
        <3>1. At(t, "idle")
            BY <2>2 DEF ResolveManually, Starts
        <3> QED
            BY <2>2, <3>1, ManualIs DEF At
    <2>3. ASSUME NEW s \in Strategy, ChooseStrategy(t, s)
          PROVE  Fine
        <3>1. At(t, "strategy")
            BY <2>3 DEF ChooseStrategy
        <3> QED
            BY <2>3, <3>1, StrategyIs DEF At
    <2>4. CASE LookForEntry(t) \/ ReadLastId(t) \/ ReadEntry(t) \/ ResolveEntry(t) \/ ApplyTyped(t)
        <3>1. ~At(t, "record")
            BY <2>4 DEF LookForEntry, ReadLastId, ReadEntry, ResolveEntry, ApplyTyped, At
        <3>2. ~At(t, "synced")'
            BY <2>4, LookIs, LastIdIs, EntryIs, ResolveIs, ApplyTypedIs DEF At
        <3> QED
            BY <3>1, <3>2
    <2>5. CASE ResetEntry(t) \/ InsertEntry(t) \/ ApplyRaw(t) \/ PostApply(t)
        <3>1. ~At(t, "record")
            BY <2>5 DEF ResetEntry, InsertEntry, ApplyRaw, PostApply, At
        <3>2. Return(t) \/ Goto(t, "strategy") \/ Goto(t, "lastid") \/ Goto(t, "post")
            BY <2>5 DEF ResetEntry, InsertEntry, ApplyRaw, PostApply
        <3> QED
            BY <1>4, <1>5, <3>1, <3>2
    <2> QED
        BY <1>8, <2>1, <2>2, <2>3, <2>4, <2>5 DEF ResolverStep
<1>9. CASE FaultStep(t)
    <2>1. ~At(t, "record")
        BY <1>0, <1>9 DEF FaultStep, StatementFails, ExistsFails, MarkFails, CommitFails, At
    <2>2. Return(t) \/ Goto(t, "rollback") \/ ExistsFails(t)
        BY <1>9 DEF FaultStep, StatementFails, MarkFails, CommitFails
    <2> QED
        BY <1>4, <1>5, <2>1, <2>2, ExistsIs DEF At
<1>10. CASE UNCHANGED deviceVars
    BY <1>1, <1>10 DEF deviceVars
<1> QED
    BY <1>2, <1>3, <1>6, <1>7, <1>8, <1>9, <1>10 DEF Next, Synchronise, vars

\* A row becomes dirty when it is written, outside of transactions; and what
\* is dirty stays pending.
Tracked ==
    \A e \in Entity : db'.rows[e].dirty =>
        \/ Dirty(e) /\ KeepsPending(db, db', e)
        \/ undo = NoDb /\ \E t \in Thread : Saving(t, e)'

LEMMA KeepsIs ==
    /\ \A d, e : KeepsPending(d, d, e)
    /\ \A d, u, e : u.changes = d.changes => KeepsPending(d, u, e)
BY DEF KeepsPending, Pends

\* A row has been written, outside of transactions: no other becomes dirty.
LEMMA WrittenTracked ==
    ASSUME NEW t \in Thread, Saving(t, call[t].e)', call'[t].e = call[t].e,
           undo = NoDb, db'.changes = db.changes,
           \A o \in Entity \ {call[t].e} : db'.rows[o].dirty => Dirty(o)
    PROVE  Tracked
<1> SUFFICES ASSUME NEW o \in Entity, db'.rows[o].dirty
             PROVE  \/ Dirty(o) /\ KeepsPending(db, db', o)
                    \/ undo = NoDb /\ \E u \in Thread : Saving(u, o)'
    BY DEF Tracked
<1>1. CASE o = call[t].e
    <2>1. Saving(t, o)'
        BY <1>1 DEF Saving
    <2> QED
        BY <2>1
<1>2. CASE o # call[t].e
    BY <1>2, KeepsIs
<1> QED
    BY <1>1, <1>2

LEMMA StoreTracked ==
    ASSUME StoreTypeOK, OneTransaction, Unmixed, NEW t \in Thread, StoreStep(t)
    PROVE  Tracked
<1>0. db \in Db
    BY DEF StoreTypeOK
<1>1. ASSUME Query
      PROVE  Tracked
    BY <1>1, KeepsIs DEF Tracked, Query, Dirty
<1>2. ASSUME NEW e \in mix.of, NEW n \in Number, Save(t, e, n)
      PROVE  Tracked
    BY <1>1, <1>2 DEF Save, Starts
<1>3. ASSUME NEW e \in mix.of, Delete(t, e)
      PROVE  Tracked
    BY <1>1, <1>3 DEF Delete, Starts
<1>4. CASE CheckNumber(t) \/ CheckExists(t)
    BY <1>1, <1>4 DEF CheckNumber, CheckExists
<1>5. CASE Replace(t)
    <2>1. CASE ReferencesHold(call[t].e, call[t].num)
        <3>1. db' = Replaced(call[t].e, call[t].num, call[t].ver) /\ Goto(t, "record")
            BY <1>5, <2>1 DEF Replace, Insert
        <3>2. call'[t].e = call[t].e /\ Saving(t, call[t].e)'
            BY <3>1, GotoIs DEF Saving, SameCall, Positions
        <3>3. undo = NoDb
            BY <1>5, <2>1, WritersOutside DEF Content
        <3>4. ASSUME NEW o \in Entity \ {call[t].e}, db'.rows[o].dirty
              PROVE  Dirty(o)
            <4>1. CASE o \in Displaced(call[t].e, call[t].num)
                BY <1>0, <3>1, <3>4, <4>1, CallType, ReplacedIs
            <4>2. CASE o \notin Displaced(call[t].e, call[t].num)
                <5>1. db'.rows[o] = db.rows[o]
                    BY <1>0, <3>1, <4>2, CallType, ReplacedIs
                <5> QED
                    BY <3>4, <5>1 DEF Dirty
            <4> QED
                BY <4>1, <4>2
        <3>5. db'.changes = db.changes
            BY <1>0, <3>1, CallType, ReplacedIs
        <3> QED
            BY <3>2, <3>3, <3>4, <3>5, WrittenTracked
    <2>2. CASE ~ReferencesHold(call[t].e, call[t].num)
        BY <1>1, <1>5, <2>2 DEF Replace
    <2> QED
        BY <2>1, <2>2
<1>6. CASE SoftDelete(t)
    <2>1. CASE Here(call[t].e)
        <3>1. db' = SoftDeleted(call[t].e, call[t].ver) /\ Goto(t, "record")
            BY <1>6, <2>1 DEF SoftDelete, Execute
        <3>2. call'[t].e = call[t].e /\ Saving(t, call[t].e)'
            BY <3>1, GotoIs DEF Saving, SameCall, Positions
        <3>3. undo = NoDb
            BY <1>6, <2>1, WritersOutside DEF Content
        <3>4. ASSUME NEW o \in Entity \ {call[t].e}, db'.rows[o].dirty
              PROVE  Dirty(o)
            <4>1. db'.rows[o] = db.rows[o]
                BY <1>0, <3>1, CallType, SoftDeletedIs
            <4> QED
                BY <3>4, <4>1 DEF Dirty
        <3>5. db'.changes = db.changes
            BY <1>0, <3>1, CallType, SoftDeletedIs
        <3> QED
            BY <3>2, <3>3, <3>4, <3>5, WrittenTracked
    <2>2. CASE ~Here(call[t].e)
        BY <1>1, <1>6, <2>2 DEF SoftDelete
    <2> QED
        BY <2>1, <2>2
<1>7. CASE RecordChange(t)
    <2>1. db' = Recorded(call[t].e, call[t].op)
        BY <1>7 DEF RecordChange, Insert
    <2> QED
        BY <1>0, <2>1, CallType, RecordedIs DEF Tracked, Dirty
<1> QED
    BY <1>2, <1>3, <1>4, <1>5, <1>6, <1>7 DEF StoreStep

LEMMA TrackerTracked ==
    ASSUME StoreTypeOK, OneTransaction, Unmixed, NEW t \in Thread, TrackerStep(t), ~Closes(t),
           At(t, "synced") => ~Dirty(call[t].e)
    PROVE  Tracked
<1>0. db \in Db /\ mix.of \subseteq Entity
    BY MixIs DEF StoreTypeOK
<1>1. ASSUME Query
      PROVE  Tracked
    BY <1>1, KeepsIs DEF Tracked, Query, Dirty
<1>2. ASSUME NEW e \in Entity, db' = Cleaned(e)
      PROVE  Tracked
    BY <1>0, <1>2, CleanedIs, KeepsIs DEF Tracked
<1>3. ASSUME db'.rows = db.rows,
             \A e \in Entity : Dirty(e) => KeepsPending(db, db', e)
      PROVE  Tracked
    BY <1>3 DEF Tracked, Dirty
<1>4. ASSUME NEW e \in mix.of, MarkSynced(t, e)
      PROVE  Tracked
    BY <1>1, <1>4 DEF MarkSynced, Starts
<1>5. ASSUME NEW e \in mix.of, MarkClean(t, e)
      PROVE  Tracked
    BY <1>0, <1>2, <1>5 DEF MarkClean, Execute
<1>6. CASE UpdateSyncState(t)
    BY <1>1, <1>6 DEF UpdateSyncState, Starts
<1>7. CASE MarkAllSynced(t)
    <2>1. Query \/ db' = AllSynced
        BY <1>7 DEF MarkAllSynced, Execute
    <2> QED
        BY <1>0, <1>1, <2>1, AllSyncedIs DEF Tracked
<1>8. CASE ClearSyncedChanges(t)
    BY <1>0, <1>3, <1>8, SyncedClearedIs DEF ClearSyncedChanges, Execute
<1>9. CASE Begin(t)
    <2>1. Query \/ BeginTransaction
        BY <1>9 DEF Begin
    <2> QED
        BY <2>1, KeepsIs DEF Tracked, Query, BeginTransaction, Dirty
<1>10. CASE CleanRow(t)
    BY <1>0, <1>2, <1>10, CallType DEF CleanRow, Execute
<1>11. CASE SyncChanges(t)
    <2>1. db' = ChangesSynced(call[t].e) /\ ~Dirty(call[t].e)
        BY <1>11 DEF SyncChanges, Execute
    <2> QED
        BY <1>0, <1>3, <2>1, CallType, ChangesSyncedIs
<1>12. CASE CountPending(t)
    BY <1>1, <1>12 DEF CountPending
<1>13. CASE WritePending(t)
    <2>1. db' = PendingWritten(call[t].n)
        BY <1>13 DEF WritePending, Execute
    <2> QED
        BY <1>0, <1>3, <2>1, CallType, PendingWrittenIs, KeepsIs
<1> QED
    BY <1>4, <1>5, <1>6, <1>7, <1>8, <1>9, <1>10, <1>11, <1>12, <1>13 DEF TrackerStep, Closes

LEMMA ResolverTracked ==
    ASSUME StoreTypeOK, NEW t \in Thread, ResolverStep(t)
    PROVE  Tracked
<1>0. db \in Db
    BY DEF StoreTypeOK
<1>1. ASSUME Query
      PROVE  Tracked
    BY <1>1, KeepsIs DEF Tracked, Query, Dirty
<1>2. ASSUME NEW e \in mix.of, ReportConflict(t, e)
      PROVE  Tracked
    BY <1>1, <1>2 DEF ReportConflict, Starts
<1>3. ASSUME NEW id \in DOMAIN db.log, NEW w \in Winner, ResolveManually(t, id, w)
      PROVE  Tracked
    BY <1>1, <1>3 DEF ResolveManually, Starts
<1>4. CASE LookForEntry(t) \/ ReadLastId(t) \/ ReadEntry(t) \/ ApplyTyped(t)
    BY <1>1, <1>4 DEF LookForEntry, ReadLastId, ReadEntry, ApplyTyped
<1>5. ASSUME NEW s \in Strategy, ChooseStrategy(t, s)
      PROVE  Tracked
    BY <1>1, <1>5 DEF ChooseStrategy
<1>6. CASE Logs(t)
    BY <1>6, LogsIs, KeepsIs DEF Tracked, Dirty
<1>7. CASE ApplyRaw(t)
    <2>1. db' = RawApplied(call[t].e, call[t].ver)
        BY <1>7 DEF ApplyRaw, Execute
    <2> QED
        BY <1>0, <2>1, CallType, RawAppliedIs, KeepsIs DEF Tracked, Dirty
<1>8. CASE PostApply(t)
    <2>1. db' = Cleaned(call[t].e)
        BY <1>8 DEF PostApply, Execute
    <2> QED
        BY <1>0, <2>1, CallType, CleanedIs, KeepsIs DEF Tracked
<1> QED
    BY <1>2, <1>3, <1>4, <1>5, <1>6, <1>7, <1>8 DEF ResolverStep, Logs

LEMMA StepTracked ==
    ASSUME StoreTypeOK, OneTransaction, Unmixed, [Next]_vars,
           \A t \in Thread : At(t, "synced") => ~Dirty(call[t].e)
    PROVE  \/ Tracked
           \/ Crash
           \/ \E t \in Thread : Closes(t)
<1>1. CASE UNCHANGED deviceVars
    BY <1>1, KeepsIs DEF deviceVars, Tracked, Dirty
<1>2. ASSUME NEW t \in Thread, FaultStep(t)
      PROVE  Tracked
    <2>1. db' = db
        BY <1>2 DEF FaultStep, StatementFails, ExistsFails, MarkFails, CommitFails, Query
    <2> QED
        BY <2>1, KeepsIs DEF Tracked, Dirty
<1> QED
    BY <1>1, <1>2, StoreTracked, TrackerTracked, ResolverTracked DEF Next, Synchronise, vars

LEMMA InitPending ==
    Init => PendingInv
BY InitIs DEF PendingInv, Known, Dirty, At

LEMMA NextPending ==
    ASSUME StoreTypeOK, OneTransaction, PendingInv, [Next]_vars
    PROVE  PendingInv'
<1>0. mix' = mix
    BY MixStays
<1>1. SUFFICES ASSUME Marked
               PROVE  /\ Known(db)'
                      /\ (undo # NoDb)' => Known(undo)'
                      /\ \A t \in Thread : At(t, "synced")' => ~Dirty(call[t].e)'
    BY <1>0 DEF PendingInv, Marked, Safe
<1>2. /\ Unmixed /\ Known(db) /\ (undo # NoDb => Known(undo))
      /\ \A t \in Thread : At(t, "synced") => ~Dirty(call[t].e)
    BY <1>1, MarkedUnmixed DEF PendingInv
\* Who leaves the position of a save has made its entry.
<1>3. ASSUME NEW t \in Thread, NEW e \in Entity, Saving(t, e)
      PROVE  Saving(t, e)' \/ (Pends(db', e) /\ undo = NoDb /\ undo' = NoDb)
    <2>1. CASE call'[t] = call[t]
        BY <1>3, <2>1 DEF Saving
    <2>2. CASE RecordChange(t)
        <3>1. /\ db' = Recorded(call[t].e, call[t].op) /\ MayWrite(t) /\ undo' = undo
              /\ ~InTransaction(t)
            BY <2>2 DEF RecordChange, Insert, MayInsert, At, InTransaction
        <3>2. undo = NoDb
            BY <1>2, <3>1, WritesOutside
        <3>3. Pends(db', call[t].e)
            BY <3>1, CallType, RecordedIs DEF StoreTypeOK
        <3> QED
            BY <1>3, <3>1, <3>2, <3>3 DEF Saving
    <2> QED
        BY <1>1, <1>3, <2>1, <2>2, OwedStep DEF Saving, At
<1>4. CASE Tracked
    <2>1. Known(db)'
        <3> SUFFICES ASSUME NEW e \in Entity, db'.rows[e].dirty, ~\E t \in Thread : Saving(t, e)'
                     PROVE  Pends(db', e)
            BY DEF Known, Pends
        <3>1. Dirty(e) /\ KeepsPending(db, db', e)
            BY <1>4 DEF Tracked
        <3>2. CASE Pends(db, e)
            BY <3>1, <3>2 DEF KeepsPending
        <3>3. CASE ~Pends(db, e)
            <4>1. PICK t \in Thread : Saving(t, e)
                BY <1>2, <3>1, <3>3 DEF Known, Dirty
            <4> QED
                BY <1>3, <4>1
        <3> QED
            BY <3>2, <3>3
    <2>2. ASSUME undo' = undo, undo # NoDb
          PROVE  Known(undo)'
        <3> SUFFICES ASSUME NEW e \in Entity, undo.rows[e].dirty, ~Pends(undo, e)
                     PROVE  \E t \in Thread : Saving(t, e)'
            BY <2>2 DEF Known, Pends
        <3>1. PICK t \in Thread : Saving(t, e)
            BY <1>2, <2>2 DEF Known
        <3> QED
            BY <1>3, <2>2, <3>1
    <2>3. undo' = undo \/ undo' = NoDb \/ (undo' = db /\ db' = db)
        <3>1. CASE UNCHANGED deviceVars
            BY <3>1 DEF deviceVars
        <3>2. ASSUME NEW t \in Thread, Opens(t) \/ Closes(t) \/ CommitFails(t) \/ Steady(t)
              PROVE  undo' = undo \/ undo' = NoDb \/ (undo' = db /\ db' = db)
            BY <3>2, OpensIs, ClosesIs DEF CommitFails, Query, Steady
        <3> QED
            BY <3>1, <3>2, StepSteady, CrashIs
    <2>4. (undo # NoDb)' => Known(undo)'
        <3>1. CASE undo' = db /\ db' = db
            BY <2>1, <3>1 DEF Known, Pends
        <3> QED
            BY <2>2, <2>3, <3>1
    <2>5. ASSUME NEW t \in Thread, At(t, "synced")'
          PROVE  ~Dirty(call[t].e)'
        <3>1. CASE call'[t] = call[t]
            <4>1. At(t, "synced") /\ ~Dirty(call[t].e)
                BY <1>2, <2>5, <3>1 DEF At
            <4>2. undo # NoDb
                BY <1>2, <4>1 DEF OneTransaction, Unmixed, Safe, InTransaction, At
            <4> QED
                BY <1>4, <3>1, <4>1, <4>2, CallType DEF Tracked, Dirty
        <3>2. CASE CleanRow(t)
            <4>1. db' = Cleaned(call[t].e) /\ Goto(t, "synced")
                BY <3>2 DEF CleanRow, Execute
            <4>2. call'[t].e = call[t].e /\ call[t].e \in Entity
                BY <4>1, GotoIs, CallType DEF SameCall, Positions
            <4>3. ~db'.rows[call[t].e].dirty
                BY <4>1, <4>2, CleanedIs DEF StoreTypeOK
            <4> QED
                BY <4>2, <4>3 DEF Dirty
        <3> QED
            BY <1>1, <2>5, <3>1, <3>2, OwedStep
    <2> QED
        BY <2>1, <2>4, <2>5
\* A transaction that ends.
<1>5. ASSUME db' = db \/ (undo # NoDb /\ db' = undo), undo' = NoDb,
             \A t \in Thread : ~InTransaction(t)'
      PROVE  /\ Known(db)'
             /\ (undo # NoDb)' => Known(undo)'
             /\ \A t \in Thread : At(t, "synced")' => ~Dirty(call[t].e)'
    <2>1. ASSUME NEW e \in Entity, db'.rows[e].dirty
          PROVE  Pends(db', e) \/ \E t \in Thread : Saving(t, e)'
        <3>1. Pends(db', e) \/ \E t \in Thread : Saving(t, e)
            BY <1>2, <1>5, <2>1 DEF Known, Pends
        <3> QED
            BY <1>3, <3>1
    <2>2. Known(db)'
        BY <2>1 DEF Known, Pends
    <2> QED
        BY <1>5, <2>2 DEF InTransaction, At
<1>6. CASE Crash
    <2>1. \A t \in Thread : ~InTransaction(t)'
        BY <1>6, CrashIs DEF InTransaction
    <2>2. undo' = NoDb /\ (db' = db \/ (undo # NoDb /\ db' = undo))
        BY <1>6, CrashIs
    <2> QED
        BY <1>5, <2>1, <2>2
<1>7. ASSUME NEW t \in Thread, Closes(t)
      PROVE  /\ Known(db)'
             /\ (undo # NoDb)' => Known(undo)'
             /\ \A u \in Thread : At(u, "synced")' => ~Dirty(call[u].e)'
    <2>1. InTransaction(t) /\ ~InTransaction(t)' /\ Alone(t)
        BY <1>7, ClosesIs DEF InTransaction
    <2>2. \A u \in Thread : InTransaction(u) => u = t
        BY <1>2, <2>1 DEF OneTransaction, Unmixed, Safe
    <2>3. \A u \in Thread : ~InTransaction(u)'
        BY <2>1, <2>2 DEF Alone, InTransaction
    <2>4. undo' = NoDb /\ (db' = db \/ (undo # NoDb /\ db' = undo))
        BY <1>7, ClosesIs
    <2> QED
        BY <1>5, <2>3, <2>4
<1> QED
    BY <1>2, <1>4, <1>6, <1>7, StepTracked

LEMMA PendingImplies ==
    PendingInv => DirtyRowsLogged
BY DEF PendingInv, DirtyRowsLogged, Marked, Known, Pends, DirtyRows, Dirty

-----------------------------------------------------------------------------
(* How the calls of the resolver go on.                                    *)

ResolverPositions ==
    {"look", "reset", "insert", "lastid", "strategy", "resolve", "apply", "entry"}

\* A call that is about to write a row as a save or a deletion does.
Writing(t, e) == call[t].e = e /\ call[t].at \in {"number", "exists", "replace", "delete"}

\* A save that a resolution has begun.
Applying(t) == call[t].then /\ call[t].at \in {"number", "exists", "replace"}

\* post_apply follows saves only.
ThenInv ==
    \A t \in Thread : call[t].then =>
        call[t].at \in {"number", "exists", "replace", "record", "post"}

\* A step by which a call comes to no position of the resolver.
Onward(t) ==
    /\ call'[t].at \notin ResolverPositions
    /\ call'[t].then => call'[t].at \in {"number", "exists", "replace", "record", "post"}
    /\ \A e \in Entity : Resolving(t, e)' => Resolving(t, e)
    /\ \A e \in Entity : Writing(t, e)' => Writing(t, e) \/ NotResolving(t, e)
    /\ Applying(t)' => Applying(t) /\ call'[t].e = call[t].e /\ db' = db

LEMMA ReturnOnward ==
    ASSUME StoreTypeOK, NEW t \in Thread, call'[t].at = "idle", call'[t].then = FALSE
    PROVE  Onward(t)
BY DEF Onward, ResolverPositions, Resolving, Writing, Applying

\* Within the calls of the change log.
LEMMA GotoOnward ==
    ASSUME StoreTypeOK, NEW t \in Thread,
           call'[t].at \in {"begin", "clean", "synced", "commit", "rollback", "count", "pending"},
           call'[t].then = FALSE
    PROVE  Onward(t)
BY DEF Onward, ResolverPositions, Resolving, Writing, Applying

\* Within a save or a deletion.
LEMMA SavingOnward ==
    ASSUME StoreTypeOK, NEW t \in Thread,
           call[t].at \in {"number", "exists", "replace", "delete", "record"},
           call'[t].at \in {"exists", "replace", "record", "post"},
           call'[t].then = call[t].then, call'[t].e = call[t].e,
           call'[t].at = "post" => call[t].then,
           call'[t].at \in {"exists", "replace"} =>
               db' = db /\ call[t].at \in {"number", "exists"}
    PROVE  Onward(t)
BY CallType DEF Onward, ResolverPositions, Resolving, Writing, Applying

LEMMA StoreOnward ==
    ASSUME StoreTypeOK, ThenInv, NEW t \in Thread, StoreStep(t)
    PROVE  Onward(t)
<1> USE DEF Positions
<1>1. ASSUME NEW e \in mix.of, NEW n \in Number, Save(t, e, n)
      PROVE  Onward(t)
    <2>1. e \in Entity /\ NotResolving(t, e)
        BY <1>1, MixIs DEF Save
    <2>2. /\ call'[t].at \in {"number", "exists"} /\ call'[t].e = e
          /\ call'[t].then = FALSE
        BY <1>1, <2>1, SaveIs
    <2> QED
        BY <2>1, <2>2 DEF Onward, ResolverPositions, Resolving, Writing, Applying
<1>2. ASSUME NEW e \in mix.of, Delete(t, e)
      PROVE  Onward(t)
    <2>1. e \in Entity /\ NotResolving(t, e)
        BY <1>2, MixIs DEF Delete
    <2>2. call'[t].at = "delete" /\ call'[t].e = e /\ call'[t].then = FALSE
        BY <1>2, <2>1, DeleteIs
    <2> QED
        BY <2>1, <2>2 DEF Onward, ResolverPositions, Resolving, Writing, Applying
<1>3. ASSUME Return(t)
      PROVE  Onward(t)
    BY <1>3, ReturnIs, ReturnOnward
<1>4. CASE CheckNumber(t)
    <2>1. call[t].at = "number" /\ db' = db /\ (Return(t) \/ Goto(t, "exists"))
        BY <1>4 DEF CheckNumber, At, Query
    <2>2. CASE Goto(t, "exists")
        BY <2>1, <2>2, GotoIs, SavingOnward DEF SameCall
    <2> QED
        BY <1>3, <2>1, <2>2
<1>5. CASE CheckExists(t)
    <2>1. call[t].at = "exists" /\ db' = db
        BY <1>5 DEF CheckExists, At, Query
    <2> QED
        BY <1>5, <2>1, ExistsIs, SavingOnward
<1>6. CASE Replace(t) \/ SoftDelete(t)
    <2>1. call[t].at \in {"replace", "delete"} /\ (Return(t) \/ Goto(t, "record"))
        BY <1>6 DEF Replace, SoftDelete, At
    <2>2. CASE Goto(t, "record")
        BY <2>1, <2>2, GotoIs, SavingOnward DEF SameCall
    <2> QED
        BY <1>3, <2>1, <2>2
<1>7. CASE RecordChange(t)
    <2>1. call[t].at = "record" /\ (Return(t) \/ (call[t].then /\ Goto(t, "post")))
        BY <1>7 DEF RecordChange, At
    <2>2. CASE call[t].then /\ Goto(t, "post")
        BY <2>1, <2>2, GotoIs, SavingOnward DEF SameCall
    <2> QED
        BY <1>3, <2>1, <2>2
<1> QED
    BY <1>1, <1>2, <1>4, <1>5, <1>6, <1>7 DEF StoreStep

LEMMA TrackerOnward ==
    ASSUME StoreTypeOK, ThenInv, NEW t \in Thread, TrackerStep(t)
    PROVE  call'[t] = call[t] \/ Onward(t)
<1> USE DEF Positions
<1>1. ASSUME NEW e \in mix.of, MarkSynced(t, e)
      PROVE  Onward(t)
    <2>1. e \in Entity
        BY MixIs
    <2> QED
        BY <1>1, <2>1, MarkSyncedIs, GotoOnward
<1>2. ASSUME AtOnce(t)
      PROVE  call'[t] = call[t]
    BY <1>2 DEF AtOnce
<1>3. ASSUME Return(t)
      PROVE  Onward(t)
    BY <1>3, ReturnIs, ReturnOnward
<1>4. ASSUME call[t].at \in {"idle", "begin", "clean", "synced"},
             NEW p \in {"clean", "synced", "commit", "count"}, Goto(t, p)
      PROVE  Onward(t)
    <2>1. call[t].then = FALSE
        BY <1>4, CallType DEF ThenInv
    <2>2. call'[t].at = p /\ call'[t].then = FALSE
        BY <1>4, <2>1, GotoIs DEF SameCall
    <2> QED
        BY <2>2, GotoOnward
<1>5. CASE CountPending(t)
    <2>1. call[t].then = FALSE
        BY <1>5, CallType DEF ThenInv, CountPending, At
    <2> QED
        BY <1>5, <2>1, CountIs, GotoOnward
<1>6. CASE CommitMark(t) \/ RollbackMark(t) \/ WritePending(t)
    BY <1>3, <1>6 DEF CommitMark, RollbackMark, WritePending
<1>7. CASE UpdateSyncState(t) \/ CleanRow(t) \/ SyncChanges(t)
    BY <1>4, <1>7 DEF UpdateSyncState, CleanRow, SyncChanges, Starts, At
<1>8. CASE Begin(t)
    <2>1. call[t].at = "begin" /\ (Return(t) \/ Goto(t, "clean"))
        BY <1>8 DEF Begin, At
    <2> QED
        BY <1>3, <1>4, <2>1
<1> QED
    BY <1>1, <1>2, <1>5, <1>6, <1>7, <1>8 DEF TrackerStep, MarkClean, MarkAllSynced,
       ClearSyncedChanges

LEMMA FaultOnward ==
    ASSUME StoreTypeOK, ThenInv, NEW t \in Thread, FaultStep(t)
    PROVE  Onward(t)
<1> USE DEF Positions
<1>1. CASE StatementFails(t) \/ CommitFails(t)
    BY <1>1, ReturnIs, ReturnOnward DEF StatementFails, CommitFails
<1>2. CASE ExistsFails(t)
    <2>1. call[t].at = "exists" /\ db' = db
        BY <1>2 DEF ExistsFails, At, Query
    <2> QED
        BY <1>2, <2>1, ExistsIs, SavingOnward
<1>3. CASE MarkFails(t)
    <2>1. call[t].at \in {"clean", "synced"} /\ Goto(t, "rollback")
        BY <1>3 DEF MarkFails
    <2>2. call[t].then = FALSE
        BY <2>1, CallType DEF ThenInv
    <2> QED
        BY <2>1, <2>2, GotoIs, GotoOnward DEF SameCall
<1> QED
    BY <1>1, <1>2, <1>3 DEF FaultStep

\* A step of the resolver within a conflict.
Advances(t) ==
    /\ \/ LookForEntry(t) \/ ResetEntry(t) \/ InsertEntry(t) \/ ReadLastId(t)
       \/ (\E s \in Strategy : ChooseStrategy(t, s)) /\ call'[t].at = "resolve"
       \/ ReadEntry(t) /\ call'[t].at = "resolve"
       \/ ResolveEntry(t)
       \/ ApplyTyped(t)
    /\ call[t].at \in ResolverPositions
    /\ call'[t].e = call[t].e
    /\ \/ call'[t].at \in ResolverPositions /\ call'[t].then = FALSE
       \/ ApplyTyped(t) /\ call'[t].at \in {"number", "exists"}

Begins(t) ==
    \/ \E e \in mix.of : ReportConflict(t, e)
    \/ \E id \in DOMAIN db.log, w \in Winner : ResolveManually(t, id, w)

LEMMA ResolverOnward ==
    ASSUME StoreTypeOK, ThenInv, NEW t \in Thread, ResolverStep(t)
    PROVE  Begins(t) \/ Advances(t) \/ Onward(t)
<1> USE DEF Positions
<1>0. call[t].at \in ResolverPositions => call[t].then = FALSE
    BY CallType DEF ThenInv, ResolverPositions
<1>1. CASE LookForEntry(t)
    <2>1. call[t].at = "look"
        BY <1>1 DEF LookForEntry, At
    <2> QED
        BY <1>0, <1>1, <2>1, LookIs DEF Advances, ResolverPositions, SameCall
<1>2. CASE ResetEntry(t) \/ InsertEntry(t)
    <2>1. call[t].at \in {"reset", "insert"} /\ (Goto(t, "strategy") \/ Goto(t, "lastid"))
        BY <1>2 DEF ResetEntry, InsertEntry, At
    <2> QED
        BY <1>0, <1>2, <2>1, GotoIs DEF Advances, ResolverPositions, SameCall
<1>3. CASE ReadLastId(t)
    <2>1. call[t].at = "lastid"
        BY <1>3 DEF ReadLastId, At
    <2> QED
        BY <1>0, <1>3, <2>1, LastIdIs DEF Advances, ResolverPositions, SameCall
<1>4. ASSUME NEW s \in Strategy, ChooseStrategy(t, s)
      PROVE  Advances(t) \/ Onward(t)
    <2>1. call[t].at = "strategy"
        BY <1>4 DEF ChooseStrategy, At
    <2>2. CASE call'[t].at = "idle" /\ call'[t].then = FALSE
        BY <2>2, ReturnOnward
    <2>3. CASE /\ call'[t].at = "resolve" /\ call'[t].e = call[t].e
               /\ call'[t].then = call[t].then
        BY <1>0, <1>4, <2>1, <2>3 DEF Advances, ResolverPositions
    <2> QED
        BY <1>4, <2>2, <2>3, StrategyIs
<1>5. CASE ReadEntry(t)
    <2>1. call[t].at = "entry"
        BY <1>5 DEF ReadEntry, At
    <2>2. CASE call'[t].at = "idle" /\ call'[t].then = FALSE
        BY <2>2, ReturnOnward
    <2>3. CASE /\ call'[t].at = "resolve" /\ call'[t].e = call[t].e
               /\ call'[t].then = call[t].then
        BY <1>0, <1>5, <2>1, <2>3 DEF Advances, ResolverPositions
    <2> QED
        BY <1>5, <2>2, <2>3, EntryIs
<1>6. CASE ResolveEntry(t)
    <2>1. call[t].at = "resolve"
        BY <1>6 DEF ResolveEntry, At
    <2> QED
        BY <1>0, <1>6, <2>1, ResolveIs DEF Advances, ResolverPositions
<1>7. CASE ApplyTyped(t)
    <2>1. call[t].at = "apply"
        BY <1>7 DEF ApplyTyped, At
    <2>2. call'[t].at \in {"number", "exists"} /\ call'[t].e = call[t].e
        BY <1>7, ApplyTypedIs
    <2> QED
        BY <1>7, <2>1, <2>2 DEF Advances, ResolverPositions
<1>8. CASE ApplyRaw(t)
    <2>1. call[t].at = "apply" /\ Goto(t, "post")
        BY <1>8 DEF ApplyRaw, At
    <2>2. /\ call'[t].at = "post" /\ call'[t].e = call[t].e
          /\ call'[t].then = FALSE
        BY <1>0, <2>1, GotoIs DEF SameCall, ResolverPositions
    <2> QED
        BY <2>1, <2>2 DEF Onward, ResolverPositions, Resolving, Writing, Applying
<1>9. CASE PostApply(t)
    BY <1>9, ReturnIs, ReturnOnward DEF PostApply
<1> QED
    BY <1>1, <1>2, <1>3, <1>4, <1>5, <1>6, <1>7, <1>8, <1>9 DEF ResolverStep, Begins

\* A step leaves a call, or the call goes on, alone.
LEMMA StepOnward ==
    ASSUME StoreTypeOK, ThenInv, [Next]_vars, NEW t \in Thread
    PROVE  \/ call'[t] = call[t]
           \/ Onward(t)
           \/ Begins(t) /\ Alone(t)
           \/ Advances(t) /\ Alone(t)
<1>1. CASE Crash
    BY <1>1, CrashIs, ReturnOnward
<1>2. CASE UNCHANGED deviceVars
    BY <1>2 DEF deviceVars
<1>3. ASSUME NEW u \in Thread \ {t},
             StoreStep(u) \/ TrackerStep(u) \/ ResolverStep(u) \/ FaultStep(u)
      PROVE  call'[t] = call[t]
    <2>1. Alone(u)
        <3>1. CommitFails(u) => Alone(u)
            BY ReturnIs DEF CommitFails
        <3> QED
            BY <1>3, <3>1, StoreSteady, TrackerSteady, ResolverSteady, FaultSteady,
               OpensIs, ClosesIs DEF Steady
    <2> QED
        BY <2>1 DEF Alone
<1>4. CASE ResolverStep(t)
    BY <1>4, ResolverOnward, ResolverSteady DEF Steady
<1> QED
    BY <1>1, <1>2, <1>3, <1>4, StoreOnward, TrackerOnward, FaultOnward
       DEF Next, Synchronise, vars

-----------------------------------------------------------------------------
(* Resolutions of one record do not overlap.                               *)

OneEach == Safe({"same_conflict"})

AloneInv ==
    OneEach => \A t, u \in Thread, e \in Entity :
                   t # u /\ Resolving(t, e) => ~Resolving(u, e)

\* How a call begins or goes on with a conflict.
LEMMA BeginsIs ==
    ASSUME StoreTypeOK, NEW t \in Thread, Begins(t)
    PROVE  /\ db' = db /\ lastId' = lastId /\ call[t].at = "idle"
           /\ call'[t].at \in {"look", "entry"} /\ call'[t].then = FALSE
           /\ call'[t].e \in Entity
           /\ OneEach => \A u \in Thread \ {t} : ~Resolving(u, call'[t].e)
           /\ Safe({"save_before_apply"}) =>
                \A u \in Thread \ {t} : ~Writing(u, call'[t].e)
           /\ call'[t].at = "look" => call'[t].local = db.rows[call'[t].e].ver
           /\ call'[t].at = "entry" =>
                /\ call'[t].id \in EntriesOf(call'[t].e)
                /\ Safe({"save_before_apply"}) =>
                     db.rows[call'[t].e].ver = db.log[call'[t].id].local
<1>0. /\ OneEach => ~Risk("same_conflict")
      /\ Safe({"save_before_apply"}) => ~Risk("save_before_apply")
    BY DEF OneEach, Safe, Risk
<1>1. ASSUME NEW e \in mix.of, ReportConflict(t, e)
      PROVE  /\ db' = db /\ lastId' = lastId /\ call[t].at = "idle"
             /\ call'[t].at = "look" /\ call'[t].then = FALSE
             /\ call'[t].e \in Entity /\ call'[t].local = db.rows[call'[t].e].ver
             /\ OneEach => \A u \in Thread \ {t} : ~Resolving(u, call'[t].e)
             /\ Safe({"save_before_apply"}) =>
                  \A u \in Thread \ {t} : ~Writing(u, call'[t].e)
    <2>1. e \in Entity /\ Starts(t, "conflict")
        BY <1>1, MixIs DEF ReportConflict
    <2>2. /\ Risk("same_conflict") \/ \A u \in Thread \ {t} : ~Resolving(u, e)
          /\ Risk("save_before_apply") \/ \A u \in Thread \ {t} : ~Writing(u, e)
        BY <1>1 DEF ReportConflict, Others, Writing
    <2>3. /\ call'[t].at = "look" /\ call'[t].e = e /\ call'[t].then = FALSE
          /\ call'[t].local = db.rows[e].ver
        BY <1>1, <2>1, ReportIs
    <2> QED
        BY <1>0, <2>1, <2>2, <2>3 DEF Starts, Query, At
<1>2. ASSUME NEW id \in DOMAIN db.log, NEW w \in Winner, ResolveManually(t, id, w)
      PROVE  /\ db' = db /\ lastId' = lastId /\ call[t].at = "idle"
             /\ call'[t].at = "entry" /\ call'[t].then = FALSE
             /\ call'[t].e \in Entity
             /\ OneEach => \A u \in Thread \ {t} : ~Resolving(u, call'[t].e)
             /\ Safe({"save_before_apply"}) =>
                  \A u \in Thread \ {t} : ~Writing(u, call'[t].e)
             /\ call'[t].id \in EntriesOf(call'[t].e)
             /\ Safe({"save_before_apply"}) =>
                  db.rows[call'[t].e].ver = db.log[call'[t].id].local
    <2>1. db.log[id].of \in Entity /\ Starts(t, "conflict")
        BY <1>2, EntryFields DEF ResolveManually, StoreTypeOK
    <2>2. /\ Risk("same_conflict") \/ \A u \in Thread \ {t} : ~Resolving(u, db.log[id].of)
          /\ Risk("save_before_apply") \/ db.rows[db.log[id].of].ver = db.log[id].local
          /\ Risk("save_before_apply") \/ \A u \in Thread \ {t} : ~Writing(u, db.log[id].of)
        BY <1>2 DEF ResolveManually, Others, Writing
    <2>3. /\ call'[t].at = "entry" /\ call'[t].e = db.log[id].of /\ call'[t].id = id
          /\ call'[t].then = FALSE
        BY <1>2, <2>1, ManualIs
    <2>4. id \in EntriesOf(db.log[id].of)
        BY DEF EntriesOf
    <2> QED
        BY <1>0, <2>1, <2>2, <2>3, <2>4 DEF Starts, Query, At
<1> QED
    BY <1>1, <1>2 DEF Begins

LEMMA AdvancesResolving ==
    ASSUME NEW t \in Thread, Advances(t), NEW e \in Entity, Resolving(t, e)'
    PROVE  Resolving(t, e)
BY DEF Advances, Resolving, ResolverPositions

LEMMA InitAlone ==
    Init => ThenInv /\ AloneInv
BY InitIs DEF ThenInv, AloneInv, Resolving

LEMMA NextThen ==
    ASSUME StoreTypeOK, ThenInv, [Next]_vars
    PROVE  ThenInv'
<1> SUFFICES ASSUME NEW t \in Thread, call'[t].then
             PROVE  call'[t].at \in {"number", "exists", "replace", "record", "post"}
    BY DEF ThenInv
<1>1. CASE call'[t] = call[t]
    BY <1>1 DEF ThenInv
<1>2. CASE Onward(t)
    BY <1>2 DEF Onward
<1>3. CASE Begins(t)
    BY <1>3, BeginsIs
<1>4. CASE Advances(t)
    BY <1>4 DEF Advances
<1> QED
    BY <1>1, <1>2, <1>3, <1>4, StepOnward

\* Who is at a conflict after a step was there before, or has just begun.
LEMMA ResolvingBefore ==
    ASSUME StoreTypeOK, ThenInv, [Next]_vars, NEW t \in Thread, NEW e \in Entity,
           Resolving(t, e)'
    PROVE  Resolving(t, e) \/ (Begins(t) /\ Alone(t) /\ call'[t].e = e)
<1>1. CASE call'[t] = call[t]
    BY <1>1 DEF Resolving
<1>2. CASE Onward(t)
    BY <1>2 DEF Onward
<1>3. CASE Advances(t)
    BY <1>3, AdvancesResolving
<1>4. call'[t].e = e
    BY DEF Resolving
<1> QED
    BY <1>1, <1>2, <1>3, <1>4, StepOnward

LEMMA NextAlone ==
    ASSUME StoreTypeOK, ThenInv, AloneInv, [Next]_vars
    PROVE  AloneInv'
<1>0. mix' = mix
    BY MixStays
<1> SUFFICES ASSUME OneEach, NEW t \in Thread, NEW u \in Thread, NEW e \in Entity,
                    t # u, Resolving(t, e)', Resolving(u, e)'
             PROVE  FALSE
    BY <1>0 DEF AloneInv, OneEach, Safe
<1>1. CASE Resolving(t, e) /\ Resolving(u, e)
    BY <1>1 DEF AloneInv
<1>2. ASSUME NEW v \in Thread, NEW w \in Thread, v # w, Begins(v), Alone(v),
             call'[v].e = e, Resolving(w, e)'
      PROVE  FALSE
    <2>1. ~Resolving(w, e)
        BY <1>2, BeginsIs
    <2> QED
        BY <1>2, <2>1 DEF Alone, Resolving
<1> QED
    BY <1>1, <1>2, ResolvingBefore

-----------------------------------------------------------------------------
(* The ids of the log of conflicts.                                        *)

OwnIds == Safe({"insert_during_log", "write_in_transaction", "commit_error"})

\* A call that knows an entry knows one of its own record, and one that is
\* about to ask for the last id will get one.
LogInv ==
    OwnIds => \A t \in Thread :
        /\ call[t].at \in {"reset", "strategy", "resolve", "apply", "entry"} =>
               call[t].id \in EntriesOf(call[t].e)
        /\ call[t].at = "lastid" => lastId \in EntriesOf(call[t].e)

LEMMA OwnUnmixed == OwnIds => Unmixed /\ ~Risk("insert_during_log")
BY DEF OwnIds, Unmixed, Safe, Risk

\* What each statement does to the log.
LEMMA LogStep ==
    ASSUME StoreTypeOK, OneTransaction, UndoInv, Unmixed, [Next]_vars
    PROVE  \/ db'.log = db.log
           \/ \E t \in Thread : Logs(t)
<1>1. ASSUME NEW t \in Thread, Content(t)
      PROVE  db'.log = db.log
    <2>0. db \in Db
        BY DEF StoreTypeOK
    <2>1. CASE Replace(t) /\ ReferencesHold(call[t].e, call[t].num)
        <3>1. db' = Replaced(call[t].e, call[t].num, call[t].ver)
            BY <2>1 DEF Replace, Insert
        <3> QED
            BY <2>0, <3>1, CallType, ReplacedIs
    <2>2. CASE SoftDelete(t) /\ Here(call[t].e)
        <3>1. db' = SoftDeleted(call[t].e, call[t].ver)
            BY <2>2 DEF SoftDelete, Execute
        <3> QED
            BY <2>0, <3>1, CallType, SoftDeletedIs
    <2>3. CASE ApplyRaw(t)
        <3>1. db' = RawApplied(call[t].e, call[t].ver)
            BY <2>3 DEF ApplyRaw, Execute
        <3> QED
            BY <2>0, <3>1, CallType, RawAppliedIs
    <2> QED
        BY <1>1, <2>1, <2>2, <2>3 DEF Content
<1> QED
    BY <1>1, ContentsStay

LEMMA ResetEntryIs ==
    ASSUME StoreTypeOK, NEW t \in Thread, ResetEntry(t), call[t].id \in DOMAIN db.log
    PROVE  /\ DOMAIN db'.log = DOMAIN db.log
           /\ \A j \in DOMAIN db.log :
                /\ db'.log[j].of = db.log[j].of
                /\ j # call[t].id => db'.log[j] = db.log[j]
                /\ j = call[t].id => /\ db'.log[j].local = call[t].local
                                     /\ db'.log[j].remote = call[t].remote
                                     /\ db'.log[j].won = 0
<1>1. PICK i, l \in Nat, r \in Nat : i = call[t].id /\ l = call[t].local /\ r = call[t].remote
    BY CallType
<1>2. db' = Reset(i, l, r)
    BY <1>1 DEF ResetEntry, Execute
<1>3. /\ DOMAIN db'.log = DOMAIN db.log
      /\ db'.log[i] = Unresolved(db.log[i].of, l, r)
      /\ \A j \in DOMAIN db.log \ {i} : db'.log[j] = db.log[j]
    BY <1>1, <1>2, ResetIs DEF StoreTypeOK
<1>4. PICK of : of = db.log[i].of
    OBVIOUS
<1>5. /\ db'.log[i].of = of /\ db'.log[i].local = l /\ db'.log[i].remote = r
      /\ db'.log[i].won = 0
    BY <1>3, <1>4 DEF Unresolved
<1> QED
    BY <1>1, <1>3, <1>4, <1>5

LEMMA InsertEntryIs ==
    ASSUME StoreTypeOK, NEW t \in Thread, InsertEntry(t)
    PROVE  /\ DOMAIN db'.log = DOMAIN db.log \cup {lastId'} /\ lastId' \notin DOMAIN db.log
           /\ db'.log[lastId'].of = call[t].e /\ db'.log[lastId'].local = call[t].local
           /\ db'.log[lastId'].remote = call[t].remote /\ db'.log[lastId'].won = 0
           /\ \A j \in DOMAIN db.log : db'.log[j] = db.log[j]
<1>1. PICK e \in Entity, l \in Nat, r \in Nat :
        e = call[t].e /\ l = call[t].local /\ r = call[t].remote
    BY CallType
<1>2. db' = Logged(e, l, r) /\ lastId' = Len(db.log) + 1
    BY <1>1 DEF InsertEntry, Insert
<1>3. /\ DOMAIN db'.log = DOMAIN db.log \cup {lastId'} /\ lastId' \notin DOMAIN db.log
      /\ db'.log[lastId'] = Unresolved(e, l, r)
      /\ \A j \in DOMAIN db.log : db'.log[j] = db.log[j]
    BY <1>2, LoggedIs DEF StoreTypeOK
<1>4. /\ db'.log[lastId'].of = e /\ db'.log[lastId'].local = l
      /\ db'.log[lastId'].remote = r /\ db'.log[lastId'].won = 0
    BY <1>3 DEF Unresolved
<1> QED
    BY <1>1, <1>3, <1>4

LEMMA ResolveEntryIs ==
    ASSUME StoreTypeOK, NEW t \in Thread, ResolveEntry(t)
    PROVE  /\ DOMAIN db'.log = DOMAIN db.log
           /\ \A j \in DOMAIN db.log :
                /\ db'.log[j].of = db.log[j].of
                /\ db'.log[j].local = db.log[j].local
                /\ db'.log[j].remote = db.log[j].remote
                /\ j # call[t].id => db'.log[j] = db.log[j]
                /\ j = call[t].id => {db'.log[j].won, db'.log[j].lost} =
                                     {call[t].local, call[t].remote}
<1>1. PICK won, lost \in {call[t].local, call[t].remote} :
        /\ {won, lost} = {call[t].local, call[t].remote}
        /\ db' = ResolvedAs(call[t].id, won, lost)
    BY ResolveIs
<1>2. won \in Nat /\ lost \in Nat
    BY CallType
<1>3. PICK i \in Nat : i = call[t].id
    BY CallType
<1>4. db' = ResolvedAs(i, won, lost) /\ db \in Db
    BY <1>1, <1>3 DEF StoreTypeOK
<1>5. /\ DOMAIN db'.log = DOMAIN db.log
      /\ \A j \in DOMAIN db.log :
           /\ db'.log[j].of = db.log[j].of
           /\ db'.log[j].local = db.log[j].local
           /\ db'.log[j].remote = db.log[j].remote
           /\ j # i => db'.log[j] = db.log[j]
           /\ j = i => db'.log[j].won = won /\ db'.log[j].lost = lost
    BY <1>2, <1>4, ResolvedIs
<1> QED
    BY <1>1, <1>3, <1>5

\* An entry stays the entry of its record.
LEMMA EntriesStay ==
    ASSUME StoreTypeOK, OneTransaction, UndoInv, LogInv, OwnIds, [Next]_vars,
           NEW e, NEW i \in EntriesOf(e)
    PROVE  i \in EntriesOf(e)'
<1>0. i \in DOMAIN db.log /\ db.log[i].of = e
    BY DEF EntriesOf
<1>1. CASE db'.log = db.log
    BY <1>0, <1>1 DEF EntriesOf
<1>2. ASSUME NEW t \in Thread, ResetEntry(t)
      PROVE  i \in EntriesOf(e)'
    <2>1. call[t].id \in DOMAIN db.log
        BY <1>2 DEF ResetEntry, At, LogInv, EntriesOf
    <2>2. i \in DOMAIN db'.log /\ db'.log[i].of = e
        BY <1>0, <1>2, <2>1, ResetEntryIs
    <2> QED
        BY <2>2 DEF EntriesOf
<1>3. ASSUME NEW t \in Thread, InsertEntry(t)
      PROVE  i \in EntriesOf(e)'
    <2>1. i \in DOMAIN db'.log /\ db'.log[i].of = e
        BY <1>0, <1>3, InsertEntryIs
    <2> QED
        BY <2>1 DEF EntriesOf
<1>4. ASSUME NEW t \in Thread, ResolveEntry(t)
      PROVE  i \in EntriesOf(e)'
    <2>1. i \in DOMAIN db'.log /\ db'.log[i].of = e
        BY <1>0, <1>4, ResolveEntryIs
    <2> QED
        BY <2>1 DEF EntriesOf
<1> QED
    BY <1>1, <1>2, <1>3, <1>4, LogStep, OwnUnmixed DEF Logs

\* Nobody's insert comes between another's and its question for the last id.
LEMMA LastIdStays ==
    ASSUME StoreTypeOK, OwnIds, [Next]_vars, NEW t \in Thread,
           At(t, "lastid"), call'[t] = call[t]
    PROVE  lastId' = lastId
<1>1. CASE Crash
    BY <1>1, CrashIs DEF At
<1>2. CASE UNCHANGED deviceVars
    BY <1>2 DEF deviceVars
<1>3. ASSUME NEW u \in Thread, MayInsert(u), ~At(u, "lastid")
      PROVE  FALSE
    BY <1>3, OwnUnmixed DEF MayInsert, Others, Logging, At
<1>4. ASSUME NEW u \in Thread, StoreStep(u)
      PROVE  lastId' = lastId
    <2>1. \/ Query
          \/ SoftDelete(u)
          \/ Replace(u) \/ RecordChange(u)
        BY <1>4 DEF StoreStep, Save, Delete, Starts, CheckNumber, CheckExists
    <2> QED
        BY <1>3, <2>1 DEF Query, SoftDelete, Execute, Replace, RecordChange, At
<1>5. ASSUME NEW u \in Thread, TrackerStep(u)
      PROVE  lastId' = lastId
    BY <1>5 DEF TrackerStep, MarkSynced, MarkClean, UpdateSyncState, MarkAllSynced,
       ClearSyncedChanges, Begin, CleanRow, SyncChanges, CommitMark, RollbackMark,
       CountPending, WritePending, Starts, Query, Execute, BeginTransaction, Commit, Rollback
<1>6. ASSUME NEW u \in Thread, ResolverStep(u)
      PROVE  lastId' = lastId
    <2>1. CASE InsertEntry(u)
        BY <1>3, <2>1 DEF InsertEntry, At
    <2>2. CASE ~InsertEntry(u)
        BY <1>6, <2>2 DEF ResolverStep, ReportConflict, ResolveManually, LookForEntry, ResetEntry,
           ReadLastId, ChooseStrategy, ReadEntry, ResolveEntry, ApplyTyped, ApplyRaw, PostApply,
           Starts, Query, Execute
    <2> QED
        BY <2>1, <2>2
<1>7. ASSUME NEW u \in Thread, FaultStep(u)
      PROVE  lastId' = lastId
    BY <1>7 DEF FaultStep, StatementFails, ExistsFails, MarkFails, CommitFails, Query
<1> QED
    BY <1>1, <1>2, <1>4, <1>5, <1>6, <1>7 DEF Next, Synchronise, vars

LEMMA NextLog ==
    ASSUME StoreTypeOK, OneTransaction, UndoInv, ThenInv, LogInv, [Next]_vars
    PROVE  LogInv'
<1>0. mix' = mix
    BY MixStays
<1> SUFFICES ASSUME OwnIds, NEW t \in Thread
             PROVE  /\ call'[t].at \in {"reset", "strategy", "resolve", "apply", "entry"} =>
                           call'[t].id \in EntriesOf(call[t].e)'
                    /\ call'[t].at = "lastid" => lastId' \in EntriesOf(call[t].e)'
    BY <1>0 DEF LogInv, OwnIds, Safe
<1> DEFINE Own == /\ call'[t].at \in {"reset", "strategy", "resolve", "apply", "entry"} =>
                           call'[t].id \in EntriesOf(call[t].e)'
                  /\ call'[t].at = "lastid" => lastId' \in EntriesOf(call[t].e)'
<1>1. /\ call[t].at \in {"reset", "strategy", "resolve", "apply", "entry"} =>
             call[t].id \in EntriesOf(call[t].e)
      /\ call[t].at = "lastid" => lastId \in EntriesOf(call[t].e)
    BY DEF LogInv
<1>2. ASSUME NEW e, NEW i \in EntriesOf(e), call'[t].e = e
      PROVE  i \in EntriesOf(call[t].e)'
    BY <1>2, EntriesStay DEF EntriesOf
<1>3. CASE call'[t] = call[t]
    BY <1>1, <1>2, <1>3, LastIdStays DEF At
<1>4. CASE Onward(t)
    BY <1>4 DEF Onward, ResolverPositions
<1>5. CASE Begins(t)
    BY <1>2, <1>5, BeginsIs
<1>6. CASE Advances(t)
    <2>0. call'[t].e = call[t].e
        BY <1>6 DEF Advances
    <2>1. CASE LookForEntry(t)
        BY <1>2, <2>0, <2>1, LookIs
    <2>2. CASE ResetEntry(t)
        <3>1. call[t].at = "reset" /\ Goto(t, "strategy")
            BY <2>2 DEF ResetEntry, At
        <3> QED
            BY <1>1, <1>2, <2>0, <3>1, GotoIs DEF Positions
    <2>3. CASE InsertEntry(t)
        <3>1. Goto(t, "lastid")
            BY <2>3 DEF InsertEntry
        <3>2. call'[t].at = "lastid"
            BY <3>1, GotoIs DEF Positions
        <3>3. lastId' \in DOMAIN db'.log /\ db'.log[lastId'].of = call'[t].e
            BY <2>0, <2>3, InsertEntryIs
        <3>4. lastId' \in EntriesOf(call[t].e)'
            BY <3>3 DEF EntriesOf
        <3> QED
            BY <3>2, <3>4
    <2>4. CASE ReadLastId(t)
        <3>1. call[t].at = "lastid"
            BY <2>4 DEF ReadLastId, At
        <3> QED
            BY <1>1, <1>2, <2>0, <2>4, <3>1, LastIdIs
    <2>5. ASSUME NEW s \in Strategy, ChooseStrategy(t, s)
          PROVE  Own
        <3>1. call[t].at = "strategy"
            BY <2>5 DEF ChooseStrategy, At
        <3> QED
            BY <1>1, <1>2, <2>0, <2>5, <3>1, StrategyIs
    <2>6. CASE ReadEntry(t)
        <3>1. call[t].at = "entry"
            BY <2>6 DEF ReadEntry, At
        <3> QED
            BY <1>1, <1>2, <2>0, <2>6, <3>1, EntryIs
    <2>7. CASE ResolveEntry(t)
        <3>1. call[t].at = "resolve"
            BY <2>7 DEF ResolveEntry, At
        <3> QED
            BY <1>1, <1>2, <2>0, <2>7, <3>1, ResolveIs
    <2>8. CASE ApplyTyped(t)
        BY <2>8, ApplyTypedIs
    <2> QED
        BY <1>6, <2>1, <2>2, <2>3, <2>4, <2>5, <2>6, <2>7, <2>8 DEF Advances
<1> QED
    BY <1>3, <1>4, <1>5, <1>6, StepOnward

LEMMA InitLog ==
    Init => UndoInv /\ LogInv
BY InitIs DEF UndoInv, LogInv

LEMMA LogImplies ==
    LogInv => OwnLogId
BY DEF LogInv, OwnIds, OwnLogId, LogIdIsOwn, EntriesOf

-----------------------------------------------------------------------------
(* The versions in the log of conflicts.                                   *)

Paired == Safe({"insert_during_log", "same_conflict", "write_in_transaction", "commit_error"})

\* The entry of a call that has one says what the call has at hand.
VersionsInv ==
    Paired => \A t \in Thread :
        /\ call[t].at \in {"strategy", "resolve", "apply"} =>
               /\ db.log[call[t].id].local = call[t].local
               /\ db.log[call[t].id].remote = call[t].remote
        /\ call[t].at = "lastid" =>
               /\ db.log[lastId].local = call[t].local
               /\ db.log[lastId].remote = call[t].remote

LEMMA PairedOwn == Paired => OwnIds /\ OneEach /\ Unmixed
BY DEF Paired, OwnIds, OneEach, Unmixed, Safe

\* What the proofs about the log rest on.
Base == StoreTypeOK /\ OneTransaction /\ UndoInv /\ ThenInv /\ AloneInv /\ LogInv

\* Nobody else resets an entry of the record that a call is at.
LEMMA EntryStays ==
    ASSUME Base, Paired, [Next]_vars, NEW t \in Thread, NEW e \in Entity,
           Resolving(t, e), call'[t] = call[t], NEW i \in EntriesOf(e)
    PROVE  db'.log[i].local = db.log[i].local /\ db'.log[i].remote = db.log[i].remote
<1>0. i \in DOMAIN db.log /\ db.log[i].of = e
    BY DEF EntriesOf
<1>1. ASSUME NEW u \in Thread, ResetEntry(u)
      PROVE  db'.log[i] = db.log[i]
    <2>1. call[u].at = "reset" /\ Goto(u, "strategy")
        BY <1>1 DEF ResetEntry, At
    <2>2. u # t
        BY <2>1, GotoIs DEF Base, Positions
    <2>3. call[u].id \in EntriesOf(call[u].e) /\ call[u].e \in Entity
        BY <2>1, PairedOwn, CallType DEF Base, LogInv
    <2>4. call[u].e # e
        BY <2>1, <2>2, <2>3, PairedOwn DEF Base, AloneInv, Resolving
    <2>5. i # call[u].id
        BY <1>0, <2>3, <2>4 DEF EntriesOf
    <2>6. call[u].id \in DOMAIN db.log
        BY <2>3 DEF EntriesOf
    <2> QED
        BY <1>0, <1>1, <2>5, <2>6, ResetEntryIs DEF Base
<1>2. ASSUME NEW u \in Thread, InsertEntry(u)
      PROVE  db'.log[i] = db.log[i]
    BY <1>0, <1>2, InsertEntryIs DEF Base
<1>3. ASSUME NEW u \in Thread, ResolveEntry(u)
      PROVE  db'.log[i].local = db.log[i].local /\ db'.log[i].remote = db.log[i].remote
    BY <1>0, <1>3, ResolveEntryIs DEF Base
<1> QED
    BY <1>1, <1>2, <1>3, LogStep, PairedOwn DEF Base, Logs

LEMMA NextVersions ==
    ASSUME Base, VersionsInv, [Next]_vars
    PROVE  VersionsInv'
<1>0. mix' = mix
    BY MixStays DEF Base
<1> DEFINE Says(t, i) == db.log[i].local = call[t].local /\ db.log[i].remote = call[t].remote
           Has(t) == /\ call[t].at \in {"strategy", "resolve", "apply"} => Says(t, call[t].id)
                     /\ call[t].at = "lastid" => Says(t, lastId)
<1> SUFFICES ASSUME Paired, NEW t \in Thread
             PROVE  Has(t)'
    BY <1>0 DEF VersionsInv, Paired, Safe
<1>1. Has(t)
    BY DEF VersionsInv
<1>2. /\ call[t].at \in {"strategy", "resolve", "apply", "reset", "entry"} =>
             call[t].id \in EntriesOf(call[t].e)
      /\ call[t].at = "lastid" => lastId \in EntriesOf(call[t].e)
    BY PairedOwn DEF Base, LogInv
<1>3. CASE call'[t] = call[t]
    <2>1. \A i \in EntriesOf(call[t].e) :
             call[t].at \in {"strategy", "resolve", "apply", "lastid"} =>
               db'.log[i].local = db.log[i].local /\ db'.log[i].remote = db.log[i].remote
        BY <1>3, EntryStays, CallType DEF Base, Resolving
    <2>2. call[t].at = "lastid" => lastId' = lastId
        BY <1>3, LastIdStays, PairedOwn DEF Base, At
    <2> QED
        BY <1>1, <1>2, <1>3, <2>1, <2>2
<1>4. CASE Onward(t)
    BY <1>4 DEF Onward, ResolverPositions
<1>5. CASE Begins(t)
    BY <1>5, BeginsIs DEF Base
<1>6. CASE Advances(t)
    <2>1. CASE LookForEntry(t)
        BY <2>1, LookIs DEF Base
    <2>2. CASE ResetEntry(t)
        <3>1. call[t].at = "reset" /\ Goto(t, "strategy")
            BY <2>2 DEF ResetEntry, At
        <3>2. /\ call'[t].at = "strategy" /\ call'[t].id = call[t].id
              /\ call'[t].local = call[t].local /\ call'[t].remote = call[t].remote
            BY <3>1, GotoIs DEF Base, SameCall, Positions
        <3>3. call[t].id \in DOMAIN db.log
            BY <1>2, <3>1 DEF EntriesOf
        <3>4. /\ db'.log[call[t].id].local = call[t].local
              /\ db'.log[call[t].id].remote = call[t].remote
            BY <2>2, <3>3, ResetEntryIs DEF Base
        <3> QED
            BY <3>2, <3>4
    <2>3. CASE InsertEntry(t)
        <3>1. Goto(t, "lastid")
            BY <2>3 DEF InsertEntry
        <3>2. /\ call'[t].at = "lastid"
              /\ call'[t].local = call[t].local /\ call'[t].remote = call[t].remote
            BY <3>1, GotoIs DEF Base, SameCall, Positions
        <3> QED
            BY <2>3, <3>2, InsertEntryIs DEF Base
    <2>4. CASE ReadLastId(t)
        <3>1. call[t].at = "lastid" /\ db' = db
            BY <2>4 DEF ReadLastId, At, Query
        <3> QED
            BY <1>1, <2>4, <3>1, LastIdIs DEF Base, SameCall
    <2>5. ASSUME NEW s \in Strategy, ChooseStrategy(t, s)
          PROVE  Has(t)'
        <3>1. call[t].at = "strategy" /\ db' = db
            BY <2>5 DEF ChooseStrategy, At, Query
        <3> QED
            BY <1>1, <2>5, <3>1, StrategyIs DEF Base
    <2>6. CASE ReadEntry(t)
        <3>1. db' = db
            BY <2>6 DEF ReadEntry, Query
        <3> QED
            BY <2>6, <3>1, EntryIs DEF Base
    <2>7. CASE ResolveEntry(t)
        <3>1. call[t].at = "resolve"
            BY <2>7 DEF ResolveEntry, At
        <3>2. call[t].id \in DOMAIN db.log
            BY <1>2, <3>1 DEF EntriesOf
        <3>3. /\ db'.log[call[t].id].local = db.log[call[t].id].local
              /\ db'.log[call[t].id].remote = db.log[call[t].id].remote
            BY <2>7, <3>2, ResolveEntryIs DEF Base
        <3> QED
            BY <1>1, <2>7, <3>1, <3>3, ResolveIs DEF Base
    <2>8. CASE ApplyTyped(t)
        BY <2>8, ApplyTypedIs DEF Base
    <2> QED
        BY <1>6, <2>1, <2>2, <2>3, <2>4, <2>5, <2>6, <2>7, <2>8 DEF Advances
<1> QED
    BY <1>3, <1>4, <1>5, <1>6, StepOnward DEF Base

LEMMA NextConsistent ==
    ASSUME Base, VersionsInv, LogConsistent, [Next]_vars
    PROVE  LogConsistent'
<1>0. mix' = mix
    BY MixStays DEF Base
<1> SUFFICES ASSUME Paired, NEW i \in DOMAIN db'.log, db'.log[i].won # 0
             PROVE  {db'.log[i].won, db'.log[i].lost} = {db'.log[i].local, db'.log[i].remote}
    BY <1>0 DEF LogConsistent, Paired, Safe
<1>1. \A j \in DOMAIN db.log : db.log[j].won # 0 =>
          {db.log[j].won, db.log[j].lost} = {db.log[j].local, db.log[j].remote}
    BY DEF LogConsistent, Paired
<1>2. CASE db'.log = db.log
    BY <1>1, <1>2
<1>3. ASSUME NEW t \in Thread, ResetEntry(t)
      PROVE  i \in DOMAIN db.log /\ db'.log[i] = db.log[i]
    <2>1. call[t].id \in DOMAIN db.log
        BY <1>3, PairedOwn DEF ResetEntry, At, Base, LogInv, EntriesOf
    <2> QED
        BY <1>3, <2>1, ResetEntryIs DEF Base
<1>4. ASSUME NEW t \in Thread, InsertEntry(t)
      PROVE  i \in DOMAIN db.log /\ db'.log[i] = db.log[i]
    BY <1>4, InsertEntryIs DEF Base
<1>5. ASSUME NEW t \in Thread, ResolveEntry(t)
      PROVE  {db'.log[i].won, db'.log[i].lost} = {db'.log[i].local, db'.log[i].remote}
    <2>1. call[t].at = "resolve"
        BY <1>5 DEF ResolveEntry, At
    <2>2. /\ db.log[call[t].id].local = call[t].local
          /\ db.log[call[t].id].remote = call[t].remote
        BY <2>1 DEF VersionsInv
    <2>3. i \in DOMAIN db.log
        BY <1>5, ResolveEntryIs DEF Base
    <2>4. CASE i = call[t].id
        BY <1>5, <2>2, <2>3, <2>4, ResolveEntryIs DEF Base
    <2>5. CASE i # call[t].id
        <3>1. db'.log[i] = db.log[i]
            BY <1>5, <2>3, <2>5, ResolveEntryIs DEF Base
        <3> QED
            BY <1>1, <2>3, <3>1
    <2> QED
        BY <2>4, <2>5
<1> QED
    BY <1>1, <1>2, <1>3, <1>4, <1>5, LogStep, PairedOwn DEF Base, Logs

LEMMA InitVersions ==
    Init => VersionsInv /\ LogConsistent
<1>1. DOMAIN <<>> = {}
    OBVIOUS
<1>2. ASSUME Init
      PROVE  LogConsistent
    BY <1>1, <1>2, InitIs DEF LogConsistent
<1>3. Init => VersionsInv
    BY InitIs DEF VersionsInv
<1> QED
    BY <1>2, <1>3

-----------------------------------------------------------------------------
(* What a resolution replaces.                                             *)

Undisturbed ==
    Safe({"save_before_apply", "same_conflict", "insert_during_log",
          "same_number", "write_in_transaction", "commit_error"})

RowLogged(e) == \E i \in EntriesOf(e) : db.rows[e].ver \in {db.log[i].local, db.log[i].remote}

\* From the report of a conflict on, its local version is the row's; and no
\* save or deletion of the record is under way.
LossInv ==
    Undisturbed => \A t \in Thread :
        /\ call[t].at \in {"look", "reset", "insert", "lastid", "strategy", "resolve"} =>
               db.rows[call[t].e].ver = call[t].local
        /\ call[t].at = "entry" => db.rows[call[t].e].ver = db.log[call[t].id].local
        /\ At(t, "apply") \/ Applying(t) => RowLogged(call[t].e)
        /\ \A u \in Thread \ {t}, e \in Entity : Resolving(t, e) => ~Writing(u, e)

LEMMA UndisturbedIs ==
    Undisturbed => Paired /\ Apart /\ OneEach /\ Unmixed /\ OwnIds /\ Safe({"save_before_apply"})
                   /\ ~Risk("save_before_apply")
BY DEF Undisturbed, Paired, Apart, OneEach, Unmixed, OwnIds, Safe, Risk

LEMMA ContentMoves ==
    ASSUME StoreTypeOK, NEW t \in Thread, Content(t)
    PROVE  call'[t].at \in {"record", "post"} /\ call[t].at \in {"replace", "delete", "apply"}
<1>1. /\ Goto(t, "record") \/ Goto(t, "post")
      /\ call[t].at \in {"replace", "delete", "apply"}
    BY DEF Content, Replace, SoftDelete, ApplyRaw, At
<1> QED
    BY <1>1, GotoIs DEF Positions

\* Nobody else writes the row that a call is at.
LEMMA RowStays ==
    ASSUME Base, NumbersInv, LossInv, Undisturbed, [Next]_vars,
           NEW t \in Thread, NEW e \in Entity, Resolving(t, e), ~Content(t)
    PROVE  db'.rows[e].ver = db.rows[e].ver
<1>1. CASE SameContent(db, db')
    BY <1>1 DEF SameContent
<1>2. ASSUME NEW u \in Thread, Logs(u)
      PROVE  db'.rows[e].ver = db.rows[e].ver
    BY <1>2, LogsIs DEF Base
<1>3. ASSUME NEW u \in Thread, Content(u)
      PROVE  db'.rows[e].ver = db.rows[e].ver
    <2>1. call[u].at \in {"replace", "delete", "apply"} /\ u # t
        BY <1>3, ContentMoves DEF Base
    <2>2. call[u].e # e
        <3>1. CASE call[u].at = "apply"
            BY <2>1, <3>1, UndisturbedIs DEF Base, AloneInv, Resolving
        <3>2. CASE call[u].at \in {"replace", "delete"}
            BY <2>1, <3>2 DEF LossInv, Writing
        <3> QED
            BY <2>1, <3>1, <3>2
    <2> QED
        BY <1>3, <2>2, ContentIs, UndisturbedIs DEF Base
<1> QED
    BY <1>1, <1>2, <1>3, ContentsStay, UndisturbedIs DEF Base

\* A conflict keeps saves and deletions of its record away.
LEMMA NextAway ==
    ASSUME Base, LossInv, Undisturbed, [Next]_vars, NEW t \in Thread, NEW u \in Thread,
           t # u, NEW e \in Entity, Resolving(t, e)', Writing(u, e)'
    PROVE  FALSE
<1>1. CASE Begins(t) /\ Alone(t) /\ call'[t].e = e
    <2>1. Writing(u, e)
        BY <1>1 DEF Alone, Writing
    <2> QED
        BY <1>1, <2>1, BeginsIs, UndisturbedIs DEF Base
<1>2. CASE Resolving(t, e)
    <2>1. ~Writing(u, e) /\ ~Resolving(u, e)
        BY <1>2, UndisturbedIs DEF LossInv, Base, AloneInv
    <2>2. CASE call'[u] = call[u]
        BY <2>1, <2>2 DEF Writing
    <2>3. CASE Onward(u)
        <3>1. NotResolving(u, e)
            BY <2>1, <2>3 DEF Onward
        <3> QED
            BY <1>2, <3>1, UndisturbedIs DEF NotResolving, Others
    <2>4. CASE Begins(u)
        BY <2>4, BeginsIs DEF Base, Writing
    <2>5. CASE Advances(u)
        BY <2>1, <2>5 DEF Advances, Writing, Resolving, ResolverPositions
    <2> QED
        BY <2>2, <2>3, <2>4, <2>5, StepOnward DEF Base
<1> QED
    BY <1>1, <1>2, ResolvingBefore DEF Base

\* Within a conflict rows are read only.
LEMMA AdvancesRows ==
    ASSUME StoreTypeOK, NEW t \in Thread, Advances(t)
    PROVE  db'.rows = db.rows
<1>1. CASE Logs(t)
    BY <1>1, LogsIs
<1>2. CASE ~Logs(t)
    BY <1>2 DEF Advances, Logs, LookForEntry, ReadLastId, ChooseStrategy, ReadEntry, ApplyTyped, Query
<1> QED
    BY <1>1, <1>2

\* The local version of a call is the row's.
LEMMA AdvancesLocal ==
    ASSUME Base, VersionsInv, LossInv, Undisturbed, NEW t \in Thread, Advances(t)
    PROVE  /\ call'[t].at # "entry"
           /\ call'[t].at \in {"look", "reset", "insert", "lastid", "strategy", "resolve"} =>
                  db'.rows[call'[t].e].ver = call'[t].local
<1>0. db'.rows = db.rows /\ call'[t].e = call[t].e
    BY AdvancesRows DEF Base, Advances
<1>1. /\ call[t].at \in {"look", "reset", "insert", "lastid", "strategy", "resolve"} =>
             db.rows[call[t].e].ver = call[t].local
      /\ call[t].at = "entry" => db.rows[call[t].e].ver = db.log[call[t].id].local
    BY DEF LossInv
<1>2. CASE LookForEntry(t)
    <2>1. call[t].at = "look"
        BY <1>2 DEF LookForEntry, At
    <2> QED
        BY <1>0, <1>1, <1>2, <2>1, LookIs DEF Base, SameCall
<1>3. CASE ResetEntry(t) \/ InsertEntry(t)
    <2>1. call[t].at \in {"reset", "insert"} /\ (Goto(t, "strategy") \/ Goto(t, "lastid"))
        BY <1>3 DEF ResetEntry, InsertEntry, At
    <2> QED
        BY <1>0, <1>1, <2>1, GotoIs DEF Base, SameCall, Positions
<1>4. CASE ReadLastId(t)
    <2>1. call[t].at = "lastid"
        BY <1>4 DEF ReadLastId, At
    <2> QED
        BY <1>0, <1>1, <1>4, <2>1, LastIdIs DEF Base, SameCall
<1>5. ASSUME NEW s \in Strategy, ChooseStrategy(t, s), call'[t].at = "resolve"
      PROVE  db'.rows[call'[t].e].ver = call'[t].local
    <2>1. call[t].at = "strategy"
        BY <1>5 DEF ChooseStrategy, At
    <2> QED
        BY <1>0, <1>1, <1>5, <2>1, StrategyIs DEF Base
<1>6. CASE ReadEntry(t) /\ call'[t].at = "resolve"
    <2>1. call[t].at = "entry"
        BY <1>6 DEF ReadEntry, At
    <2> QED
        BY <1>0, <1>1, <1>6, <2>1, EntryIs DEF Base
<1>7. CASE ResolveEntry(t)
    BY <1>7, ResolveIs DEF Base
<1>8. CASE ApplyTyped(t)
    BY <1>8, ApplyTypedIs DEF Base
<1> QED
    BY <1>2, <1>3, <1>4, <1>5, <1>6, <1>7, <1>8 DEF Advances

\* A resolution that is recorded leaves the row's version in the log.
LEMMA AdvancesLogged ==
    ASSUME Base, VersionsInv, LossInv, Undisturbed, [Next]_vars, NEW t \in Thread, Advances(t),
           At(t, "apply")' \/ Applying(t)'
    PROVE  RowLogged(call[t].e)'
<1>0. db'.rows = db.rows /\ call'[t].e = call[t].e
    BY AdvancesRows DEF Base, Advances
<1>1. CASE ResolveEntry(t)
    <2>1. call[t].at = "resolve"
        BY <1>1 DEF ResolveEntry, At
    <2>2. /\ call[t].id \in EntriesOf(call[t].e)
          /\ db.rows[call[t].e].ver = db.log[call[t].id].local
        BY <2>1, UndisturbedIs DEF Base, LogInv, LossInv, VersionsInv
    <2>3. PICK i, e : i = call[t].id /\ e = call[t].e
        OBVIOUS
    <2>4. i \in EntriesOf(e)'
        BY <2>2, <2>3, EntriesStay, UndisturbedIs DEF Base
    <2>5. db'.log[i].local = db.log[i].local
        BY <1>1, <2>2, <2>3, ResolveEntryIs DEF Base, EntriesOf
    <2>6. RowLogged(e)'
        BY <1>0, <2>2, <2>3, <2>4, <2>5 DEF RowLogged
    <2> QED
        BY <1>0, <2>3, <2>6 DEF RowLogged, EntriesOf
<1>2. CASE ApplyTyped(t)
    <2>1. call[t].at = "apply" /\ db' = db
        BY <1>2 DEF ApplyTyped, At, Query
    <2>2. RowLogged(call[t].e)
        BY <2>1 DEF LossInv, At
    <2> QED
        BY <1>0, <2>1, <2>2 DEF RowLogged, EntriesOf
<1>3. CASE ~ResolveEntry(t) /\ ~ApplyTyped(t)
    <2>1. call'[t].at \in {"reset", "insert", "strategy", "lastid", "resolve"}
        <3>1. ResetEntry(t) => Goto(t, "strategy")
            BY DEF ResetEntry
        <3>2. InsertEntry(t) => Goto(t, "lastid")
            BY DEF InsertEntry
        <3> QED
            BY <1>3, <3>1, <3>2, LookIs, GotoIs, LastIdIs DEF Base, Advances, Positions
    <2> QED
        BY <2>1 DEF At, Applying
<1> QED
    BY <1>1, <1>2, <1>3

LEMMA NextLoss ==
    ASSUME Base, NumbersInv, VersionsInv, LossInv, [Next]_vars
    PROVE  LossInv'
<1>0. mix' = mix
    BY MixStays DEF Base
<1> SUFFICES ASSUME Undisturbed, NEW t \in Thread
             PROVE  /\ call'[t].at \in {"look", "reset", "insert", "lastid", "strategy", "resolve"} =>
                           db'.rows[call'[t].e].ver = call'[t].local
                    /\ call'[t].at = "entry" => db'.rows[call'[t].e].ver = db'.log[call'[t].id].local
                    /\ At(t, "apply")' \/ Applying(t)' => RowLogged(call[t].e)'
                    /\ \A u \in Thread \ {t}, e \in Entity : Resolving(t, e)' => ~Writing(u, e)'
    BY <1>0 DEF LossInv, Undisturbed, Safe
<1>1. /\ call[t].at \in {"look", "reset", "insert", "lastid", "strategy", "resolve"} =>
             db.rows[call[t].e].ver = call[t].local
      /\ call[t].at = "entry" => db.rows[call[t].e].ver = db.log[call[t].id].local
      /\ At(t, "apply") \/ Applying(t) => RowLogged(call[t].e)
    BY DEF LossInv
<1>2. \A u \in Thread \ {t}, e \in Entity : Resolving(t, e)' => ~Writing(u, e)'
    BY NextAway
<1>3. CASE call'[t] = call[t]
    <2>0. call[t].e \in Entity /\ ~Content(t)
        BY <1>3, CallType, ContentMoves DEF Base
    <2>1. Resolving(t, call[t].e) => db'.rows[call[t].e].ver = db.rows[call[t].e].ver
        BY <2>0, RowStays
    <2>2. ASSUME call[t].at = "entry"
          PROVE  db'.rows[call'[t].e].ver = db'.log[call'[t].id].local
        <3>1. call[t].id \in EntriesOf(call[t].e) /\ Resolving(t, call[t].e)
            BY <2>2, UndisturbedIs DEF Base, LogInv, Resolving
        <3>2. db'.log[call[t].id].local = db.log[call[t].id].local
            BY <1>3, <2>0, <3>1, EntryStays, UndisturbedIs
        <3> QED
            BY <1>1, <1>3, <2>1, <2>2, <3>1, <3>2
    <2>3. ASSUME At(t, "apply")' \/ Applying(t)'
          PROVE  RowLogged(call[t].e)'
        <3>1. At(t, "apply") \/ Applying(t)
            BY <1>3, <2>3 DEF At, Applying
        <3>2. PICK e \in Entity : e = call[t].e
            BY <2>0
        <3>3. Resolving(t, e)
            BY <3>1, <3>2 DEF At, Applying, Resolving
        <3>4. PICK i \in EntriesOf(e) : db.rows[e].ver \in {db.log[i].local, db.log[i].remote}
            BY <1>1, <3>1, <3>2 DEF RowLogged
        <3>5. i \in EntriesOf(e)'
            BY EntriesStay, UndisturbedIs DEF Base
        <3>6. db'.log[i].local = db.log[i].local /\ db'.log[i].remote = db.log[i].remote
            BY <1>3, <3>3, EntryStays, UndisturbedIs
        <3>7. RowLogged(e)'
            BY <2>1, <3>2, <3>3, <3>4, <3>5, <3>6 DEF RowLogged
        <3> QED
            BY <1>3, <3>2, <3>7 DEF RowLogged, EntriesOf
    <2>4. call'[t].at \in {"look", "reset", "insert", "lastid", "strategy", "resolve"} =>
             db'.rows[call'[t].e].ver = call'[t].local
        BY <1>1, <1>3, <2>1 DEF Resolving
    <2> QED
        BY <1>2, <1>3, <2>2, <2>3, <2>4
<1>4. CASE Onward(t)
    <2>1. call'[t].at \notin ResolverPositions
        BY <1>4 DEF Onward
    <2>2. ASSUME Applying(t)'
          PROVE  RowLogged(call[t].e)'
        <3>1. Applying(t) /\ call'[t].e = call[t].e /\ db' = db
            BY <1>4, <2>2 DEF Onward
        <3> QED
            BY <1>1, <3>1 DEF RowLogged, EntriesOf
    <2> QED
        BY <1>2, <2>1, <2>2 DEF ResolverPositions, At
<1>5. CASE Begins(t)
    <2>1. ~(At(t, "apply")' \/ Applying(t)')
        BY <1>5, BeginsIs DEF Base, At, Applying
    <2>2. /\ call'[t].at \in {"look", "entry"} /\ db' = db
          /\ call'[t].at = "look" => call'[t].local = db.rows[call'[t].e].ver
          /\ call'[t].at = "entry" => db.rows[call'[t].e].ver = db.log[call'[t].id].local
        BY <1>5, BeginsIs, UndisturbedIs DEF Base
    <2> QED
        BY <1>2, <2>1, <2>2
<1>6. CASE Advances(t)
    BY <1>2, <1>6, AdvancesLocal, AdvancesLogged
<1> QED
    BY <1>3, <1>4, <1>5, <1>6, StepOnward DEF Base

LEMMA InitLoss ==
    Init => LossInv
BY InitIs DEF LossInv, At, Applying, Resolving

LEMMA LossImplies ==
    LossInv => NoSilentLoss
<1> SUFFICES ASSUME Undisturbed, LossInv, NEW t \in Thread,
                    At(t, "apply") \/ (At(t, "replace") /\ call[t].then)
             PROVE  RowLogged(call[t].e)
    BY DEF NoSilentLoss, Undisturbed, RowLogged
<1>1. At(t, "apply") \/ Applying(t)
    BY DEF At, Applying
<1> QED
    BY <1>1 DEF LossInv

-----------------------------------------------------------------------------
(* The manager.                                                            *)

\* Where no call has met another's between test and set, none has been
\* stopped and none dropped, one call at most is past the test, and the flag
\* covers its synchronisation.
Quiet == mishaps \cap {"overlap", "stop", "dropped"} = {}
Entered(h) == stage[h] \in {"set", "perform", "clear"}

EnteredInv ==
    Quiet => /\ \A g, h \in Handle : Entered(g) /\ Entered(h) => g = h
             /\ \A h \in Handle : InSection(h) => inProgress

\* The other handles' calls stay where they are.
LEMMA MovedIs ==
    ASSUME ManagerTypeOK, NEW h \in Handle, NEW to \in Stages, Moved(h, to)
    PROVE  /\ stage' \in [Handle -> Stages]
           /\ stage'[h] = to
           /\ \A g \in Handle \ {h} : stage'[g] = stage[g]
BY DEF ManagerTypeOK, Moved

\* Where a handle's call goes, and what it does to the flag.
LEMMA ManagerStepIs ==
    ASSUME ManagerTypeOK, NEW h \in Handle, ManagerStep(h)
    PROVE  \/ StartSync(h) /\ Moved(h, "test")
           \/ TestFlag(h) /\ inProgress /\ Moved(h, "idle")
           \/ TestFlag(h) /\ ~inProgress /\ Moved(h, "set")
           \/ SetFlag(h) /\ Moved(h, "perform")
           \/ PerformSync(h) /\ Moved(h, "clear")
           \/ ClearFlag(h) /\ Moved(h, "stamp")
           \/ StampLastSync(h) /\ Moved(h, "idle")
           \/ StopSync(h) /\ Moved(h, "idle")
           \/ EnableOfflineMode(h) /\ Moved(h, "stop")
           \/ DisableOfflineMode(h) /\ Moved(h, "test")
           \/ DropSync(h) /\ Moved(h, "idle")
<1>1. CASE TestFlag(h)
    <2>1. CASE inProgress
        BY <1>1, <2>1 DEF TestFlag
    <2>2. CASE ~inProgress
        BY <1>1, <2>2 DEF TestFlag
    <2> QED
        BY <2>1, <2>2
<1> QED
    BY <1>1 DEF ManagerStep, StartSync, SetFlag, PerformSync, ClearFlag, StampLastSync,
       StopSync, EnableOfflineMode, DisableOfflineMode, DropSync

LEMMA ManagerTypeStep ==
    ASSUME ManagerTypeOK, NEW h \in Handle, ManagerStep(h)
    PROVE  ManagerTypeOK'
<1>1. stage' \in [Handle -> Stages]
    BY ManagerStepIs, MovedIs DEF Stages
<1>2. mishaps' \subseteq {"overlap", "stop", "dropped"}
    BY DEF ManagerTypeOK, ManagerStep, StartSync, TestFlag, SetFlag, PerformSync, ClearFlag,
       StampLastSync, StopSync, EnableOfflineMode, DisableOfflineMode, DropSync
<1>3. inProgress' \in BOOLEAN /\ synced' \in BOOLEAN
    BY DEF ManagerTypeOK, ManagerStep, StartSync, TestFlag, SetFlag, PerformSync, ClearFlag,
       StampLastSync, StopSync, EnableOfflineMode, DisableOfflineMode, DropSync
<1>4. offline' \in [Handle -> BOOLEAN]
    BY DEF ManagerTypeOK, ManagerStep, StartSync, TestFlag, SetFlag, PerformSync, ClearFlag,
       StampLastSync, StopSync, EnableOfflineMode, DisableOfflineMode, DropSync
<1> QED
    BY <1>1, <1>2, <1>3, <1>4 DEF ManagerTypeOK

\* What has happened is not forgotten.
LEMMA MishapsGrow ==
    ASSUME NEW h \in Handle, ManagerStep(h)
    PROVE  mishaps \subseteq mishaps'
BY DEF ManagerStep, StartSync, TestFlag, SetFlag, PerformSync, ClearFlag,
   StampLastSync, StopSync, EnableOfflineMode, DisableOfflineMode, DropSync

LEMMA EnteredStep ==
    ASSUME ManagerTypeOK, EnteredInv, NEW h \in Handle, ManagerStep(h)
    PROVE  EnteredInv'
<1>0. SUFFICES ASSUME Quiet'
               PROVE  /\ \A f, g \in Handle : Entered(f)' /\ Entered(g)' => f = g
                      /\ \A g \in Handle : InSection(g)' => inProgress'
    BY DEF EnteredInv
<1>1. /\ \A f, g \in Handle : Entered(f) /\ Entered(g) => f = g
      /\ \A g \in Handle : InSection(g) => inProgress
    BY <1>0, MishapsGrow DEF Quiet, EnteredInv
\* A call that is not past the test, or stays past it.
<1>2. ASSUME NEW to \in Stages, Moved(h, to), inProgress' = inProgress,
             to \notin Section, to = "set" => Entered(h)
      PROVE  /\ \A f, g \in Handle : Entered(f)' /\ Entered(g)' => f = g
             /\ \A g \in Handle : InSection(g)' => inProgress'
    <2>1. \A g \in Handle : Entered(g)' => Entered(g)
        BY <1>2, MovedIs DEF Entered, Section
    <2>2. \A g \in Handle : InSection(g)' => InSection(g)
        BY <1>2, MovedIs DEF InSection
    <2> QED
        BY <1>1, <1>2, <2>1, <2>2
<1>3. CASE TestFlag(h) /\ ~inProgress /\ Moved(h, "set")
    <2>1. inProgress' = inProgress /\ stage[h] = "test"
        BY <1>3 DEF TestFlag
    <2>2. \A g \in Handle : stage[g] # "set"
        BY <1>0, <1>3 DEF TestFlag, Quiet
    <2>3. \A g \in Handle : ~InSection(g)
        BY <1>1, <1>3
    <2>4. \A g \in Handle : ~Entered(g)
        BY <2>2, <2>3 DEF Entered, InSection, Section
    <2>5. \A g \in Handle \ {h} : ~Entered(g)'
        BY <1>3, <2>4, MovedIs DEF Entered, Stages
    <2>6. \A g \in Handle : ~InSection(g)'
        BY <1>3, <2>3, MovedIs DEF InSection, Section, Stages
    <2> QED
        BY <2>5, <2>6
<1>4. CASE SetFlag(h) /\ Moved(h, "perform")
    <2>1. inProgress' = TRUE /\ Entered(h)
        BY <1>4 DEF SetFlag, Entered
    <2>2. \A g \in Handle : Entered(g)' => Entered(g)
        BY <1>4, <2>1, MovedIs DEF Entered, Stages
    <2> QED
        BY <1>1, <2>1, <2>2
<1>5. CASE PerformSync(h) /\ Moved(h, "clear")
    <2>1. inProgress' = inProgress /\ Entered(h) /\ InSection(h)
        BY <1>5 DEF PerformSync, Entered, InSection, Section
    <2>2. \A g \in Handle : Entered(g)' => Entered(g)
        BY <1>5, <2>1, MovedIs DEF Entered, Stages
    <2>3. \A g \in Handle : InSection(g)' => InSection(g)
        BY <1>5, <2>1, MovedIs DEF InSection, Stages
    <2> QED
        BY <1>1, <2>1, <2>2, <2>3
<1>6. CASE ClearFlag(h) /\ Moved(h, "stamp")
    <2>1. Entered(h)
        BY <1>6 DEF ClearFlag, Entered
    <2>2. \A g \in Handle \ {h} : ~Entered(g)
        BY <1>1, <2>1
    <2>3. \A g \in Handle : ~Entered(g)'
        BY <1>6, <2>2, MovedIs DEF Entered, Stages
    <2>4. \A g \in Handle : ~InSection(g)'
        BY <2>3 DEF Entered, InSection, Section
    <2> QED
        BY <2>3, <2>4
<1>7. CASE StopSync(h) /\ Moved(h, "idle")
    <2>1. \A g \in Handle : ~InSection(g)
        BY <1>0, <1>7 DEF StopSync, Quiet
    <2>2. \A g \in Handle : ~InSection(g)'
        BY <1>7, <2>1, MovedIs DEF InSection, Section, Stages
    <2>3. \A g \in Handle : Entered(g)' => Entered(g)
        BY <1>7, MovedIs DEF Entered, Stages
    <2> QED
        BY <1>1, <2>2, <2>3
<1>8. CASE DropSync(h)
    BY <1>0, <1>8 DEF DropSync, Quiet
<1>9. CASE \/ StartSync(h) /\ Moved(h, "test")
           \/ TestFlag(h) /\ Moved(h, "idle")
           \/ StampLastSync(h) /\ Moved(h, "idle")
           \/ EnableOfflineMode(h) /\ Moved(h, "stop")
           \/ DisableOfflineMode(h) /\ Moved(h, "test")
    <2>1. inProgress' = inProgress
        BY <1>9 DEF StartSync, TestFlag, StampLastSync, EnableOfflineMode, DisableOfflineMode
    <2> QED
        BY <1>2, <1>9, <2>1 DEF Stages, Section
<1> QED
    BY <1>3, <1>4, <1>5, <1>6, <1>7, <1>8, <1>9, ManagerStepIs

LEMMA FlagStep ==
    ASSUME ManagerTypeOK, FlagNotStuck, NEW h \in Handle, ManagerStep(h)
    PROVE  FlagNotStuck'
<1>0. SUFFICES ASSUME inProgress', "dropped" \notin mishaps'
               PROVE  \E g \in Handle : InSection(g)'
    BY DEF FlagNotStuck
<1>1. CASE SetFlag(h) /\ Moved(h, "perform")
    <2>1. InSection(h)'
        BY <1>1, MovedIs DEF InSection, Section, Stages
    <2> QED
        BY <2>1
<1>2. CASE PerformSync(h) /\ Moved(h, "clear")
    <2>1. InSection(h)'
        BY <1>2, MovedIs DEF InSection, Section, Stages
    <2> QED
        BY <2>1
<1>3. CASE ClearFlag(h) \/ StopSync(h)
    BY <1>0, <1>3 DEF ClearFlag, StopSync
<1>4. CASE DropSync(h)
    BY <1>0, <1>4 DEF DropSync
<1>5. ASSUME NEW to \in Stages, Moved(h, to), ~InSection(h), inProgress' = inProgress
      PROVE  \E g \in Handle : InSection(g)'
    <2>1. PICK g \in Handle : InSection(g)
        BY <1>0, <1>5, MishapsGrow DEF FlagNotStuck
    <2>2. InSection(g)'
        BY <1>5, <2>1, MovedIs DEF InSection
    <2> QED
        BY <2>2
<1>6. CASE StartSync(h) \/ TestFlag(h) \/ StampLastSync(h)
           \/ EnableOfflineMode(h) \/ DisableOfflineMode(h)
    <2>1. inProgress' = inProgress /\ ~InSection(h)
        BY <1>6 DEF StartSync, TestFlag, StampLastSync, EnableOfflineMode, DisableOfflineMode,
           InSection, Section
    <2>2. \E to \in Stages : Moved(h, to)
        BY ManagerStepIs DEF Stages
    <2> QED
        BY <1>5, <2>1, <2>2
<1> QED
    BY <1>1, <1>2, <1>3, <1>4, <1>6, ManagerStepIs

LEMMA EnteredImplies ==
    EnteredInv => OneSync
BY DEF EnteredInv, OneSync, Quiet, Entered, InSection, Section

LEMMA InitManager ==
    Init => ManagerTypeOK /\ EnteredInv /\ FlagNotStuck
BY DEF Init, ManagerInit, ManagerTypeOK, Stages, EnteredInv, Entered, InSection, Section,
   FlagNotStuck

\* Nobody else touches the manager.
LEMMA ManagerAlone ==
    ASSUME [Next]_vars
    PROVE  UNCHANGED managerVars \/ \E h \in Handle : ManagerStep(h)
<1>1. ASSUME NEW t \in Thread, StoreStep(t)
      PROVE  UNCHANGED managerVars
    BY <1>1 DEF StoreStep, Save, Delete, CheckNumber, CheckExists, Replace, SoftDelete,
       RecordChange, Starts, Still
<1>2. ASSUME NEW t \in Thread, TrackerStep(t)
      PROVE  UNCHANGED managerVars
    BY <1>2 DEF TrackerStep, MarkSynced, MarkClean, UpdateSyncState, MarkAllSynced,
       ClearSyncedChanges, Begin, CleanRow, SyncChanges, CommitMark, RollbackMark,
       CountPending, WritePending, Starts, AtOnce, Still
<1>3. ASSUME NEW t \in Thread, ResolverStep(t)
      PROVE  UNCHANGED managerVars
    BY <1>3 DEF ResolverStep, ReportConflict, ResolveManually, LookForEntry, ResetEntry,
       InsertEntry, ReadLastId, ChooseStrategy, ReadEntry, ResolveEntry, ApplyTyped,
       ApplyRaw, PostApply, Starts, Still
<1>4. ASSUME NEW t \in Thread, FaultStep(t)
      PROVE  UNCHANGED managerVars
    BY <1>4 DEF FaultStep, StatementFails, ExistsFails, MarkFails, CommitFails, Faulty
<1>5. CASE Crash
    BY <1>5 DEF Crash, Faulty
<1>6. CASE Synchronise
    BY <1>6 DEF Synchronise, ManagerNext
<1> QED
    BY <1>1, <1>2, <1>3, <1>4, <1>5, <1>6 DEF Next, vars

LEMMA NextManager ==
    ASSUME ManagerTypeOK, EnteredInv, FlagNotStuck, [Next]_vars
    PROVE  ManagerTypeOK' /\ EnteredInv' /\ FlagNotStuck'
<1>1. CASE UNCHANGED managerVars
    BY <1>1 DEF managerVars, ManagerTypeOK, EnteredInv, Quiet, Entered, InSection, FlagNotStuck
<1> QED
    BY <1>1, ManagerAlone, ManagerTypeStep, EnteredStep, FlagStep

-----------------------------------------------------------------------------
(* The theorems.                                                           *)

LEMMA TypesAre ==
    TypeOK <=> StoreTypeOK /\ ManagerTypeOK
BY DEF TypeOK, StoreTypeOK

\* What a device's database is, under every interleaving, fault and crash.
StoreInv ==
    /\ StoreTypeOK /\ OneTransaction /\ UndoInv
    /\ NumbersInv /\ NumbersUnique /\ Durable /\ PendingInv

LEMMA StoreAlways == Spec => []StoreInv
<1>1. Init => StoreInv
    BY InitIs, InitTransaction, InitLog, InitNumbers, InitPending DEF StoreInv
<1>2. StoreInv /\ [Next]_vars => StoreInv'
    BY StoreTypeNext, NextTransaction, NextUndo, NextNumbers, NextDurable, NextPending
       DEF StoreInv
<1> QED
    BY <1>1, <1>2, PTL DEF Spec

LEMMA ManagerAlways == Spec => [](ManagerTypeOK /\ EnteredInv /\ FlagNotStuck)
BY InitManager, NextManager, PTL DEF Spec

\* The database of a device is sound under every interleaving of its calls,
\* with every failing statement and crash: see StoreSound.
THEOREM StoreAlwaysSound == Spec => []StoreSound
<1>1. StoreInv /\ ManagerTypeOK => StoreSound
    BY TypesAre, PendingImplies DEF StoreInv, StoreSound
<1> QED
    BY <1>1, StoreAlways, ManagerAlways, PTL

\* The log of conflicts has every resolution with both of its versions, and
\* no resolution takes away a third: see ConflictsSound.
THEOREM ConflictsAlwaysSound == Spec => []ConflictsSound
<1> DEFINE Inv == /\ StoreInv /\ ThenInv /\ AloneInv /\ LogInv
                  /\ VersionsInv /\ LogConsistent /\ LossInv
<1>1. Init => Inv
    <2>1. Init => StoreInv
        BY InitIs, InitTransaction, InitLog, InitNumbers, InitPending DEF StoreInv
    <2> QED
        BY <2>1, InitAlone, InitLog, InitVersions, InitLoss
<1>2. Inv /\ [Next]_vars => Inv'
    <2> SUFFICES ASSUME Inv, [Next]_vars
                 PROVE  Inv'
        OBVIOUS
    <2>1. StoreInv'
        BY StoreTypeNext, NextTransaction, NextUndo, NextNumbers, NextDurable, NextPending
           DEF StoreInv
    <2>2. Base /\ NumbersInv
        BY DEF Base, StoreInv
    <2>3. ThenInv' /\ AloneInv' /\ LogInv'
        BY <2>2, NextThen, NextAlone, NextLog DEF Base
    <2>4. VersionsInv' /\ LogConsistent' /\ LossInv'
        BY <2>2, NextVersions, NextConsistent, NextLoss
    <2> QED
        BY <2>1, <2>3, <2>4
<1>3. Inv => ConflictsSound
    BY LogImplies, LossImplies DEF ConflictsSound
<1> QED
    BY <1>1, <1>2, <1>3, PTL DEF Spec

\* The manager's flag covers its one synchronisation, and is not left behind,
\* for any number of handles: see FlagSound.
THEOREM FlagAlwaysSound == Spec => []FlagSound
<1>1. EnteredInv /\ FlagNotStuck => FlagSound
    BY EnteredImplies DEF FlagSound
<1> QED
    BY <1>1, ManagerAlways, PTL
=============================================================================
