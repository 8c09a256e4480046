---------------------------- MODULE EdgeManager ----------------------------
(***************************************************************************)
(* The manager of the edge mode (edge/mod.rs): clones of it, here handles, *)
(* share the flag of a running synchronisation, each with a configuration  *)
(* of its own.  A synchronisation only reads counts so far (perform_sync). *)
(***************************************************************************)
EXTENDS Integers

CONSTANT Handle \* the clones of the manager that make calls

VARIABLES
  inProgress, \* sync_in_progress
  offline,    \* config.offline_mode of each handle
  synced,     \* whether last_sync has been set
  stage,      \* where each handle's call stands
  mishaps     \* what has happened so far (history): "overlap", two calls
              \* between the test of the flag and its set; "stop", the flag
              \* cleared under a running synchronisation; "dropped", the
              \* future of a call dropped

managerVars == <<inProgress, offline, synced, stage, mishaps>>

Stages == {"idle", "test", "set", "perform", "clear", "stamp", "stop"}
Section == {"perform", "clear"}

InSection(h) == stage[h] \in Section

ManagerTypeOK ==
  /\ inProgress \in BOOLEAN
  /\ offline \in [Handle -> BOOLEAN]
  /\ synced \in BOOLEAN
  /\ stage \in [Handle -> Stages]
  /\ mishaps \subseteq {"overlap", "stop", "dropped"}

(* new, then initialize with the storage opened. *)
ManagerInit ==
  /\ inProgress = FALSE
  /\ \E b \in BOOLEAN : offline = [h \in Handle |-> b]
  /\ synced = FALSE
  /\ stage = [h \in Handle |-> IF offline[h] THEN "idle" ELSE "test"]
  /\ mishaps = {}

Moved(h, to) == stage' = [stage EXCEPT ![h] = to]

(* A call of start_sync. *)
StartSync(h) ==
  /\ stage[h] = "idle"
  /\ Moved(h, "test")
  /\ UNCHANGED <<inProgress, offline, synced, mishaps>>

(* Mutant: the flag is not looked at. *)
TestFlagBlind(h) ==
  /\ stage[h] = "test"
  /\ Moved(h, "set")
  /\ mishaps' = mishaps \cup {m \in {"overlap"} : \E g \in Handle : stage[g] = "set"}
  /\ UNCHANGED <<inProgress, offline, synced>>

(* The test of the flag; a call that finds it set returns. *)
TestFlag(h) ==
  /\ stage[h] = "test"
  /\ Moved(h, IF inProgress THEN "idle" ELSE "set")
  /\ mishaps' = mishaps \cup {m \in {"overlap"} : \E g \in Handle : stage[g] = "set"}
  /\ UNCHANGED <<inProgress, offline, synced>>

SetFlag(h) ==
  /\ stage[h] = "set"
  /\ inProgress' = TRUE
  /\ Moved(h, "perform")
  /\ UNCHANGED <<offline, synced, mishaps>>

(* perform_sync reads the state of synchronisation, and never fails. *)
PerformSync(h) ==
  /\ stage[h] = "perform"
  /\ Moved(h, "clear")
  /\ UNCHANGED <<inProgress, offline, synced, mishaps>>

(* Mutant: the flag stays set. *)
ClearFlagNever(h) ==
  /\ stage[h] = "clear"
  /\ Moved(h, "stamp")
  /\ UNCHANGED <<inProgress, offline, synced, mishaps>>

ClearFlag(h) ==
  /\ stage[h] = "clear"
  /\ inProgress' = FALSE
  /\ Moved(h, "stamp")
  /\ UNCHANGED <<offline, synced, mishaps>>

StampLastSync(h) ==
  /\ stage[h] = "stamp"
  /\ synced' = TRUE
  /\ Moved(h, "idle")
  /\ UNCHANGED <<inProgress, offline, mishaps>>

(* stop_sync, called or as the second half of enable_offline_mode. *)
StopSync(h) ==
  /\ stage[h] \in {"idle", "stop"}
  /\ inProgress' = FALSE
  /\ Moved(h, "idle")
  /\ mishaps' = mishaps \cup {m \in {"stop"} : \E g \in Handle : InSection(g)}
  /\ UNCHANGED <<offline, synced>>

EnableOfflineMode(h) ==
  /\ stage[h] = "idle"
  /\ offline' = [offline EXCEPT ![h] = TRUE]
  /\ Moved(h, "stop")
  /\ UNCHANGED <<inProgress, synced, mishaps>>

DisableOfflineMode(h) ==
  /\ stage[h] = "idle"
  /\ offline' = [offline EXCEPT ![h] = FALSE]
  /\ Moved(h, "test")
  /\ UNCHANGED <<inProgress, synced, mishaps>>

(* The caller drops the future at one of its awaits. *)
DropSync(h) ==
  /\ stage[h] # "idle"
  /\ Moved(h, "idle")
  /\ mishaps' = mishaps \cup {"dropped"}
  /\ UNCHANGED <<inProgress, offline, synced>>

ManagerStep(h) ==
  \/ StartSync(h) \/ TestFlag(h) \/ SetFlag(h) \/ PerformSync(h)
  \/ ClearFlag(h) \/ StampLastSync(h) \/ StopSync(h)
  \/ EnableOfflineMode(h) \/ DisableOfflineMode(h) \/ DropSync(h)

ManagerNext == \E h \in Handle : ManagerStep(h)

-----------------------------------------------------------------------------
(* At most one synchronisation runs, and the flag covers it ("guards        *)
(* against concurrent sync"), as long as no two calls have been between    *)
(* test and set, and no stop_sync has cleared the flag under a running one.*)
OneSync ==
  mishaps \cap {"overlap", "stop", "dropped"} = {} =>
    /\ \A g, h \in Handle : InSection(g) /\ InSection(h) => g = h
    /\ \A h \in Handle : InSection(h) => inProgress

(* The flag is not left behind: where it is set, a synchronisation runs,    *)
(* so that later ones are not refused for ever, unless a future has been   *)
(* dropped.                                                                *)
FlagNotStuck ==
  inProgress => \/ "dropped" \in mishaps
                \/ \E h \in Handle : InSection(h)
=============================================================================
