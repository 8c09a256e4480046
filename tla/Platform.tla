------------------------------ MODULE Platform ------------------------------
(***************************************************************************)
(* The server: its sessions, rate limiter, API handlers and monitor.  They *)
(* share no state, so that a behaviour moves one of them, its mix's part.  *)
(***************************************************************************)
EXTENDS Sessions, Desk, Monitor

vars == <<mix, sessionVars, limiterVars, deskVars, monitorVars>>

Init ==
  /\ MixInit
  /\ SessionsInit /\ LimiterInit /\ DeskInit /\ MonitorInit

Next ==
  \/ SessionsNext /\ UNCHANGED <<limiterVars, deskVars, monitorVars>>
  \/ LimiterNext /\ UNCHANGED <<sessionVars, deskVars, monitorVars>>
  \/ DeskNext /\ UNCHANGED <<sessionVars, limiterVars, monitorVars>>
  \/ MonitorNext /\ UNCHANGED <<sessionVars, limiterVars, deskVars>>

Spec == Init /\ [][Next]_vars

(* Who gets in, and how often: users are unique, tokens say what was true   *)
(* not long ago and come from where they should, buckets hold their limit. *)
AccessSound ==
  /\ SessionsTypeOK
  /\ UsersUnique /\ RoleWithinTTL /\ LoginsKept /\ FirstTokenFromOutside
  /\ WindowBounded /\ RetryAfterSuffices

(* What becomes of what was asked for: each order is somewhere, each import *)
(* is a beginning of its file, and no bill ever moves money.               *)
OrdersSound == DeskTypeOK /\ AnswersAccounted /\ BillsNeverPosted /\ ImportsInOrder

(* What is reported of the agents, read while they work, is off by at most *)
(* one task, and raises the alerts that it can raise.                      *)
StatusSound == MonitorTypeOK /\ SnapshotOffByOne /\ NeverCritical /\ FailuresAlarm
=============================================================================
