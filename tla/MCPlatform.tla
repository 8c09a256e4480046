----------------------------- MODULE MCPlatform -----------------------------
(***************************************************************************)
(* Two clients, two names and addresses; three rate-limit keys, one of a   *)
(* user with two roles; two files, one with a group in error; two tasks. *)
(***************************************************************************)
EXTENDS Platform, TLC

CONSTANTS c1, c2, n1, n2, m1, m2, address, user, endpoint, f1, f2, a1, a2, j1, j2

MCName == {n1, n2}
MCMail == {m1, m2}
MCNewRole == {Viewer, Admin}
MCLimitsOf == address :> {2} @@ endpoint :> {1} @@ user :> {1, 2}
MCGroupsOf ==
  f1 :> <<[good |-> TRUE, bill |-> FALSE], [good |-> TRUE, bill |-> TRUE]>> @@
  f2 :> <<[good |-> TRUE, bill |-> TRUE], [good |-> FALSE, bill |-> FALSE],
          [good |-> TRUE, bill |-> FALSE]>>

(* A token that a tool with the secret has issued for an administrator. *)
Outside == [id |-> Nobody, role |-> Admin, typ |-> "access", exp |-> 9]

AMix(part) ==
  [part |-> part, risks |-> {}, repository |-> "surreal", issued |-> {},
   known |-> {}, started |-> FALSE, keys |-> {}]
SessionMix(repository, issued, risks) ==
  [AMix("sessions") EXCEPT !.repository = repository, !.issued = issued, !.risks = risks]
DeskMix(known, started, risks) ==
  [AMix("desk") EXCEPT !.known = known, !.started = started, !.risks = risks]

MCMixes ==
  {SessionMix(r, {Outside}, {}) : r \in {"surreal", "memory"}}
  \cup {SessionMix("surreal", {}, {})}
  \cup {SessionMix("memory", {Outside}, {x}) : x \in {"same_registration", "role_and_login"}}
  \cup {[AMix("limiter") EXCEPT !.keys = {k}] : k \in {address, endpoint, user}}
  \cup {AMix("monitor")}
  \cup {DeskMix({"nexus"}, FALSE, {}), DeskMix({"nexus", "shared", "none"}, TRUE, {}),
         DeskMix({}, TRUE, {"import_again"})}
Symmetry ==
  Permutations({c1, c2}) \cup Permutations(MCName) \cup Permutations(MCMail)
  \cup Permutations({a1, a2}) \cup Permutations({j1, j2})
=============================================================================
