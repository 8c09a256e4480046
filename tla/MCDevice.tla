------------------------------ MODULE MCDevice ------------------------------
(* Instances of Device for TLC. *)
EXTENDS Device, TLC

CONSTANTS a1, a2, t1, t2, x1, i1, n1, n2, p, q, g, h

MCKindOf == [e \in Entity |->
  CASE e \in {a1, a2} -> "account"
    [] e \in {t1, t2} -> "transaction"
    [] e = x1 -> "transaction_entry"
    [] OTHER -> "invoice"]
MCAccountOf == [e \in Entity |-> a1]

MCMixes ==
  {[calls |-> {"save", "mark", "state"}, of |-> {a1, a2}, most |-> 3, risks |-> {}],
   [calls |-> {"save"}, of |-> {t1, t2, a2, x1}, most |-> 3, risks |-> {}],
   [calls |-> {"conflict"}, of |-> {a1, i1}, most |-> 4, risks |-> {}],
   [calls |-> {"save", "conflict"}, of |-> {a1, a2}, most |-> 3, risks |-> {}],
   [calls |-> {"save", "mark"}, of |-> {a1}, most |-> 3, risks |-> {"commit_error", "unlogged"}],
   [calls |-> {"manager"}, of |-> {}, most |-> 0, risks |-> {}]}

Symmetric == Permutations(Thread)
=============================================================================
