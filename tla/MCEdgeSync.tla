----------------------------- MODULE MCEdgeSync -----------------------------
(* Instances of EdgeSync for TLC: two rows of two types, or one row.       *)
EXTENDS EdgeSync, TLC

CONSTANTS r1, r2, account, invoice, c1, c2

OneEach == r1 :> account @@ r2 :> invoice
OneRow == r1 :> account

Symmetry == Permutations(Callers)
=============================================================================
