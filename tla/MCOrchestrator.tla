--------------------------- MODULE MCOrchestrator ---------------------------
(* Instances of Orchestrator for TLC: ledger and tax tasks and agents.     *)
EXTENDS Orchestrator, TLC

CONSTANTS t1, t2, a1, a2, ledger, tax, d1, d2

\* The first agent keeps the ledger, the second calculates taxes.
OneOfEach == a1 :> ledger @@ a2 :> tax
First == <<a1>>
Both == <<a1, a2>>

\* A ledger task of high priority and a tax task.
LedgerAndTax == t1 :> ledger @@ t2 :> tax
LedgerFirst == t1 :> High @@ t2 :> Normal
Normally == t1 :> Normal @@ t2 :> Normal
Rightly == t1 :> {ledger} @@ t2 :> {tax}

\* One task, without an assigned agent type.
Untyped == t1 :> NoType
ByLedger == t1 :> {ledger}
NormalTask == t1 :> Normal

Symmetry == Permutations(Dispatchers)
=============================================================================
