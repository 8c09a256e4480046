------------------------------ MODULE MCLedger ------------------------------
(* Instances of Ledger for TLC: a bank account, sales, rent and a capital  *)
(* account, with one transaction of each sort that matters.                *)
EXTENDS Ledger, TLC

CONSTANTS bank, capital, sales, rent,
          deposit, sale, refund, lease, slip,
          n1, n2, n3, c1, c2, k1, k2

FourKinds == bank :> "Asset" @@ capital :> "Equity"
             @@ sales :> "Revenue" @@ rent :> "Expense"
\* Capital and rent would get the same number.
FourNumbers == bank :> n1 @@ sales :> n2 @@ capital :> n3 @@ rent :> n3

Debit(amount) == [debit |-> amount, credit |-> 0]
Credit(amount) == [debit |-> 0, credit |-> amount]

\* The slip does not balance; the lease is paid from the bank account.
AllEntries ==
    deposit :> (bank :> Debit(3) @@ capital :> Credit(3))
    @@ sale :> (bank :> Debit(2) @@ sales :> Credit(2))
    @@ refund :> (sales :> Debit(1) @@ bank :> Credit(1))
    @@ lease :> (rent :> Debit(1) @@ bank :> Credit(1))
    @@ slip :> (bank :> Debit(2) @@ sales :> Credit(1))
SomeEntries == [t \in Txns |-> AllEntries[t]]

Symmetry == Permutations(Recorders)
=============================================================================
