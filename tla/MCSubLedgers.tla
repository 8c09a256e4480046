---------------------------- MODULE MCSubLedgers ----------------------------
(* Instances of SubLedgers for TLC.                                        *)
EXTENDS SubLedgers, TLC

CONSTANTS rent, plain, taxed, refund, note, van, desk, ann, bob

\* A bill with two lines.
Lines == rent :> ("5000" :> 1 @@ "5020" :> 2)
Firsts == rent :> "5000"

\* A refund is an invoice with negative items; its tax is negative, too.
Subtotals == plain :> 3 @@ taxed :> 2 @@ refund :> -2
Taxes == plain :> 0 @@ taxed :> 1 @@ refund :> -1

Amounts == note :> 2
Categories == note :> Supplies

\* A month of the desk is a third of its cost, rounded down.
Costs == van :> 16 @@ desk :> 10
Salvages == van :> 3 @@ desk :> 0
Lives == van :> 4 @@ desk :> 3
Dates2 == van :> 1 @@ desk :> 2

\* Ann has an allowance that exceeds a short week's pay.
Rates == ann :> 10 @@ bob :> 4000
Federal == ann :> 300 @@ bob :> 240
State == ann :> 100 @@ bob :> 80
Local == ann :> 20 @@ bob :> 16
Allowances == ann :> 3 @@ bob :> 0
SomeShifts == {[regular |-> 20, overtime |-> 0], [regular |-> 10, overtime |-> 20]}
=============================================================================
