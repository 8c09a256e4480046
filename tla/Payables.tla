------------------------------ MODULE Payables ------------------------------
(***************************************************************************)
(* Vendor bills (accounting/ap.rs).  The agent holds the processor's mutex *)
(* for a whole call, so that a call is one step.  Where a call returns an  *)
(* error nothing is changed, and there is no step.                         *)
(***************************************************************************)
EXTENDS Posting

CONSTANTS
    Bills,          \* identities of bills
    LinesOf,        \* the accounts a bill debits, and the amounts
    FirstLine,      \* the account of its first line
    PartialAmounts  \* amounts of partial payments

Amount(b) == SumFunction(LinesOf[b])

\* No line debits the payables account itself.
ASSUME PayablesAssumption ==
    /\ Bills \subseteq Documents
    /\ \A b \in Bills : Amount(b) \in Int /\ LinesOf[b] \in [DOMAIN LinesOf[b] -> Int]
    /\ \A b \in Bills : /\ Payable \notin DOMAIN LinesOf[b]
                        /\ FirstLine[b] \in DOMAIN LinesOf[b]
    /\ PartialAmounts \subseteq Int

VARIABLE bills      \* the bills entered, with their status and paid_amount

BillStatus == {"Approved", "Scheduled", "Paid", "Void"}

Remaining(b) == Amount(b) - bills[b].paid

PayablesInit == bills = [b \in {} |-> 0]

\* Mutated form of EnterBill: the bill stays a draft.
EnterBillDraft(b) ==
    LET entry == Plus(LinesOf[b], Entry(Payable, -Amount(b))) IN
    /\ b \notin DOMAIN bills
    /\ Amount(b) > 0 /\ Accepted(entry)
    /\ Record(b, entry)
    /\ bills' = Insert(bills, b, [status |-> "Draft", paid |-> 0])

\* A bill that is not positive, or that the ledger refuses, is not kept.
EnterBill(b) ==
    LET entry == Plus(LinesOf[b], Entry(Payable, -Amount(b))) IN
    /\ b \notin DOMAIN bills
    /\ Amount(b) > 0 /\ Accepted(entry)
    /\ Record(b, entry)
    /\ bills' = Insert(bills, b, [status |-> "Approved", paid |-> 0])

IsOpen(b) == bills[b].status \in {"Approved", "Scheduled"}

SchedulePayment(b) ==
    /\ IsOpen(b)
    /\ bills' = [bills EXCEPT ![b].status = "Scheduled"]
    /\ UNCHANGED net

\* Mutated form of PayBill: a bill may be paid again.
PayBillAgain(b) ==
    /\ bills[b].status # "Void"
    /\ Record(b, Transfer(Cash, Payable, Amount(b)))
    /\ bills' = [bills EXCEPT ![b] = [status |-> "Paid", paid |-> Amount(b)]]

\* The whole amount, whatever has been paid before.
PayBill(b) ==
    /\ bills[b].status \notin {"Paid", "Void"}
    /\ Record(b, Transfer(Cash, Payable, Amount(b)))
    /\ bills' = [bills EXCEPT ![b] = [status |-> "Paid", paid |-> Amount(b)]]

\* Mutated form of PayBillPartial: what was paid before is forgotten.
PayBillPartialAnew(b, x) ==
    /\ bills[b].status \notin {"Paid", "Void"}
    /\ 0 < x /\ x <= Remaining(b)
    /\ Record(b, Transfer(Cash, Payable, x))
    /\ bills' = [bills EXCEPT ![b].paid = x,
                              ![b].status = IF x >= Amount(b) THEN "Paid" ELSE @]

PayBillPartial(b, x) ==
    /\ bills[b].status \notin {"Paid", "Void"}
    /\ 0 < x /\ x <= Remaining(b)
    /\ Record(b, Transfer(Cash, Payable, x))
    /\ LET paid == bills[b].paid + x IN
       bills' = [bills EXCEPT ![b].paid = paid,
                              ![b].status = IF paid >= Amount(b) THEN "Paid" ELSE @]

\* The reversal takes the whole amount off the payables and off the account
\* of the first line.  A bill that is void already is only stamped again.
VoidBill(b) ==
    /\ bills[b].status # "Paid"
    /\ IF IsOpen(b) THEN Record(b, Transfer(FirstLine[b], Payable, Amount(b)))
       ELSE UNCHANGED net
    /\ bills' = [bills EXCEPT ![b].status = "Void"]

PayablesNext ==
    \/ \E b \in Bills : EnterBill(b)
    \/ \E b \in DOMAIN bills :
          \/ SchedulePayment(b) \/ PayBill(b) \/ VoidBill(b)
          \/ \E x \in PartialAmounts : PayBillPartial(b, x)

PayablesType ==
    /\ DOMAIN bills \subseteq Bills
    /\ \A b \in DOMAIN bills : bills[b] \in [status : BillStatus, paid : Int]

=============================================================================
