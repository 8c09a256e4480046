----------------------------- MODULE SubLedgers -----------------------------
(***************************************************************************)
(* The processors of bills, invoices, receipts, assets and payroll posting *)
(* to one ledger, and what their own records say about its accounts.       *)
(***************************************************************************)
EXTENDS Payables, Receivables, AssetRegister, Payroll

CONSTANT MaxCalls     \* bound: the calls made to all processors together

DocumentSets == <<Bills, Invoices, Receipts, Assets, Employees>>

\* Identities are UUIDs: no two documents of different sorts share one.
ASSUME SubLedgersAssumption ==
    /\ Documents = UNION {DocumentSets[i] : i \in 1..5}
    /\ \A i, j \in 1..5 : i # j => DocumentSets[i] \cap DocumentSets[j] = {}
    /\ MaxCalls \in Nat

VARIABLE made         \* the calls made so far

payroll == <<staff, worked, period>>
vars == <<net, bills, invoices, receipts, register, payroll, made>>

Init ==
    /\ net = Unposted
    /\ PayablesInit /\ ReceivablesInit /\ RegisterInit /\ PayrollInit
    /\ made = 0

Next ==
    /\ made < MaxCalls /\ made' = made + 1
    /\ \/ PayablesNext /\ UNCHANGED <<invoices, receipts, register, payroll>>
       \/ ReceivablesNext /\ UNCHANGED <<bills, register, payroll>>
       \/ RegisterNext /\ UNCHANGED <<bills, invoices, receipts, payroll>>
       \/ PayrollNext /\ UNCHANGED <<bills, invoices, receipts, register>>

Spec == Init /\ [][Next]_vars

-----------------------------------------------------------------------------
(* Properties.                                                             *)

TypeOK ==
    /\ net \in [Documents -> [Chart -> Int]]
    /\ PayablesType /\ ReceivablesType /\ RegisterType /\ PayrollType
    /\ made \in 0..MaxCalls

\* What the ledger owes for a bill that is still open is the bill's remaining
\* balance, after any sequence of partial payments (ApProcessor::
\* outstanding_total against account 2000).
OpenBillsOwed ==
    \A b \in DOMAIN bills : IsOpen(b) => -net[b][Payable] = Remaining(b)

\* Nothing is owed any more for a bill that is paid or void, and what was paid
\* too much is less than the bill: no bill is ever paid twice, in whatever
\* order it is paid, paid in part and voided.  That something may be paid too
\* much is the code's doing: pay_bill and void_bill post the whole amount,
\* whatever was paid before.
NeverPaidTwice ==
    \A b \in DOMAIN bills : ~IsOpen(b) =>
        0 <= net[b][Payable] /\ net[b][Payable] < Amount(b)

\* The payables account and the bills say the same of every bill.
BillsTied == OpenBillsOwed /\ NeverPaidTwice

\* The receivables account carries what was posted for an invoice, less what
\* the invoice says was paid, in whatever order payments, overpayments and
\* cancellations come; a cancellation takes off what was posted (but not where
\* there is a tax: its entry does not balance, and is refused).  What a customer
\* has paid is either applied to the invoice, up to what is due, or deposited.
ReceivablesTied ==
    \A i \in DOMAIN invoices :
        /\ net[i][Receivable] + invoices[i].paid =
              IF ~Accepted(InvoiceEntry(i))
                 \/ (invoices[i].status = "Cancelled" /\ Tax[i] = 0)
              THEN 0 ELSE TotalDue(i)
        /\ net[i][Cash] + net[i][Deposits] = invoices[i].paid
        /\ TotalDue(i) >= 0 => invoices[i].paid <= TotalDue(i)

\* The register and the account of accumulated depreciation agree on every
\* asset that is not disposed of, however depreciations follow each other.
RegisterTied ==
    \A a \in DOMAIN register : register[a].disposed = NotDisposed =>
        net[a][Depreciated] = -register[a].accumulated

\* Declining balance never goes below the salvage value; straight line, whose
\* last month is not limited, by less than one month's depreciation.
DepreciationLimited ==
    \A a \in DOMAIN register : Salvage[a] <= Cost[a] =>
        LET most == Cost[a] - Salvage[a] IN
        register[a].accumulated
            <= IF a \in Declining \/ most <= 0 \/ Life[a] = 0 THEN most
               ELSE most + Quotient(most, Life[a]) - 1

\* Nobody is paid more than the gross pay, and nothing is withheld the wrong
\* way round: where an allowance makes a tax negative, the entry left out
\* makes the ledger refuse the transaction.
PayWithinGross ==
    \A e \in Employees :
        /\ -net[e][Cash] <= net[e][Salaries]
        /\ \A a \in DOMAIN Withheld(e) : net[e][a] <= 0

=============================================================================
