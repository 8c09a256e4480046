---------------------------- MODULE Receivables ----------------------------
(***************************************************************************)
(* Invoices (accounting/invoice.rs) and receipts (accounting/receipt.rs).  *)
(* The agents hold their processor's mutex for a whole call.  A refusal by *)
(* the ledger is only logged: the document is changed all the same.        *)
(***************************************************************************)
EXTENDS Posting

CONSTANTS
    Invoices,       \* identities of invoices
    Subtotal,       \* the sum of an invoice's items
    Tax,            \* its tax at the rate asked for
    Payments,       \* amounts customers pay
    Receipts,       \* identities of receipts
    ReceiptAmount, Category   \* a receipt's amount and expense account

ASSUME ReceivablesAssumption ==
    /\ Invoices \cup Receipts \subseteq Documents
    /\ \A i \in Invoices : Subtotal[i] \in Int /\ Tax[i] \in Int
    /\ \A r \in Receipts : ReceiptAmount[r] \in Int /\ Category[r] # Cash
    /\ Payments \subseteq Int

VARIABLES
    invoices,       \* the invoices made, with their status and amount_paid
    receipts        \* the receipts processed, with their status

InvoiceStatus == {"Draft", "Sent", "PartiallyPaid", "Paid", "Cancelled"}

TotalDue(i) == Subtotal[i] + Tax[i]

\* A tax that is not positive gets no entry.
InvoiceEntry(i) ==
    LET sale == Transfer(Sales, Receivable, Subtotal[i])
        due  == Plus(sale, Entry(Receivable, Tax[i]))
    IN  IF Tax[i] > 0 THEN Plus(due, Entry(Accrued, -Tax[i])) ELSE due

ReceivablesInit == invoices = [i \in {} |-> 0] /\ receipts = [r \in {} |-> ""]

CreateInvoice(i) ==
    /\ i \notin DOMAIN invoices
    /\ Record(i, InvoiceEntry(i))
    /\ invoices' = Insert(invoices, i,
          [status |-> IF Accepted(InvoiceEntry(i)) THEN "Sent" ELSE "Draft",
           paid |-> 0])
    /\ UNCHANGED receipts

\* What is paid beyond what is due goes to the customers' deposits.
PaymentEntry(x, applied) ==
    LET payment == Plus(Entry(Cash, x), Entry(Receivable, -applied))
    IN  IF x > applied THEN Plus(payment, Entry(Deposits, applied - x)) ELSE payment

\* Mutated form of Applied: an overpayment is applied as well.
AppliedWhole(i, x) == x

\* What of a payment is applied to the invoice.
Applied(i, x) ==
    IF x <= TotalDue(i) - invoices[i].paid THEN x ELSE TotalDue(i) - invoices[i].paid

ProcessPayment(i, x) ==
    LET paid == invoices[i].paid + Applied(i, x) IN
    /\ invoices[i].status \notin {"Paid", "Cancelled"}
    /\ x > 0
    /\ invoices' = [invoices EXCEPT ![i] =
          [status |-> IF paid >= TotalDue(i) THEN "Paid" ELSE "PartiallyPaid",
           paid |-> paid]]
    /\ Record(i, PaymentEntry(x, Applied(i, x)))
    /\ UNCHANGED receipts

\* The reversal leaves the tax out.
CancelInvoice(i) ==
    /\ invoices[i].status \notin {"Cancelled", "Paid"}
    /\ Record(i, Plus(Entry(Sales, Subtotal[i]), Entry(Receivable, -TotalDue(i))))
    /\ invoices' = [invoices EXCEPT ![i].status = "Cancelled"]
    /\ UNCHANGED receipts

\* process_receipt posts the receipt to the account of its category.
ProcessReceipt(r) ==
    LET entry == Transfer(Cash, Category[r], ReceiptAmount[r]) IN
    /\ r \notin DOMAIN receipts
    /\ ReceiptAmount[r] > 0
    /\ Record(r, entry)
    /\ receipts' = Insert(receipts, r,
                          IF Accepted(entry) THEN "Processed" ELSE "Categorized")
    /\ UNCHANGED invoices

ReceivablesNext ==
    \/ \E i \in Invoices : CreateInvoice(i)
    \/ \E i \in DOMAIN invoices : \/ CancelInvoice(i)
                                  \/ \E x \in Payments : ProcessPayment(i, x)
    \/ \E r \in Receipts : ProcessReceipt(r)

ReceivablesType ==
    /\ DOMAIN invoices \subseteq Invoices /\ DOMAIN receipts \subseteq Receipts
    /\ \A i \in DOMAIN invoices : invoices[i] \in [status : InvoiceStatus, paid : Int]
    /\ \A r \in DOMAIN receipts : receipts[r] \in {"Processed", "Categorized"}

=============================================================================
