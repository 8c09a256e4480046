-------------------------- MODULE SubLedgersProofs --------------------------
(***************************************************************************)
(* Proofs about SubLedgers, for all documents, amounts, rates and bounds:  *)
(* the records of the processors agree with the accounts of the ledger.    *)
(***************************************************************************)
EXTENDS SubLedgers, Facts

-----------------------------------------------------------------------------
(* Postings.                                                               *)

\* Entries add up per account.
LEMMA PlusAt ==
    ASSUME NEW f, NEW g
    PROVE  /\ DOMAIN Plus(f, g) = DOMAIN f \cup DOMAIN g
           /\ \A a \in DOMAIN f \cup DOMAIN g :
                Plus(f, g)[a] = (IF a \in DOMAIN f THEN f[a] ELSE 0)
                                + (IF a \in DOMAIN g THEN g[a] ELSE 0)
BY DEF Plus

\* A payment has two entries, which balance.
LEMMA TransferIs ==
    ASSUME NEW p, NEW q, p # q, NEW x \in Int
    PROVE  /\ DOMAIN Transfer(p, q, x) = {p, q}
           /\ Transfer(p, q, x)[q] = x /\ Transfer(p, q, x)[p] = -x
           /\ {p, q} \subseteq Chart => Accepted(Transfer(p, q, x))
<1>1. DOMAIN Transfer(p, q, x) = {p, q}
    BY DEF Transfer, Plus, Entry
<1>2. Transfer(p, q, x)[q] = x /\ Transfer(p, q, x)[p] = -x
    BY DEF Transfer, Plus, Entry
<1>3. SumFunction(Transfer(p, q, x)) = -x + x
    BY <1>1, <1>2, TwoEntries
<1> QED
    BY <1>1, <1>2, <1>3 DEF Accepted

\* A transaction for a document changes nothing of the others.
LEMMA RecordFor ==
    ASSUME NEW d \in Documents, NEW lines, DOMAIN net = Documents, Record(d, lines)
    PROVE  /\ DOMAIN net' = Documents
           /\ \A e \in Documents \ {d} : net'[e] = net[e]
           /\ net'[d] = IF Accepted(lines) THEN Plus(net[d], lines) ELSE net[d]
BY DEF Record

\* Documents of different sorts have different identities.
LEMMA Apart ==
    /\ Bills \cup Invoices \cup Receipts \cup Assets \cup Employees = Documents
    /\ Bills \cap (Invoices \cup Receipts \cup Assets \cup Employees) = {}
    /\ Invoices \cap (Bills \cup Receipts \cup Assets \cup Employees) = {}
    /\ Assets \cap (Bills \cup Invoices \cup Receipts \cup Employees) = {}
    /\ Employees \cap (Bills \cup Invoices \cup Receipts \cup Assets) = {}
<1>1. /\ DocumentSets[1] = Bills /\ DocumentSets[2] = Invoices
      /\ DocumentSets[3] = Receipts /\ DocumentSets[4] = Assets
      /\ DocumentSets[5] = Employees
    BY DEF DocumentSets
<1>2. \A i, j \in 1..5 : i # j => DocumentSets[i] \cap DocumentSets[j] = {}
    BY SubLedgersAssumption
<1>3. Documents = UNION {DocumentSets[i] : i \in 1..5}
    BY SubLedgersAssumption
<1>4. 1..5 = {1, 2, 3, 4, 5}
    OBVIOUS
<1>5. Bills \cup Invoices \cup Receipts \cup Assets \cup Employees = Documents
    BY <1>1, <1>3, <1>4
<1>6. Bills \cap (Invoices \cup Receipts \cup Assets \cup Employees) = {}
    BY <1>1, <1>2
<1>7. Invoices \cap (Bills \cup Receipts \cup Assets \cup Employees) = {}
    BY <1>1, <1>2
<1>8. Assets \cap (Bills \cup Invoices \cup Receipts \cup Employees) = {}
    BY <1>1, <1>2
<1>9. Employees \cap (Bills \cup Invoices \cup Receipts \cup Assets) = {}
    BY <1>1, <1>2
<1> QED
    BY <1>5, <1>6, <1>7, <1>8, <1>9

\* A payment from one account of the chart to another is always taken up.
LEMMA Paid ==
    ASSUME NEW d \in Documents, NEW p \in Chart, NEW q \in Chart, p # q,
           NEW x \in Int, DOMAIN net = Documents, Record(d, Transfer(p, q, x))
    PROVE  /\ DOMAIN net'[d] = DOMAIN net[d] \cup {p, q}
           /\ q \in DOMAIN net[d] => net'[d][q] = net[d][q] + x
<1>1. /\ DOMAIN Transfer(p, q, x) = {p, q}
      /\ Transfer(p, q, x)[q] = x
      /\ Accepted(Transfer(p, q, x))
    <2>1. {p, q} \subseteq Chart
        OBVIOUS
    <2>2. DOMAIN Transfer(p, q, x) = {p, q} /\ Transfer(p, q, x)[q] = x
        BY DEF Transfer, Plus, Entry
    <2>3. Accepted(Transfer(p, q, x))
        BY <2>1, TransferIs
    <2> QED
        BY <2>2, <2>3
<1>2. net'[d] = Plus(net[d], Transfer(p, q, x))
    BY <1>1, RecordFor
<1>3. DOMAIN net'[d] = DOMAIN net[d] \cup {p, q}
    BY <1>1, <1>2, PlusAt
<1>4. q \in DOMAIN net[d] => net'[d][q] = net[d][q] + x
    BY <1>1, <1>2 DEF Plus
<1> QED
    BY <1>3, <1>4

-----------------------------------------------------------------------------
(* Every processor posts to its own documents.                             *)

DocumentsInv ==
    /\ DOMAIN net = Documents
    /\ DOMAIN bills \subseteq Bills
    /\ DOMAIN invoices \subseteq Invoices
    /\ DOMAIN receipts \subseteq Receipts
    /\ DOMAIN register \subseteq Assets
    /\ DOMAIN staff \subseteq Employees

\* What a step leaves alone that is made for documents of set S.
LeavesOthers(S) ==
    DOMAIN net' = Documents /\ \A d \in Documents \ S : net'[d] = net[d]

LEMMA Leaves ==
    ASSUME NEW S \in SUBSET Documents, NEW d \in S, NEW lines,
           DOMAIN net = Documents, Record(d, lines)
    PROVE  LeavesOthers(S)
BY RecordFor DEF LeavesOthers

LEMMA PayablesLeave ==
    ASSUME DocumentsInv, PayablesNext
    PROVE  LeavesOthers(Bills) /\ DOMAIN bills' \subseteq Bills
<1> USE DEF DocumentsInv
<1> Bills \in SUBSET Documents
    BY PayablesAssumption
<1>1. ASSUME NEW b \in Bills, EnterBill(b)
      PROVE  LeavesOthers(Bills) /\ DOMAIN bills' \subseteq Bills
    <2>1. LeavesOthers(Bills)
        BY <1>1, Leaves DEF EnterBill
    <2>2. DOMAIN bills' \subseteq Bills
        BY <1>1 DEF EnterBill, Insert
    <2> QED
        BY <2>1, <2>2
<1>2. ASSUME NEW b \in DOMAIN bills, SchedulePayment(b)
      PROVE  LeavesOthers(Bills) /\ DOMAIN bills' \subseteq Bills
    BY <1>2 DEF SchedulePayment, LeavesOthers
<1>3. ASSUME NEW b \in DOMAIN bills, PayBill(b)
      PROVE  LeavesOthers(Bills) /\ DOMAIN bills' \subseteq Bills
    <2>1. LeavesOthers(Bills)
        BY <1>3, Leaves DEF PayBill
    <2>2. DOMAIN bills' = DOMAIN bills
        BY <1>3 DEF PayBill
    <2> QED
        BY <2>1, <2>2
<1>4. ASSUME NEW b \in DOMAIN bills, VoidBill(b)
      PROVE  LeavesOthers(Bills) /\ DOMAIN bills' \subseteq Bills
    <2>1. Record(b, Transfer(FirstLine[b], Payable, Amount(b))) => LeavesOthers(Bills)
        BY Leaves
    <2>2. UNCHANGED net => LeavesOthers(Bills)
        BY DEF LeavesOthers
    <2>3. DOMAIN bills' = DOMAIN bills
        BY <1>4 DEF VoidBill
    <2> QED
        BY <1>4, <2>1, <2>2, <2>3 DEF VoidBill
<1>5. ASSUME NEW b \in DOMAIN bills, NEW x \in PartialAmounts, PayBillPartial(b, x)
      PROVE  LeavesOthers(Bills) /\ DOMAIN bills' \subseteq Bills
    <2>1. LeavesOthers(Bills)
        BY <1>5, Leaves DEF PayBillPartial
    <2>2. DOMAIN bills' = DOMAIN bills
        BY <1>5 DEF PayBillPartial
    <2> QED
        BY <2>1, <2>2
<1> QED
    BY <1>1, <1>2, <1>3, <1>4, <1>5 DEF PayablesNext

LEMMA ReceivablesLeave ==
    ASSUME DocumentsInv, ReceivablesNext
    PROVE  /\ LeavesOthers(Invoices \cup Receipts)
           /\ DOMAIN invoices' \subseteq Invoices /\ DOMAIN receipts' \subseteq Receipts
<1> USE DEF DocumentsInv
<1> DEFINE S == Invoices \cup Receipts
<1> DEFINE Goal == /\ LeavesOthers(S)
                   /\ DOMAIN invoices' \subseteq Invoices
                   /\ DOMAIN receipts' \subseteq Receipts
<1> S \in SUBSET Documents
    BY ReceivablesAssumption
<1>1. ASSUME NEW i \in Invoices, CreateInvoice(i)
      PROVE  Goal
    <2>1. LeavesOthers(S)
        BY <1>1, Leaves DEF CreateInvoice
    <2> QED
        BY <1>1, <2>1 DEF CreateInvoice, Insert
<1>2. ASSUME NEW i \in DOMAIN invoices, CancelInvoice(i)
      PROVE  Goal
    <2>1. LeavesOthers(S)
        BY <1>2, Leaves DEF CancelInvoice
    <2> QED
        BY <1>2, <2>1 DEF CancelInvoice
<1>3. ASSUME NEW i \in DOMAIN invoices, NEW x \in Payments, ProcessPayment(i, x)
      PROVE  Goal
    <2>1. LeavesOthers(S)
        BY <1>3, Leaves DEF ProcessPayment
    <2> QED
        BY <1>3, <2>1 DEF ProcessPayment
<1>4. ASSUME NEW r \in Receipts, ProcessReceipt(r)
      PROVE  Goal
    <2>1. LeavesOthers(S)
        BY <1>4, Leaves DEF ProcessReceipt
    <2> QED
        BY <1>4, <2>1 DEF ProcessReceipt, Insert
<1> QED
    BY <1>1, <1>2, <1>3, <1>4 DEF ReceivablesNext

LEMMA RegisterLeaves ==
    ASSUME DocumentsInv, RegisterNext
    PROVE  LeavesOthers(Assets) /\ DOMAIN register' \subseteq Assets
<1> USE DEF DocumentsInv
<1> Assets \in SUBSET Documents
    BY RegisterAssumption
<1>1. ASSUME NEW a \in Assets, AddAsset(a)
      PROVE  LeavesOthers(Assets) /\ DOMAIN register' \subseteq Assets
    BY <1>1 DEF AddAsset, Insert, LeavesOthers
<1>2. ASSUME NEW date \in Dates, PostDepreciation(date)
      PROVE  LeavesOthers(Assets) /\ DOMAIN register' \subseteq Assets
    <2>1. Due(date) \subseteq Assets
        BY DEF Due
    <2>2. DOMAIN net' = Documents
        BY <1>2 DEF PostDepreciation
    <2>3. ASSUME NEW d \in Documents \ Assets
          PROVE  net'[d] = net[d]
        BY <1>2, <2>1 DEF PostDepreciation
    <2>4. DOMAIN register' = DOMAIN register
        BY <1>2 DEF PostDepreciation
    <2> QED
        BY <2>2, <2>3, <2>4 DEF LeavesOthers
<1>3. ASSUME NEW a \in DOMAIN register, NEW price \in Prices, NEW date \in Dates,
             DisposeAsset(a, price, date)
      PROVE  LeavesOthers(Assets) /\ DOMAIN register' \subseteq Assets
    <2>1. LeavesOthers(Assets)
        BY <1>3, Leaves DEF DisposeAsset
    <2>2. DOMAIN register' = DOMAIN register
        BY <1>3 DEF DisposeAsset
    <2> QED
        BY <2>1, <2>2
<1> QED
    BY <1>1, <1>2, <1>3 DEF RegisterNext

LEMMA PayrollLeaves ==
    ASSUME DocumentsInv, PayrollNext
    PROVE  LeavesOthers(Employees) /\ DOMAIN staff' \subseteq Employees
<1> USE DEF DocumentsInv
<1>1. ASSUME NEW e \in Employees, CreateEmployee(e)
      PROVE  LeavesOthers(Employees) /\ DOMAIN staff' \subseteq Employees
    BY <1>1 DEF CreateEmployee, Insert, LeavesOthers
<1>2. ASSUME NEW e \in DOMAIN staff, NEW status, UpdateEmployee(e, status)
      PROVE  LeavesOthers(Employees) /\ DOMAIN staff' \subseteq Employees
    BY <1>2 DEF UpdateEmployee, LeavesOthers
<1>3. ASSUME NEW e \in DOMAIN staff, DeleteEmployee(e)
      PROVE  LeavesOthers(Employees) /\ DOMAIN staff' \subseteq Employees
    BY <1>3 DEF DeleteEmployee, LeavesOthers
<1>4. ASSUME NEW e \in DOMAIN staff, NEW shift, RecordTime(e, shift)
      PROVE  LeavesOthers(Employees) /\ DOMAIN staff' \subseteq Employees
    BY <1>4 DEF RecordTime, LeavesOthers
<1>5. ASSUME NEW S \in SUBSET DOMAIN staff, net' = PaidTo(S)
      PROVE  LeavesOthers(Employees)
    BY <1>5 DEF PaidTo, LeavesOthers
<1>6. ASSUME NEW e \in DOMAIN staff, PayOne(e)
      PROVE  LeavesOthers(Employees) /\ DOMAIN staff' \subseteq Employees
    BY <1>5, <1>6 DEF PayOne
<1>7. ASSUME PayAll
      PROVE  LeavesOthers(Employees) /\ DOMAIN staff' \subseteq Employees
    <2>1. {e \in DOMAIN staff : staff[e] = "Active"} \in SUBSET DOMAIN staff
        OBVIOUS
    <2> QED
        BY <1>5, <1>7, <2>1 DEF PayAll
<1> QED
    BY <1>1, <1>2, <1>3, <1>4, <1>6, <1>7 DEF PayrollNext

LEMMA DocumentsKept ==
    ASSUME DocumentsInv, [Next]_vars
    PROVE  DocumentsInv'
<1>1. CASE PayablesNext /\ UNCHANGED <<invoices, receipts, register, payroll>>
    BY <1>1, PayablesLeave DEF DocumentsInv, LeavesOthers, payroll
<1>2. CASE ReceivablesNext /\ UNCHANGED <<bills, register, payroll>>
    BY <1>2, ReceivablesLeave DEF DocumentsInv, LeavesOthers, payroll
<1>3. CASE RegisterNext /\ UNCHANGED <<bills, invoices, receipts, payroll>>
    BY <1>3, RegisterLeaves DEF DocumentsInv, LeavesOthers, payroll
<1>4. CASE PayrollNext /\ UNCHANGED <<bills, invoices, receipts, register>>
    BY <1>4, PayrollLeaves DEF DocumentsInv, LeavesOthers
<1>5. CASE UNCHANGED vars
    BY <1>5 DEF DocumentsInv, vars, payroll
<1> QED
    BY <1>1, <1>2, <1>3, <1>4, <1>5 DEF Next

LEMMA DocumentsAtFirst == Init => DocumentsInv
BY DEF Init, DocumentsInv, Unposted, PayablesInit, ReceivablesInit, RegisterInit,
       PayrollInit

-----------------------------------------------------------------------------
(* Bills.                                                                  *)

\* The inductive invariant: nothing is posted for a bill that has not been
\* entered; an open bill, less than the whole of which has been paid, is owed
\* what remains of it; of a closed one nothing is owed, and less than the whole
\* has been paid too much.  The reversal of a bill is taken up because the
\* bill itself was.
BillOwed(b) ==
    /\ Payable \in DOMAIN net[b] /\ net[b][Payable] \in Int
    /\ b \notin DOMAIN bills => net[b][Payable] = 0
    /\ b \in DOMAIN bills =>
          /\ bills[b] \in [status : BillStatus, paid : Int]
          /\ DOMAIN LinesOf[b] \subseteq Chart
          /\ IsOpen(b) => /\ -net[b][Payable] = Remaining(b)
                          /\ 0 <= bills[b].paid /\ bills[b].paid < Amount(b)
          /\ ~IsOpen(b) => 0 <= net[b][Payable] /\ net[b][Payable] < Amount(b)

BillsInv == \A b \in Bills : BillOwed(b)

\* What holds of a bill still holds where nothing is done to it.
LEMMA SameBill ==
    ASSUME NEW b, BillOwed(b), net'[b] = net[b],
           (b \in DOMAIN bills') = (b \in DOMAIN bills),
           b \in DOMAIN bills => bills'[b] = bills[b]
    PROVE  BillOwed(b)'
BY DEF BillOwed, IsOpen, Remaining

LEMMA EnterBillKeeps ==
    ASSUME DocumentsInv, BillsInv, NEW c \in Bills, EnterBill(c)
    PROVE  BillsInv'
<1> DEFINE entry == Plus(LinesOf[c], Entry(Payable, -Amount(c)))
<1>1. c \in Documents /\ Amount(c) \in Int /\ Payable \notin DOMAIN LinesOf[c]
    BY PayablesAssumption
<1>2. Payable \in DOMAIN entry /\ entry[Payable] = -Amount(c)
    BY <1>1 DEF Plus, Entry
<1>3. Record(c, entry) /\ Accepted(entry) /\ c \notin DOMAIN bills
    BY DEF EnterBill
<1>4. bills' = Insert(bills, c, [status |-> "Approved", paid |-> 0])
    BY DEF EnterBill
<1> HIDE DEF entry
<1>5. /\ net'[c] = Plus(net[c], entry)
      /\ \A e \in Documents \ {c} : net'[e] = net[e]
    BY <1>1, <1>3, RecordFor DEF DocumentsInv
<1>6. Payable \in DOMAIN net[c] /\ net[c][Payable] = 0
    BY <1>3 DEF BillsInv, BillOwed
<1>7. Payable \in DOMAIN net'[c] /\ net'[c][Payable] = -Amount(c)
    BY <1>1, <1>2, <1>5, <1>6 DEF Plus
<1>8. c \in DOMAIN bills' /\ bills'[c] = [status |-> "Approved", paid |-> 0]
    BY <1>4 DEF Insert
<1>11. DOMAIN LinesOf[c] \subseteq Chart
    BY <1>3 DEF Accepted, Plus, entry
<1>12. Amount(c) > 0
    BY DEF EnterBill
<1>13. Amount(c)' = Amount(c)
    BY DEF Amount
<1>9. BillOwed(c)'
    BY <1>1, <1>7, <1>8, <1>11, <1>12, <1>13
       DEF BillOwed, IsOpen, Remaining, BillStatus
<1>10. ASSUME NEW b \in Bills, b # c
       PROVE  BillOwed(b)'
    <2>1. BillOwed(b) /\ net'[b] = net[b]
        BY <1>5, <1>10, PayablesAssumption DEF BillsInv
    <2>2. /\ (b \in DOMAIN bills') = (b \in DOMAIN bills)
          /\ b \in DOMAIN bills => bills'[b] = bills[b]
        BY <1>4, <1>10 DEF Insert
    <2> QED
        BY <2>1, <2>2, SameBill
<1> QED
    BY <1>9, <1>10 DEF BillsInv

\* The other calls are made for one bill that has been entered.
LEMMA OneBill ==
    ASSUME DocumentsInv, BillsInv, NEW c \in DOMAIN bills, BillOwed(c)',
           DOMAIN bills' = DOMAIN bills,
           \A b \in DOMAIN bills \ {c} : bills'[b] = bills[b],
           \A e \in Documents \ {c} : net'[e] = net[e]
    PROVE  BillsInv'
<1>1. ASSUME NEW b \in Bills, b # c
      PROVE  BillOwed(b)'
    <2>1. BillOwed(b) /\ net'[b] = net[b]
        BY <1>1, PayablesAssumption DEF BillsInv
    <2>2. b \in DOMAIN bills => bills'[b] = bills[b]
        BY <1>1
    <2> QED
        BY <2>1, <2>2, SameBill
<1> QED
    BY <1>1 DEF BillsInv

LEMMA PayablesKeep ==
    ASSUME DocumentsInv, BillsInv, PayablesNext
    PROVE  BillsInv'
<1> DEFINE Chosen(c) == /\ c \in Bills /\ c \in Documents /\ Amount(c) \in Int
                        /\ bills[c] \in [status : BillStatus, paid : Int]
                        /\ Payable \in DOMAIN net[c] /\ net[c][Payable] \in Int
                        /\ DOMAIN LinesOf[c] \subseteq Chart
                        /\ IsOpen(c) => /\ -net[c][Payable] = Remaining(c)
                                        /\ 0 <= bills[c].paid
                                        /\ bills[c].paid < Amount(c)
                        /\ ~IsOpen(c) => /\ 0 <= net[c][Payable]
                                         /\ net[c][Payable] < Amount(c)
<1>1. \A c \in DOMAIN bills : Chosen(c)
    BY PayablesAssumption DEF DocumentsInv, BillsInv, BillOwed
<1>2. DOMAIN net = Documents
    BY DEF DocumentsInv
<1>3. Cash \in Chart /\ Payable \in Chart /\ Cash # Payable
    BY DEF Chart, Cash, Payable
<1>4. ASSUME NEW c \in DOMAIN bills, SchedulePayment(c)
      PROVE  BillsInv'
    <2>1. UNCHANGED net /\ IsOpen(c) /\ DOMAIN bills' = DOMAIN bills
        BY <1>4 DEF SchedulePayment
    <2>2. bills'[c] = [bills[c] EXCEPT !.status = "Scheduled"]
        BY <1>4 DEF SchedulePayment
    <2>3. \A b \in DOMAIN bills \ {c} : bills'[b] = bills[b]
        BY <1>4 DEF SchedulePayment
    <2>4. BillOwed(c)'
        BY <1>1, <2>1, <2>2 DEF BillOwed, IsOpen, Remaining, BillStatus
    <2> QED
        BY <2>1, <2>3, <2>4, OneBill
<1>5. ASSUME NEW c \in DOMAIN bills, PayBill(c)
      PROVE  BillsInv'
    <2>1. Record(c, Transfer(Cash, Payable, Amount(c))) /\ Chosen(c)
        BY <1>1, <1>5 DEF PayBill
    <2>2. Payable \in DOMAIN net'[c] /\ net'[c][Payable] = net[c][Payable] + Amount(c)
        BY <1>2, <1>3, <2>1, Paid
    <2>3. /\ bills'[c] = [status |-> "Paid", paid |-> Amount(c)]
          /\ DOMAIN bills' = DOMAIN bills
          /\ \A b \in DOMAIN bills \ {c} : bills'[b] = bills[b]
        BY <1>5 DEF PayBill
    <2>6. IsOpen(c)
        BY <1>5, <2>1 DEF PayBill, IsOpen, BillStatus
    <2>7. 0 <= net'[c][Payable] /\ net'[c][Payable] < Amount(c)
        BY <2>1, <2>2, <2>6 DEF Remaining
    <2>4. BillOwed(c)'
        BY <2>1, <2>2, <2>3, <2>7 DEF BillOwed, IsOpen, BillStatus
    <2>5. \A e \in Documents \ {c} : net'[e] = net[e]
        BY <1>2, <2>1, RecordFor
    <2> QED
        BY <2>3, <2>4, <2>5, OneBill
<1>6. ASSUME NEW c \in DOMAIN bills, VoidBill(c)
      PROVE  BillsInv'
    <2> DEFINE reversal == Transfer(FirstLine[c], Payable, Amount(c))
    <2>1. Chosen(c) /\ bills[c].status # "Paid"
        BY <1>1, <1>6 DEF VoidBill
    <2>2. /\ bills'[c].status = "Void" /\ bills'[c].paid = bills[c].paid
          /\ bills'[c] \in [status : BillStatus, paid : Int]
          /\ DOMAIN bills' = DOMAIN bills
          /\ \A b \in DOMAIN bills \ {c} : bills'[b] = bills[b]
        BY <1>1, <1>6 DEF VoidBill, BillStatus
    <2>3. FirstLine[c] \in Chart /\ FirstLine[c] # Payable
        BY <2>1, PayablesAssumption
    <2>4. /\ Payable \in DOMAIN net'[c] /\ net'[c][Payable] \in Int
          /\ 0 <= net'[c][Payable] /\ net'[c][Payable] < Amount(c)
          /\ \A e \in Documents \ {c} : net'[e] = net[e]
        <3>1. CASE IsOpen(c)
            <4>1. Record(c, reversal)
                BY <1>6, <3>1 DEF VoidBill
            <4>2. /\ Payable \in DOMAIN net'[c]
                  /\ net'[c][Payable] = net[c][Payable] + Amount(c)
                BY <1>2, <1>3, <2>1, <2>3, <4>1, Paid
            <4>3. \A e \in Documents \ {c} : net'[e] = net[e]
                BY <1>2, <2>1, <4>1, RecordFor
            <4> QED
                BY <2>1, <3>1, <4>2, <4>3 DEF Remaining
        <3>2. CASE ~IsOpen(c)
            BY <1>6, <2>1, <3>2 DEF VoidBill
        <3> QED
            BY <3>1, <3>2
    <2>5. BillOwed(c)'
        BY <2>1, <2>2, <2>4 DEF BillOwed, IsOpen
    <2> QED
        BY <2>2, <2>4, <2>5, OneBill
<1>7. ASSUME NEW c \in DOMAIN bills, NEW x \in PartialAmounts, PayBillPartial(c, x)
      PROVE  BillsInv'
    <2>1. /\ Record(c, Transfer(Cash, Payable, x)) /\ Chosen(c) /\ x \in Int
          /\ bills[c].status \notin {"Paid", "Void"}
        BY <1>1, <1>7, PayablesAssumption DEF PayBillPartial
    <2>2. Payable \in DOMAIN net'[c] /\ net'[c][Payable] = net[c][Payable] + x
        BY <1>2, <1>3, <2>1, Paid
    <2>3. /\ bills'[c].paid = bills[c].paid + x
          /\ bills'[c].status \in {bills[c].status, "Paid"}
          /\ bills'[c] \in [status : BillStatus, paid : Int]
          /\ DOMAIN bills' = DOMAIN bills
          /\ \A b \in DOMAIN bills \ {c} : bills'[b] = bills[b]
        BY <1>7, <2>1 DEF PayBillPartial, BillStatus
    <2>6. IsOpen(c) /\ 0 < x /\ x <= Remaining(c)
        BY <1>7, <2>1 DEF PayBillPartial, IsOpen, BillStatus
    <2>7. bills'[c].status = "Paid" <=> bills'[c].paid >= Amount(c)
        BY <1>7, <2>1, <2>3, <2>6 DEF PayBillPartial, IsOpen
    <2>8. /\ -net'[c][Payable] = Amount(c) - bills'[c].paid
          /\ 0 <= bills'[c].paid /\ bills'[c].paid <= Amount(c)
        BY <2>1, <2>2, <2>3, <2>6 DEF Remaining
    <2>4. BillOwed(c)'
        <3>1. CASE bills'[c].paid >= Amount(c)
            BY <2>1, <2>2, <2>3, <2>6, <2>7, <2>8, <3>1 DEF BillOwed, IsOpen
        <3>2. CASE bills'[c].paid < Amount(c)
            BY <2>1, <2>2, <2>3, <2>6, <2>7, <2>8, <3>2
               DEF BillOwed, IsOpen, Remaining
        <3> QED
            BY <2>1, <2>3, <3>1, <3>2
    <2>5. \A e \in Documents \ {c} : net'[e] = net[e]
        BY <1>2, <2>1, RecordFor
    <2> QED
        BY <2>3, <2>4, <2>5, OneBill
<1>8. ASSUME NEW b \in Bills, EnterBill(b)
      PROVE  BillsInv'
    BY <1>8, EnterBillKeeps
<1> QED
    BY <1>4, <1>5, <1>6, <1>7, <1>8 DEF PayablesNext

\* No step but the payables' concerns a bill.
LEMMA BillsKept ==
    ASSUME DocumentsInv, BillsInv, [Next]_vars
    PROVE  BillsInv'
<1>1. CASE PayablesNext
    BY <1>1, PayablesKeep
<1>2. (\A b \in Bills : net'[b] = net[b]) /\ UNCHANGED bills => BillsInv'
    BY SameBill DEF BillsInv
<1>3. \A S : LeavesOthers(S) /\ Bills \cap S = {} => \A b \in Bills : net'[b] = net[b]
    BY PayablesAssumption DEF LeavesOthers
<1>4. CASE ReceivablesNext /\ UNCHANGED bills
    BY <1>2, <1>3, <1>4, ReceivablesLeave, Apart
<1>5. CASE RegisterNext /\ UNCHANGED bills
    BY <1>2, <1>3, <1>5, RegisterLeaves, Apart
<1>6. CASE PayrollNext /\ UNCHANGED bills
    BY <1>2, <1>3, <1>6, PayrollLeaves, Apart
<1>7. CASE UNCHANGED vars
    BY <1>2, <1>7 DEF vars
<1> QED
    BY <1>1, <1>4, <1>5, <1>6, <1>7 DEF Next

\* However bills are entered, scheduled, paid in parts or whole, and voided,
\* the payables account shows for an open bill what remains of it (ApProcessor::
\* outstanding_total against account 2000); nothing is owed for a closed one,
\* and what was paid in part before it was closed is less than the bill.
THEOREM BillsStayTied == Spec => []BillsTied
<1>1. Init => BillsInv
    BY PayablesAssumption
       DEF Init, BillsInv, BillOwed, Unposted, PayablesInit, Chart, Payable
<1>2. DocumentsInv /\ BillsInv /\ [Next]_vars => (DocumentsInv /\ BillsInv)'
    BY DocumentsKept, BillsKept
<1>3. DocumentsInv /\ BillsInv => OpenBillsOwed
    BY DEF DocumentsInv, BillsInv, BillOwed, OpenBillsOwed
<1>4. DocumentsInv /\ BillsInv => NeverPaidTwice
    BY DEF DocumentsInv, BillsInv, BillOwed, NeverPaidTwice
<1>5. DocumentsInv /\ BillsInv => BillsTied
    BY <1>3, <1>4 DEF BillsTied
<1> QED
    BY DocumentsAtFirst, <1>1, <1>2, <1>5, PTL DEF Spec

-----------------------------------------------------------------------------
(* Assets.                                                                 *)

\* The inductive invariant: nothing is depreciated on an asset that is not in
\* the register.  It says nothing of an asset that has been disposed of, which
\* never comes back.
AssetTied(a) ==
    /\ a \in DOMAIN register =>
          register[a] \in [accumulated : Int, disposed : Dates \cup {NotDisposed}]
    /\ (a \in DOMAIN register => register[a].disposed = NotDisposed) =>
          /\ Depreciated \in DOMAIN net[a]
          /\ net[a][Depreciated]
                = IF a \in DOMAIN register THEN -register[a].accumulated ELSE 0

RegisterInv == \A a \in Assets : AssetTied(a)

LEMMA SameAsset ==
    ASSUME NEW a, AssetTied(a), net'[a] = net[a],
           (a \in DOMAIN register') = (a \in DOMAIN register),
           a \in DOMAIN register => register'[a] = register[a]
    PROVE  AssetTied(a)'
BY DEF AssetTied

\* A month's depreciation is a number.
LEMMA MonthlyIsInt ==
    ASSUME NEW a \in Assets, register[a].accumulated \in Int
    PROVE  Monthly(a) \in Int
<1>1. Cost[a] \in Nat /\ Salvage[a] \in Nat /\ Life[a] \in Nat
    BY RegisterAssumption
<1>2. ASSUME NEW n \in Int, Life[a] # 0
      PROVE  Quotient(n, Life[a]) \in Int
    <2>1. 2 * Life[a] \in Nat \ {0} /\ 2 * n + Life[a] \in Int
        BY <1>1, <1>2
    <2> QED
        BY <2>1 DEF Quotient
<1>3. BookValue(a) \in Int /\ 2 * BookValue(a) \in Int /\ Cost[a] - Salvage[a] \in Int
    BY <1>1 DEF BookValue
<1>4. Life[a] # 0 => /\ Quotient(2 * BookValue(a), Life[a]) \in Int
                     /\ Quotient(Cost[a] - Salvage[a], Life[a]) \in Int
    BY <1>2, <1>3
<1> QED
    BY <1>1, <1>3, <1>4 DEF Monthly

LEMMA RegisterKeeps ==
    ASSUME DocumentsInv, RegisterInv, RegisterNext
    PROVE  RegisterInv'
<1>1. DOMAIN net = Documents /\ DOMAIN register \subseteq Assets /\ Assets \subseteq Documents
    BY RegisterAssumption DEF DocumentsInv
<1>2. ASSUME NEW c \in Assets, AddAsset(c)
      PROVE  RegisterInv'
    <2> SUFFICES ASSUME NEW a \in Assets
                 PROVE  AssetTied(a)'
        BY DEF RegisterInv
    <2>1. AssetTied(a) /\ net' = net
        BY <1>2 DEF RegisterInv, AddAsset
    <2>2. CASE a = c
        <3>1. /\ c \notin DOMAIN register /\ c \in DOMAIN register'
              /\ register'[c] = [accumulated |-> 0, disposed |-> NotDisposed]
            BY <1>2 DEF AddAsset, Insert
        <3> QED
            BY <2>1, <2>2, <3>1 DEF AssetTied
    <2>3. CASE a # c
        <3>1. /\ (a \in DOMAIN register') = (a \in DOMAIN register)
              /\ a \in DOMAIN register => register'[a] = register[a]
            BY <1>2, <2>3 DEF AddAsset, Insert
        <3> QED
            BY <2>1, <3>1, SameAsset
    <2> QED
        BY <2>2, <2>3
<1>3. ASSUME NEW date \in Dates, PostDepreciation(date)
      PROVE  RegisterInv'
    <2> SUFFICES ASSUME NEW a \in Assets
                 PROVE  AssetTied(a)'
        BY DEF RegisterInv
    <2>1. AssetTied(a) /\ a \in Documents
        BY <1>1 DEF RegisterInv
    <2>2. DOMAIN register' = DOMAIN register
        BY <1>3 DEF PostDepreciation
    <2>3. CASE a \notin Due(date)
        <3>1. net'[a] = net[a] /\ (a \in DOMAIN register => register'[a] = register[a])
            BY <1>1, <1>3, <2>1, <2>3 DEF PostDepreciation
        <3> QED
            BY <2>1, <2>2, <3>1, SameAsset
    <2>4. CASE a \in Due(date)
        <3> DEFINE x == Monthly(a)
        <3>1. a \in DOMAIN register
            BY <2>4 DEF Due
        <3>2. register[a] \in [accumulated : Int, disposed : Dates \cup {NotDisposed}]
            BY <2>1, <3>1 DEF AssetTied
        <3>3. x \in Int
            BY <3>2, MonthlyIsInt
        <3> HIDE DEF x
        <3>4. register'[a] = [register[a] EXCEPT !.accumulated = @ + x]
            BY <1>3, <2>4, <3>1 DEF PostDepreciation, x
        <3>5. net'[a] = Plus(net[a], Transfer(Depreciated, DepreciationExpense, x))
            BY <1>3, <2>1, <2>4 DEF PostDepreciation, x
        <3>6. Depreciated # DepreciationExpense
            BY DEF Depreciated, DepreciationExpense
        <3>7. /\ Depreciated \in DOMAIN Transfer(Depreciated, DepreciationExpense, x)
              /\ Transfer(Depreciated, DepreciationExpense, x)[Depreciated] = -x
            BY <3>3, <3>6 DEF Transfer, Plus, Entry
        <3>8. CASE register[a].disposed # NotDisposed
            BY <2>2, <3>1, <3>2, <3>3, <3>4, <3>8 DEF AssetTied
        <3>9. CASE register[a].disposed = NotDisposed
            <4>1. Depreciated \in DOMAIN net[a]
                  /\ net[a][Depreciated] = -register[a].accumulated
                BY <2>1, <3>1, <3>9 DEF AssetTied
            <4>2. Depreciated \in DOMAIN net'[a]
                  /\ net'[a][Depreciated] = -register[a].accumulated + -x
                BY <3>2, <3>3, <3>5, <3>7, <4>1 DEF Plus
            <4>3. register'[a].accumulated = register[a].accumulated + x
                BY <3>2, <3>4
            <4>4. register'[a] \in [accumulated : Int, disposed : Dates \cup {NotDisposed}]
                BY <3>2, <3>3, <3>4
            <4> QED
                BY <2>2, <3>1, <3>2, <3>3, <4>2, <4>3, <4>4 DEF AssetTied
        <3> QED
            BY <3>8, <3>9
    <2> QED
        BY <2>3, <2>4
<1>4. ASSUME NEW c \in DOMAIN register, NEW price \in Prices, NEW date \in Dates,
             DisposeAsset(c, price, date)
      PROVE  RegisterInv'
    <2> SUFFICES ASSUME NEW a \in Assets
                 PROVE  AssetTied(a)'
        BY DEF RegisterInv
    <2>1. AssetTied(a) /\ a \in Documents /\ c \in Documents
        BY <1>1 DEF RegisterInv
    <2>2. register' = [register EXCEPT ![c].disposed = date]
        BY <1>4 DEF DisposeAsset
    <2>3. CASE a = c
        <3>1. date # NotDisposed
            BY RegisterAssumption DEF NotDisposed
        <3>2. register'[c].disposed = date /\ DOMAIN register' = DOMAIN register
              /\ register'[c] \in [accumulated : Int, disposed : Dates \cup {NotDisposed}]
            BY <2>1, <2>2, <2>3 DEF AssetTied
        <3> QED
            BY <2>3, <3>1, <3>2 DEF AssetTied
    <2>4. CASE a # c
        <3>1. net'[a] = net[a]
            BY <1>1, <1>4, <2>1, <2>4, RecordFor DEF DisposeAsset
        <3>2. /\ DOMAIN register' = DOMAIN register
              /\ a \in DOMAIN register => register'[a] = register[a]
            BY <2>2, <2>4
        <3> QED
            BY <2>1, <3>1, <3>2, SameAsset
    <2> QED
        BY <2>3, <2>4
<1> QED
    BY <1>2, <1>3, <1>4 DEF RegisterNext

LEMMA RegisterKept ==
    ASSUME DocumentsInv, RegisterInv, [Next]_vars
    PROVE  RegisterInv'
<1>1. CASE RegisterNext
    BY <1>1, RegisterKeeps
<1>2. (\A a \in Assets : net'[a] = net[a]) /\ UNCHANGED register => RegisterInv'
    BY SameAsset DEF RegisterInv
<1>3. \A S : LeavesOthers(S) /\ Assets \cap S = {} => \A a \in Assets : net'[a] = net[a]
    BY RegisterAssumption DEF LeavesOthers
<1>4. CASE PayablesNext /\ UNCHANGED register
    BY <1>2, <1>3, <1>4, PayablesLeave, Apart
<1>5. CASE ReceivablesNext /\ UNCHANGED register
    BY <1>2, <1>3, <1>5, ReceivablesLeave, Apart
<1>6. CASE PayrollNext /\ UNCHANGED register
    BY <1>2, <1>3, <1>6, PayrollLeaves, Apart
<1>7. CASE UNCHANGED vars
    BY <1>2, <1>7 DEF vars
<1> QED
    BY <1>1, <1>4, <1>5, <1>6, <1>7 DEF Next

\* However depreciations follow each other, by either method and for dates in
\* any order, the register and the account of accumulated depreciation agree
\* on every asset that is not disposed of (post_depreciation_entry).
THEOREM RegisterStaysTied == Spec => []RegisterTied
<1>1. Init => RegisterInv
    BY RegisterAssumption
       DEF Init, RegisterInv, AssetTied, Unposted, RegisterInit, Chart, Depreciated
<1>2. DocumentsInv /\ RegisterInv /\ [Next]_vars => (DocumentsInv /\ RegisterInv)'
    BY DocumentsKept, RegisterKept
<1>3. DocumentsInv /\ RegisterInv => RegisterTied
    BY DEF DocumentsInv, RegisterInv, AssetTied, RegisterTied
<1> QED
    BY DocumentsAtFirst, <1>1, <1>2, <1>3, PTL DEF Spec

-----------------------------------------------------------------------------
(* Invoices.                                                               *)

Posted(i) == IF Accepted(InvoiceEntry(i)) THEN TotalDue(i) ELSE 0
TakenBack(i) == invoices[i].status = "Cancelled" /\ Tax[i] = 0

\* The inductive invariant: nothing is posted for an invoice before it is made.
InvoiceTied(i) ==
    /\ {Receivable, Cash, Deposits} \subseteq DOMAIN net[i]
    /\ \A a \in {Receivable, Cash, Deposits} :
          net[i][a] \in Int /\ (i \notin DOMAIN invoices => net[i][a] = 0)
    /\ i \in DOMAIN invoices =>
          /\ invoices[i] \in [status : InvoiceStatus, paid : Int]
          /\ net[i][Receivable] + invoices[i].paid = IF TakenBack(i) THEN 0 ELSE Posted(i)
          /\ net[i][Cash] + net[i][Deposits] = invoices[i].paid
          /\ TotalDue(i) >= 0 => invoices[i].paid <= TotalDue(i)

InvoicesInv == \A i \in Invoices : InvoiceTied(i)

LEMMA SameInvoice ==
    ASSUME NEW i, InvoiceTied(i), net'[i] = net[i],
           (i \in DOMAIN invoices') = (i \in DOMAIN invoices),
           i \in DOMAIN invoices => invoices'[i] = invoices[i]
    PROVE  InvoiceTied(i)'
BY DEF InvoiceTied, TakenBack, Posted, TotalDue, InvoiceEntry

LEMMA InvoiceAmounts ==
    ASSUME NEW i \in Invoices
    PROVE  Subtotal[i] \in Int /\ Tax[i] \in Int /\ TotalDue(i) \in Int
BY ReceivablesAssumption DEF TotalDue

LEMMA AccountsDiffer ==
    /\ Receivable # Cash /\ Receivable # Deposits /\ Cash # Deposits
    /\ Sales \notin {Receivable, Cash, Deposits}
    /\ Accrued \notin {Receivable, Cash, Deposits, Sales}
    /\ {Receivable, Cash, Deposits, Sales, Accrued} \subseteq Chart
BY DEF Receivable, Cash, Deposits, Sales, Accrued, Chart

\* What an invoice posts.
LEMMA InvoiceEntryIs ==
    ASSUME NEW i \in Invoices
    PROVE  /\ Receivable \in DOMAIN InvoiceEntry(i)
           /\ InvoiceEntry(i)[Receivable] = TotalDue(i)
           /\ Cash \notin DOMAIN InvoiceEntry(i) /\ Deposits \notin DOMAIN InvoiceEntry(i)
           /\ Tax[i] = 0 => Accepted(InvoiceEntry(i))
<1> DEFINE sale == Transfer(Sales, Receivable, Subtotal[i])
<1> DEFINE due == Plus(sale, Entry(Receivable, Tax[i]))
<1>1. /\ DOMAIN sale = {Sales, Receivable}
      /\ sale[Receivable] = Subtotal[i] /\ sale[Sales] = -Subtotal[i]
    BY InvoiceAmounts, AccountsDiffer DEF Transfer, Plus, Entry
<1> HIDE DEF sale
<1>2. /\ DOMAIN due = {Sales, Receivable}
      /\ due[Receivable] = Subtotal[i] + Tax[i] /\ due[Sales] = -Subtotal[i] + 0
    BY <1>1, InvoiceAmounts, AccountsDiffer DEF Plus, Entry
<1> HIDE DEF due
<1>3. InvoiceEntry(i) = IF Tax[i] > 0 THEN Plus(due, Entry(Accrued, -Tax[i])) ELSE due
    BY DEF InvoiceEntry, due, sale
<1>4. ASSUME Tax[i] = 0
      PROVE  Accepted(InvoiceEntry(i))
    <2>1. InvoiceEntry(i) = due
        BY <1>3, <1>4
    <2>2. due[Receivable] \in Int /\ due[Sales] \in Int /\ due[Sales] + due[Receivable] = 0
        BY <1>2, <1>4, InvoiceAmounts
    <2>3. Sales # Receivable
        BY AccountsDiffer
    <2>4. SumFunction(due) = due[Sales] + due[Receivable]
        BY ONLY <1>2, <2>2, <2>3, TwoEntries
    <2> QED
        BY <1>2, <2>1, <2>2, <2>4, AccountsDiffer DEF Accepted
<1>5. /\ Receivable \in DOMAIN InvoiceEntry(i)
      /\ InvoiceEntry(i)[Receivable] = TotalDue(i)
      /\ Cash \notin DOMAIN InvoiceEntry(i) /\ Deposits \notin DOMAIN InvoiceEntry(i)
    BY <1>2, <1>3, InvoiceAmounts, AccountsDiffer DEF Plus, Entry, TotalDue
<1> QED
    BY <1>4, <1>5

\* What a payment posts is always taken up, and adds what is applied to the
\* money received less the deposit.
LEMMA PaymentEntryIs ==
    ASSUME NEW x \in Int, NEW applied \in Int, applied <= x
    PROVE  LET lines == PaymentEntry(x, applied)
               At(a) == IF a \in DOMAIN lines THEN lines[a] ELSE 0
           IN  /\ Accepted(lines)
               /\ At(Receivable) = -applied /\ At(Cash) = x /\ At(Deposits) = applied - x
<1> DEFINE payment == Plus(Entry(Cash, x), Entry(Receivable, -applied))
<1> DEFINE whole == Plus(payment, Entry(Deposits, applied - x))
<1>1. /\ DOMAIN payment = {Cash, Receivable}
      /\ payment[Cash] = x /\ payment[Receivable] = -applied
    BY AccountsDiffer DEF Plus, Entry
<1> HIDE DEF payment
<1>2. /\ DOMAIN whole = {Cash, Receivable, Deposits}
      /\ whole[Cash] = x /\ whole[Receivable] = -applied /\ whole[Deposits] = applied - x
    BY <1>1, AccountsDiffer DEF Plus, Entry
<1> HIDE DEF whole
<1>3. PaymentEntry(x, applied) = IF x > applied THEN whole ELSE payment
    BY DEF PaymentEntry, whole, payment
<1>4. Cash # Receivable /\ Cash # Deposits /\ Receivable # Deposits
    BY AccountsDiffer
<1>5. CASE x = applied
    <2>1. /\ payment[Cash] \in Int /\ payment[Receivable] \in Int
          /\ payment[Cash] + payment[Receivable] = 0
        BY <1>1, <1>5
    <2>2. SumFunction(payment) = payment[Cash] + payment[Receivable]
        BY ONLY <1>1, <1>4, <2>1, TwoEntries
    <2> QED
        BY <1>1, <1>3, <1>4, <1>5, <2>1, <2>2, AccountsDiffer DEF Accepted
<1>6. CASE x > applied
    <2>1. /\ whole[Cash] \in Int /\ whole[Receivable] \in Int /\ whole[Deposits] \in Int
          /\ whole[Cash] + whole[Receivable] + whole[Deposits] = 0
        BY <1>2
    <2>2. SumFunction(whole) = whole[Cash] + whole[Receivable] + whole[Deposits]
        BY ONLY <1>2, <1>4, <2>1, ThreeEntries
    <2> QED
        BY <1>2, <1>3, <1>6, <2>1, <2>2, AccountsDiffer DEF Accepted
<1> QED
    BY <1>5, <1>6

\* The entry of a cancellation balances only where there is no tax.
LEMMA CancelEntryIs ==
    ASSUME NEW i \in Invoices
    PROVE  LET lines == Plus(Entry(Sales, Subtotal[i]), Entry(Receivable, -TotalDue(i)))
           IN  /\ Accepted(lines) <=> Tax[i] = 0
               /\ DOMAIN lines = {Sales, Receivable} /\ lines[Receivable] = -TotalDue(i)
<1> DEFINE lines == Plus(Entry(Sales, Subtotal[i]), Entry(Receivable, -TotalDue(i)))
<1>1. /\ DOMAIN lines = {Sales, Receivable}
      /\ lines[Sales] = Subtotal[i] /\ lines[Receivable] = -TotalDue(i)
    BY InvoiceAmounts, AccountsDiffer DEF Plus, Entry
<1> HIDE DEF lines
<1>2. Sales # Receivable /\ lines[Sales] \in Int /\ lines[Receivable] \in Int
    BY <1>1, InvoiceAmounts, AccountsDiffer
<1>3. SumFunction(lines) = lines[Sales] + lines[Receivable]
    BY ONLY <1>1, <1>2, TwoEntries
<1>4. lines[Sales] + lines[Receivable] = 0 <=> Tax[i] = 0
    BY <1>1, InvoiceAmounts DEF TotalDue
<1>5. Accepted(lines) <=> Tax[i] = 0
    BY <1>1, <1>3, <1>4, AccountsDiffer DEF Accepted
<1> QED
    BY <1>1, <1>5 DEF lines

LEMMA CreateInvoiceKeeps ==
    ASSUME DocumentsInv, NEW i \in Invoices, InvoiceTied(i), CreateInvoice(i)
    PROVE  InvoiceTied(i)'
<1> DEFINE entry == InvoiceEntry(i)
<1>1. /\ {Receivable, Cash, Deposits} \subseteq DOMAIN net[i]
      /\ net[i][Receivable] = 0 /\ net[i][Cash] = 0 /\ net[i][Deposits] = 0
    BY DEF CreateInvoice, InvoiceTied
<1>2. net'[i] = IF Accepted(entry) THEN Plus(net[i], entry) ELSE net[i]
    BY RecordFor, ReceivablesAssumption DEF CreateInvoice, DocumentsInv
<1>3. /\ Receivable \in DOMAIN entry /\ entry[Receivable] = TotalDue(i)
      /\ Cash \notin DOMAIN entry /\ Deposits \notin DOMAIN entry
    BY InvoiceEntryIs
<1> HIDE DEF entry
<1>4. /\ {Receivable, Cash, Deposits} \subseteq DOMAIN net'[i]
      /\ net'[i][Receivable] = (IF Accepted(entry) THEN TotalDue(i) ELSE 0)
      /\ net'[i][Cash] = 0 /\ net'[i][Deposits] = 0
    BY <1>1, <1>2, <1>3, InvoiceAmounts DEF Plus
<1>5. /\ i \in DOMAIN invoices'
      /\ invoices'[i] \in [status : InvoiceStatus \ {"Cancelled"}, paid : Int]
      /\ invoices'[i].paid = 0
    BY DEF CreateInvoice, Insert, InvoiceStatus
<1>6. net'[i][Receivable] = Posted(i) /\ ~TakenBack(i)'
    BY <1>4, <1>5 DEF Posted, TakenBack, entry
<1>7. Posted(i)' = Posted(i) /\ TotalDue(i)' = TotalDue(i) /\ Posted(i) \in Int
    BY InvoiceAmounts DEF Posted, TotalDue, InvoiceEntry
<1> QED
    BY <1>4, <1>5, <1>6, <1>7, InvoiceAmounts DEF InvoiceTied

LEMMA ProcessPaymentKeeps ==
    ASSUME DocumentsInv, NEW i \in Invoices, i \in DOMAIN invoices, InvoiceTied(i),
           NEW x \in Payments, ProcessPayment(i, x)
    PROVE  InvoiceTied(i)'
<1> DEFINE applied == Applied(i, x)
<1> DEFINE lines == PaymentEntry(x, applied)
<1> DEFINE At(a) == IF a \in DOMAIN lines THEN lines[a] ELSE 0
<1>1. x \in Int /\ TotalDue(i) \in Int
    BY ReceivablesAssumption, InvoiceAmounts
<1>2. /\ {Receivable, Cash, Deposits} \subseteq DOMAIN net[i]
      /\ net[i][Receivable] \in Int /\ net[i][Cash] \in Int /\ net[i][Deposits] \in Int
      /\ invoices[i] \in [status : InvoiceStatus, paid : Int]
      /\ invoices[i].status # "Cancelled"
      /\ net[i][Receivable] + invoices[i].paid = Posted(i)
      /\ net[i][Cash] + net[i][Deposits] = invoices[i].paid
      /\ TotalDue(i) >= 0 => invoices[i].paid <= TotalDue(i)
    BY DEF InvoiceTied, TakenBack, ProcessPayment
<1>3. applied \in Int /\ applied <= x /\ invoices[i].paid + applied <= TotalDue(i)
    BY <1>1, <1>2 DEF Applied
<1>4. /\ i \in DOMAIN invoices'
      /\ invoices'[i] \in [status : InvoiceStatus \ {"Cancelled"}, paid : Int]
      /\ invoices'[i].paid = invoices[i].paid + applied
    BY <1>2, <1>3 DEF ProcessPayment, InvoiceStatus
<1>5. net'[i] = IF Accepted(lines) THEN Plus(net[i], lines) ELSE net[i]
    BY RecordFor, ReceivablesAssumption DEF ProcessPayment, DocumentsInv
<1> HIDE DEF applied
<1>6. Accepted(lines)
    BY <1>1, <1>3, PaymentEntryIs
<1>7. At(Receivable) = -applied /\ At(Cash) = x /\ At(Deposits) = applied - x
    BY <1>1, <1>3, PaymentEntryIs
<1> HIDE DEF lines
<1>8. /\ {Receivable, Cash, Deposits} \subseteq DOMAIN net'[i]
      /\ \A a \in {Receivable, Cash, Deposits} : net'[i][a] = net[i][a] + At(a)
    BY <1>2, <1>5, <1>6 DEF Plus
<1>9. /\ net'[i][Receivable] = net[i][Receivable] - applied
      /\ net'[i][Cash] = net[i][Cash] + x
      /\ net'[i][Deposits] = net[i][Deposits] + (applied - x)
    BY <1>2, <1>3, <1>7, <1>8
<1>10. ~TakenBack(i)'
    BY <1>4 DEF TakenBack
<1>11. Posted(i)' = Posted(i) /\ TotalDue(i)' = TotalDue(i) /\ Posted(i) \in Int
    BY InvoiceAmounts DEF Posted, TotalDue, InvoiceEntry
<1>12. /\ net'[i][Receivable] + invoices'[i].paid = Posted(i)
       /\ net'[i][Cash] + net'[i][Deposits] = invoices'[i].paid
       /\ invoices'[i].paid <= TotalDue(i)
       /\ \A a \in {Receivable, Cash, Deposits} : net'[i][a] \in Int
    BY <1>1, <1>2, <1>3, <1>4, <1>9, <1>11
<1> QED
    BY <1>4, <1>8, <1>10, <1>11, <1>12 DEF InvoiceTied

LEMMA CancelInvoiceKeeps ==
    ASSUME DocumentsInv, NEW i \in Invoices, i \in DOMAIN invoices, InvoiceTied(i),
           CancelInvoice(i)
    PROVE  InvoiceTied(i)'
<1> DEFINE lines == Plus(Entry(Sales, Subtotal[i]), Entry(Receivable, -TotalDue(i)))
<1>1. TotalDue(i) \in Int
    BY InvoiceAmounts
<1>2. /\ {Receivable, Cash, Deposits} \subseteq DOMAIN net[i]
      /\ net[i][Receivable] \in Int /\ net[i][Cash] \in Int /\ net[i][Deposits] \in Int
      /\ invoices[i] \in [status : InvoiceStatus, paid : Int]
      /\ net[i][Receivable] + invoices[i].paid = Posted(i)
      /\ net[i][Cash] + net[i][Deposits] = invoices[i].paid
      /\ TotalDue(i) >= 0 => invoices[i].paid <= TotalDue(i)
    BY DEF InvoiceTied, TakenBack, CancelInvoice
<1>3. /\ i \in DOMAIN invoices' /\ invoices'[i].status = "Cancelled"
      /\ invoices'[i] \in [status : InvoiceStatus, paid : Int]
      /\ invoices'[i].paid = invoices[i].paid
    BY <1>2 DEF CancelInvoice, InvoiceStatus
<1>4. net'[i] = IF Accepted(lines) THEN Plus(net[i], lines) ELSE net[i]
    BY RecordFor, ReceivablesAssumption DEF CancelInvoice, DocumentsInv
<1>5. /\ Accepted(lines) <=> Tax[i] = 0
      /\ DOMAIN lines = {Sales, Receivable} /\ lines[Receivable] = -TotalDue(i)
    BY CancelEntryIs
<1> HIDE DEF lines
<1>6. Posted(i)' = Posted(i) /\ TotalDue(i)' = TotalDue(i)
    BY DEF Posted, TotalDue, InvoiceEntry
<1>7. CASE Tax[i] # 0
    <2>1. net'[i] = net[i] /\ ~TakenBack(i)'
        BY <1>4, <1>5, <1>7 DEF TakenBack
    <2> QED
        BY <1>2, <1>3, <1>6, <2>1 DEF InvoiceTied
<1>8. CASE Tax[i] = 0
    <2>1. TakenBack(i)' /\ Posted(i) = TotalDue(i)
        BY <1>3, <1>8, InvoiceEntryIs DEF TakenBack, Posted
    <2>2. net'[i] = Plus(net[i], lines)
        BY <1>4, <1>5, <1>8
    <2>3. /\ {Receivable, Cash, Deposits} \subseteq DOMAIN net'[i]
          /\ net'[i][Receivable] = net[i][Receivable] + -TotalDue(i)
          /\ net'[i][Cash] = net[i][Cash] + 0 /\ net'[i][Deposits] = net[i][Deposits] + 0
        BY <1>2, <1>5, <2>2, AccountsDiffer DEF Plus
    <2> QED
        BY <1>1, <1>2, <1>3, <1>6, <2>1, <2>3 DEF InvoiceTied
<1> QED
    BY <1>7, <1>8

LEMMA ReceivablesKeep ==
    ASSUME DocumentsInv, InvoicesInv, ReceivablesNext
    PROVE  InvoicesInv'
<1>1. /\ DOMAIN net = Documents /\ DOMAIN invoices \subseteq Invoices
      /\ Invoices \cup Receipts \subseteq Documents /\ Invoices \cap Receipts = {}
    BY ReceivablesAssumption, Apart DEF DocumentsInv
<1>2. ASSUME NEW c \in Invoices, InvoiceTied(c)',
             \A e \in Documents \ {c} : net'[e] = net[e],
             \A i \in Invoices \ {c} :
                /\ (i \in DOMAIN invoices') = (i \in DOMAIN invoices)
                /\ i \in DOMAIN invoices => invoices'[i] = invoices[i]
      PROVE  InvoicesInv'
    <2>1. ASSUME NEW i \in Invoices, i # c
          PROVE  InvoiceTied(i)'
        BY <1>1, <1>2, <2>1, SameInvoice DEF InvoicesInv
    <2> QED
        BY <1>2, <2>1 DEF InvoicesInv
<1>3. ASSUME NEW c \in Invoices, CreateInvoice(c)
      PROVE  InvoicesInv'
    <2>1. InvoiceTied(c)'
        BY <1>3, CreateInvoiceKeeps DEF InvoicesInv
    <2>2. \A e \in Documents \ {c} : net'[e] = net[e]
        BY <1>1, <1>3, RecordFor DEF CreateInvoice
    <2>3. \A i \in Invoices \ {c} :
             /\ (i \in DOMAIN invoices') = (i \in DOMAIN invoices)
             /\ i \in DOMAIN invoices => invoices'[i] = invoices[i]
        BY <1>3 DEF CreateInvoice, Insert
    <2> QED
        BY <1>2, <2>1, <2>2, <2>3
<1>4. ASSUME NEW c \in DOMAIN invoices, CancelInvoice(c)
      PROVE  InvoicesInv'
    <2>1. InvoiceTied(c)'
        BY <1>1, <1>4, CancelInvoiceKeeps DEF InvoicesInv
    <2>2. \A e \in Documents \ {c} : net'[e] = net[e]
        BY <1>1, <1>4, RecordFor DEF CancelInvoice
    <2>3. \A i \in Invoices \ {c} :
             /\ (i \in DOMAIN invoices') = (i \in DOMAIN invoices)
             /\ i \in DOMAIN invoices => invoices'[i] = invoices[i]
        BY <1>4 DEF CancelInvoice
    <2> QED
        BY <1>1, <1>2, <2>1, <2>2, <2>3
<1>5. ASSUME NEW c \in DOMAIN invoices, NEW x \in Payments, ProcessPayment(c, x)
      PROVE  InvoicesInv'
    <2>1. InvoiceTied(c)'
        BY <1>1, <1>5, ProcessPaymentKeeps DEF InvoicesInv
    <2>2. \A e \in Documents \ {c} : net'[e] = net[e]
        BY <1>1, <1>5, RecordFor DEF ProcessPayment
    <2>3. \A i \in Invoices \ {c} :
             /\ (i \in DOMAIN invoices') = (i \in DOMAIN invoices)
             /\ i \in DOMAIN invoices => invoices'[i] = invoices[i]
        BY <1>5 DEF ProcessPayment
    <2> QED
        BY <1>1, <1>2, <2>1, <2>2, <2>3
<1>6. ASSUME NEW r \in Receipts, ProcessReceipt(r)
      PROVE  InvoicesInv'
    <2>1. UNCHANGED invoices /\ \A e \in Documents \ {r} : net'[e] = net[e]
        BY <1>1, <1>6, RecordFor DEF ProcessReceipt
    <2>2. ASSUME NEW i \in Invoices
          PROVE  InvoiceTied(i)'
        BY <1>1, <2>1, SameInvoice DEF InvoicesInv
    <2> QED
        BY <2>2 DEF InvoicesInv
<1> QED
    BY <1>3, <1>4, <1>5, <1>6 DEF ReceivablesNext

LEMMA InvoicesKept ==
    ASSUME DocumentsInv, InvoicesInv, [Next]_vars
    PROVE  InvoicesInv'
<1>1. CASE ReceivablesNext
    BY <1>1, ReceivablesKeep
<1>2. (\A i \in Invoices : net'[i] = net[i]) /\ UNCHANGED invoices => InvoicesInv'
    BY SameInvoice DEF InvoicesInv
<1>3. \A S : LeavesOthers(S) /\ Invoices \cap S = {} => \A i \in Invoices : net'[i] = net[i]
    BY ReceivablesAssumption DEF LeavesOthers
<1>4. CASE PayablesNext /\ UNCHANGED invoices
    BY <1>2, <1>3, <1>4, PayablesLeave, Apart
<1>5. CASE RegisterNext /\ UNCHANGED invoices
    BY <1>2, <1>3, <1>5, RegisterLeaves, Apart
<1>6. CASE PayrollNext /\ UNCHANGED invoices
    BY <1>2, <1>3, <1>6, PayrollLeaves, Apart
<1>7. CASE UNCHANGED vars
    BY <1>2, <1>7 DEF vars
<1> QED
    BY <1>1, <1>4, <1>5, <1>6, <1>7 DEF Next

\* In whatever order an invoice is made, paid, overpaid and cancelled, the
\* receivables account carries what was posted less what the invoice says was
\* paid, and money received is applied or deposited (InvoiceProcessor).
THEOREM ReceivablesStayTied == Spec => []ReceivablesTied
<1>1. Init => InvoicesInv
    <2>1. ASSUME Init, NEW i \in Invoices
          PROVE  InvoiceTied(i)
        BY <2>1, ReceivablesAssumption, AccountsDiffer
           DEF Init, InvoiceTied, Unposted, ReceivablesInit
    <2> QED
        BY <2>1 DEF InvoicesInv
<1>2. DocumentsInv /\ InvoicesInv /\ [Next]_vars => (DocumentsInv /\ InvoicesInv)'
    BY DocumentsKept, InvoicesKept
<1>3. DocumentsInv /\ InvoicesInv => ReceivablesTied
    BY DEF DocumentsInv, InvoicesInv, InvoiceTied, ReceivablesTied, TakenBack, Posted
<1> QED
    BY DocumentsAtFirst, <1>1, <1>2, <1>3, PTL DEF Spec

-----------------------------------------------------------------------------
(* Types.                                                                  *)

Net == [Documents -> [Chart -> Int]]

\* What adds up to numbers still does after a transaction of numbers.
LEMMA RecordType ==
    ASSUME net \in Net, NEW d \in Documents, NEW lines,
           lines \in [DOMAIN lines -> Int], Record(d, lines)
    PROVE  net' \in Net
<1>1. CASE Accepted(lines)
    <2>1. net' = [net EXCEPT ![d] = Plus(net[d], lines)]
        BY <1>1 DEF Record
    <2>2. net[d] \in [Chart -> Int] /\ DOMAIN net[d] = Chart /\ DOMAIN lines \subseteq Chart
        BY <1>1 DEF Net, Accepted
    <2>3. Plus(net[d], lines) \in [Chart -> Int]
        BY <2>2 DEF Plus
    <2> QED
        BY <2>1, <2>3 DEF Net
<1>2. CASE ~Accepted(lines)
    BY <1>2 DEF Record
<1> QED
    BY <1>1, <1>2

\* Sums of entries of numbers are entries of numbers.
LEMMA PlusType ==
    ASSUME NEW f, NEW g, f \in [DOMAIN f -> Int], g \in [DOMAIN g -> Int]
    PROVE  Plus(f, g) \in [DOMAIN Plus(f, g) -> Int]
BY DEF Plus

LEMMA EntryType ==
    ASSUME NEW a, NEW x \in Int
    PROVE  Entry(a, x) \in [DOMAIN Entry(a, x) -> Int]
BY DEF Entry

LEMMA TransferType ==
    ASSUME NEW p, NEW q, NEW x \in Int
    PROVE  Transfer(p, q, x) \in [DOMAIN Transfer(p, q, x) -> Int]
<1>1. Entry(q, x) \in [DOMAIN Entry(q, x) -> Int]
    BY EntryType
<1>2. -x \in Int
    OBVIOUS
<1>3. Entry(p, -x) \in [DOMAIN Entry(p, -x) -> Int]
    BY <1>2, EntryType
<1> QED
    BY <1>1, <1>3, PlusType DEF Transfer

LEMMA PayablesTyped ==
    ASSUME net \in Net, PayablesType, PayablesNext
    PROVE  net' \in Net /\ PayablesType'
<1> DEFINE Bill == [status : BillStatus, paid : Int]
<1>1. DOMAIN bills \subseteq Bills /\ \A b \in DOMAIN bills : bills[b] \in Bill
    BY DEF PayablesType
<1>2. Bills \subseteq Documents /\ \A b \in Bills : Amount(b) \in Int
    BY PayablesAssumption
<1>3. ASSUME NEW c \in DOMAIN bills, DOMAIN bills' = DOMAIN bills, bills'[c] \in Bill,
             \A b \in DOMAIN bills \ {c} : bills'[b] = bills[b]
      PROVE  PayablesType'
    BY <1>1, <1>3 DEF PayablesType
<1>4. ASSUME NEW b \in Bills, EnterBill(b)
      PROVE  net' \in Net /\ PayablesType'
    <2>1. LinesOf[b] \in [DOMAIN LinesOf[b] -> Int] /\ -Amount(b) \in Int
        BY <1>2, PayablesAssumption
    <2>2. Entry(Payable, -Amount(b)) \in [DOMAIN Entry(Payable, -Amount(b)) -> Int]
        BY <2>1, EntryType
    <2>3. net' \in Net
        BY <1>2, <1>4, <2>1, <2>2, PlusType, RecordType DEF EnterBill
    <2>4. DOMAIN bills' = DOMAIN bills \cup {b}
          /\ bills'[b] = [status |-> "Approved", paid |-> 0]
          /\ \A c \in DOMAIN bills : c # b => bills'[c] = bills[c]
        BY <1>4 DEF EnterBill, Insert
    <2>5. bills'[b] \in Bill
        BY <2>4 DEF BillStatus
    <2>6. PayablesType'
        BY <1>1, <2>4, <2>5 DEF PayablesType
    <2> QED
        BY <2>3, <2>6
<1>5. ASSUME NEW b \in DOMAIN bills, SchedulePayment(b)
      PROVE  net' \in Net /\ PayablesType'
    <2>1. bills'[b] \in Bill
        BY <1>1, <1>5 DEF SchedulePayment, BillStatus
    <2> QED
        BY <1>3, <1>5, <2>1 DEF SchedulePayment
<1>6. ASSUME NEW b \in DOMAIN bills, PayBill(b)
      PROVE  net' \in Net /\ PayablesType'
    <2>1. bills'[b] \in Bill
        BY <1>1, <1>2, <1>6 DEF PayBill, BillStatus
    <2>2. net' \in Net
        BY <1>1, <1>2, <1>6, TransferType, RecordType DEF PayBill
    <2> QED
        BY <1>3, <1>6, <2>1, <2>2 DEF PayBill
<1>7. ASSUME NEW b \in DOMAIN bills, VoidBill(b)
      PROVE  net' \in Net /\ PayablesType'
    <2>1. bills'[b] \in Bill
        BY <1>1, <1>7 DEF VoidBill, BillStatus
    <2>2. net' \in Net
        BY <1>1, <1>2, <1>7, TransferType, RecordType DEF VoidBill
    <2> QED
        BY <1>3, <1>7, <2>1, <2>2 DEF VoidBill
<1>8. ASSUME NEW b \in DOMAIN bills, NEW x \in PartialAmounts, PayBillPartial(b, x)
      PROVE  net' \in Net /\ PayablesType'
    <2>1. x \in Int
        BY PayablesAssumption
    <2>5. bills[b] \in [status : BillStatus, paid : Int]
        BY <1>1
    <2>2. bills'[b] \in [status : BillStatus, paid : Int]
        BY <1>8, <2>1, <2>5 DEF PayBillPartial, BillStatus
    <2>3. net' \in Net
        BY <1>1, <1>2, <1>8, <2>1, TransferType, RecordType DEF PayBillPartial
    <2>4. DOMAIN bills' = DOMAIN bills /\ \A c \in DOMAIN bills \ {b} : bills'[c] = bills[c]
        BY <1>8 DEF PayBillPartial
    <2> QED
        BY <1>3, <2>2, <2>3, <2>4
<1> QED
    BY <1>4, <1>5, <1>6, <1>7, <1>8 DEF PayablesNext

LEMMA ReceivablesTyped ==
    ASSUME net \in Net, ReceivablesType, ReceivablesNext
    PROVE  net' \in Net /\ ReceivablesType'
<1> DEFINE Invoice == [status : InvoiceStatus, paid : Int]
<1>1. /\ DOMAIN invoices \subseteq Invoices
      /\ \A i \in DOMAIN invoices : invoices[i] \in Invoice
    BY DEF ReceivablesType
<1>2. Invoices \cup Receipts \subseteq Documents
    BY ReceivablesAssumption
<1>3. ASSUME NEW c \in Invoices, DOMAIN invoices' = DOMAIN invoices \cup {c},
             invoices'[c] \in Invoice, UNCHANGED receipts,
             \A i \in DOMAIN invoices \ {c} : invoices'[i] = invoices[i]
      PROVE  ReceivablesType'
    BY <1>1, <1>3 DEF ReceivablesType
<1>4. ASSUME NEW i \in Invoices, CreateInvoice(i)
      PROVE  net' \in Net /\ ReceivablesType'
    <2>1. Subtotal[i] \in Int /\ Tax[i] \in Int /\ -Tax[i] \in Int
        BY InvoiceAmounts
    <2> DEFINE sale == Transfer(Sales, Receivable, Subtotal[i])
               due  == Plus(sale, Entry(Receivable, Tax[i]))
               all  == Plus(due, Entry(Accrued, -Tax[i]))
    <2>2. sale \in [DOMAIN sale -> Int]
        BY <2>1, TransferType
    <2>3. Entry(Receivable, Tax[i]) \in [DOMAIN Entry(Receivable, Tax[i]) -> Int]
        BY <2>1, EntryType
    <2>4. Entry(Accrued, -Tax[i]) \in [DOMAIN Entry(Accrued, -Tax[i]) -> Int]
        BY <2>1, EntryType
    <2>5. due \in [DOMAIN due -> Int]
        BY <2>2, <2>3, PlusType
    <2>6. all \in [DOMAIN all -> Int]
        BY <2>4, <2>5, PlusType
    <2>7. InvoiceEntry(i) = IF Tax[i] > 0 THEN all ELSE due
        BY DEF InvoiceEntry
    <2> HIDE DEF all, due, sale
    <2>8. InvoiceEntry(i) \in [DOMAIN InvoiceEntry(i) -> Int]
        BY <2>5, <2>6, <2>7
    <2>9. net' \in Net
        BY <1>2, <1>4, <2>8, RecordType DEF CreateInvoice
    <2>10. /\ DOMAIN invoices' = DOMAIN invoices \cup {i} /\ UNCHANGED receipts
           /\ invoices'[i] \in Invoice
           /\ \A j \in DOMAIN invoices \ {i} : invoices'[j] = invoices[j]
        BY <1>4 DEF CreateInvoice, Insert, InvoiceStatus
    <2> QED
        BY <1>3, <2>9, <2>10
<1>5. ASSUME NEW i \in DOMAIN invoices, NEW x \in Payments, ProcessPayment(i, x)
      PROVE  net' \in Net /\ ReceivablesType'
    <2> DEFINE applied == Applied(i, x)
               payment == Plus(Entry(Cash, x), Entry(Receivable, -applied))
               whole   == Plus(payment, Entry(Deposits, applied - x))
    <2>1. x \in Int /\ TotalDue(i) \in Int /\ i \in Invoices
        BY <1>1, ReceivablesAssumption, InvoiceAmounts
    <2>2. invoices[i] \in Invoice
        BY <1>1
    <2>3. applied \in Int
        BY <2>1, <2>2 DEF Applied
    <2>4. /\ DOMAIN invoices' = DOMAIN invoices \cup {i} /\ UNCHANGED receipts
          /\ invoices'[i] \in Invoice
          /\ \A j \in DOMAIN invoices \ {i} : invoices'[j] = invoices[j]
        <3> DEFINE paid == invoices[i].paid + applied
        <3>1. /\ invoices' = [invoices EXCEPT ![i] =
                    [status |-> IF paid >= TotalDue(i) THEN "Paid" ELSE "PartiallyPaid",
                     paid |-> paid]]
              /\ UNCHANGED receipts
            BY <1>5 DEF ProcessPayment
        <3>2. paid \in Int
            BY <2>2, <2>3
        <3> HIDE DEF paid, applied
        <3> QED
            BY <3>1, <3>2 DEF InvoiceStatus
    <2>5. Record(i, PaymentEntry(x, applied))
        BY <1>5 DEF ProcessPayment
    <2>6. PaymentEntry(x, applied) = IF x > applied THEN whole ELSE payment
        BY DEF PaymentEntry
    <2> HIDE DEF applied
    <2>7. -applied \in Int /\ applied - x \in Int
        BY <2>1, <2>3
    <2>8. Entry(Cash, x) \in [DOMAIN Entry(Cash, x) -> Int]
        BY <2>1, EntryType
    <2>9. Entry(Receivable, -applied) \in [DOMAIN Entry(Receivable, -applied) -> Int]
        BY <2>7, EntryType
    <2>10. Entry(Deposits, applied - x) \in [DOMAIN Entry(Deposits, applied - x) -> Int]
        BY <2>7, EntryType
    <2>11. payment \in [DOMAIN payment -> Int]
        BY <2>8, <2>9, PlusType
    <2>12. whole \in [DOMAIN whole -> Int]
        BY <2>10, <2>11, PlusType
    <2> HIDE DEF whole, payment
    <2>13. net' \in Net
        BY <1>2, <2>1, <2>5, <2>6, <2>11, <2>12, RecordType
    <2> QED
        BY <1>3, <2>1, <2>4, <2>13
<1>6. ASSUME NEW i \in DOMAIN invoices, CancelInvoice(i)
      PROVE  net' \in Net /\ ReceivablesType'
    <2>1. Subtotal[i] \in Int /\ -TotalDue(i) \in Int /\ i \in Invoices
        BY <1>1, InvoiceAmounts
    <2>2. Entry(Sales, Subtotal[i]) \in [DOMAIN Entry(Sales, Subtotal[i]) -> Int]
        BY <2>1, EntryType
    <2>3. Entry(Receivable, -TotalDue(i)) \in [DOMAIN Entry(Receivable, -TotalDue(i)) -> Int]
        BY <2>1, EntryType
    <2>4. net' \in Net
        BY <1>2, <1>6, <2>1, <2>2, <2>3, PlusType, RecordType DEF CancelInvoice
    <2>5. /\ DOMAIN invoices' = DOMAIN invoices \cup {i} /\ UNCHANGED receipts
          /\ invoices'[i] \in Invoice
          /\ \A j \in DOMAIN invoices \ {i} : invoices'[j] = invoices[j]
        BY <1>1, <1>6 DEF CancelInvoice, InvoiceStatus
    <2> QED
        BY <1>3, <2>1, <2>4, <2>5
<1>7. ASSUME NEW r \in Receipts, ProcessReceipt(r)
      PROVE  net' \in Net /\ ReceivablesType'
    <2>1. ReceiptAmount[r] \in Int /\ r \in Documents
        BY <1>2, ReceivablesAssumption
    <2>2. net' \in Net
        BY <1>7, <2>1, TransferType, RecordType DEF ProcessReceipt
    <2>3. /\ DOMAIN receipts' = DOMAIN receipts \cup {r} /\ UNCHANGED invoices
          /\ receipts'[r] \in {"Processed", "Categorized"}
          /\ \A s \in DOMAIN receipts \ {r} : receipts'[s] = receipts[s]
        BY <1>7 DEF ProcessReceipt, Insert
    <2>4. ReceivablesType'
        BY <2>3 DEF ReceivablesType
    <2> QED
        BY <2>2, <2>4
<1> QED
    BY <1>4, <1>5, <1>6, <1>7 DEF ReceivablesNext

LEMMA DisposalType ==
    ASSUME NEW a \in Assets, register[a].accumulated \in Int, NEW price \in Prices,
           net \in Net, NEW date, DisposeAsset(a, price, date)
    PROVE  net' \in Net
<1> DEFINE book == BookValue(a)
           gain == price - book
           sold == Plus(Plus(Entry(Cash, price), Entry(Depreciated, register[a].accumulated)),
                        Entry(FixedAssets, -Cost[a]))
<1>1. /\ price \in Int /\ -Cost[a] \in Int /\ gain \in Int /\ -gain \in Int
      /\ a \in Documents
    BY RegisterAssumption DEF BookValue
<1>2. Entry(Cash, price) \in [DOMAIN Entry(Cash, price) -> Int]
    BY <1>1, EntryType
<1>3. Entry(Depreciated, register[a].accumulated)
        \in [DOMAIN Entry(Depreciated, register[a].accumulated) -> Int]
    BY EntryType
<1>4. Entry(FixedAssets, -Cost[a]) \in [DOMAIN Entry(FixedAssets, -Cost[a]) -> Int]
    BY <1>1, EntryType
<1>5. sold \in [DOMAIN sold -> Int]
    BY <1>2, <1>3, <1>4, PlusType
<1>6. /\ Entry(Interest, -gain) \in [DOMAIN Entry(Interest, -gain) -> Int]
      /\ Entry(Supplies, -gain) \in [DOMAIN Entry(Supplies, -gain) -> Int]
    BY <1>1, EntryType
<1>7. \E lines : /\ Record(a, lines)
                 /\ lines \in {sold, Plus(sold, Entry(Interest, -gain)),
                               Plus(sold, Entry(Supplies, -gain))}
    BY DEF DisposeAsset
<1> HIDE DEF sold, gain
<1>8. PICK lines : /\ Record(a, lines)
                   /\ lines \in {sold, Plus(sold, Entry(Interest, -gain)),
                                 Plus(sold, Entry(Supplies, -gain))}
    BY <1>7
<1>9. lines \in [DOMAIN lines -> Int]
    BY <1>5, <1>6, <1>8, PlusType
<1> QED
    BY <1>1, <1>8, <1>9, RecordType

LEMMA RegisterTyped ==
    ASSUME net \in Net, RegisterType, RegisterNext
    PROVE  net' \in Net /\ RegisterType'
<1> DEFINE Asset == [accumulated : Nat, disposed : Dates \cup {NotDisposed}]
<1>1. /\ DOMAIN register \subseteq Assets
      /\ \A a \in DOMAIN register : register[a] \in Asset
    BY DEF RegisterType
<1>2. ASSUME NEW a \in Assets, AddAsset(a)
      PROVE  net' \in Net /\ RegisterType'
    <2>1. /\ DOMAIN register' = DOMAIN register \cup {a} /\ net' = net
          /\ register'[a] = [accumulated |-> 0, disposed |-> NotDisposed]
          /\ \A b \in DOMAIN register : b # a => register'[b] = register[b]
        BY <1>2 DEF AddAsset, Insert
    <2>2. register'[a] \in Asset
        BY <2>1
    <2> QED
        BY <1>1, <2>1, <2>2 DEF RegisterType
<1>3. ASSUME NEW date \in Dates, PostDepreciation(date)
      PROVE  net' \in Net /\ RegisterType'
    <2>1. ASSUME NEW a \in Due(date)
          PROVE  /\ Monthly(a) \in Nat /\ a \in DOMAIN register /\ a \in Assets
        <3>1. a \in DOMAIN register /\ Monthly(a) > 0
            BY DEF Due
        <3>2. register[a].accumulated \in Int /\ a \in Assets
            BY <1>1, <3>1
        <3> QED
            BY <3>1, <3>2, MonthlyIsInt
    <2>2. ASSUME NEW d \in Documents
          PROVE  net'[d] \in [Chart -> Int]
        <3> DEFINE lines == Transfer(Depreciated, DepreciationExpense, Monthly(d))
        <3>1. net[d] \in [Chart -> Int]
            BY DEF Net
        <3>2. net'[d] = IF d \in Due(date) THEN Plus(net[d], lines) ELSE net[d]
            BY <1>3 DEF PostDepreciation
        <3>3. ASSUME d \in Due(date)
              PROVE  Plus(net[d], lines) \in [Chart -> Int]
            <4>1. Monthly(d) \in Int
                BY <2>1, <3>3
            <4>2. lines \in [DOMAIN lines -> Int]
                BY <4>1, TransferType
            <4>3. DOMAIN lines = {Depreciated, DepreciationExpense}
                BY DEF Transfer, Plus, Entry
            <4>4. DOMAIN lines \subseteq Chart
                BY <4>3 DEF Chart, Depreciated, DepreciationExpense
            <4> HIDE DEF lines
            <4> QED
                BY <3>1, <4>2, <4>4 DEF Plus
        <3> QED
            BY <3>1, <3>2, <3>3
    <2>3. net' \in Net
        <3>1. net' = [d \in Documents |-> net'[d]]
            BY <1>3 DEF PostDepreciation
        <3> QED
            BY <2>2, <3>1 DEF Net
    <2>4. ASSUME NEW a \in DOMAIN register
          PROVE  register'[a] \in Asset
        <3>1. CASE a \in Due(date)
            <4>1. register'[a] = [register[a] EXCEPT !.accumulated = @ + Monthly(a)]
                BY <1>3, <3>1 DEF PostDepreciation
            <4>2. Monthly(a) \in Nat /\ register[a] \in Asset
                BY <1>1, <2>1, <3>1
            <4> QED
                BY <4>1, <4>2
        <3>2. CASE a \notin Due(date)
            BY <1>1, <1>3, <3>2 DEF PostDepreciation
        <3> QED
            BY <3>1, <3>2
    <2>5. DOMAIN register' = DOMAIN register
        BY <1>3 DEF PostDepreciation
    <2> QED
        BY <1>1, <2>3, <2>4, <2>5 DEF RegisterType
<1>4. ASSUME NEW a \in DOMAIN register, NEW price \in Prices, NEW date \in Dates,
             DisposeAsset(a, price, date)
      PROVE  net' \in Net /\ RegisterType'
    <2>1. a \in Assets /\ register[a] \in Asset
        BY <1>1
    <2>2. net' \in Net
        BY <1>4, <2>1, DisposalType
    <2>3. register' = [register EXCEPT ![a].disposed = date]
        BY <1>4 DEF DisposeAsset
    <2> QED
        BY <1>1, <2>1, <2>2, <2>3 DEF RegisterType
<1> QED
    BY <1>2, <1>3, <1>4 DEF RegisterNext

-----------------------------------------------------------------------------
(* Payroll.                                                                *)

\* What is withheld from an employee's pay are numbers, on six accounts.
LEMMA WithheldIs ==
    ASSUME NEW e \in Employees, worked[e] \in [regular : Nat, overtime : Nat]
    PROVE  /\ Gross(e) \in Int
           /\ Withheld(e) \in [TaxAccounts -> Int]
<1>1. /\ Rate[e] \in Nat
      /\ FederalRate[e] \in Int /\ StateRate[e] \in Int /\ LocalRate[e] \in Int
      /\ FederalAllowances[e] \in Int /\ StateAllowances[e] \in Int
    <2>1. Rate[e] \in Nat
        BY PayrollAssumption
    <2>2. FederalRate[e] \in {240, 260, 300} /\ StateRate[e] \in {80, 90, 100}
        BY PayrollAssumption
    <2>3. LocalRate[e] \in {16, 18, 20}
        BY PayrollAssumption
    <2>4. FederalAllowances[e] \in 0..255
        BY PayrollAssumption
    <2>5. StateAllowances[e] \in 0..255
        BY PayrollAssumption
    <2> QED
        BY <2>1, <2>2, <2>3, <2>4, <2>5
<1>2. (3 * Rate[e]) \div 2 \in Int
    BY <1>1
<1>3. Gross(e) \in Int
    <2>1. worked[e].regular \in Int /\ worked[e].overtime \in Int
        OBVIOUS
    <2>2. worked[e].regular * Rate[e] \in Int
        BY <1>1, <2>1
    <2>3. worked[e].overtime * ((3 * Rate[e]) \div 2) \in Int
        BY <1>2, <2>1
    <2> QED
        BY <2>2, <2>3 DEF Gross
<1> DEFINE g == Gross(e)
<1>4. g \in Int
    BY <1>3
<1> HIDE DEF g
<1>5. Min({g, WageBaseLimit}) \in Int
    <2>1. \E x \in {g, WageBaseLimit} : \A y \in {g, WageBaseLimit} : x <= y
        BY <1>4 DEF WageBaseLimit
    <2>2. Min({g, WageBaseLimit}) \in {g, WageBaseLimit}
        BY <2>1 DEF Min
    <2> QED
        BY <1>4, <2>2 DEF WageBaseLimit
<1>6. Max({0, g - AdditionalThreshold}) \in Int
    <2>1. \E x \in {0, g - AdditionalThreshold} : \A y \in {0, g - AdditionalThreshold} : x >= y
        BY <1>4 DEF AdditionalThreshold
    <2>2. Max({0, g - AdditionalThreshold}) \in {0, g - AdditionalThreshold}
        BY <2>1 DEF Max
    <2> QED
        BY <1>4, <2>2 DEF AdditionalThreshold
<1>7. FederalRate[e] * (g - 100 * FederalAllowances[e]) \in Int
    BY <1>1, <1>4
<1>8. StateRate[e] * (g - 50 * StateAllowances[e]) \in Int
    BY <1>1, <1>4
<1>9. LocalRate[e] * g \in Int
    BY <1>1, <1>4
<1> DEFINE f1 == FederalRate[e] * (g - 100 * FederalAllowances[e])
           f2 == StateRate[e] * (g - 50 * StateAllowances[e])
           f3 == LocalRate[e] * g
           f4 == 124 * Min({g, WageBaseLimit})
           f5 == 29 * g + 18 * Max({0, g - AdditionalThreshold})
           f6 == 100 * g
<1>10. f1 \in Int /\ f2 \in Int /\ f3 \in Int /\ f4 \in Int /\ f5 \in Int /\ f6 \in Int
    BY <1>4, <1>5, <1>6, <1>7, <1>8, <1>9
<1>11. Withheld(e) = [a \in TaxAccounts |->
                         CASE a = FederalTax -> f1 [] a = StateTax -> f2
                           [] a = Accrued -> f3 [] a = SocialSecurity -> f4
                           [] a = Medicare -> f5 [] a = Retirement -> f6]
    BY DEF Withheld, g
<1> HIDE DEF f1, f2, f3, f4, f5, f6
<1>12. ASSUME NEW a \in TaxAccounts
       PROVE  Withheld(e)[a] \in Int
    BY <1>10, <1>11
       DEF TaxAccounts, FederalTax, StateTax, Accrued, SocialSecurity, Medicare, Retirement
<1> QED
    BY <1>3, <1>11, <1>12

\* Entries none of which is positive add up to nothing positive.
LEMMA SumNotPositive ==
    ASSUME NEW S, IsFiniteSet(S), NEW f \in [S -> Int], \A x \in S : f[x] <= 0
    PROVE  SumFunction(f) <= 0
<1> DEFINE F == {U \in SUBSET S : SumFunction(Restrict(f, U)) <= 0}
<1>1. {} \in F
    <2>1. Restrict(f, {}) \in [{} -> Int]
        BY DEF Restrict
    <2> QED
        BY <2>1, SumNone
<1>2. ASSUME NEW T \in SUBSET S, NEW x \in S, T \in F, x \notin T
      PROVE  T \cup {x} \in F
    <2>1. /\ SumFunction(Restrict(f, T)) \in Int
          /\ SumFunction(Restrict(f, T \cup {x})) = f[x] + SumFunction(Restrict(f, T))
        BY <1>2, SumAdd
    <2>2. f[x] \in Int /\ f[x] <= 0
        OBVIOUS
    <2> QED
        BY <1>2, <2>1, <2>2
<1> HIDE DEF F
<1>3. SUBSET S \subseteq F
    BY <1>1, <1>2, SetInduct
<1>4. S \in F /\ Restrict(f, S) = f
    BY <1>3 DEF Restrict
<1> QED
    BY <1>4 DEF F

\* Where entries balance and but two of them are credits or nothing, these two
\* are debits together.
LEMMA Surplus ==
    ASSUME NEW S, IsFiniteSet(S), NEW f \in [S -> Int], SumFunction(f) = 0,
           NEW p \in S, NEW q \in S, p # q, \A x \in S \ {p, q} : f[x] <= 0
    PROVE  f[p] + f[q] >= 0
<1> DEFINE g == [x \in S \ {p} |-> f[x]]
           h == [x \in (S \ {p}) \ {q} |-> g[x]]
<1>1. IsFiniteSet(S \ {p}) /\ IsFiniteSet((S \ {p}) \ {q})
    BY FS_Difference, FS_Subset
<1>2. g \in [S \ {p} -> Int] /\ g[q] = f[q] /\ q \in S \ {p}
    OBVIOUS
<1>3. h \in [(S \ {p}) \ {q} -> Int] /\ \A x \in (S \ {p}) \ {q} : h[x] <= 0
    OBVIOUS
<1>4. SumFunction(f) = f[p] + SumFunction(g)
    BY SumSplit
<1> HIDE DEF g
<1>5. SumFunction(g) = g[q] + SumFunction(h)
    BY <1>1, <1>2, SumSplit
<1> HIDE DEF h
<1>6. SumFunction(h) \in Int /\ SumFunction(h) <= 0
    BY <1>1, <1>3, SumSplit, SumNotPositive
<1>7. f[p] \in Int /\ f[q] \in Int
    OBVIOUS
<1> QED
    BY <1>2, <1>4, <1>5, <1>6, <1>7

LEMMA TaxAccountsFinite ==
    IsFiniteSet(TaxAccounts) /\ Salaries \notin TaxAccounts /\ Cash \notin TaxAccounts
    /\ Salaries # Cash
<1>1. IsFiniteSet({FederalTax, StateTax, Accrued})
    BY FewAreFinite
<1>2. IsFiniteSet({SocialSecurity, Medicare, Retirement})
    BY FewAreFinite
<1>3. TaxAccounts = {FederalTax, StateTax, Accrued} \cup {SocialSecurity, Medicare, Retirement}
    BY DEF TaxAccounts
<1>4. IsFiniteSet(TaxAccounts)
    BY <1>1, <1>2, <1>3, FS_Union
<1> QED
    BY <1>4 DEF TaxAccounts, FederalTax, StateTax, Accrued, SocialSecurity, Medicare,
                Retirement, Salaries, Cash

\* What is posted for an employee's pay: the gross pay, the money paid, and
\* what is withheld where it is positive.
LEMMA PayEntryIs ==
    ASSUME NEW e \in Employees, worked[e] \in [regular : Nat, overtime : Nat]
    PROVE  /\ DOMAIN PayEntry(e) \subseteq TaxAccounts \cup {Salaries, Cash}
           /\ {Salaries, Cash} \subseteq DOMAIN PayEntry(e)
           /\ PayEntry(e) \in [DOMAIN PayEntry(e) -> Int]
           /\ \A a \in DOMAIN PayEntry(e) \ {Salaries, Cash} : PayEntry(e)[a] <= 0
<1> DEFINE tax == Withheld(e)
           owed == {b \in TaxAccounts : tax[b] > 0}
           taxes == [a \in owed |-> -tax[a]]
           both == Plus(Entry(Salaries, 2000 * Gross(e)), Entry(Cash, -NetPay(e)))
<1>1. Gross(e) \in Int /\ tax \in [TaxAccounts -> Int]
    BY WithheldIs
<1>2. SumFunction(tax) \in Int
    <2> HIDE DEF tax
    <2> QED
        BY <1>1, TaxAccountsFinite, SumSplit
<1>3. 2000 * Gross(e) \in Int /\ -NetPay(e) \in Int
    BY <1>1, <1>2 DEF NetPay
<1>4. /\ DOMAIN both = {Salaries, Cash}
      /\ both \in [DOMAIN both -> Int]
    <2>1. Entry(Salaries, 2000 * Gross(e)) \in [DOMAIN Entry(Salaries, 2000 * Gross(e)) -> Int]
        BY <1>3, EntryType
    <2>2. Entry(Cash, -NetPay(e)) \in [DOMAIN Entry(Cash, -NetPay(e)) -> Int]
        BY <1>3, EntryType
    <2>3. DOMAIN both = {Salaries, Cash}
        BY DEF Plus, Entry
    <2> QED
        BY <2>1, <2>2, <2>3, PlusType
<1>5. PayEntry(e) = Plus(taxes, both)
    BY DEF PayEntry
<1>6. /\ DOMAIN taxes = owed /\ taxes \in [DOMAIN taxes -> Int]
      /\ \A a \in owed : taxes[a] <= 0
    <2> HIDE DEF tax
    <2> QED
        BY <1>1
<1>7. owed \subseteq TaxAccounts
    OBVIOUS
<1> HIDE DEF taxes, both, owed, tax
<1>8. /\ DOMAIN PayEntry(e) = owed \cup {Salaries, Cash}
      /\ PayEntry(e) \in [DOMAIN PayEntry(e) -> Int]
    <2>1. DOMAIN PayEntry(e) = owed \cup {Salaries, Cash}
        BY <1>4, <1>5, <1>6 DEF Plus
    <2>2. Plus(taxes, both) \in [DOMAIN Plus(taxes, both) -> Int]
        BY ONLY <1>4, <1>6, PlusType
    <2> QED
        BY <1>5, <2>1, <2>2
<1>9. ASSUME NEW a \in owed, a \notin {Salaries, Cash}
      PROVE  PayEntry(e)[a] <= 0
    <2>1. PayEntry(e)[a] = taxes[a] + 0
        BY <1>4, <1>5, <1>6, <1>9 DEF Plus
    <2> QED
        BY <1>6, <2>1
<1> QED
    BY <1>7, <1>8, <1>9

\* A pay that the ledger takes up pays out no more than the gross pay.
LEMMA AcceptedPay ==
    ASSUME NEW e \in Employees, worked[e] \in [regular : Nat, overtime : Nat],
           Accepted(PayEntry(e))
    PROVE  PayEntry(e)[Salaries] + PayEntry(e)[Cash] >= 0
<1> DEFINE f == PayEntry(e)
           S == DOMAIN f
<1>1. /\ S \subseteq TaxAccounts \cup {Salaries, Cash} /\ {Salaries, Cash} \subseteq S
      /\ f \in [S -> Int] /\ \A a \in S \ {Salaries, Cash} : f[a] <= 0
    BY PayEntryIs
<1>2. SumFunction(f) = 0
    BY DEF Accepted
<1> HIDE DEF f, S
<1>3. IsFiniteSet(S)
    <2>1. IsFiniteSet(TaxAccounts \cup {Salaries, Cash})
        BY TaxAccountsFinite, FewAreFinite, FS_Union
    <2> QED
        BY <1>1, <2>1, FS_Subset
<1>4. f[Salaries] + f[Cash] >= 0
    BY <1>1, <1>2, <1>3, TaxAccountsFinite, Surplus
<1> QED
    BY <1>4 DEF f

\* What is posted when the employees of S are paid.
LEMMA PaidToIs ==
    ASSUME net \in Net, PayrollType, NEW S \in SUBSET DOMAIN staff, net' = PaidTo(S)
    PROVE  /\ net' \in Net
           /\ \A e \in Employees :
                \/ net'[e] = net[e]
                \/ Accepted(PayEntry(e)) /\ net'[e] = Plus(net[e], PayEntry(e))
<1>1. S \subseteq Employees /\ Employees \subseteq Documents
    BY PayrollAssumption DEF PayrollType
<1>2. ASSUME NEW e \in Employees
      PROVE  PayEntry(e) \in [DOMAIN PayEntry(e) -> Int]
    <2>1. worked[e] \in [regular : Nat, overtime : Nat]
        BY DEF PayrollType
    <2> QED
        BY <2>1, PayEntryIs
<1>3. net' = [d \in Documents |-> IF d \in S /\ Accepted(PayEntry(d))
                                  THEN Plus(net[d], PayEntry(d)) ELSE net[d]]
    BY DEF PaidTo
<1>4. ASSUME NEW d \in Documents
      PROVE  net'[d] \in [Chart -> Int]
    <2>1. net[d] \in [Chart -> Int]
        BY DEF Net
    <2>2. ASSUME d \in S, Accepted(PayEntry(d))
          PROVE  Plus(net[d], PayEntry(d)) \in [Chart -> Int]
        <3>1. PayEntry(d) \in [DOMAIN PayEntry(d) -> Int] /\ DOMAIN PayEntry(d) \subseteq Chart
            BY <1>1, <1>2, <2>2 DEF Accepted
        <3>2. DOMAIN Plus(net[d], PayEntry(d)) = Chart
            BY <2>1, <3>1, PlusAt
        <3>3. Plus(net[d], PayEntry(d)) \in [DOMAIN Plus(net[d], PayEntry(d)) -> Int]
            BY <2>1, <3>1, PlusType
        <3> QED
            BY <3>2, <3>3
    <2> QED
        BY <1>3, <2>1, <2>2
<1>5. net' \in Net
    BY <1>3, <1>4 DEF Net
<1>6. ASSUME NEW e \in Employees
      PROVE  \/ net'[e] = net[e]
             \/ Accepted(PayEntry(e)) /\ net'[e] = Plus(net[e], PayEntry(e))
    BY <1>1, <1>3
<1> QED
    BY <1>5, <1>6

\* A step of the payroll pays some employees, or posts nothing.
LEMMA PayrollPosts ==
    ASSUME PayrollNext
    PROVE  UNCHANGED net \/ \E S \in SUBSET DOMAIN staff : net' = PaidTo(S)
<1>1. PayAll => net' = PaidTo({e \in DOMAIN staff : staff[e] = "Active"})
    BY DEF PayAll
<1>2. {e \in DOMAIN staff : staff[e] = "Active"} \in SUBSET DOMAIN staff
    OBVIOUS
<1>3. ASSUME NEW e \in DOMAIN staff, PayOne(e)
      PROVE  net' = PaidTo({e}) /\ {e} \in SUBSET DOMAIN staff
    BY <1>3 DEF PayOne
<1> QED
    BY <1>1, <1>2, <1>3
       DEF PayrollNext, CreateEmployee, UpdateEmployee, DeleteEmployee, RecordTime

LEMMA PayrollTyped ==
    ASSUME net \in Net, PayrollType, PayrollNext
    PROVE  net' \in Net /\ PayrollType'
<1>1. net' \in Net
    BY PayrollPosts, PaidToIs
<1>2. ASSUME NEW e \in Employees, CreateEmployee(e)
      PROVE  PayrollType'
    BY <1>2 DEF CreateEmployee, Insert, PayrollType, EmploymentStatus
<1>3. ASSUME NEW e \in DOMAIN staff, NEW status \in EmploymentStatus,
             UpdateEmployee(e, status)
      PROVE  PayrollType'
    BY <1>3 DEF UpdateEmployee, PayrollType
<1>4. ASSUME NEW e \in DOMAIN staff, DeleteEmployee(e)
      PROVE  PayrollType'
    BY <1>4 DEF DeleteEmployee, PayrollType
<1>5. ASSUME NEW e \in DOMAIN staff, NEW shift \in Shifts, RecordTime(e, shift)
      PROVE  PayrollType'
    <2>1. shift \in [regular : Nat, overtime : Nat] /\ e \in Employees
        BY PayrollAssumption DEF PayrollType
    <2>2. worked \in [Employees -> [regular : Nat, overtime : Nat]]
        BY DEF PayrollType
    <2>3. worked' = [worked EXCEPT ![e] =
                        [regular  |-> worked[e].regular + shift.regular,
                         overtime |-> worked[e].overtime + shift.overtime]]
        BY <1>5 DEF RecordTime
    <2>5. worked[e] \in [regular : Nat, overtime : Nat]
        BY <2>1, <2>2
    <2>4. worked' \in [Employees -> [regular : Nat, overtime : Nat]]
        BY <2>1, <2>2, <2>3, <2>5
    <2> QED
        BY <1>5, <2>4 DEF RecordTime, PayrollType
<1>6. ASSUME NEW e \in DOMAIN staff, PayOne(e)
      PROVE  PayrollType'
    BY <1>6 DEF PayOne, PayrollType
<1>7. ASSUME PayAll
      PROVE  PayrollType'
    BY <1>7 DEF PayAll, PayrollType
<1> QED
    BY <1>1, <1>2, <1>3, <1>4, <1>5, <1>6, <1>7 DEF PayrollNext

-----------------------------------------------------------------------------
LEMMA TypesAtFirst == Init => TypeOK
<1> SUFFICES ASSUME Init
             PROVE  TypeOK
    OBVIOUS
<1>1. net \in [Documents -> [Chart -> Int]]
    BY DEF Init, Unposted
<1>2. PayablesType /\ ReceivablesType
    BY DEF Init, PayablesType, PayablesInit, ReceivablesType, ReceivablesInit
<1>3. RegisterType
    BY DEF Init, RegisterType, RegisterInit
<1>4. PayrollType
    BY DEF Init, PayrollType, PayrollInit
<1>5. made \in 0..MaxCalls
    BY SubLedgersAssumption DEF Init
<1> QED
    BY <1>1, <1>2, <1>3, <1>4, <1>5 DEF TypeOK

LEMMA TypesKept ==
    ASSUME TypeOK, [Next]_vars
    PROVE  TypeOK'
<1>1. /\ net \in Net /\ PayablesType /\ ReceivablesType /\ RegisterType /\ PayrollType
      /\ made \in 0..MaxCalls
    BY DEF TypeOK, Net
<1>2. /\ UNCHANGED bills => PayablesType'
      /\ UNCHANGED <<invoices, receipts>> => ReceivablesType'
      /\ UNCHANGED register => RegisterType'
      /\ UNCHANGED payroll => PayrollType'
    BY <1>1 DEF PayablesType, ReceivablesType, RegisterType, PayrollType, payroll
<1>3. ASSUME Next
      PROVE  made' \in 0..MaxCalls
    BY <1>1, <1>3, SubLedgersAssumption DEF Next
<1>4. CASE Next /\ PayablesNext /\ UNCHANGED <<invoices, receipts, register, payroll>>
    BY <1>1, <1>2, <1>3, <1>4, PayablesTyped DEF TypeOK, Net
<1>5. CASE Next /\ ReceivablesNext /\ UNCHANGED <<bills, register, payroll>>
    BY <1>1, <1>2, <1>3, <1>5, ReceivablesTyped DEF TypeOK, Net
<1>6. CASE Next /\ RegisterNext /\ UNCHANGED <<bills, invoices, receipts, payroll>>
    BY <1>1, <1>2, <1>3, <1>6, RegisterTyped DEF TypeOK, Net
<1>7. CASE Next /\ PayrollNext /\ UNCHANGED <<bills, invoices, receipts, register>>
    BY <1>1, <1>2, <1>3, <1>7, PayrollTyped DEF TypeOK, Net
<1>8. CASE UNCHANGED vars
    BY <1>1, <1>2, <1>8 DEF TypeOK, Net, vars
<1> QED
    BY <1>4, <1>5, <1>6, <1>7, <1>8 DEF Next

\* The maps of the processors hold documents of their own sort, in the states
\* the code gives them, and every account of the chart carries a number.
THEOREM TypesStay == Spec => []TypeOK
    BY TypesAtFirst, TypesKept, PTL DEF Spec

-----------------------------------------------------------------------------
(* Pay.                                                                    *)

\* Only the payroll posts for an employee.
LEMMA OnlyPayroll ==
    ASSUME DocumentsInv, [Next]_vars, NEW e \in Employees
    PROVE  net'[e] = net[e] \/ PayrollNext
<1>1. e \in Documents
    BY PayrollAssumption
<1>2. e \notin Bills \cup Invoices \cup Receipts \cup Assets
    BY Apart
<1>3. \A S : LeavesOthers(S) /\ e \notin S => net'[e] = net[e]
    BY <1>1 DEF LeavesOthers
<1>4. CASE PayablesNext
    BY <1>2, <1>3, <1>4, PayablesLeave
<1>5. CASE ReceivablesNext
    BY <1>2, <1>3, <1>5, ReceivablesLeave
<1>6. CASE RegisterNext
    BY <1>2, <1>3, <1>6, RegisterLeaves
<1>7. CASE UNCHANGED vars
    BY <1>7 DEF vars
<1> QED
    BY <1>4, <1>5, <1>6, <1>7 DEF Next

LEMMA PayKept ==
    ASSUME TypeOK, DocumentsInv, PayWithinGross, [Next]_vars
    PROVE  PayWithinGross'
<1> DEFINE Within(pay) == /\ -pay[Cash] <= pay[Salaries]
                          /\ \A a \in TaxAccounts : pay[a] <= 0
<1>1. net \in Net /\ PayrollType
    BY DEF TypeOK, Net
<1>2. \A e \in Employees : DOMAIN Withheld(e) = TaxAccounts
    BY DEF Withheld
<1>3. \A e \in Employees : (DOMAIN Withheld(e))' = TaxAccounts
    BY DEF Withheld
<1>4. ASSUME NEW e \in Employees
      PROVE  Within(net'[e])
    <2>1. Within(net[e])
        BY <1>2 DEF PayWithinGross
    <2>2. CASE net'[e] = net[e]
        BY <2>1, <2>2
    <2>3. CASE Accepted(PayEntry(e)) /\ net'[e] = Plus(net[e], PayEntry(e))
        <3>1. worked[e] \in [regular : Nat, overtime : Nat]
            BY <1>1 DEF PayrollType
        <3> DEFINE f == PayEntry(e)
                   old == net[e]
                   new == net'[e]
        <3>2. f[Salaries] + f[Cash] >= 0
            BY <2>3, <3>1, AcceptedPay
        <3>3. /\ DOMAIN f \subseteq TaxAccounts \cup {Salaries, Cash}
              /\ {Salaries, Cash} \subseteq DOMAIN f
              /\ f \in [DOMAIN f -> Int]
              /\ \A a \in DOMAIN f \ {Salaries, Cash} : f[a] <= 0
            BY <3>1, PayEntryIs
        <3>4. DOMAIN f \subseteq Chart /\ new = Plus(old, f)
            BY <2>3 DEF Accepted
        <3>5. old \in [Chart -> Int] /\ Within(old)
            BY <1>1, <2>1, PayrollAssumption DEF Net
        <3>6. TaxAccounts \subseteq Chart
            BY DEF TaxAccounts, Chart
        <3>7. Salaries \notin TaxAccounts /\ Cash \notin TaxAccounts
            BY TaxAccountsFinite
        <3> HIDE DEF f, old, new
        <3>8. \A a \in Chart : new[a] = old[a] + (IF a \in DOMAIN f THEN f[a] ELSE 0)
            BY <3>4, <3>5 DEF Plus
        <3>9. -new[Cash] <= new[Salaries]
            <4>1. new[Cash] = old[Cash] + f[Cash] /\ new[Salaries] = old[Salaries] + f[Salaries]
                BY <3>3, <3>4, <3>8
            <4>2. /\ old[Cash] \in Int /\ old[Salaries] \in Int
                  /\ f[Cash] \in Int /\ f[Salaries] \in Int
                BY <3>3, <3>4, <3>5
            <4> QED
                BY <3>2, <3>5, <4>1, <4>2
        <3>10. ASSUME NEW a \in TaxAccounts
               PROVE  new[a] <= 0
            <4>1. old[a] \in Int /\ old[a] <= 0 /\ new[a] = old[a] + (IF a \in DOMAIN f THEN f[a] ELSE 0)
                BY <3>5, <3>6, <3>8
            <4>2. a \in DOMAIN f => f[a] \in Int /\ f[a] <= 0
                BY <3>3, <3>7
            <4> QED
                BY <4>1, <4>2
        <3> QED
            BY <3>9, <3>10 DEF new
    <2> QED
        BY <1>1, <2>2, <2>3, OnlyPayroll, PayrollPosts, PaidToIs
<1> QED
    BY <1>3, <1>4 DEF PayWithinGross

\* However hours are recorded and pay periods processed, one by one or for all
\* and again and again, nobody is paid more than the gross pay, and nothing is
\* withheld the wrong way round (PayrollProcessor; allowances make a tax
\* negative, and then the ledger refuses the transaction).
THEOREM PayStaysWithinGross == Spec => []PayWithinGross
<1>1. Init => PayWithinGross
    <2> SUFFICES ASSUME Init, NEW e \in Employees
                 PROVE  /\ -net[e][Cash] <= net[e][Salaries]
                        /\ \A a \in DOMAIN Withheld(e) : net[e][a] <= 0
        BY DEF PayWithinGross
    <2>1. e \in Documents /\ DOMAIN Withheld(e) = TaxAccounts
        BY PayrollAssumption DEF Withheld
    <2>2. \A a \in Chart : net[e][a] = 0
        BY <2>1 DEF Init, Unposted
    <2>3. TaxAccounts \subseteq Chart /\ {Cash, Salaries} \subseteq Chart
        BY DEF TaxAccounts, Chart
    <2> QED
        BY <2>1, <2>2, <2>3
<1>2. TypeOK /\ DocumentsInv /\ PayWithinGross /\ [Next]_vars => PayWithinGross'
    BY PayKept
<1> QED
    BY TypesAtFirst, TypesKept, DocumentsAtFirst, DocumentsKept, <1>1, <1>2, PTL DEF Spec

-----------------------------------------------------------------------------
(* The limits of depreciation.                                             *)

Most(a) == Cost[a] - Salvage[a]
Limit(a) == IF a \in Declining \/ Most(a) <= 0 \/ Life[a] = 0 THEN Most(a)
            ELSE Most(a) + Quotient(Most(a), Life[a]) - 1

LEMMA QuotientIsNat ==
    ASSUME NEW n \in Nat, NEW d \in Nat, d # 0
    PROVE  Quotient(n, d) \in Nat
<1>1. 2 * d \in Nat /\ 2 * d > 0 /\ 2 * n + d \in Nat
    OBVIOUS
<1>2. ASSUME NEW p \in Nat, NEW q \in Nat, q > 0
      PROVE  p \div q \in Nat
    BY <1>2
<1> QED
    BY <1>1, <1>2 DEF Quotient

\* A month's depreciation takes an asset that is due no further than its limit.
LEMMA MonthLimited ==
    ASSUME NEW a \in Assets, NEW acc \in Nat, acc = register[a].accumulated,
           Salvage[a] <= Cost[a], acc < Most(a), Monthly(a) > 0
    PROVE  acc + Monthly(a) <= Limit(a)
<1>1. Cost[a] \in Nat /\ Salvage[a] \in Nat /\ Life[a] \in Nat
    BY RegisterAssumption
<1>2. Life[a] # 0
    BY DEF Monthly
<1>3. Most(a) \in Nat /\ Most(a) > 0
    BY <1>1 DEF Most
<1>4. BookValue(a) = Cost[a] - acc /\ BookValue(a) \in Int
    BY <1>1 DEF BookValue
<1>5. CASE a \notin Declining
    <2>1. Monthly(a) = Quotient(Most(a), Life[a]) /\ Quotient(Most(a), Life[a]) \in Nat
        BY <1>1, <1>2, <1>3, <1>5, QuotientIsNat DEF Monthly, Most
    <2> QED
        BY <1>2, <1>3, <1>5, <2>1 DEF Limit
<1>6. CASE a \in Declining
    <2> DEFINE declined == Quotient(2 * BookValue(a), Life[a])
    <2>1. declined \in Nat
        <3>1. 2 * BookValue(a) \in Nat
            BY <1>1, <1>4 DEF Most
        <3> QED
            BY <1>1, <1>2, <3>1, QuotientIsNat
    <2>2. Monthly(a) = IF BookValue(a) - declined < Salvage[a]
                       THEN BookValue(a) - Salvage[a] ELSE declined
        BY <1>2, <1>6 DEF Monthly
    <2> HIDE DEF declined
    <2>3. acc + Monthly(a) <= Most(a)
        BY <1>1, <1>4, <2>1, <2>2 DEF Most
    <2> QED
        BY <1>6, <2>3 DEF Limit
<1> QED
    BY <1>5, <1>6

LEMMA LimitKept ==
    ASSUME RegisterType, DepreciationLimited, RegisterNext
    PROVE  DepreciationLimited'
<1>1. /\ DOMAIN register \subseteq Assets
      /\ \A a \in DOMAIN register :
            register[a] \in [accumulated : Nat, disposed : Dates \cup {NotDisposed}]
    BY DEF RegisterType
<1>2. \A a \in DOMAIN register : Salvage[a] <= Cost[a] => register[a].accumulated <= Limit(a)
    BY DEF DepreciationLimited, Limit, Most
<1>3. SUFFICES ASSUME NEW a \in DOMAIN register', Salvage[a] <= Cost[a]
               PROVE  register'[a].accumulated <= Limit(a)
    BY DEF DepreciationLimited, Limit, Most
<1>4. ASSUME NEW c \in Assets, AddAsset(c)
      PROVE  register'[a].accumulated <= Limit(a)
    <2>1. CASE a = c
        <3>1. register'[a].accumulated = 0 /\ a \in Assets
            BY <1>4, <2>1 DEF AddAsset, Insert
        <3>2. Cost[a] \in Nat /\ Salvage[a] \in Nat /\ Life[a] \in Nat
            BY <3>1, RegisterAssumption
        <3>3. Most(a) \in Nat
            BY <1>3, <3>2 DEF Most
        <3>4. Life[a] # 0 => Quotient(Most(a), Life[a]) \in Nat
            BY <3>2, <3>3, QuotientIsNat
        <3> QED
            BY <3>1, <3>2, <3>3, <3>4 DEF Limit
    <2>2. CASE a # c
        <3>1. a \in DOMAIN register /\ register'[a] = register[a]
            BY <1>3, <1>4, <2>2 DEF AddAsset, Insert
        <3> QED
            BY <1>2, <1>3, <3>1
    <2> QED
        BY <2>1, <2>2
<1>5. ASSUME NEW date \in Dates, PostDepreciation(date)
      PROVE  register'[a].accumulated <= Limit(a)
    <2>1. a \in DOMAIN register
        BY <1>3, <1>5 DEF PostDepreciation
    <2>2. a \in Assets
          /\ register[a] \in [accumulated : Nat, disposed : Dates \cup {NotDisposed}]
        BY <1>1, <2>1
    <2>3. CASE a \in Due(date)
        <3>1. /\ ~(register[a].accumulated >= Most(a)) /\ Monthly(a) > 0
            BY <2>3 DEF Due, FullyDepreciated, Most
        <3>2. register[a].accumulated < Most(a)
            <4>1. Cost[a] \in Nat /\ Salvage[a] \in Nat
                BY <2>2, RegisterAssumption
            <4> QED
                BY <2>2, <3>1, <4>1 DEF Most
        <3>3. register[a].accumulated + Monthly(a) <= Limit(a)
            BY <1>3, <2>2, <3>1, <3>2, MonthLimited
        <3>4. register'[a] = [register[a] EXCEPT !.accumulated = @ + Monthly(a)]
            BY <1>5, <2>1, <2>3 DEF PostDepreciation
        <3> QED
            BY <2>2, <3>3, <3>4
    <2>4. CASE a \notin Due(date)
        <3>1. register'[a] = register[a]
            BY <1>5, <2>1, <2>4 DEF PostDepreciation
        <3> QED
            BY <1>2, <1>3, <2>1, <3>1
    <2> QED
        BY <2>3, <2>4
<1>6. ASSUME NEW c \in DOMAIN register, NEW price \in Prices, NEW date \in Dates,
             DisposeAsset(c, price, date)
      PROVE  register'[a].accumulated <= Limit(a)
    <2>1. register' = [register EXCEPT ![c].disposed = date]
        BY <1>6 DEF DisposeAsset
    <2>2. a \in DOMAIN register
        BY <1>3, <2>1
    <2>3. register[a] \in [accumulated : Nat, disposed : Dates \cup {NotDisposed}]
        BY <1>1, <2>2
    <2>4. register'[a].accumulated = register[a].accumulated
        BY <2>1, <2>2, <2>3
    <2> QED
        BY <1>2, <1>3, <2>2, <2>4
<1> QED
    BY <1>4, <1>5, <1>6 DEF RegisterNext

\* For dates in any order, also repeated, declining balance never goes below
\* the salvage value, and straight line by less than a month's depreciation
\* (FixedAsset::monthly_depreciation: only the former limits the last month).
THEOREM DepreciationStaysLimited == Spec => []DepreciationLimited
<1>1. Init => DepreciationLimited
    BY DEF Init, RegisterInit, DepreciationLimited
<1>2. TypeOK /\ DepreciationLimited /\ [Next]_vars => DepreciationLimited'
    <2>1. UNCHANGED register /\ DepreciationLimited => DepreciationLimited'
        BY DEF DepreciationLimited
    <2>2. RegisterNext /\ RegisterType /\ DepreciationLimited => DepreciationLimited'
        BY LimitKept
    <2> QED
        BY <2>1, <2>2 DEF Next, vars, TypeOK
<1> QED
    BY TypesAtFirst, TypesKept, <1>1, <1>2, PTL DEF Spec

=============================================================================
