----------------------------- MODULE Statements -----------------------------
(***************************************************************************)
(* The reports: trial balance, balance sheet, income statement and aging   *)
(* (accounting/reporting.rs), cash flow (cashflow.rs) and budget variances *)
(* (budget.rs).  A report reads the ledger's accounts, then its            *)
(* transactions, each under a lock of its own, while agents post; the      *)
(* account balances are changed before the transaction is stored.          *)
(* Accounts are known by their numbers; the chart does not change.         *)
(***************************************************************************)
EXTENDS Accounting, Parts, Sequences, FiniteSets

CONSTANTS
  TypeOf,     \* the transaction_type of each transaction
  DayOf,      \* its date
  DueOf,      \* the due_date in its metadata, or NoDay
  InvoiceIn,  \* the invoice its metadata names, or NoInvoice
  NoDay, NoInvoice,
  Periods,    \* the periods of reports: from, to
  Budgets,    \* account, from, to, amount
  MaxReports  \* bound

ASSUME StatementsAssumption ==
  /\ TypeOf \in [Txns -> {"Invoice", "Payment", "Other"}]
  /\ DayOf \in [Txns -> Nat] /\ DueOf \in [Txns -> Nat \cup {NoDay}]
  /\ NoDay \notin Nat /\ NoInvoice \notin Txns
  /\ InvoiceIn \in [Txns -> Txns \cup {NoInvoice}]
  /\ Periods # {} /\ \A p \in Periods : p.from \in Nat /\ p.to \in Nat /\ p.from <= p.to
  /\ \A b \in Budgets :
       b.account \in Accounts /\ b.from \in Nat /\ b.to \in Nat /\ b.from <= b.to
  /\ MaxReports \in Nat

VARIABLES
  balance,  \* of each account
  stored,   \* the transactions in the ledger's map
  posting,  \* the transaction whose balances are changed, and that is not
            \* stored yet: at most one, by the counter's mutex
  budgets,  \* of the BudgetManager
  report,   \* the report under way, or the latest one; its fields control (the
            \* figure it should agree with) and calm (nothing was posted while
            \* it was made) are history
  reports

statementVars == <<balance, stored, posting, budgets, report, reports>>

ReportKinds == {"sheet", "income", "cash flow", "variance", "aging"}
AnyPeriod == CHOOSE p \in Periods : TRUE
NoReport ==
  [kind |-> "sheet", at |-> "none", period |-> AnyPeriod, accounts |-> [a \in Accounts |-> 0],
   seen |-> {}, cash |-> 0, control |-> 0, calm |-> TRUE]

TotalOf(f(_), S) == SumFunction([x \in S |-> f(x)])
ChangeIn(txns, a) == TotalOf(LAMBDA t : Change(t, a), txns)
OfKind(kind) == {a \in Accounts : KindOf[a] = kind}
Within(p) == {t \in stored : p.from <= DayOf[t] /\ DayOf[t] <= p.to}

-----------------------------------------------------------------------------
(* generate_trial_balance: a balance counts on its normal side, a negative  *)
(* one on the other side.                                                  *)
Positive(n) == IF n > 0 THEN n ELSE 0

(* Mutant: the absolute value on the normal side. *)
SideAbsolute(accounts, debit) ==
  TotalOf(LAMBDA a : IF DebitNormal(a) = debit THEN Positive(accounts[a]) + Positive(-accounts[a])
                     ELSE 0, Accounts)

Side(accounts, debit) ==
  TotalOf(LAMBDA a : Positive(IF DebitNormal(a) = debit THEN accounts[a] ELSE -accounts[a]),
          Accounts)

(* generate_balance_sheet: the net income is a line of the equity. *)
SheetTotal(accounts, kind) == TotalOf(LAMBDA a : accounts[a], OfKind(kind))
NetOfBalances(accounts) == SheetTotal(accounts, "Revenue") - SheetTotal(accounts, "Expense")
SheetBalanced(accounts) ==
  SheetTotal(accounts, "Asset") =
    SheetTotal(accounts, "Liability") + SheetTotal(accounts, "Equity") + NetOfBalances(accounts)

(* Mutant: refunds and reversals count like the rest. *)
IncomeLineUnsigned(txns, a) ==
  TotalOf(LAMBDA t : Positive(Change(t, a)) + Positive(-Change(t, a)), txns)

(* generate_income_statement: a line for each revenue and expense account. *)
IncomeLine(txns, a) == ChangeIn(txns, a)
NetIncome(txns) ==
  TotalOf(LAMBDA a : IncomeLine(txns, a), OfKind("Revenue"))
  - TotalOf(LAMBDA a : IncomeLine(txns, a), OfKind("Expense"))

-----------------------------------------------------------------------------
(* generate_cash_flow_statement.                                           *)

Moved(txns, number) == IF number \in Accounts THEN ChangeIn(txns, number) ELSE 0

(* Mutant: a payment to suppliers counts as cash received. *)
OperatingSwapped(txns) ==
  NetIncome(txns) - Moved(txns, "1020") - Moved(txns, "1030") - Moved(txns, "2000")
  + Moved(txns, "2020") + Moved(txns, "1050")

(* Accumulated depreciation is an Asset account: a credit counts negative. *)
Operating(txns) ==
  NetIncome(txns) - Moved(txns, "1020") - Moved(txns, "1030") + Moved(txns, "2000")
  + Moved(txns, "2020") + Moved(txns, "1050")

(* Purchases less sales; loans and the owner's money in less out. *)
Investing(txns) == -Moved(txns, "1040")
Financing(txns) == Moved(txns, "2010") + Moved(txns, "3000")

NetChange(txns) == Operating(txns) + Investing(txns) + Financing(txns)

(* Today's balance of 1000 is taken for the end of the period. *)
BeginningCash(r) == r.cash - NetChange(r.seen)

-----------------------------------------------------------------------------
(* generate_ar_aging: the payments whose metadata names the invoice.        *)
PaymentsOf(txns, i) == {t \in txns : TypeOf[t] = "Payment" /\ InvoiceIn[t] = i}
DebitsOf(t) == TotalOf(LAMBDA a : Entries[t][a].debit, Mentioned(t))
Remaining(txns, i) ==
  Positive(DebitsOf(i) - TotalOf(LAMBDA t : DebitsOf(t), PaymentsOf(txns, i)))

(* Days since the due date, else since the date; none before it. *)
Age(i, asOf) == Positive(asOf - (IF DueOf[i] = NoDay THEN DayOf[i] ELSE DueOf[i]))

AgeBuckets == {"0-30", "31-60", "61-90", "90+"}

(* Mutant: a day falls between two buckets. *)
BucketGap(days) ==
  IF days <= 30 THEN "0-30" ELSE IF days > 31 /\ days <= 60 THEN "31-60"
  ELSE IF days > 60 /\ days <= 90 THEN "61-90" ELSE IF days > 90 THEN "90+" ELSE "none"

Bucket(days) ==
  IF days <= 30 THEN "0-30" ELSE IF days <= 60 THEN "31-60"
  ELSE IF days <= 90 THEN "61-90" ELSE "90+"

InBucket(txns, asOf, b) ==
  TotalOf(LAMBDA i : Remaining(txns, i),
          {i \in txns : TypeOf[i] = "Invoice" /\ Bucket(Age(i, asOf)) = b})
Outstanding(txns, asOf) == TotalOf(LAMBDA b : InBucket(txns, asOf, b), AgeBuckets)

-----------------------------------------------------------------------------
(* generate_variance_report: each budget that overlaps the period gets the  *)
(* whole actual amount of its account.                                     *)

(* Mutant: budgets that lie within the period only. *)
OverlapsWithin(b, p) == p.from <= b.from /\ b.to <= p.to

Overlaps(b, p) == b.from <= p.to /\ p.from <= b.to
Actual(txns, a) == IncomeLine(txns, a)
TotalActual(r) ==
  TotalOf(LAMBDA b : Actual(r.seen, b.account), {b \in budgets : Overlaps(b, r.period)})

-----------------------------------------------------------------------------
(* The accounts that a cash flow statement lists, and their kinds in the    *)
(* chart of database/seed.rs.                                              *)
Listed(number) ==
  number \in {"1000", "1020", "1030", "1040", "1050", "2000", "2010", "2020", "3000"}
KindListed(number) ==
  IF number = "3000" THEN "Equity"
  ELSE IF number \in {"2000", "2010", "2020"} THEN "Liability" ELSE "Asset"

ASSUME ChartAssumption ==
  /\ IsFiniteSet(Accounts) /\ {"1000", "1020"} \subseteq Accounts
  /\ \A a \in Accounts : Listed(a) => KindOf[a] = KindListed(a)

(* What the transactions and budgets of a mix without a risk are like.      *)
Undepreciated(txns) == \A t \in txns : "1050" \notin Mentioned(t)
AllListed(txns) ==
  \A t \in txns : \A a \in Mentioned(t) : Listed(a) \/ KindOf[a] \in {"Revenue", "Expense"}
NoneLater(txns) == \A t \in txns, p \in Periods : DayOf[t] <= p.to
AllMarked(txns) ==
  \A t \in txns :
    CASE TypeOf[t] = "Invoice" -> Change(t, "1020") = DebitsOf(t)
      [] TypeOf[t] = "Payment" ->
           /\ Change(t, "1020") = -DebitsOf(t)
           /\ InvoiceIn[t] \in txns /\ TypeOf[InvoiceIn[t]] = "Invoice"
      [] OTHER -> Change(t, "1020") = 0
NoneOverpaid(txns) ==
  \A i \in txns : \A paid \in SUBSET PaymentsOf(txns, i) :
    (TypeOf[i] = "Invoice" /\ IsFiniteSet(paid)) => TotalOf(LAMBDA t : DebitsOf(t), paid) <= DebitsOf(i)
NoneOverlap(some) ==
  \A b, c \in some, p \in Periods :
    (b.account = c.account /\ Overlaps(b, p) /\ Overlaps(c, p)) => b = c

ASSUME ReportsAssumption ==
  \A m \in Mixes :
    /\ m.txns \subseteq Txns /\ m.budgets \subseteq Budgets
    /\ "depreciation" \in m.risks \/ Undepreciated(m.txns)
    /\ "unlisted" \in m.risks \/ AllListed(m.txns)
    /\ "later" \in m.risks \/ NoneLater(m.txns)
    /\ "unmarked" \in m.risks \/ AllMarked(m.txns)
    /\ "overpaid" \in m.risks \/ NoneOverpaid(m.txns)
    /\ "overlap" \in m.risks \/ NoneOverlap(m.budgets)

-----------------------------------------------------------------------------
(* record_transaction by an agent: the balances under one guard, then the   *)
(* map; the other agents wait for the counter's mutex.                     *)

(* Mutant: the balances follow in a step of their own. *)
PostedNot(t) == balance

Posted(t) == [a \in Accounts |-> balance[a] + Change(t, a)]

Disturbed(r) == [r EXCEPT !.calm = @ /\ r.at \in {"none", "done"}]

PostBalances(t) ==
  /\ Moves("reports")
  /\ t \in mix.txns \ stored
  /\ posting = {}
  /\ IsBalanced(t)
  /\ InvoiceIn[t] \in stored \cup {NoInvoice} \* it is numbered when it is recorded
  /\ balance' = Posted(t)
  /\ posting' = {t}
  /\ report' = Disturbed(report)
  /\ UNCHANGED <<mix, stored, budgets, reports>>

StoreTransaction ==
  /\ posting # {}
  /\ stored' = stored \cup posting
  /\ posting' = {}
  /\ report' = Disturbed(report)
  /\ UNCHANGED <<mix, balance, budgets, reports>>

(* add_budget. *)
AddBudget(b) ==
  /\ Moves("reports")
  /\ b \in mix.budgets \ budgets
  /\ report.at \in {"none", "done"}
  /\ budgets' = budgets \cup {b}
  /\ report' = NoReport
  /\ UNCHANGED <<mix, balance, stored, posting, reports>>

(* A handler or the reporting agent asks for a report: the accounts are     *)
(* read first, except for the aging.                                       *)
ReadAccounts(kind, p) ==
  /\ Moves("reports")
  /\ reports < MaxReports
  /\ report.at \in {"none", "done"}
  /\ kind \in mix.kinds
  /\ report' =
       [kind |-> kind, at |-> IF kind = "sheet" THEN "done" ELSE "accounts", period |-> p,
        accounts |-> IF kind = "aging" THEN NoReport.accounts ELSE balance,
        seen |-> {}, cash |-> 0, control |-> 0, calm |-> posting = {}]
  /\ reports' = reports + 1
  /\ UNCHANGED <<mix, balance, stored, posting, budgets>>

ReadTransactions ==
  /\ report.at = "accounts"
  /\ report' =
       [kind |-> report.kind, period |-> report.period, accounts |-> report.accounts,
        at |-> IF report.kind = "cash flow" THEN "transactions" ELSE "done",
        seen |-> IF report.kind = "aging" THEN stored ELSE Within(report.period),
        control |-> IF report.kind = "aging" THEN balance["1020"]
                    ELSE Moved({t \in stored : DayOf[t] < report.period.from}, "1000"),
        cash |-> report.cash, calm |-> report.calm]
  /\ UNCHANGED <<mix, balance, stored, posting, budgets, reports>>

(* get_account_by_number("1000"). *)
ReadCash ==
  /\ report.at = "transactions"
  /\ report' =
       [kind |-> report.kind, at |-> "done", period |-> report.period,
        accounts |-> report.accounts, seen |-> report.seen, cash |-> balance["1000"],
        control |-> report.control, calm |-> report.calm]
  /\ UNCHANGED <<mix, balance, stored, posting, budgets, reports>>

StatementsInit ==
  /\ balance = [a \in Accounts |-> 0]
  /\ stored = {} /\ posting = {} /\ budgets = {}
  /\ report = NoReport
  /\ reports = 0

StatementsNext ==
  \/ \E t \in Txns : PostBalances(t)
  \/ StoreTransaction
  \/ \E b \in Budgets : AddBudget(b)
  \/ \E kind \in ReportKinds, p \in Periods : ReadAccounts(kind, p)
  \/ ReadTransactions
  \/ ReadCash

StatementsTypeOK ==
  /\ balance \in [Accounts -> Int]
  /\ stored \subseteq Txns /\ posting \subseteq Txns \ stored /\ Cardinality(posting) <= 1
  /\ budgets \subseteq Budgets
  /\ report.kind \in ReportKinds /\ report.seen \subseteq stored

-----------------------------------------------------------------------------
Done(kind) == report.at = "done" /\ report.kind = kind

(* A trial balance and a balance sheet are balanced whenever they are made, *)
(* also between the two halves of a posting.                               *)
SheetsBalance ==
  Done("sheet") =>
    /\ Side(report.accounts, TRUE) = Side(report.accounts, FALSE)
    /\ SheetBalanced(report.accounts)

(* An income statement over all days has the net income of the balances     *)
(* read with it, refunds and reversals included, if nothing is posted       *)
(* meanwhile.                                                              *)
IncomeAgrees ==
  (Done("income") /\ report.calm /\ report.seen = stored) =>
    NetIncome(report.seen) = NetOfBalances(report.accounts)

(* The cash that a cash flow statement begins with is what the transactions *)
(* before its period left; unless depreciation is posted (counted twice),   *)
(* an account moves that the statement does not list (as 1010), something   *)
(* is posted meanwhile or is dated after the period.                       *)
CashExplained ==
  (/\ Done("cash flow")
   /\ Safe({"depreciation", "unlisted", "later"})
   /\ report.calm) =>
    BeginningCash(report) = report.control

(* What the aging lists as outstanding is the receivables account's balance *)
(* if every payment names its invoice in its metadata ("unmarked": those of *)
(* accounting/invoice.rs do not), no more is paid than is due and nothing   *)
(* else is posted to the account.                                          *)
AgingAgrees ==
  (Done("aging") /\ report.calm /\ Safe({"unmarked", "overpaid"})) =>
    \A asOf \in {p.to : p \in Periods} : Outstanding(report.seen, asOf) = report.control

(* The variances count what an account moved once, for any period within    *)
(* that of its budget; unless two budgets of the account overlap it.        *)
VarianceCountsOnce ==
  (Done("variance") /\ Safe({"overlap"})) =>
    TotalActual(report) =
      TotalOf(LAMBDA a : IncomeLine(report.seen, a),
              {b.account : b \in {b \in budgets :
                 \E day \in b.from..b.to : report.period.from <= day /\ day <= report.period.to}})
=============================================================================
