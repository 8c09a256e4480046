----------------------------- MODULE MCServices -----------------------------
(***************************************************************************)
(* Two bank accounts with two statements, four transactions in the books;  *)
(* three jurisdictions and two filings; transactions of two days for the   *)
(* reports, a few of them in each mix; days of 1900, 1999, 2000 and 2024.  *)
(***************************************************************************)
EXTENDS Services, TLC

CONSTANTS bank, card, july, august, x1, x2, x3, g1, g2, p1, p2, h1, h2, d1, d2, d3, t1, t2

(* The words of descriptions, and references. *)
Line(cents, sign, words, reference, day) ==
  [cents |-> cents, sign |-> sign, words |-> words, reference |-> reference, day |-> day]
Entry(id, cents, words, day) ==
  [id |-> id, cents |-> cents, words |-> words, day |-> day,
   number |-> ToString(id), entryReferences |-> {}]

MCBook ==
  <<Entry(1, 100, {"rent"}, 5), Entry(2, 101, {"rent", "july"}, 6),
    [Entry(3, 100, {"fuel"}, 20) EXCEPT !.entryReferences = {"R7"}], Entry(4, 70, {}, 8)>>
MCStatementOf ==
  july :> [account |-> bank, day |-> 31, start |-> 500, end |-> 370,
           lines |-> <<Line(101, -1, {"rent"}, "", 5), Line(100, -1, {}, "R7", 19),
                       Line(71, 1, {}, "4", 7)>>] @@
  august :> [account |-> bank, day |-> 62, start |-> 0, end |-> 101,
             lines |-> <<Line(102, 1, {"rent", "july"}, "", 9), Line(70, -1, {"card"}, "", 9),
                         Line(69, 1, {}, "", 9)>>]

MCJurisdiction == {x1, x2, x3}
MCCode == {"US-FED", "US-CA", "US-NY"}
MCDefaults == x1 :> "US-FED" @@ x2 :> "US-CA"
Bracket(lower, upper, rate) == [lower |-> lower, upper |-> upper, rate |-> rate]
MCRateTable ==
  {[rates |-> ("Income" :> 210), brackets |-> << >>],
   [rates |-> ("Sales" :> 40),
    brackets |-> <<Bracket(0, 2, 10), Bracket(2, 4, 20), Bracket(4, -1, 60)>>]}

MCKindOf ==
  "1000" :> "Asset" @@ "1010" :> "Asset" @@ "1020" :> "Asset" @@ "1050" :> "Asset" @@
  "2000" :> "Liability" @@ "3000" :> "Equity" @@ "4000" :> "Revenue" @@ "5000" :> "Expense"
Debit(n) == [debit |-> n, credit |-> 0]
Credit(n) == [debit |-> 0, credit |-> n]
Both(from, to, n) == from :> Credit(n) @@ to :> Debit(n)

MCEntries ==
  "sale" :> Both("4000", "1000", 30) @@ "purchase" :> Both("1000", "5000", 20)
  @@ "refund" :> Both("5000", "1000", 5) @@ "capital" :> Both("3000", "1000", 50)
  @@ "bill" :> Both("2000", "5000", 8) @@ "pay bill" :> Both("1000", "2000", 8)
  @@ "depreciate" :> Both("1050", "5000", 7) @@ "to bank" :> Both("1000", "1010", 9)
  @@ "invoice" :> Both("4000", "1020", 40) @@ "late sale" :> Both("4000", "1000", 3)
  @@ "invoice 2" :> Both("4000", "1020", 15)
  @@ "part" :> Both("1020", "1000", 25) @@ "rest" :> Both("1020", "1000", 15)
  @@ "unmarked" :> Both("1020", "1000", 15) @@ "too much" :> Both("1020", "1000", 60)
MCTxns == DOMAIN MCEntries
MCTypeOf == [t \in MCTxns |->
  CASE t \in {"invoice", "invoice 2"} -> "Invoice"
    [] t \in {"part", "rest", "unmarked", "too much"} -> "Payment"
    [] OTHER -> "Other"]
MCDayOf == [t \in MCTxns |->
  IF t \in {"capital", "bill"} THEN 1 ELSE IF t = "late sale" THEN 99 ELSE 31]
MCNoDay == -1
MCDueOf == [t \in MCTxns |-> IF t = "invoice" THEN 60 ELSE -1]
MCInvoiceIn == [t \in MCTxns |-> IF t \in {"part", "rest", "too much"} THEN "invoice" ELSE "none"]
MCPeriods == {[from |-> 0, to |-> 62], [from |-> 20, to |-> 62], [from |-> 20, to |-> 91]}
MCBudget(a, from, to) == [account |-> a, from |-> from, to |-> to, amount |-> 10]
MCBudgets == {MCBudget("5000", 1, 30), MCBudget("5000", 31, 60), MCBudget("4000", 31, 60)}

MCContent == {<< >>, <<0>>, <<255, 77>>, <<0, 255, 77>>, <<77, 0, 0, 255>>}

MCLowerCase == "Acme" :> "acme" @@ "ACME" :> "acme" @@ "Bolt" :> "bolt"

MCMisleading ==
  {"rental income", "payroll liability", "accumulated depreciation", "sales tax", "bank fee"}
MCAccountText ==
  MCMisleading \cup {"cash", "office equipment", "notes payable", "xyz", "loan rent",
                    "cash loan service rent", "rent receivable dues"}
MCLlmAnswer == [category : {"Expense", "Asset"}, confidence : {400, 1000}]
MCAccountName == {"operating cash", "cash - operating", "cash", "rent", "rant", "owner"}
MCWordsOf ==
  [n \in MCAccountName |->
     CASE n = "operating cash" -> <<"operating", "cash">>
       [] n = "cash - operating" -> <<"cash", "operating">>
       [] OTHER -> <<n>>]
MCChart ==
  {<<"rent", "cash">>, <<"cash", "cash - operating", "owner">>, <<"rant", "operating cash">>}

MCVector == {<<3, 4>>, <<4, 3>>, <<-3, -4>>, <<0>>}

MCStartDays == {Date(1900, 2, 20), Date(1999, 11, 20), Date(2024, 1, 1)}
MCBirths == {Date(1999, 12, 31), Date(2000, 1, 1), Date(1980, 3, 1), Date(2000, 2, 29)}
MCShifts == {-13, -12, -1, 1, 2, 11, 25}

AMix(part) ==
  [part |-> part, risks |-> {}, kinds |-> {}, txns |-> {}, budgets |-> {}, actions |-> {}]
RiskMix(part, risks) == [AMix(part) EXCEPT !.risks = risks]
AuditMix(risks) ==
  [RiskMix("audit", risks) EXCEPT !.actions = {<<"Create", "">>, <<"Custom", "System audit check">>}]
ReportMix(kinds, txns, risks) ==
  [AMix("reports") EXCEPT !.kinds = kinds, !.txns = txns, !.risks = risks]

MCMixes ==
  {AMix("reconciling"), [AMix("reconciling") EXCEPT !.risks = {"edit"}],
   AMix("taxes"), [AMix("taxes") EXCEPT !.risks = {"unknown_id"}],
   [AMix("taxes") EXCEPT !.risks = {"stale_copy"}],
   ReportMix({"sheet", "income", "cash flow"},
             {"sale", "purchase", "refund", "capital", "bill"}, {}),
   ReportMix({"sheet", "income", "cash flow"},
             {"sale", "purchase", "bill", "pay bill"}, {}),
   ReportMix({"income", "cash flow"}, {"capital", "depreciate"}, {"depreciation"}),
   ReportMix({"income", "cash flow"}, {"capital", "to bank"}, {"unlisted"}),
   ReportMix({"income", "cash flow"}, {"sale", "late sale"}, {"later"}),
   ReportMix({"aging"}, {"invoice", "invoice 2", "part", "rest"}, {}),
   ReportMix({"aging"}, {"invoice 2", "unmarked"}, {"unmarked"}),
   ReportMix({"aging"}, {"invoice", "too much"}, {"overpaid"}),
   [ReportMix({"variance"}, {"sale", "purchase", "refund", "bill"}, {}) EXCEPT
      !.budgets = {MCBudget("5000", 1, 30), MCBudget("4000", 31, 60)}],
   [ReportMix({"variance"}, {"purchase"}, {"overlap"}) EXCEPT !.budgets = MCBudgets]}
  \cup {AuditMix(r) : r \in {{}, {"overlap"}, {"plain"}, {"database"}, {"database", "late"}}}
  \cup {[AuditMix({"database", "named"}) EXCEPT
            !.actions = {<<"Create", "">>, <<"Update", "">>, <<"Custom", "create">>}],
         [AuditMix({"database"}) EXCEPT
            !.actions = {<<"Delete", "">>, <<"Custom", "System audit check">>, <<"Custom", "sale">>}]}
  \cup {RiskMix("memory", r) : r \in {{}, {"full"}}}
  \cup {RiskMix("documents", r) : r \in {{}, {"database"}}}
  \cup {RiskMix("connection", r) : r \in {{}, {"twice"}, {"overlap"}}}
  \cup {RiskMix("fields", r) : r \in {{}, {"setup_again"}, {"legacy"}}}
  \cup {RiskMix("blobs", r) : r \in {{}, {"damage"}}}
  \cup {RiskMix("anomalies", r) : r \in {{}, {"backdated"}}}
  \cup {RiskMix("classifier", r) : r \in {{}, {"misleading"}, {"llm"}}}
  \cup {RiskMix("embeddings", r) :
          r \in {{}, {"no_database"}, {"again"}, {"failing"}, {"restart"}}}
  \cup {RiskMix("calendar", r) : r \in {{}, {"midnight"}}}

Symmetry ==
  Permutations({g1, g2}) \cup Permutations({p1, p2}) \cup Permutations({h1, h2})
  \cup Permutations({t1, t2})
=============================================================================
