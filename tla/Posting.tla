------------------------------ MODULE Posting ------------------------------
(***************************************************************************)
(* How the processors of accounting/ use the shared ledger: each builds a  *)
(* transaction for one of its documents and hands it to record_transaction,*)
(* which takes it up wholly or refuses it (module Books; what happens in   *)
(* between is the subject of module Ledger).                               *)
(*                                                                         *)
(* The entries of a transaction are a function from account numbers to     *)
(* amounts, debits positive and credits negative.                          *)
(***************************************************************************)
EXTENDS Integers, Functions

CONSTANT Documents     \* the bills, invoices, ... that entries are made for

\* The accounts of initialize() that the processors post to ...
Cash == "1000"
Receivable == "1020"
FixedAssets == "1040"
Depreciated == "1050"
Payable == "2000"
Deposits == "2010"
Accrued == "2020"
Sales == "4000"
Interest == "4020"
Salaries == "5010"
Supplies == "5040"
DepreciationExpense == "5050"

\* ... and those that the payroll agent adds when it is initialized.
FederalTax == "2030"
StateTax == "2040"
SocialSecurity == "2050"
Medicare == "2060"
Retirement == "2070"

Chart == {Cash, Receivable, FixedAssets, Depreciated, Payable, Deposits,
          Accrued, Sales, Interest, Salaries, Supplies, DepreciationExpense,
          "5000", "5020", "5030"}
         \cup {FederalTax, StateTax, SocialSecurity, Medicare, Retirement}

VARIABLE net   \* document -> account -> what its entries add up to

Unposted == [d \in Documents |-> [a \in Chart |-> 0]]

\* validate_transaction: the entries balance, and their accounts exist.
Accepted(lines) == DOMAIN lines \subseteq Chart /\ SumFunction(lines) = 0

\* The sum of two sets of entries.
Plus(f, g) ==
    LET At(h, a) == IF a \in DOMAIN h THEN h[a] ELSE 0
    IN  [a \in DOMAIN f \cup DOMAIN g |-> At(f, a) + At(g, a)]

\* One entry.
Entry(a, x) == [b \in {a} |-> x]

\* The entries of a payment of amount x from one account to another.
Transfer(from, to, x) == Plus(Entry(to, x), Entry(from, -x))

\* The ledger takes up, or refuses, a transaction made for document d.
Record(d, lines) ==
    net' = IF Accepted(lines) THEN [net EXCEPT ![d] = Plus(@, lines)] ELSE net

\* A map with the value of key k set to v.
Insert(f, k, v) == [x \in DOMAIN f \cup {k} |-> IF x = k THEN v ELSE f[x]]

=============================================================================
