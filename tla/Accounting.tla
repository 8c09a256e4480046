----------------------------- MODULE Accounting -----------------------------
(***************************************************************************)
(* The financial data model of database/financial.rs, as far as the ledger *)
(* depends on it: kinds of accounts, entries of transactions, and what a   *)
(* transaction does to a balance.                                          *)
(*                                                                         *)
(* The entries of a transaction are given as the totals it debits and      *)
(* credits each account it mentions; amounts are integers (the code counts *)
(* exact decimals).                                                        *)
(***************************************************************************)
EXTENDS Integers, FiniteSetsExt, Functions

CONSTANTS
    Accounts,    \* identities of accounts
    KindOf,      \* the AccountType of each account
    Txns,        \* identities of transactions
    Entries      \* per transaction, what it debits and credits each account

Kinds == {"Asset", "Liability", "Equity", "Revenue", "Expense"}

ASSUME AccountingAssumption ==
    /\ KindOf \in [Accounts -> Kinds]
    /\ DOMAIN Entries = Txns
    /\ \A t \in Txns :
        /\ DOMAIN Entries[t] \subseteq Accounts /\ IsFiniteSet(DOMAIN Entries[t])
        /\ Entries[t] \in [DOMAIN Entries[t] -> [debit : Int, credit : Int]]

\* AccountType::normal_balance.
DebitNormal(a) == KindOf[a] \in {"Asset", "Expense"}

\* The accounts that transaction t has entries for.
Mentioned(t) == DOMAIN Entries[t]

SumOver(S, f(_)) == SumFunction([x \in S |-> f(x)])

\* Transaction::is_balanced.
IsBalanced(t) ==
    SumOver(Mentioned(t), LAMBDA a : Entries[t][a].debit)
        = SumOver(Mentioned(t), LAMBDA a : Entries[t][a].credit)

\* Mutated form of Change: a debit increases every kind of account.
ChangeUnsigned(t, a) ==
    IF a \notin Mentioned(t) THEN 0
    ELSE Entries[t][a].debit - Entries[t][a].credit

\* Account::update_balance, for all entries of t on account a.
Change(t, a) ==
    IF a \notin Mentioned(t) THEN 0
    ELSE IF DebitNormal(a) THEN Entries[t][a].debit - Entries[t][a].credit
    ELSE Entries[t][a].credit - Entries[t][a].debit

\* A map with the value of key k set to v.
Insert(f, k, v) == [x \in DOMAIN f \cup {k} |-> IF x = k THEN v ELSE f[x]]

=============================================================================
