------------------------------- MODULE Ledger -------------------------------
(***************************************************************************)
(* The ledger of accounting/ledger.rs: a chart of accounts, transactions   *)
(* and journal entries in maps of their own, each behind its own lock,     *)
(* shared by the agents that post to it.                                   *)
(*                                                                         *)
(* A step is what a call does between two acquisitions of a lock.  The     *)
(* guards of the three maps are held for one step; the mutex of the        *)
(* transaction counter is held by record_transaction from the moment it    *)
(* draws a number until it returns.  Of the database only the account rows *)
(* are modelled: nothing reads the other tables back.                      *)
(***************************************************************************)
EXTENDS Accounting

CONSTANTS
    Active,      \* the accounts whose status is Active when they are created
    Numbers,     \* account numbers
    NumberOf,    \* the number each account is created with
    Chart,       \* the accounts initialize() creates
    Seeded,      \* the numbers of the rows database/seed.rs has inserted
    Recorders,   \* concurrent callers of record_transaction
    Creators,    \* concurrent callers of create_account
    None,        \* no transaction or account at hand
    Hazards,     \* the risky calls that are allowed
    MaxEdits     \* bound: how often the risky calls are made

HazardKinds ==
    {"update",     \* update_account, with a copy got before
     "delete",     \* delete_account
     "replay",     \* a transaction is recorded a second time
     "cancel",     \* the future of a call is dropped at an await
     "db_error"}   \* a database write fails

ASSUME LedgerAssumption ==
    /\ Active \subseteq Accounts /\ Chart \subseteq Accounts /\ IsFiniteSet(Chart)
    /\ NumberOf \in [Accounts -> Numbers] /\ Seeded \subseteq Numbers
    /\ \A a, b \in Chart : NumberOf[a] = NumberOf[b] => a = b
    /\ None \notin Accounts \cup Txns
    /\ Hazards \subseteq HazardKinds
    /\ MaxEdits \in Nat

VARIABLES
    accounts,      \* account id -> number, balance, status
    transactions,  \* transaction id -> number, journal entry (0: none yet)
    journal,       \* journal entry number -> the transaction it was made from
    nextTxn, nextJournal,   \* the two counters
    calls,         \* the calls of record_transaction
    making,        \* the calls of create_account
    draft,         \* the account copy of an update_account under way
    rows,          \* the account table of the database
    begun,         \* history: transactions handed to record_transaction
    created,       \* history: accounts handed to create_account
    edits

maps == <<accounts, transactions, journal>>
counters == <<nextTxn, nextJournal>>
vars == <<maps, counters, calls, making, draft, rows, begun, created, edits>>

\* A call holds the counter's mutex at these positions.
Posting == {"post", "store", "journal", "link", "persist"}

Call == [pc : {"idle", "validate"} \cup Posting, txn : Txns \cup {None},
         unchecked : SUBSET Accounts, number : Nat, entry : Nat]
Idle == [pc |-> "idle", txn |-> None, unchecked |-> {}, number |-> 0, entry |-> 0]

Making == [pc : {"idle", "insert", "persist"}, account : Accounts \cup {None}]
NotMaking == [pc |-> "idle", account |-> None]

\* Account::new with the number of a; a new account has no balance.
NewAccount(a) == [number |-> NumberOf[a], balance |-> 0, active |-> a \in Active]
Row(id, number, balance) == [id |-> id, number |-> number, balance |-> balance]

\* CREATE account: refused when a row has the number (a UNIQUE index).
Created(table, a) ==
    IF \E r \in table : r.number = NumberOf[a] THEN table
    ELSE table \cup {Row(a, NumberOf[a], 0)}

SeedRows == {Row(n, n, 0) : n \in Seeded}

\* After the database was seeded and initialize() has created the chart.
Init ==
    /\ accounts = [a \in Chart |-> NewAccount(a)]
    /\ transactions = [t \in {} |-> 0] /\ journal = [n \in {} |-> 0]
    /\ nextTxn = 1 /\ nextJournal = 1
    /\ calls = [c \in Recorders |-> Idle]
    /\ making = [k \in Creators |-> NotMaking]
    /\ draft = {}
    /\ rows = SeedRows \cup {Row(a, NumberOf[a], 0) :
                                a \in {b \in Chart : NumberOf[b] \notin Seeded}}
    /\ begun = {} /\ created = Chart
    /\ edits = 0

Edit == edits < MaxEdits /\ edits' = edits + 1

-----------------------------------------------------------------------------
(* record_transaction.                                                     *)

Step(c, from, next) == calls[c].pc = from /\ calls' = [calls EXCEPT ![c] = next]
Goto(c, pc) == [calls[c] EXCEPT !.pc = pc]

Others == UNCHANGED <<making, draft, created>>

\* Callers hand in a transaction once, or repeat it.
Offered(t) == \/ t \notin begun /\ UNCHANGED edits
              \/ t \in begun /\ "replay" \in Hazards /\ Edit

\* Mutated form of Begin: the transaction is not checked for balance.
BeginUnbalanced(c, t) ==
    /\ Offered(t)
    /\ Step(c, "idle", [Idle EXCEPT !.pc = "validate", !.txn = t,
                                    !.unchecked = Mentioned(t)])
    /\ begun' = begun \cup {t}
    /\ UNCHANGED <<maps, counters, rows>> /\ Others

\* validate_transaction refuses an unbalanced transaction at once.
Begin(c, t) ==
    /\ Offered(t)
    /\ Step(c, "idle", IF IsBalanced(t)
                       THEN [Idle EXCEPT !.pc = "validate", !.txn = t,
                                         !.unchecked = Mentioned(t)]
                       ELSE Idle)
    /\ begun' = begun \cup {t}
    /\ UNCHANGED <<maps, counters, rows>> /\ Others

\* It looks each account up under a guard of its own, and refuses the
\* transaction if one does not exist or is not active.
Validate(c, a) ==
    /\ a \in calls[c].unchecked
    /\ Step(c, "validate", IF a \in DOMAIN accounts /\ accounts[a].active
                           THEN [calls[c] EXCEPT !.unchecked = @ \ {a}]
                           ELSE Idle)
    /\ UNCHANGED <<maps, counters, rows, begun, edits>> /\ Others

\* Mutated form of CounterFree: the counter is not locked.
CounterUnlocked == TRUE

CounterFree == \A d \in Recorders : calls[d].pc \notin Posting

\* The transaction is numbered, and the counter stays locked.
DrawNumber(c) ==
    /\ calls[c].unchecked = {}
    /\ CounterFree
    /\ Step(c, "validate", [calls[c] EXCEPT !.pc = "post", !.number = nextTxn])
    /\ nextTxn' = nextTxn + 1
    /\ UNCHANGED <<maps, nextJournal, rows, begun, edits>> /\ Others

\* update_account_balances, under one guard; accounts that are missing by now
\* are skipped.
Post(c) ==
    /\ Step(c, "post", Goto(c, "store"))
    /\ accounts' = [a \in DOMAIN accounts |->
                      [accounts[a] EXCEPT !.balance = @ + Change(calls[c].txn, a)]]
    /\ UNCHANGED <<transactions, journal, counters, rows, begun, edits>> /\ Others

Store(c) ==
    /\ Step(c, "store", Goto(c, "journal"))
    /\ transactions' = Insert(transactions, calls[c].txn,
                              [number |-> calls[c].number, entry |-> 0])
    /\ UNCHANGED <<accounts, journal, counters, rows, begun, edits>> /\ Others

\* Mutated form of CreateJournal: it waits for the counter of transactions.
CreateJournalWaits(c) ==
    /\ CounterFree
    /\ Step(c, "journal", [calls[c] EXCEPT !.pc = "link", !.entry = nextJournal])
    /\ nextJournal' = nextJournal + 1
    /\ journal' = Insert(journal, nextJournal, calls[c].txn)
    /\ UNCHANGED <<accounts, transactions, nextTxn, rows, begun, edits>> /\ Others

\* Mutated form of CreateJournal: the number is read after its increment.
CreateJournalAhead(c) ==
    /\ Step(c, "journal", [calls[c] EXCEPT !.pc = "link", !.entry = nextJournal + 1])
    /\ nextJournal' = nextJournal + 1
    /\ journal' = Insert(journal, nextJournal + 1, calls[c].txn)
    /\ UNCHANGED <<accounts, transactions, nextTxn, rows, begun, edits>> /\ Others

\* create_journal_entry; the entries balance, so that post() succeeds.
CreateJournal(c) ==
    /\ Step(c, "journal", [calls[c] EXCEPT !.pc = "link", !.entry = nextJournal])
    /\ nextJournal' = nextJournal + 1
    /\ journal' = Insert(journal, nextJournal, calls[c].txn)
    /\ UNCHANGED <<accounts, transactions, nextTxn, rows, begun, edits>> /\ Others

\* Mutated form of Link: the stored transaction gets the number of the entry
\* that comes next.
LinkToNext(c) ==
    /\ Step(c, "link", Goto(c, "persist"))
    /\ transactions' = Insert(transactions, calls[c].txn,
                              [number |-> calls[c].number, entry |-> nextJournal])
    /\ UNCHANGED <<accounts, journal, counters, rows, begun, edits>> /\ Others

\* The transaction is stored again, with its journal entry.
Link(c) ==
    /\ Step(c, "link", Goto(c, "persist"))
    /\ transactions' = Insert(transactions, calls[c].txn,
                              [number |-> calls[c].number, entry |-> calls[c].entry])
    /\ UNCHANGED <<accounts, journal, counters, rows, begun, edits>> /\ Others

\* Mutated form of BalancesWritten: the amounts of the transaction are written.
BalancesWrittenAmounts(t, S) ==
    {IF r.id \notin S THEN r
     ELSE [r EXCEPT !.balance = Entries[t][r.id].debit + Entries[t][r.id].credit] :
        r \in rows}

\* The rows of S get the balances the accounts have now; UPDATE finds a row
\* by the account's id.  (An account deleted meanwhile leaves the amount of
\* one of its entries in its row.)
BalancesWritten(t, S) ==
    {IF r.id \notin S THEN r
     ELSE IF r.id \in DOMAIN accounts THEN [r EXCEPT !.balance = accounts[r.id].balance]
     ELSE [r EXCEPT !.balance = Entries[t][r.id].debit + Entries[t][r.id].credit] :
        r \in rows}

\* Writing to the database is best effort.  The call returns, and the
\* counter is unlocked.
Persist(c) ==
    /\ Step(c, "persist", Idle)
    /\ \E S \in SUBSET Mentioned(calls[c].txn) :
        /\ rows' = BalancesWritten(calls[c].txn, S)
        /\ IF S = Mentioned(calls[c].txn) THEN UNCHANGED edits
           ELSE "db_error" \in Hazards /\ Edit
    /\ UNCHANGED <<maps, counters, begun>> /\ Others

\* The future is dropped where it waits for a lock.  A journal number may
\* have been drawn by then.
Cancel(c) ==
    /\ "cancel" \in Hazards /\ Edit
    /\ calls[c].pc # "idle" /\ calls' = [calls EXCEPT ![c] = Idle]
    /\ nextJournal' \in IF calls[c].pc = "journal"
                        THEN {nextJournal, nextJournal + 1} ELSE {nextJournal}
    /\ UNCHANGED <<maps, nextTxn, rows, begun>> /\ Others

-----------------------------------------------------------------------------
(* The chart of accounts.                                                  *)

Unrecorded == UNCHANGED <<transactions, journal, counters, calls, begun>>

\* create_account finds the number unused (else it fails, and changes
\* nothing), and releases the map.
CheckNumber(k, a) ==
    /\ making[k].pc = "idle" /\ a \notin created
    /\ \A b \in DOMAIN accounts : accounts[b].number # NumberOf[a]
    /\ making' = [making EXCEPT ![k] = [pc |-> "insert", account |-> a]]
    /\ created' = created \cup {a}
    /\ UNCHANGED <<accounts, draft, rows, edits>> /\ Unrecorded

InsertAccount(k) ==
    /\ making[k].pc = "insert"
    /\ accounts' = Insert(accounts, making[k].account, NewAccount(making[k].account))
    /\ making' = [making EXCEPT ![k].pc = "persist"]
    /\ UNCHANGED <<draft, rows, created, edits>> /\ Unrecorded

PersistAccount(k) ==
    /\ making[k].pc = "persist"
    /\ \/ rows' = Created(rows, making[k].account) /\ UNCHANGED edits
       \/ "db_error" \in Hazards /\ Edit /\ UNCHANGED rows
    /\ making' = [making EXCEPT ![k] = NotMaking]
    /\ UNCHANGED <<accounts, draft, created>> /\ Unrecorded

\* A caller gets a copy of an account, changes its status ...
GetAccount(a) ==
    /\ "update" \in Hazards /\ draft = {} /\ Edit
    /\ a \in DOMAIN accounts
    /\ draft' = {[id |-> a, account |-> [accounts[a] EXCEPT !.active = ~@]]}
    /\ UNCHANGED <<accounts, making, rows, created>> /\ Unrecorded

\* ... and update_account puts the whole copy in place of the account, if it
\* still exists.
UpdateAccount ==
    /\ \E d \in draft :
          accounts' = IF d.id \in DOMAIN accounts
                      THEN [accounts EXCEPT ![d.id] = d.account] ELSE accounts
    /\ draft' = {}
    /\ UNCHANGED <<making, rows, created, edits>> /\ Unrecorded

DeleteAccount(a) ==
    /\ "delete" \in Hazards /\ Edit
    /\ a \in DOMAIN accounts
    /\ accounts' = [b \in DOMAIN accounts \ {a} |-> accounts[b]]
    /\ UNCHANGED <<making, draft, rows, created>> /\ Unrecorded

-----------------------------------------------------------------------------
Record(c) ==
    \/ \E a \in calls[c].unchecked : Validate(c, a)
    \/ DrawNumber(c) \/ Post(c) \/ Store(c) \/ CreateJournal(c) \/ Link(c)
    \/ Persist(c)

Manage ==
    \/ \E k \in Creators : \/ \E a \in Accounts : CheckNumber(k, a)
                           \/ InsertAccount(k) \/ PersistAccount(k)
    \/ \E a \in Accounts : GetAccount(a) \/ DeleteAccount(a)
    \/ UpdateAccount

Next ==
    \/ \E c \in Recorders : (\E t \in Txns : Begin(c, t)) \/ Record(c) \/ Cancel(c)
    \/ Manage

Spec == Init /\ [][Next]_vars

\* The runtime drives a call on, and the counter's mutex is first come first
\* served: whoever waits for it gets it.
Fairness == \A c \in Recorders : SF_vars(Record(c))

FairSpec == Spec /\ Fairness

-----------------------------------------------------------------------------
(* Properties.                                                             *)

TypeOK ==
    /\ DOMAIN accounts \subseteq created /\ created \subseteq Accounts
    /\ \A a \in DOMAIN accounts :
          accounts[a] \in [number : Numbers, balance : Int, active : BOOLEAN]
    /\ DOMAIN transactions \subseteq begun /\ begun \subseteq Txns
    /\ \A t \in DOMAIN transactions : transactions[t] \in [number : Nat, entry : Nat]
    /\ nextTxn \in Nat \ {0} /\ nextJournal \in Nat \ {0}
    /\ DOMAIN journal \subseteq 1..(nextJournal - 1)
    /\ \A n \in DOMAIN journal : journal[n] \in Txns
    /\ calls \in [Recorders -> Call]
    /\ making \in [Creators -> Making]
    /\ draft \subseteq [id : Accounts,
                       account : [number : Numbers, balance : Int, active : BOOLEAN]]
    /\ rows \subseteq [id : Accounts \cup Numbers, number : Numbers, balance : Int]
    /\ edits \in 0..MaxEdits

Balance(a) == accounts[a].balance
OfKind(kind) == {a \in DOMAIN accounts : KindOf[a] = kind}
TotalOf(kind) == SumOver(OfKind(kind), Balance)

\* Debit balances and credit balances are equal at every moment, whoever is
\* posting and whatever call is dropped half way (get_trial_balance; docs:
\* "total debits must equal total credits").
TrialBalance ==
    SumOver(DOMAIN accounts, LAMBDA a : IF DebitNormal(a) THEN Balance(a) ELSE 0)
        = SumOver(DOMAIN accounts, LAMBDA a : IF DebitNormal(a) THEN 0 ELSE Balance(a))

\* Transactions appear in the order of their numbers, without a gap: all the
\* numbers drawn are stored, once each, but for the one being posted.
NumbersInOrder ==
    /\ \A n \in 1..(nextTxn - 1) :
          \/ \E t \in DOMAIN transactions : transactions[t].number = n
          \/ n = nextTxn - 1 /\ ~CounterFree
    /\ \A s, t \in DOMAIN transactions :
          transactions[s].number = transactions[t].number => s = t

\* Transaction number n is journalled as entry number n, although the two
\* numbers are drawn from different counters at different moments.
JournalInStep ==
    \A t \in DOMAIN transactions :
        \/ transactions[t].entry = transactions[t].number
        \/ transactions[t].entry = 0 /\ \E c \in Recorders :
                                        calls[c].txn = t /\ calls[c].pc \in Posting

\* The ledger and its journal are one sequence, without gaps, as they appear.
NumbersInStep == NumbersInOrder /\ JournalInStep

\* Also where calls are repeated or dropped half way, a stored transaction
\* that names a journal entry names its own, and no number is used twice.
EntriesLinked ==
    /\ \A t \in DOMAIN transactions : LET n == transactions[t].entry IN
          n # 0 => n \in DOMAIN journal /\ journal[n] = t
    /\ \A s, t \in DOMAIN transactions :
          transactions[s].number = transactions[t].number => s = t

\* Whoever reads balances, statuses and numbers sees the books that Books
\* describes: a call takes effect at the moment its balances are updated.
StoredAs(t) == {c \in Recorders : calls[c].pc = "store" /\ calls[c].txn = t}
Numbered == DOMAIN transactions \cup
                {calls[c].txn : c \in {d \in Recorders : calls[d].pc = "store"}}
Promise == INSTANCE Books WITH
    books  <- [a \in DOMAIN accounts |-> [balance |-> accounts[a].balance,
                                         active  |-> accounts[a].active]],
    posted <- [t \in Numbered |-> IF StoredAs(t) = {} THEN transactions[t].number
                                  ELSE calls[CHOOSE c \in StoredAs(t) : TRUE].number],
    next   <- IF \E c \in Recorders : calls[c].pc = "post" THEN nextTxn - 1
                                                          ELSE nextTxn
BooksKept == Promise!Spec

\* A call of record_transaction returns: the counters and maps it locks one
\* after the other never wait for each other in a circle.
RecordEnds == \A c \in Recorders : calls[c].pc # "idle" ~> calls[c].pc = "idle"

\* Mutated form of Amounts: only credits are counted.
AmountsCredited(kind) ==
    SumOver(DOMAIN transactions, LAMBDA t :
        SumOver({a \in Mentioned(t) \cap DOMAIN accounts : KindOf[a] = kind},
                LAMBDA a : Entries[t][a].credit))

\* get_income_statement adds up the amounts of stored entries, on whichever
\* side they are.
Amounts(kind) ==
    SumOver(DOMAIN transactions, LAMBDA t :
        SumOver({a \in Mentioned(t) \cap DOMAIN accounts : KindOf[a] = kind},
                LAMBDA a : Entries[t][a].debit + Entries[t][a].credit))
NetIncome == Amounts("Revenue") - Amounts("Expense")

\* No entry reduces a revenue or an expense.
UsualSides(t) == \A a \in Mentioned(t) :
    /\ KindOf[a] = "Revenue" => Entries[t][a].debit = 0
    /\ KindOf[a] = "Expense" => Entries[t][a].credit = 0

\* Whenever nothing is being posted, the balance sheet, made of the accounts'
\* balances, and the income statement, made of the stored transactions, agree:
\* what assets exceed liabilities and equity by is the net income.  A refund
\* breaks this, as get_income_statement counts it as revenue.
StatementsAgree ==
    CounterFree /\ (\A t \in DOMAIN transactions : UsualSides(t))
        => TotalOf("Asset") - TotalOf("Liability") - TotalOf("Equity") = NetIncome

\* Between postings, the rows of the accounts that initialize() creates have
\* the balances in memory, in whatever order postings and creations have
\* overlapped.  (The row that create_account writes may come after the first
\* posting on the account, and hold no balance; one that database/seed.rs wrote
\* has another id, and is never updated.)
RowsFollow ==
    CounterFree => \A r \in rows :
        r.id \in Chart => r.balance = accounts[r.id].balance

=============================================================================
