---------------------------- MODULE LedgerProofs ----------------------------
(***************************************************************************)
(* Theorems about Ledger, for any accounts, transactions and callers: its  *)
(* types, numbers and links, the trial balance, the statements and the     *)
(* rows of the database, and that Ledger implements Books.  Each says      *)
(* which of the risky calls it admits.                                     *)
(***************************************************************************)
EXTENDS Ledger, Facts

-----------------------------------------------------------------------------
(* Types.                                                                  *)

\* A call that is under way has a transaction that was handed in.
Handed ==
    /\ \A c \in Recorders : calls[c].pc # "idle" => calls[c].txn \in begun
    /\ \A k \in Creators : making[k].pc # "idle" => making[k].account \in created

TypeInv == TypeOK /\ Handed

AccountRecord == [number : Numbers, balance : Int, active : BOOLEAN]

LEMMA ChangeType ==
    ASSUME NEW t \in Txns, NEW a \in Accounts PROVE Change(t, a) \in Int
BY AccountingAssumption DEF Change, Mentioned

LEMMA IdleType ==
    Idle \in Call /\ Idle.pc = "idle" /\ NotMaking \in Making /\ NotMaking.pc = "idle"
BY DEF Idle, Call, NotMaking, Making, Posting

\* A call moves within its type, and the other calls stay where they are.
LEMMA StepType ==
    ASSUME TypeInv, NEW c \in Recorders, NEW from, NEW next \in Call,
           Step(c, from, next)
    PROVE  /\ calls' \in [Recorders -> Call]
           /\ calls'[c] = next
           /\ \A d \in Recorders \ {c} : calls'[d] = calls[d]
BY DEF TypeInv, TypeOK, Step

LEMMA CallFields ==
    ASSUME TypeInv, NEW c \in Recorders
    PROVE  /\ calls[c] \in Call
           /\ calls[c].unchecked \subseteq Accounts
           /\ calls[c].number \in Nat /\ calls[c].entry \in Nat
           /\ \A pc \in Posting : Goto(c, pc) \in Call
           /\ \A pc \in Posting : Goto(c, pc).pc = pc /\ Goto(c, pc).txn = calls[c].txn
                                  /\ Goto(c, pc).number = calls[c].number
                                  /\ Goto(c, pc).entry = calls[c].entry
<1>1. calls[c] \in Call BY DEF TypeInv, TypeOK
<1>2. ASSUME NEW pc \in Posting
      PROVE  /\ Goto(c, pc) \in Call
             /\ Goto(c, pc).pc = pc /\ Goto(c, pc).txn = calls[c].txn
             /\ Goto(c, pc).number = calls[c].number /\ Goto(c, pc).entry = calls[c].entry
  BY <1>1 DEF Goto, Call
<1> QED BY <1>1, <1>2 DEF Call

\* The transaction of a call that is under way.
LEMMA CallTxn ==
    ASSUME TypeInv, NEW c \in Recorders, calls[c].pc # "idle"
    PROVE  /\ calls[c].txn \in begun /\ calls[c].txn \in Txns
           /\ Mentioned(calls[c].txn) \subseteq Accounts
BY AccountingAssumption DEF TypeInv, TypeOK, Handed, Mentioned

LEMMA InsertFacts ==
    ASSUME NEW f, NEW k, NEW v
    PROVE  /\ DOMAIN Insert(f, k, v) = DOMAIN f \cup {k}
           /\ Insert(f, k, v)[k] = v
           /\ \A x \in DOMAIN f \ {k} : Insert(f, k, v)[x] = f[x]
BY DEF Insert

LEMMA InsertType ==
    ASSUME NEW f, NEW D, NEW T, NEW k \in D, NEW v \in T,
           DOMAIN f \subseteq D, \A x \in DOMAIN f : f[x] \in T
    PROVE  /\ DOMAIN Insert(f, k, v) \subseteq D
           /\ \A x \in DOMAIN Insert(f, k, v) : Insert(f, k, v)[x] \in T
BY DEF Insert

LEMMA BeginType ==
    ASSUME TypeInv, NEW c \in Recorders, NEW t \in Txns, Begin(c, t)
    PROVE  TypeInv'
<1> DEFINE next == [Idle EXCEPT !.pc = "validate", !.txn = t, !.unchecked = Mentioned(t)]
<1>1. next \in Call /\ next.txn = t
  BY IdleType, AccountingAssumption DEF Idle, Call, Mentioned
<1>2. calls' \in [Recorders -> Call]
      /\ (calls'[c] = next \/ calls'[c] = Idle)
      /\ \A d \in Recorders \ {c} : calls'[d] = calls[d]
  BY <1>1, IdleType, StepType DEF Begin
<1>3. edits' \in 0..MaxEdits
  BY LedgerAssumption DEF Begin, Offered, Edit, TypeInv, TypeOK
<1>4. TypeOK'
  BY <1>2, <1>3 DEF Begin, TypeInv, TypeOK, Others, maps, counters
<1>5. Handed'
  <2>1. begun' = begun \cup {t} /\ making' = making /\ created' = created
    BY DEF Begin, Others
  <2>2. \A d \in Recorders : calls'[d].pc # "idle" => calls'[d].txn \in begun'
    BY <1>1, <1>2, <2>1, IdleType DEF TypeInv, Handed
  <2> QED BY <2>1, <2>2 DEF TypeInv, Handed
<1> QED BY <1>4, <1>5 DEF TypeInv

\* What the steps of a call of record_transaction have in common.
LEMMA RecordType ==
    ASSUME TypeInv, NEW c \in Recorders, NEW from, NEW next \in Call,
           Step(c, from, next), from # "idle",
           next.pc = "idle" \/ next.txn = calls[c].txn,
           begun' = begun, Others
    PROVE  /\ calls' \in [Recorders -> Call] /\ Handed'
           /\ making' \in [Creators -> Making] /\ created' = created /\ draft' = draft
<1>1. calls[c].pc = from /\ calls'[c] = next
      /\ \A d \in Recorders \ {c} : calls'[d] = calls[d]
  BY StepType DEF Step
<1>2. making' = making /\ created' = created /\ draft' = draft
  BY DEF Others
<1>3. \A d \in Recorders : calls'[d].pc # "idle" => calls'[d].txn \in begun'
  BY <1>1, CallTxn DEF TypeInv, Handed
<1> QED BY <1>2, <1>3, StepType DEF TypeInv, TypeOK, Handed

LEMMA ValidateType ==
    ASSUME TypeInv, NEW c \in Recorders, NEW a, Validate(c, a)
    PROVE  TypeInv'
<1> DEFINE next == [calls[c] EXCEPT !.unchecked = @ \ {a}]
<1>1. next \in Call /\ next.txn = calls[c].txn
  BY CallFields DEF Call
<1>2. /\ calls' \in [Recorders -> Call] /\ Handed'
      /\ making' \in [Creators -> Making] /\ created' = created /\ draft' = draft
  <2>1. CASE Step(c, "validate", next)
    BY <1>1, <2>1, RecordType DEF Validate
  <2>2. CASE Step(c, "validate", Idle)
    BY <2>2, IdleType, RecordType DEF Validate
  <2> QED BY <2>1, <2>2 DEF Validate
<1> QED BY <1>2 DEF Validate, TypeInv, TypeOK, maps, counters

LEMMA DrawNumberType ==
    ASSUME TypeInv, NEW c \in Recorders, DrawNumber(c) PROVE TypeInv'
<1> DEFINE next == [calls[c] EXCEPT !.pc = "post", !.number = nextTxn]
<1>1. nextTxn \in Nat \ {0} BY DEF TypeInv, TypeOK
<1>2. next \in Call /\ next.txn = calls[c].txn
  <2>1. nextTxn \in Nat /\ "post" \in Posting BY <1>1 DEF Posting
  <2>2. calls[c] \in Call BY CallFields
  <2> QED BY <2>1, <2>2 DEF Call
<1>3. /\ calls' \in [Recorders -> Call] /\ Handed'
      /\ making' \in [Creators -> Making] /\ created' = created /\ draft' = draft
  BY <1>2, RecordType DEF DrawNumber
<1> QED BY <1>1, <1>3 DEF DrawNumber, TypeInv, TypeOK, maps

LEMMA PostType ==
    ASSUME TypeInv, NEW c \in Recorders, Post(c) PROVE TypeInv'
<1>1. /\ calls' \in [Recorders -> Call] /\ Handed'
      /\ making' \in [Creators -> Making] /\ created' = created /\ draft' = draft
  BY CallFields, RecordType DEF Post, Posting
<1>2. calls[c].txn \in Txns BY CallTxn DEF Post, Step
<1>3. ASSUME NEW a \in DOMAIN accounts
      PROVE  [accounts[a] EXCEPT !.balance = @ + Change(calls[c].txn, a)]
                \in AccountRecord
  <2>1. accounts[a] \in AccountRecord /\ a \in Accounts
    BY <1>3 DEF TypeInv, TypeOK, AccountRecord
  <2>2. Change(calls[c].txn, a) \in Int BY <1>2, <2>1, ChangeType
  <2> QED BY <2>1, <2>2 DEF AccountRecord
<1>4. /\ DOMAIN accounts' = DOMAIN accounts
      /\ \A a \in DOMAIN accounts' : accounts'[a] \in AccountRecord
  BY <1>3 DEF Post
<1> QED BY <1>1, <1>4 DEF Post, TypeInv, TypeOK, counters, AccountRecord

LEMMA StoreType ==
    ASSUME TypeInv, NEW c \in Recorders, Store(c) PROVE TypeInv'
<1>1. /\ calls' \in [Recorders -> Call] /\ Handed'
      /\ making' \in [Creators -> Making] /\ created' = created /\ draft' = draft
  BY CallFields, RecordType DEF Store, Posting
<1>2. calls[c].txn \in begun /\ calls[c].number \in Nat
  BY CallTxn, CallFields DEF Store, Step
<1>3. /\ DOMAIN transactions' \subseteq begun
      /\ \A t \in DOMAIN transactions' : transactions'[t] \in [number : Nat, entry : Nat]
  <2> DEFINE v == [number |-> calls[c].number, entry |-> 0]
             T == [number : Nat, entry : Nat]
  <2>1. v \in T BY <1>2
  <2>2. DOMAIN transactions \subseteq begun
        /\ \A t \in DOMAIN transactions : transactions[t] \in T
    BY DEF TypeInv, TypeOK
  <2>3. transactions' = Insert(transactions, calls[c].txn, v) /\ begun' = begun
    BY DEF Store
  <2> HIDE DEF v, T
  <2>4. /\ DOMAIN transactions' \subseteq begun
        /\ \A t \in DOMAIN transactions' : transactions'[t] \in T
    BY <1>2, <2>1, <2>2, <2>3, InsertType
  <2> QED BY <2>4 DEF T
<1> QED BY <1>1, <1>3 DEF Store, TypeInv, TypeOK, counters

LEMMA CreateJournalType ==
    ASSUME TypeInv, NEW c \in Recorders, CreateJournal(c) PROVE TypeInv'
<1> DEFINE next == [calls[c] EXCEPT !.pc = "link", !.entry = nextJournal]
<1>1. nextJournal \in Nat \ {0} BY DEF TypeInv, TypeOK
<1>2. next \in Call /\ next.txn = calls[c].txn
  <2>1. nextJournal \in Nat /\ "link" \in Posting BY <1>1 DEF Posting
  <2>2. calls[c] \in Call BY CallFields
  <2> QED BY <2>1, <2>2 DEF Call
<1>3. /\ calls' \in [Recorders -> Call] /\ Handed'
      /\ making' \in [Creators -> Making] /\ created' = created /\ draft' = draft
  BY <1>2, RecordType DEF CreateJournal
<1>4. calls[c].txn \in Txns BY CallTxn DEF CreateJournal, Step
<1>5. /\ DOMAIN journal' \subseteq 1..(nextJournal' - 1)
      /\ \A n \in DOMAIN journal' : journal'[n] \in Txns
  <2>1. DOMAIN journal' = DOMAIN journal \cup {nextJournal} /\ nextJournal' = nextJournal + 1
    BY InsertFacts DEF CreateJournal
  <2>2. DOMAIN journal \subseteq 1..(nextJournal - 1) /\ \A n \in DOMAIN journal : journal[n] \in Txns
    BY DEF TypeInv, TypeOK
  <2>3. DOMAIN journal' \subseteq 1..(nextJournal' - 1) BY <1>1, <2>1, <2>2
  <2>4. \A n \in DOMAIN journal' : journal'[n] \in Txns
    BY <1>4, <2>1, <2>2 DEF CreateJournal, Insert
  <2> QED BY <2>3, <2>4
<1> QED BY <1>1, <1>3, <1>5 DEF CreateJournal, TypeInv, TypeOK

LEMMA LinkType ==
    ASSUME TypeInv, NEW c \in Recorders, Link(c) PROVE TypeInv'
<1>1. /\ calls' \in [Recorders -> Call] /\ Handed'
      /\ making' \in [Creators -> Making] /\ created' = created /\ draft' = draft
  BY CallFields, RecordType DEF Link, Posting
<1>2. calls[c].txn \in begun /\ calls[c].number \in Nat /\ calls[c].entry \in Nat
  BY CallTxn, CallFields DEF Link, Step
<1>3. /\ DOMAIN transactions' \subseteq begun
      /\ \A t \in DOMAIN transactions' : transactions'[t] \in [number : Nat, entry : Nat]
  <2> DEFINE v == [number |-> calls[c].number, entry |-> calls[c].entry]
             T == [number : Nat, entry : Nat]
  <2>1. v \in T BY <1>2
  <2>2. DOMAIN transactions \subseteq begun
        /\ \A t \in DOMAIN transactions : transactions[t] \in T
    BY DEF TypeInv, TypeOK
  <2>3. transactions' = Insert(transactions, calls[c].txn, v) /\ begun' = begun
    BY DEF Link
  <2> HIDE DEF v, T
  <2>4. /\ DOMAIN transactions' \subseteq begun
        /\ \A t \in DOMAIN transactions' : transactions'[t] \in T
    BY <1>2, <2>1, <2>2, <2>3, InsertType
  <2> QED BY <2>4 DEF T
<1> QED BY <1>1, <1>3 DEF Link, TypeInv, TypeOK, counters

RowRecord == [id : Accounts \cup Numbers, number : Numbers, balance : Int]

LEMMA PersistType ==
    ASSUME TypeInv, NEW c \in Recorders, Persist(c) PROVE TypeInv'
<1>1. /\ calls' \in [Recorders -> Call] /\ Handed'
      /\ making' \in [Creators -> Making] /\ created' = created /\ draft' = draft
  BY IdleType, RecordType DEF Persist
<1>2. calls[c].txn \in Txns BY CallTxn DEF Persist, Step
<1>3. ASSUME NEW S \in SUBSET Mentioned(calls[c].txn)
      PROVE  BalancesWritten(calls[c].txn, S) \subseteq RowRecord
  <2>1. ASSUME NEW r \in rows, r.id \in S
        PROVE  Entries[calls[c].txn][r.id].debit + Entries[calls[c].txn][r.id].credit \in Int
    BY <1>2, <2>1, AccountingAssumption DEF Mentioned
  <2>2. \A r \in rows : r \in RowRecord
    BY DEF TypeInv, TypeOK, RowRecord
  <2>3. \A a \in DOMAIN accounts : accounts[a].balance \in Int
    BY DEF TypeInv, TypeOK
  <2> QED BY <2>1, <2>2, <2>3 DEF BalancesWritten, RowRecord
<1>4. rows' \subseteq RowRecord BY <1>3 DEF Persist
<1>5. edits' \in 0..MaxEdits
  BY LedgerAssumption DEF Persist, Edit, TypeInv, TypeOK
<1> QED BY <1>1, <1>4, <1>5 DEF Persist, TypeInv, TypeOK, maps, counters, RowRecord

LEMMA CancelType ==
    ASSUME TypeInv, NEW c \in Recorders, Cancel(c) PROVE TypeInv'
<1>1. /\ calls' \in [Recorders -> Call] /\ Handed'
      /\ making' \in [Creators -> Making] /\ created' = created /\ draft' = draft
  <2>1. Step(c, calls[c].pc, Idle) /\ calls[c].pc # "idle" BY DEF Cancel, Step
  <2> QED BY <2>1, IdleType, RecordType DEF Cancel
<1>2. nextJournal' \in {nextJournal, nextJournal + 1} /\ edits' \in 0..MaxEdits
  BY LedgerAssumption DEF Cancel, Edit, TypeInv, TypeOK
<1>3. DOMAIN journal \subseteq 1..(nextJournal' - 1) /\ nextJournal' \in Nat \ {0}
  BY <1>2 DEF TypeInv, TypeOK
<1> QED BY <1>1, <1>2, <1>3 DEF Cancel, TypeInv, TypeOK, maps

LEMMA NewAccountType ==
    ASSUME NEW a \in Accounts PROVE NewAccount(a) \in AccountRecord
BY LedgerAssumption DEF NewAccount, AccountRecord

LEMMA AccountsType ==
    ASSUME TypeInv
    PROVE  /\ DOMAIN accounts \subseteq created /\ created \subseteq Accounts
           /\ \A a \in DOMAIN accounts : accounts[a] \in AccountRecord
           /\ \A d \in draft : d.id \in Accounts /\ d.account \in AccountRecord
           /\ rows \subseteq RowRecord /\ edits \in 0..MaxEdits
BY DEF TypeInv, TypeOK, AccountRecord, RowRecord

\* Nothing but the chart, its callers and its rows is touched: what has to
\* be shown of a step that manages the chart.
LEMMA ManageType ==
    ASSUME TypeInv, Unrecorded,
           DOMAIN accounts' \subseteq created',
           created \subseteq created', created' \subseteq Accounts,
           \A a \in DOMAIN accounts' : accounts'[a] \in AccountRecord,
           making' \in [Creators -> Making],
           \A k \in Creators : making'[k].pc # "idle" => making'[k].account \in created',
           draft' \subseteq [id : Accounts, account : AccountRecord],
           rows' \subseteq RowRecord, edits' \in 0..MaxEdits
    PROVE  TypeInv'
<1>1. TypeOK'
  BY DEF TypeInv, TypeOK, Unrecorded, counters, AccountRecord, RowRecord
<1>2. Handed'
  BY DEF TypeInv, Handed, Unrecorded
<1> QED BY <1>1, <1>2 DEF TypeInv

LEMMA ManageTypes == ASSUME TypeInv, Manage PROVE TypeInv'
<1>0. /\ draft \subseteq [id : Accounts, account : AccountRecord]
      /\ making \in [Creators -> Making]
      /\ \A k \in Creators : making[k].pc # "idle" => making[k].account \in created
  BY DEF TypeInv, TypeOK, Handed, AccountRecord
<1>1. ASSUME NEW k \in Creators, NEW a \in Accounts, CheckNumber(k, a)
      PROVE  TypeInv'
  <2>1. [pc |-> "insert", account |-> a] \in Making BY DEF Making
  <2>2. making' \in [Creators -> Making] BY <1>0, <1>1, <2>1 DEF CheckNumber
  <2>3. \A j \in Creators : making'[j].pc # "idle" => making'[j].account \in created'
    BY <1>0, <1>1 DEF CheckNumber
  <2> QED BY <1>0, <1>1, <2>2, <2>3, AccountsType, ManageType DEF CheckNumber
<1>2. ASSUME NEW k \in Creators, InsertAccount(k) PROVE TypeInv'
  <2> DEFINE a == making[k].account
  <2>1. a \in created /\ a \in Accounts
    BY <1>0, <1>2, AccountsType DEF InsertAccount
  <2>2. accounts' = Insert(accounts, a, NewAccount(a)) /\ created' = created
    BY <1>2 DEF InsertAccount
  <2>3. /\ DOMAIN accounts' \subseteq created'
        /\ \A b \in DOMAIN accounts' : accounts'[b] \in AccountRecord
    BY <2>1, <2>2, AccountsType, NewAccountType, InsertType
  <2>4. making' \in [Creators -> Making]
        /\ \A j \in Creators : making'[j].account = making[j].account
                              /\ (j # k => making'[j].pc = making[j].pc)
    BY <1>0, <1>2 DEF InsertAccount, Making
  <2>5. \A j \in Creators : making'[j].pc # "idle" => making'[j].account \in created'
    BY <1>0, <2>1, <2>2, <2>4
  <2> QED BY <1>0, <1>2, <2>2, <2>3, <2>4, <2>5, AccountsType, ManageType
          DEF InsertAccount
<1>3. ASSUME NEW k \in Creators, PersistAccount(k) PROVE TypeInv'
  <2>1. making' \in [Creators -> Making]
        /\ \A j \in Creators : making'[j].pc # "idle" => making'[j].account \in created
    BY <1>0, <1>3, IdleType DEF PersistAccount
  <2>2. making[k].account \in Accounts
    BY <1>0, <1>3, AccountsType DEF PersistAccount
  <2>3. Created(rows, making[k].account) \subseteq RowRecord
    BY <2>2, AccountsType, LedgerAssumption DEF Created, Row, RowRecord
  <2>4. rows' \subseteq RowRecord /\ edits' \in 0..MaxEdits
    BY <1>3, <2>3, AccountsType, LedgerAssumption DEF PersistAccount, Edit
  <2> QED BY <1>0, <1>3, <2>1, <2>4, AccountsType, ManageType DEF PersistAccount
<1>4. ASSUME NEW a \in Accounts, GetAccount(a) PROVE TypeInv'
  <2>1. [accounts[a] EXCEPT !.active = ~@] \in AccountRecord
    BY <1>4, AccountsType DEF GetAccount, AccountRecord
  <2>2. draft' \subseteq [id : Accounts, account : AccountRecord]
    BY <1>4, <2>1 DEF GetAccount
  <2>3. edits' \in 0..MaxEdits
    BY <1>4, AccountsType, LedgerAssumption DEF GetAccount, Edit
  <2> QED BY <1>0, <1>4, <2>2, <2>3, AccountsType, ManageType DEF GetAccount
<1>5. CASE UpdateAccount
  <2>1. PICK d \in draft :
          accounts' = IF d.id \in DOMAIN accounts
                      THEN [accounts EXCEPT ![d.id] = d.account] ELSE accounts
    BY <1>5 DEF UpdateAccount
  <2>2. /\ DOMAIN accounts' = DOMAIN accounts
        /\ \A a \in DOMAIN accounts' : accounts'[a] \in AccountRecord
    BY <2>1, AccountsType
  <2> QED BY <1>0, <1>5, <2>2, AccountsType, ManageType DEF UpdateAccount
<1>6. ASSUME NEW a \in Accounts, DeleteAccount(a) PROVE TypeInv'
  <2>1. edits' \in 0..MaxEdits
    BY <1>6, AccountsType, LedgerAssumption DEF DeleteAccount, Edit
  <2> QED BY <1>0, <1>6, <2>1, AccountsType, ManageType DEF DeleteAccount
<1> QED BY <1>1, <1>2, <1>3, <1>4, <1>5, <1>6 DEF Manage

LEMMA InitType == Init => TypeInv
<1> SUFFICES ASSUME Init PROVE TypeInv OBVIOUS
<1>1. /\ DOMAIN accounts = Chart /\ created = Chart /\ Chart \subseteq Accounts
      /\ \A a \in DOMAIN accounts : accounts[a] \in AccountRecord
  BY NewAccountType, LedgerAssumption DEF Init
<1>2. rows \subseteq RowRecord
  BY LedgerAssumption DEF Init, SeedRows, Row, RowRecord
<1>3. calls \in [Recorders -> Call] /\ making \in [Creators -> Making]
  BY IdleType DEF Init
<1>4. edits \in 0..MaxEdits BY LedgerAssumption DEF Init
<1>5. TypeOK
  BY <1>1, <1>2, <1>3, <1>4 DEF Init, TypeOK, AccountRecord, RowRecord
<1>6. Handed BY IdleType DEF Init, Handed
<1> QED BY <1>5, <1>6 DEF TypeInv

LEMMA NextType == TypeInv /\ [Next]_vars => TypeInv'
<1> SUFFICES ASSUME TypeInv, [Next]_vars PROVE TypeInv' OBVIOUS
<1>1. CASE UNCHANGED vars
  BY <1>1 DEF vars, maps, counters, TypeInv, TypeOK, Handed
<1>2. ASSUME NEW c \in Recorders, Record(c) PROVE TypeInv'
  BY <1>2, ValidateType, DrawNumberType, PostType, StoreType, CreateJournalType,
     LinkType, PersistType DEF Record
<1> QED BY <1>1, <1>2, BeginType, CancelType, ManageTypes DEF Next

\* Whatever calls overlap, fail or are repeated, the maps stay well-formed:
\* only transactions that were handed in are stored, only accounts that were
\* created exist, and journal entries have the numbers drawn so far.
THEOREM TypeCorrect == Spec => []TypeOK
<1>1. TypeInv => TypeOK BY DEF TypeInv
<1> QED BY <1>1, InitType, NextType, PTL DEF Spec

-----------------------------------------------------------------------------
(* Numbers and links, whatever calls are repeated, dropped or edited.      *)

\* The holder of the counter is the only call that has a number nobody else
\* has; what it has stored and journalled so far is its own.
LinkInv ==
    /\ \A c, d \in Recorders :
          calls[c].pc \in Posting /\ calls[d].pc \in Posting => c = d
    /\ \A t \in DOMAIN transactions : transactions[t].number < nextTxn
    /\ \A c \in Recorders :
          /\ calls[c].pc \in Posting => calls[c].number = nextTxn - 1
          /\ calls[c].pc \in {"post", "store"} =>
                \A t \in DOMAIN transactions : transactions[t].number # calls[c].number
          /\ calls[c].pc \in {"journal", "link", "persist"} =>
                \A t \in DOMAIN transactions :
                   transactions[t].number = calls[c].number => t = calls[c].txn
          /\ calls[c].pc = "link" =>
                calls[c].entry \in DOMAIN journal /\ journal[calls[c].entry] = calls[c].txn
    /\ EntriesLinked

LEMMA InitLinked == Init => LinkInv
BY IdleType DEF Init, LinkInv, EntriesLinked, Posting

\* Steps that store, journal and number nothing, and after which no further
\* call holds the counter.
LEMMA LinkedApart ==
    ASSUME LinkInv, UNCHANGED <<transactions, journal, nextTxn>>,
           \A d \in Recorders : calls'[d] = calls[d] \/ calls'[d].pc \notin Posting
    PROVE  LinkInv'
BY DEF LinkInv, EntriesLinked, Posting

\* A step of the call that holds the counter, or is about to take it.
LEMMA PosterMoves ==
    ASSUME TypeInv, LinkInv, NEW c \in Recorders, NEW from, NEW next \in Call,
           Step(c, from, next),
           from \in Posting \/ CounterFree
    PROVE  /\ calls'[c] = next /\ calls[c].pc = from
           /\ \A d \in Recorders \ {c} : calls'[d].pc \notin Posting
BY StepType DEF LinkInv, CounterFree, Step

LEMMA DrawNumberLinked ==
    ASSUME TypeInv, LinkInv, NEW c \in Recorders, DrawNumber(c) PROVE LinkInv'
<1> DEFINE next == [calls[c] EXCEPT !.pc = "post", !.number = nextTxn]
<1>1. nextTxn \in Nat \ {0} BY DEF TypeInv, TypeOK
<1>2. next \in Call /\ next.pc = "post" /\ next.number = nextTxn
  <2>1. nextTxn \in Nat /\ "post" \in Posting BY <1>1 DEF Posting
  <2>2. calls[c] \in Call BY CallFields
  <2> QED BY <2>1, <2>2 DEF Call
<1>3. /\ calls'[c].pc = "post" /\ calls'[c].number = nextTxn
      /\ \A d \in Recorders \ {c} : calls'[d].pc \notin Posting
  <2>1. Step(c, "validate", next) /\ CounterFree BY DEF DrawNumber
  <2> HIDE DEF next
  <2> QED BY <1>2, <2>1, PosterMoves
<1>4. transactions' = transactions /\ journal' = journal /\ nextTxn' = nextTxn + 1
  BY DEF DrawNumber, maps
<1>5. \A t \in DOMAIN transactions :
          transactions[t].number \in Nat /\ transactions[t].number < nextTxn
  BY DEF LinkInv, TypeInv, TypeOK
<1>6. EntriesLinked' BY <1>4 DEF LinkInv, EntriesLinked
<1> QED BY <1>1, <1>3, <1>4, <1>5, <1>6 DEF LinkInv, Posting

LEMMA PostLinked ==
    ASSUME TypeInv, LinkInv, NEW c \in Recorders, Post(c) PROVE LinkInv'
<1>1. /\ calls'[c] = Goto(c, "store") /\ calls[c].pc = "post"
      /\ \A d \in Recorders \ {c} : calls'[d].pc \notin Posting
  BY CallFields, PosterMoves DEF Post, Posting
<1>2. transactions' = transactions /\ journal' = journal /\ nextTxn' = nextTxn
  BY DEF Post, counters
<1>3. calls'[c].pc = "store" /\ calls'[c].number = calls[c].number
  BY <1>1, CallFields DEF Posting
<1>4. EntriesLinked' BY <1>2 DEF LinkInv, EntriesLinked
<1> QED BY <1>1, <1>2, <1>3, <1>4 DEF LinkInv, Posting

LEMMA StoreLinked ==
    ASSUME TypeInv, LinkInv, NEW c \in Recorders, Store(c) PROVE LinkInv'
<1> DEFINE t0 == calls[c].txn
           v == [number |-> calls[c].number, entry |-> 0]
<1>1. /\ calls'[c] = Goto(c, "journal") /\ calls[c].pc = "store"
      /\ \A d \in Recorders \ {c} : calls'[d].pc \notin Posting
  BY CallFields, PosterMoves DEF Store, Posting
<1>2. journal' = journal /\ nextTxn' = nextTxn BY DEF Store, counters
<1>3. /\ calls'[c].pc = "journal" /\ calls'[c].number = calls[c].number
      /\ calls'[c].txn = t0
  BY <1>1, CallFields DEF Posting
<1>4. /\ DOMAIN transactions' = DOMAIN transactions \cup {t0}
      /\ transactions'[t0].number = calls[c].number /\ transactions'[t0].entry = 0
      /\ \A t \in DOMAIN transactions \ {t0} : transactions'[t] = transactions[t]
  <2>1. transactions' = Insert(transactions, t0, v) BY DEF Store
  <2>2. v.number = calls[c].number /\ v.entry = 0 OBVIOUS
  <2> HIDE DEF v, t0
  <2>3. /\ DOMAIN transactions' = DOMAIN transactions \cup {t0}
        /\ transactions'[t0] = v
        /\ \A t \in DOMAIN transactions \ {t0} : transactions'[t] = transactions[t]
    BY <2>1 DEF Insert
  <2> QED BY <2>2, <2>3
<1>5. /\ calls[c].number = nextTxn - 1 /\ nextTxn \in Nat
      /\ \A t \in DOMAIN transactions : transactions[t].number # calls[c].number
  BY <1>1 DEF LinkInv, TypeInv, TypeOK, Posting
<1>6. EntriesLinked' BY <1>2, <1>4, <1>5 DEF LinkInv, EntriesLinked
<1>7. \A t \in DOMAIN transactions' : transactions'[t].number < nextTxn'
  BY <1>2, <1>4, <1>5 DEF LinkInv
<1>8. \A t \in DOMAIN transactions' :
          transactions'[t].number = calls'[c].number => t = calls'[c].txn
  BY <1>3, <1>4, <1>5
<1> QED BY <1>1, <1>2, <1>3, <1>5, <1>6, <1>7, <1>8 DEF LinkInv, Posting

LEMMA CreateJournalLinked ==
    ASSUME TypeInv, LinkInv, NEW c \in Recorders, CreateJournal(c) PROVE LinkInv'
<1> DEFINE next == [calls[c] EXCEPT !.pc = "link", !.entry = nextJournal]
<1>1. next \in Call /\ next.pc = "link" /\ next.entry = nextJournal
      /\ next.txn = calls[c].txn /\ next.number = calls[c].number
  <2>1. nextJournal \in Nat /\ "link" \in Posting BY DEF TypeInv, TypeOK, Posting
  <2>2. calls[c] \in Call BY CallFields
  <2> QED BY <2>1, <2>2 DEF Call
<1>2. /\ calls'[c] = next /\ calls[c].pc = "journal"
      /\ \A d \in Recorders \ {c} : calls'[d].pc \notin Posting
  <2>1. "journal" \in Posting BY DEF Posting
  <2> QED BY <1>1, <2>1, PosterMoves DEF CreateJournal
<1>3. transactions' = transactions /\ nextTxn' = nextTxn BY DEF CreateJournal
<1>4. /\ DOMAIN journal' = DOMAIN journal \cup {nextJournal}
      /\ journal'[nextJournal] = calls[c].txn
      /\ \A n \in DOMAIN journal \ {nextJournal} : journal'[n] = journal[n]
  BY DEF CreateJournal, Insert
<1>5. nextJournal \notin DOMAIN journal BY DEF TypeInv, TypeOK
<1>6. EntriesLinked' BY <1>3, <1>4, <1>5 DEF LinkInv, EntriesLinked
<1>7. /\ calls'[c].pc = "link" /\ calls'[c].entry = nextJournal
      /\ calls'[c].txn = calls[c].txn /\ calls'[c].number = calls[c].number
  <2> HIDE DEF next
  <2> QED BY <1>1, <1>2
<1>8. /\ calls[c].number = nextTxn - 1
      /\ \A t \in DOMAIN transactions :
            transactions[t].number = calls[c].number => t = calls[c].txn
      /\ \A t \in DOMAIN transactions : transactions[t].number < nextTxn
  BY <1>2 DEF LinkInv, Posting
<1>9. \A d, e \in Recorders : calls'[d].pc \in Posting /\ calls'[e].pc \in Posting => d = e
  BY <1>2
<1>10. \A d \in Recorders : calls'[d].pc \in Posting => d = c BY <1>2
<1>11. calls'[c].pc \notin {"post", "store"} BY <1>7
<1> HIDE DEF next
<1> QED BY <1>3, <1>4, <1>6, <1>7, <1>8, <1>9, <1>10, <1>11 DEF LinkInv, Posting

LEMMA LinkLinked ==
    ASSUME TypeInv, LinkInv, NEW c \in Recorders, Link(c) PROVE LinkInv'
<1> DEFINE t0 == calls[c].txn
           v == [number |-> calls[c].number, entry |-> calls[c].entry]
<1>1. /\ calls'[c] = Goto(c, "persist") /\ calls[c].pc = "link"
      /\ \A d \in Recorders \ {c} : calls'[d].pc \notin Posting
  BY CallFields, PosterMoves DEF Link, Posting
<1>2. journal' = journal /\ nextTxn' = nextTxn BY DEF Link, counters
<1>3. /\ calls'[c].pc = "persist" /\ calls'[c].number = calls[c].number
      /\ calls'[c].txn = t0
  BY <1>1, CallFields DEF Posting
<1>4. /\ DOMAIN transactions' = DOMAIN transactions \cup {t0}
      /\ transactions'[t0].number = calls[c].number
      /\ transactions'[t0].entry = calls[c].entry
      /\ \A t \in DOMAIN transactions \ {t0} : transactions'[t] = transactions[t]
  <2>1. transactions' = Insert(transactions, t0, v) BY DEF Link
  <2>2. v.number = calls[c].number /\ v.entry = calls[c].entry OBVIOUS
  <2> HIDE DEF v, t0
  <2>3. /\ DOMAIN transactions' = DOMAIN transactions \cup {t0}
        /\ transactions'[t0] = v
        /\ \A t \in DOMAIN transactions \ {t0} : transactions'[t] = transactions[t]
    BY <2>1 DEF Insert
  <2> QED BY <2>2, <2>3
<1>5. /\ calls[c].number = nextTxn - 1 /\ nextTxn \in Nat
      /\ \A t \in DOMAIN transactions : transactions[t].number = calls[c].number => t = t0
      /\ calls[c].entry \in DOMAIN journal /\ journal[calls[c].entry] = t0
  BY <1>1 DEF LinkInv, TypeInv, TypeOK, Posting
<1>6. EntriesLinked' BY <1>2, <1>4, <1>5 DEF LinkInv, EntriesLinked
<1>7. \A t \in DOMAIN transactions' : transactions'[t].number < nextTxn'
  BY <1>2, <1>4, <1>5 DEF LinkInv
<1>8. \A t \in DOMAIN transactions' :
          transactions'[t].number = calls'[c].number => t = calls'[c].txn
  BY <1>3, <1>4, <1>5
<1> QED BY <1>1, <1>2, <1>3, <1>5, <1>6, <1>7, <1>8 DEF LinkInv, Posting

\* The other steps of a call leave it outside the part that holds the counter.
LEMMA OutsideLinked ==
    ASSUME TypeInv, LinkInv, NEW c \in Recorders,
           \/ \E t \in Txns : Begin(c, t)
           \/ \E a \in calls[c].unchecked : Validate(c, a)
           \/ Persist(c) \/ Cancel(c)
    PROVE  LinkInv'
<1>1. \A d \in Recorders : calls'[d] = calls[d] \/ calls'[d].pc \notin Posting
  <2>1. ASSUME NEW t \in Txns, Begin(c, t)
        PROVE  calls'[c].pc \in {"idle", "validate"}
               /\ \A d \in Recorders \ {c} : calls'[d] = calls[d]
    BY <2>1, IdleType DEF Begin, Step, Idle, TypeInv, TypeOK
  <2>2. ASSUME NEW a \in calls[c].unchecked, Validate(c, a)
        PROVE  calls'[c].pc \in {"idle", "validate"}
               /\ \A d \in Recorders \ {c} : calls'[d] = calls[d]
    <3>1. calls[c].pc = "validate" BY <2>2 DEF Validate, Step
    <3>2. [calls[c] EXCEPT !.unchecked = @ \ {a}].pc = "validate"
      BY <3>1, CallFields DEF Call
    <3> QED BY <2>2, <3>2, IdleType DEF Validate, Step, TypeInv, TypeOK
  <2>3. ASSUME Persist(c) \/ Cancel(c)
        PROVE  calls'[c].pc = "idle" /\ \A d \in Recorders \ {c} : calls'[d] = calls[d]
    BY <2>3, IdleType DEF Persist, Cancel, Step, TypeInv, TypeOK
  <2> QED BY <2>1, <2>2, <2>3 DEF Posting
<1>2. UNCHANGED <<transactions, journal, nextTxn>>
  <2>1. ASSUME NEW t \in Txns, Begin(c, t) PROVE UNCHANGED <<transactions, journal, nextTxn>>
    BY <2>1 DEF Begin, maps, counters
  <2>2. ASSUME NEW a, Validate(c, a) PROVE UNCHANGED <<transactions, journal, nextTxn>>
    BY <2>2 DEF Validate, maps, counters
  <2>3. ASSUME Persist(c) PROVE UNCHANGED <<transactions, journal, nextTxn>>
    BY <2>3 DEF Persist, maps, counters
  <2>4. ASSUME Cancel(c) PROVE UNCHANGED <<transactions, journal, nextTxn>>
    BY <2>4 DEF Cancel, maps, counters
  <2> QED BY <2>1, <2>2, <2>3, <2>4
<1> QED BY <1>1, <1>2, LinkedApart

LEMMA ManageApart == ASSUME Manage PROVE Unrecorded
BY DEF Manage, CheckNumber, InsertAccount, PersistAccount, GetAccount, UpdateAccount,
       DeleteAccount

LEMMA NextLinked == TypeInv /\ LinkInv /\ [Next]_vars => LinkInv'
<1> SUFFICES ASSUME TypeInv, LinkInv, [Next]_vars PROVE LinkInv' OBVIOUS
<1>1. CASE UNCHANGED vars
  BY <1>1, LinkedApart DEF vars, maps, counters
<1>2. ASSUME NEW c \in Recorders, Record(c) PROVE LinkInv'
  BY <1>2, OutsideLinked, DrawNumberLinked, PostLinked, StoreLinked,
     CreateJournalLinked, LinkLinked DEF Record
<1>3. CASE Manage
  BY <1>3, ManageApart, LinkedApart DEF Unrecorded, counters
<1> QED BY <1>1, <1>2, <1>3, OutsideLinked DEF Next

\* Whatever is repeated, dropped half way, edited or deleted meanwhile, no two
\* transactions share a number, and a transaction names its own journal entry.
THEOREM LinksAreRight == Spec => []EntriesLinked
<1>1. LinkInv => EntriesLinked BY DEF LinkInv
<1> QED BY <1>1, InitType, NextType, InitLinked, NextLinked, PTL DEF Spec

-----------------------------------------------------------------------------
(* What each step does to the call that takes it.                          *)

Busy(c) == calls[c].pc # "idle"

\* The other calls stay where they are.
Alone(c) == \A d \in Recorders \ {c} : calls'[d] = calls[d]

\* Call c moves on, and keeps what it has at hand.
Goes(c, from, to) ==
    /\ calls[c].pc = from /\ calls'[c].pc = to
    /\ calls'[c].txn = calls[c].txn /\ calls'[c].unchecked = calls[c].unchecked
    /\ calls'[c].number = calls[c].number /\ calls'[c].entry = calls[c].entry
    /\ Alone(c)

\* Call c is over.
Ends(c) == calls'[c].pc = "idle" /\ Alone(c)

LEMMA GotoMoves ==
    ASSUME TypeInv, NEW c \in Recorders, NEW from, NEW to \in Posting,
           Step(c, from, Goto(c, to))
    PROVE  Goes(c, from, to)
<1>1. Goto(c, to) \in Call /\ Goto(c, to) = [calls[c] EXCEPT !.pc = to]
    BY CallFields DEF Goto
<1>2. /\ calls[c] \in Call /\ calls[c].pc = from
      /\ calls'[c] = Goto(c, to) /\ Alone(c)
    BY <1>1, CallFields, StepType DEF Step, Alone
<1>3. /\ Goto(c, to).pc = to /\ Goto(c, to).txn = calls[c].txn
      /\ Goto(c, to).unchecked = calls[c].unchecked
      /\ Goto(c, to).number = calls[c].number /\ Goto(c, to).entry = calls[c].entry
    BY <1>1, <1>2 DEF Call
<1> QED
    BY <1>2, <1>3 DEF Goes

LEMMA BeginMoves ==
    ASSUME TypeInv, NEW c \in Recorders, NEW t \in Txns, Begin(c, t)
    PROVE  /\ calls[c].pc = "idle" /\ begun' = begun \cup {t}
           /\ \/ Ends(c)
              \/ /\ IsBalanced(t) /\ Alone(c)
                 /\ calls'[c].pc = "validate" /\ calls'[c].txn = t
                 /\ calls'[c].unchecked = Mentioned(t)
<1> DEFINE next == [Idle EXCEPT !.pc = "validate", !.txn = t, !.unchecked = Mentioned(t)]
<1>1. /\ next \in Call /\ next.pc = "validate" /\ next.txn = t
      /\ next.unchecked = Mentioned(t)
    BY IdleType, AccountingAssumption DEF Idle, Call, Mentioned
<1>2. calls[c].pc = "idle" /\ begun' = begun \cup {t}
    BY DEF Begin, Step
<1> HIDE DEF next
<1>3. CASE IsBalanced(t) /\ Step(c, "idle", next)
    <2>1. calls'[c] = next /\ Alone(c)
        BY <1>1, <1>3, StepType DEF Alone
    <2> QED
        BY <1>1, <1>2, <1>3, <2>1
<1>4. CASE Step(c, "idle", Idle)
    BY <1>2, <1>4, IdleType, StepType DEF Ends, Alone
<1> QED
    BY <1>3, <1>4 DEF Begin, next

LEMMA ValidateMoves ==
    ASSUME TypeInv, NEW c \in Recorders, NEW a, Validate(c, a)
    PROVE  /\ calls[c].pc = "validate"
           /\ \/ Ends(c)
              \/ /\ a \in DOMAIN accounts /\ accounts[a].active
                 /\ calls'[c].pc = "validate" /\ calls'[c].txn = calls[c].txn
                 /\ calls'[c].unchecked = calls[c].unchecked \ {a}
                 /\ Alone(c)
<1> DEFINE next == [calls[c] EXCEPT !.unchecked = @ \ {a}]
<1>1. calls[c].pc = "validate"
    BY DEF Validate, Step
<1>2. /\ next \in Call /\ next.pc = "validate" /\ next.txn = calls[c].txn
      /\ next.unchecked = calls[c].unchecked \ {a}
    BY <1>1, CallFields DEF Call
<1> HIDE DEF next
<1>3. CASE a \in DOMAIN accounts /\ accounts[a].active /\ Step(c, "validate", next)
    <2>1. calls'[c] = next /\ Alone(c)
        BY <1>2, <1>3, StepType DEF Alone
    <2> QED
        BY <1>1, <1>2, <1>3, <2>1
<1>4. CASE Step(c, "validate", Idle)
    BY <1>1, <1>4, IdleType, StepType DEF Ends, Alone
<1> QED
    BY <1>3, <1>4 DEF Validate, next

LEMMA DrawNumberMoves ==
    ASSUME TypeInv, NEW c \in Recorders, DrawNumber(c)
    PROVE  /\ calls[c].pc = "validate" /\ calls[c].unchecked = {} /\ CounterFree
           /\ calls'[c].pc = "post" /\ calls'[c].txn = calls[c].txn
           /\ calls'[c].unchecked = {} /\ calls'[c].number = nextTxn
           /\ Alone(c)
<1> DEFINE next == [calls[c] EXCEPT !.pc = "post", !.number = nextTxn]
<1>1. nextTxn \in Nat /\ "post" \in Posting /\ calls[c] \in Call
    BY DEF TypeInv, TypeOK, Posting
<1>2. /\ next \in Call /\ next.pc = "post" /\ next.txn = calls[c].txn
      /\ next.unchecked = calls[c].unchecked /\ next.number = nextTxn
    BY <1>1 DEF Call
<1>3. Step(c, "validate", next) /\ calls[c].unchecked = {} /\ CounterFree
    BY DEF DrawNumber
<1> HIDE DEF next
<1>4. calls[c].pc = "validate" /\ calls'[c] = next /\ Alone(c)
    BY <1>2, <1>3, StepType DEF Alone, Step
<1> QED
    BY <1>2, <1>3, <1>4

LEMMA CreateJournalMoves ==
    ASSUME TypeInv, NEW c \in Recorders, CreateJournal(c)
    PROVE  /\ calls[c].pc = "journal"
           /\ calls'[c].pc = "link" /\ calls'[c].txn = calls[c].txn
           /\ calls'[c].unchecked = calls[c].unchecked
           /\ calls'[c].number = calls[c].number /\ calls'[c].entry = nextJournal
           /\ Alone(c)
<1> DEFINE next == [calls[c] EXCEPT !.pc = "link", !.entry = nextJournal]
<1>1. nextJournal \in Nat /\ "link" \in Posting
    BY DEF TypeInv, TypeOK, Posting
<1>2. /\ next \in Call /\ next.pc = "link" /\ next.txn = calls[c].txn
      /\ next.unchecked = calls[c].unchecked
      /\ next.number = calls[c].number /\ next.entry = nextJournal
    BY <1>1, CallFields DEF Call
<1>3. Step(c, "journal", next)
    BY DEF CreateJournal
<1> HIDE DEF next
<1>4. calls[c].pc = "journal" /\ calls'[c] = next /\ Alone(c)
    BY <1>2, <1>3, StepType DEF Alone, Step
<1> QED
    BY <1>2, <1>4

LEMMA PersistMoves ==
    ASSUME TypeInv, NEW c \in Recorders, Persist(c)
    PROVE  calls[c].pc = "persist" /\ Ends(c)
    BY IdleType, StepType DEF Persist, Step, Ends, Alone

LEMMA CancelMoves ==
    ASSUME TypeInv, NEW c \in Recorders, Cancel(c)
    PROVE  "cancel" \in Hazards /\ Ends(c)
<1>1. Step(c, calls[c].pc, Idle) /\ "cancel" \in Hazards
    BY DEF Cancel, Step
<1> QED
    BY <1>1, IdleType, StepType DEF Ends, Alone

\* Storing a transaction leaves the others as they are.
LEMMA StoredFields ==
    ASSUME NEW t, NEW n, NEW e,
           transactions' = Insert(transactions, t, [number |-> n, entry |-> e])
    PROVE  /\ DOMAIN transactions' = DOMAIN transactions \cup {t}
           /\ transactions'[t].number = n /\ transactions'[t].entry = e
           /\ \A s \in DOMAIN transactions \ {t} : transactions'[s] = transactions[s]
<1> DEFINE v == [number |-> n, entry |-> e]
<1>1. v.number = n /\ v.entry = e
    OBVIOUS
<1> HIDE DEF v
<1>2. transactions' = Insert(transactions, t, v)
    BY DEF v
<1>3. /\ DOMAIN transactions' = DOMAIN transactions \cup {t}
      /\ transactions'[t] = v
      /\ \A s \in DOMAIN transactions \ {t} : transactions'[s] = transactions[s]
    BY <1>2 DEF Insert
<1> QED
    BY <1>1, <1>3

-----------------------------------------------------------------------------
(* The numbers.                                                            *)

\* No transaction is handed in a second time, and no call is dropped.
NoRepeats == Hazards \cap {"replay", "cancel"} = {}

\* A transaction is in the hands of one call at most.
OneCallEach ==
    \A c, d \in Recorders :
        Busy(c) /\ Busy(d) /\ calls[c].txn = calls[d].txn => c = d

\* A call has stored its transaction once it is past that step, and draws the
\* number of the journal entry that it drew for the transaction.
CallInStep(c) ==
    /\ calls[c].pc \in {"validate", "post", "store"} =>
          calls[c].txn \notin DOMAIN transactions
    /\ calls[c].pc \in {"journal", "link", "persist"} =>
          /\ calls[c].txn \in DOMAIN transactions
          /\ transactions[calls[c].txn].number = calls[c].number
    /\ calls[c].pc \in {"post", "store", "journal"} => nextJournal = nextTxn - 1
    /\ calls[c].pc \in {"link", "persist"} =>
          nextJournal = nextTxn /\ calls[c].entry = calls[c].number

Gapless ==
    \A n \in 1..(nextTxn - 1) :
        \/ \E t \in DOMAIN transactions : transactions[t].number = n
        \/ n = nextTxn - 1 /\ \E c \in Recorders : calls[c].pc \in {"post", "store"}

Journalled(t) ==
    \/ transactions[t].entry = transactions[t].number
    \/ /\ transactions[t].entry = 0
       /\ \E c \in Recorders : calls[c].txn = t /\ calls[c].pc \in {"journal", "link"}

NumbersInv ==
    /\ OneCallEach
    /\ \A c \in Recorders : CallInStep(c)
    /\ CounterFree => nextJournal = nextTxn
    /\ Gapless
    /\ \A t \in DOMAIN transactions : Journalled(t)

LEMMA InitNumbers == Init => NumbersInv
    BY IdleType DEF Init, NumbersInv, OneCallEach, CallInStep, CounterFree, Gapless,
                    Journalled, Busy

LEMMA NumbersHold ==
    ASSUME LinkInv, NumbersInv
    PROVE  NumbersInStep
<1>1. NumbersInOrder
    BY DEF LinkInv, EntriesLinked, NumbersInv, Gapless, NumbersInOrder, CounterFree, Posting
<1>2. JournalInStep
    BY DEF NumbersInv, Journalled, JournalInStep, Posting
<1> QED
    BY <1>1, <1>2 DEF NumbersInStep

\* Steps before a call has the counter, and those of everything else.
LEMMA NumbersApart ==
    ASSUME NumbersInv, UNCHANGED <<transactions, counters>>, OneCallEach',
           \A d \in Recorders :
               \/ calls'[d] = calls[d]
               \/ /\ calls[d].pc \notin Posting /\ calls'[d].pc \notin Posting
                  /\ calls'[d].pc = "validate" => calls'[d].txn \notin DOMAIN transactions
    PROVE  NumbersInv'
<1>1. UNCHANGED <<transactions, nextTxn, nextJournal>>
    BY DEF counters
<1>2. ASSUME NEW d \in Recorders
      PROVE  CallInStep(d)'
    <2>1. CASE calls'[d] = calls[d]
        BY <1>1, <2>1 DEF NumbersInv, CallInStep
    <2>2. CASE calls'[d].pc \notin Posting
        BY <1>1, <2>2 DEF NumbersInv, CallInStep, Posting
    <2> QED
        BY <2>1, <2>2
<1>3. \A d \in Recorders : calls'[d].pc \in Posting <=> calls[d].pc \in Posting
    OBVIOUS
<1>4. CounterFree' => CounterFree
    BY <1>3 DEF CounterFree
<1>5. Gapless'
    BY <1>1 DEF NumbersInv, Gapless, Posting
<1>6. \A t \in DOMAIN transactions' : Journalled(t)'
    BY <1>1 DEF NumbersInv, Journalled, Posting
<1> QED
    BY <1>1, <1>2, <1>4, <1>5, <1>6 DEF NumbersInv

LEMMA BeginNumbers ==
    ASSUME TypeInv, NumbersInv, NoRepeats, NEW c \in Recorders, NEW t \in Txns, Begin(c, t)
    PROVE  NumbersInv'
<1>1. t \notin begun /\ UNCHANGED <<transactions, counters>>
    BY DEF Begin, Offered, NoRepeats, maps
<1>2. /\ calls[c].pc = "idle" /\ Alone(c)
      /\ (calls'[c].pc = "idle" \/ (calls'[c].pc = "validate" /\ calls'[c].txn = t))
    BY BeginMoves DEF Ends
<1>3. \A d \in Recorders : Busy(d) => calls[d].txn # t
    BY <1>1 DEF TypeInv, Handed, Busy
<1>4. OneCallEach'
    BY <1>2, <1>3 DEF NumbersInv, OneCallEach, Busy, Alone
<1>5. t \notin DOMAIN transactions
    BY <1>1 DEF TypeInv, TypeOK
<1> QED
    BY <1>1, <1>2, <1>4, <1>5, NumbersApart DEF Alone, Posting

LEMMA ValidateNumbers ==
    ASSUME TypeInv, NumbersInv, NEW c \in Recorders, NEW a, Validate(c, a)
    PROVE  NumbersInv'
<1>1. UNCHANGED <<transactions, counters>>
    BY DEF Validate, maps
<1>2. /\ calls[c].pc = "validate" /\ Alone(c)
      /\ (calls'[c].pc = "idle"
          \/ (calls'[c].pc = "validate" /\ calls'[c].txn = calls[c].txn))
    BY ValidateMoves DEF Ends
<1>3. OneCallEach'
    BY <1>2 DEF NumbersInv, OneCallEach, Busy, Alone
<1>4. calls[c].txn \notin DOMAIN transactions
    BY <1>2 DEF NumbersInv, CallInStep
<1> QED
    BY <1>1, <1>2, <1>3, <1>4, NumbersApart DEF Alone, Posting

\* Of the calls that hold the counter there is one, and its steps leave the
\* transactions of the others where they are.
LEMMA OnlyPoster ==
    ASSUME LinkInv, NEW c \in Recorders, calls[c].pc \in Posting, Alone(c)
    PROVE  \A d \in Recorders \ {c} :
               calls'[d] = calls[d] /\ calls[d].pc \notin Posting
    BY DEF LinkInv, Alone

\* What is left to show of a step of the call that holds the counter.
LEMMA NumbersOfPoster ==
    ASSUME TypeInv, NumbersInv, NEW c \in Recorders, Busy(c),
           calls'[c].txn = calls[c].txn \/ calls'[c].pc = "idle",
           \A d \in Recorders \ {c} : calls'[d] = calls[d] /\ calls[d].pc \notin Posting,
           DOMAIN transactions' \subseteq DOMAIN transactions \cup {calls[c].txn},
           CallInStep(c)', CounterFree' => nextJournal' = nextTxn',
           Gapless', \A t \in DOMAIN transactions' : Journalled(t)'
    PROVE  NumbersInv'
<1>1. OneCallEach'
    BY DEF NumbersInv, OneCallEach, Busy
<1>2. ASSUME NEW d \in Recorders \ {c}
      PROVE  CallInStep(d)'
    <2>1. calls'[d] = calls[d] /\ calls[d].pc \notin Posting
        OBVIOUS
    <2>2. calls[d].pc = "validate" =>
              calls[d].txn \notin DOMAIN transactions /\ calls[d].txn # calls[c].txn
        BY DEF NumbersInv, OneCallEach, CallInStep, Busy
    <2> QED
        BY <2>1, <2>2 DEF CallInStep, Posting
<1> QED
    BY <1>1, <1>2 DEF NumbersInv

LEMMA DrawNumberNumbers ==
    ASSUME TypeInv, NumbersInv, NEW c \in Recorders, DrawNumber(c)
    PROVE  NumbersInv'
<1>1. /\ calls[c].pc = "validate" /\ CounterFree /\ Alone(c)
      /\ calls'[c].pc = "post" /\ calls'[c].txn = calls[c].txn
    BY DrawNumberMoves
<1>2. /\ transactions' = transactions /\ nextTxn' = nextTxn + 1
      /\ nextJournal' = nextJournal /\ nextTxn \in Nat
    BY DEF DrawNumber, maps, TypeInv, TypeOK
<1>3. nextJournal = nextTxn /\ calls[c].txn \notin DOMAIN transactions
    BY <1>1 DEF NumbersInv, CallInStep
<1>4. \A d \in Recorders \ {c} : calls'[d] = calls[d] /\ calls[d].pc \notin Posting
    BY <1>1 DEF Alone, CounterFree
<1>5. CallInStep(c)'
    BY <1>1, <1>2, <1>3 DEF CallInStep
<1>6. ~CounterFree'
    BY <1>1 DEF CounterFree, Posting
<1>7. Gapless'
    <2>1. SUFFICES ASSUME NEW n \in 1..nextTxn
                   PROVE  \/ \E t \in DOMAIN transactions : transactions[t].number = n
                          \/ n = nextTxn
        BY <1>1, <1>2 DEF Gapless
    <2>2. \A d \in Recorders : calls[d].pc \notin {"post", "store"}
        BY <1>1 DEF CounterFree, Posting
    <2>3. n # nextTxn => n \in 1..(nextTxn - 1)
        BY <1>2
    <2> QED
        BY <2>2, <2>3 DEF NumbersInv, Gapless
<1>8. \A t \in DOMAIN transactions' : Journalled(t)'
    <2>1. \A d \in Recorders : calls[d].pc \notin {"journal", "link"}
        BY <1>1 DEF CounterFree, Posting
    <2> QED
        BY <1>2, <2>1 DEF NumbersInv, Journalled
<1>9. DOMAIN transactions' \subseteq DOMAIN transactions \cup {calls[c].txn}
    BY <1>2
<1> QED
    BY <1>1, <1>4, <1>5, <1>6, <1>7, <1>8, <1>9, NumbersOfPoster DEF Busy

LEMMA PostNumbers ==
    ASSUME TypeInv, LinkInv, NumbersInv, NEW c \in Recorders, Post(c)
    PROVE  NumbersInv'
<1>1. Goes(c, "post", "store")
    BY GotoMoves DEF Post, Posting
<1>2. UNCHANGED <<transactions, nextTxn, nextJournal>>
    BY DEF Post, counters
<1>3. \A d \in Recorders \ {c} : calls'[d] = calls[d] /\ calls[d].pc \notin Posting
    BY <1>1, OnlyPoster DEF Goes, Posting
<1>4. CallInStep(c)'
    BY <1>1, <1>2 DEF Goes, NumbersInv, CallInStep
<1>5. ~CounterFree'
    BY <1>1 DEF Goes, CounterFree, Posting
<1>6. Gapless'
    BY <1>1, <1>2 DEF Goes, NumbersInv, Gapless
<1>7. \A t \in DOMAIN transactions' : Journalled(t)'
    BY <1>1, <1>2, <1>3 DEF Goes, NumbersInv, Journalled, Posting
<1> QED
    BY <1>1, <1>2, <1>3, <1>4, <1>5, <1>6, <1>7, NumbersOfPoster DEF Goes, Busy

LEMMA StoreNumbers ==
    ASSUME TypeInv, LinkInv, NumbersInv, NEW c \in Recorders, Store(c)
    PROVE  NumbersInv'
<1>0. PICK u : u = calls[c].txn
    OBVIOUS
<1>1. Goes(c, "store", "journal")
    BY GotoMoves DEF Store, Posting
<1>2. /\ DOMAIN transactions' = DOMAIN transactions \cup {u}
      /\ transactions'[u].number = calls[c].number /\ transactions'[u].entry = 0
      /\ \A t \in DOMAIN transactions \ {u} : transactions'[t] = transactions[t]
    <2>1. transactions' = Insert(transactions, u,
                                 [number |-> calls[c].number, entry |-> 0])
        BY <1>0 DEF Store
    <2> QED
        BY <2>1, StoredFields
<1>3. nextTxn' = nextTxn /\ nextJournal' = nextJournal
    BY DEF Store, counters
<1>4. \A d \in Recorders \ {c} : calls'[d] = calls[d] /\ calls[d].pc \notin Posting
    BY <1>1, OnlyPoster DEF Goes, Posting
<1>5. u \notin DOMAIN transactions /\ calls[c].number = nextTxn - 1
    BY <1>0, <1>1 DEF Goes, NumbersInv, CallInStep, LinkInv, Posting
<1>6. CallInStep(c)'
    BY <1>0, <1>1, <1>2, <1>3 DEF Goes, NumbersInv, CallInStep
<1>7. ~CounterFree'
    BY <1>1 DEF Goes, CounterFree, Posting
<1>8. Gapless'
    BY <1>1, <1>2, <1>3, <1>5 DEF Goes, NumbersInv, Gapless
<1>9. \A t \in DOMAIN transactions' : Journalled(t)'
    <2>1. Journalled(u)'
        BY <1>0, <1>1, <1>2 DEF Goes, Journalled
    <2>2. ASSUME NEW t \in DOMAIN transactions, t # u
          PROVE  Journalled(t)'
        BY <1>0, <1>1, <1>2, <1>4, <2>2 DEF Goes, NumbersInv, Journalled, Posting
    <2> QED
        BY <1>2, <2>1, <2>2
<1> QED
    BY <1>0, <1>1, <1>2, <1>4, <1>6, <1>7, <1>8, <1>9, NumbersOfPoster DEF Goes, Busy

LEMMA CreateJournalNumbers ==
    ASSUME TypeInv, LinkInv, NumbersInv, NEW c \in Recorders, CreateJournal(c)
    PROVE  NumbersInv'
<1>1. /\ calls[c].pc = "journal" /\ calls'[c].pc = "link" /\ Alone(c)
      /\ calls'[c].txn = calls[c].txn /\ calls'[c].number = calls[c].number
      /\ calls'[c].entry = nextJournal
    BY CreateJournalMoves
<1>2. /\ transactions' = transactions /\ nextTxn' = nextTxn
      /\ nextJournal' = nextJournal + 1 /\ nextTxn \in Nat
    BY DEF CreateJournal, TypeInv, TypeOK
<1>3. /\ nextJournal = nextTxn - 1 /\ calls[c].number = nextTxn - 1
      /\ calls[c].txn \in DOMAIN transactions
      /\ transactions[calls[c].txn].number = calls[c].number
    BY <1>1 DEF NumbersInv, CallInStep, LinkInv, Posting
<1>4. \A d \in Recorders \ {c} : calls'[d] = calls[d] /\ calls[d].pc \notin Posting
    BY <1>1, OnlyPoster DEF Posting
<1>5. CallInStep(c)'
    BY <1>1, <1>2, <1>3 DEF CallInStep
<1>6. ~CounterFree'
    BY <1>1 DEF CounterFree, Posting
<1>7. Gapless'
    BY <1>1, <1>2, <1>4 DEF NumbersInv, Gapless, Posting
<1>8. \A t \in DOMAIN transactions' : Journalled(t)'
    BY <1>1, <1>2, <1>4 DEF NumbersInv, Journalled, Posting
<1> QED
    BY <1>1, <1>2, <1>4, <1>5, <1>6, <1>7, <1>8, NumbersOfPoster DEF Busy

LEMMA LinkNumbers ==
    ASSUME TypeInv, LinkInv, NumbersInv, NEW c \in Recorders, Link(c)
    PROVE  NumbersInv'
<1>0. PICK u : u = calls[c].txn
    OBVIOUS
<1>1. Goes(c, "link", "persist")
    BY GotoMoves DEF Link, Posting
<1>2. /\ DOMAIN transactions' = DOMAIN transactions \cup {u}
      /\ transactions'[u].number = calls[c].number
      /\ transactions'[u].entry = calls[c].entry
      /\ \A t \in DOMAIN transactions \ {u} : transactions'[t] = transactions[t]
    <2>1. transactions' = Insert(transactions, u,
                                 [number |-> calls[c].number, entry |-> calls[c].entry])
        BY <1>0 DEF Link
    <2>2. PICK n, e : n = calls[c].number /\ e = calls[c].entry
        OBVIOUS
    <2>3. transactions' = Insert(transactions, u, [number |-> n, entry |-> e])
        BY <2>1, <2>2
    <2>4. /\ DOMAIN transactions' = DOMAIN transactions \cup {u}
          /\ transactions'[u].number = n /\ transactions'[u].entry = e
          /\ \A t \in DOMAIN transactions \ {u} : transactions'[t] = transactions[t]
        BY ONLY <2>3, StoredFields
    <2> QED
        BY <2>2, <2>4
<1>3. nextTxn' = nextTxn /\ nextJournal' = nextJournal
    BY DEF Link, counters
<1>4. \A d \in Recorders \ {c} : calls'[d] = calls[d] /\ calls[d].pc \notin Posting
    BY <1>1, OnlyPoster DEF Goes, Posting
<1>5. /\ u \in DOMAIN transactions /\ transactions[u].number = calls[c].number
      /\ calls[c].entry = calls[c].number
    BY <1>0, <1>1 DEF Goes, NumbersInv, CallInStep
<1>6. CallInStep(c)'
    BY <1>0, <1>1, <1>2, <1>3 DEF Goes, NumbersInv, CallInStep
<1>7. ~CounterFree'
    BY <1>1 DEF Goes, CounterFree, Posting
<1>8. Gapless'
    <2>1. SUFFICES ASSUME NEW n \in 1..(nextTxn - 1)
                   PROVE  \E t \in DOMAIN transactions' : transactions'[t].number = n
        BY <1>3 DEF Gapless
    <2>2. PICK t \in DOMAIN transactions : transactions[t].number = n
        BY <1>1, <1>4 DEF Goes, NumbersInv, Gapless, Posting
    <2> QED
        BY <1>2, <1>5, <2>2
<1>9. \A t \in DOMAIN transactions' : Journalled(t)'
    <2>1. Journalled(u)'
        BY <1>2, <1>5 DEF Journalled
    <2>2. ASSUME NEW t \in DOMAIN transactions, t # u
          PROVE  Journalled(t)'
        BY <1>0, <1>1, <1>2, <1>4, <2>2 DEF Goes, NumbersInv, Journalled, Posting
    <2> QED
        BY <1>2, <2>1, <2>2
<1> QED
    BY <1>0, <1>1, <1>2, <1>4, <1>6, <1>7, <1>8, <1>9, NumbersOfPoster DEF Goes, Busy

LEMMA PersistNumbers ==
    ASSUME TypeInv, LinkInv, NumbersInv, NEW c \in Recorders, Persist(c)
    PROVE  NumbersInv'
<1>1. calls[c].pc = "persist" /\ calls'[c].pc = "idle" /\ Alone(c)
    BY PersistMoves DEF Ends
<1>2. UNCHANGED <<transactions, nextTxn, nextJournal>>
    BY DEF Persist, maps, counters
<1>3. \A d \in Recorders \ {c} : calls'[d] = calls[d] /\ calls[d].pc \notin Posting
    BY <1>1, OnlyPoster DEF Posting
<1>4. nextJournal = nextTxn
    BY <1>1 DEF NumbersInv, CallInStep
<1>5. CallInStep(c)'
    BY <1>1 DEF CallInStep
<1>6. Gapless'
    BY <1>1, <1>2, <1>3 DEF NumbersInv, Gapless, Posting
<1>7. \A t \in DOMAIN transactions' : Journalled(t)'
    BY <1>1, <1>2, <1>3 DEF NumbersInv, Journalled, Posting
<1> QED
    BY <1>1, <1>2, <1>3, <1>4, <1>5, <1>6, <1>7, NumbersOfPoster DEF Busy

LEMMA NextNumbers ==
    ASSUME NoRepeats, TypeInv, LinkInv, NumbersInv, [Next]_vars
    PROVE  NumbersInv'
<1>1. ASSUME UNCHANGED <<transactions, counters, calls>>
      PROVE  NumbersInv'
    BY <1>1, NumbersApart DEF NumbersInv, OneCallEach, Busy
<1>2. CASE UNCHANGED vars
    BY <1>1, <1>2 DEF vars, maps
<1>3. CASE Manage
    BY <1>1, <1>3, ManageApart DEF Unrecorded
<1>4. ASSUME NEW c \in Recorders, Record(c)
      PROVE  NumbersInv'
    BY <1>4, ValidateNumbers, DrawNumberNumbers, PostNumbers, StoreNumbers,
       CreateJournalNumbers, LinkNumbers, PersistNumbers DEF Record
<1>5. ASSUME NEW c \in Recorders, Cancel(c)
      PROVE  NumbersInv'
    BY <1>5 DEF Cancel, NoRepeats
<1> QED
    BY <1>2, <1>3, <1>4, <1>5, BeginNumbers DEF Next

\* Where transactions are handed in once and calls are not dropped, the
\* numbers of the stored transactions have no gap, and each is journalled
\* under its own number, whatever accounts are edited or deleted meanwhile and
\* whatever writes fail.
THEOREM NumbersKept ==
    ASSUME NoRepeats
    PROVE  Spec => []NumbersInStep
<1>1. Init => TypeInv /\ LinkInv /\ NumbersInv
    BY InitType, InitLinked, InitNumbers
<1>2. TypeInv /\ LinkInv /\ NumbersInv /\ [Next]_vars => (TypeInv /\ LinkInv /\ NumbersInv)'
    BY NextType, NextLinked, NextNumbers
<1>3. TypeInv /\ LinkInv /\ NumbersInv => NumbersInStep
    BY NumbersHold
<1> QED
    BY <1>1, <1>2, <1>3, PTL DEF Spec

-----------------------------------------------------------------------------
(* The chart of accounts, and what the calls know of it.                   *)

\* No account is edited or deleted.
NoEdits == Hazards \cap {"update", "delete"} = {}

\* A call that got past the first check has a transaction that balances, and
\* the accounts it has looked up exist and are active.
Checked(c) ==
    Busy(c) => /\ IsBalanced(calls[c].txn)
               /\ \A a \in Mentioned(calls[c].txn) \ calls[c].unchecked :
                     a \in DOMAIN accounts /\ accounts[a].active
               /\ calls[c].pc \in Posting => calls[c].unchecked = {}

\* The accounts that are being created are not there yet.
Fresh ==
    /\ \A k \in Creators : making[k].pc = "insert" =>
                              making[k].account \notin DOMAIN accounts
    /\ \A j, k \in Creators :
          /\ making[j].pc = "insert" /\ making[k].pc = "insert"
          /\ making[j].account = making[k].account
          => j = k

ChartInv ==
    /\ draft = {} /\ IsFiniteSet(DOMAIN accounts)
    /\ Fresh
    /\ \A c \in Recorders : Checked(c)

LEMMA InitChart == Init => ChartInv
<1> SUFFICES ASSUME Init
             PROVE  ChartInv
    OBVIOUS
<1>1. draft = {} /\ DOMAIN accounts = Chart /\ IsFiniteSet(Chart)
    BY LedgerAssumption DEF Init
<1>2. \A c \in Recorders : calls[c].pc = "idle"
    BY IdleType DEF Init
<1>3. \A k \in Creators : making[k].pc = "idle"
    BY IdleType DEF Init
<1> QED
    BY <1>1, <1>2, <1>3 DEF ChartInv, Fresh, Checked, Busy

\* Accounts stay, and stay active.
AccountsStay ==
    /\ DOMAIN accounts \subseteq DOMAIN accounts'
    /\ \A a \in DOMAIN accounts : accounts'[a].active = accounts[a].active

LEMMA CheckedStays ==
    ASSUME NEW d, Checked(d), AccountsStay, calls'[d] = calls[d]
    PROVE  Checked(d)'
    BY DEF Checked, AccountsStay, Busy

\* Steps that leave the chart as it is but for balances.
LEMMA ChartApart ==
    ASSUME ChartInv, DOMAIN accounts' = DOMAIN accounts, AccountsStay,
           UNCHANGED <<making, draft>>,
           \A d \in Recorders : calls'[d] = calls[d] \/ Checked(d)'
    PROVE  ChartInv'
    BY CheckedStays DEF ChartInv, Fresh

\* Call c keeps its transaction and what it has checked, or ends.
LEMMA CallStaysChecked ==
    ASSUME ChartInv, NEW c \in Recorders, Busy(c), AccountsStay,
           \/ calls'[c].pc = "idle"
           \/ /\ calls'[c].txn = calls[c].txn /\ calls'[c].unchecked = calls[c].unchecked
              /\ calls[c].pc \in Posting \/ calls[c].unchecked = {}
    PROVE  Checked(c)'
    BY DEF ChartInv, Checked, AccountsStay, Busy

LEMMA BeginChart ==
    ASSUME TypeInv, ChartInv, NEW c \in Recorders, NEW t \in Txns, Begin(c, t)
    PROVE  ChartInv'
<1>1. UNCHANGED <<accounts, making, draft>>
    BY DEF Begin, maps, Others
<1>2. /\ Alone(c)
      /\ \/ calls'[c].pc = "idle"
         \/ /\ IsBalanced(t) /\ calls'[c].txn = t
            /\ calls'[c].pc = "validate" /\ calls'[c].unchecked = Mentioned(t)
    BY BeginMoves DEF Ends
<1>3. Checked(c)'
    BY <1>2 DEF Checked, Busy, Posting
<1> QED
    BY <1>1, <1>2, <1>3, ChartApart DEF Alone, AccountsStay

LEMMA ValidateChart ==
    ASSUME TypeInv, ChartInv, NEW c \in Recorders, NEW a, Validate(c, a)
    PROVE  ChartInv'
<1>1. UNCHANGED <<accounts, making, draft>>
    BY DEF Validate, maps, Others
<1>2. /\ Alone(c) /\ Busy(c)
      /\ \/ calls'[c].pc = "idle"
         \/ /\ a \in DOMAIN accounts /\ accounts[a].active
            /\ calls'[c].pc = "validate" /\ calls'[c].txn = calls[c].txn
            /\ calls'[c].unchecked = calls[c].unchecked \ {a}
    BY ValidateMoves DEF Ends, Busy
<1>3. Checked(c)'
    BY <1>1, <1>2 DEF ChartInv, Checked, Busy, Posting
<1> QED
    BY <1>1, <1>2, <1>3, ChartApart DEF Alone, AccountsStay

LEMMA PostAccounts ==
    ASSUME TypeInv, NEW c \in Recorders, Post(c)
    PROVE  /\ DOMAIN accounts' = DOMAIN accounts /\ AccountsStay
           /\ \A a \in DOMAIN accounts :
                 /\ accounts[a].balance \in Int /\ Change(calls[c].txn, a) \in Int
                 /\ accounts'[a].balance = accounts[a].balance + Change(calls[c].txn, a)
                 /\ accounts'[a].number = accounts[a].number
<1>1. ASSUME NEW a \in DOMAIN accounts
      PROVE  /\ accounts[a].balance \in Int /\ Change(calls[c].txn, a) \in Int
             /\ accounts'[a].balance = accounts[a].balance + Change(calls[c].txn, a)
             /\ accounts'[a].active = accounts[a].active
             /\ accounts'[a].number = accounts[a].number
    <2>1. accounts[a] \in AccountRecord /\ a \in Accounts
        BY AccountsType
    <2>2. Change(calls[c].txn, a) \in Int
        <3>1. calls[c].txn \in Txns
            BY CallTxn DEF Post, Step
        <3> QED
            BY <2>1, <3>1, ChangeType
    <2>3. accounts'[a] = [accounts[a] EXCEPT !.balance = @ + Change(calls[c].txn, a)]
        BY DEF Post
    <2> QED
        BY <2>1, <2>2, <2>3 DEF AccountRecord
<1> QED
    BY <1>1 DEF Post, AccountsStay

LEMMA RecordChart ==
    ASSUME TypeInv, ChartInv, NEW c \in Recorders, Record(c) \/ Cancel(c)
    PROVE  ChartInv'
<1>1. ASSUME NEW a, Validate(c, a)
      PROVE  ChartInv'
    BY <1>1, ValidateChart
<1>2. CASE DrawNumber(c)
    <2>1. UNCHANGED <<accounts, making, draft>>
        BY <1>2 DEF DrawNumber, maps, Others
    <2>2. /\ Alone(c) /\ Busy(c) /\ calls'[c].txn = calls[c].txn
          /\ calls[c].unchecked = {} /\ calls'[c].unchecked = {}
        BY <1>2, DrawNumberMoves DEF Busy
    <2>3. Checked(c)'
        BY <2>1, <2>2, CallStaysChecked DEF AccountsStay
    <2> QED
        BY <2>1, <2>2, <2>3, ChartApart DEF Alone, AccountsStay
<1>3. CASE Post(c)
    <2>1. making' = making /\ draft' = draft
        BY <1>3 DEF Post, Others
    <2>2. Goes(c, "post", "store")
        BY <1>3, GotoMoves DEF Post, Posting
    <2>3. DOMAIN accounts' = DOMAIN accounts /\ AccountsStay
        BY <1>3, PostAccounts
    <2>4. Checked(c)'
        BY <2>2, <2>3, CallStaysChecked DEF Goes, Busy, Posting
    <2> QED
        BY <2>1, <2>2, <2>3, <2>4, ChartApart DEF Goes, Alone
<1>4. ASSUME UNCHANGED <<accounts, making, draft>>, Busy(c), Alone(c),
             calls[c].pc \in Posting,
             calls'[c].txn = calls[c].txn, calls'[c].unchecked = calls[c].unchecked
      PROVE  ChartInv'
    <2>1. Checked(c)'
        BY <1>4, CallStaysChecked DEF AccountsStay
    <2> QED
        BY <1>4, <2>1, ChartApart DEF Alone, AccountsStay
<1>5. CASE Store(c)
    <2>1. Goes(c, "store", "journal")
        BY <1>5, GotoMoves DEF Store, Posting
    <2> QED
        BY <1>4, <1>5, <2>1 DEF Store, Others, Goes, Busy, Posting
<1>6. CASE CreateJournal(c)
    <2>1. /\ calls[c].pc = "journal" /\ calls'[c].txn = calls[c].txn
          /\ calls'[c].unchecked = calls[c].unchecked /\ Alone(c)
        BY <1>6, CreateJournalMoves
    <2> QED
        BY <1>4, <1>6, <2>1 DEF CreateJournal, Others, Busy, Posting
<1>7. CASE Link(c)
    <2>1. Goes(c, "link", "persist")
        BY <1>7, GotoMoves DEF Link, Posting
    <2> QED
        BY <1>4, <1>7, <2>1 DEF Link, Others, Goes, Busy, Posting
<1>8. CASE Persist(c) \/ Cancel(c)
    <2>1. UNCHANGED <<accounts, making, draft>>
        BY <1>8 DEF Persist, Cancel, maps, Others
    <2>2. Ends(c)
        BY <1>8, PersistMoves, CancelMoves
    <2>3. Checked(c)'
        BY <2>2 DEF Ends, Checked, Busy
    <2> QED
        BY <2>1, <2>2, <2>3, ChartApart DEF Ends, Alone, AccountsStay
<1> QED
    BY <1>1, <1>2, <1>3, <1>5, <1>6, <1>7, <1>8 DEF Record

\* A new account, not there before, has no balance.
LEMMA InsertAccountAccounts ==
    ASSUME TypeInv, ChartInv, NEW k \in Creators, InsertAccount(k)
    PROVE  LET a == making[k].account IN
           /\ a \in Accounts /\ a \notin DOMAIN accounts
           /\ accounts' = Insert(accounts, a, NewAccount(a))
           /\ DOMAIN accounts' = DOMAIN accounts \cup {a}
           /\ accounts'[a] = NewAccount(a)
           /\ \A b \in DOMAIN accounts : accounts'[b] = accounts[b]
           /\ AccountsStay
<1>0. PICK a : a = making[k].account
    OBVIOUS
<1>1. a \in Accounts /\ a \notin DOMAIN accounts
    BY <1>0, AccountsType DEF InsertAccount, ChartInv, Fresh, TypeInv, Handed
<1>2. accounts' = Insert(accounts, a, NewAccount(a))
    BY <1>0 DEF InsertAccount
<1>3. /\ DOMAIN accounts' = DOMAIN accounts \cup {a}
      /\ accounts'[a] = NewAccount(a)
      /\ \A b \in DOMAIN accounts : accounts'[b] = accounts[b]
    BY <1>1, <1>2 DEF Insert
<1> QED
    BY <1>0, <1>1, <1>2, <1>3 DEF AccountsStay

LEMMA ManageChart ==
    ASSUME NoEdits, TypeInv, ChartInv, Manage
    PROVE  ChartInv'
<1>1. calls' = calls
    BY ManageApart DEF Unrecorded
<1>2. making \in [Creators -> Making] /\ DOMAIN accounts \subseteq created
    BY DEF TypeInv, TypeOK
<1>3. \A c \in Recorders : AccountsStay => Checked(c)'
    BY <1>1, CheckedStays DEF ChartInv
<1>4. ASSUME NEW k \in Creators, NEW a \in Accounts, CheckNumber(k, a)
      PROVE  ChartInv'
    <2>1. a \notin created /\ UNCHANGED <<accounts, draft>>
        BY <1>4 DEF CheckNumber
    <2>2. /\ making'[k].pc = "insert" /\ making'[k].account = a
          /\ \A j \in Creators \ {k} : making'[j] = making[j]
        BY <1>2, <1>4 DEF CheckNumber
    <2>3. \A j \in Creators : making[j].pc = "insert" => making[j].account \in created
        BY DEF TypeInv, Handed
    <2>4. Fresh'
        BY <1>2, <2>1, <2>2, <2>3 DEF ChartInv, Fresh
    <2> QED
        BY <1>3, <2>1, <2>4 DEF ChartInv, AccountsStay
<1>5. ASSUME NEW k \in Creators, InsertAccount(k)
      PROVE  ChartInv'
    <2>0. PICK a : a = making[k].account
        OBVIOUS
    <2>1. DOMAIN accounts' = DOMAIN accounts \cup {a} /\ AccountsStay
        BY <1>5, <2>0, InsertAccountAccounts
    <2>2. draft' = draft /\ IsFiniteSet(DOMAIN accounts')
        BY <1>5, <2>1, FS_AddElement DEF InsertAccount, ChartInv
    <2>3. making[k].pc = "insert" /\ making' = [making EXCEPT ![k].pc = "persist"]
        BY <1>5 DEF InsertAccount
    <2>4. /\ making'[k].pc = "persist"
          /\ \A j \in Creators \ {k} : making'[j] = making[j]
        BY <1>2, <2>3 DEF Making
    <2>5. \A j \in Creators \ {k} : making[j].pc = "insert" => making[j].account # a
        BY <2>0, <2>3 DEF ChartInv, Fresh
    <2>6. Fresh'
        BY <2>1, <2>4, <2>5 DEF ChartInv, Fresh
    <2> QED
        BY <1>3, <2>1, <2>2, <2>6 DEF ChartInv
<1>6. ASSUME NEW k \in Creators, PersistAccount(k)
      PROVE  ChartInv'
    <2>1. UNCHANGED <<accounts, draft>> /\ making' = [making EXCEPT ![k] = NotMaking]
        BY <1>6 DEF PersistAccount
    <2>2. making'[k].pc = "idle" /\ \A j \in Creators \ {k} : making'[j] = making[j]
        BY <1>2, <2>1, IdleType
    <2>3. Fresh'
        BY <2>1, <2>2 DEF ChartInv, Fresh
    <2> QED
        BY <1>3, <2>1, <2>3 DEF ChartInv, AccountsStay
<1>7. CASE UpdateAccount
    <2>1. accounts' = accounts /\ making' = making /\ draft' = {}
        BY <1>7 DEF UpdateAccount, ChartInv
    <2> QED
        BY <1>3, <2>1 DEF ChartInv, Fresh, AccountsStay
<1>8. ASSUME NEW a \in Accounts, GetAccount(a) \/ DeleteAccount(a)
      PROVE  ChartInv'
    BY <1>8 DEF GetAccount, DeleteAccount, NoEdits
<1> QED
    BY <1>4, <1>5, <1>6, <1>7, <1>8 DEF Manage

LEMMA NextChart ==
    ASSUME NoEdits, TypeInv, ChartInv, [Next]_vars
    PROVE  ChartInv'
<1>1. CASE UNCHANGED vars
    BY <1>1, ChartApart DEF vars, maps, AccountsStay
<1> QED
    BY <1>1, BeginChart, RecordChart, ManageChart DEF Next

-----------------------------------------------------------------------------
(* The trial balance.                                                      *)

\* What transaction t adds to the debit side and to the credit side of the
\* accounts D.
DebitChange(t, D) == [a \in D |-> IF DebitNormal(a) THEN Change(t, a) ELSE 0]
CreditChange(t, D) == [a \in D |-> IF DebitNormal(a) THEN 0 ELSE Change(t, a)]

\* Of a transaction that balances, and whose accounts are all in D, the two
\* sides are the same.
LEMMA BothSides ==
    ASSUME NEW t \in Txns, IsBalanced(t),
           NEW D, D \subseteq Accounts, IsFiniteSet(D), Mentioned(t) \subseteq D
    PROVE  SumFunction(DebitChange(t, D)) = SumFunction(CreditChange(t, D))
<1> DEFINE M == Mentioned(t)
           x == DebitChange(t, M)
           y == CreditChange(t, M)
           d == [a \in M |-> Entries[t][a].debit]
           k == [a \in M |-> Entries[t][a].credit]
           h == [a \in M |-> Entries[t][a].debit - Entries[t][a].credit]
<1>1. IsFiniteSet(M) /\ M \subseteq Accounts /\ M \in SUBSET D
    BY AccountingAssumption DEF Mentioned
<1>2. \A a \in M : Entries[t][a].debit \in Int /\ Entries[t][a].credit \in Int
    BY AccountingAssumption DEF Mentioned
<1>3. \A a \in D : Change(t, a) \in Int
    BY ChangeType
<1>4. \A a \in D \ M : Change(t, a) = 0
    BY DEF Change
<1>5. SumFunction(DebitChange(t, D)) = SumFunction(x)
    <2> DEFINE f == DebitChange(t, D)
    <2>1. f \in [D -> Int] /\ \A a \in D \ M : f[a] = 0
        BY <1>3, <1>4 DEF DebitChange
    <2>2. Restrict(f, M) = x
        BY <1>1 DEF Restrict, DebitChange
    <2> HIDE DEF f, x, M
    <2>3. SumFunction(f) = SumFunction(Restrict(f, M))
        BY <1>1, <2>1, SumZeros
    <2> QED
        BY <2>2, <2>3 DEF f
<1>6. SumFunction(CreditChange(t, D)) = SumFunction(y)
    <2> DEFINE f == CreditChange(t, D)
    <2>1. f \in [D -> Int] /\ \A a \in D \ M : f[a] = 0
        BY <1>3, <1>4 DEF CreditChange
    <2>2. Restrict(f, M) = y
        BY <1>1 DEF Restrict, CreditChange
    <2> HIDE DEF f, y, M
    <2>3. SumFunction(f) = SumFunction(Restrict(f, M))
        BY <1>1, <2>1, SumZeros
    <2> QED
        BY <2>2, <2>3 DEF f
<1>7. x \in [M -> Int] /\ y \in [M -> Int] /\ d \in [M -> Int] /\ k \in [M -> Int]
    BY <1>1, <1>2, <1>3 DEF DebitChange, CreditChange
<1>8. h = [a \in M |-> d[a] - k[a]]
    OBVIOUS
<1>9. h = [a \in M |-> x[a] - y[a]]
    <2>1. ASSUME NEW a \in M
          PROVE  x[a] - y[a] = Entries[t][a].debit - Entries[t][a].credit
        BY <1>2 DEF DebitChange, CreditChange, Change
    <2> QED
        BY <2>1
<1>10. SumFunction(d) = SumFunction(k)
    BY DEF IsBalanced, SumOver
<1> HIDE DEF M, x, y, d, k, h
<1>11. SumFunction(h) = SumFunction(d) - SumFunction(k)
    BY <1>1, <1>7, <1>8, SumMinus
<1>12. SumFunction(h) = SumFunction(x) - SumFunction(y)
    BY <1>1, <1>7, <1>9, SumMinus
<1>13. /\ SumFunction(x) \in Int /\ SumFunction(y) \in Int
       /\ SumFunction(d) \in Int /\ SumFunction(k) \in Int
    BY <1>1, <1>7, SumSplit
<1> QED
    BY <1>5, <1>6, <1>10, <1>11, <1>12, <1>13

\* The balances on either side.
Debits == [a \in DOMAIN accounts |-> IF DebitNormal(a) THEN accounts[a].balance ELSE 0]
Credits == [a \in DOMAIN accounts |-> IF DebitNormal(a) THEN 0 ELSE accounts[a].balance]

LEMMA TrialBalanceMeans ==
    TrialBalance <=> SumFunction(Debits) = SumFunction(Credits)
    BY DEF TrialBalance, SumOver, Balance, Debits, Credits

LEMMA SidesType ==
    ASSUME TypeInv
    PROVE  Debits \in [DOMAIN accounts -> Int] /\ Credits \in [DOMAIN accounts -> Int]
    BY DEF TypeInv, TypeOK, Debits, Credits

LEMMA InitBalanced == Init => TrialBalance
<1> SUFFICES ASSUME Init
             PROVE  TrialBalance
    OBVIOUS
<1>1. \A a \in DOMAIN accounts : accounts[a].balance = 0
    BY DEF Init, NewAccount
<1>2. Debits = Credits
    BY <1>1 DEF Debits, Credits
<1> QED
    BY <1>2, TrialBalanceMeans

LEMMA PostBalanced ==
    ASSUME TypeInv, ChartInv, TrialBalance, NEW c \in Recorders, Post(c)
    PROVE  TrialBalance'
<1>0. PICK t, D : t = calls[c].txn /\ D = DOMAIN accounts
    OBVIOUS
<1>1. t \in Txns /\ IsBalanced(t) /\ D \subseteq Accounts /\ IsFiniteSet(D)
      /\ Mentioned(t) \subseteq D
    <2>1. calls[c].pc = "post"
        BY DEF Post, Step
    <2>2. calls[c].txn \in Txns
        BY <2>1, CallTxn
    <2>3. DOMAIN accounts \subseteq Accounts
        BY DEF TypeInv, TypeOK
    <2> QED
        BY <1>0, <2>1, <2>2, <2>3 DEF ChartInv, Checked, Busy, Posting
<1>2. DOMAIN accounts' = D
      /\ \A a \in D : /\ accounts[a].balance \in Int /\ Change(t, a) \in Int
                      /\ accounts'[a].balance = accounts[a].balance + Change(t, a)
    BY <1>0, PostAccounts
<1>3. Debits' = [a \in D |-> Debits[a] + DebitChange(t, D)[a]]
    <2>1. ASSUME NEW a \in D
          PROVE  Debits'[a] = Debits[a] + DebitChange(t, D)[a]
        BY <1>0, <1>2 DEF Debits, DebitChange
    <2>2. Debits' = [a \in D |-> Debits'[a]]
        BY <1>2 DEF Debits
    <2> QED
        BY <2>1, <2>2
<1>4. Credits' = [a \in D |-> Credits[a] + CreditChange(t, D)[a]]
    <2>1. ASSUME NEW a \in D
          PROVE  Credits'[a] = Credits[a] + CreditChange(t, D)[a]
        BY <1>0, <1>2 DEF Credits, CreditChange
    <2>2. Credits' = [a \in D |-> Credits'[a]]
        BY <1>2 DEF Credits
    <2> QED
        BY <2>1, <2>2
<1>5. Debits \in [D -> Int] /\ Credits \in [D -> Int]
    BY <1>0, SidesType
<1>6. DebitChange(t, D) \in [D -> Int] /\ CreditChange(t, D) \in [D -> Int]
    BY <1>2 DEF DebitChange, CreditChange
<1>7. SumFunction(Debits') = SumFunction(Debits) + SumFunction(DebitChange(t, D))
    BY <1>1, <1>3, <1>5, <1>6, SumPlus
<1>8. SumFunction(Credits') = SumFunction(Credits) + SumFunction(CreditChange(t, D))
    BY <1>1, <1>4, <1>5, <1>6, SumPlus
<1>9. SumFunction(DebitChange(t, D)) = SumFunction(CreditChange(t, D))
    BY <1>1, BothSides
<1>10. SumFunction(Debits) = SumFunction(Credits)
    BY TrialBalanceMeans
<1>11. SumFunction(Debits)' = SumFunction(Credits)'
    BY <1>7, <1>8, <1>9, <1>10
<1> QED
    BY <1>11 DEF TrialBalance, SumOver, Balance, Debits, Credits

LEMMA InsertAccountBalanced ==
    ASSUME TypeInv, ChartInv, TrialBalance, NEW k \in Creators, InsertAccount(k)
    PROVE  TrialBalance'
<1>0. PICK a, D : a = making[k].account /\ D = DOMAIN accounts
    OBVIOUS
<1>1. /\ a \notin D /\ DOMAIN accounts' = D \cup {a}
      /\ accounts'[a].balance = 0 /\ \A b \in D : accounts'[b] = accounts[b]
    <2>1. /\ a \notin D /\ DOMAIN accounts' = D \cup {a}
          /\ accounts'[a] = NewAccount(a) /\ \A b \in D : accounts'[b] = accounts[b]
        BY <1>0, InsertAccountAccounts
    <2> QED
        BY <2>1 DEF NewAccount
<1>2. IsFiniteSet(D \cup {a}) /\ D \in SUBSET (D \cup {a})
    BY <1>0, FS_AddElement DEF ChartInv
<1>3. Debits \in [D -> Int] /\ Credits \in [D -> Int]
    BY <1>0, SidesType
<1>4. /\ Debits' \in [D \cup {a} -> Int] /\ Restrict(Debits', D) = Debits
      /\ \A b \in (D \cup {a}) \ D : Debits'[b] = 0
    <2>1. /\ DOMAIN Debits' = D \cup {a} /\ Debits'[a] = 0
          /\ \A b \in D : Debits'[b] = Debits[b]
        BY <1>0, <1>1 DEF Debits
    <2>2. Debits' = [b \in D \cup {a} |-> Debits'[b]] /\ Debits = [b \in D |-> Debits[b]]
        BY <1>0, <1>1 DEF Debits
    <2> QED
        BY <1>3, <2>1, <2>2 DEF Restrict
<1>5. /\ Credits' \in [D \cup {a} -> Int] /\ Restrict(Credits', D) = Credits
      /\ \A b \in (D \cup {a}) \ D : Credits'[b] = 0
    <2>1. /\ DOMAIN Credits' = D \cup {a} /\ Credits'[a] = 0
          /\ \A b \in D : Credits'[b] = Credits[b]
        BY <1>0, <1>1 DEF Credits
    <2>2. Credits' = [b \in D \cup {a} |-> Credits'[b]] /\ Credits = [b \in D |-> Credits[b]]
        BY <1>0, <1>1 DEF Credits
    <2> QED
        BY <1>3, <2>1, <2>2 DEF Restrict
<1>6. SumFunction(Debits') = SumFunction(Debits)
    BY <1>2, <1>4, SumZeros
<1>7. SumFunction(Credits') = SumFunction(Credits)
    BY <1>2, <1>5, SumZeros
<1>8. SumFunction(Debits) = SumFunction(Credits)
    BY TrialBalanceMeans
<1>9. SumFunction(Debits)' = SumFunction(Credits)'
    BY <1>6, <1>7, <1>8
<1> QED
    BY <1>9 DEF TrialBalance, SumOver, Balance, Debits, Credits

LEMMA SameAccounts ==
    ASSUME TrialBalance, accounts' = accounts
    PROVE  TrialBalance'
    BY DEF TrialBalance, SumOver, Balance

\* The other steps leave the accounts alone.
LEMMA AccountsAlone ==
    ASSUME NoEdits, ChartInv, [Next]_vars,
           \A c \in Recorders : ~Post(c), \A k \in Creators : ~InsertAccount(k)
    PROVE  accounts' = accounts
<1>1. CASE UNCHANGED vars
    BY <1>1 DEF vars, maps
<1>2. ASSUME NEW c \in Recorders, (\E t \in Txns : Begin(c, t)) \/ Record(c) \/ Cancel(c)
      PROVE  accounts' = accounts
    <2>1. ASSUME NEW t \in Txns, Begin(c, t)
          PROVE  accounts' = accounts
        BY <2>1 DEF Begin, maps
    <2>2. ASSUME NEW a, Validate(c, a)
          PROVE  accounts' = accounts
        BY <2>2 DEF Validate, maps
    <2>3. CASE DrawNumber(c) \/ Persist(c) \/ Cancel(c)
        BY <2>3 DEF DrawNumber, Persist, Cancel, maps
    <2>4. CASE Store(c) \/ CreateJournal(c) \/ Link(c)
        BY <2>4 DEF Store, CreateJournal, Link
    <2> QED
        BY <1>2, <2>1, <2>2, <2>3, <2>4 DEF Record
<1>3. CASE Manage
    <2>1. ASSUME NEW k \in Creators, NEW a \in Accounts, CheckNumber(k, a)
          PROVE  accounts' = accounts
        BY <2>1 DEF CheckNumber
    <2>2. ASSUME NEW k \in Creators, PersistAccount(k)
          PROVE  accounts' = accounts
        BY <2>2 DEF PersistAccount
    <2>3. ASSUME NEW a \in Accounts, GetAccount(a) \/ DeleteAccount(a)
          PROVE  FALSE
        BY <2>3 DEF GetAccount, DeleteAccount, NoEdits
    <2>4. CASE UpdateAccount
        BY <2>4 DEF UpdateAccount, ChartInv
    <2> QED
        BY <1>3, <2>1, <2>2, <2>3, <2>4 DEF Manage
<1> QED
    BY <1>1, <1>2, <1>3 DEF Next

LEMMA NextBalanced ==
    ASSUME NoEdits, TypeInv, ChartInv, TrialBalance, [Next]_vars
    PROVE  TrialBalance'
    BY PostBalanced, InsertAccountBalanced, AccountsAlone, SameAccounts

\* Where no account is edited or deleted, debit balances and credit balances
\* are equal at every moment, whatever calls are repeated, or dropped half way,
\* and whatever writes fail.
THEOREM BalanceKept ==
    ASSUME NoEdits
    PROVE  Spec => []TrialBalance
<1>1. Init => TypeInv /\ ChartInv /\ TrialBalance
    BY InitType, InitChart, InitBalanced
<1>2. TypeInv /\ ChartInv /\ TrialBalance /\ [Next]_vars
          => (TypeInv /\ ChartInv /\ TrialBalance)'
    BY NextType, NextChart, NextBalanced
<1> QED
    BY <1>1, <1>2, PTL DEF Spec

-----------------------------------------------------------------------------
(* The rows of the database.                                               *)

\* Calls may be repeated; none is dropped, and no write fails.
OnlyReplays == Hazards \subseteq {"replay"}

\* A call has updated the balance of account a, and has yet to write its row.
Behind(a) ==
    \E c \in Recorders :
        calls[c].pc \in Posting \ {"post"} /\ a \in Mentioned(calls[c].txn)

RowsInv ==
    /\ Chart \subseteq DOMAIN accounts
    /\ \A k \in Creators : making[k].pc # "idle" => making[k].account \notin Chart
    /\ \A r \in rows :
          r.id \in Chart => r.balance = accounts[r.id].balance \/ Behind(r.id)

LEMMA InitRows == Init => RowsInv
<1> SUFFICES ASSUME Init
             PROVE  RowsInv
    OBVIOUS
<1>1. DOMAIN accounts = Chart /\ \A a \in Chart : accounts[a].balance = 0
    BY DEF Init, NewAccount
<1>2. \A r \in rows : r.balance = 0
    BY DEF Init, SeedRows, Row
<1>3. \A k \in Creators : making[k].pc = "idle"
    BY IdleType DEF Init
<1> QED
    BY <1>1, <1>2, <1>3 DEF RowsInv

LEMMA RowsHold ==
    ASSUME RowsInv
    PROVE  RowsFollow
    BY DEF RowsInv, RowsFollow, Behind, CounterFree

\* Steps that write nothing.
LEMMA RowsApart ==
    ASSUME RowsInv, rows' = rows, DOMAIN accounts \subseteq DOMAIN accounts',
           \A a \in DOMAIN accounts : accounts'[a].balance = accounts[a].balance,
           \A k \in Creators : making'[k].pc # "idle" => making'[k].account \notin Chart,
           \A a : Behind(a) => Behind(a)'
    PROVE  RowsInv'
    BY DEF RowsInv

\* A call that is not through with its transaction.
LEMMA BehindStays ==
    ASSUME NEW c \in Recorders, Alone(c),
           calls[c].pc \in Posting \ {"post"} =>
               calls'[c].pc \in Posting \ {"post"} /\ calls'[c].txn = calls[c].txn
    PROVE  \A a : Behind(a) => Behind(a)'
    BY DEF Behind, Alone

LEMMA PostRows ==
    ASSUME TypeInv, LinkInv, ChartInv, RowsInv, NEW c \in Recorders, Post(c)
    PROVE  RowsInv'
<1>0. PICK t : t = calls[c].txn
    OBVIOUS
<1>1. Goes(c, "post", "store") /\ rows' = rows /\ making' = making
    BY GotoMoves DEF Post, Posting, Others
<1>2. /\ DOMAIN accounts' = DOMAIN accounts
      /\ \A a \in DOMAIN accounts :
            /\ accounts[a].balance \in Int
            /\ accounts'[a].balance = accounts[a].balance + Change(t, a)
    BY <1>0, PostAccounts
<1>3. ASSUME NEW r \in rows, r.id \in Chart
      PROVE  r.balance = accounts'[r.id].balance \/ Behind(r.id)'
    <2>1. CASE r.id \in Mentioned(t)
        BY <1>0, <1>1, <2>1 DEF Goes, Behind, Posting
    <2>2. CASE r.id \notin Mentioned(t)
        <3>1. ~Behind(r.id)
            BY <1>1 DEF Goes, Behind, LinkInv, Posting
        <3>2. r.balance = accounts[r.id].balance /\ r.id \in DOMAIN accounts
            BY <1>3, <3>1 DEF RowsInv
        <3>3. Change(t, r.id) = 0
            BY <2>2 DEF Change
        <3> QED
            BY <1>2, <3>2, <3>3
    <2> QED
        BY <2>1, <2>2
<1> QED
    BY <1>1, <1>2, <1>3 DEF RowsInv

LEMMA PersistRows ==
    ASSUME OnlyReplays, TypeInv, LinkInv, RowsInv, NEW c \in Recorders, Persist(c)
    PROVE  RowsInv'
<1>0. PICK t : t = calls[c].txn
    OBVIOUS
<1>1. UNCHANGED <<accounts, making>> /\ rows' = BalancesWritten(t, Mentioned(t))
    BY <1>0 DEF Persist, OnlyReplays, maps, Others
<1>2. ASSUME NEW r \in rows', r.id \in Chart
      PROVE  r.balance = accounts[r.id].balance
    <2>1. PICK q \in rows :
              r = IF q.id \notin Mentioned(t) THEN q
                  ELSE IF q.id \in DOMAIN accounts
                       THEN [q EXCEPT !.balance = accounts[q.id].balance]
                  ELSE [q EXCEPT !.balance = Entries[t][q.id].debit + Entries[t][q.id].credit]
        BY <1>1 DEF BalancesWritten
    <2>2. q \in RowRecord
        BY AccountsType
    <2>3. r.id = q.id
        BY <2>1, <2>2 DEF RowRecord
    <2>4. CASE q.id \in Mentioned(t)
        <3>1. q.id \in DOMAIN accounts
            BY <1>2, <2>3 DEF RowsInv
        <3> QED
            BY <2>1, <2>2, <2>4, <3>1 DEF RowRecord
    <2>5. CASE q.id \notin Mentioned(t)
        <3>1. calls[c].pc = "persist"
            BY PersistMoves
        <3>2. ~Behind(q.id)
            BY <1>0, <2>5, <3>1 DEF Behind, LinkInv, Posting
        <3> QED
            BY <1>2, <2>1, <2>3, <2>5, <3>2 DEF RowsInv
    <2> QED
        BY <2>4, <2>5
<1> QED
    BY <1>1, <1>2 DEF RowsInv

LEMMA CallRows ==
    ASSUME OnlyReplays, TypeInv, LinkInv, ChartInv, RowsInv, NEW c \in Recorders,
           (\E t \in Txns : Begin(c, t)) \/ Record(c) \/ Cancel(c)
    PROVE  RowsInv'
<1>1. ASSUME UNCHANGED <<accounts, rows, making>>, \A a : Behind(a) => Behind(a)'
      PROVE  RowsInv'
    BY <1>1, RowsApart DEF RowsInv
<1>2. ASSUME NEW t \in Txns, Begin(c, t)
      PROVE  RowsInv'
    <2>1. calls[c].pc = "idle" /\ Alone(c)
        BY <1>2, BeginMoves DEF Ends
    <2> QED
        BY <1>1, <1>2, <2>1, BehindStays DEF Begin, maps, Others, Posting
<1>3. ASSUME NEW a, Validate(c, a)
      PROVE  RowsInv'
    <2>1. calls[c].pc = "validate" /\ Alone(c)
        BY <1>3, ValidateMoves DEF Ends
    <2> QED
        BY <1>1, <1>3, <2>1, BehindStays DEF Validate, maps, Others, Posting
<1>4. CASE DrawNumber(c)
    <2>1. calls[c].pc = "validate" /\ Alone(c)
        BY <1>4, DrawNumberMoves
    <2> QED
        BY <1>1, <1>4, <2>1, BehindStays DEF DrawNumber, maps, Others, Posting
<1>5. CASE Store(c)
    <2>1. Goes(c, "store", "journal")
        BY <1>5, GotoMoves DEF Store, Posting
    <2> QED
        BY <1>1, <1>5, <2>1, BehindStays DEF Store, Others, Goes, Posting
<1>6. CASE CreateJournal(c)
    <2>1. /\ calls'[c].pc = "link" /\ calls'[c].txn = calls[c].txn /\ Alone(c)
        BY <1>6, CreateJournalMoves
    <2> QED
        BY <1>1, <1>6, <2>1, BehindStays DEF CreateJournal, Others, Posting
<1>7. CASE Link(c)
    <2>1. Goes(c, "link", "persist")
        BY <1>7, GotoMoves DEF Link, Posting
    <2> QED
        BY <1>1, <1>7, <2>1, BehindStays DEF Link, Others, Goes, Posting
<1>8. ~Cancel(c)
    BY DEF Cancel, OnlyReplays
<1> QED
    BY <1>2, <1>3, <1>4, <1>5, <1>6, <1>7, <1>8, PostRows, PersistRows DEF Record

LEMMA ManageRows ==
    ASSUME OnlyReplays, TypeInv, ChartInv, RowsInv, created \in SUBSET Accounts,
           Chart \subseteq created, Manage
    PROVE  RowsInv'
<1>1. calls' = calls
    BY ManageApart DEF Unrecorded
<1>2. \A a : Behind(a) => Behind(a)'
    BY <1>1 DEF Behind
<1>3. making \in [Creators -> Making]
    BY DEF TypeInv, TypeOK
<1>4. ASSUME NEW k \in Creators, NEW a \in Accounts, CheckNumber(k, a)
      PROVE  RowsInv'
    <2>1. a \notin Chart /\ UNCHANGED <<accounts, rows>>
        BY <1>4 DEF CheckNumber
    <2>2. /\ making'[k].account = a
          /\ \A j \in Creators \ {k} : making'[j] = making[j]
        BY <1>3, <1>4 DEF CheckNumber
    <2>3. \A j \in Creators : making'[j].pc # "idle" => making'[j].account \notin Chart
        BY <2>1, <2>2 DEF RowsInv
    <2> QED
        BY <1>2, <2>1, <2>3, RowsApart
<1>5. ASSUME NEW k \in Creators, InsertAccount(k)
      PROVE  RowsInv'
    <2>0. PICK a : a = making[k].account
        OBVIOUS
    <2>1. /\ DOMAIN accounts' = DOMAIN accounts \cup {a}
          /\ \A b \in DOMAIN accounts : accounts'[b] = accounts[b]
        <3>1. ChartInv
            OBVIOUS
        <3> QED
            BY <1>5, <2>0, <3>1, InsertAccountAccounts
    <2>2. rows' = rows /\ making' = [making EXCEPT ![k].pc = "persist"]
          /\ making[k].pc # "idle"
        BY <1>5 DEF InsertAccount
    <2>3. making'[k].account = making[k].account
          /\ \A j \in Creators \ {k} : making'[j] = making[j]
        BY <1>3, <2>2 DEF Making
    <2>4. \A j \in Creators : making'[j].pc # "idle" => making'[j].account \notin Chart
        BY <2>2, <2>3 DEF RowsInv
    <2> QED
        BY <1>2, <2>1, <2>2, <2>4, RowsApart
<1>6. ASSUME NEW k \in Creators, PersistAccount(k)
      PROVE  RowsInv'
    <2>1. accounts' = accounts /\ rows' = Created(rows, making[k].account)
          /\ making' = [making EXCEPT ![k] = NotMaking] /\ making[k].pc # "idle"
        BY <1>6 DEF PersistAccount, OnlyReplays
    <2>2. making'[k].pc = "idle" /\ \A j \in Creators \ {k} : making'[j] = making[j]
        BY <1>3, <2>1, IdleType
    <2>3. ASSUME NEW r \in rows', r.id \in Chart
          PROVE  r \in rows
        <3>1. making[k].account \notin Chart
            BY <2>1 DEF RowsInv
        <3> QED
            BY <2>1, <2>3, <3>1 DEF Created, Row
    <2> QED
        BY <1>2, <2>1, <2>2, <2>3 DEF RowsInv
<1>7. CASE UpdateAccount
    <2>1. UNCHANGED <<accounts, making, rows>>
        BY <1>7 DEF UpdateAccount, ChartInv
    <2> QED
        BY <1>2, <2>1, RowsApart DEF RowsInv
<1>8. ASSUME NEW a \in Accounts, GetAccount(a) \/ DeleteAccount(a)
      PROVE  RowsInv'
    BY <1>8 DEF GetAccount, DeleteAccount, OnlyReplays
<1> QED
    BY <1>4, <1>5, <1>6, <1>7, <1>8 DEF Manage

LEMMA NextRows ==
    ASSUME OnlyReplays, TypeInv, LinkInv, ChartInv, RowsInv, [Next]_vars
    PROVE  RowsInv'
<1>1. CASE UNCHANGED vars
    BY <1>1 DEF vars, maps, RowsInv, Behind
<1>2. created \in SUBSET Accounts /\ Chart \subseteq created
    BY DEF TypeInv, TypeOK, RowsInv
<1> QED
    BY <1>1, <1>2, CallRows, ManageRows DEF Next

\* Where no account is edited, no call is dropped and no write fails, the rows
\* of the accounts that initialize() creates have the balances in memory
\* whenever nothing is being posted, also where transactions are repeated.
THEOREM RowsKept ==
    ASSUME OnlyReplays
    PROVE  Spec => []RowsFollow
<1>1. NoEdits
    BY DEF OnlyReplays, NoEdits
<1>2. Init => TypeInv /\ LinkInv /\ ChartInv /\ RowsInv
    BY InitType, InitLinked, InitChart, InitRows
<1>3. TypeInv /\ LinkInv /\ ChartInv /\ RowsInv /\ [Next]_vars
          => (TypeInv /\ LinkInv /\ ChartInv /\ RowsInv)'
    BY <1>1, NextType, NextLinked, NextChart, NextRows
<1>4. RowsInv => RowsFollow
    BY RowsHold
<1> QED
    BY <1>2, <1>3, <1>4, PTL DEF Spec

-----------------------------------------------------------------------------
(* The statements.                                                         *)

\* Every call comes once and is driven to its end; writes may fail.
OnlyFailures == Hazards \subseteq {"db_error"}

\* The balances are made of the transactions that are numbered and posted.
EarnedInv ==
    /\ IsFiniteSet(Numbered)
    /\ \A t \in Numbered :
          t \in Txns /\ IsBalanced(t) /\ Mentioned(t) \subseteq DOMAIN accounts
    /\ \A a \in DOMAIN accounts :
          accounts[a].balance = SumFunction([t \in Numbered |-> Change(t, a)])

LEMMA InitEarned == Init => EarnedInv
<1> SUFFICES ASSUME Init
             PROVE  EarnedInv
    OBVIOUS
<1>1. Numbered = {}
    BY IdleType DEF Init, Numbered
<1>2. \A a \in DOMAIN accounts : accounts[a].balance = 0
    BY DEF Init, NewAccount
<1>3. ASSUME NEW a
      PROVE  SumFunction([t \in Numbered |-> Change(t, a)]) = 0
    <2>1. [t \in Numbered |-> Change(t, a)] \in [{} -> Int]
        BY <1>1
    <2> QED
        BY <2>1, SumNone
<1> QED
    BY <1>1, <1>2, <1>3, FS_EmptySet DEF EarnedInv

\* One transaction more.
LEMMA OneMore ==
    ASSUME NEW S, IsFiniteSet(S), S \subseteq Txns, NEW u \in Txns \ S,
           NEW a \in Accounts
    PROVE  SumFunction([t \in S \cup {u} |-> Change(t, a)])
               = SumFunction([t \in S |-> Change(t, a)]) + Change(u, a)
<1> DEFINE f == [t \in S \cup {u} |-> Change(t, a)]
           g == [t \in S |-> Change(t, a)]
<1>1. IsFiniteSet(S \cup {u}) /\ u \in S \cup {u} /\ (S \cup {u}) \ {u} = S
    BY FS_AddElement
<1>2. f \in [S \cup {u} -> Int] /\ g \in [S -> Int] /\ f[u] = Change(u, a) /\ f[u] \in Int
    BY ChangeType
<1>3. [t \in (S \cup {u}) \ {u} |-> f[t]] = g
    BY <1>1
<1> HIDE DEF f, g
<1>4. SumFunction(f) = f[u] + SumFunction([t \in (S \cup {u}) \ {u} |-> f[t]])
    BY <1>1, <1>2, SumSplit
<1>5. SumFunction(g) \in Int
    BY <1>2, SumSplit
<1>6. SumFunction(f) = SumFunction(g) + Change(u, a)
    BY <1>2, <1>3, <1>4, <1>5
<1> QED
    BY <1>6 DEF f, g

LEMMA EarnedType ==
    ASSUME TypeInv, EarnedInv
    PROVE  DOMAIN accounts \subseteq Accounts /\ Numbered \subseteq Txns
    BY DEF TypeInv, TypeOK, EarnedInv

LEMMA PostEarned ==
    ASSUME TypeInv, LinkInv, NumbersInv, ChartInv, EarnedInv,
           NEW c \in Recorders, Post(c)
    PROVE  EarnedInv' /\ calls[c].txn \notin Numbered
           /\ Numbered' = Numbered \cup {calls[c].txn}
<1>0. PICK u, S : u = calls[c].txn /\ S = Numbered
    OBVIOUS
<1>1. Goes(c, "post", "store") /\ transactions' = transactions
    BY GotoMoves DEF Post, Posting
<1>2. \A d \in Recorders \ {c} : calls'[d] = calls[d] /\ calls[d].pc \notin Posting
    BY <1>1, OnlyPoster DEF Goes, Posting
<1>3. S = DOMAIN transactions
    BY <1>0, <1>1, <1>2 DEF Goes, Numbered, Posting
<1>4. Numbered' = S \cup {u}
    BY <1>0, <1>1, <1>2, <1>3 DEF Goes, Numbered, Posting
<1>5. u \in Txns /\ u \notin S
    BY <1>0, <1>1, <1>3, CallTxn DEF Goes, NumbersInv, CallInStep
<1>6. IsBalanced(u) /\ Mentioned(u) \subseteq DOMAIN accounts
    BY <1>0, <1>1 DEF Goes, ChartInv, Checked, Busy, Posting
<1>7. /\ DOMAIN accounts' = DOMAIN accounts /\ DOMAIN accounts \subseteq Accounts
      /\ \A a \in DOMAIN accounts : accounts'[a].balance = accounts[a].balance + Change(u, a)
    BY <1>0, PostAccounts, EarnedType
<1>8. IsFiniteSet(S) /\ S \subseteq Txns
    BY <1>0, EarnedType DEF EarnedInv
<1>9. IsFiniteSet(S \cup {u})
    BY <1>8, FS_AddElement
<1>10. ASSUME NEW a \in DOMAIN accounts
       PROVE  accounts'[a].balance = SumFunction([t \in Numbered' |-> Change(t, a)])
    <2>1. accounts[a].balance = SumFunction([t \in S |-> Change(t, a)])
        BY <1>0 DEF EarnedInv
    <2>2. SumFunction([t \in S \cup {u} |-> Change(t, a)])
              = SumFunction([t \in S |-> Change(t, a)]) + Change(u, a)
        BY <1>5, <1>7, <1>8, OneMore
    <2> QED
        BY <1>4, <1>7, <2>1, <2>2
<1>11. \A t \in S \cup {u} :
           t \in Txns /\ IsBalanced(t) /\ Mentioned(t) \subseteq DOMAIN accounts'
    BY <1>0, <1>5, <1>6, <1>7 DEF EarnedInv
<1> QED
    BY <1>0, <1>4, <1>5, <1>7, <1>9, <1>10, <1>11 DEF EarnedInv

LEMMA InsertAccountEarned ==
    ASSUME TypeInv, ChartInv, EarnedInv, NEW k \in Creators, InsertAccount(k),
           Numbered' = Numbered
    PROVE  EarnedInv'
<1>0. PICK a : a = making[k].account
    OBVIOUS
<1>1. /\ a \notin DOMAIN accounts /\ DOMAIN accounts' = DOMAIN accounts \cup {a}
      /\ accounts'[a].balance = 0 /\ \A b \in DOMAIN accounts : accounts'[b] = accounts[b]
    <2>1. /\ a \notin DOMAIN accounts /\ DOMAIN accounts' = DOMAIN accounts \cup {a}
          /\ accounts'[a] = NewAccount(a)
          /\ \A b \in DOMAIN accounts : accounts'[b] = accounts[b]
        BY <1>0, InsertAccountAccounts
    <2> QED
        BY <2>1 DEF NewAccount
<1>2. [t \in Numbered |-> Change(t, a)] = [t \in Numbered |-> 0]
    BY <1>1 DEF EarnedInv, Change
<1>3. SumFunction([t \in Numbered |-> Change(t, a)]) = 0
    BY <1>2, SumZero DEF EarnedInv
<1> QED
    BY <1>1, <1>3 DEF EarnedInv

\* The steps that take up no transaction.
LEMMA NumberedApart ==
    ASSUME NEW c \in Recorders, Alone(c),
           calls[c].pc # "store", calls'[c].pc # "store",
           DOMAIN transactions' = DOMAIN transactions
    PROVE  Numbered' = Numbered
<1>1. \A d \in Recorders : calls'[d] = calls[d]
          \/ (calls[d].pc # "store" /\ calls'[d].pc # "store")
    BY DEF Alone
<1> QED
    BY <1>1 DEF Numbered

LEMMA NumberedStays ==
    ASSUME OnlyFailures, TypeInv, LinkInv, NumbersInv, [Next]_vars,
           \A c \in Recorders : ~Post(c)
    PROVE  Numbered' = Numbered
<1>1. CASE UNCHANGED vars
    BY <1>1 DEF vars, maps, Numbered
<1>2. CASE Manage
    BY <1>2, ManageApart DEF Unrecorded, Numbered
<1>3. ASSUME NEW c \in Recorders, NEW t \in Txns, Begin(c, t)
      PROVE  Numbered' = Numbered
    <2>1. /\ calls[c].pc = "idle" /\ Alone(c)
          /\ calls'[c].pc = "idle" \/ calls'[c].pc = "validate"
        BY <1>3, BeginMoves DEF Ends
    <2> QED
        BY <1>3, <2>1, NumberedApart DEF Begin, maps
<1>4. ASSUME NEW c \in Recorders, NEW a, Validate(c, a)
      PROVE  Numbered' = Numbered
    <2>1. /\ calls[c].pc = "validate" /\ Alone(c)
          /\ calls'[c].pc = "idle" \/ calls'[c].pc = "validate"
        BY <1>4, ValidateMoves DEF Ends
    <2> QED
        BY <1>4, <2>1, NumberedApart DEF Validate, maps
<1>5. ASSUME NEW c \in Recorders, DrawNumber(c)
      PROVE  Numbered' = Numbered
    <2>1. calls[c].pc = "validate" /\ calls'[c].pc = "post" /\ Alone(c)
        BY <1>5, DrawNumberMoves
    <2> QED
        BY <1>5, <2>1, NumberedApart DEF DrawNumber, maps
<1>6. ASSUME NEW c \in Recorders, Store(c)
      PROVE  Numbered' = Numbered
    <2>1. Goes(c, "store", "journal")
        BY <1>6, GotoMoves DEF Store, Posting
    <2>2. DOMAIN transactions' = DOMAIN transactions \cup {calls[c].txn}
        BY <1>6 DEF Store, Insert
    <2>3. \A d \in Recorders \ {c} : calls'[d] = calls[d]
        BY <2>1 DEF Goes, Alone
    <2> QED
        BY <2>1, <2>2, <2>3 DEF Goes, Numbered
<1>7. ASSUME NEW c \in Recorders, CreateJournal(c)
      PROVE  Numbered' = Numbered
    <2>1. calls[c].pc = "journal" /\ calls'[c].pc = "link" /\ Alone(c)
        BY <1>7, CreateJournalMoves
    <2> QED
        BY <1>7, <2>1, NumberedApart DEF CreateJournal
<1>8. ASSUME NEW c \in Recorders, Link(c)
      PROVE  Numbered' = Numbered
    <2>1. Goes(c, "link", "persist")
        BY <1>8, GotoMoves DEF Link, Posting
    <2>2. DOMAIN transactions' = DOMAIN transactions \cup {calls[c].txn}
        BY <1>8 DEF Link, Insert
    <2>3. calls[c].txn \in DOMAIN transactions
        BY <2>1 DEF Goes, NumbersInv, CallInStep
    <2> QED
        BY <2>1, <2>2, <2>3, NumberedApart DEF Goes
<1>9. ASSUME NEW c \in Recorders, Persist(c)
      PROVE  Numbered' = Numbered
    <2>1. calls[c].pc = "persist" /\ calls'[c].pc = "idle" /\ Alone(c)
        BY <1>9, PersistMoves DEF Ends
    <2> QED
        BY <1>9, <2>1, NumberedApart DEF Persist, maps
<1>10. \A c \in Recorders : ~Cancel(c)
    BY DEF Cancel, OnlyFailures
<1> QED
    BY <1>1, <1>2, <1>3, <1>4, <1>5, <1>6, <1>7, <1>8, <1>9, <1>10 DEF Next, Record

LEMMA OnlyFailuresMeans == OnlyFailures => NoEdits /\ NoRepeats
    BY DEF OnlyFailures, NoEdits, NoRepeats

LEMMA NextEarned ==
    ASSUME OnlyFailures, TypeInv, LinkInv, NumbersInv, ChartInv, EarnedInv, [Next]_vars
    PROVE  EarnedInv'
<1>1. ASSUME NEW c \in Recorders, Post(c)
      PROVE  EarnedInv'
    BY <1>1, PostEarned
<1>2. CASE \A c \in Recorders : ~Post(c)
    <2>1. Numbered' = Numbered
        BY <1>2, NumberedStays
    <2>2. CASE \E k \in Creators : InsertAccount(k)
        BY <2>1, <2>2, InsertAccountEarned
    <2>3. CASE \A k \in Creators : ~InsertAccount(k)
        <3>1. accounts' = accounts
            BY <1>2, <2>3, AccountsAlone, OnlyFailuresMeans
        <3> QED
            BY <2>1, <3>1 DEF EarnedInv
    <2> QED
        BY <2>2, <2>3
<1> QED
    BY <1>1, <1>2

\* What transaction t does to the balances of one kind, in the accounts D.
KindChange(kind, t, D) ==
    SumFunction([a \in D |-> IF KindOf[a] = kind THEN Change(t, a) ELSE 0])

\* The entries of one transaction change assets and expenses by as much as
\* liabilities, equity and revenues.
LEMMA KindsBalance ==
    ASSUME NEW t \in Txns, IsBalanced(t),
           NEW D, D \subseteq Accounts, IsFiniteSet(D), Mentioned(t) \subseteq D
    PROVE  /\ \A kind \in Kinds : KindChange(kind, t, D) \in Int
           /\ KindChange("Asset", t, D) + KindChange("Expense", t, D)
                  = KindChange("Liability", t, D) + KindChange("Equity", t, D)
                        + KindChange("Revenue", t, D)
<1> DEFINE f(kind) == [a \in D |-> IF KindOf[a] = kind THEN Change(t, a) ELSE 0]
<1>1. \A a \in D : Change(t, a) \in Int /\ KindOf[a] \in Kinds
    BY ChangeType, AccountingAssumption
<1>2. \A kind \in Kinds : f(kind) \in [D -> Int]
    BY <1>1
<1>3. \A kind : KindChange(kind, t, D) = SumFunction(f(kind))
    BY DEF KindChange
<1>4. DebitChange(t, D) = [a \in D |-> f("Asset")[a] + f("Expense")[a]]
    <2>1. ASSUME NEW a \in D
          PROVE  (IF DebitNormal(a) THEN Change(t, a) ELSE 0)
                     = f("Asset")[a] + f("Expense")[a]
        BY <1>1 DEF DebitNormal, Kinds
    <2> QED
        BY <2>1 DEF DebitChange
<1>5. PICK g : g = [a \in D |-> f("Liability")[a] + f("Equity")[a]]
    OBVIOUS
<1>6. CreditChange(t, D) = [a \in D |-> g[a] + f("Revenue")[a]]
    <2>1. ASSUME NEW a \in D
          PROVE  (IF DebitNormal(a) THEN 0 ELSE Change(t, a)) = g[a] + f("Revenue")[a]
        BY <1>1, <1>5 DEF DebitNormal, Kinds
    <2> QED
        BY <2>1 DEF CreditChange
<1>7. /\ f("Asset") \in [D -> Int] /\ f("Expense") \in [D -> Int]
      /\ f("Liability") \in [D -> Int] /\ f("Equity") \in [D -> Int]
      /\ f("Revenue") \in [D -> Int]
    BY <1>2 DEF Kinds
<1>8. g \in [D -> Int]
    BY <1>5, <1>7
<1> HIDE DEF f
<1>9. \A kind \in Kinds : SumFunction(f(kind)) \in Int
    BY <1>2, SumSplit
<1>10. SumFunction(DebitChange(t, D)) = SumFunction(f("Asset")) + SumFunction(f("Expense"))
    BY <1>4, <1>7, SumPlus
<1>11. SumFunction(g) = SumFunction(f("Liability")) + SumFunction(f("Equity"))
    BY <1>5, <1>7, SumPlus
<1>12. SumFunction(CreditChange(t, D)) = SumFunction(g) + SumFunction(f("Revenue"))
    BY <1>6, <1>7, <1>8, SumPlus
<1>13. SumFunction(DebitChange(t, D)) = SumFunction(CreditChange(t, D))
    BY BothSides
<1> QED
    BY <1>3, <1>9, <1>10, <1>11, <1>12, <1>13

\* The balances of one kind, account by account or transaction by transaction.
LEMMA TotalsSwap ==
    ASSUME TypeInv, ChartInv, EarnedInv, NEW kind
    PROVE  TotalOf(kind) = SumFunction([t \in Numbered |->
                                           KindChange(kind, t, DOMAIN accounts)])
<1>0. PICK D, T, K : D = DOMAIN accounts /\ T = Numbered /\ K = OfKind(kind)
    OBVIOUS
<1> DEFINE f == [a \in D |-> IF KindOf[a] = kind THEN accounts[a].balance ELSE 0]
           m == [a \in D |-> [t \in T |-> IF KindOf[a] = kind THEN Change(t, a) ELSE 0]]
<1>1. IsFiniteSet(D) /\ IsFiniteSet(T) /\ D \subseteq Accounts /\ T \subseteq Txns
    BY <1>0, EarnedType DEF ChartInv, EarnedInv
<1>2. \A t \in T, a \in D : Change(t, a) \in Int
    BY <1>1, ChangeType
<1>3. m \in [D -> [T -> Int]]
    BY <1>2
<1>4. f \in [D -> Int]
    BY <1>0 DEF TypeInv, TypeOK
<1>5. K \in SUBSET D /\ (\A a \in D \ K : f[a] = 0) /\ \A a \in K : KindOf[a] = kind
    BY <1>0 DEF OfKind
<1>6. TotalOf(kind) = SumFunction(Restrict(f, K))
    <2>1. TotalOf(kind) = SumFunction([a \in K |-> accounts[a].balance])
        BY <1>0 DEF TotalOf, SumOver, Balance
    <2>2. Restrict(f, K) = [a \in K |-> accounts[a].balance]
        BY <1>5 DEF Restrict
    <2> QED
        BY <2>1, <2>2
<1>7. SumFunction(f) = SumFunction(Restrict(f, K))
    <2> HIDE DEF f
    <2> QED
        BY <1>1, <1>4, <1>5, SumZeros
<1>8. ASSUME NEW a \in D
      PROVE  f[a] = SumFunction([t \in T |-> m[a][t]])
    <2>1. CASE KindOf[a] = kind
        <3>1. [t \in T |-> m[a][t]] = [t \in T |-> Change(t, a)]
            BY <2>1
        <3> QED
            BY <1>0, <2>1, <3>1 DEF EarnedInv
    <2>2. CASE KindOf[a] # kind
        <3>1. [t \in T |-> m[a][t]] = [t \in T |-> 0]
            BY <2>2
        <3>2. SumFunction([t \in T |-> m[a][t]]) = 0
            BY <1>1, <3>1, SumZero
        <3> QED
            BY <2>2, <3>2
    <2> QED
        BY <2>1, <2>2
<1>9. f = [a \in D |-> SumFunction([t \in T |-> m[a][t]])]
    BY <1>8
<1>10. ASSUME NEW t \in T
       PROVE  SumFunction([a \in D |-> m[a][t]]) = KindChange(kind, t, D)
    <2>1. [a \in D |-> m[a][t]] = [a \in D |-> IF KindOf[a] = kind THEN Change(t, a) ELSE 0]
        OBVIOUS
    <2> QED
        BY <2>1 DEF KindChange
<1>11. [t \in T |-> SumFunction([a \in D |-> m[a][t]])] = [t \in T |-> KindChange(kind, t, D)]
    BY <1>10
<1> HIDE DEF f, m
<1>12. SumFunction([a \in D |-> SumFunction([t \in T |-> m[a][t]])])
           = SumFunction([t \in T |-> SumFunction([a \in D |-> m[a][t]])])
    BY <1>1, <1>3, SumSwap
<1> QED
    BY <1>0, <1>6, <1>7, <1>9, <1>11, <1>12

\* Where no entry reduces them, the amounts on revenues and expenses are what
\* the transactions do to their balances.
LEMMA AmountsChange ==
    ASSUME TypeInv, ChartInv, EarnedInv, NEW kind \in {"Revenue", "Expense"},
           \A t \in DOMAIN transactions : UsualSides(t)
    PROVE  Amounts(kind) = SumFunction([t \in DOMAIN transactions |->
                                           KindChange(kind, t, DOMAIN accounts)])
<1>0. PICK D, T : D = DOMAIN accounts /\ T = DOMAIN transactions
    OBVIOUS
<1>1. IsFiniteSet(D) /\ D \subseteq Accounts /\ T \subseteq Txns
    BY <1>0, EarnedType DEF ChartInv, EarnedInv, Numbered
<1> DEFINE B(t) == {a \in Mentioned(t) \cap D : KindOf[a] = kind}
           g(t) == [a \in B(t) |-> Entries[t][a].debit + Entries[t][a].credit]
<1>2. ASSUME NEW t \in T
      PROVE  SumFunction(g(t)) = KindChange(kind, t, D)
    <2> DEFINE f == [a \in D |-> IF KindOf[a] = kind THEN Change(t, a) ELSE 0]
    <2>1. f \in [D -> Int]
        BY <1>1, ChangeType
    <2>2. \A a \in D \ B(t) : f[a] = 0
        BY DEF Change
    <2>3. ASSUME NEW a \in B(t)
          PROVE  Entries[t][a].debit + Entries[t][a].credit = f[a]
        <3>1. Entries[t][a].debit \in Int /\ Entries[t][a].credit \in Int
            BY <1>1, AccountingAssumption DEF Mentioned
        <3>2. UsualSides(t) /\ a \in Mentioned(t)
            BY <1>0
        <3> QED
            BY <3>1, <3>2 DEF UsualSides, Change, DebitNormal
    <2>4. g(t) = Restrict(f, B(t))
        BY <2>3 DEF Restrict
    <2>5. B(t) \in SUBSET D
        OBVIOUS
    <2> HIDE DEF f, B, g
    <2>6. SumFunction(f) = SumFunction(Restrict(f, B(t)))
        BY <1>1, <2>1, <2>2, <2>5, SumZeros
    <2> QED
        BY <2>4, <2>6 DEF KindChange, f
<1>3. Amounts(kind) = SumFunction([t \in T |-> SumFunction(g(t))])
    BY <1>0 DEF Amounts, SumOver
<1>4. [t \in T |-> SumFunction(g(t))] = [t \in T |-> KindChange(kind, t, D)]
    <2> HIDE DEF g
    <2> QED
        BY <1>2
<1> HIDE DEF g
<1> QED
    BY <1>0, <1>3, <1>4

LEMMA StatementsHold ==
    ASSUME TypeInv, ChartInv, EarnedInv
    PROVE  StatementsAgree
<1> SUFFICES ASSUME CounterFree, \A t \in DOMAIN transactions : UsualSides(t)
             PROVE  TotalOf("Asset") - TotalOf("Liability") - TotalOf("Equity") = NetIncome
    BY DEF StatementsAgree
<1>0. PICK D, T : D = DOMAIN accounts /\ T = Numbered
    OBVIOUS
<1>1. T = DOMAIN transactions
    BY <1>0 DEF Numbered, CounterFree, Posting
<1>2. IsFiniteSet(D) /\ IsFiniteSet(T) /\ D \subseteq Accounts
    BY <1>0, EarnedType DEF ChartInv, EarnedInv
<1> DEFINE h(kind) == [t \in T |-> KindChange(kind, t, D)]
<1>3. ASSUME NEW t \in T
      PROVE  /\ \A kind \in Kinds : KindChange(kind, t, D) \in Int
             /\ KindChange("Asset", t, D) + KindChange("Expense", t, D)
                    = KindChange("Liability", t, D) + KindChange("Equity", t, D)
                          + KindChange("Revenue", t, D)
    <2>1. t \in Txns /\ IsBalanced(t) /\ Mentioned(t) \subseteq D
        BY <1>0 DEF EarnedInv
    <2> QED
        BY <1>2, <2>1, KindsBalance
<1>4. /\ h("Asset") \in [T -> Int] /\ h("Expense") \in [T -> Int]
      /\ h("Liability") \in [T -> Int] /\ h("Equity") \in [T -> Int]
      /\ h("Revenue") \in [T -> Int]
    BY <1>3 DEF Kinds
<1>5. PICK p, q, r : /\ p = [t \in T |-> h("Asset")[t] + h("Expense")[t]]
                     /\ q = [t \in T |-> h("Liability")[t] + h("Equity")[t]]
                     /\ r = [t \in T |-> q[t] + h("Revenue")[t]]
    OBVIOUS
<1>6. p = r
    BY <1>3, <1>5
<1>7. q \in [T -> Int]
    BY <1>4, <1>5
<1>8. /\ TotalOf("Asset") = SumFunction(h("Asset"))
      /\ TotalOf("Liability") = SumFunction(h("Liability"))
      /\ TotalOf("Equity") = SumFunction(h("Equity"))
    BY <1>0, TotalsSwap
<1>9. /\ Amounts("Revenue") = SumFunction(h("Revenue"))
      /\ Amounts("Expense") = SumFunction(h("Expense"))
    BY <1>0, <1>1, AmountsChange
<1> HIDE DEF h
<1>10. /\ SumFunction(p) = SumFunction(h("Asset")) + SumFunction(h("Expense"))
       /\ SumFunction(q) = SumFunction(h("Liability")) + SumFunction(h("Equity"))
       /\ SumFunction(r) = SumFunction(q) + SumFunction(h("Revenue"))
    BY <1>2, <1>4, <1>5, <1>7, SumPlus
<1>11. /\ SumFunction(h("Asset")) \in Int /\ SumFunction(h("Expense")) \in Int
       /\ SumFunction(h("Liability")) \in Int /\ SumFunction(h("Equity")) \in Int
       /\ SumFunction(h("Revenue")) \in Int
    BY <1>2, <1>4, SumSplit
<1> QED
    BY <1>6, <1>8, <1>9, <1>10, <1>11 DEF NetIncome

\* What the balance sheet says, made of the balances of the accounts, agrees
\* with the income statement, made of the stored transactions, whenever nothing
\* is being posted: for any chart, any transactions and any number of callers.
THEOREM StatementsKept ==
    ASSUME OnlyFailures
    PROVE  Spec => []StatementsAgree
<1> DEFINE Inv == TypeInv /\ LinkInv /\ NumbersInv /\ ChartInv /\ EarnedInv
<1>1. Init => Inv
    BY InitType, InitLinked, InitNumbers, InitChart, InitEarned
<1>2. Inv /\ [Next]_vars => Inv'
    BY NextType, NextLinked, NextNumbers, NextChart, NextEarned, OnlyFailuresMeans
<1>3. Inv => StatementsAgree
    BY StatementsHold
<1> QED
    BY <1>1, <1>2, <1>3, PTL DEF Spec

-----------------------------------------------------------------------------
(* Ledger implements Books.                                                *)

BooksNow == [a \in DOMAIN accounts |-> [balance |-> accounts[a].balance,
                                        active  |-> accounts[a].active]]
NumberNow(t) == IF StoredAs(t) = {} THEN transactions[t].number
                ELSE calls[CHOOSE c \in StoredAs(t) : TRUE].number
PostedNow == [t \in Numbered |-> NumberNow(t)]
NextNow == IF \E c \in Recorders : calls[c].pc = "post" THEN nextTxn - 1 ELSE nextTxn

LEMMA InitImplements == Init => Promise!Init
<1> SUFFICES ASSUME Init
             PROVE  Promise!Init
    OBVIOUS
<1>1. Numbered = {} /\ \A c \in Recorders : calls[c].pc = "idle"
    BY IdleType DEF Init, Numbered
<1>2. PostedNow = [t \in {} |-> 0]
    BY <1>1 DEF PostedNow
<1>3. NextNow = 1
    BY <1>1 DEF Init, NextNow
<1>4. BooksNow = [a \in Chart |-> Promise!Opened(a)]
    BY DEF Init, BooksNow, NewAccount, Promise!Opened
<1>5. \E S \in SUBSET Accounts : BooksNow = [a \in S |-> Promise!Opened(a)]
    BY <1>4, LedgerAssumption
<1> QED
    BY <1>2, <1>3, <1>5 DEF Promise!Init, BooksNow, PostedNow, NumberNow, NextNow

\* The operators of Accounting mean the same to both.
LEMMA SameAccounting ==
    /\ \A t : Promise!IsBalanced(t) <=> IsBalanced(t)
    /\ \A t : Promise!Mentioned(t) = Mentioned(t)
    /\ \A t, a : Promise!Change(t, a) = Change(t, a)
    /\ \A f, k, v : Promise!Insert(f, k, v) = Insert(f, k, v)
<1>1. \A t : Promise!Mentioned(t) = Mentioned(t)
    BY DEF Promise!Mentioned, Mentioned
<1>0. ASSUME NEW f
      PROVE  Promise!SumFunction(f) = SumFunction(f)
    BY DEF Promise!SumFunction, Promise!SumFunctionOnSet, Promise!FoldFunctionOnSet,
           Promise!MapThenFoldSet, SumFunction, SumFunctionOnSet, FoldFunctionOnSet,
           MapThenFoldSet
<1>2. ASSUME NEW t
      PROVE  Promise!IsBalanced(t) <=> IsBalanced(t)
    BY <1>0, <1>1 DEF Promise!IsBalanced, IsBalanced, Promise!SumOver, SumOver
<1>3. ASSUME NEW t, NEW a
      PROVE  Promise!Change(t, a) = Change(t, a)
    BY <1>1 DEF Promise!Change, Change, Promise!DebitNormal, DebitNormal
<1>4. ASSUME NEW f, NEW k, NEW v
      PROVE  Promise!Insert(f, k, v) = Insert(f, k, v)
    BY DEF Promise!Insert, Insert
<1> QED
    BY <1>1, <1>2, <1>3, <1>4

LEMMA PostImplements ==
    ASSUME TypeInv, LinkInv, NumbersInv, ChartInv, EarnedInv,
           NEW c \in Recorders, Post(c)
    PROVE  /\ calls[c].txn \notin DOMAIN PostedNow
           /\ IsBalanced(calls[c].txn)
           /\ \A a \in Mentioned(calls[c].txn) : a \in DOMAIN BooksNow /\ BooksNow[a].active
           /\ BooksNow' = [a \in DOMAIN BooksNow |->
                 [BooksNow[a] EXCEPT !.balance = @ + Change(calls[c].txn, a)]]
           /\ PostedNow' = Insert(PostedNow, calls[c].txn, NextNow)
           /\ NextNow' = NextNow + 1
<1>0. PICK u : u = calls[c].txn
    OBVIOUS
<1>1. Goes(c, "post", "store") /\ transactions' = transactions /\ nextTxn' = nextTxn
    BY GotoMoves DEF Post, Posting, counters
<1>2. \A d \in Recorders \ {c} : calls'[d] = calls[d] /\ calls[d].pc \notin Posting
    BY <1>1, OnlyPoster DEF Goes, Posting
<1>3. u \notin Numbered /\ Numbered' = Numbered \cup {u}
    BY <1>0, PostEarned
<1>4. calls[c].number = nextTxn - 1 /\ nextTxn \in Nat
    BY <1>1 DEF Goes, LinkInv, Posting, TypeInv, TypeOK
<1>5. NextNow = nextTxn - 1 /\ NextNow' = nextTxn
    BY <1>1, <1>2 DEF Goes, NextNow, Posting
<1>6. IsBalanced(u) /\ \A a \in Mentioned(u) : a \in DOMAIN accounts /\ accounts[a].active
    BY <1>0, <1>1 DEF Goes, ChartInv, Checked, Busy, Posting
<1>7. BooksNow' = [a \in DOMAIN BooksNow |->
                      [BooksNow[a] EXCEPT !.balance = @ + Change(u, a)]]
    <2>1. /\ DOMAIN accounts' = DOMAIN accounts /\ AccountsStay
          /\ \A a \in DOMAIN accounts : accounts'[a].balance = accounts[a].balance + Change(u, a)
        BY <1>0, PostAccounts
    <2> QED
        BY <2>1 DEF BooksNow, AccountsStay
<1>8. ASSUME NEW t \in Numbered
      PROVE  NumberNow(t)' = NumberNow(t)
    <2>1. StoredAs(t) = {}
        BY <1>1, <1>2 DEF StoredAs, Goes, Posting
    <2>2. StoredAs(t)' = {}
        BY <1>0, <1>1, <1>2, <1>3 DEF StoredAs, Goes, Posting
    <2> QED
        BY <1>1, <2>1, <2>2 DEF NumberNow
<1>9. NumberNow(u)' = NextNow
    <2>1. StoredAs(u)' = {c}
        BY <1>0, <1>1, <1>2 DEF StoredAs, Goes, Posting
    <2>2. (CHOOSE d \in {c} : TRUE) = c
        OBVIOUS
    <2>3. calls'[c].number = calls[c].number
        BY <1>1 DEF Goes
    <2> QED
        BY <1>4, <1>5, <2>1, <2>2, <2>3 DEF NumberNow
<1>10. PostedNow' = Insert(PostedNow, u, NextNow)
    BY <1>3, <1>8, <1>9 DEF PostedNow, Insert
<1> QED
    BY <1>0, <1>3, <1>4, <1>5, <1>6, <1>7, <1>10 DEF PostedNow, BooksNow

LEMMA InsertAccountImplements ==
    ASSUME TypeInv, ChartInv, NEW k \in Creators, InsertAccount(k)
    PROVE  \E a \in Accounts : /\ a \notin DOMAIN BooksNow
                               /\ BooksNow' = Insert(BooksNow, a, Promise!Opened(a))
<1>0. PICK a : a = making[k].account
    OBVIOUS
<1>1. /\ a \in Accounts /\ a \notin DOMAIN accounts
      /\ DOMAIN accounts' = DOMAIN accounts \cup {a} /\ accounts'[a] = NewAccount(a)
      /\ \A b \in DOMAIN accounts : accounts'[b] = accounts[b]
    BY <1>0, InsertAccountAccounts
<1>2. BooksNow' = Insert(BooksNow, a, Promise!Opened(a))
    BY <1>1 DEF BooksNow, Insert, NewAccount, Promise!Opened
<1> QED
    BY <1>1, <1>2 DEF BooksNow

\* Steps of call c that neither take its transaction up nor store it.
LEMMA NumbersAlone ==
    ASSUME NEW c \in Recorders, Alone(c),
           calls[c].pc # "store", calls'[c].pc # "store", Numbered' = Numbered,
           \A t \in DOMAIN transactions : transactions'[t].number = transactions[t].number
    PROVE  PostedNow' = PostedNow
<1>1. ASSUME NEW t \in Numbered
      PROVE  NumberNow(t)' = NumberNow(t)
    <2>1. StoredAs(t)' = StoredAs(t) /\ \A d \in StoredAs(t) : calls'[d] = calls[d]
        BY DEF StoredAs, Alone
    <2>2. StoredAs(t) = {} => t \in DOMAIN transactions
        BY DEF StoredAs, Numbered
    <2>3. StoredAs(t) # {} => (CHOOSE d \in StoredAs(t) : TRUE) \in StoredAs(t)
        OBVIOUS
    <2> QED
        BY <2>1, <2>2, <2>3 DEF NumberNow
<1> QED
    BY <1>1 DEF PostedNow

LEMMA NextAlone ==
    ASSUME NEW c \in Recorders, Alone(c),
           calls[c].pc # "post", calls'[c].pc # "post", nextTxn' = nextTxn
    PROVE  NextNow' = NextNow
<1>1. (\E d \in Recorders : calls'[d].pc = "post")
          <=> (\E d \in Recorders : calls[d].pc = "post")
    BY DEF Alone
<1> QED
    BY <1>1 DEF NextNow

\* Nothing but Post takes up a transaction.
LEMMA OthersStutter ==
    ASSUME OnlyFailures, TypeInv, LinkInv, NumbersInv, [Next]_vars,
           \A c \in Recorders : ~Post(c)
    PROVE  PostedNow' = PostedNow /\ NextNow' = NextNow
<1>0. Numbered' = Numbered
    BY NumberedStays
<1>1. ASSUME UNCHANGED <<calls, transactions, nextTxn>>
      PROVE  PostedNow' = PostedNow /\ NextNow' = NextNow
    BY <1>0, <1>1 DEF PostedNow, NumberNow, StoredAs, NextNow
<1>2. CASE UNCHANGED vars
    BY <1>1, <1>2 DEF vars, maps, counters
<1>3. CASE Manage
    BY <1>1, <1>3, ManageApart DEF Unrecorded, counters
<1>4. ASSUME NEW c \in Recorders, NEW t \in Txns, Begin(c, t)
      PROVE  PostedNow' = PostedNow /\ NextNow' = NextNow
    <2>1. /\ calls[c].pc = "idle" /\ Alone(c)
          /\ calls'[c].pc = "idle" \/ calls'[c].pc = "validate"
        BY <1>4, BeginMoves DEF Ends
    <2>2. transactions' = transactions /\ nextTxn' = nextTxn
        BY <1>4 DEF Begin, maps, counters
    <2> QED
        BY <1>0, <2>1, <2>2, NumbersAlone, NextAlone
<1>5. ASSUME NEW c \in Recorders, NEW a, Validate(c, a)
      PROVE  PostedNow' = PostedNow /\ NextNow' = NextNow
    <2>1. /\ calls[c].pc = "validate" /\ Alone(c)
          /\ calls'[c].pc = "idle" \/ calls'[c].pc = "validate"
        BY <1>5, ValidateMoves DEF Ends
    <2>2. transactions' = transactions /\ nextTxn' = nextTxn
        BY <1>5 DEF Validate, maps, counters
    <2> QED
        BY <1>0, <2>1, <2>2, NumbersAlone, NextAlone
<1>6. ASSUME NEW c \in Recorders, DrawNumber(c)
      PROVE  PostedNow' = PostedNow /\ NextNow' = NextNow
    <2>1. calls[c].pc = "validate" /\ calls'[c].pc = "post" /\ Alone(c) /\ CounterFree
        BY <1>6, DrawNumberMoves
    <2>2. transactions' = transactions /\ nextTxn' = nextTxn + 1 /\ nextTxn \in Nat
        BY <1>6 DEF DrawNumber, maps, TypeInv, TypeOK
    <2>3. PostedNow' = PostedNow
        BY <1>0, <2>1, <2>2, NumbersAlone
    <2>4. NextNow = nextTxn /\ NextNow' = nextTxn' - 1
        BY <2>1 DEF NextNow, CounterFree, Posting
    <2> QED
        BY <2>2, <2>3, <2>4
<1>7. ASSUME NEW c \in Recorders, Store(c)
      PROVE  PostedNow' = PostedNow /\ NextNow' = NextNow
    <2>0. PICK u : u = calls[c].txn
        OBVIOUS
    <2>1. Goes(c, "store", "journal") /\ nextTxn' = nextTxn
        BY <1>7, GotoMoves DEF Store, Posting, counters
    <2>2. \A d \in Recorders \ {c} : calls'[d] = calls[d] /\ calls[d].pc \notin Posting
        BY <2>1, OnlyPoster DEF Goes, Posting
    <2>3. /\ transactions'[u].number = calls[c].number
          /\ \A s \in DOMAIN transactions \ {u} : transactions'[s] = transactions[s]
        <3>1. transactions' = Insert(transactions, u, [number |-> calls[c].number, entry |-> 0])
            BY <1>7, <2>0 DEF Store
        <3> QED
            BY <3>1, StoredFields
    <2>4. ASSUME NEW t \in Numbered
          PROVE  NumberNow(t)' = NumberNow(t)
        <3>1. StoredAs(t)' = {}
            BY <2>1, <2>2 DEF StoredAs, Goes, Posting
        <3>2. CASE t = u
            <4>1. StoredAs(t) = {c}
                BY <2>0, <2>1, <2>2, <3>2 DEF StoredAs, Goes, Posting
            <4>2. (CHOOSE d \in {c} : TRUE) = c
                OBVIOUS
            <4> QED
                BY <2>3, <3>1, <3>2, <4>1, <4>2 DEF NumberNow
        <3>3. CASE t # u
            <4>1. StoredAs(t) = {}
                BY <2>0, <2>2, <3>3 DEF StoredAs, Posting
            <4>2. t \in DOMAIN transactions
                BY <4>1 DEF StoredAs, Numbered
            <4> QED
                BY <2>3, <3>1, <3>3, <4>1, <4>2 DEF NumberNow
        <3> QED
            BY <3>2, <3>3
    <2>5. PostedNow' = PostedNow
        BY <1>0, <2>4 DEF PostedNow
    <2> QED
        BY <2>1, <2>5, NextAlone DEF Goes
<1>8. ASSUME NEW c \in Recorders, CreateJournal(c)
      PROVE  PostedNow' = PostedNow /\ NextNow' = NextNow
    <2>1. calls[c].pc = "journal" /\ calls'[c].pc = "link" /\ Alone(c)
        BY <1>8, CreateJournalMoves
    <2>2. transactions' = transactions /\ nextTxn' = nextTxn
        BY <1>8 DEF CreateJournal
    <2> QED
        BY <1>0, <2>1, <2>2, NumbersAlone, NextAlone
<1>9. ASSUME NEW c \in Recorders, Link(c)
      PROVE  PostedNow' = PostedNow /\ NextNow' = NextNow
    <2>0. PICK u, n, e : u = calls[c].txn /\ n = calls[c].number /\ e = calls[c].entry
        OBVIOUS
    <2>1. Goes(c, "link", "persist") /\ nextTxn' = nextTxn
        BY <1>9, GotoMoves DEF Link, Posting, counters
    <2>2. transactions' = Insert(transactions, u, [number |-> n, entry |-> e])
        BY <1>9, <2>0 DEF Link
    <2>3. /\ transactions'[u].number = n
          /\ \A s \in DOMAIN transactions \ {u} : transactions'[s] = transactions[s]
        BY ONLY <2>2, StoredFields
    <2>4. transactions[u].number = n
        BY <2>0, <2>1 DEF Goes, NumbersInv, CallInStep
    <2>5. \A t \in DOMAIN transactions : transactions'[t].number = transactions[t].number
        BY <2>3, <2>4
    <2> QED
        BY <1>0, <2>1, <2>5, NumbersAlone, NextAlone DEF Goes
<1>10. ASSUME NEW c \in Recorders, Persist(c)
       PROVE  PostedNow' = PostedNow /\ NextNow' = NextNow
    <2>1. calls[c].pc = "persist" /\ calls'[c].pc = "idle" /\ Alone(c)
        BY <1>10, PersistMoves DEF Ends
    <2>2. transactions' = transactions /\ nextTxn' = nextTxn
        BY <1>10 DEF Persist, maps, counters
    <2> QED
        BY <1>0, <2>1, <2>2, NumbersAlone, NextAlone
<1>11. \A c \in Recorders : ~Cancel(c)
    BY DEF Cancel, OnlyFailures
<1> QED
    BY <1>2, <1>3, <1>4, <1>5, <1>6, <1>7, <1>8, <1>9, <1>10, <1>11 DEF Next, Record

\* The variables of Books, as Ledger has them.
BooksVars == <<BooksNow, PostedNow, NextNow>>

LEMMA NextImplements ==
    ASSUME OnlyFailures, TypeInv, LinkInv, NumbersInv, ChartInv, EarnedInv, [Next]_vars
    PROVE  Promise!Next \/ UNCHANGED BooksVars
<1>1. ASSUME NEW c \in Recorders, Post(c)
      PROVE  Promise!Next
    <2>0. PICK u : u = calls[c].txn
        OBVIOUS
    <2>1. u \in Txns
        BY <1>1, <2>0, CallTxn DEF Post, Step
    <2>2. /\ u \notin DOMAIN PostedNow /\ IsBalanced(u)
          /\ \A a \in Mentioned(u) : a \in DOMAIN BooksNow /\ BooksNow[a].active
          /\ BooksNow' = [a \in DOMAIN BooksNow |->
                             [BooksNow[a] EXCEPT !.balance = @ + Change(u, a)]]
          /\ PostedNow' = Insert(PostedNow, u, NextNow)
          /\ NextNow' = NextNow + 1
        BY <1>1, <2>0, PostImplements
    <2>3. Promise!Post(u)
        BY <2>2, SameAccounting DEF Promise!Post, BooksNow, PostedNow, NumberNow, NextNow
    <2> QED
        BY <2>1, <2>3 DEF Promise!Next
<1>2. CASE \A c \in Recorders : ~Post(c)
    <2>1. PostedNow' = PostedNow /\ NextNow' = NextNow
        BY <1>2, OthersStutter
    <2>2. ASSUME NEW k \in Creators, InsertAccount(k)
          PROVE  Promise!Next
        <3>1. PICK a \in Accounts : /\ a \notin DOMAIN BooksNow
                                    /\ BooksNow' = Insert(BooksNow, a, Promise!Opened(a))
            BY <2>2, InsertAccountImplements
        <3>2. Promise!Open(a)
            BY <2>1, <3>1, SameAccounting
            DEF Promise!Open, BooksNow, PostedNow, NumberNow, NextNow
        <3> QED
            BY <3>2 DEF Promise!Next
    <2>3. CASE \A k \in Creators : ~InsertAccount(k)
        <3>1. accounts' = accounts
            BY <1>2, <2>3, AccountsAlone, OnlyFailuresMeans
        <3>2. BooksNow' = BooksNow
            BY <3>1 DEF BooksNow
        <3> QED
            BY <2>1, <3>2 DEF BooksVars
    <2> QED
        BY <2>2, <2>3
<1> QED
    BY <1>1, <1>2

\* Whoever reads balances, statuses and numbers sees the books that Books
\* describes: each transaction is taken up at one moment, wholly, once, in the
\* order of its number, and only if it balances and its accounts are active.
THEOREM ImplementsBooks ==
    ASSUME OnlyFailures
    PROVE  Spec => BooksKept
<1> DEFINE Inv == TypeInv /\ LinkInv /\ NumbersInv /\ ChartInv /\ EarnedInv
<1>1. Init => Inv
    BY InitType, InitLinked, InitNumbers, InitChart, InitEarned
<1>2. Inv /\ [Next]_vars => Inv'
    BY NextType, NextLinked, NextNumbers, NextChart, NextEarned, OnlyFailuresMeans
<1>3. Init => Promise!Init
    BY InitImplements
<1>4. Inv /\ [Next]_vars => [Promise!Next]_BooksVars
    BY NextImplements
<1> HIDE DEF Inv
<1> QED
    BY <1>1, <1>2, <1>3, <1>4, PTL DEF Spec, BooksKept, Promise!Spec, BooksVars,
       BooksNow, PostedNow, NumberNow, NextNow

=============================================================================
