# NexusLedger: specifications, checks and proofs

NexusLedger (`src/RichdaleAccounting/nexus-core`) keeps books: agents take
tasks from a queue and post transactions to a shared ledger, an HTTP API and a
desktop application sit in front, and an edge mode keeps a local SQLite copy
that is synchronised with the central database. This directory holds TLA+
modules of its parts that can go wrong in ways a unit test hardly reaches, the
TLC configurations that check them, and TLAPS proofs about them.
`PROJECT.json` says which lines of the source each definition stands for.

Paths below are relative to `src/RichdaleAccounting/nexus-core/src/`.

## 1. The system's parts

| Part | State it keeps | Operations | What is hard | Status |
|---|---|---|---|---|
| Sync engine `edge/sync.rs` | `syncing` flag; locals of a cycle | `sync`, `push_changes`, `pull_changes` | interleaving with saves and other devices; partial failure; retries; lost answers; crashes | `EdgeSync` |
| Change tracking `edge/tracking.rs` | `_dirty`, `sync_state`, change log | `get_dirty_records`, `mark_synced`, `mark_all_synced`, `update_sync_state` | SQL transaction spread over several acquisitions of the connection | `LocalStore`, `Device`; as whole steps in `EdgeSync` |
| Local store `edge/store.rs`, `edge/local_db.rs` | SQLite tables | `save_*`, `delete_*`, `list_*` | several statements per save; INSERT OR REPLACE and unique numbers | `LocalStore`, `Device` |
| Conflict resolver `edge/conflict.rs` | conflict log | `resolve`, `resolve_with_strategy`, manual resolution | log and row change separately; overlapping and late resolutions | `LocalStore`, `Device` |
| Edge manager `edge/mod.rs` | `sync_in_progress`, offline flag | `start_sync`, `stop_sync` | test and set in two steps | `EdgeManager`, `Device` |
| Codecs `edge/compression.rs`, `edge/encryption.rs` | the keys' row, fields, blobs | setup, open, change of password; compress, decompress | read and write back around each other; headers that disagree | `Vault` (symbolic) |
| Orchestrator `agents/orchestrator.rs` | queue, four task containers, registry, status table, dead letter file | `submit_task`, `start`, `process_next_task`, `add_agent`, `remove_agent`, `stop`, `get_system_status` | several dispatchers; guards held across awaits; notifications; retries; restarts; a status read list by list | `Orchestrator`, `Monitor` |
| Tasks, status `agents/task.rs`, `agents/status.rs` | retry count, counts per agent | `can_retry`, `update_status`, `health_score` | counts out of step with work | `Orchestrator`, `Monitor` |
| Memory `agents/memory.rs` | three memories per agent | add, trim, find | eviction; clones | `Memories` |
| Ledger `accounting/ledger.rs` | accounts, transactions, journal, two counters, rows in the database | `record_transaction`, `create_account`, `update_account`, `delete_account`, statements | maps behind separate locks; a check and its use under different guards; dropped and repeated calls | `Ledger`, `Books` |
| Financial model `database/financial.rs` | - | balance, normal side, entries | signs | `Accounting` |
| Payables `accounting/ap.rs` | bills | enter, schedule, pay, pay in part, void | amounts posted against amounts kept with the bill | `Payables` |
| Invoicing, receipts `accounting/invoice.rs`, `receipt.rs` | invoices, receipts | create, pay, cancel; process | ledger failures only logged; tax and overpayment | `Receivables` |
| Fixed assets `accounting/assets.rs` | register of assets | depreciate, dispose | two passes over the assets; rounding | `AssetRegister` |
| Payroll `accounting/payroll.rs` | employees, hours, pay period | hire, record time, pay one or all | withholdings of either sign; repeated runs | `Payroll` |
| Reports, cash flow, budgets `accounting/reporting.rs`, `cashflow.rs`, `budget.rs` | - | statements, aging, variances | read in two steps while agents post; signs; boundaries of periods | `Statements` |
| Reconciliation `accounting/reconciliation.rs` | reconciliations, index by account | import and match, complete, mark, update, delete | greedy matching | `Reconciliations` |
| Tax `accounting/tax.rs` | jurisdictions, index by code, filings | calculate, file, pay | two maps; copies written back | `Taxes` |
| Database `database/mod.rs`, `schema.rs`, `migrations.rs`, `seed.rs` | connection, versions | connect, migrate, seed | failures between statements; overlapping calls | `Connection`; seed in `Ledger` |
| Users `database/user.rs`, `models.rs` | rows of users | create, find, update | checks before inserts; ids that no query finds | `Sessions` |
| Documents `agents/document.rs`, `database/document.rs` | rows | store, retrieve, update, delete | two writers of one table | `Documents` |
| Audit trail `audit/mod.rs`, `database/audit.rs` | rows, chain of hashes | log, check, purge | two calls between which others log | `AuditTrail` |
| API `api/mod.rs`, `api/auth.rs` | tokens outside, orders | register, login, refresh, roles; transactions, bills, imports, chat | answer before the effect; which ledger is read; what a token still says | `Sessions`, `Desk` |
| Middleware `api/middleware.rs` | buckets | `check` | refills at odd times under changing limits | `Sessions` |
| Monitoring `monitor/mod.rs` | samples, alerts | collect, acknowledge, clean up | reads while tasks move | `Monitor` |
| AI `ai/analysis.rs`, `classification.rs`, `embeddings.rs` | histories, a cache | analyze, classify, search | order of entry; ties; a cache beside a table | `Advice`, `Embeddings` |
| Dates `utils/date_utils.rs` | - | months, quarters, periods | ends of months, leap years, midnight | `Calendar` |
| Imports `utils/import.rs` | - | post the groups of a file | cut short and repeated | `Desk` |
| `main.rs`, `lib.rs` | - | wiring | that `main` never calls `start()` | `Desk` |
| Configuration, data types, OCR and PDF, export, files, validation, desktop application | values, text | - | none in control | left out |

How they interact. `main.rs` builds one `NexusLedger` (orchestrator and ledger)
behind a mutex and gives it to the API. Handlers queue tasks with the
orchestrator; a dispatcher (a call of `start()`) hands each to an agent, and the
accounting agents call `Ledger::record_transaction` on clones of one ledger
whose maps and counters are shared (`Arc`); the ledger the handlers read is
another. The ledger writes through to SurrealDB, best effort. Reports,
reconciliations and taxes read a ledger; audit, documents and users have tables
of their own. On a device, `LocalStore` saves to SQLite and marks rows dirty;
`SyncEngine` pushes dirty rows to the remote database and pulls what changed
there; `ConflictResolver` decides between versions.

What makes each part correct, in short: *sync* - nothing local is forgotten and
nothing remote is missed, one cycle at a time, both sides become equal;
*device* - what was acknowledged is in the database, dirty rows are in the
change log, no resolution loses an edit unseen; *orchestrator* - every task is
in one place and ends, retries are counted, no wake-up is lost, the status table
is true; *ledger* - debits equal credits, numbers are unique and in order,
transactions name their journal entries, a posting looks atomic to everybody;
*sub-ledgers* - documents agree with accounts; *server* - what was answered is
accounted for, roles and limits hold; *services* - indexes agree with what they
index, what is cached or chained agrees with what is stored, and numbers are
counted once.

## 2. Plan

Done, in this order:

1. `EdgeSync`, `MCEdgeSync`, `EdgeSyncProofs`.
2. `Orchestrator`, `MCOrchestrator`, `OrchestratorProofs`.
3. `Accounting`, `Books` (what a ledger promises), `Ledger` (shown to implement
   it), `MCLedger`, `LedgerProofs`.
4. The sub-ledgers: `Posting`, `Payables`, `Receivables`, `AssetRegister`,
   `Payroll`, composed in `SubLedgers`, with `MCSubLedgers` and
   `SubLedgersProofs`.
5. The device: `LocalStore`, `EdgeManager`, composed in `Device`, with
   `MCDevice` and `DeviceProofs`.
6. The server: `Sessions`, `Desk`, `Monitor`, composed in `Platform`, with
   `MCPlatform` and `PlatformProofs`.
7. What works around the books: `Reconciliations`, `Taxes`, `Statements`,
   `AuditTrail`, `Memories`, `Documents`, `Connection`, `Vault`, `Advice`,
   `Embeddings`, `Calendar`, composed in `Services`, with `MCServices` and
   `ServicesProofs`.
8. `Facts`: the lemmas that several proof modules rest on.

Left: clock skew as a parameter of `EdgeSync`, and a remote that several engines
share.

Known hazards that no property covers: a push overwrites what another device
has pushed meanwhile (`edge/sync.rs:476`; the remote's interface has no compare
and set, and no document promises otherwise); the device's clock, which stamps
`last_sync`, may differ from the remote's, which stamps the records
(`edge/sync.rs:930`; the models have one clock); a task for which there is no
agent is put back and taken again without a pause for ever
(`agents/orchestrator.rs:450`).

## 3. The modules

### EdgeSync

A row is `[ver, ts, dirty]`: the version its content has (the time a user made
it), `_modified_at` and `_dirty`. The remote record is `[ver, ts]`. Each caller
of the engine has a record of its locals (`run[c]`): its position, the dirty
batch, the record at hand, the attempt, `since`, the types still to be queried
and the inbox. One action is what happens between two awaits, or between two
acquisitions of the SQLite connection:

| Code | Actions |
|---|---|
| `try_acquire_sync_lock`, `is_reachable` | `Acquire`, `CheckReachable` |
| `push_dirty_records`, `push_single` | `Snapshot`, `ReadRecord`, `PushOk`, `PushFail` (with `retry_with_backoff`), `MarkPushed`, `PushDone` and their failures |
| `pull_remote_changes`, `pull_for_type` | `BeginPull`, `Query`, `QueryFails`, `QueriesDone`, `InboxDone` |
| `upsert_remote`, `save_remote_record` | `Conflict`, `NoConflict`, `SavePulled`, `MarkPulled`, `StampPulled`, `UpsertFails`, `PulledStepFails` |
| `update_sync_state`, `release_sync_lock` | `Finish`, `Release` |
| the caller drops the future; the process dies | `Cancel`, `Crash` |
| `LocalStore::save_*`; other devices; the network | `LocalSave`, `RemoteWrite`, `Disconnect`, `Reconnect` |

`Hazards` names the environment's risky steps that an instance allows, so that
a property can be stated with exactly the steps under which the code keeps it:
`edit_during_push` (a save between the read and the `mark_synced` of a push),
`edit_during_upsert`, `write_during_pull`, `pull_error`, `upsert_error`,
`read_error` and `cancel`. All other interleavings are always allowed. The
remote database is not part of the repository: `Upsert`, `Changed` are what
`MockRemoteSource` does and the trait's comments require. `received` and
`known` are history variables; nothing reads them but the properties.

Left out: batching (records are handled one after the other either way), the
lengths of back-offs, deserialization (its failure is `UpsertFails`), the
counts of the result. Clocks: one logical clock, so that the two sides' stamps
are comparable.

### Orchestrator

State is the code's: the queue, `in_progress_tasks`, `completed_tasks`,
`failed_tasks`, `agents`, `agents_by_type`, `agent_statuses`, `is_running` and
the permit of `task_notify`; `pc`, `job` and `at` are each dispatcher's
locals. A `HashMap` is a set: the fallback of `find_available_agent` may meet
agents in any order. Two locks are modelled because they are held across
awaits: the `RwLock` of the registry, which as tokio's lets a queued writer hold
back later readers (`CanRead`), and each agent's mutex (`Free`). The guard that
`assign_task_to_agent` takes lives until the outcome has been handled, hence
`Reading` and `Working`.

`Dispatch(d)` is one dispatcher's next step: `Loop`, `Drain`, `Notified` are
`start()`; `Sort`, `Pop`, `Prefer`, `Fallback`, `Scan`, `PutBack` are
`process_next_task` with `find_available_agent`; `Assign`, `Lookup`,
`LookupFails`, `Complete`, `Fail`, `Persist`, `PersistFails`, `Report` are
`assign_task_to_agent` with its outcome. An agent accepts a task when its type
is in `Handlers` of the task, and fails it otherwise. `add_agent` and
`remove_agent` are `Request` (queue for the write lock), `Write` (change the
registry) and `Register` (by-type list and status, under later locks).

### Accounting, Books, Ledger

`Accounting` gives the kinds of accounts, `Change` (what
`Account::update_balance` does for all entries of a transaction on one account)
and `IsBalanced`. Amounts are integers; the code's decimals are exact. The
entries of a transaction are given per account, as totals of its debits and
its credits, which is all a balance depends on.

`Books` is what callers are promised: a balanced transaction on open, active
accounts is taken up at one moment, once, under the next number.

`Ledger` is the code: `record_transaction` as `Begin`, `Validate` (one account
per guard), `DrawNumber` (the counter's mutex is then held until the call
returns, as the guard in the code is), `Post`, `Store`, `CreateJournal`, `Link`,
`Persist`; `create_account` as `CheckNumber`, `InsertAccount`,
`PersistAccount`; `get_account` followed by `update_account`; `delete_account`;
and `Cancel`, the dropped future of a call. `Hazards` again says what an
instance allows. Of the database only the account rows are there, as the other
tables are not read back; writes are best effort, and `CREATE` meets the UNIQUE
index on numbers and the rows of `database/seed.rs`. `Record(c)` collects the
steps of a call.

### Posting, Payables, Receivables, AssetRegister, Payroll, SubLedgers

The processors keep documents of their own and post a transaction for what
happens to each. Agents hold their processor behind a mutex, or the processor is
taken mutably, so that a call is one action; the ledger takes up or refuses a
transaction as `Books` says. `Posting` keeps the sum of the entries per document
and account (`net`), so that a document and what was posted for it can be
compared. Entries are a function from account numbers to amounts, debits
positive. The chart holds the accounts that are posted to, under the names the
processors' comments give them; number 2010, where overpayments go as "Customer
Deposits" (`invoice.rs`), is "Loans Payable" in the chart of `ledger.rs`.

`Payables`: a bill is `[status, paid]`; `EnterBill`, `SchedulePayment`,
`PayBill`, `PayBillPartial`, `VoidBill` are the methods of `ApProcessor`.
`Receivables`: `CreateInvoice`, `ProcessPayment`, `CancelInvoice` and
`ProcessReceipt`; a refused entry leaves the document changed, as the code only
logs it. `AssetRegister`: `AddAsset`, `PostDepreciation` (one transaction, with
the assets chosen by `Due`), `DisposeAsset`; a `Decimal` quotient is rounded at
its last digit, which the model makes the unit. `Payroll`: employees, hours,
`Withheld` with the rates in 1/2000, and `PayEntry`, which like the code leaves
out what is not positive; `PayOne` and `PayAll` are the two forms of the task. A
repeated task pays again: nothing in the code reads the period's status.
`SubLedgers` interleaves all calls.

### LocalStore, EdgeManager, Device

All parts of the edge mode share one SQLite connection behind one mutex. A
statement is atomic; between two statements other threads come, and an SQL
transaction belongs to the connection, not to the thread that began it.
`LocalStore` begins with that connection (`local_db.rs`): tables, the copy to
which ROLLBACK returns (`undo`), `last_insert_rowid`, a disk that fails. Then it
has the statements of `store.rs`, `tracking.rs` and `conflict.rs`, and `Device`
runs them in the order of the methods: `call[t].at`
is where thread `t` is in its call. Contents are versions; `saved` is
a history variable. A device behaves according to a *mix*: which calls are
made together, on which records, how many, and with which risks. The risks of
`Device` and what they break: a write during another thread's transaction
(undone by its ROLLBACK), two saves with one number at once, an insertion
between another's INSERT and its `last_insert_rowid`, two conflicts of one
record at once, a save between the decision and the application of a conflict.

`EdgeManager` is `start_sync`, which tests the flag, drops the guard and sets it
later; in the code that is harmless only because `perform_sync` takes the guard
again: `OneSync` says so.

### Parts: mixes and risks

`Platform` and `Services` compose parts that share no state. `Parts` lets a
behaviour move one of them (`mix.part`) under the risks its mix names; a
property that holds only without a risk says so (`Safe({...}) => ...`), and each
risk has been seen to falsify its property when that premise is taken away.
These premises are thus part of what the checks show.

### Sessions, Desk, Monitor, Platform

`Sessions` has both repositories of users: `SurrealUserRepository`, in which
every row that is read carries a new random id, so that no query by id finds one,
and `MemoryUserRepository`. It has what a token says and what `auth.rs` lets
through, and runs the handlers' awaits one by one per client: `CheckName`,
`CheckMail`, `CreateUser`; `Login`, `StampLogin`, `IssueTokens`; `Refresh`;
`LoadUser`, `StoreUser`. A token from outside names nobody that a repository has:
one begins empty and the other gives each row it reads a new id. The limiter of
the same middleware is `check`, with a token of its buckets counted as `Minute`
units. `Desk` is the handlers and the chat with the orchestrator they
hand work to; only an import has awaits at which its client can leave. `Monitor`
is one dispatcher, a reading of its lists one after the other, and the collector,
whose samples are a set of numbered records.

What these show beside the properties: the routes for registration and login are
behind the layer that asks for a token, so that the first token has to come from
outside (`api/auth.rs:6` lists them as public); with the database's repository a
refresh never finds its user, and a change of roles finds none either; what the
API answers as approved or paid concerns a ledger that no agent posts to, and is
worked on only if something calls `start()`, which `main.rs` does not; a bill
can be paid repeatedly; the chat's orders for a transaction, a reconciliation or
tax always fail after "recorded" was answered; no agent ever gets into the state
that the critical alert is about.

### Reconciliations, Taxes, Statements

`Reconciliations`: a statement's lines are matched one after the other with the
transaction of the highest score among those left (`Candidates`, `Best`); sums,
words, references and days are those that the score reads. Matching runs against
the whole ledger, whatever the account and whatever was reconciled before; an
inexact amount may beat an exact one, and the four passes of the comment at
`reconciliation.rs:327` do not exist. `Taxes`: jurisdictions with the index by
code, brackets, and filings of which callers hold copies. `Statements`: a report
reads the accounts, then the transactions, while agents post, balance first;
`kind` says which. Its risks are transactions whose effect a report is not made
for: depreciation (wrong sign), accounts it does not list, later dates,
payments that carry no invoice number - which is what `invoice.rs` posts.

### AuditTrail, Memories, Documents, Connection, Vault

`AuditTrail`: a check reads the trail and logs its entry in two calls. "Each
entry links to the previous" (`audit/mod.rs:38`) holds for checks alone, made
by one holder, in memory; not with plain entries, nor in the database, which
lists the newest first. `Memories`: the long-term memory "removes the oldest
entry" (`memory.rs:72`) by taking any key, which may be the new one; nothing
puts back the clone the manager hands out. `Documents`: retrieval always
answers a stub; the agent writes a field the repository does not read.
`Connection`: each `connect` opens a new database in memory and stores the
client before the schema is applied. `Vault`: a change of password re-wraps what
was read a step before; a compressed blob has no size prefix though
decompression expects one, so that it never comes back (`BlobsReturn` says which
do).

### Advice, Embeddings, Calendar

These are functions over a growing history, a text, a cache or the day. `Advice`,
of payments (`ai/analysis.rs`): each payment is analyzed against those entered
before it. `Advice`, of texts (`ai/classification.rs`): keywords to category and
account number, confidences in thousandths; "rental income", "payroll liability"
and the like get an account of another category, and a text without keywords any
category, as the map's order has it. `Embeddings`: the table and the cache that
searches are answered from; similarities are compared as fractions. `Calendar`:
the functions of `date_utils.rs` against a calendar that moves day by day:
`last_day_of_month` panics on each 29 February and, on the 29th to 31st before a
shorter month, answers 31 December; the quarter's functions panic on a 31st whose
quarter begins, or ends, in a month without one, and `last_day_of_quarter` is a
month short; `previous()` shares a day with its period; a European date with a day
up to 12 is read as an American one. `MonthEnds`, `QuarterOfTheDay` and
`PeriodsMeet` state exactly that. No other part of the program calls any of these
yet.

## 4. What TLC checks

| Run | Instance | Properties |
|---|---|---|
| `EdgeSyncErrors` | 2 rows of 2 types, 2 callers, 2 saves, 1 remote write, 1 fault, 1 retry; failing queries and upserts, late writes, dropped futures | `TypeOK`; `MutualExclusion`: at most one cycle, under the flag; `CleanIsReceived`: a clean row holds a version the remote has received; `NewestWins`: a pull replaces only rows stamped no later |
| `EdgeSyncLive` | 1 row, 1 caller, 2 saves, 2 remote writes, 2 faults, fair; failing conflict checks | `CaughtUp`: what the remote stamped up to `last_sync` is known here; `Converges`; `LockReleased` |
| `EdgeSyncLostEdit` | 1 row, a save during a push | `CleanIsReceived` fails |
| `OrchestratorTasks` | 2 tasks of different priority, 2 dispatchers, an agent of the start and one that may be added, 1 retry; removals, stops, one failed write or crash | `TypeOK`; `Accounted`: each task in exactly one place; `RetriesUsedUp`; `StatusTruthful`; `NoLostWakeup`; `DeadLettersComplete` |
| `OrchestratorLive` | 2 tasks, 2 dispatchers, 2 agents, fair | `EveryTaskEnds` |
| `OrchestratorDeadlock` | 1 task without a wanted type, 1 dispatcher, removals, fair | `AdminEnds` fails |
| `LedgerPosting` | 2 callers, 5 transactions (one unbalanced, one on an inactive account, two on accounts created meanwhile), 1 creator, fair | `BooksKept`: refinement of `Books`; `TrialBalance`; `NumbersInStep`: transaction numbers in order (`NumbersInOrder`) and entries in step with them (`JournalInStep`); `StatementsAgree`: the balance sheet, made of balances, agrees with the income statement, made of entries; `RowsFollow`: the rows of the chart's accounts have the balances in memory; `RecordEnds` |
| `LedgerFaults` | 2 callers, 2 transactions, stale updates, deletions, repeated and dropped calls, failed writes (3 in all) | `TypeOK`, `EntriesLinked` |
| `SubLedgers` | a bill of two lines, an untaxed and a taxed invoice and a taxed refund, a receipt, an asset of either method, two employees; any 7 calls | `TypeOK`; `BillsTied`: an open bill's remaining balance is what account 2000 carries for it (`OpenBillsOwed`); nothing is owed for a closed one, and less than the whole bill was paid too much (`NeverPaidTwice`); `ReceivablesTied`: the same for invoices and account 1020, and cash is applied or deposited; `RegisterTied`: the register's depreciation is that of account 1050; `DepreciationLimited`; `PayWithinGross` |
| `Device` | 2 threads, 6 records of 4 kinds, 2 numbers, up to 4 calls, 1 fault (a failing statement or a crash); 2 clones of the manager | `StoreSound`, `ConflictsSound`, `FlagSound` |
| `Platform` | 2 clients, 5 requests; 3 rate-limit keys, 6 requests in 7 ticks; 2 orders, 2 files; 2 agents, 2 tasks, 1 reading | `AccessSound`, `OrdersSound`, `StatusSound` |
| `Services` | 46 mixes of the twelve parts (50 initial states), see `MCServices` | `FiguresSound`, `RecordsSound`, `StorageSound`, `AdviceSound`, `NumberInCategory`, `DatesSound` |

The properties of the last three runs are conjunctions, one for each thing that
has to be right. Their conjuncts are defined, and said in words, in the modules of
the parts; the type invariant of each part is one of them.

| Property | Conjuncts |
|---|---|
| `StoreSound` | `OneTransaction`: no BEGIN inside another, and every transaction is ended; `Durable`: what was acknowledged is there; `DirtyRowsLogged`: a dirty row has an entry in the change log, unless a crash or failed call came between; `NumbersUnique` |
| `ConflictsSound` | `LogConsistent`, `OwnLogId`, `NoSilentLoss`: a resolution's entry names the winner that is in the row, is that of its own conflict, and what it loses was a side of it |
| `FlagSound` | `OneSync`, `FlagNotStuck`: the manager's flag is set while, and only while, its one synchronisation runs |
| `AccessSound` | `UsersUnique`; `RoleWithinTTL`: no access token carries a role its user lost longer ago than a token lives; `LoginsKept`; `FirstTokenFromOutside`; `WindowBounded` and `RetryAfterSuffices`: what the rate limiter lets through, and when it does again |
| `OrdersSound` | `AnswersAccounted`: each order is queued, done, given up or posted; `BillsNeverPosted`; `ImportsInOrder` |
| `StatusSound` | `SnapshotOffByOne`: a status read while tasks move is off by at most one task; `NeverCritical`; `FailuresAlarm` |
| `FiguresSound` | reconciliations: `MatchedOnce`, `NothingLeftToMatch`, `NoBetterLeft`, `CompletedHidesNothing`, `NotBoth`, `OneADay`; tax: `CodesAgree`, `EachUnitTaxedOnce`, `PaymentsKept`; reports: `SheetsBalance`, `IncomeAgrees`, `CashExplained`, `AgingAgrees`, `VarianceCountsOnce` |
| `RecordsSound` | audit: `EntriesLinked`, `RetentionKeeps`, `PurgeCountTrue`, `ActionsApart`; memory: `RecentKept`, `LongTermKept`, `TagsFind`; documents: `ListedOnce`, `OnlyStubs` |
| `StorageSound` | database: `VersionMeansSchema`, `RecordedOnce`; codecs: `FieldsReadable`, `OthersShut`, `BlobsTrue`, `BlobsReturn` |
| `AdviceSound` | payments: `DuplicatesFlagged`, `RepeatedIsKnown`, `OutliersOnTop`; texts and names: `FirstIsBest`, `NamesFound`, `DistancesAgree`; embeddings: `CacheInSync`, `MostSimilarFirst`, `OwnLikeFirst` |
| `NumberInCategory` | the account that is suggested for a text is of the category that is suggested |
| `DatesSound` | `MonthsLeadBack`, `AgeCountsBirthdays`, `ValidDaysExist`, `FormatsReadBack`, `PeriodsMeet`, `MonthEnds`, `QuarterOfTheDay` |

The failing runs are disagreements of the code with what its comments or
documents say; `PROJECT.json` quotes them. In words: a save during the push of
its row is never pushed ("never loses data"); with a writer of the registry
between its two read guards the fallback of `find_available_agent` waits for
ever, and the writer with it.

Four more disagreements, without a run of their own, which the
models show when an instance is changed. With "pull_error" in the
`Hazards` of `EdgeSyncLive`, `CaughtUp` fails: `last_sync` moves past
records whose query failed (`edge/sync.rs:931`). A dirty row whose push failed,
or that was saved after the batch was read, is replaced by a newer remote record
although "local modifications are never silently overwritten"
(`edge/sync.rs:40`); `NewestWins` is what does hold. A bill paid in part and then
paid, or voided, leaves a debit on the payables account (`accounting/ap.rs:417`);
`NeverPaidTwice` bounds it. And the version that lost a conflict, "never deleted"
(`edge/conflict.rs:132`), goes away with the next conflict of the same record, which resets
the entry of the log (`Reset`).

Other things the models show, without a sentence in the documents to set them
against: a task whose agent is removed between being chosen and looked up stays
in `in_progress_tasks` (`Accounted` counts it as `Stranded`); a seeded row is
never updated, and the row of a new account may be created after, and without,
its first posting (the comment of `RowsFollow`); the cancellation of a taxed
invoice is refused by the ledger, and its receivable stays; the rounded last
month of straight-line depreciation may be posted once more; an employee whose
allowances exceed the pay is not paid, and the task succeeds.

`PROJECT.json` lists, under `mutants`, wrong forms of mapped definitions as a bug
in the code would make them, each with the property that it violates; they stand
before the definitions they replace. A conjunction has several, for its different
conjuncts.

Bounds. `MaxEdits`, `MaxRemoteWrites`, `MaxFaults` bound what the environment
does; cycles, dispatching and retries are unbounded or bounded by the code's
own limits. `MAX_RETRIES` is 1 instead of 3: the code compares a count with it
and nothing else, and with 1 there is a first try, a retry and a giving up. Two
rows of two types are the least for which one type's failure and another's
success meet in a pull; two callers and two dispatchers the least that compete.
One fault suffices for each failure to hit each step; two for the live run, so
that a fault follows a fault. Seven calls are enough to add an asset, depreciate it to its
end and dispose of it, and for every pair of partial payments, closings and
repetitions on a document; documents of different processors meet only in
the accounts. Three risky calls are a get, an update and a
deletion or repetition around one posting. On a
device three calls are two that overlap and one between or after them; four where
a conflict and its resolutions follow each other. On the server two clients are
the least that overlap, three ticks of a refresh token's life let an access token
expire within it, six requests in seven ticks empty a bucket, let it refill and
empty it again, and two orders are one and the payment of it. In the services
each mix is small - two to five calls - but has every kind of call of its part,
and data at the boundaries that its properties are about: sums a cent apart,
incomes on a bracket's bound, days at the end of an age or a period, contents with
zero bytes, names that are permutations of each other, dates around leap days of
four kinds of years. The runs reach between 28 thousand
(`LedgerPosting`) and 3 million (`OrchestratorTasks`, up to the symmetry of
dispatchers) distinct states. Deadlock checking is off where a run may end
quietly: callers that have used up the bounds, or a queue that stays empty.

Fairness, and why the code justifies it.

- *EdgeSync*: weak fairness of a running cycle's steps (the runtime drives a
  future on; the retries are bounded), of `Reconnect` (outages end), strong
  fairness of new full cycles (the application syncs again and again, and finds
  the flag clear infinitely often).
- *Orchestrator*: weak fairness of each dispatcher's step, of the notification
  that follows a push, and of an administrator's `Write` and `Register`. Nobody
  is obliged to submit, to stop or to start.
- *Ledger*: strong fairness of each call's steps: tokio's mutex is first come
  first served, so that a call waiting for the counter gets it.

## 5. What is proved

Each theorem holds for every value of the constants that their named assumptions
admit. TLC evaluates those assumptions on every run. A theorem about an invariant
goes by three facts - it holds at first, every step keeps it together with what
strengthens it, and it implies the property - and has one lemma or step per action.
Below is what strengthens each, and why that is needed.

### EdgeSyncProofs (rows, types, callers, bounds, sets of hazards)

- `TypeCorrect`: `[]TypeOK`. `OneCycleAtATime`: `[]MutualExclusion`, inductive
  together with `TypeOK`: only `Acquire` leaves "idle", and only with the flag
  clear; `Moves` says what every other step does to flag and position.
- `OneRecordAtATime`: a cycle has at most one record at hand.
- `CleanRowsAreReceived`: under `NoOverlap` (no save inside a push or an upsert)
  `[]CleanIsReceived`. Alone that is not inductive: `mark_synced` clears the flag
  of a row it does not look at. `CleanInv` adds what a cycle relies on
  (`CleanCycle`): between its read and its mark a row still holds the version at
  hand, and by the time of the mark the remote has received it.
- `PullMissesNothing`: under `NoMissedPull` (no failing query or upsert, no
  remote write between a query and the end of its pull, no unsupported type)
  `[]CaughtUp`. `CaughtInv` adds that rows of the types queried so far are known
  or wait in the inbox (`Pending`), and that no stamp is in the future.
- `PullsKeepNewer`: under `NoOverwrite` (no save inside an upsert, no failing read
  of a stamp) the action property `NewestWins`. `NewestInv`: no stamp of the
  remote is in the future, what a pull has read is no newer than what the remote
  has now, and the row about to be saved over is no newer than what it gets.

These assumptions are exactly the hazards with which the property fails.

### OrchestratorProofs (tasks, agents, dispatchers, types of agents, retries)

- `AlwaysTyped`: `[](TypeOK /\ Positions)`: a dispatcher has a task and an agent
  exactly at the positions where the code has the variables.
- `WakeupsKept`: `[]NoLostWakeup`, by `WakeupDue`: if tasks are queued and every
  dispatcher waits, there is a permit or a notification on its way.
- `DeadLettersKept`: `[]DeadLettersComplete`.
- `StatusAlwaysTruthful`: `[](OneWorker /\ StatusTruthful)`. `OneWorker` is what
  the agent's mutex gives; `Identities` that identities are not reused.
- `TasksAccounted`: `[]Accounted`, with `InProgress` (a task in hand is in
  progress from assignment to outcome) and `FinitelyHeld`.
- `RetriesAlwaysUsedUp`: `[]RetriesUsedUp`, by `Attempts`: the attempts at a task
  are its retries, and one more from the moment an agent has it until it is
  retried.

Sorting, removing and putting back are proved through `Keep` and the number of
occurrences of a task in a sequence.

### LedgerProofs (accounts, chart, transactions, callers, bounds, hazards)

- `TypeCorrect`: `[]TypeOK`, by `TypeInv`: whoever is under way holds a
  transaction, or an account, that was handed in.
- `LinksAreRight`: `[]EntriesLinked` under every hazard. `LinkInv`: one call at
  most is in the posting section, its number is the last one drawn, and the
  entry it is about to link is in the journal and its own.
- `NumbersKept`: under `NoRepeats` `[]NumbersInStep`. `NumbersInv`: a transaction
  is in the hands of one call; the counter of the journal is the other counter, or
  one behind it, as the call in the posting section has come; no number is
  missing but that one's.
- `BalanceKept`: under `NoEdits` `[]TrialBalance`, whatever is repeated, dropped or
  fails. `ChartInv`: the chart is finite, accounts being created are not there
  yet, and the accounts that a call has looked up are still there when it posts.
- `RowsKept`: under `OnlyReplays` `[]RowsFollow`. `RowsInv`: a row lags behind only
  while a call that mentions its account has yet to write it.
- `StatementsKept`: under `OnlyFailures` (of writes) `[]StatementsAgree`.
  `EarnedInv`: every balance is the sum of the changes of the transactions that are
  numbered and posted; net income then is a sum of sums, taken in the other order.
- `ImplementsBooks`: under `OnlyFailures` `BooksKept`, the refinement of `Books`.
  The abstract transaction is taken up at `Post`, hence `NumberNow` and `NextNow`:
  a number drawn but not posted does not count. Initial states map to initial
  states (`InitImplements`), `Post` and `InsertAccount` to steps of `Books`, every
  other step to none.

### SubLedgersProofs (documents, amounts, rates, dates, length of the run)

- `BillsStayTied`, `ReceivablesStayTied`, `RegisterStaysTied`: the three
  properties of that name. `BillsInv` adds that nothing is posted for a bill before
  it is entered, that less than the whole of an open bill has been paid, and that
  the ledger takes up the reversal of what it took up; `InvoicesInv` and
  `RegisterInv` likewise. All rest on `DocumentsInv`, by which each processor posts
  to its own documents only.
- `TypesStay`: `[]TypeOK`.
- `PayStaysWithinGross`: `[]PayWithinGross`. The ledger refuses what does not
  balance, so that an entry it accepts has no positive withholding
  (`PayEntryIs`, `AcceptedPay`), and the net pay is within the gross.
- `DepreciationStaysLimited`: `[]DepreciationLimited`, from what one
  month's amount is at most.

That bills, invoices, receipts, assets and employees have different identities is
`SubLedgersAssumption`: the code draws UUIDs.

### DeviceProofs (records, numbers, threads, handles, mixes of calls and risks)

- `StoreAlwaysSound`: `[]StoreSound`. `OneTransaction` holds under every risk.
  `UndoInv`: what a ROLLBACK returns to has the same contents, where nobody
  writes in another's transaction. `NumbersInv`: a save that has found its number
  free writes before another takes it. `PendingInv`: a dirty row is in the change
  log or its save has yet to enter it, in the tables and in what a ROLLBACK returns
  to. `Durable` follows what was acknowledged.
- `ConflictsAlwaysSound`: `[]ConflictsSound`. `ThenInv`: a save belongs to a
  resolution or not; `AloneInv`: one resolution per record; `LogInv` and
  `VersionsInv`: the entry a resolution knows is one of its record with its own two
  versions; `LossInv`: from the report on, the row has the version in the log.
- `FlagAlwaysSound`: `[]FlagSound`. `EnteredInv`: the flag is set where a
  synchronisation was entered, as long as none of its mishaps has happened.

Each conjunct is proved where its own risks are excluded, as its definition says.
The proof of `LossInv` brought up one more: saving an account with the number of
another (`INSERT OR REPLACE`, `edge/store.rs`) removes the other's row, also while
a conflict about it is being resolved; so `NoSilentLoss` excludes "same_number".

### PlatformProofs (clients, names, tokens, keys, limits, files, agents, tasks)

- `AccessHolds`: `[]AccessSound`. `SessionInv`: what a handler's locals say of the
  rows (`Local`: where the repository is in memory and no registrations overlap, a
  name found free is free; a login has its user's role; a row about to be
  written back has the name, address and last login of the row) and which steps of
  two clients exclude each other (`Apart`); each user has its role now
  (`RowsInv`); and a token names a user who had its role within the life of an
  access token before it ends (`TokensInv`, `Recent`). `LimiterInv`: what was allowed
  since any request, and what is left in the bucket, is at most a burst and what
  was refilled since (`Spent`), from which every span of time follows (`Window`);
  a promise is kept by any bucket that is only refilled (`Kept`).
- `OrdersHold`: `[]OrdersSound`. `DeskInv`: orders for bills are with the
  orchestrator nobody starts; `ImportInv`: of each file, some number of whole
  imports are recorded and the groups before the next one.
- `StatusHolds`: `[]StatusSound`. `TasksPlaced`: each task waits, is finished, is
  dropped or is in work; `SnapshotInv`: the length of a list as it was read is that
  of the tasks not in work, plus perhaps the one in work, if that is there now.

### ServicesProofs (all that the twelve parts handle; mixes of calls and risks)

No part reads the state of another, so that each has an invariant of its own, and
`PartsStep` says that a step of `Services` is a step of one part and leaves the
others' state alone.

- `RecordsKept`: `[]RecordsSound`. `AuditInv`: what was logged is there up to the
  date of a purge, and a purge deletes what it has counted unless an entry comes
  late (`AllKept`, `CountsTrue`); and, without overlapping checks, plain entries
  or the database, each entry's hash is of its own id and of the hash before it,
  and an entry that a check has prepared continues the last one (`InOrder`).
  `MemoryInv`: what a holder has is what it was told, from the last one back to
  the limit, and a clone learns on its own. `DocumentInv`: a row's text encodes
  what was stored; that it decodes to the same bytes is proved for contents of any
  length.
- `StorageTrue`: `[]StorageSound`. `ConnectionInv`: where calls do not overlap no
  two work on a database, and who is to record a version finds none (`Alone`);
  where no statement fails twice either, all is applied by then (`Complete`).
  `FieldInv`: the row of keys opens with the password of the day, and, where no
  second setup and no legacy key comes in, every key that anyone holds is the one
  key, and a field that was written is encrypted with it.
  `BlobInv`: a blob has the checksum of its data.
- `FiguresTrue`: `[]FiguresSound`. `ReconInv`: what a completed reconciliation
  matched adds up to the balance at the end of its statement. That the pairs of a
  statement are distinct, leave nothing and prefer the best follows from the
  recursion over its lines. `TaxInv`: index and jurisdictions name each other.
  That each unit of an income is taxed once, at the rate of its bracket: the sums
  over the brackets for two incomes a unit apart differ in one bracket
  (`UnitTaxed`). `StatementInv`: what a report has read in its first step is what
  the books had then (`ReadInv`), the transactions since being those posted after
  it; and every balance is the sum of the changes of the transactions posted
  (`BooksInv`), so that totals over accounts and over transactions are the same
  double sum, taken in either order.
- `AdviceTrue`: `[]AdviceSound`. `AnomalyInv`: each answer is that of an analysis
  of the payments before it. `OutliersOnTop` is Samuelson's inequality: no number
  is further from the mean of `n` numbers than the square root of `n - 1`
  deviations, so that with `n - 1` up to `Deviations` squared what is above so
  many deviations is above each (`Samuelson`, `OutlierAbove`). `ClassifierInv`: what is shown
  was computed from one text, or one name and chart. That a sorted list is a
  rearrangement goes by counting what is before each entry (`RankIs`). The edit
  distance is a metric: the table of two names is bounded by their lengths, is
  turned when they are, is zero at the end only of equal names, and the triangle
  inequality goes by induction on the sum of three lengths. `EmbeddingInv`: cache
  and table have the same entries unless a write failed, an embedding was stored
  twice or the process began anew.
- `DatesTrue`: `[]DatesSound`. `CalendarInv`: the day of the clock and what was
  read of it. The months, quarters and leap years are proved by cases of the
  remainders.

Assumed, each as `ASSUME` in the module of the part, as the code justifies it:
bounds and identities have types; two default jurisdictions have different codes,
brackets are of the type in `tax.rs`; transactions of a ledger have different ids
and amounts of no sign (`ReconciliationAssumption`); the chart is finite, has the
accounts 1000 and 1020 and gives a listed account the kind that `seed.rs` gives it
(`ChartAssumption`); a mix whose risks leave something out has no such
transactions (`ReportsAssumption`, `ActionsAssumption`); duplicates are looked for
no longer back than vendors, as in `AnomalyConfig::default`; years are positive
and a shift of months does not lead before year 0 (the model numbers its days from
there); a byte is at most 255; vectors have whole components; and, of strings,
that they have a length and that equal letters make equal names
(`LettersAssumption`), which the prover does not know.

### Facts

What several modules need: induction over the naturals, over finite sets and over
sequences, and sums over finite sets (`SumFunction`): that a sum exists, unfolds at
any entry, splits, adds and can be taken in either order. The library's theorems of
induction take an operator as parameter, which no prover here can instantiate;
those of `Facts` take the set of what satisfies the formula, and rest on the least
counterexample. The sums of two and three entries are what the
ledger's check of a transaction needs. `Recursion`: a function that is defined
entry by entry from the one before exists, which folds, tables of distances and
the greedy matching of a statement's lines rest on. Then sums by parts and groups,
the greatest of some numbers and the ranks of an order, Samuelson's inequality
(`Samuelson`), three bytes as four digits to the base of 64, and the tables of
distances (`TableZero`, `TableTurned`, `TableTriangle`).

### Only model-checked

Liveness (`Converges`, `LockReleased`, `EveryTaskEnds`, `RecordEnds`), which the
prover does not reach, like ENABLED. And `NumberInCategory`: whether the words for
an account's number are found only in texts of its category depends on which
letters the keywords of `classification.rs` share, which the prover, for which a
string has no letters, cannot look into; an assumption that said it of every text
would be the property itself. TLC computes it for texts with words of one and of several
categories.

## 6. What is not modelled, and why

- Configuration, error types and data types: values without steps.
- OCR, PDF and the language models: external programs and text. Ciphers and codecs
  are symbolic: what a key encrypted only that key decrypts.
- Text and table formatting, export, files, regular expressions of the
  validation, and the handlers of the API that only read and format; websockets;
  the desktop application, a user interface over the API.
- Of the modelled parts: log lines, average times, identifiers' formats, the texts
  of errors; vendors of payables; the byte layouts of encrypted and compressed
  data; three quarters of the classifier's keywords, of which those were kept that
  share words between categories, one or two of each category otherwise.
- Timeouts of tasks: `timeout_ms` is stored and never used by the code.
- The connection of `LocalStore` is one; that two processes open the same file is not
  provided for by the code.
