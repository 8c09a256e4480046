-------------------------------- MODULE Desk --------------------------------
(***************************************************************************)
(* The handlers of the HTTP API and of its chat (api/mod.rs) with what     *)
(* they hand work to: the orchestrator, whose agents post to a ledger of   *)
(* their own (shared_ledger), and the ledger that the handlers read        *)
(* (nexus.ledger).  The two have the same chart of accounts under          *)
(* different ids.  A handler holds the lock of nexus throughout, so that   *)
(* it is one step, but for the import of a file, which a client that goes  *)
(* away can cut short at each of its awaits.                               *)
(*                                                                         *)
(* Risk: "import_again", a file is sent again after an import of it ended  *)
(* early.                                                                  *)
(***************************************************************************)
EXTENDS Parts, Integers, Sequences, FiniteSets

CONSTANTS
  File,       \* CSV files
  GroupsOf,   \* the transactions of each, as import_csv_rows groups its rows
  MaxOrders,
  MaxRetries,
  MaxImported \* groups, in which no import starts any more

Books == {"nexus", "shared"}
Group == [good: BOOLEAN, bill: BOOLEAN]

ASSUME DeskAssumption ==
  /\ GroupsOf \in [File -> Seq(Group)]
  /\ MaxOrders \in Nat /\ MaxRetries \in Nat /\ MaxImported \in Nat

VARIABLES
  orders,   \* what has been asked for and answered, in order
  queue,    \* the tasks of the orchestrator: <<order, retries>>
  givenUp,  \* orders among its failed tasks
  done,     \* orders completed without a transaction
  posted,   \* the orders whose transactions the agents' ledger has
  imported, \* the groups that nexus.ledger has: <<file, number>>, in order
  import,   \* the import under way: its file and next group, or NoImport
  ended     \* files whose import has ended early (history)

deskVars == <<orders, queue, givenUp, done, posted, imported, import, ended>>

NoImport == [file |-> "none", next |-> 0]

(* An order: what for, whose account ids its entries name, whether they     *)
(* balance, and the import that it pays.                                   *)
Kinds == {"transaction", "bill", "payment", "invoice", "report", "empty"}
Order == [kind: Kinds, on: Books \cup {"none"}, balanced: BOOLEAN,
          pays: (File \X Nat) \cup {<<"none", 0>>}]
Unpaid == <<"none", 0>>

Numbers == DOMAIN orders

(* Handlers wait for the lock of nexus. *)
Handles ==
  /\ Moves("desk")
  /\ import = NoImport
  /\ Len(orders) < MaxOrders

(* Mutant: the transaction is recorded where the handlers read. *)
RecordedAtOnce(order) ==
  /\ orders' = Append(orders, order)
  /\ imported' = Append(imported, <<"none", Len(orders) + 1>>)
  /\ UNCHANGED <<mix, queue, givenUp, done, posted, import, ended>>

(* process_transaction: the transaction goes to the orchestrator as a task, *)
(* and is answered as it was.                                              *)
ProcessTransaction(order) ==
  /\ orders' = Append(orders, order)
  /\ queue' = queue \cup {<<Len(orders) + 1, 0>>}
  /\ UNCHANGED <<mix, givenUp, done, posted, imported, import, ended>>

(* submit_task of any other task. *)
SubmitTask(kind) ==
  /\ orders' = Append(orders, [kind |-> kind, on |-> "shared", balanced |-> TRUE,
                               pays |-> Unpaid])
  /\ queue' = queue \cup {<<Len(orders) + 1, 0>>}
  /\ UNCHANGED <<mix, givenUp, done, posted, imported, import, ended>>

-----------------------------------------------------------------------------
(* create_transaction_handler: the client names account ids. *)
CreateTransaction(on, balanced) ==
  /\ Handles
  /\ on \in mix.known
  /\ ProcessTransaction([kind |-> "transaction", on |-> on, balanced |-> balanced,
                         pays |-> Unpaid])

(* ap_create_bill_handler: accounts of nexus.ledger, by number; answered as *)
(* approved.                                                               *)
CreateBill ==
  /\ Handles
  /\ ProcessTransaction([kind |-> "bill", on |-> "nexus", balanced |-> TRUE,
                         pays |-> Unpaid])

(* ap_pay_bill_handler: any transaction of nexus.ledger is taken for a      *)
(* bill, whatever was paid of it; answered as paid.                        *)
PayBill(paid) ==
  /\ Handles
  /\ ProcessTransaction([kind |-> "payment", on |-> "nexus", balanced |-> TRUE,
                         pays |-> paid])

(* create_invoice_handler. *)
CreateInvoice == Handles /\ SubmitTask("invoice")

(* submit_task_handler. *)
SubmitAnyTask == Handles /\ \E kind \in {"invoice", "report", "empty"} : SubmitTask(kind)

(* Intents of the chat that submit a task; handle_record_transaction        *)
(* submits one without a transaction and answers that it is recorded.      *)
ChatInvoice == Handles /\ SubmitTask("invoice")
ChatRecord == Handles /\ SubmitTask("empty")
ChatTask == Handles /\ SubmitTask("report")

(* csv_import_handler. *)
ImportCsv(f) ==
  /\ Handles
  /\ Len(imported) < MaxImported
  /\ Risk("import_again") \/ f \notin ended
  /\ import' = [file |-> f, next |-> 1]
  /\ UNCHANGED <<mix, orders, queue, givenUp, done, posted, imported, ended>>

Remaining == import # NoImport /\ import.next <= Len(GroupsOf[import.file])
NextGroup == GroupsOf[import.file][import.next]
EndImport(early) ==
  /\ import' = NoImport
  /\ ended' = IF early THEN ended \cup {import.file} ELSE ended

(* The next group of rows, recorded before the one after it is looked at. *)
ImportGroup ==
  /\ Remaining
  /\ NextGroup.good
  /\ imported' = Append(imported, <<import.file, import.next>>)
  /\ import' = [import EXCEPT !.next = @ + 1]
  /\ UNCHANGED <<mix, orders, queue, givenUp, done, posted, ended>>

(* Mutant: a group that is in error is passed over. *)
ImportPassesOver ==
  /\ Remaining
  /\ ~NextGroup.good
  /\ import' = [import EXCEPT !.next = @ + 1]
  /\ UNCHANGED <<mix, orders, queue, givenUp, done, posted, imported, ended>>

(* An unknown account or a group that does not balance: an error, with the  *)
(* groups before it recorded.                                              *)
ImportFails ==
  /\ Remaining
  /\ ~NextGroup.good
  /\ EndImport(TRUE)
  /\ UNCHANGED <<mix, orders, queue, givenUp, done, posted, imported>>

ImportDone ==
  /\ import # NoImport /\ ~Remaining
  /\ EndImport(FALSE)
  /\ UNCHANGED <<mix, orders, queue, givenUp, done, posted, imported>>

(* The client goes away, and the handler's future is dropped. *)
ClientGone ==
  /\ import # NoImport
  /\ EndImport(TRUE)
  /\ UNCHANGED <<mix, orders, queue, givenUp, done, posted, imported>>

-----------------------------------------------------------------------------
(* The orchestrator's loop, in a program that calls start(). *)

(* Mutant: the accounts are not looked up. *)
AcceptedUnchecked(order) == order.balanced

(* The agents' ledger knows its own accounts only. *)
Accepted(order) == order.on = "shared" /\ order.balanced

Posts(order) == order.kind \in {"transaction", "bill", "payment", "invoice"}

Works(t) == Moves("desk") /\ mix.started /\ t \in queue

Post(t) ==
  /\ Works(t)
  /\ Posts(orders[t[1]]) /\ Accepted(orders[t[1]])
  /\ posted' = posted \cup {t[1]}
  /\ queue' = queue \ {t}
  /\ UNCHANGED <<mix, orders, givenUp, done, imported, import, ended>>

Complete(t) ==
  /\ Works(t)
  /\ orders[t[1]].kind = "report"
  /\ done' = done \cup {t[1]}
  /\ queue' = queue \ {t}
  /\ UNCHANGED <<mix, orders, givenUp, posted, imported, import, ended>>

(* Mutant: the failed task is neither queued again nor kept. *)
FailForgets(t) ==
  /\ Works(t)
  /\ orders[t[1]].kind = "transaction" => ~Accepted(orders[t[1]])
  /\ queue' = IF t[2] < MaxRetries THEN (queue \ {t}) \cup {<<t[1], t[2] + 1>>}
                                   ELSE queue \ {t}
  /\ UNCHANGED <<mix, orders, done, posted, imported, import, ended, givenUp>>

(* Mutant: one attempt more. *)
FailOnceMore(t) ==
  /\ Works(t)
  /\ orders[t[1]].kind = "transaction" => ~Accepted(orders[t[1]])
  /\ IF t[2] <= MaxRetries
       THEN queue' = (queue \ {t}) \cup {<<t[1], t[2] + 1>>} /\ UNCHANGED givenUp
       ELSE queue' = queue \ {t} /\ givenUp' = givenUp \cup {t[1]}
  /\ UNCHANGED <<mix, orders, done, posted, imported, import, ended>>

(* The agent's ledger refuses the transaction, or the agent fails at        *)
(* another task for a reason of its own.                                   *)
Fail(t) ==
  /\ Works(t)
  /\ orders[t[1]].kind = "transaction" => ~Accepted(orders[t[1]])
  /\ IF t[2] < MaxRetries
       THEN queue' = (queue \ {t}) \cup {<<t[1], t[2] + 1>>} /\ UNCHANGED givenUp
       ELSE queue' = queue \ {t} /\ givenUp' = givenUp \cup {t[1]}
  /\ UNCHANGED <<mix, orders, done, posted, imported, import, ended>>

DeskInit ==
  /\ orders = << >>
  /\ queue = {} /\ givenUp = {} /\ done = {} /\ posted = {}
  /\ imported = << >>
  /\ import = NoImport
  /\ ended = {}

DeskNext ==
  \/ \E on \in Books \cup {"none"}, balanced \in BOOLEAN : CreateTransaction(on, balanced)
  \/ CreateBill
  \/ \E i \in DOMAIN imported : PayBill(imported[i])
  \/ CreateInvoice \/ SubmitAnyTask \/ ChatInvoice \/ ChatRecord \/ ChatTask
  \/ \E f \in File : ImportCsv(f)
  \/ ImportGroup \/ ImportFails \/ ImportDone \/ ClientGone
  \/ \E t \in queue : Post(t) \/ Complete(t) \/ Fail(t)

-----------------------------------------------------------------------------
(* What the reading handlers show: the transactions and the bills of        *)
(* nexus.ledger.                                                           *)
ListedTransactions == {imported[i] : i \in DOMAIN imported}
ListedBills == {x \in ListedTransactions : x[1] \in File /\ GroupsOf[x[1]][x[2]].bill}

DeskTypeOK ==
  /\ orders \in Seq(Order)
  /\ queue \subseteq Numbers \X (0 .. MaxRetries)
  /\ givenUp \cup done \cup posted \subseteq Numbers
  /\ ended \subseteq File

Queued == {t[1] : t \in queue}

(* Each answer is accounted for: what was answered as pending, approved,    *)
(* paid, submitted or recorded is in exactly one of the queue, the failed  *)
(* tasks, the completed ones, and the agents' ledger - and nowhere in the  *)
(* lists that the handlers show, which hold what was imported and nothing  *)
(* else: an answer is never confirmed by a later list.                     *)
AnswersAccounted ==
  /\ Numbers = Queued \cup givenUp \cup done \cup posted
  /\ Queued \cap (givenUp \cup done \cup posted) = {}
  /\ givenUp \cap (done \cup posted) = {} /\ done \cap posted = {}
  /\ \A t, u \in queue : t[1] = u[1] => t = u
  /\ ListedTransactions \subseteq File \X Nat

(* Money moves on the agents' books only: nothing that names an account of  *)
(* the handlers' ledger, a bill or its payment included, is ever posted.   *)
BillsNeverPosted ==
  \A n \in posted : orders[n].kind \notin {"bill", "payment"} /\ orders[n].on = "shared"

(* How many of the first k groups recorded are of file f. *)
SoFar(f, k) == Cardinality({j \in 1 .. k : imported[j][1] = f})

(* An import has recorded the groups of its file one after the other, up to *)
(* the first that is in error, and a group a second time only once all     *)
(* were recorded, unless the file is sent again after an import of it ended *)
(* early.                                                                  *)
ImportsInOrder ==
  Moves("desk") /\ Safe({"import_again"}) =>
    \A k \in DOMAIN imported :
      LET f == imported[k][1]
          n == imported[k][2]
      IN /\ n = ((SoFar(f, k) - 1) % Len(GroupsOf[f])) + 1
         /\ \A j \in 1 .. n : GroupsOf[f][j].good
=============================================================================
