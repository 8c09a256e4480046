--------------------------- MODULE PlatformProofs ---------------------------
(***************************************************************************)
(* Theorems about Platform, for any clients, keys, files, agents, tasks    *)
(* and bounds: who gets in, what becomes of what was asked for, and what   *)
(* is reported of the agents.                                              *)
(***************************************************************************)
EXTENDS Platform, Facts

-----------------------------------------------------------------------------
(* The handlers and what they hand work to.                                *)

LEMMA DeskSteps ==
  ASSUME [Next]_vars
  PROVE  (DeskNext \/ UNCHANGED deskVars) /\ mix' = mix
<1>1. CASE Next
  <2>1. DeskNext \/ UNCHANGED deskVars
    BY <1>1 DEF Next, deskVars
  <2>2. SessionsNext => mix' = mix
    <3>1. ASSUME NEW c \in Client, NEW tok, NEW i, NEW r, NEW old, NEW n, NEW m,
                 \/ Register(c, tok, n, m) \/ Login(c, tok, i) \/ Refresh(c, tok, old)
                 \/ RefreshRefused(c, tok, old) \/ LoadUser(c, tok, i, r) \/ Serve(c, tok)
          PROVE  mix' = mix
      BY <3>1 DEF Register, Login, Refresh, RefreshRefused, LoadUser, Serve
    <3>2. ASSUME NEW c \in Client,
                 \/ CheckName(c) \/ CheckMail(c) \/ CreateUser(c) \/ CreateFails(c)
                 \/ StampLogin(c) \/ IssueTokens(c) \/ StoreUser(c)
          PROVE  mix' = mix
      BY <3>2 DEF CheckName, CheckMail, CreateUser, CreateFails, StampLogin, IssueTokens,
                  StoreUser, Quiet
    <3>3. Tick => mix' = mix
      BY DEF Tick
    <3> QED
      BY <3>1, <3>2, <3>3 DEF SessionsNext
  <2>3. LimiterNext => mix' = mix
    BY DEF LimiterNext, InitRateLimiter, Allow, Refuse, Asks, LimiterTick
  <2>4. DeskNext => mix' = mix
    BY DEF DeskNext, CreateTransaction, CreateBill, PayBill, CreateInvoice, SubmitAnyTask,
           ChatInvoice, ChatRecord, ChatTask, ProcessTransaction, SubmitTask, ImportCsv,
           ImportGroup, ImportFails, ImportDone, ClientGone, Post, Complete, Fail
  <2>5. MonitorNext => mix' = mix
    BY DEF MonitorNext, Take, SetBusy, Process, ListCompleted, ListFailed, CountTask,
           Collect, ReadAgents, Release, StoreSample, CheckAlerts, ReadList,
           ResolveAlert, ClockTick
  <2> QED
    BY <1>1, <2>1, <2>2, <2>3, <2>4, <2>5 DEF Next
<1>2. CASE UNCHANGED vars
  BY <1>2 DEF vars, deskVars
<1> QED
  BY <1>1, <1>2

(* What the handlers ask for, and what they leave alone then. *)
LEMMA Asked ==
  ASSUME DeskNext, orders' # orders,
         ListedTransactions \subseteq File \X Nat
  PROVE  \E order \in Order :
           /\ order.kind \in {"bill", "payment"} => order.on = "nexus"
           /\ orders' = Append(orders, order)
           /\ queue' = queue \cup {<<Len(orders) + 1, 0>>}
           /\ UNCHANGED <<givenUp, done, posted, imported, import, ended>>
<1> DEFINE Goal(order) ==
      /\ order.kind \in {"bill", "payment"} => order.on = "nexus"
      /\ orders' = Append(orders, order)
      /\ queue' = queue \cup {<<Len(orders) + 1, 0>>}
      /\ UNCHANGED <<givenUp, done, posted, imported, import, ended>>
<1>1. ASSUME NEW kind \in {"invoice", "report", "empty"}, SubmitTask(kind)
      PROVE  \E order \in Order : Goal(order)
  <2> DEFINE order == [kind |-> kind, on |-> "shared", balanced |-> TRUE, pays |-> Unpaid]
  <2>1. order \in Order
    BY DEF Order, Kinds, Books, Unpaid
  <2>2. Goal(order)
    BY <1>1 DEF SubmitTask
  <2> QED
    BY <2>1, <2>2
<1>2. ASSUME NEW order \in Order, ProcessTransaction(order),
             order.kind \in {"bill", "payment"} => order.on = "nexus"
      PROVE  \E o \in Order : Goal(o)
  BY <1>2 DEF ProcessTransaction
<1>3. ASSUME NEW on \in Books \cup {"none"}, NEW balanced \in BOOLEAN,
             CreateTransaction(on, balanced)
      PROVE  \E order \in Order : Goal(order)
  <2> DEFINE order == [kind |-> "transaction", on |-> on, balanced |-> balanced,
                       pays |-> Unpaid]
  <2>1. order \in Order /\ order.kind = "transaction"
    BY DEF Order, Kinds, Unpaid
  <2>2. ProcessTransaction(order)
    BY <1>3 DEF CreateTransaction
  <2> QED
    BY <1>2, <2>1, <2>2
<1>4. ASSUME CreateBill
      PROVE  \E order \in Order : Goal(order)
  <2> DEFINE order == [kind |-> "bill", on |-> "nexus", balanced |-> TRUE, pays |-> Unpaid]
  <2>1. order \in Order /\ order.on = "nexus"
    BY DEF Order, Kinds, Books, Unpaid
  <2>2. ProcessTransaction(order)
    BY <1>4 DEF CreateBill
  <2> QED
    BY <1>2, <2>1, <2>2
<1>5. ASSUME NEW i \in DOMAIN imported, PayBill(imported[i])
      PROVE  \E order \in Order : Goal(order)
  <2> DEFINE order == [kind |-> "payment", on |-> "nexus", balanced |-> TRUE,
                       pays |-> imported[i]]
  <2>1. imported[i] \in File \X Nat
    BY DEF ListedTransactions
  <2>2. order \in Order /\ order.on = "nexus"
    BY <2>1 DEF Order, Kinds, Books
  <2>3. ProcessTransaction(order)
    BY <1>5 DEF PayBill
  <2> QED
    BY <1>2, <2>2, <2>3
<1>6. ASSUME CreateInvoice \/ SubmitAnyTask \/ ChatInvoice \/ ChatRecord \/ ChatTask
      PROVE  \E kind \in {"invoice", "report", "empty"} : SubmitTask(kind)
  BY <1>6 DEF CreateInvoice, SubmitAnyTask, ChatInvoice, ChatRecord, ChatTask
<1>7. (\E f \in File : ImportCsv(f)) \/ ImportGroup \/ ImportFails \/ ImportDone \/ ClientGone
        => orders' = orders
  BY DEF ImportCsv, ImportGroup, ImportFails, ImportDone, ClientGone
<1>8. (\E t \in queue : Post(t) \/ Complete(t) \/ Fail(t)) => orders' = orders
  BY DEF Post, Complete, Fail
<1> QED
  BY <1>1, <1>3, <1>4, <1>5, <1>6, <1>7, <1>8 DEF DeskNext

(* An import under way has a file and a next group; the groups recorded are *)
(* numbered groups of files.                                               *)
ImportType ==
  /\ imported \in Seq(File \X Nat)
  /\ import = NoImport \/ import \in [file: File, next: Nat \ {0}]

DeskInv ==
  /\ DeskTypeOK /\ AnswersAccounted /\ ImportType
  /\ \A n \in Numbers : orders[n].kind \in {"bill", "payment"} => orders[n].on = "nexus"
  /\ \A n \in posted : Accepted(orders[n])

LEMMA DeskAtFirst == DeskInit => DeskInv
<1> SUFFICES ASSUME DeskInit
             PROVE  DeskInv
  OBVIOUS
<1>1. Numbers = {} /\ Queued = {}
  BY DEF DeskInit, Numbers, Queued
<1>2. DeskTypeOK
  BY <1>1 DEF DeskInit, DeskTypeOK
<1>3. AnswersAccounted
  BY <1>1 DEF DeskInit, AnswersAccounted, ListedTransactions
<1>4. ImportType
  BY DEF DeskInit, ImportType
<1> QED
  BY <1>1, <1>2, <1>3, <1>4 DEF DeskInv, DeskInit

(* Imports leave the orders alone, and only append groups. *)
LEMMA ImportSteps ==
  ASSUME DeskNext, orders' = orders, queue' = queue, ImportType, DeskTypeOK
  PROVE  /\ \/ imported' = imported
            \/ /\ import \in [file: File, next: Nat \ {0}]
               /\ imported' = Append(imported, <<import.file, import.next>>)
         /\ ImportType'
         /\ ended' \subseteq ended \cup File
         /\ UNCHANGED <<givenUp, done, posted>>
<1>1. ASSUME NEW f \in File, ImportCsv(f)
      PROVE  ImportType' /\ UNCHANGED <<imported, ended, givenUp, done, posted>>
  BY <1>1 DEF ImportCsv, ImportType
<1>2. ASSUME ImportGroup
      PROVE  /\ import \in [file: File, next: Nat \ {0}]
             /\ imported' = Append(imported, <<import.file, import.next>>)
             /\ ImportType' /\ UNCHANGED <<ended, givenUp, done, posted>>
  <2>1. import \in [file: File, next: Nat \ {0}]
    BY <1>2 DEF ImportGroup, Remaining, ImportType
  <2>2. /\ imported' = Append(imported, <<import.file, import.next>>)
        /\ import' = [import EXCEPT !.next = @ + 1]
        /\ UNCHANGED <<ended, givenUp, done, posted>>
    BY <1>2 DEF ImportGroup
  <2>3. import' \in [file: File, next: Nat \ {0}]
    BY <2>1, <2>2
  <2>4. imported' \in Seq(File \X Nat)
    BY <2>1, <2>2, AppendProperties DEF ImportType
  <2> QED
    BY <2>1, <2>2, <2>3, <2>4 DEF ImportType
<1>3. ASSUME ImportFails \/ ImportDone \/ ClientGone
      PROVE  ImportType' /\ ended' \subseteq ended \cup File
             /\ UNCHANGED <<imported, givenUp, done, posted>>
  <2>1. import # NoImport
    BY <1>3 DEF ImportFails, ImportDone, ClientGone, Remaining
  <2>2. import.file \in File
    BY <2>1 DEF ImportType
  <2> QED
    BY <1>3, <2>2 DEF ImportFails, ImportDone, ClientGone, EndImport, ImportType
<1>4. ASSUME NEW t \in queue, Post(t) \/ Complete(t) \/ Fail(t)
      PROVE  queue' # queue
  <2>1. t[1] \in Numbers /\ t[2] \in Nat /\ t = <<t[1], t[2]>>
    BY DeskAssumption DEF DeskTypeOK
  <2>2. t # <<t[1], t[2] + 1>>
    BY <2>1
  <2>3. t \notin queue'
    BY <1>4, <2>2 DEF Post, Complete, Fail
  <2> QED
    BY <2>3
<1>5. ASSUME \/ CreateBill \/ CreateInvoice \/ SubmitAnyTask \/ ChatInvoice \/ ChatRecord
             \/ ChatTask
             \/ \E on \in Books \cup {"none"}, balanced \in BOOLEAN :
                  CreateTransaction(on, balanced)
             \/ \E i \in DOMAIN imported : PayBill(imported[i])
      PROVE  UNCHANGED <<imported, import, ended, givenUp, done, posted>>
  BY <1>5 DEF CreateBill, CreateInvoice, SubmitAnyTask, ChatInvoice, ChatRecord, ChatTask,
              CreateTransaction, PayBill, ProcessTransaction, SubmitTask
<1> QED
  BY <1>1, <1>2, <1>3, <1>4, <1>5 DEF DeskNext, ImportType

(* An order is queued under the next number. *)
LEMMA AskedKeeps ==
  ASSUME DeskInv, NEW order \in Order,
         order.kind \in {"bill", "payment"} => order.on = "nexus",
         orders' = Append(orders, order),
         queue' = queue \cup {<<Len(orders) + 1, 0>>},
         UNCHANGED <<givenUp, done, posted, imported, import, ended>>
  PROVE  DeskInv'
<1> DEFINE n == Len(orders) + 1
<1>1. /\ orders \in Seq(Order) /\ Numbers = 1 .. Len(orders) /\ Len(orders) \in Nat
      /\ queue \subseteq Numbers \X (0 .. MaxRetries) /\ MaxRetries \in Nat
      /\ givenUp \cup done \cup posted \subseteq Numbers
  BY DeskAssumption DEF DeskInv, DeskTypeOK, Numbers
<1>2. /\ orders' \in Seq(Order) /\ Len(orders') = n /\ orders'[n] = order
      /\ \A k \in Numbers : orders'[k] = orders[k]
  BY <1>1, AppendProperties
<1>3. Numbers' = Numbers \cup {n} /\ n \notin Numbers
  BY <1>1, <1>2 DEF Numbers
<1>4. Queued' = Queued \cup {n} /\ Queued \subseteq Numbers
  <2>1. \A t \in queue : t[1] \in Numbers
    BY <1>1
  <2>2. Queued' = {t[1] : t \in queue \cup {<<n, 0>>}}
    BY DEF Queued
  <2>3. Queued \subseteq Numbers
    BY <2>1 DEF Queued
  <2>4. <<n, 0>>[1] = n
    OBVIOUS
  <2>5. {t[1] : t \in queue \cup {<<n, 0>>}} = {t[1] : t \in queue} \cup {n}
    <3> DEFINE new == <<n, 0>>
    <3> HIDE DEF new
    <3>1. {t[1] : t \in queue \cup {new}} = {t[1] : t \in queue} \cup {new[1]}
      OBVIOUS
    <3> QED
      BY <2>4, <3>1 DEF new
  <2> QED
    BY <2>2, <2>3, <2>5 DEF Queued
<1>5. DeskTypeOK'
  BY <1>1, <1>2, <1>3 DEF DeskTypeOK, DeskInv
<1>6. \A t, u \in queue' : t[1] = u[1] => t = u
  <2>1. \A t \in queue : t[1] # n
    BY <1>1, <1>3
  <2> QED
    BY <2>1 DEF DeskInv, AnswersAccounted
<1>7. AnswersAccounted'
  <2>1. ListedTransactions' = ListedTransactions
    BY DEF ListedTransactions
  <2> QED
    BY <1>1, <1>3, <1>4, <1>6, <2>1 DEF DeskInv, AnswersAccounted
<1>8. ImportType'
  BY DEF DeskInv, ImportType
<1>9. \A k \in Numbers' : orders'[k].kind \in {"bill", "payment"} => orders'[k].on = "nexus"
  BY <1>2, <1>3 DEF DeskInv
<1>10. \A k \in posted' : Accepted(orders'[k])
  BY <1>1, <1>2 DEF DeskInv, Accepted
<1> QED
  BY <1>5, <1>7, <1>8, <1>9, <1>10 DEF DeskInv, Accepted

(* The loop takes a task out of the queue, or back in after one attempt     *)
(* more.                                                                   *)
LEMMA WorkedKeeps ==
  ASSUME DeskInv, NEW t \in queue, Post(t) \/ Complete(t) \/ Fail(t)
  PROVE  DeskInv'
<1> DEFINE n == t[1]
           rest == queue \ {t}
<1>1. /\ queue \subseteq Numbers \X (0 .. MaxRetries) /\ MaxRetries \in Nat
      /\ givenUp \cup done \cup posted \subseteq Numbers
      /\ n \in Numbers /\ t[2] \in 0 .. MaxRetries
      /\ Numbers = Queued \cup givenUp \cup done \cup posted
      /\ Queued \cap (givenUp \cup done \cup posted) = {}
      /\ givenUp \cap (done \cup posted) = {} /\ done \cap posted = {}
      /\ \A u, v \in queue : u[1] = v[1] => u = v
  BY DeskAssumption DEF DeskInv, DeskTypeOK, AnswersAccounted
<1>2. n \in Queued /\ n \notin {u[1] : u \in rest} /\ Queued = {u[1] : u \in rest} \cup {n}
  BY <1>1 DEF Queued
<1>3. /\ UNCHANGED <<orders, imported, import, ended>>
      /\ \/ /\ queue' = rest
            /\ \/ posted' = posted \cup {n} /\ UNCHANGED <<givenUp, done>>
                  /\ Accepted(orders[n])
               \/ done' = done \cup {n} /\ UNCHANGED <<givenUp, posted>>
               \/ givenUp' = givenUp \cup {n} /\ UNCHANGED <<done, posted>>
         \/ /\ queue' = rest \cup {<<n, t[2] + 1>>} /\ t[2] + 1 \in 0 .. MaxRetries
            /\ UNCHANGED <<givenUp, done, posted>>
  BY <1>1 DEF Post, Complete, Fail
<1>4. /\ queue' \subseteq Numbers \X (0 .. MaxRetries)
      /\ givenUp' \cup done' \cup posted' \subseteq Numbers
      /\ Numbers' = Numbers
  BY <1>1, <1>3 DEF Numbers
<1>5. \A u, v \in queue' : u[1] = v[1] => u = v
  <2>1. \A u \in rest : u[1] # n
    BY <1>2
  <2> QED
    BY <1>1, <1>3, <2>1
<1>6. \/ Queued' = {u[1] : u \in rest} /\ queue' = rest
      \/ Queued' = Queued /\ queue' # rest
  <2>1. CASE queue' = rest
    BY <2>1 DEF Queued
  <2>2. CASE queue' = rest \cup {<<n, t[2] + 1>>} /\ queue' # rest
    BY <1>2, <2>2 DEF Queued
  <2> QED
    BY <1>3, <2>1, <2>2
<1>7. AnswersAccounted'
  <2>1. ListedTransactions' = ListedTransactions
    BY <1>3 DEF ListedTransactions
  <2>2. ListedTransactions \subseteq File \X Nat
    BY DEF DeskInv, AnswersAccounted
  <2>3. rest \cup {<<n, t[2] + 1>>} # rest
    <3>1. \A u \in rest : u[1] # n
      BY <1>2
    <3>2. <<n, t[2] + 1>>[1] = n
      OBVIOUS
    <3>3. <<n, t[2] + 1>> \notin rest
      BY <3>1, <3>2
    <3> QED
      BY <3>3
  <2>4. /\ Numbers' = (Queued \cup givenUp \cup done \cup posted)'
        /\ (Queued \cap (givenUp \cup done \cup posted) = {})'
        /\ (givenUp \cap (done \cup posted) = {})' /\ (done \cap posted = {})'
    <3>1. CASE queue' = rest
      <4>1. Queued' = Queued \ {n}
        BY <1>2, <1>6, <3>1
      <4>2. UNCHANGED <<givenUp, done, posted>> => FALSE
        BY <1>2, <1>3, <2>3, <3>1, <1>1
      <4> QED
        BY <1>1, <1>2, <1>3, <1>4, <2>3, <3>1, <4>1
    <3>2. CASE queue' # rest
      BY <1>1, <1>3, <1>4, <1>6, <3>2
    <3> QED
      BY <3>1, <3>2
  <2> QED
    BY <1>5, <2>1, <2>2, <2>4 DEF AnswersAccounted
<1>8. \A k \in posted' : Accepted(orders'[k])
  BY <1>3 DEF DeskInv, Accepted
<1>9. DeskTypeOK' /\ ImportType'
  BY <1>3, <1>4 DEF DeskInv, DeskTypeOK, ImportType
<1>10. \A k \in Numbers' : orders'[k].kind \in {"bill", "payment"} => orders'[k].on = "nexus"
  BY <1>3, <1>4 DEF DeskInv
<1> QED
  BY <1>7, <1>8, <1>9, <1>10 DEF DeskInv, Accepted

LEMMA DeskKept ==
  ASSUME DeskInv, [Next]_vars
  PROVE  DeskInv'
<1>1. CASE UNCHANGED deskVars
  BY <1>1 DEF DeskInv, DeskTypeOK, AnswersAccounted, ImportType, deskVars, Numbers, Queued,
              ListedTransactions, Accepted
<1>2. CASE DeskNext /\ orders' # orders
  <2>1. ListedTransactions \subseteq File \X Nat
    BY DEF DeskInv, AnswersAccounted
  <2> QED
    BY <1>2, <2>1, Asked, AskedKeeps
<1>3. CASE DeskNext /\ \E t \in queue : Post(t) \/ Complete(t) \/ Fail(t)
  BY <1>3, WorkedKeeps
<1>4. CASE DeskNext /\ orders' = orders /\ queue' = queue
  <2>1. /\ imported' \in Seq(File \X Nat) /\ ImportType' /\ ended' \subseteq ended \cup File
        /\ UNCHANGED <<givenUp, done, posted>>
    BY <1>4, ImportSteps DEF DeskInv, ImportType
  <2>2. ListedTransactions' \subseteq File \X Nat
    BY <2>1 DEF ListedTransactions
  <2>3. Numbers' = Numbers /\ Queued' = Queued
    BY <1>4 DEF Numbers, Queued
  <2>4. DeskTypeOK' /\ AnswersAccounted'
    BY <1>4, <2>1, <2>2, <2>3 DEF DeskInv, DeskTypeOK, AnswersAccounted
  <2> QED
    BY <1>4, <2>1, <2>3, <2>4 DEF DeskInv, Accepted
<1>5. DeskNext => \/ orders' # orders
                  \/ \E t \in queue : Post(t) \/ Complete(t) \/ Fail(t)
                  \/ orders' = orders /\ queue' = queue
  <2>1. \A order : Append(orders, order) # orders
    BY AppendProperties DEF DeskInv, DeskTypeOK
  <2>2. ASSUME \/ CreateBill \/ CreateInvoice \/ SubmitAnyTask \/ ChatInvoice \/ ChatRecord
               \/ ChatTask
               \/ \E on \in Books \cup {"none"}, balanced \in BOOLEAN :
                    CreateTransaction(on, balanced)
               \/ \E i \in DOMAIN imported : PayBill(imported[i])
        PROVE  orders' # orders
    BY <2>1, <2>2 DEF CreateBill, CreateInvoice, SubmitAnyTask, ChatInvoice, ChatRecord,
                      ChatTask, CreateTransaction, PayBill, ProcessTransaction, SubmitTask
  <2>3. ASSUME \/ ImportGroup \/ ImportFails \/ ImportDone \/ ClientGone
               \/ \E f \in File : ImportCsv(f)
        PROVE  orders' = orders /\ queue' = queue
    BY <2>3 DEF ImportCsv, ImportGroup, ImportFails, ImportDone, ClientGone
  <2> QED
    BY <2>2, <2>3 DEF DeskNext
<1> QED
  BY <1>1, <1>2, <1>3, <1>4, <1>5, DeskSteps

(* How many groups of each file are recorded: as many as some number of     *)
(* whole imports of it, and those before the next group of the import      *)
(* under way.                                                              *)
Recorded(f) == SoFar(f, Len(imported))
Importing(f) == import # NoImport /\ import.file = f

ImportInv ==
  /\ import # NoImport => import.file \notin ended
  /\ \A f \in File \ ended : \E q \in Nat :
       IF Importing(f)
         THEN /\ Recorded(f) = q * Len(GroupsOf[f]) + (import.next - 1)
              /\ import.next <= Len(GroupsOf[f]) + 1
              /\ \A j \in 1 .. (import.next - 1) : GroupsOf[f][j].good
         ELSE Recorded(f) = q * Len(GroupsOf[f])

OrdersInv ==
  /\ DeskInv
  /\ Moves("desk") /\ Safe({"import_again"}) => ImportInv /\ ImportsInOrder

(* How many of the first k groups of s are of file f. *)
InFirst(s, f, k) == Cardinality({j \in 1 .. k : s[j][1] = f})

LEMMA InFirstIsNat ==
  ASSUME NEW s, NEW f, NEW k \in Nat
  PROVE  IsFiniteSet({j \in 1 .. k : s[j][1] = f}) /\ InFirst(s, f, k) \in Nat
<1>1. IsFiniteSet(1 .. k)
  BY FS_Interval
<1>2. IsFiniteSet({j \in 1 .. k : s[j][1] = f})
  BY <1>1, FS_Subset
<1> QED
  BY <1>2, FS_CardinalityType DEF InFirst

LEMMA InFirstKept ==
  ASSUME NEW S, NEW s \in Seq(S), NEW x \in S, NEW f, NEW k \in 0 .. Len(s)
  PROVE  InFirst(Append(s, x), f, k) = InFirst(s, f, k)
<1>1. \A j \in 1 .. k : Append(s, x)[j] = s[j]
  BY AppendProperties
<1>2. {j \in 1 .. k : Append(s, x)[j][1] = f} = {j \in 1 .. k : s[j][1] = f}
  BY <1>1
<1> QED
  BY <1>2 DEF InFirst

LEMMA InFirstOneMore ==
  ASSUME NEW S, NEW s \in Seq(S), NEW x \in S, NEW f
  PROVE  InFirst(Append(s, x), f, Len(s) + 1) =
           InFirst(s, f, Len(s)) + (IF x[1] = f THEN 1 ELSE 0)
<1> DEFINE Before == {j \in 1 .. Len(s) : s[j][1] = f}
           After == {j \in 1 .. (Len(s) + 1) : Append(s, x)[j][1] = f}
<1>1. /\ Len(s) \in Nat /\ \A j \in 1 .. Len(s) : Append(s, x)[j] = s[j]
      /\ Append(s, x)[Len(s) + 1] = x
  BY AppendProperties
<1>2. 1 .. (Len(s) + 1) = (1 .. Len(s)) \cup {Len(s) + 1}
  BY <1>1
<1>3. InFirst(Append(s, x), f, Len(s) + 1) = Cardinality(After)
  BY DEF InFirst
<1>4. InFirst(s, f, Len(s)) = Cardinality(Before) /\ Cardinality(Before) \in Nat
      /\ IsFiniteSet(Before)
  BY <1>1, InFirstIsNat DEF InFirst
<1>5. CASE x[1] = f
  <2>1. After = Before \cup {Len(s) + 1}
    BY <1>1, <1>2, <1>5
  <2>2. Len(s) + 1 \notin Before
    BY <1>1
  <2> HIDE DEF Before, After
  <2>3. Cardinality(After) = Cardinality(Before) + 1
    BY <1>4, <2>1, <2>2, FS_AddElement
  <2> QED
    BY <1>3, <1>4, <1>5, <2>3
<1>6. CASE x[1] # f
  <2>1. After = Before
    BY <1>1, <1>2, <1>6
  <2> HIDE DEF Before, After
  <2> QED
    BY <1>3, <1>4, <1>6, <2>1
<1> QED
  BY <1>5, <1>6

LEMMA Remainder ==
  ASSUME NEW q \in Nat, NEW n \in Nat \ {0}, NEW r \in 0 .. (n - 1)
  PROVE  (q * n + r) % n = r
<1>1. q * n \in Nat /\ q * n + r \in Nat
  OBVIOUS
<1> QED
  BY <1>1

(* The next group of an import is recorded. *)
LEMMA GroupInOrder ==
  ASSUME ImportType, ImportInv, ImportsInOrder, ImportGroup, mix' = mix,
         Moves("desk"), Safe({"import_again"})
  PROVE  ImportInv' /\ ImportsInOrder'
<1>1. PICK f, n : f = import.file /\ n = import.next
  OBVIOUS
<1> DEFINE size == Len(GroupsOf[f])
<1>2. /\ import # NoImport /\ n <= size /\ GroupsOf[f][n].good
      /\ imported' = Append(imported, <<f, n>>)
      /\ import' = [import EXCEPT !.next = @ + 1] /\ ended' = ended
  BY <1>1 DEF ImportGroup, Remaining, NextGroup
<1>3. /\ import \in [file: File, next: Nat \ {0}] /\ f \in File /\ n \in Nat \ {0}
      /\ imported \in Seq(File \X Nat) /\ <<f, n>> \in File \X Nat
  BY <1>1, <1>2 DEF ImportType
<1>4. /\ import'.file = f /\ import'.next = n + 1 /\ import' # NoImport
      /\ size \in Nat /\ f \in File \ ended
  BY <1>1, <1>2, <1>3, DeskAssumption DEF NoImport, ImportInv
<1>5. PICK q \in Nat : /\ Recorded(f) = q * size + (n - 1)
                       /\ \A j \in 1 .. (n - 1) : GroupsOf[f][j].good
  BY <1>1, <1>2, <1>4 DEF ImportInv, Importing
<1>6. /\ Len(imported) \in Nat /\ Len(imported') = Len(imported) + 1
      /\ DOMAIN imported = 1 .. Len(imported) /\ DOMAIN imported' = 1 .. (Len(imported) + 1)
      /\ \A k \in 1 .. Len(imported) : imported'[k] = imported[k]
      /\ imported'[Len(imported) + 1] = <<f, n>>
  BY <1>2, <1>3, AppendProperties
<1>7. ASSUME NEW g
      PROVE  Recorded(g)' = IF f = g THEN Recorded(g) + 1 ELSE Recorded(g)
  <2>1. Recorded(g)' = InFirst(Append(imported, <<f, n>>), g, Len(imported) + 1)
    BY <1>2, <1>6 DEF Recorded, SoFar, InFirst
  <2>2. Recorded(g) = InFirst(imported, g, Len(imported)) /\ Recorded(g) \in Nat
    BY <1>6, InFirstIsNat DEF Recorded, SoFar, InFirst
  <2>3. <<f, n>>[1] = f
    OBVIOUS
  <2> QED
    BY <1>3, <2>1, <2>2, <2>3, InFirstOneMore
<1>8. Recorded(f)' = q * size + n /\ q * size \in Nat
  BY <1>3, <1>4, <1>5, <1>7
<1>9. \A j \in 1 .. n : GroupsOf[f][j].good
  BY <1>2, <1>3, <1>5
<1>10. ImportInv'
  <2>1. ASSUME NEW g \in File \ ended'
        PROVE  (\E p \in Nat :
                 IF Importing(g)
                   THEN /\ Recorded(g) = p * Len(GroupsOf[g]) + (import.next - 1)
                        /\ import.next <= Len(GroupsOf[g]) + 1
                        /\ \A j \in 1 .. (import.next - 1) : GroupsOf[g][j].good
                   ELSE Recorded(g) = p * Len(GroupsOf[g]))'
    <3>1. CASE g = f
      <4>1. (n + 1) - 1 = n /\ n + 1 <= size + 1
        BY <1>2, <1>3, <1>4
      <4>2. /\ Recorded(g)' = q * Len(GroupsOf[g]) + (import'.next - 1)
            /\ import'.next <= Len(GroupsOf[g]) + 1
            /\ \A j \in 1 .. (import'.next - 1) : GroupsOf[g][j].good
        BY <1>4, <1>8, <1>9, <3>1, <4>1
      <4>3. Importing(g)'
        BY <1>4, <3>1 DEF Importing
      <4> QED
        BY <4>2, <4>3
    <3>2. CASE g # f
      <4>1. PICK p \in Nat : Recorded(g) = p * Len(GroupsOf[g])
        BY <1>1, <1>2, <3>2 DEF ImportInv, Importing
      <4>2. ~Importing(g)' /\ Recorded(g)' = Recorded(g)
        BY <1>4, <1>7, <3>2 DEF Importing
      <4> QED
        BY <4>1, <4>2
    <3> QED
      BY <3>1, <3>2
  <2> QED
    BY <1>2, <1>4, <2>1 DEF ImportInv
<1>11. ImportsInOrder'
  <2> DEFINE Right(g, i, c) == /\ i = ((c - 1) % Len(GroupsOf[g])) + 1
                              /\ \A j \in 1 .. i : GroupsOf[g][j].good
  <2>1. ASSUME NEW k \in 1 .. (Len(imported) + 1), NEW g, g = imported'[k][1],
               NEW c, c = InFirst(imported', g, k)
        PROVE  Right(g, imported'[k][2], c)
    <3>1. CASE k <= Len(imported)
      <4>1. k \in DOMAIN imported /\ k \in 0 .. Len(imported) /\ imported'[k] = imported[k]
        BY <1>6, <3>1
      <4>2. c = InFirst(imported, g, k)
        <5> DEFINE S == File \X Nat
        <5>1. imported \in Seq(S) /\ <<f, n>> \in S
          BY <1>3
        <5> HIDE DEF S
        <5>2. InFirst(Append(imported, <<f, n>>), g, k) = InFirst(imported, g, k)
          BY <4>1, <5>1, InFirstKept
        <5> QED
          BY <1>2, <2>1, <5>2
      <4>3. c = SoFar(g, k)
        BY <4>2 DEF SoFar, InFirst
      <4>4. Right(imported[k][1], imported[k][2], SoFar(imported[k][1], k))
        BY <4>1 DEF ImportsInOrder
      <4> QED
        BY <2>1, <4>1, <4>3, <4>4
    <3>2. CASE k = Len(imported) + 1
      <4>1. imported'[k] = <<f, n>> /\ g = f /\ imported'[k][2] = n
        BY <1>6, <2>1, <3>2
      <4>2. c = Recorded(f)'
        BY <1>6, <2>1, <3>2, <4>1 DEF Recorded, SoFar, InFirst
      <4>3. n - 1 \in 0 .. (size - 1) /\ size \in Nat \ {0}
        BY <1>2, <1>3, <1>4
      <4>4. (q * size + (n - 1)) % size = n - 1
        BY <4>3, Remainder
      <4>5. c - 1 = q * size + (n - 1)
        BY <1>3, <1>8, <4>2
      <4>6. n = ((c - 1) % size) + 1
        <5>1. (c - 1) % size = n - 1
          BY <4>4, <4>5
        <5> HIDE DEF size
        <5> QED
          BY <1>3, <5>1
      <4> QED
        BY <1>9, <4>1, <4>6
    <3> QED
      BY <1>6, <3>1, <3>2
  <2>2. ASSUME NEW k \in 1 .. (Len(imported) + 1)
        PROVE  Right(imported'[k][1], imported'[k][2], InFirst(imported', imported'[k][1], k))
    BY <2>1
  <2> QED
    BY <1>6, <2>2 DEF ImportsInOrder, SoFar, InFirst
<1> QED
  BY <1>10, <1>11

(* The import starts, ends, or is cut short. *)
LEMMA ImportBegun ==
  ASSUME NEW f \in File, ImportInv, ImportCsv(f), mix' = mix, Safe({"import_again"})
  PROVE  ImportInv'
<1>1. /\ f \notin ended /\ import = NoImport /\ import'.file = f /\ import'.next = 1
      /\ import' # NoImport /\ UNCHANGED <<ended, imported>>
  <2>1. ~Risk("import_again")
    BY DEF Safe, Risk
  <2> QED
    BY <2>1 DEF ImportCsv, Handles, NoImport
<1>2. \A g : Recorded(g)' = Recorded(g)
  BY <1>1 DEF Recorded, SoFar
<1>3. ASSUME NEW g \in File \ ended'
      PROVE  (\E p \in Nat :
               IF Importing(g)
                 THEN /\ Recorded(g) = p * Len(GroupsOf[g]) + (import.next - 1)
                      /\ import.next <= Len(GroupsOf[g]) + 1
                      /\ \A j \in 1 .. (import.next - 1) : GroupsOf[g][j].good
                 ELSE Recorded(g) = p * Len(GroupsOf[g]))'
  <2>1. PICK p \in Nat : Recorded(g) = p * Len(GroupsOf[g])
    BY <1>1, <1>3 DEF ImportInv, Importing
  <2>2. Len(GroupsOf[g]) \in Nat /\ p * Len(GroupsOf[g]) \in Nat
    BY <1>3, DeskAssumption
  <2>3. CASE g = f
    <3>1. /\ Recorded(g)' = p * Len(GroupsOf[g]) + (import'.next - 1)
          /\ import'.next <= Len(GroupsOf[g]) + 1
          /\ \A j \in 1 .. (import'.next - 1) : GroupsOf[g][j].good
      BY <1>1, <1>2, <2>1, <2>2
    <3>2. Importing(g)'
      BY <1>1, <2>3 DEF Importing
    <3> QED
      BY <3>1, <3>2
  <2>4. CASE g # f
    BY <1>1, <1>2, <2>1, <2>4 DEF Importing
  <2> QED
    BY <2>3, <2>4
<1> QED
  BY <1>1, <1>3 DEF ImportInv

LEMMA ImportEnded ==
  ASSUME ImportType, ImportInv, ImportFails \/ ImportDone \/ ClientGone
  PROVE  ImportInv'
<1>1. /\ import # NoImport /\ import' = NoImport /\ UNCHANGED imported
      /\ \/ ended' = ended \cup {import.file}
         \/ ended' = ended /\ ~(import.next <= Len(GroupsOf[import.file]))
  BY DEF ImportFails, ImportDone, ClientGone, EndImport, Remaining
<1>2. \A g : Recorded(g)' = Recorded(g)
  BY <1>1 DEF Recorded, SoFar
<1>3. ASSUME NEW g \in File \ ended'
      PROVE  (\E p \in Nat :
               IF Importing(g)
                 THEN /\ Recorded(g) = p * Len(GroupsOf[g]) + (import.next - 1)
                      /\ import.next <= Len(GroupsOf[g]) + 1
                      /\ \A j \in 1 .. (import.next - 1) : GroupsOf[g][j].good
                 ELSE Recorded(g) = p * Len(GroupsOf[g]))'
  <2>1. g \in File \ ended /\ ~Importing(g)'
    BY <1>1, <1>3 DEF Importing
  <2>2. \E p \in Nat : Recorded(g) = p * Len(GroupsOf[g])
    <3>1. CASE ~Importing(g)
      BY <2>1, <3>1 DEF ImportInv
    <3>2. CASE Importing(g)
      <4> DEFINE size == Len(GroupsOf[g])
      <4>1. PICK p \in Nat : /\ Recorded(g) = p * size + (import.next - 1)
                             /\ import.next <= size + 1
        BY <2>1, <3>2 DEF ImportInv
      <4>2. size \in Nat /\ import.next \in Nat /\ ~(import.next <= size)
        BY <1>1, <1>3, <3>2, DeskAssumption DEF Importing, ImportType
      <4> HIDE DEF size
      <4>3. import.next = size + 1
        BY <4>1, <4>2
      <4>4. p + 1 \in Nat /\ Recorded(g) = (p + 1) * size
        BY <4>1, <4>2, <4>3
      <4> QED
        BY <4>4 DEF size
    <3> QED
      BY <3>1, <3>2
  <2> QED
    BY <1>2, <2>1, <2>2
<1> QED
  BY <1>1, <1>3 DEF ImportInv

LEMMA OrdersAtFirst == Init => OrdersInv
<1> SUFFICES ASSUME Init
             PROVE  OrdersInv
  OBVIOUS
<1>1. DeskInv
  BY DeskAtFirst DEF Init
<1>2. imported = << >> /\ import = NoImport /\ Len(imported) = 0 /\ DOMAIN imported = {}
  <2>1. imported = << >> /\ import = NoImport
    BY DEF Init, DeskInit
  <2> QED
    BY <2>1
<1>3. ASSUME NEW f \in File
      PROVE  Recorded(f) = 0 * Len(GroupsOf[f])
  <2>1. {j \in 1 .. 0 : imported[j][1] = f} = {}
    OBVIOUS
  <2>2. Recorded(f) = 0
    BY <1>2, <2>1, FS_EmptySet DEF Recorded, SoFar
  <2> QED
    BY <2>2, DeskAssumption
<1>4. ImportInv
  BY <1>2, <1>3 DEF ImportInv, Importing
<1>5. ImportsInOrder
  BY <1>2 DEF ImportsInOrder
<1> QED
  BY <1>1, <1>4, <1>5 DEF OrdersInv

LEMMA OrdersKept == OrdersInv /\ [Next]_vars => OrdersInv'
<1> SUFFICES ASSUME OrdersInv, [Next]_vars
             PROVE  OrdersInv'
  OBVIOUS
<1>1. DeskInv' /\ mix' = mix /\ (DeskNext \/ UNCHANGED deskVars)
  BY DeskKept, DeskSteps DEF OrdersInv
<1>2. ImportType
  BY DEF OrdersInv, DeskInv
<1> SUFFICES ASSUME Moves("desk"), Safe({"import_again"})
             PROVE  ImportInv' /\ ImportsInOrder'
  BY <1>1 DEF OrdersInv, Moves, Safe
<1>3. ImportInv /\ ImportsInOrder
  BY DEF OrdersInv
<1>4. ASSUME UNCHANGED <<imported, import, ended>>
      PROVE  ImportInv' /\ ImportsInOrder'
  <2>1. \A g, k : SoFar(g, k)' = SoFar(g, k)
    BY <1>4 DEF SoFar
  <2>2. \A g : Recorded(g)' = Recorded(g) /\ (Importing(g)' <=> Importing(g))
    BY <1>4 DEF Recorded, SoFar, Importing
  <2>3. ImportInv'
    BY <1>3, <1>4, <2>2 DEF ImportInv
  <2>4. ImportsInOrder'
    BY <1>3, <1>4 DEF ImportsInOrder, SoFar
  <2> QED
    BY <2>3, <2>4
<1>5. imported' = imported => ImportsInOrder'
  BY <1>3 DEF ImportsInOrder, SoFar
<1>6. CASE \E f \in File : ImportCsv(f)
  BY <1>1, <1>3, <1>5, <1>6, ImportBegun DEF ImportCsv
<1>7. CASE ImportGroup
  BY <1>1, <1>2, <1>3, <1>7, GroupInOrder
<1>8. CASE ImportFails \/ ImportDone \/ ClientGone
  BY <1>2, <1>3, <1>5, <1>8, ImportEnded DEF ImportFails, ImportDone, ClientGone
<1>9. CASE \/ UNCHANGED deskVars
           \/ \E t \in queue : Post(t) \/ Complete(t) \/ Fail(t)
           \/ CreateBill \/ CreateInvoice \/ SubmitAnyTask \/ ChatInvoice \/ ChatRecord
           \/ ChatTask
           \/ \E on \in Books \cup {"none"}, balanced \in BOOLEAN :
                CreateTransaction(on, balanced)
           \/ \E i \in DOMAIN imported : PayBill(imported[i])
  <2>1. UNCHANGED <<imported, import, ended>>
    BY <1>9 DEF deskVars, Post, Complete, Fail, CreateBill, CreateInvoice, SubmitAnyTask,
                ChatInvoice, ChatRecord, ChatTask, CreateTransaction, PayBill,
                ProcessTransaction, SubmitTask
  <2> QED
    BY <1>4, <2>1
<1> QED
  BY <1>1, <1>6, <1>7, <1>8, <1>9 DEF DeskNext

(* What was asked for is in exactly one place, bills and their payments are *)
(* never posted, and a file is recorded group by group, for any files and  *)
(* any number of requests, retries and imports.                            *)
THEOREM OrdersHold == Spec => []OrdersSound
<1>1. OrdersInv => OrdersSound
  <2> SUFFICES ASSUME OrdersInv
               PROVE  OrdersSound
    OBVIOUS
  <2>1. DeskTypeOK /\ AnswersAccounted
    BY DEF OrdersInv, DeskInv
  <2>2. BillsNeverPosted
    <3>1. ASSUME NEW n \in posted
          PROVE  orders[n].kind \notin {"bill", "payment"} /\ orders[n].on = "shared"
      <4>1. n \in Numbers /\ Accepted(orders[n])
        BY DEF OrdersInv, DeskInv, DeskTypeOK
      <4> QED
        BY <4>1 DEF OrdersInv, DeskInv, Accepted
    <3> QED
      BY <3>1 DEF BillsNeverPosted
  <2>3. ImportsInOrder
    BY DEF OrdersInv, ImportsInOrder
  <2> QED
    BY <2>1, <2>2, <2>3 DEF OrdersSound
<1> QED
  BY <1>1, OrdersAtFirst, OrdersKept, PTL DEF Spec

-----------------------------------------------------------------------------
(* The loop at work, and the collector that reads its lists.               *)

LEMMA MonitorSteps ==
  ASSUME [Next]_vars
  PROVE  MonitorNext \/ UNCHANGED monitorVars
  BY DEF Next, vars

Status == [errors: {0}, bad: Nat, tried: Nat, progress: Nat, finished: Nat, dropped: Nat]
Consistent(s) == s \in Status /\ s.bad <= s.tried

Counts == [status: {"idle", "busy"}, ok: Nat, bad: Nat]
WorkPlaces == {"free", "assign", "process", "ok", "bad", "counting ok", "counting bad"}
ReadPlaces == {"idle", "agents", "progress", "finished", "dropped", "counted", "read"}

LoopTypes ==
  /\ waiting \subseteq Jobs /\ progress \subseteq Jobs
  /\ finished \subseteq Jobs /\ dropped \subseteq Jobs
  /\ attempts \in [Jobs -> Nat]
  /\ worker \in [at: WorkPlaces, job: Jobs, agent: Agents]
  /\ fleet \in [Agents -> Counts]

CollectorTypes ==
  /\ reader \in [at: ReadPlaces, round: {1, 2}, count: Nat, status: Status, bad: BOOLEAN]
  /\ reader.status.bad <= reader.status.tried
  /\ clock \in 0 .. MaxClock
  /\ \A s \in samples : Consistent(s.status)
  /\ alerts \subseteq [kind: {"degraded", "rate"}, nth: Nat, resolved: BOOLEAN]

(* Where the tasks are: each waits, is finished or is dropped, or is in     *)
(* work.                                                                   *)
TasksPlaced ==
  /\ waiting \cap finished = {} /\ waiting \cap dropped = {} /\ finished \cap dropped = {}
  /\ progress = IF worker.at \in {"assign", "process"} THEN {worker.job} ELSE {}
  /\ worker.at \in {"assign", "process", "ok", "bad"} =>
       worker.job \notin waiting \cup finished \cup dropped

Working == worker.at # "free"
Work == IF Working THEN {worker.job} ELSE {}

(* The length of a list as it was read: of the tasks not in work, and of    *)
(* the one in work perhaps, if the list has it.                            *)
OffByWork(n, list) ==
  \/ n = Cardinality(list \ Work)
  \/ n = Cardinality(list \ Work) + 1 /\ Working /\ worker.job \in list

SnapshotInv ==
  /\ reader.at \in {"finished", "dropped", "counted"} => reader.status.progress \in {0, 1}
  /\ reader.at \in {"dropped", "counted"} =>
       /\ OffByWork(reader.status.finished, finished)
       /\ reader.status.finished <= Cardinality(finished)
  /\ reader.at = "counted" =>
       /\ OffByWork(reader.status.dropped, dropped)
       /\ reader.bad => RateHigh(reader.status.dropped, reader.status.finished)

MonitorInv == LoopTypes /\ CollectorTypes /\ TasksPlaced /\ SnapshotInv

(* What the agents count gives a status without errors. *)
LEMMA CountsConsistent ==
  ASSUME LoopTypes
  PROVE  Consistent(CountsOf(fleet))
<1> DEFINE okOf == [a \in Agents |-> fleet[a].ok]
           badOf == [a \in Agents |-> fleet[a].bad]
<1>1. IsFiniteSet(Agents)
  BY MonitorAssumption
<1>2. okOf \in [Agents -> Nat] /\ badOf \in [Agents -> Nat]
  BY DEF LoopTypes, Counts
<1>3. PICK ok, bad : ok = SumFunction(okOf) /\ bad = SumFunction(badOf)
  OBVIOUS
<1> HIDE DEF okOf, badOf
<1>4. ok \in Nat /\ bad \in Nat
  BY <1>1, <1>2, <1>3, SumNat
<1>5. {a \in Agents : fleet[a].status = "error"} = {}
  BY DEF LoopTypes, Counts
<1>6. Cardinality({a \in Agents : fleet[a].status = "error"}) = 0
  BY <1>5, FS_EmptySet
<1>7. CountsOf(fleet) = [NoStatus EXCEPT !.errors = 0, !.bad = bad, !.tried = ok + bad]
  BY <1>3, <1>6 DEF CountsOf, okOf, badOf
<1>8. CountsOf(fleet) = [errors |-> 0, bad |-> bad, tried |-> ok + bad,
                         progress |-> 0, finished |-> 0, dropped |-> 0]
  BY <1>7 DEF NoStatus
<1> QED
  BY <1>4, <1>8 DEF Consistent, Status

LEMMA LargerOne ==
  ASSUME NEW n \in Nat
  PROVE  Max({n, 1}) \in Nat /\ Max({n, 1}) >= n /\ Max({n, 1}) >= 1
<1>1. \E x \in {n, 1} : \A y \in {n, 1} : x >= y
  OBVIOUS
<1>2. Max({n, 1}) \in {n, 1} /\ \A y \in {n, 1} : Max({n, 1}) >= y
  BY <1>1 DEF Max
<1> QED
  BY <1>2

LEMMA NeverLow ==
  ASSUME NEW s, Consistent(s), NEW tenths \in Nat, tenths >= 3
  PROVE  ~ScoreBelow(s, tenths)
<1> DEFINE n == Cardinality(Agents)
           t == Max({s.tried, 1})
<1>1. n \in Nat
  BY MonitorAssumption, FS_CardinalityType
<1>2. s.errors = 0 /\ s.bad \in Nat /\ s.tried \in Nat /\ s.bad <= s.tried
  BY DEF Consistent, Status
<1>3. t \in Nat /\ s.bad <= t
  BY <1>2, LargerOne
<1>4. ScoreBelow(s, tenths) <=> 4 * 0 * t + 3 * s.bad * n > tenths * n * t
  BY <1>2 DEF ScoreBelow
<1> HIDE DEF n, t
<1>5. PICK p \in Nat, r \in Nat : p = s.bad * n /\ r = n * t /\ p <= r
  <2>1. s.bad * n \in Nat /\ n * t \in Nat /\ s.bad * n <= n * t
    BY <1>1, <1>2, <1>3
  <2> QED
    BY <2>1
<1>6. 3 * r <= tenths * r
  OBVIOUS
<1>7. 4 * 0 * t + 3 * s.bad * n = 3 * p /\ tenths * n * t = tenths * r
  BY <1>1, <1>2, <1>3, <1>5
<1>8. tenths * r \in Nat
  OBVIOUS
<1> QED
  BY <1>4, <1>5, <1>6, <1>7, <1>8

LEMMA RaisedKinds ==
  ASSUME NEW s, Consistent(s)
  PROVE  Raised(s) \subseteq {"degraded", "rate"}
<1>1. ~ScoreBelow(s, 5)
  BY NeverLow
<1>2. s.errors = 0
  BY DEF Consistent, Status
<1> QED
  BY <1>1, <1>2 DEF Raised

LEMMA MonitorAtFirst == MonitorInit => MonitorInv
<1> SUFFICES ASSUME MonitorInit
             PROVE  MonitorInv
  OBVIOUS
<1>1. AnyJob \in Jobs /\ AnyAgent \in Agents
  BY MonitorAssumption DEF AnyJob, AnyAgent
<1>2. /\ worker.at = "free" /\ worker \in [at: WorkPlaces, job: Jobs, agent: Agents]
      /\ progress = {} /\ finished = {} /\ dropped = {} /\ reader.at = "idle"
  BY <1>1 DEF MonitorInit, WorkPlaces
<1>3. LoopTypes
  BY <1>2 DEF MonitorInit, LoopTypes, Counts
<1>4. CollectorTypes
  BY MonitorAssumption DEF MonitorInit, CollectorTypes, ReadPlaces, Status, NoStatus
<1>5. TasksPlaced
  BY <1>2 DEF TasksPlaced
<1>6. SnapshotInv
  BY <1>2 DEF SnapshotInv
<1> QED
  BY <1>3, <1>4, <1>5, <1>6 DEF MonitorInv

(* The steps of the loop. *)
LoopStep ==
  \/ \E j \in waiting, a \in Agents : Take(j, a)
  \/ SetBusy
  \/ \E result \in {"ok", "bad"} : Process(result)
  \/ ListCompleted \/ ListFailed \/ CountTask

LEMMA LoopTyped ==
  ASSUME LoopTypes, LoopStep
  PROVE  LoopTypes'
<1>1. ASSUME NEW j \in waiting, NEW a \in Agents, Take(j, a)
      PROVE  LoopTypes'
  BY <1>1 DEF LoopTypes, Take, WorkPlaces
<1>2. ASSUME SetBusy
      PROVE  LoopTypes'
  <2>1. PICK c : c = [fleet[worker.agent] EXCEPT !.status = "busy"]
    OBVIOUS
  <2>2. worker.agent \in Agents /\ fleet[worker.agent] \in Counts
    BY DEF LoopTypes
  <2>3. c \in Counts
    BY <2>1, <2>2 DEF Counts
  <2>4. fleet' = [fleet EXCEPT ![worker.agent] = c]
    BY <1>2, <2>1 DEF SetBusy
  <2>5. fleet' \in [Agents -> Counts]
    BY <2>2, <2>3, <2>4 DEF LoopTypes
  <2>6. worker' \in [at: WorkPlaces, job: Jobs, agent: Agents]
    BY <1>2 DEF LoopTypes, SetBusy, WorkPlaces
  <2> QED
    BY <1>2, <2>5, <2>6 DEF LoopTypes, SetBusy
<1>3. ASSUME NEW result \in {"ok", "bad"}, Process(result)
      PROVE  LoopTypes'
  <2>1. worker' \in [at: WorkPlaces, job: Jobs, agent: Agents]
    BY <1>3 DEF LoopTypes, Process, WorkPlaces
  <2>2. attempts' \in [Jobs -> Nat]
    BY <1>3 DEF LoopTypes, Process
  <2> QED
    BY <1>3, <2>1, <2>2 DEF LoopTypes, Process
<1>4. ASSUME ListCompleted
      PROVE  LoopTypes'
  BY <1>4 DEF LoopTypes, ListCompleted, WorkPlaces
<1>5. ASSUME ListFailed
      PROVE  LoopTypes'
  <2>1. worker' \in [at: WorkPlaces, job: Jobs, agent: Agents] /\ worker.job \in Jobs
    BY <1>5 DEF LoopTypes, ListFailed, WorkPlaces
  <2> QED
    BY <1>5, <2>1 DEF LoopTypes, ListFailed
<1>6. ASSUME CountTask
      PROVE  LoopTypes'
  <2> DEFINE failed == worker.at = "counting bad"
             counted == fleet[worker.agent]
  <2>1. PICK c : c = [status |-> StatusAfter(failed),
                      ok |-> counted.ok + (IF failed THEN 0 ELSE 1),
                      bad |-> counted.bad + (IF failed THEN 1 ELSE 0)]
    OBVIOUS
  <2>2. worker.agent \in Agents /\ counted \in Counts
    BY DEF LoopTypes
  <2>3. counted.ok \in Nat /\ counted.bad \in Nat
    BY <2>2 DEF Counts
  <2>4. c \in Counts
    <3> HIDE DEF counted, failed
    <3> QED
      BY <2>1, <2>3 DEF Counts, StatusAfter
  <2>5. fleet' = [fleet EXCEPT ![worker.agent] = c]
    BY <1>6, <2>1 DEF CountTask, LoopTypes
  <2>6. fleet' \in [Agents -> Counts]
    BY <2>2, <2>4, <2>5 DEF LoopTypes
  <2>7. worker' \in [at: WorkPlaces, job: Jobs, agent: Agents]
    BY <1>6 DEF LoopTypes, CountTask, WorkPlaces
  <2> QED
    BY <1>6, <2>6, <2>7 DEF LoopTypes, CountTask
<1> QED
  BY <1>1, <1>2, <1>3, <1>4, <1>5, <1>6 DEF LoopStep

LEMMA LoopPlaces ==
  ASSUME LoopTypes, TasksPlaced, LoopStep
  PROVE  TasksPlaced'
<1>1. worker \in [at: WorkPlaces, job: Jobs, agent: Agents]
  BY DEF LoopTypes
<1>2. ASSUME NEW j \in waiting, NEW a \in Agents, Take(j, a)
      PROVE  TasksPlaced'
  BY <1>2 DEF TasksPlaced, Take
<1>3. ASSUME SetBusy
      PROVE  TasksPlaced'
  <2>1. worker'.at = "process" /\ worker'.job = worker.job
    BY <1>1, <1>3 DEF SetBusy
  <2> QED
    BY <1>3, <2>1 DEF TasksPlaced, SetBusy
<1>4. ASSUME NEW result \in {"ok", "bad"}, Process(result)
      PROVE  TasksPlaced'
  <2>1. worker'.at = result /\ worker'.job = worker.job
    BY <1>1, <1>4 DEF Process
  <2> QED
    BY <1>4, <2>1 DEF TasksPlaced, Process
<1>5. ASSUME ListCompleted
      PROVE  TasksPlaced'
  <2>1. worker'.at = "counting ok" /\ worker'.job = worker.job
    BY <1>1, <1>5 DEF ListCompleted
  <2> QED
    BY <1>5, <2>1 DEF TasksPlaced, ListCompleted
<1>6. ASSUME ListFailed
      PROVE  TasksPlaced'
  <2>1. worker'.at = "counting bad" /\ worker'.job = worker.job
    BY <1>1, <1>6 DEF ListFailed
  <2> QED
    BY <1>6, <2>1 DEF TasksPlaced, ListFailed
<1>7. ASSUME CountTask
      PROVE  TasksPlaced'
  <2>1. worker'.at = "free"
    BY <1>1, <1>7 DEF CountTask
  <2> QED
    BY <1>7, <2>1 DEF TasksPlaced, CountTask
<1> QED
  BY <1>2, <1>3, <1>4, <1>5, <1>6, <1>7 DEF LoopStep

(* While the lock is held, the loop leaves alone what is not in work, and   *)
(* the lists only grow.                                                    *)
LEMMA WorkStays ==
  ASSUME LoopTypes, TasksPlaced, LoopStep, Held
  PROVE  /\ finished \subseteq finished' /\ dropped \subseteq dropped'
         /\ (finished \ Work)' = finished \ Work /\ (dropped \ Work)' = dropped \ Work
         /\ Working => Working' /\ worker'.job = worker.job
<1>1. worker \in [at: WorkPlaces, job: Jobs, agent: Agents]
  BY DEF LoopTypes
<1>2. ASSUME NEW j \in waiting, NEW a \in Agents, Take(j, a)
      PROVE  /\ ~Working /\ Working' /\ worker'.job = j /\ UNCHANGED <<finished, dropped>>
             /\ j \notin finished \cup dropped
  BY <1>2 DEF Working, Take, TasksPlaced
<1>3. ASSUME \/ SetBusy \/ ListCompleted \/ ListFailed
             \/ \E result \in {"ok", "bad"} : Process(result)
      PROVE  /\ Working /\ Working' /\ worker'.job = worker.job
             /\ finished' = finished \/ finished' = finished \cup {worker.job}
             /\ dropped' = dropped \/ dropped' = dropped \cup {worker.job}
  BY <1>1, <1>3 DEF Working, SetBusy, ListCompleted, ListFailed, Process
<1>4. ~CountTask
  BY DEF CountTask
<1> QED
  BY <1>2, <1>3, <1>4 DEF LoopStep, Work

LEMMA LoopReads ==
  ASSUME MonitorInv, LoopStep
  PROVE  SnapshotInv'
<1>1. reader' = reader
  BY DEF LoopStep, Take, SetBusy, Process, ListCompleted, ListFailed, CountTask, collectorVars
<1>2. CASE ~Held
  BY <1>1, <1>2 DEF SnapshotInv, Held, MonitorInv
<1>3. CASE Held
  <2>1. /\ finished \subseteq finished' /\ dropped \subseteq dropped'
        /\ (finished \ Work)' = finished \ Work /\ (dropped \ Work)' = dropped \ Work
        /\ Working => Working' /\ worker'.job = worker.job
    BY <1>3, WorkStays DEF MonitorInv
  <2>2. LoopTypes'
    BY LoopTyped DEF MonitorInv
  <2>3. ASSUME NEW n
        PROVE  /\ OffByWork(n, finished) => OffByWork(n, finished)'
               /\ OffByWork(n, dropped) => OffByWork(n, dropped)'
    BY <2>1 DEF OffByWork
  <2>4. /\ Cardinality(finished) <= Cardinality(finished')
        /\ Cardinality(finished) \in Nat /\ Cardinality(finished') \in Nat
    <3>1. IsFiniteSet(finished')
      BY <2>2, MonitorAssumption, FS_Subset DEF LoopTypes
    <3>2. IsFiniteSet(finished)
      BY MonitorAssumption, FS_Subset DEF MonitorInv, LoopTypes
    <3> QED
      BY <2>1, <3>1, <3>2, FS_Subset, FS_CardinalityType
  <2>5. reader.status.finished \in Nat /\ reader.status.dropped \in Nat
    BY DEF MonitorInv, CollectorTypes, Status
  <2>6. PICK f, d : f = reader.status.finished /\ d = reader.status.dropped
    OBVIOUS
  <2>7. reader.at \in {"dropped", "counted"} =>
          OffByWork(f, finished)' /\ f <= Cardinality(finished')
    BY <2>3, <2>4, <2>5, <2>6 DEF MonitorInv, SnapshotInv
  <2>8. reader.at = "counted" => OffByWork(d, dropped)'
    BY <2>3, <2>6 DEF MonitorInv, SnapshotInv
  <2>9. f = reader'.status.finished /\ d = reader'.status.dropped
    BY <1>1, <2>6
  <2> QED
    BY <1>1, <2>7, <2>8, <2>9 DEF MonitorInv, SnapshotInv
<1> QED
  BY <1>2, <1>3

(* The steps of the collector. *)
CollectorStep ==
  \/ Collect \/ ReadAgents \/ Release \/ StoreSample \/ CheckAlerts
  \/ \E k \in 1 .. 3 : ReadList(k)
  \/ \E a \in alerts : ResolveAlert(a)
  \/ ClockTick

(* A list of n tasks has been read. *)
ReadAs(n, at, status) ==
  /\ \/ /\ reader.at = "progress" /\ at = "finished" /\ n = Cardinality(progress)
        /\ status = [reader.status EXCEPT !.progress = n]
     \/ /\ reader.at = "finished" /\ at = "dropped" /\ n = Cardinality(finished)
        /\ status = [reader.status EXCEPT !.finished = n]
     \/ /\ reader.at = "dropped" /\ at = "counted" /\ n = Cardinality(dropped)
        /\ status = [reader.status EXCEPT !.dropped = n]
  /\ reader' = [reader EXCEPT !.at = at, !.status = status,
                  !.bad = RateHigh(Cardinality(dropped), Cardinality(finished))]
  /\ UNCHANGED <<loopVars, samples, alerts, clock>>

LEMMA ListRead ==
  ASSUME MonitorInv, NEW k \in 1 .. 3, ReadList(k)
  PROVE  \E n, at, status : n \in Nat /\ ReadAs(n, at, status)
<1>1. /\ Cardinality(progress) \in Nat /\ Cardinality(finished) \in Nat
      /\ Cardinality(dropped) \in Nat
  <2>1. IsFiniteSet(progress) /\ IsFiniteSet(finished) /\ IsFiniteSet(dropped)
    BY MonitorAssumption, FS_Subset DEF MonitorInv, LoopTypes
  <2> QED
    BY <2>1, FS_CardinalityType
<1>2. /\ Lists[1] = "progress" /\ Lists[2] = "finished" /\ Lists[3] = "dropped"
      /\ Len(Lists) = 3
  BY DEF Lists
<1>3. PICK at, status :
        /\ at = (IF k < Len(Lists) THEN Lists[k + 1] ELSE "counted")
        /\ status = WithLength(reader.status, Lists[k])
  OBVIOUS
<1>4. /\ reader.at = Lists[k]
      /\ reader' = [reader EXCEPT !.at = at, !.status = status,
                      !.bad = RateHigh(Cardinality(dropped), Cardinality(finished))]
      /\ UNCHANGED <<loopVars, samples, alerts, clock>>
  BY <1>3 DEF ReadList
<1>5. CASE k = 1
  <2>1. at = "finished" /\ Lists[k] = "progress"
    BY <1>2, <1>3, <1>5
  <2>2. status = [reader.status EXCEPT !.progress = Cardinality(progress)]
    BY <1>3, <2>1 DEF WithLength
  <2> QED
    BY <1>1, <1>4, <2>1, <2>2 DEF ReadAs
<1>6. CASE k = 2
  <2>1. at = "dropped" /\ Lists[k] = "finished"
    BY <1>2, <1>3, <1>6
  <2>2. status = [reader.status EXCEPT !.finished = Cardinality(finished)]
    BY <1>3, <2>1 DEF WithLength
  <2> QED
    BY <1>1, <1>4, <2>1, <2>2 DEF ReadAs
<1>7. CASE k = 3
  <2>1. at = "counted" /\ Lists[k] = "dropped"
    BY <1>2, <1>3, <1>7
  <2>2. status = [reader.status EXCEPT !.dropped = Cardinality(dropped)]
    BY <1>3, <2>1 DEF WithLength
  <2> QED
    BY <1>1, <1>4, <2>1, <2>2 DEF ReadAs
<1> QED
  BY <1>5, <1>6, <1>7

LEMMA CollectorTyped ==
  ASSUME MonitorInv, CollectorStep
  PROVE  CollectorTypes'
<1> DEFINE Readers ==
      [at: ReadPlaces, round: {1, 2}, count: Nat, status: Status, bad: BOOLEAN]
<1>1. /\ reader \in Readers /\ Consistent(reader.status) /\ clock \in 0 .. MaxClock
      /\ \A s \in samples : Consistent(s.status)
      /\ alerts \subseteq [kind: {"degraded", "rate"}, nth: Nat, resolved: BOOLEAN]
  BY DEF MonitorInv, CollectorTypes, Consistent
<1>2. ASSUME Collect
      PROVE  CollectorTypes'
  <2>1. PICK c \in Nat : c = reader.count + 1
    BY <1>1
  <2>2. reader' = [reader EXCEPT !.at = "agents", !.round = 1, !.count = c]
    BY <1>2, <2>1 DEF Collect
  <2>3. reader' \in Readers /\ reader'.status = reader.status
    BY <1>1, <2>2 DEF ReadPlaces
  <2> QED
    BY <1>1, <1>2, <2>3 DEF Collect, CollectorTypes, Consistent
<1>3. ASSUME ReadAgents
      PROVE  CollectorTypes'
  <2>1. Consistent(CountsOf(fleet))
    BY CountsConsistent DEF MonitorInv
  <2>2. reader' \in Readers /\ reader'.status = CountsOf(fleet)
    BY <1>1, <1>3, <2>1 DEF ReadAgents, ReadPlaces, Consistent
  <2> QED
    BY <1>1, <1>3, <2>1, <2>2 DEF ReadAgents, CollectorTypes, Consistent
<1>4. ASSUME NEW k \in 1 .. 3, ReadList(k)
      PROVE  CollectorTypes'
  <2>1. PICK n, at, status : n \in Nat /\ ReadAs(n, at, status)
    BY <1>4, ListRead
  <2>2. Consistent(status) /\ at \in ReadPlaces
    BY <1>1, <2>1 DEF Consistent, Status, ReadPlaces, ReadAs
  <2>3. RateHigh(Cardinality(dropped), Cardinality(finished)) \in BOOLEAN
    BY DEF RateHigh
  <2>4. reader' \in Readers /\ reader'.status = status
    BY <1>1, <2>1, <2>2, <2>3 DEF Consistent, ReadAs
  <2> QED
    BY <1>1, <2>1, <2>2, <2>4 DEF CollectorTypes, Consistent, ReadAs
<1>5. ASSUME Release
      PROVE  CollectorTypes'
  <2>1. reader' \in Readers /\ reader'.status = reader.status
    BY <1>1, <1>5 DEF Release, ReadPlaces
  <2> QED
    BY <1>1, <1>5, <2>1 DEF Release, CollectorTypes, Consistent
<1>6. ASSUME StoreSample
      PROVE  CollectorTypes'
  <2>1. reader' \in Readers /\ reader'.status = reader.status
    BY <1>1, <1>6 DEF StoreSample, ReadPlaces
  <2>2. \A s \in samples' : s \in samples \/ s.status = reader.status
    BY <1>6 DEF StoreSample
  <2> QED
    BY <1>1, <1>6, <2>1, <2>2 DEF StoreSample, CollectorTypes, Consistent
<1>7. ASSUME CheckAlerts
      PROVE  CollectorTypes'
  <2>1. reader' \in Readers /\ reader'.status = reader.status
    BY <1>1, <1>7 DEF CheckAlerts, ReadPlaces
  <2>2. Raised(reader.status) \subseteq {"degraded", "rate"}
    BY <1>1, RaisedKinds
  <2>3. alerts' \subseteq [kind: {"degraded", "rate"}, nth: Nat, resolved: BOOLEAN]
    <3>1. ASSUME NEW a \in alerts', a \notin alerts
          PROVE  \E kind \in Raised(reader.status) :
                   a = [kind |-> kind, nth |-> reader.count, resolved |-> FALSE]
      BY <1>7, <3>1 DEF CheckAlerts
    <3>2. reader.count \in Nat
      BY <1>1
    <3>3. ASSUME NEW kind \in Raised(reader.status)
          PROVE  [kind |-> kind, nth |-> reader.count, resolved |-> FALSE] \in
                   [kind: {"degraded", "rate"}, nth: Nat, resolved: BOOLEAN]
      BY <2>2, <3>2
    <3>4. ASSUME NEW a \in alerts'
          PROVE  a \in [kind: {"degraded", "rate"}, nth: Nat, resolved: BOOLEAN]
      <4>1. CASE a \in alerts
        BY <1>1, <4>1
      <4>2. CASE a \notin alerts
        <5>1. PICK kind \in Raised(reader.status) :
                a = [kind |-> kind, nth |-> reader.count, resolved |-> FALSE]
          BY <3>1, <4>2
        <5> HIDE DEF Readers
        <5> QED
          BY <3>3, <5>1
      <4> QED
        BY <4>1, <4>2
    <3> QED
      BY <3>4
  <2> QED
    BY <1>1, <1>7, <2>1, <2>3 DEF CheckAlerts, CollectorTypes, Consistent
<1>8. ASSUME NEW a \in alerts, ResolveAlert(a)
      PROVE  CollectorTypes'
  <2>1. [a EXCEPT !.resolved = TRUE] \in
          [kind: {"degraded", "rate"}, nth: Nat, resolved: BOOLEAN]
    BY <1>1
  <2> QED
    BY <1>1, <1>8, <2>1 DEF ResolveAlert, CollectorTypes, Consistent
<1>9. ASSUME ClockTick
      PROVE  CollectorTypes'
  <2>1. clock' \in 0 .. MaxClock
    BY <1>1, <1>9, MonitorAssumption DEF ClockTick
  <2> QED
    BY <1>1, <1>9, <2>1 DEF ClockTick, CollectorTypes, Consistent
<1> QED
  BY <1>2, <1>3, <1>4, <1>5, <1>6, <1>7, <1>8, <1>9 DEF CollectorStep

LEMMA ListLength ==
  ASSUME LoopTypes, NEW list, list \subseteq Jobs
  PROVE  OffByWork(Cardinality(list), list)
<1>1. IsFiniteSet(list) /\ IsFiniteSet(list \ Work)
  BY MonitorAssumption, FS_Subset
<1>2. CASE Working /\ worker.job \in list
  <2>1. list = (list \ Work) \cup {worker.job} /\ worker.job \notin list \ Work
    BY <1>2 DEF Work
  <2> QED
    BY <1>1, <1>2, <2>1, FS_AddElement DEF OffByWork
<1>3. CASE ~(Working /\ worker.job \in list)
  <2>1. list \ Work = list
    BY <1>3 DEF Work
  <2> QED
    BY <2>1 DEF OffByWork
<1> QED
  BY <1>2, <1>3

LEMMA CollectorReads ==
  ASSUME MonitorInv, CollectorStep
  PROVE  SnapshotInv'
<1>1. UNCHANGED loopVars
  BY DEF CollectorStep, Collect, ReadAgents, Release, StoreSample, CheckAlerts, ReadList,
         ResolveAlert, ClockTick
<1>2. \A n : /\ OffByWork(n, finished)' <=> OffByWork(n, finished)
             /\ OffByWork(n, dropped)' <=> OffByWork(n, dropped)
  BY <1>1 DEF OffByWork, Working, Work, loopVars
<1>3. reader \in [at: ReadPlaces, round: {1, 2}, count: Nat, status: Status, bad: BOOLEAN]
  BY DEF MonitorInv, CollectorTypes
<1>4. CASE Collect \/ ReadAgents \/ Release \/ StoreSample \/ CheckAlerts
  <2>1. reader'.at \in {"agents", "progress", "read", "idle"}
    BY <1>3, <1>4 DEF Collect, ReadAgents, Release, StoreSample, CheckAlerts
  <2> QED
    BY <2>1 DEF SnapshotInv
<1>5. CASE (\E a \in alerts : ResolveAlert(a)) \/ ClockTick
  <2>1. reader' = reader
    BY <1>5 DEF ResolveAlert, ClockTick
  <2> QED
    BY <1>1, <1>2, <2>1 DEF SnapshotInv, MonitorInv, loopVars
<1>6. ASSUME NEW k \in 1 .. 3, ReadList(k)
      PROVE  SnapshotInv'
  <2>1. PICK n, at, status : n \in Nat /\ ReadAs(n, at, status)
    BY <1>6, ListRead
  <2>2. /\ reader.status \in Status
        /\ OffByWork(Cardinality(finished), finished) /\ OffByWork(Cardinality(dropped), dropped)
        /\ finished' = finished /\ dropped' = dropped
    BY <1>1, <1>3, ListLength DEF MonitorInv, LoopTypes, loopVars
  <2>3. /\ reader'.at = at /\ reader'.status = status
        /\ reader'.bad <=> RateHigh(Cardinality(dropped), Cardinality(finished))
    BY <1>3, <2>1 DEF ReadAs
  <2>4. CASE at = "finished"
    <3>1. Cardinality(progress) \in {0, 1}
      <4>1. progress = {} \/ progress = {worker.job}
        BY DEF MonitorInv, TasksPlaced
      <4> QED
        BY <4>1, FS_EmptySet, FS_Singleton
    <3>2. status.progress = Cardinality(progress)
      BY <2>1, <2>2, <2>4 DEF Status, ReadAs
    <3> QED
      BY <2>3, <2>4, <3>1, <3>2 DEF SnapshotInv
  <2>5. CASE at = "dropped"
    <3>1. /\ reader.at = "finished" /\ n = Cardinality(finished) /\ status.finished = n
          /\ status.progress = reader.status.progress
      BY <2>1, <2>2, <2>5 DEF Status, ReadAs
    <3>2. reader.status.progress \in {0, 1}
      BY <3>1 DEF MonitorInv, SnapshotInv
    <3>3. OffByWork(n, finished)' /\ n <= Cardinality(finished')
      BY <1>2, <2>1, <2>2, <3>1
    <3>4. reader'.status.finished = n /\ reader'.status.progress \in {0, 1}
      BY <2>3, <3>1, <3>2
    <3> QED
      BY <2>3, <2>5, <3>3, <3>4 DEF SnapshotInv
  <2>6. CASE at = "counted"
    <3>1. /\ reader.at = "dropped" /\ n = Cardinality(dropped) /\ status.dropped = n
          /\ status.progress = reader.status.progress
          /\ status.finished = reader.status.finished
      BY <2>1, <2>2, <2>6 DEF Status, ReadAs
    <3>2. PICK f : f = reader.status.finished
      OBVIOUS
    <3>3. /\ reader.status.progress \in {0, 1} /\ OffByWork(f, finished)
          /\ f <= Cardinality(finished) /\ f \in Nat
      BY <2>2, <3>1, <3>2 DEF MonitorInv, SnapshotInv, Status
    <3>4. /\ OffByWork(n, dropped)' /\ OffByWork(f, finished)'
          /\ f <= Cardinality(finished')
      BY <1>2, <2>2, <3>1, <3>3
    <3>5. reader'.bad => RateHigh(n, f)
      <4>1. Cardinality(finished) \in Nat
        <5>1. IsFiniteSet(finished)
          BY MonitorAssumption, FS_Subset DEF MonitorInv, LoopTypes
        <5> QED
          BY <5>1, FS_CardinalityType
      <4>2. RateHigh(n, Cardinality(finished)) => RateHigh(n, f)
        BY <2>1, <3>3, <4>1 DEF RateHigh
      <4> QED
        BY <2>3, <3>1, <4>2
    <3>6. /\ reader'.status.finished = f /\ reader'.status.dropped = n
          /\ reader'.status.progress \in {0, 1}
      BY <2>3, <3>1, <3>2, <3>3
    <3> QED
      BY <2>3, <2>6, <3>4, <3>5, <3>6 DEF SnapshotInv
  <2> QED
    BY <2>1, <2>4, <2>5, <2>6 DEF ReadAs
<1> QED
  BY <1>4, <1>5, <1>6 DEF CollectorStep

LEMMA MonitorKept ==
  ASSUME MonitorInv, [Next]_vars
  PROVE  MonitorInv'
<1>1. CASE UNCHANGED monitorVars
  <2>1. LoopTypes' /\ CollectorTypes'
    BY <1>1 DEF MonitorInv, LoopTypes, CollectorTypes, monitorVars
  <2>2. TasksPlaced'
    BY <1>1 DEF MonitorInv, TasksPlaced, monitorVars
  <2>3. SnapshotInv'
    BY <1>1 DEF MonitorInv, SnapshotInv, OffByWork, Working, Work, monitorVars
  <2> QED
    BY <2>1, <2>2, <2>3 DEF MonitorInv
<1>2. CASE LoopStep
  <2>1. UNCHANGED collectorVars
    BY <1>2 DEF LoopStep, Take, SetBusy, Process, ListCompleted, ListFailed, CountTask
  <2>2. CollectorTypes'
    BY <2>1 DEF MonitorInv, CollectorTypes, collectorVars
  <2> QED
    BY <1>2, <2>2, LoopTyped, LoopPlaces, LoopReads DEF MonitorInv
<1>3. CASE CollectorStep
  <2>1. UNCHANGED loopVars
    BY <1>3 DEF CollectorStep, Collect, ReadAgents, Release, StoreSample, CheckAlerts,
                ReadList, ResolveAlert, ClockTick
  <2>2. LoopTypes' /\ TasksPlaced'
    BY <2>1 DEF MonitorInv, LoopTypes, TasksPlaced, loopVars
  <2> QED
    BY <1>3, <2>2, CollectorTyped, CollectorReads DEF MonitorInv
<1> QED
  BY <1>1, <1>2, <1>3, MonitorSteps DEF MonitorNext, LoopStep, CollectorStep

(* What the lists, as they were read, count more than is settled. *)
LEMMA OneCountedTwice ==
  ASSUME MonitorInv
  PROVE  SnapshotOffByOne
<1> SUFFICES ASSUME reader.at = "counted"
             PROVE  reader.status.progress + reader.status.finished + reader.status.dropped
                      - Cardinality(Settled) \in 0 .. 2
  BY DEF SnapshotOffByOne
<1>1. PICK p, f, d : /\ p = reader.status.progress /\ f = reader.status.finished
                     /\ d = reader.status.dropped
  OBVIOUS
<1>2. p \in {0, 1} /\ OffByWork(f, finished) /\ OffByWork(d, dropped)
  BY <1>1 DEF MonitorInv, SnapshotInv
<1> DEFINE F == finished \ Work
           D == dropped \ Work
<1>3. /\ Settled = F \cup D /\ F \cap D = {}
      /\ ~(worker.job \in finished /\ worker.job \in dropped)
  BY DEF Settled, Work, Working, MonitorInv, TasksPlaced
<1>4. IsFiniteSet(F) /\ IsFiniteSet(D)
  BY MonitorAssumption, FS_Subset DEF MonitorInv, LoopTypes
<1>5. /\ f = Cardinality(F) \/ (f = Cardinality(F) + 1 /\ worker.job \in finished)
      /\ d = Cardinality(D) \/ (d = Cardinality(D) + 1 /\ worker.job \in dropped)
  BY <1>2 DEF OffByWork
<1> HIDE DEF F, D
<1>6. /\ Cardinality(Settled) = Cardinality(F) + Cardinality(D)
      /\ Cardinality(F) \in Nat /\ Cardinality(D) \in Nat
  <2>1. Cardinality(F) \in Nat /\ Cardinality(D) \in Nat
    BY <1>4, FS_CardinalityType
  <2>2. Cardinality(F \cup D) = Cardinality(F) + Cardinality(D) - Cardinality(F \cap D)
    BY <1>4, FS_Union
  <2>3. Cardinality(F \cap D) = 0
    BY <1>3, FS_EmptySet
  <2> QED
    BY <1>3, <2>1, <2>2, <2>3
<1> QED
  BY <1>1, <1>2, <1>3, <1>5, <1>6

(* The status of the agents, read list after list while they work, counts   *)
(* every task, and none but the one in work twice; it never puts an agent  *)
(* in error, and it errs on the side of the alert: for any agents, tasks,  *)
(* attempts and collections.                                               *)
THEOREM StatusHolds == Spec => []StatusSound
<1>1. MonitorInv => StatusSound
  <2> SUFFICES ASSUME MonitorInv
               PROVE  StatusSound
    OBVIOUS
  <2>1. MonitorTypeOK
    BY DEF MonitorInv, LoopTypes, CollectorTypes, MonitorTypeOK, Counts
  <2>2. NeverCritical
    <3>1. \A s \in samples : ~ScoreBelow(s.status, 3)
      BY NeverLow DEF MonitorInv, CollectorTypes
    <3> QED
      BY <3>1 DEF MonitorInv, CollectorTypes, NeverCritical
  <2>3. FailuresAlarm
    BY DEF MonitorInv, SnapshotInv, FailuresAlarm, Raised
  <2> QED
    BY <2>1, <2>2, <2>3, OneCountedTwice DEF StatusSound
<1>2. Init => MonitorInv
  BY MonitorAtFirst DEF Init
<1>3. MonitorInv /\ [Next]_vars => MonitorInv'
  BY MonitorKept
<1> QED
  BY <1>1, <1>2, <1>3, PTL DEF Spec

-----------------------------------------------------------------------------
(* The rate limiter.                                                       *)

LEMMA LimiterSteps ==
  ASSUME [Next]_vars
  PROVE  LimiterNext \/ UNCHANGED limiterVars
  BY DEF Next, vars

Bucket == [units: Nat, last: Nat]

(* The highest limit a key is asked under. *)
Highest(k, limit) == limit \in LimitsOf[k] /\ \A other \in LimitsOf[k] : other <= limit

(* What has been allowed since the i-th request that was, and what is left, *)
(* is what there was and what was refilled since.                          *)
Spent(k, limit) ==
  /\ bucket[k].units <= Capacity(limit)
  /\ \A i \in DOMAIN passed[k] :
       (Len(passed[k]) - i + 1) * Minute + bucket[k].units <=
         Capacity(limit) + Steady(limit) * (bucket[k].last - passed[k][i])

Window(k, limit) ==
  \A i, j \in DOMAIN passed[k] :
    i <= j => (j - i + 1) * Minute <=
                Capacity(limit) + Steady(limit) * (passed[k][j] - passed[k][i])

(* What a refusal has promised comes true. *)
Kept(k) ==
  promised[k].limit # 0 =>
    /\ set /\ bucket[k] # Absent
    /\ promised[k].limit \in Nat /\ promised[k].at \in Nat
    /\ promised[k].at >= bucket[k].last
    /\ bucket[k].units + (promised[k].at - bucket[k].last) * Steady(promised[k].limit) >= Minute

KeyInv(k) ==
  /\ bucket[k] = Absent \/ (bucket[k] \in Bucket /\ bucket[k].last <= tick)
  /\ bucket[k] = Absent => passed[k] = << >>
  /\ passed[k] \in Seq(Nat)
  /\ \A limit : Highest(k, limit) =>
       (bucket[k] # Absent => Spent(k, limit)) /\ Window(k, limit)
  /\ Kept(k)

LimiterInv ==
  /\ tick \in Nat
  /\ DOMAIN bucket = Key /\ DOMAIN passed = Key /\ DOMAIN promised = Key
  /\ \A k \in Key : KeyInv(k)

LEMMA Times ==
  ASSUME NEW a \in Nat, NEW b \in Nat, a <= b, NEW c \in Nat
  PROVE  a * c <= b * c /\ a * c \in Nat /\ b * c \in Nat
<1>1. PICK d \in Nat : b = a + d
  <2>1. b - a \in Nat /\ b = a + (b - a)
    OBVIOUS
  <2> QED
    BY <2>1
<1>2. d * c \in Nat /\ a * c \in Nat /\ b * c = a * c + d * c
  BY <1>1
<1> QED
  BY <1>2

LEMMA RoundedUp ==
  ASSUME NEW x \in Nat, NEW s \in Nat \ {0}
  PROVE  /\ (x + s - 1) \div s \in Nat
         /\ ((x + s - 1) \div s) * s >= x
<1>1. x + s - 1 \in Nat
  OBVIOUS
<1>2. PICK y \in Nat : y = x + s - 1
  BY <1>1
<1>3. y \div s \in Nat /\ y % s \in 0 .. (s - 1) /\ y = s * (y \div s) + (y % s)
  OBVIOUS
<1> QED
  BY <1>2, <1>3

LEMMA Limits ==
  ASSUME NEW l \in Nat
  PROVE  /\ Steady(l) \in Nat \ {0} /\ Capacity(l) \in Nat /\ Capacity(l) >= 2 * Minute
         /\ Minute \in Nat \ {0}
         /\ \A h \in Nat : l <= h => Steady(l) <= Steady(h) /\ Capacity(l) <= Capacity(h)
<1>1. Minute \in Nat \ {0}
  BY LimiterAssumption
<1>2. \A h \in Nat : Steady(h) \in Nat \ {0} /\ Capacity(h) = 2 * (Steady(h) * Minute)
  BY <1>1 DEF Steady, GreatestOf, Capacity
<1>3. \A h \in Nat : l <= h => Steady(l) <= Steady(h)
  BY DEF Steady, GreatestOf
<1>4. 1 * Minute <= Steady(l) * Minute
  BY <1>1, <1>2, Times
<1>5. \A h \in Nat : l <= h => Steady(l) * Minute <= Steady(h) * Minute
  BY <1>1, <1>2, <1>3, Times
<1>6. Steady(l) * Minute \in Nat
  BY <1>1, <1>2
<1> QED
  BY <1>1, <1>2, <1>3, <1>4, <1>5, <1>6

(* The units of a bucket that is asked. *)
LEMMA Units ==
  ASSUME NEW l \in Nat, tick \in Nat,
         NEW b, b = Absent \/ (b \in Bucket /\ b.last <= tick)
  PROVE  /\ UnitsNow(b, l) \in Nat /\ UnitsNow(b, l) <= Capacity(l)
         /\ b = Absent => UnitsNow(b, l) = Capacity(l)
         /\ b # Absent => /\ (tick - b.last) * Steady(l) \in Nat
                          /\ UnitsNow(b, l) <= b.units + (tick - b.last) * Steady(l)
                          /\ \/ UnitsNow(b, l) = b.units + (tick - b.last) * Steady(l)
                             \/ UnitsNow(b, l) = Capacity(l)
<1>1. Capacity(l) \in Nat /\ Steady(l) \in Nat
  BY Limits
<1>2. CASE b = Absent
  BY <1>1, <1>2 DEF UnitsNow
<1>3. CASE b # Absent
  <2>1. b.units \in Nat /\ tick - b.last \in Nat
    BY <1>3 DEF Bucket
  <2>2. PICK r \in Nat : r = (tick - b.last) * Steady(l)
    BY <1>1, <2>1
  <2>3. UnitsNow(b, l) = LeastOf(b.units + r, Capacity(l))
    BY <1>3, <2>2 DEF UnitsNow, Refilled
  <2> QED
    BY <1>1, <1>3, <2>1, <2>2, <2>3 DEF LeastOf
<1> QED
  BY <1>2, <1>3

(* A key that is not asked keeps what it has. *)
LEMMA OtherKey ==
  ASSUME NEW k, KeyInv(k), bucket'[k] = bucket[k], passed'[k] = passed[k],
         promised'[k] = promised[k], set => set', tick \in Nat, tick' \in Nat, tick <= tick'
  PROVE  KeyInv(k)'
<1>1. bucket'[k] = Absent \/ (bucket'[k] \in Bucket /\ bucket'[k].last <= tick')
  BY DEF KeyInv, Bucket
<1>2. \A limit : /\ Spent(k, limit) => Spent(k, limit)'
                 /\ Window(k, limit) => Window(k, limit)'
  BY DEF Spent, Window
<1>3. Kept(k)'
  BY DEF KeyInv, Kept
<1>4. \A limit : Highest(k, limit)' <=> Highest(k, limit)
  BY DEF Highest
<1> QED
  BY <1>1, <1>2, <1>3, <1>4 DEF KeyInv

(* A request is allowed by the limiter that is set. *)
LEMMA Allowed ==
  ASSUME LimiterInv, NEW k \in Key, NEW limit \in LimitsOf[k], Allow(k, limit), set
  PROVE  KeyInv(k)'
<1>1. LimitsOf[k] \subseteq Nat /\ limit \in Nat /\ Minute \in Nat \ {0}
  BY LimiterAssumption
<1>2. PICK b, p, u : b = bucket[k] /\ p = passed[k] /\ u = UnitsNow(b, limit)
  OBVIOUS
<1>3. /\ b = Absent \/ (b \in Bucket /\ b.last <= tick)
      /\ b = Absent => p = << >>
      /\ p \in Seq(Nat) /\ tick \in Nat
  BY <1>2 DEF LimiterInv, KeyInv
<1>4. /\ u \in Nat /\ u >= Minute /\ set' = set /\ tick' = tick
      /\ bucket'[k] = [units |-> u - Minute, last |-> tick]
      /\ passed'[k] = Append(p, tick)
      /\ promised'[k] = NoPromise
  BY <1>2, <1>3, <1>1, Units DEF Allow, Asks, BucketOf, LimiterInv
<1>5. PICK v : v = u - Minute
  OBVIOUS
<1>6. /\ v \in Nat /\ bucket'[k] = [units |-> v, last |-> tick]
      /\ bucket'[k] \in Bucket /\ bucket'[k] # Absent
      /\ bucket'[k].units = v /\ bucket'[k].last = tick
  BY <1>1, <1>3, <1>4, <1>5 DEF Bucket, Absent
<1>7. PICK q, n : q = passed'[k] /\ n = Len(p)
  OBVIOUS
<1>8. /\ q \in Seq(Nat) /\ Len(q) = n + 1 /\ n \in Nat /\ q[n + 1] = tick
      /\ DOMAIN q = 1 .. (n + 1) /\ DOMAIN p = 1 .. n
      /\ \A i \in 1 .. n : q[i] = p[i] /\ p[i] \in Nat
  BY <1>3, <1>4, <1>7, AppendProperties
<1>9. ASSUME NEW h, Highest(k, h)
      PROVE  Spent(k, h)' /\ Window(k, h)'
  <2>1. h \in Nat /\ limit <= h
    BY <1>1, <1>9 DEF Highest
  <2>2. PICK s, c : s = Steady(h) /\ c = Capacity(h)
    OBVIOUS
  <2>3. /\ s \in Nat \ {0} /\ c \in Nat /\ c >= 2 * Minute
        /\ Steady(limit) <= s /\ Capacity(limit) <= c /\ Steady(limit) \in Nat
        /\ Capacity(limit) \in Nat
    BY <1>1, <2>1, <2>2, Limits
  <2>4. u <= c
    <3>1. u <= Capacity(limit)
      BY <1>1, <1>2, <1>3, Units
    <3> QED
      BY <1>4, <2>3, <3>1
  <2>5. ASSUME b # Absent
        PROVE  u <= b.units + (tick - b.last) * s
    <3>1. tick - b.last \in Nat /\ b.units \in Nat
      BY <1>3, <2>5 DEF Bucket
    <3>2. u <= b.units + (tick - b.last) * Steady(limit)
      BY <1>1, <1>2, <1>3, <2>5, Units
    <3>3. Steady(limit) * (tick - b.last) <= s * (tick - b.last)
      BY <2>3, <3>1, Times
    <3>4. PICK x, y : x = (tick - b.last) * Steady(limit) /\ y = (tick - b.last) * s
      OBVIOUS
    <3>5. x \in Int /\ y \in Int /\ x <= y
      BY <2>3, <3>1, <3>3, <3>4
    <3> QED
      BY <1>4, <3>1, <3>2, <3>4, <3>5
  <2>6. ASSUME NEW i \in 1 .. (n + 1)
        PROVE  ((n + 1) - i + 1) * Minute + v <= c + s * (tick - q[i])
    <3>1. CASE i = n + 1
      <4>1. s * (tick - q[i]) = 0 /\ ((n + 1) - i + 1) * Minute = Minute
        BY <1>1, <1>3, <1>8, <2>3, <3>1, SMTT(30)
      <4> QED
        BY <1>1, <1>4, <1>5, <2>3, <2>4, <4>1
    <3>2. CASE i \in 1 .. n
      <4>1. b # Absent
        BY <1>3, <1>7, <3>2
      <4>2. b.units \in Nat /\ b.last \in Nat
        BY <1>3, <4>1 DEF Bucket
      <4>3. (n - i + 1) * Minute + b.units <= c + s * (b.last - p[i])
        BY <1>2, <1>7, <1>8, <1>9, <2>2, <3>2, <4>1 DEF LimiterInv, KeyInv, Spent
      <4>4. u <= b.units + (tick - b.last) * s
        BY <2>5, <4>1
      <4>5. s * (tick - p[i]) = s * (b.last - p[i]) + (tick - b.last) * s
        <5>1. PICK t, l, o : t = tick /\ l = b.last /\ o = p[i]
          OBVIOUS
        <5>2. t \in Int /\ l \in Int /\ o \in Int /\ s \in Int
          BY <1>3, <1>8, <2>3, <3>2, <4>2, <5>1, SMTT(30)
        <5>3. s * (t - o) = s * (l - o) + (t - l) * s
          BY <5>2
        <5> QED
          BY <5>1, <5>3
      <4>6. ((n + 1) - i + 1) * Minute = (n - i + 1) * Minute + Minute
        BY <1>1, <1>8
      <4>7. PICK x, y, z, w : /\ x = (n - i + 1) * Minute /\ y = s * (b.last - p[i])
                              /\ z = (tick - b.last) * s /\ w = s * (tick - p[i])
        OBVIOUS
      <4>8. x \in Int /\ y \in Int /\ z \in Int /\ w \in Int
        <5>1. n - i + 1 \in Int /\ b.last - p[i] \in Int /\ tick - b.last \in Int
              /\ tick - p[i] \in Int /\ s \in Int /\ Minute \in Int
          <6>1. i \in Nat /\ p[i] \in Nat /\ b.last \in Nat
            BY <1>8, <3>2, <4>2
          <6>2. n \in Int /\ tick \in Int /\ s \in Int /\ Minute \in Int
            BY <1>1, <1>3, <1>8, <2>3
          <6>3. \A e, f \in Int : e - f \in Int /\ e + f \in Int
            OBVIOUS
          <6>4. n - i + 1 \in Int
            BY <6>1, <6>2
          <6> QED
            BY <6>1, <6>2, <6>3, <6>4
        <5>2. \A e, f \in Int : e * f \in Int
          OBVIOUS
        <5> QED
          BY <4>7, <5>1, <5>2
      <4>9. x + b.units <= c + y /\ u <= b.units + z /\ w = y + z
        BY <4>3, <4>4, <4>5, <4>7
      <4>10. (x + Minute) + v <= c + w
        BY <1>1, <1>4, <1>5, <2>3, <4>2, <4>8, <4>9
      <4> QED
        BY <1>8, <3>2, <4>6, <4>7, <4>10
    <3> QED
      BY <1>8, <3>1, <3>2
  <2>7. Spent(k, h)'
    <3>1. v <= c
      BY <1>1, <1>4, <1>5, <2>3, <2>4
    <3> QED
      BY <1>6, <1>7, <1>8, <2>2, <2>6, <3>1 DEF Spent
  <2>8. ASSUME NEW i \in 1 .. (n + 1), NEW j \in 1 .. (n + 1), i <= j
        PROVE  (j - i + 1) * Minute <= c + s * (q[j] - q[i])
    <3>1. CASE j = n + 1
      <4>1. PICK x, y : x = (j - i + 1) * Minute /\ y = s * (q[j] - q[i])
        OBVIOUS
      <4>2. x \in Int /\ y \in Int
        <5>1. j - i + 1 \in Int /\ q[j] - q[i] \in Int /\ s \in Int /\ Minute \in Int
          BY <1>1, <1>3, <1>8, <2>3, SMTT(30)
        <5>2. \A e, f \in Int : e * f \in Int
          OBVIOUS
        <5> QED
          BY <4>1, <5>1, <5>2
      <4>3. x + v <= c + y
        BY <1>8, <2>6, <3>1, <4>1
      <4> QED
        BY <1>6, <2>3, <4>1, <4>2, <4>3
    <3>2. CASE j \in 1 .. n
      <4>1. i \in 1 .. n
        BY <2>8, <3>2, <1>8
      <4> QED
        BY <1>2, <1>8, <1>9, <2>2, <2>8, <3>2, <4>1 DEF LimiterInv, KeyInv, Window
    <3> QED
      BY <1>8, <3>1, <3>2
  <2>9. Window(k, h)'
    BY <1>7, <1>8, <2>2, <2>8 DEF Window
  <2> QED
    BY <2>7, <2>9
<1>10. Kept(k)'
  BY <1>4 DEF Kept, NoPromise
<1>11. \A h : Highest(k, h)' <=> Highest(k, h)
  BY DEF Highest
<1> QED
  BY <1>3, <1>4, <1>6, <1>7, <1>8, <1>9, <1>10, <1>11 DEF KeyInv

(* A request is refused. *)
LEMMA Refused ==
  ASSUME LimiterInv, NEW k \in Key, NEW limit \in LimitsOf[k], Refuse(k, limit)
  PROVE  KeyInv(k)' /\ set
<1>1. limit \in Nat /\ Minute \in Nat \ {0}
  BY LimiterAssumption
<1>2. PICK b, u : b = bucket[k] /\ u = UnitsNow(BucketOf(k), limit)
  OBVIOUS
<1>3. /\ b = Absent \/ (b \in Bucket /\ b.last <= tick)
      /\ b = Absent => passed[k] = << >>
      /\ passed[k] \in Seq(Nat) /\ tick \in Nat
  BY <1>2 DEF LimiterInv, KeyInv
<1>4. UnitsNow(Absent, limit) >= 2 * Minute /\ UnitsNow(Absent, limit) \in Nat
  BY <1>1, Limits DEF UnitsNow
<1>5. PICK r : r = RetryAfter(u, limit)
  OBVIOUS
<1>6. /\ u < Minute /\ set' = set /\ tick' = tick /\ passed' = passed
      /\ bucket'[k] = [units |-> u, last |-> tick]
      /\ promised'[k] = [limit |-> limit, at |-> tick + r]
  BY <1>2, <1>5 DEF Refuse, Asks, LimiterInv
<1>7. b # Absent /\ set /\ u = UnitsNow(b, limit)
  <2>1. BucketOf(k) = Absent => FALSE
    BY <1>1, <1>2, <1>4, <1>6
  <2> QED
    BY <1>2, <2>1 DEF BucketOf
<1>8. /\ u \in Nat /\ u <= Capacity(limit) /\ b.units \in Nat /\ b.last \in Nat
      /\ u = b.units + (tick - b.last) * Steady(limit)
  <2>1. Capacity(limit) > u
    <3>1. u \in Nat
      BY <1>1, <1>3, <1>7, Units
    <3>2. Capacity(limit) \in Nat /\ Capacity(limit) >= 2 * Minute
      BY <1>1, Limits
    <3> QED
      BY <1>1, <1>6, <3>1, <3>2
  <2> QED
    BY <1>1, <1>3, <1>7, <2>1, Units, SMTT(30) DEF Bucket
<1>9. /\ bucket'[k] \in Bucket /\ bucket'[k] # Absent
      /\ bucket'[k].units = u /\ bucket'[k].last = tick
  BY <1>3, <1>6, <1>8 DEF Bucket, Absent
<1>10. PICK p, n : p = passed[k] /\ n = Len(p)
  OBVIOUS
<1>11. p \in Seq(Nat) /\ n \in Nat /\ DOMAIN p = 1 .. n /\ \A i \in 1 .. n : p[i] \in Nat
  BY <1>3, <1>10
<1>12. ASSUME NEW h, Highest(k, h)
       PROVE  Spent(k, h)' /\ Window(k, h)'
  <2>1. h \in Nat /\ limit <= h
    BY <1>1, <1>12, LimiterAssumption DEF Highest
  <2>2. PICK s, c : s = Steady(h) /\ c = Capacity(h)
    OBVIOUS
  <2>3. /\ s \in Nat \ {0} /\ c \in Nat /\ Steady(limit) <= s /\ Capacity(limit) <= c
        /\ Steady(limit) \in Nat /\ Capacity(limit) \in Nat
    BY <1>1, <2>1, <2>2, Limits
  <2>4. u <= c
    BY <1>8, <2>3
  <2>5. u <= b.units + (tick - b.last) * s
    <3>1. tick - b.last \in Nat
      BY <1>3, <1>7, <1>8
    <3>2. Steady(limit) * (tick - b.last) <= s * (tick - b.last)
      BY <2>3, <3>1, Times
    <3>3. PICK x, y : x = (tick - b.last) * Steady(limit) /\ y = (tick - b.last) * s
      OBVIOUS
    <3>4. x \in Int /\ y \in Int /\ x <= y
      BY <2>3, <3>1, <3>2, <3>3
    <3> QED
      BY <1>8, <3>3, <3>4
  <2>6. ASSUME NEW i \in 1 .. n
        PROVE  (n - i + 1) * Minute + u <= c + s * (tick - p[i])
    <3>1. (n - i + 1) * Minute + b.units <= c + s * (b.last - p[i])
      BY <1>2, <1>7, <1>10, <1>11, <1>12, <2>2 DEF LimiterInv, KeyInv, Spent
    <3>2. s * (tick - p[i]) = s * (b.last - p[i]) + (tick - b.last) * s
      <4>1. PICK t, l, o : t = tick /\ l = b.last /\ o = p[i]
        OBVIOUS
      <4>2. t \in Int /\ l \in Int /\ o \in Int /\ s \in Int
        BY <1>3, <1>8, <1>11, <2>3, <4>1
      <4>3. s * (t - o) = s * (l - o) + (t - l) * s
        BY <4>2
      <4> QED
        BY <4>1, <4>3
    <3>3. PICK x, y, z, w : /\ x = (n - i + 1) * Minute /\ y = s * (b.last - p[i])
                            /\ z = (tick - b.last) * s /\ w = s * (tick - p[i])
      OBVIOUS
    <3>4. x \in Int /\ y \in Int /\ z \in Int /\ w \in Int
      <4>1. n - i + 1 \in Int /\ b.last - p[i] \in Int /\ tick - b.last \in Int
            /\ tick - p[i] \in Int /\ s \in Int /\ Minute \in Int
        <5>1. i \in Nat /\ p[i] \in Nat
          BY <1>11, <2>6
        <5>2. n \in Int /\ tick \in Int /\ s \in Int /\ Minute \in Int /\ b.last \in Int
          BY <1>1, <1>3, <1>8, <1>11, <2>3
        <5>3. \A e, f \in Int : e - f \in Int /\ e + f \in Int
          OBVIOUS
        <5>4. n - i + 1 \in Int
          BY <5>1, <5>2
        <5> QED
          BY <5>1, <5>2, <5>3, <5>4
      <4>2. \A e, f \in Int : e * f \in Int
        OBVIOUS
      <4> QED
        BY <3>3, <4>1, <4>2
    <3>5. x + b.units <= c + y /\ u <= b.units + z /\ w = y + z
      BY <2>5, <3>1, <3>2, <3>3
    <3>6. x + u <= c + w
      BY <1>8, <2>3, <3>4, <3>5
    <3> QED
      BY <3>3, <3>6
  <2>7. Spent(k, h)'
    BY <1>6, <1>9, <1>10, <1>11, <2>2, <2>4, <2>6 DEF Spent
  <2>8. Window(k, h)'
    BY <1>6, <1>12 DEF LimiterInv, KeyInv, Window
  <2> QED
    BY <2>7, <2>8
<1>13. Kept(k)'
  <2>1. PICK s : s = Steady(limit)
    OBVIOUS
  <2>2. s \in Nat \ {0} /\ Minute - u \in Nat
    BY <1>1, <1>6, <1>8, <2>1, Limits
  <2>3. PICK x \in Nat : x = Minute - u
    BY <2>2
  <2>4. r = GreatestOf((x + s - 1) \div s, 1)
    BY <1>5, <2>1, <2>3 DEF RetryAfter
  <2>5. (x + s - 1) \div s \in Nat /\ ((x + s - 1) \div s) * s >= x
    BY <2>2, RoundedUp
  <2>6. PICK y \in Nat : y = (x + s - 1) \div s
    BY <2>5
  <2>7. r \in Nat /\ y <= r
    BY <2>4, <2>6 DEF GreatestOf
  <2>8. y * s <= r * s /\ y * s \in Nat /\ r * s \in Nat
    BY <2>2, <2>7, Times
  <2>9. u + r * s >= Minute
    BY <1>1, <1>8, <2>3, <2>5, <2>6, <2>8
  <2>10. (tick + r) - tick = r /\ tick + r \in Nat /\ tick + r >= tick
    BY <1>3, <2>7
  <2>11. promised'[k].limit = limit /\ promised'[k].at = tick + r
    BY <1>6
  <2> QED
    BY <1>1, <1>6, <1>7, <1>9, <2>1, <2>9, <2>10, <2>11 DEF Kept
<1>14. \A h : Highest(k, h)' <=> Highest(k, h)
  BY DEF Highest
<1> QED
  BY <1>3, <1>6, <1>7, <1>9, <1>12, <1>13, <1>14 DEF KeyInv

LEMMA LimiterAtFirst == LimiterInit => LimiterInv
<1> SUFFICES ASSUME LimiterInit
             PROVE  LimiterInv
  OBVIOUS
<1>1. ASSUME NEW k \in Key
      PROVE  KeyInv(k)
  <2>1. bucket[k] = Absent /\ passed[k] = << >> /\ promised[k] = NoPromise
    BY DEF LimiterInit
  <2>2. DOMAIN passed[k] = {}
    <3>1. DOMAIN << >> = {}
      OBVIOUS
    <3> QED
      BY <2>1, <3>1
  <2>3. \A limit : Window(k, limit)
    BY <2>2 DEF Window
  <2>4. Kept(k)
    BY <2>1 DEF Kept, NoPromise
  <2>5. passed[k] \in Seq(Nat)
    BY <2>1
  <2> QED
    BY <2>1, <2>3, <2>4, <2>5 DEF KeyInv
<1> QED
  BY <1>1 DEF LimiterInit, LimiterInv

LEMMA LimiterKept ==
  ASSUME LimiterInv, [Next]_vars
  PROVE  LimiterInv'
<1>1. tick \in Nat /\ \A k \in Key : KeyInv(k)
  BY DEF LimiterInv
<1>2. ASSUME \/ UNCHANGED limiterVars \/ InitRateLimiter \/ LimiterTick
      PROVE  LimiterInv'
  <2>1. /\ UNCHANGED <<bucket, passed, promised>> /\ (set => set')
        /\ tick' \in Nat /\ tick <= tick'
    BY <1>1, <1>2 DEF limiterVars, InitRateLimiter, LimiterTick
  <2>2. ASSUME NEW k \in Key
        PROVE  KeyInv(k)'
    <3>1. KeyInv(k)
      BY <1>1
    <3>2. bucket'[k] = bucket[k] /\ passed'[k] = passed[k] /\ promised'[k] = promised[k]
      BY <2>1
    <3> QED
      BY <1>1, <2>1, <3>1, <3>2, OtherKey
  <2>3. DOMAIN bucket' = Key /\ DOMAIN passed' = Key /\ DOMAIN promised' = Key
    BY <2>1 DEF LimiterInv
  <2> QED
    BY <2>1, <2>2, <2>3 DEF LimiterInv
<1>3. ASSUME NEW k \in Key, NEW limit \in LimitsOf[k], Allow(k, limit) \/ Refuse(k, limit)
      PROVE  LimiterInv'
  <2>1. /\ tick' = tick /\ set' = set
        /\ DOMAIN bucket' = Key /\ DOMAIN passed' = Key /\ DOMAIN promised' = Key
        /\ \A other \in Key \ {k} : /\ bucket'[other] = bucket[other]
                                    /\ passed'[other] = passed[other]
                                    /\ promised'[other] = promised[other]
    BY <1>3 DEF LimiterInv, Allow, Refuse, Asks
  <2>2. \A other \in Key \ {k} : KeyInv(other)'
    BY <1>1, <2>1, OtherKey
  <2>3. KeyInv(k)'
    <3>1. CASE Refuse(k, limit)
      BY <3>1, Refused
    <3>2. CASE Allow(k, limit) /\ set
      BY <3>2, Allowed
    <3>3. CASE Allow(k, limit) /\ ~set
      <4>1. UNCHANGED <<bucket, passed, tick>> /\ promised'[k] = NoPromise
        BY <3>3 DEF Allow, Asks, LimiterInv
      <4>2. Kept(k)'
        BY <4>1 DEF Kept, NoPromise
      <4>3. \A h : /\ Highest(k, h)' <=> Highest(k, h)
                   /\ Spent(k, h)' <=> Spent(k, h)
                   /\ Window(k, h)' <=> Window(k, h)
        BY <4>1 DEF Highest, Spent, Window
      <4> QED
        BY <1>1, <4>1, <4>2, <4>3 DEF KeyInv
    <3> QED
      BY <1>3, <3>1, <3>2, <3>3
  <2> QED
    BY <1>1, <2>1, <2>2, <2>3 DEF LimiterInv
<1> QED
  BY <1>2, <1>3, LimiterSteps DEF LimiterNext

LEMMA LimiterSound ==
  ASSUME LimiterInv
  PROVE  WindowBounded /\ RetryAfterSuffices
<1>1. WindowBounded
  BY DEF LimiterInv, KeyInv, Window, Highest, WindowBounded
<1>2. ASSUME NEW k \in Key, promised[k].limit # 0, LimitsOf[k] = {promised[k].limit},
             tick >= promised[k].at
      PROVE  UnitsNow(BucketOf(k), promised[k].limit) >= Minute
  <2>1. PICK b, l, a : b = bucket[k] /\ l = promised[k].limit /\ a = promised[k].at
    OBVIOUS
  <2>2. /\ set /\ b # Absent /\ l \in Nat /\ a \in Nat /\ a >= b.last /\ tick \in Nat
        /\ b.units + (a - b.last) * Steady(l) >= Minute
        /\ b \in Bucket /\ b.last <= tick /\ b.last \in Nat /\ b.units \in Nat
    BY <1>2, <2>1 DEF LimiterInv, KeyInv, Kept, Bucket
  <2>3. Steady(l) \in Nat /\ Minute \in Nat /\ Capacity(l) \in Nat /\ Capacity(l) >= 2 * Minute
    BY <2>2, Limits
  <2>4. (a - b.last) * Steady(l) <= (tick - b.last) * Steady(l)
    <3>1. a - b.last \in Nat /\ tick - b.last \in Nat /\ a - b.last <= tick - b.last
      BY <1>2, <2>1, <2>2
    <3> QED
      BY <2>3, <3>1, Times
  <2>5. PICK x, y : x = (a - b.last) * Steady(l) /\ y = (tick - b.last) * Steady(l)
    OBVIOUS
  <2>6. x \in Int /\ y \in Int
    <3>1. a - b.last \in Int /\ tick - b.last \in Int
      BY <2>2
    <3>2. \A e, f \in Int : e * f \in Int
      OBVIOUS
    <3> QED
      BY <2>3, <2>5, <3>1, <3>2
  <2>7. b.units + y >= Minute
    BY <2>2, <2>3, <2>4, <2>5, <2>6
  <2>8. UnitsNow(b, l) = b.units + y \/ UnitsNow(b, l) = Capacity(l)
    BY <2>2, <2>5, Units
  <2>9. UnitsNow(b, l) >= Minute
    BY <2>2, <2>3, <2>6, <2>7, <2>8
  <2> QED
    BY <2>1, <2>2, <2>9 DEF BucketOf
<1> QED
  BY <1>1, <1>2 DEF RetryAfterSuffices

-----------------------------------------------------------------------------
(* Users, their requests and their tokens.                                 *)

LEMMA SessionSteps ==
  ASSUME [Next]_vars
  PROVE  (SessionsNext \/ UNCHANGED sessionVars) /\ mix' = mix
<1>1. SessionsNext \/ UNCHANGED sessionVars
  BY DEF Next, vars
<1> QED
  BY <1>1, DeskSteps

Steps == {"idle", "name", "mail", "create", "seen", "issue", "store"}
Request == [at: Steps, name: Name \cup {"none"}, mail: Mail \cup {"none"}, id: Nat,
            row: Nat, role: Role, seen: Nat]

RowTypes ==
  /\ users \in Seq(User) /\ now \in 0 .. MaxTime /\ tokens \subseteq Claims
  /\ made \in 0 .. MaxRequests
  /\ held \in Seq([Role -> Int]) /\ entered \in Seq(Nat)
  /\ Len(held) = Len(users) /\ Len(entered) = Len(users)
  /\ req \in [Client -> Request]
  /\ served \in [id: Nat, role: Role, at: Nat]

NamesApart == Safe({"same_registration"})
RolesApart == Safe({"role_and_login"})
AtNames == {"name", "mail", "create"}

(* What a handler's locals say of the repository. *)
Local(x) ==
  /\ x.at \in AtNames \cup {"store"} => x.name \in Name /\ x.mail \in Mail
  /\ x.at \in LoggingIn => x.row \in DOMAIN users /\ x.id = IdOf(x.row)
  /\ x.at = "store" => /\ Memory /\ x.row \in DOMAIN users /\ x.id = x.row
                       /\ users[x.row].name = x.name /\ users[x.row].mail = x.mail
  /\ Memory /\ NamesApart =>
       /\ x.at \in {"mail", "create"} => ~NameTaken(x.name)
       /\ x.at = "create" => ~MailTaken(x.mail)
  /\ RolesApart => /\ x.at \in LoggingIn => users[x.row].role = x.role
                   /\ x.at = "store" => users[x.row].seen = x.seen

(* The requests of two clients. *)
Apart(x, y) ==
  /\ NamesApart => ~(x.at \in AtNames /\ y.at \in AtNames)
  /\ RolesApart => /\ ~(x.at = "store" /\ y.at \in LoggingIn /\ x.row = y.row)
                   /\ ~(y.at = "store" /\ x.at \in LoggingIn /\ x.row = y.row)

RequestsInv ==
  /\ \A c \in Client : Local(req[c])
  /\ \A c, d \in Client : c # d => Apart(req[c], req[d])

(* Rows, and what is remembered of them. *)
RowsInv ==
  /\ UsersUnique /\ LoginsKept
  /\ \A i \in DOMAIN users : /\ held[i][users[i].role] = now
                             /\ \A r \in Role : held[i][r] <= now

(* Whom a token names, and how long its user has had its role. *)
Recent(id, role, time) ==
  id # Nobody => /\ id \in DOMAIN users
                 /\ RolesApart => held[id][role] + AccessTTL >= time

TokensInv ==
  /\ \A tok \in tokens : Recent(tok.id, tok.role, IF tok.typ = "access" THEN tok.exp ELSE 0)
  /\ Recent(served.id, served.role, served.at)

Outsiders ==
  Moves("sessions") /\ mix.issued = {} =>
    users = << >> /\ tokens = {} /\ \A c \in Client : req[c].at = "idle"

SessionInv == RowTypes /\ RequestsInv /\ RowsInv /\ TokensInv /\ Outsiders

LEMMA SessionAtFirst == Init => SessionInv
<1> SUFFICES ASSUME Init
             PROVE  SessionInv
  OBVIOUS
<1>1. /\ users = << >> /\ now = 0 /\ made = 0 /\ held = << >> /\ entered = << >>
      /\ req = [c \in Client |-> Rest]
      /\ served = [id |-> Nobody, role |-> Plain, at |-> 0]
      /\ tokens = IF Moves("sessions") THEN mix.issued ELSE {}
      /\ mix \in Mixes
  BY DEF Init, SessionsInit, MixInit
<1>2. /\ DOMAIN users = {} /\ Len(users) = 0 /\ Len(held) = 0 /\ Len(entered) = 0
      /\ users \in Seq(User) /\ held \in Seq([Role -> Int]) /\ entered \in Seq(Nat)
  BY <1>1
<1>3. \A tok \in tokens : tok \in Claims /\ tok.id = Nobody
  BY <1>1, SessionsAssumption DEF Moves
<1>4. Plain \in Role /\ Nobody \in Nat
  BY DEF Plain, Role, Guest, Admin, Nobody
<1>5. Rest \in Request /\ Rest.at = "idle"
  BY <1>4 DEF Rest, Request, Steps
<1>6. RowTypes
  BY <1>1, <1>2, <1>3, <1>4, <1>5, SessionsAssumption DEF RowTypes
<1>7. RequestsInv
  BY <1>1, <1>5 DEF RequestsInv, Local, Apart, AtNames, LoggingIn
<1>8. RowsInv
  BY <1>2 DEF RowsInv, UsersUnique, LoginsKept
<1>9. TokensInv
  BY <1>1, <1>3 DEF TokensInv, Recent
<1>10. Outsiders
  BY <1>1, <1>5 DEF Outsiders
<1> QED
  BY <1>6, <1>7, <1>8, <1>9, <1>10 DEF SessionInv

(* The requests after a step that moves one of them. *)
LEMMA RequestsStay ==
  ASSUME RowTypes, RequestsInv, mix' = mix,
         NEW c \in Client, NEW x \in Request, req' = [req EXCEPT ![c] = x],
         Local(x)', \A d \in Client \ {c} : Apart(x, req[d]),
         \A d \in Client \ {c} : \A y : y = req[d] => Local(y)'
  PROVE  RequestsInv' /\ req' \in [Client -> Request]
<1>1. /\ req' \in [Client -> Request] /\ req'[c] = x
      /\ \A d \in Client \ {c} : req'[d] = req[d]
  BY DEF RowTypes
<1>2. \A y, z : Apart(y, z)' <=> Apart(y, z)
  BY DEF Apart, NamesApart, RolesApart, Safe
<1>3. ASSUME NEW d \in Client
      PROVE  Local(req[d])'
  <2>1. PICK y : y = req'[d]
    OBVIOUS
  <2>2. Local(y)'
    BY <1>1, <2>1
  <2> QED
    BY <2>1, <2>2
<1>4. ASSUME NEW d \in Client, NEW e \in Client, d # e
      PROVE  Apart(req[d], req[e])'
  <2>1. PICK y, z : y = req'[d] /\ z = req'[e]
    OBVIOUS
  <2>2. Apart(y, z)
    <3>1. CASE d = c
      BY <1>1, <1>4, <2>1, <3>1
    <3>2. CASE e = c
      <4>1. Apart(x, req[d])
        BY <1>4, <3>2
      <4> QED
        BY <1>1, <1>4, <2>1, <3>2, <4>1 DEF Apart
    <3>3. CASE d # c /\ e # c
      BY <1>1, <1>4, <2>1, <3>3 DEF RequestsInv
    <3> QED
      BY <3>1, <3>2, <3>3
  <2> QED
    BY <1>2, <2>1, <2>2
<1> QED
  BY <1>1, <1>3, <1>4 DEF RequestsInv

(* A handler's locals say the same of a repository that is left alone. *)
LEMMA LocalStays ==
  ASSUME UNCHANGED <<mix, users>>
  PROVE  \A y : Local(y)' <=> Local(y)
  BY DEF Local, IdOf, Memory, NamesApart, RolesApart, Safe, NameTaken, MailTaken

(* A step that moves one request only. *)
LEMMA RequestMoves ==
  ASSUME SessionInv, NEW c \in Client, NEW x \in Request, req' = [req EXCEPT ![c] = x],
         UNCHANGED <<mix, users, now, tokens, served, held, entered>>,
         made' \in 0 .. MaxRequests,
         Local(x), \A d \in Client \ {c} : Apart(x, req[d]),
         x.at # "idle" => req[c].at # "idle" \/ tokens # {}
  PROVE  SessionInv'
<1>1. \A y : Local(y)' <=> Local(y)
  BY LocalStays
<1>2. RequestsInv' /\ req' \in [Client -> Request]
  <2>1. \A d \in Client \ {c} : \A y : y = req[d] => Local(y)'
    BY <1>1 DEF SessionInv, RequestsInv
  <2> QED
    BY <1>1, <2>1, RequestsStay DEF SessionInv
<1>3. RowTypes'
  BY <1>2 DEF SessionInv, RowTypes
<1>4. RowsInv' /\ TokensInv'
  BY DEF SessionInv, RowsInv, TokensInv, Recent, UsersUnique, LoginsKept, Memory, Safe,
         RolesApart
<1>5. Outsiders'
  <2>1. ASSUME Moves("sessions"), mix.issued = {}
        PROVE  users = << >> /\ tokens = {} /\ \A d \in Client : req'[d].at = "idle"
    BY <2>1 DEF SessionInv, RowTypes, Outsiders
  <2> QED
    BY <2>1 DEF Outsiders, Moves
<1> QED
  BY <1>2, <1>3, <1>4, <1>5 DEF SessionInv

(* An answered request. *)
LEMMA Resting ==
  /\ Rest \in Request /\ Rest.at = "idle" /\ Local(Rest) /\ Local(Rest)'
  /\ \A y : Apart(Rest, y)
<1>1. Plain \in Role /\ Nobody \in Nat
  BY DEF Plain, Role, Guest, Admin, Nobody
<1>2. Rest \in Request /\ Rest.at = "idle"
  BY <1>1 DEF Rest, Request, Steps
<1> QED
  BY <1>2 DEF Local, Apart, AtNames, LoggingIn

LEMMA Answered ==
  ASSUME SessionInv, NEW c \in Client, Answer(c),
         UNCHANGED <<mix, users, now, tokens, served, held, entered, made>>
  PROVE  SessionInv'
<1>1. req' = [req EXCEPT ![c] = Rest] /\ made' \in 0 .. MaxRequests
  BY DEF Answer, SessionInv, RowTypes
<1> QED
  BY <1>1, Resting, RequestMoves

LEMMA ArrivesWithToken ==
  ASSUME SessionInv, NEW c \in Client, NEW tok, NEW path \in {"/api/auth", "/api/v1"},
         Arrives(c, tok), Admits(path, tok)
  PROVE  /\ tok \in tokens /\ tok.typ = "access" /\ tok.exp >= now /\ tokens # {}
         /\ req[c].at = "idle" /\ made' \in 0 .. MaxRequests /\ Moves("sessions")
<1>1. made' \in 0 .. MaxRequests
  BY SessionsAssumption DEF Arrives, SessionInv, RowTypes
<1> QED
  BY <1>1 DEF Arrives, Admits, Public, ValidAccess, Valid, In

LEMMA RegisterKeeps ==
  ASSUME SessionInv, NEW c \in Client, NEW tok, NEW n \in Name, NEW m \in Mail,
         Register(c, tok, n, m)
  PROVE  SessionInv'
<1>1. PICK x : x = [req[c] EXCEPT !.at = "name", !.name = n, !.mail = m]
  OBVIOUS
<1>2. req[c] \in Request
  BY DEF SessionInv, RowTypes
<1>3. x \in Request /\ x.at = "name" /\ x.name = n /\ x.mail = m
  BY <1>1, <1>2 DEF Request, Steps
<1>4. /\ req' = [req EXCEPT ![c] = x]
      /\ UNCHANGED <<mix, users, now, tokens, served, held, entered>>
      /\ made' \in 0 .. MaxRequests /\ tokens # {}
  BY <1>1, ArrivesWithToken DEF Register
<1>5. Local(x)
  BY <1>3 DEF Local, LoggingIn
<1>6. ASSUME NEW d \in Client \ {c}
      PROVE  Apart(x, req[d])
  <2>1. NamesApart => req[d].at \notin AtNames
    BY DEF Register, NamesApart, Safe, Risk, Others, In, Registering, AtNames
  <2> QED
    BY <1>3, <2>1 DEF Apart, LoggingIn
<1> QED
  BY <1>3, <1>4, <1>5, <1>6, RequestMoves

LEMMA CheckKeeps ==
  ASSUME SessionInv, NEW c \in Client, CheckName(c) \/ CheckMail(c) \/ CreateFails(c)
  PROVE  SessionInv'
<1>1. UNCHANGED <<mix, users, now, tokens, served, held, entered, made>>
  BY DEF CheckName, CheckMail, CreateFails, Quiet
<1>2. CASE Answer(c)
  BY <1>1, <1>2, Answered
<1>3. ASSUME NEW p \in {"mail", "create"}, Goto(c, p),
             p = "mail" => In(c, {"name"}) /\ (Memory => ~NameTaken(req[c].name)),
             p = "create" => In(c, {"mail"}) /\ (Memory => ~MailTaken(req[c].mail))
      PROVE  SessionInv'
  <2>1. PICK x : x = [req[c] EXCEPT !.at = p]
    OBVIOUS
  <2>2. req[c] \in Request /\ Local(req[c]) /\ made' \in 0 .. MaxRequests
    BY <1>1 DEF SessionInv, RowTypes, RequestsInv
  <2>3. x \in Request /\ x.at = p /\ x.name = req[c].name /\ x.mail = req[c].mail
    BY <2>1, <2>2 DEF Request, Steps
  <2>4. req[c].at \in {"name", "mail"} /\ req' = [req EXCEPT ![c] = x]
    BY <1>3, <2>1 DEF In, Goto
  <2>5. Local(x)
    BY <1>3, <2>2, <2>3, <2>4 DEF Local, LoggingIn, AtNames, In
  <2>6. ASSUME NEW d \in Client \ {c}
        PROVE  Apart(x, req[d])
    <3>1. Apart(req[c], req[d])
      BY DEF SessionInv, RequestsInv
    <3> QED
      BY <2>3, <2>4, <3>1 DEF Apart, AtNames, LoggingIn
  <2> QED
    BY <1>1, <2>2, <2>3, <2>4, <2>5, <2>6, RequestMoves
<1>4. CASE CheckName(c) /\ ~Answer(c)
  BY <1>3, <1>4 DEF CheckName
<1>5. CASE CheckMail(c) /\ ~Answer(c)
  BY <1>3, <1>5 DEF CheckMail
<1>6. CreateFails(c) => Answer(c)
  BY DEF CreateFails
<1> QED
  BY <1>2, <1>4, <1>5, <1>6

LEMMA LoginKeeps ==
  ASSUME SessionInv, NEW c \in Client, NEW tok, NEW i \in DOMAIN users, Login(c, tok, i)
  PROVE  SessionInv'
<1>1. PICK x : x = [req[c] EXCEPT !.at = "seen", !.id = IdOf(i), !.row = i,
                                  !.role = users[i].role]
  OBVIOUS
<1>2. /\ req[c] \in Request /\ i \in Nat /\ IdOf(i) \in Nat /\ users[i].role \in Role
  <2>1. req[c] \in Request /\ i \in Nat /\ users[i] \in User
    BY DEF SessionInv, RowTypes
  <2> QED
    BY <2>1 DEF User, IdOf, Nobody
<1>3. PICK id, role : id = IdOf(i) /\ role = users[i].role
  OBVIOUS
<1>4. /\ x \in Request /\ x.at = "seen" /\ x.id = id /\ x.row = i /\ x.role = role
  BY <1>1, <1>2, <1>3 DEF Request, Steps
<1>5. /\ req' = [req EXCEPT ![c] = x]
      /\ UNCHANGED <<mix, users, now, tokens, served, held, entered>>
      /\ made' \in 0 .. MaxRequests /\ tokens # {}
  BY <1>1, ArrivesWithToken DEF Login
<1>6. Local(x)
  BY <1>3, <1>4 DEF Local, LoggingIn, AtNames
<1>7. ASSUME NEW d \in Client \ {c}
      PROVE  Apart(x, req[d])
  <2>1. RolesApart => ~(req[d].at = "store" /\ req[d].row = i)
    BY DEF Login, RolesApart, Safe, Risk, Others, In
  <2> QED
    BY <1>4, <2>1 DEF Apart, LoggingIn, AtNames
<1> QED
  BY <1>4, <1>5, <1>6, <1>7, RequestMoves

LEMMA LoadKeeps ==
  ASSUME SessionInv, NEW c \in Client, NEW tok, NEW i \in DOMAIN users, NEW r \in NewRole,
         LoadUser(c, tok, i, r)
  PROVE  SessionInv'
<1>1. PICK x : x = [at |-> "store", id |-> i, row |-> i, name |-> users[i].name,
                    mail |-> users[i].mail, role |-> r, seen |-> users[i].seen]
  OBVIOUS
<1>2. users[i] \in User /\ i \in Nat /\ r \in Role
  BY SessionsAssumption DEF SessionInv, RowTypes
<1>3. x \in Request
  BY <1>1, <1>2 DEF Request, Steps, User
<1>4. /\ req' = [req EXCEPT ![c] = x]
      /\ UNCHANGED <<mix, users, now, tokens, served, held, entered>>
      /\ made' \in 0 .. MaxRequests /\ tokens # {} /\ Memory
  BY <1>1, ArrivesWithToken DEF LoadUser, WithId
<1>5. Local(x)
  BY <1>1, <1>2, <1>4 DEF Local, LoggingIn, AtNames, User
<1>6. ASSUME NEW d \in Client \ {c}
      PROVE  Apart(x, req[d])
  <2>1. RolesApart => ~(req[d].at \in LoggingIn /\ req[d].row = i)
    BY DEF LoadUser, RolesApart, Safe, Risk, Others, In
  <2> QED
    BY <1>1, <2>1 DEF Apart, LoggingIn, AtNames
<1> QED
  BY <1>1, <1>3, <1>4, <1>5, <1>6, RequestMoves

(* Where a request with a token is under way, tokens were issued outside. *)
LEMMA NoOutsider ==
  ASSUME SessionInv, mix' = mix, tokens # {} \/ \E c \in Client : req[c].at # "idle"
  PROVE  Outsiders'
  BY DEF SessionInv, Outsiders, Moves

LEMMA RowFacts ==
  ASSUME RowTypes, NEW i \in DOMAIN users
  PROVE  /\ users[i] \in User /\ users[i].role \in Role /\ i \in Nat \ {0}
         /\ i \in DOMAIN held /\ i \in DOMAIN entered
         /\ held[i] \in [Role -> Int] /\ now \in Nat
<1>1. /\ DOMAIN users = 1 .. Len(users) /\ DOMAIN held = 1 .. Len(held)
      /\ DOMAIN entered = 1 .. Len(entered) /\ Len(held) = Len(users)
      /\ Len(entered) = Len(users)
  BY DEF RowTypes
<1>2. users[i] \in User /\ i \in Nat \ {0} /\ now \in Nat
  BY <1>1, SessionsAssumption DEF RowTypes
<1>3. held[i] \in [Role -> Int]
  BY <1>1 DEF RowTypes
<1> QED
  BY <1>1, <1>2, <1>3 DEF User

(* Tokens issued for a user in the role that it has. *)
LEMMA TokensGrow ==
  ASSUME SessionInv, mix' = mix, served' = served, NEW id \in Nat, NEW role \in Role,
         tokens' = tokens \/ tokens' = tokens \cup Pair(id, role),
         DOMAIN users \subseteq DOMAIN users',
         \A i \in DOMAIN users : \A r \in Role : held'[i][r] \in Int /\ held[i][r] <= held'[i][r],
         id # Nobody => /\ id \in DOMAIN users'
                        /\ RolesApart => held'[id][role] \in Int /\ held'[id][role] >= now
  PROVE  TokensInv' /\ tokens' \subseteq Claims
<1>1. /\ now \in Nat /\ tokens \subseteq Claims /\ AccessTTL \in Nat /\ RefreshTTL \in Nat
      /\ served \in [id: Nat, role: Role, at: Nat]
  BY SessionsAssumption, TTLAssumption DEF SessionInv, RowTypes
<1>2. ASSUME NEW u, NEW r \in Role, NEW time \in Nat, Recent(u, r, time)
      PROVE  Recent(u, r, time)'
  <2>1. ASSUME u # Nobody, RolesApart
        PROVE  held'[u][r] + AccessTTL >= time
    <3>1. u \in DOMAIN users /\ held[u][r] + AccessTTL >= time
      BY <1>2, <2>1 DEF Recent
    <3>2. held[u][r] \in Int
      BY <3>1, RowFacts DEF SessionInv
    <3>3. held'[u][r] \in Int /\ held[u][r] <= held'[u][r]
      BY <3>1
    <3> QED
      BY <1>1, <3>1, <3>2, <3>3
  <2> QED
    BY <1>2, <2>1 DEF Recent, RolesApart, Safe
<1>3. ASSUME NEW time \in Nat, time <= now + AccessTTL
      PROVE  Recent(id, role, time)'
  <2>1. RolesApart' <=> RolesApart
    BY DEF RolesApart, Safe
  <2>2. ASSUME id # Nobody, RolesApart
        PROVE  held'[id][role] + AccessTTL >= time
    BY <1>1, <1>3, <2>2
  <2> QED
    BY <2>1, <2>2 DEF Recent
<1>4. ASSUME NEW tok \in Pair(id, role)
      PROVE  /\ tok \in Claims /\ tok.id = id /\ tok.role = role
             /\ tok.typ = "access" => tok.exp = now + AccessTTL
  BY <1>1, <1>4 DEF Pair, Claims
<1>5. ASSUME NEW tok \in tokens'
      PROVE  /\ tok \in Claims
             /\ Recent(tok.id, tok.role, IF tok.typ = "access" THEN tok.exp ELSE 0)'
  <2>1. PICK u, r, time : /\ u = tok.id /\ r = tok.role
                          /\ time = IF tok.typ = "access" THEN tok.exp ELSE 0
    OBVIOUS
  <2>2. CASE tok \in tokens
    <3>1. tok \in Claims /\ r \in Role /\ time \in Nat
      BY <1>1, <2>1, <2>2 DEF Claims
    <3>2. Recent(u, r, time)
      BY <2>1, <2>2 DEF SessionInv, TokensInv
    <3>3. Recent(u, r, time)'
      BY <1>2, <3>1, <3>2
    <3> QED
      BY <2>1, <3>1, <3>3
  <2>3. CASE tok \in Pair(id, role)
    <3>1. tok \in Claims /\ u = id /\ r = role
      BY <1>4, <2>1, <2>3
    <3>2. time \in Nat /\ time <= now + AccessTTL
      BY <1>1, <1>4, <2>1, <2>3
    <3>3. Recent(u, r, time)'
      BY <1>3, <3>1, <3>2
    <3> QED
      BY <2>1, <3>1, <3>3
  <2> QED
    BY <1>5, <2>2, <2>3
<1>6. Recent(served.id, served.role, served.at)'
  <2>1. PICK u, r, time : u = served.id /\ r = served.role /\ time = served.at
    OBVIOUS
  <2>2. r \in Role /\ time \in Nat /\ Recent(u, r, time)
    BY <1>1, <2>1 DEF SessionInv, TokensInv
  <2>3. Recent(u, r, time)'
    BY <1>2, <2>2
  <2> QED
    BY <2>1, <2>3
<1>7. TokensInv'
  BY <1>5, <1>6 DEF TokensInv
<1> QED
  BY <1>5, <1>7

LEMMA RowsStay ==
  ASSUME SessionInv, UNCHANGED <<mix, users, now, held, entered>>
  PROVE  RowsInv' /\ (\A i \in DOMAIN users : \A r \in Role :
                        held'[i][r] \in Int /\ held[i][r] <= held'[i][r])
<1>1. RowsInv'
  BY DEF SessionInv, RowsInv, UsersUnique, LoginsKept, Memory, Safe
<1>2. ASSUME NEW i \in DOMAIN users, NEW r \in Role
      PROVE  held'[i][r] \in Int /\ held[i][r] <= held'[i][r]
  BY RowFacts DEF SessionInv
<1> QED
  BY <1>1, <1>2

LEMMA IssueKeeps ==
  ASSUME SessionInv, NEW c \in Client, IssueTokens(c)
  PROVE  SessionInv'
<1>1. PICK id, role : id = req[c].id /\ role = req[c].role
  OBVIOUS
<1>2. /\ req' = [req EXCEPT ![c] = Rest] /\ tokens' = tokens \cup Pair(id, role)
      /\ UNCHANGED <<mix, users, now, made, served, held, entered>> /\ req[c].at = "issue"
  BY <1>1 DEF IssueTokens, Answer, Issue, In
<1>3. /\ id \in Nat /\ role \in Role /\ req[c].row \in DOMAIN users /\ id = IdOf(req[c].row)
      /\ RolesApart => users[req[c].row].role = role
  BY <1>1, <1>2 DEF SessionInv, RowTypes, Request, RequestsInv, Local, LoggingIn
<1>4. id # Nobody => /\ id \in DOMAIN users
                     /\ RolesApart => held[id][role] \in Int /\ held[id][role] >= now
  <2>1. ASSUME id # Nobody
        PROVE  id = req[c].row /\ id \in DOMAIN users
    BY <1>3, <2>1 DEF IdOf
  <2>2. ASSUME id # Nobody, RolesApart
        PROVE  held[id][role] = now /\ now \in Nat
    BY <1>3, <2>1, <2>2, RowFacts DEF SessionInv, RowsInv
  <2> QED
    BY <2>1, <2>2
<1>5. RowsInv' /\ (\A i \in DOMAIN users : \A r \in Role :
                     held'[i][r] \in Int /\ held[i][r] <= held'[i][r])
  BY <1>2, RowsStay
<1>6. TokensInv' /\ tokens' \subseteq Claims
  BY <1>2, <1>3, <1>4, <1>5, TokensGrow
<1>7. RequestsInv' /\ req' \in [Client -> Request]
  <2>1. \A y : Local(y)' <=> Local(y)
    BY <1>2, LocalStays
  <2>2. \A d \in Client \ {c} : \A y : y = req[d] => Local(y)'
    BY <2>1 DEF SessionInv, RequestsInv
  <2> QED
    BY <1>2, <2>2, Resting, RequestsStay DEF SessionInv
<1>8. RowTypes'
  BY <1>2, <1>6, <1>7 DEF SessionInv, RowTypes
<1>9. Outsiders'
  BY <1>2, NoOutsider
<1> QED
  BY <1>5, <1>6, <1>7, <1>8, <1>9 DEF SessionInv

LEMMA RefreshKeeps ==
  ASSUME SessionInv, NEW c \in Client, NEW tok, NEW old \in tokens, Refresh(c, tok, old)
  PROVE  SessionInv'
<1>1. tokens # {} /\ made' \in 0 .. MaxRequests
  BY ArrivesWithToken DEF Refresh
<1>2. PICK i \in DOMAIN users : /\ Memory
                                /\ tokens' = tokens \cup Pair(i, users[i].role)
  BY DEF Refresh, WithId, Issue, IdOf, RoleToIssue
<1>3. PICK role : role = users[i].role
  OBVIOUS
<1>4. /\ role \in Role /\ i \in Nat /\ held[i][role] = now /\ now \in Nat
  BY <1>3, RowFacts DEF SessionInv, RowsInv
<1>5. UNCHANGED <<mix, users, now, req, served, held, entered>>
  BY DEF Refresh
<1>6. RowsInv' /\ (\A j \in DOMAIN users : \A r \in Role :
                     held'[j][r] \in Int /\ held[j][r] <= held'[j][r])
  BY <1>5, RowsStay
<1>7. TokensInv' /\ tokens' \subseteq Claims
  BY <1>2, <1>3, <1>4, <1>5, <1>6, TokensGrow
<1>8. RequestsInv'
  <2>1. \A y : Local(y)' <=> Local(y)
    BY <1>5, LocalStays
  <2>2. \A y, z : Apart(y, z)' <=> Apart(y, z)
    BY <1>5 DEF Apart, NamesApart, RolesApart, Safe
  <2> QED
    BY <1>5, <2>1, <2>2 DEF SessionInv, RequestsInv
<1>9. RowTypes'
  BY <1>1, <1>5, <1>7 DEF SessionInv, RowTypes
<1>10. Outsiders'
  BY <1>1, <1>5, NoOutsider
<1> QED
  BY <1>6, <1>7, <1>8, <1>9, <1>10 DEF SessionInv

LEMMA SameLength ==
  ASSUME NEW S, NEW n \in Nat, NEW f \in [1 .. n -> S]
  PROVE  f \in Seq(S) /\ Len(f) = n
  OBVIOUS

(* A step that keeps the names and addresses of the rows. *)
NamesKept ==
  /\ DOMAIN users' = DOMAIN users
  /\ \A i \in DOMAIN users : users'[i].name = users[i].name /\ users'[i].mail = users[i].mail

LEMMA NamesStay ==
  ASSUME NamesKept, mix' = mix
  PROVE  /\ \A n : NameTaken(n)' <=> NameTaken(n)
         /\ \A m : MailTaken(m)' <=> MailTaken(m)
         /\ UsersUnique => UsersUnique'
<1>1. /\ \A n : NameTaken(n)' <=> NameTaken(n)
      /\ \A m : MailTaken(m)' <=> MailTaken(m)
  BY DEF NamesKept, NameTaken, MailTaken
<1>2. UsersUnique => UsersUnique'
  BY DEF NamesKept, UsersUnique, Memory, Safe
<1> QED
  BY <1>1, <1>2

LEMMA LocalKept ==
  ASSUME NamesKept, mix' = mix, NEW y, Local(y),
         RolesApart => /\ y.at \in LoggingIn => users'[y.row].role = users[y.row].role
                       /\ y.at = "store" => users'[y.row].seen = users[y.row].seen
  PROVE  Local(y)'
<1>1. /\ \A n : NameTaken(n)' <=> NameTaken(n)
      /\ \A m : MailTaken(m)' <=> MailTaken(m)
  BY NamesStay
<1>2. \A i : IdOf(i)' = IdOf(i)
  BY DEF IdOf, Memory
<1>3. /\ Memory' <=> Memory
      /\ NamesApart' <=> NamesApart
      /\ RolesApart' <=> RolesApart
  BY DEF Memory, NamesApart, RolesApart, Safe
<1>4. (y.at \in AtNames \cup {"store"} => y.name \in Name /\ y.mail \in Mail)'
  BY DEF Local, AtNames
<1>5. y.at \in LoggingIn => y.row \in DOMAIN users' /\ y.id = IdOf(y.row)'
  BY <1>2 DEF Local, NamesKept
<1>6. y.at = "store" => /\ Memory' /\ y.row \in DOMAIN users' /\ y.id = y.row
                        /\ users'[y.row].name = y.name /\ users'[y.row].mail = y.mail
  BY <1>3 DEF Local, NamesKept
<1>7. Memory' /\ NamesApart' =>
        /\ y.at \in {"mail", "create"} => ~NameTaken(y.name)'
        /\ y.at = "create" => ~MailTaken(y.mail)'
  BY <1>1, <1>3 DEF Local
<1>8. RolesApart' => /\ y.at \in LoggingIn => users'[y.row].role = y.role
                     /\ y.at = "store" => users'[y.row].seen = y.seen
  BY <1>3 DEF Local
<1> QED
  BY <1>4, <1>5, <1>6, <1>7, <1>8 DEF Local, LoggingIn, AtNames

(* A login is stamped. *)
LEMMA StampKeeps ==
  ASSUME SessionInv, NEW c \in Client, StampLogin(c)
  PROVE  SessionInv'
<1>1. PICK row, id : row = req[c].row /\ id = req[c].id
  OBVIOUS
<1>2. /\ req[c].at = "seen" /\ row \in DOMAIN users /\ id = IdOf(row)
      /\ UNCHANGED <<mix, now, tokens, made, served, held>> /\ req[c] \in Request
      /\ Local(req[c])
  BY <1>1 DEF StampLogin, In, SessionInv, RequestsInv, Local, LoggingIn, RowTypes
<1>3. /\ now \in Nat /\ DOMAIN users = 1 .. Len(users) /\ Len(users) \in Nat
      /\ \A i \in DOMAIN users : users[i] \in User
      /\ entered \in Seq(Nat) /\ DOMAIN entered = 1 .. Len(users)
      /\ Len(entered) = Len(users)
  BY SessionsAssumption DEF SessionInv, RowTypes
<1>4. /\ DOMAIN users' = DOMAIN users
      /\ \A i \in DOMAIN users :
           users'[i] = IF i \in WithId(id) THEN [users[i] EXCEPT !.seen = now] ELSE users[i]
  BY <1>1 DEF StampLogin, UpdateLastLogin
<1>5. /\ \A i \in DOMAIN users : i \in WithId(id) <=> Memory /\ i = row
  BY <1>2, <1>3 DEF WithId, IdOf, Nobody
<1>6. ASSUME NEW i \in DOMAIN users
      PROVE  /\ users'[i] \in User /\ users'[i].name = users[i].name
             /\ users'[i].mail = users[i].mail /\ users'[i].role = users[i].role
             /\ users'[i].seen = IF Memory /\ i = row THEN now ELSE users[i].seen
  BY <1>3, <1>4, <1>5 DEF User
<1>7. users' \in Seq(User) /\ Len(users') = Len(users)
  <2>1. users' = [i \in 1 .. Len(users) |-> users'[i]]
    BY <1>3, <1>4 DEF StampLogin, UpdateLastLogin
  <2>2. users' \in [1 .. Len(users) -> User]
    BY <1>3, <1>6, <2>1
  <2> QED
    BY <1>3, <2>2, SameLength
<1>8. NamesKept
  BY <1>4, <1>6 DEF NamesKept
<1>9. /\ entered' \in Seq(Nat) /\ Len(entered') = Len(users)
      /\ \A i \in DOMAIN users :
           entered'[i] = IF Memory /\ i = row THEN now ELSE entered[i]
  BY <1>1, <1>2, <1>3 DEF StampLogin
<1>10. RowsInv'
  <2>1. UsersUnique'
    BY <1>2, <1>8, NamesStay DEF SessionInv, RowsInv
  <2>2. LoginsKept'
    BY <1>2, <1>4, <1>6, <1>9 DEF SessionInv, RowsInv, LoginsKept, Safe
  <2> QED
    BY <1>2, <1>4, <1>6, <2>1, <2>2 DEF SessionInv, RowsInv
<1>11. TokensInv'
  BY <1>2, <1>4 DEF SessionInv, TokensInv, Recent, RolesApart, Safe
<1>12. PICK x : x = [req[c] EXCEPT !.at = "issue"]
  OBVIOUS
<1>13. /\ x \in Request /\ x.at = "issue" /\ x.row = row /\ x.id = id
       /\ x.role = req[c].role /\ req' = [req EXCEPT ![c] = x]
  BY <1>1, <1>2, <1>12 DEF Request, Steps, StampLogin, Goto
<1>14. Local(x)'
  <2>1. Local(x)
    BY <1>1, <1>2, <1>13 DEF Local, AtNames, LoggingIn
  <2> QED
    BY <1>2, <1>6, <1>8, <1>13, <2>1, LocalKept
<1>15. ASSUME NEW d \in Client \ {c}
       PROVE  Apart(x, req[d])
  <2>1. Apart(req[c], req[d])
    BY DEF SessionInv, RequestsInv
  <2> QED
    BY <1>1, <1>2, <1>13, <2>1 DEF Apart, AtNames, LoggingIn
<1>16. ASSUME NEW d \in Client \ {c}, NEW y, y = req[d]
       PROVE  Local(y)'
  <2>1. Local(y)
    BY <1>16 DEF SessionInv, RequestsInv
  <2>2. y.at \in LoggingIn => y.row \in DOMAIN users
    BY <2>1 DEF Local
  <2>3. RolesApart /\ y.at = "store" => y.row \in DOMAIN users /\ y.row # row
    <3>1. Apart(req[c], req[d])
      BY DEF SessionInv, RequestsInv
    <3> QED
      BY <1>1, <1>2, <1>16, <2>1, <3>1 DEF Apart, Local, LoggingIn
  <2> QED
    BY <1>2, <1>6, <1>8, <2>1, <2>2, <2>3, LocalKept
<1>17. RequestsInv' /\ req' \in [Client -> Request]
  BY <1>2, <1>13, <1>14, <1>15, <1>16, RequestsStay DEF SessionInv
<1>18. RowTypes'
  BY <1>2, <1>7, <1>9, <1>17 DEF SessionInv, RowTypes
<1>19. Outsiders'
  BY <1>2, NoOutsider
<1> QED
  BY <1>10, <1>11, <1>17, <1>18, <1>19 DEF SessionInv

(* A changed row is written back. *)
LEMMA StoreKeeps ==
  ASSUME SessionInv, NEW c \in Client, StoreUser(c)
  PROVE  SessionInv'
<1>1. PICK row, old, role : row = req[c].row /\ old = users[row].role /\ role = req[c].role
  OBVIOUS
<1>2. /\ req[c].at = "store" /\ Memory /\ row \in DOMAIN users /\ req[c].id = row
      /\ users[row].name = req[c].name /\ users[row].mail = req[c].mail
      /\ RolesApart => users[row].seen = req[c].seen
      /\ UNCHANGED <<mix, now, tokens, made, served, entered>>
      /\ req[c] \in Request /\ req' = [req EXCEPT ![c] = Rest]
  <2>1. Local(req[c]) /\ req[c].at = "store"
    BY DEF SessionInv, RequestsInv, StoreUser, In
  <2>2. req[c] \in Request /\ req' = [req EXCEPT ![c] = Rest]
    BY DEF SessionInv, RowTypes, StoreUser, Answer
  <2> QED
    BY <1>1, <2>1, <2>2 DEF Local, StoreUser
<1>3. /\ now \in Nat /\ DOMAIN users = 1 .. Len(users) /\ Len(users) \in Nat
      /\ \A i \in DOMAIN users : users[i] \in User
      /\ DOMAIN held = 1 .. Len(users) /\ Len(held) = Len(users)
      /\ \A i \in DOMAIN users : held[i] \in [Role -> Int]
      /\ \A i \in DOMAIN users : \A r \in Role : held[i][r] <= now
      /\ \A i \in DOMAIN users : held[i][users[i].role] = now
      /\ role \in Role
  <2>1. now \in Nat /\ role \in Role
    BY <1>1, <1>2, SessionsAssumption DEF SessionInv, RowTypes, Request
  <2>2. /\ DOMAIN users = 1 .. Len(users) /\ Len(users) \in Nat
        /\ \A i \in DOMAIN users : users[i] \in User
        /\ DOMAIN held = 1 .. Len(users) /\ Len(held) = Len(users)
        /\ \A i \in DOMAIN users : held[i] \in [Role -> Int]
    BY DEF SessionInv, RowTypes
  <2> QED
    BY <2>1, <2>2 DEF SessionInv, RowsInv
<1>4. PICK new : new = RowToStore(c)
  OBVIOUS
<1>5. /\ new \in User /\ new.name = users[row].name /\ new.mail = users[row].mail
      /\ new.role = role
      /\ RolesApart => new.seen = users[row].seen
  <2>1. users[row] \in User
    BY <1>2, <1>3
  <2> QED
    BY <1>1, <1>2, <1>4, <2>1 DEF RowToStore, User, Request
<1>6. /\ DOMAIN users' = DOMAIN users
      /\ \A i \in DOMAIN users : users'[i] = IF i = row THEN new ELSE users[i]
      /\ users' = [i \in 1 .. Len(users) |-> users'[i]]
  <2>1. users' = [i \in DOMAIN users |-> IF i \in WithId(req[c].id) THEN new ELSE users[i]]
    BY <1>4 DEF StoreUser, Update
  <2> QED
    BY <1>2, <1>3, <2>1 DEF WithId
<1>7. users' \in Seq(User) /\ Len(users') = Len(users)
  <2>1. users' \in [1 .. Len(users) -> User]
    BY <1>3, <1>5, <1>6
  <2> QED
    BY <1>3, <2>1, SameLength
<1>8. NamesKept
  BY <1>5, <1>6 DEF NamesKept
<1>9. PICK after : after = [held[row] EXCEPT ![old] = now, ![role] = now]
  OBVIOUS
<1>10. /\ after \in [Role -> Int]
       /\ \A r \in Role : after[r] = IF r = old \/ r = role THEN now ELSE held[row][r]
  BY <1>2, <1>3, <1>9
<1>11. /\ held' \in Seq([Role -> Int]) /\ Len(held') = Len(users)
       /\ \A i \in DOMAIN users : held'[i] = IF i = row THEN after ELSE held[i]
  <2>1. held' = [held EXCEPT ![row] = after]
    BY <1>1, <1>9 DEF StoreUser
  <2>2. held' \in [1 .. Len(users) -> [Role -> Int]]
    BY <1>2, <1>3, <1>10, <2>1
  <2>3. \A i \in DOMAIN users : held'[i] = IF i = row THEN after ELSE held[i]
    BY <1>3, <2>1
  <2> QED
    BY <1>3, <2>2, <2>3, SameLength
<1>12. ASSUME NEW i \in DOMAIN users, NEW r \in Role
       PROVE  held'[i][r] \in Int /\ held[i][r] <= held'[i][r] /\ held'[i][r] <= now
  <2>1. PICK v : v = held[i][r]
    OBVIOUS
  <2>2. v \in Int /\ v <= now
    BY <1>3, <2>1
  <2>3. held'[i][r] = v \/ held'[i][r] = now
    BY <1>10, <1>11, <2>1
  <2> QED
    BY <1>3, <2>1, <2>2, <2>3
<1>13. RowsInv'
  <2>1. UsersUnique'
    BY <1>2, <1>8, NamesStay DEF SessionInv, RowsInv
  <2>2. LoginsKept'
    BY <1>2, <1>5, <1>6 DEF SessionInv, RowsInv, LoginsKept, RolesApart, Safe
  <2>3. ASSUME NEW i \in DOMAIN users
        PROVE  held'[i][users'[i].role] = now
    <3>1. CASE i = row
      <4>1. users'[i].role = role /\ held'[i] = after
        BY <1>5, <1>6, <1>11, <3>1
      <4>2. after[role] = now
        BY <1>3, <1>10
      <4> QED
        BY <4>1, <4>2
    <3>2. CASE i # row
      BY <1>3, <1>6, <1>11, <3>2
    <3> QED
      BY <3>1, <3>2
  <2> QED
    BY <1>2, <1>6, <1>12, <2>1, <2>2, <2>3 DEF RowsInv
<1>14. TokensInv'
  <2>1. PICK id, r : id = Nobody /\ r = Plain
    OBVIOUS
  <2>2. tokens' = tokens \/ tokens' = tokens \cup Pair(id, r)
    BY <1>2
  <2>3. id \in Nat /\ r \in Role
    BY <2>1 DEF Nobody, Plain, Role, Guest, Admin
  <2> QED
    BY <1>2, <1>6, <1>12, <2>1, <2>2, <2>3, TokensGrow
<1>15. ASSUME NEW d \in Client \ {c}, NEW y, y = req[d]
       PROVE  Local(y)'
  <2>1. Local(y)
    BY <1>15 DEF SessionInv, RequestsInv
  <2>2. /\ y.at \in LoggingIn => y.row \in DOMAIN users
        /\ y.at = "store" => y.row \in DOMAIN users
    BY <2>1 DEF Local
  <2>3. RolesApart /\ y.at \in LoggingIn => y.row # row
    <3>1. Apart(req[c], req[d])
      BY DEF SessionInv, RequestsInv
    <3> QED
      BY <1>1, <1>2, <1>15, <3>1 DEF Apart
  <2>4. RolesApart /\ y.at = "store" => users'[y.row].seen = users[y.row].seen
    BY <1>5, <1>6, <2>2
  <2> QED
    BY <1>2, <1>6, <1>8, <2>1, <2>2, <2>3, <2>4, LocalKept
<1>16. RequestsInv' /\ req' \in [Client -> Request]
  BY <1>2, <1>15, Resting, RequestsStay DEF SessionInv
<1>17. RowTypes'
  BY <1>2, <1>7, <1>11, <1>16 DEF SessionInv, RowTypes
<1>18. Outsiders'
  BY <1>2, NoOutsider
<1> QED
  BY <1>13, <1>14, <1>16, <1>17, <1>18 DEF SessionInv

(* A user is created. *)
LEMMA CreateKeeps ==
  ASSUME SessionInv, NEW c \in Client, CreateUser(c)
  PROVE  SessionInv'
<1>1. PICK n, m, k : n = req[c].name /\ m = req[c].mail /\ k = Len(users) + 1
  OBVIOUS
<1>2. PICK new, first : new = NewUser(n, m) /\ first = [r \in Role |-> IF r = Plain THEN now ELSE -1]
  OBVIOUS
<1>3. /\ req[c].at = "create" /\ CanCreate(n, m) /\ Local(req[c]) /\ n \in Name /\ m \in Mail
      /\ users' = Append(users, new) /\ held' = Append(held, first)
      /\ entered' = Append(entered, 0)
      /\ tokens' = tokens \cup Pair(IdOf(k), Plain)
      /\ UNCHANGED <<mix, now, made, served>> /\ req' = [req EXCEPT ![c] = Rest]
  <2>1. Local(req[c]) /\ req[c].at = "create"
    BY DEF SessionInv, RequestsInv, CreateUser, In
  <2> QED
    BY <1>1, <1>2, <2>1 DEF CreateUser, Create, Issue, Answer, Local, AtNames
<1>4. /\ now \in Nat /\ Plain \in Role /\ k \in Nat \ {0} /\ DOMAIN users = 1 .. k - 1
      /\ new \in User /\ first \in [Role -> Int]
      /\ new.name = n /\ new.mail = m /\ new.role = Plain /\ new.seen = 0
      /\ users \in Seq(User) /\ held \in Seq([Role -> Int]) /\ entered \in Seq(Nat)
      /\ Len(users) = k - 1 /\ Len(held) = k - 1 /\ Len(entered) = k - 1
  <2>1. Plain \in Role
    BY DEF Plain, Role, Guest, Admin
  <2>2. /\ now \in Nat /\ users \in Seq(User) /\ held \in Seq([Role -> Int])
        /\ entered \in Seq(Nat) /\ Len(held) = Len(users) /\ Len(entered) = Len(users)
    BY SessionsAssumption DEF SessionInv, RowTypes
  <2>3. k \in Nat \ {0} /\ DOMAIN users = 1 .. k - 1 /\ Len(users) = k - 1
    BY <1>1, <2>2
  <2>4. first \in [Role -> Int]
    BY <1>2, <2>2
  <2> QED
    BY <1>2, <1>3, <2>1, <2>2, <2>3, <2>4 DEF NewUser, User
<1>5. /\ users' \in Seq(User) /\ Len(users') = k /\ users'[k] = new
      /\ \A i \in 1 .. k - 1 : users'[i] = users[i]
      /\ DOMAIN users' = 1 .. k
  <2>1. /\ users' \in Seq(User) /\ Len(users') = k /\ users'[k] = new
        /\ \A i \in 1 .. k - 1 : users'[i] = users[i]
    BY <1>3, <1>4, AppendProperties
  <2> QED
    BY <2>1
<1>6. /\ held' \in Seq([Role -> Int]) /\ Len(held') = k /\ held'[k] = first
      /\ \A i \in 1 .. k - 1 : held'[i] = held[i]
  BY <1>3, <1>4, AppendProperties
<1>7. /\ entered' \in Seq(Nat) /\ Len(entered') = k /\ entered'[k] = 0
      /\ \A i \in 1 .. k - 1 : entered'[i] = entered[i]
  BY <1>3, <1>4, AppendProperties
<1>8. 1 .. k = (1 .. k - 1) \cup {k} /\ k \notin 1 .. k - 1
  BY <1>4
<1>9. ASSUME NEW i \in DOMAIN users, NEW r \in Role
      PROVE  held'[i][r] \in Int /\ held[i][r] <= held'[i][r]
  <2>1. PICK v : v = held[i][r]
    OBVIOUS
  <2>2. v \in Int
    <3>1. held[i] \in [Role -> Int]
      BY RowFacts DEF SessionInv
    <3> QED
      BY <2>1, <3>1
  <2>3. held'[i][r] = v
    BY <1>4, <1>6, <2>1
  <2> QED
    BY <2>1, <2>2, <2>3
<1>10. RowsInv'
  <2>1. UsersUnique'
    <3>1. ASSUME ~Memory \/ NamesApart, NEW i \in 1 .. k - 1
          PROVE  users[i].name # n /\ users[i].mail # m
      <4>1. ~NameTaken(n) /\ ~MailTaken(m)
        BY <1>1, <1>3, <3>1 DEF CanCreate, Local
      <4> QED
        BY <1>4, <4>1 DEF NameTaken, MailTaken
    <3>2. ASSUME ~Memory \/ NamesApart, NEW i \in 1 .. k, NEW j \in 1 .. k,
                 users'[i].name = users'[j].name \/ users'[i].mail = users'[j].mail
          PROVE  i = j
      <4>1. CASE i = k
        BY <1>4, <1>5, <1>8, <3>1, <3>2, <4>1
      <4>2. CASE j = k
        BY <1>4, <1>5, <1>8, <3>1, <3>2, <4>2
      <4>3. CASE i \in 1 .. k - 1 /\ j \in 1 .. k - 1
        BY <1>4, <1>5, <3>2, <4>3 DEF SessionInv, RowsInv, UsersUnique, NamesApart
      <4> QED
        BY <1>8, <4>1, <4>2, <4>3
    <3> QED
      BY <1>3, <1>5, <3>2 DEF UsersUnique, NamesApart, Memory, Safe
  <2>2. LoginsKept'
    BY <1>3, <1>4, <1>5, <1>7, <1>8 DEF SessionInv, RowsInv, LoginsKept, Safe
  <2>3. ASSUME NEW i \in 1 .. k
        PROVE  held'[i][users'[i].role] = now /\ \A r \in Role : held'[i][r] <= now
    <3>1. CASE i = k
      <4>1. users'[i].role = Plain /\ held'[i] = first
        BY <1>4, <1>5, <1>6, <3>1
      <4>2. \A r \in Role : first[r] = now \/ first[r] = -1
        BY <1>2
      <4>3. first[Plain] = now
        BY <1>2, <1>4
      <4>4. ASSUME NEW r \in Role
            PROVE  first[r] <= now
        BY <1>4, <4>2
      <4> QED
        BY <4>1, <4>3, <4>4
    <3>2. CASE i \in 1 .. k - 1
      <4>1. i \in DOMAIN users /\ users'[i] = users[i] /\ held'[i] = held[i]
        BY <1>4, <1>5, <1>6, <3>2
      <4>2. held[i][users[i].role] = now /\ \A r \in Role : held[i][r] <= now
        BY <4>1 DEF SessionInv, RowsInv
      <4> QED
        BY <4>1, <4>2
    <3> QED
      BY <1>8, <3>1, <3>2
  <2> QED
    BY <1>3, <1>5, <2>1, <2>2, <2>3 DEF RowsInv
<1>11. TokensInv' /\ tokens' \subseteq Claims
  <2>1. PICK id : id = IdOf(k)
    OBVIOUS
  <2>2. id \in Nat /\ (id # Nobody => id = k)
    BY <1>4, <2>1 DEF IdOf, Nobody
  <2>3. held'[k][Plain] = now
    BY <1>2, <1>4, <1>6
  <2>4. id # Nobody => /\ id \in DOMAIN users'
                       /\ RolesApart => held'[id][Plain] \in Int /\ held'[id][Plain] >= now
    BY <1>4, <1>5, <2>2, <2>3
  <2>5. DOMAIN users \subseteq DOMAIN users' /\ tokens' = tokens \cup Pair(id, Plain)
    BY <1>3, <1>4, <1>5, <1>8, <2>1
  <2> QED
    BY <1>3, <1>4, <1>9, <2>2, <2>4, <2>5, TokensGrow
<1>12. ASSUME NEW d \in Client \ {c}, NEW y, y = req[d]
       PROVE  Local(y)'
  <2>1. Local(y)
    BY <1>12 DEF SessionInv, RequestsInv
  <2>2. NamesApart => y.at \notin AtNames
    <3>1. Apart(req[c], req[d])
      BY DEF SessionInv, RequestsInv
    <3> QED
      BY <1>3, <1>12, <3>1 DEF Apart, AtNames
  <2>3. \A i \in DOMAIN users : i \in DOMAIN users' /\ users'[i] = users[i]
    BY <1>4, <1>5, <1>8
  <2>4. \A i : IdOf(i)' = IdOf(i)
    BY <1>3 DEF IdOf, Memory
  <2>5. /\ Memory' <=> Memory
        /\ NamesApart' <=> NamesApart
        /\ RolesApart' <=> RolesApart
    BY <1>3 DEF Memory, NamesApart, RolesApart, Safe
  <2>6. y.at \in AtNames \cup {"store"} => y.name \in Name /\ y.mail \in Mail
    BY <2>1 DEF Local, AtNames
  <2>7. y.at \in LoggingIn => y.row \in DOMAIN users' /\ y.id = IdOf(y.row)'
    BY <2>1, <2>3, <2>4 DEF Local
  <2>8. y.at = "store" => /\ Memory' /\ y.row \in DOMAIN users' /\ y.id = y.row
                          /\ users'[y.row].name = y.name /\ users'[y.row].mail = y.mail
    BY <2>1, <2>3, <2>5 DEF Local
  <2>9. NamesApart' => y.at \notin {"mail", "create"}
    BY <2>2, <2>5 DEF AtNames
  <2>10. RolesApart' => /\ y.at \in LoggingIn => users'[y.row].role = y.role
                        /\ y.at = "store" => users'[y.row].seen = y.seen
    BY <2>1, <2>3, <2>5 DEF Local
  <2> QED
    BY <2>6, <2>7, <2>8, <2>9, <2>10 DEF Local, LoggingIn, AtNames
<1>13. RequestsInv' /\ req' \in [Client -> Request]
  BY <1>3, <1>12, Resting, RequestsStay DEF SessionInv
<1>14. RowTypes'
  BY <1>3, <1>5, <1>6, <1>7, <1>11, <1>13 DEF SessionInv, RowTypes
<1>15. Outsiders'
  BY <1>3, NoOutsider
<1> QED
  BY <1>10, <1>11, <1>13, <1>14, <1>15 DEF SessionInv

(* A request is served, or a refresh refused. *)
LEMMA ServeKeeps ==
  ASSUME SessionInv, NEW c \in Client, NEW tok, Serve(c, tok)
  PROVE  SessionInv'
<1>1. /\ tok \in tokens /\ tok.typ = "access" /\ tok.exp >= now /\ tokens # {}
      /\ made' \in 0 .. MaxRequests /\ served' = [id |-> tok.id, role |-> tok.role, at |-> now]
      /\ UNCHANGED <<mix, users, now, tokens, req, held, entered>>
  BY ArrivesWithToken DEF Serve
<1>2. now \in Nat /\ tok \in Claims /\ AccessTTL \in Nat
  BY <1>1, SessionsAssumption, TTLAssumption DEF SessionInv, RowTypes
<1>3. RowsInv' /\ \A y : Local(y)' <=> Local(y)
  BY <1>1, RowsStay, LocalStays
<1>4. RequestsInv'
  <2>1. \A y, z : Apart(y, z)' <=> Apart(y, z)
    BY <1>1 DEF Apart, NamesApart, RolesApart, Safe
  <2> QED
    BY <1>1, <1>3, <2>1 DEF SessionInv, RequestsInv
<1>5. TokensInv'
  <2>1. \A u, r, time : Recent(u, r, time)' <=> Recent(u, r, time)
    BY <1>1 DEF Recent, RolesApart, Safe
  <2>2. Recent(tok.id, tok.role, now)
    <3>1. PICK u, r, e : u = tok.id /\ r = tok.role /\ e = tok.exp
      OBVIOUS
    <3>2. Recent(u, r, e) /\ r \in Role /\ e \in Nat /\ e >= now
      BY <1>1, <1>2, <3>1 DEF SessionInv, TokensInv, Claims
    <3>3. ASSUME u # Nobody, RolesApart
          PROVE  held[u][r] + AccessTTL >= now
      <4>1. u \in DOMAIN users /\ held[u][r] + AccessTTL >= e
        BY <3>2, <3>3 DEF Recent
      <4>2. held[u][r] \in Int
        <5>1. held[u] \in [Role -> Int]
          BY <4>1, RowFacts DEF SessionInv
        <5> QED
          BY <3>2, <5>1
      <4> QED
        BY <1>2, <3>2, <4>1, <4>2
    <3> QED
      BY <3>1, <3>2, <3>3 DEF Recent
  <2> QED
    BY <1>1, <2>1, <2>2 DEF SessionInv, TokensInv
<1>6. RowTypes'
  BY <1>1, <1>2 DEF SessionInv, RowTypes, Claims
<1>7. Outsiders'
  BY <1>1, NoOutsider
<1> QED
  BY <1>3, <1>4, <1>5, <1>6, <1>7 DEF SessionInv

LEMMA RefusedKeeps ==
  ASSUME SessionInv, NEW c \in Client, NEW tok, NEW old, RefreshRefused(c, tok, old)
  PROVE  SessionInv'
<1>1. /\ tokens # {} /\ made' \in 0 .. MaxRequests
      /\ UNCHANGED <<mix, users, now, tokens, req, served, held, entered>>
  BY ArrivesWithToken DEF RefreshRefused
<1>2. RowsInv' /\ \A y : Local(y)' <=> Local(y)
  BY <1>1, RowsStay, LocalStays
<1>3. RequestsInv'
  <2>1. \A y, z : Apart(y, z)' <=> Apart(y, z)
    BY <1>1 DEF Apart, NamesApart, RolesApart, Safe
  <2> QED
    BY <1>1, <1>2, <2>1 DEF SessionInv, RequestsInv
<1>4. TokensInv' /\ RowTypes'
  BY <1>1 DEF SessionInv, TokensInv, RowTypes, Recent, RolesApart, Safe
<1>5. Outsiders'
  BY <1>1, NoOutsider
<1> QED
  BY <1>2, <1>3, <1>4, <1>5 DEF SessionInv

(* Time passes: every user has had its role until then. *)
LEMMA TickKeeps ==
  ASSUME SessionInv, Tick
  PROVE  SessionInv'
<1>1. /\ now \in Nat /\ now' = now + 1 /\ now' \in 0 .. MaxTime /\ AccessTTL \in Nat
      /\ UNCHANGED <<mix, users, tokens, req, made, served, entered>>
      /\ held' = [i \in DOMAIN held |-> [held[i] EXCEPT ![users[i].role] = now + 1]]
  BY SessionsAssumption, TTLAssumption DEF SessionInv, RowTypes, Tick
<1>2. /\ Len(users) \in Nat /\ DOMAIN users = 1 .. Len(users)
      /\ DOMAIN held = 1 .. Len(users)
      /\ \A i \in DOMAIN users : held[i] \in [Role -> Int] /\ users[i].role \in Role
      /\ \A i \in DOMAIN users : \A r \in Role : held[i][r] <= now
  BY RowFacts DEF SessionInv, RowTypes, RowsInv
<1>3. ASSUME NEW i \in DOMAIN users
      PROVE  /\ held'[i] \in [Role -> Int] /\ held'[i][users[i].role] = now + 1
             /\ \A r \in Role : held'[i][r] = now + 1 \/ held'[i][r] = held[i][r]
  BY <1>1, <1>2
<1>4. ASSUME NEW i \in DOMAIN users, NEW r \in Role
      PROVE  held'[i][r] \in Int /\ held[i][r] <= held'[i][r] /\ held'[i][r] <= now + 1
  <2>1. PICK v : v = held[i][r]
    OBVIOUS
  <2>2. v \in Int /\ v <= now /\ (held'[i][r] = v \/ held'[i][r] = now + 1)
    BY <1>2, <1>3, <2>1
  <2> QED
    BY <1>1, <2>1, <2>2
<1>5. held' \in Seq([Role -> Int]) /\ Len(held') = Len(users)
  <2>1. held' \in [1 .. Len(users) -> [Role -> Int]]
    BY <1>1, <1>2, <1>3
  <2> QED
    BY <1>2, <2>1, SameLength
<1>6. RowsInv'
  <2>1. UsersUnique' /\ LoginsKept'
    BY <1>1 DEF SessionInv, RowsInv, UsersUnique, LoginsKept, Memory, Safe
  <2>2. ASSUME NEW i \in DOMAIN users'
        PROVE  /\ held'[i][users'[i].role] = now'
               /\ \A r \in Role : held'[i][r] <= now'
    <3>1. users' = users /\ now' = now + 1 /\ i \in DOMAIN users
      BY <1>1, <2>2
    <3>2. held'[i][users[i].role] = now + 1
      BY <1>3, <3>1
    <3>3. \A r \in Role : held'[i][r] <= now + 1
      BY <1>4, <3>1
    <3> QED
      BY <3>1, <3>2, <3>3
  <2> QED
    BY <2>1, <2>2 DEF RowsInv
<1>7. RequestsInv'
  <2>1. \A y, z : Apart(y, z)' <=> Apart(y, z)
    BY <1>1 DEF Apart, NamesApart, RolesApart, Safe
  <2>2. \A y : Local(y)' <=> Local(y)
    BY <1>1, LocalStays
  <2> QED
    BY <1>1, <2>1, <2>2 DEF SessionInv, RequestsInv
<1>8. TokensInv'
  <2>1. PICK id, r : id = Nobody /\ r = Plain
    OBVIOUS
  <2>2. id \in Nat /\ r \in Role
    BY <2>1 DEF Nobody, Plain, Role, Guest, Admin
  <2> QED
    BY <1>1, <1>4, <2>1, <2>2, TokensGrow
<1>9. RowTypes'
  BY <1>1, <1>5 DEF SessionInv, RowTypes
<1>10. Outsiders'
  BY <1>1 DEF SessionInv, Outsiders, Moves
<1> QED
  BY <1>6, <1>7, <1>8, <1>9, <1>10 DEF SessionInv

LEMMA SessionRests == SessionInv /\ UNCHANGED sessionVars /\ mix' = mix => SessionInv'
<1> SUFFICES ASSUME SessionInv, UNCHANGED sessionVars, mix' = mix
             PROVE  SessionInv'
  OBVIOUS
<1>1. UNCHANGED <<mix, users, now, tokens, req, made, served, held, entered>>
  BY DEF sessionVars
<1>2. RowsInv' /\ \A y : Local(y)' <=> Local(y)
  BY <1>1, RowsStay, LocalStays
<1>3. RequestsInv'
  <2>1. \A y, z : Apart(y, z)' <=> Apart(y, z)
    BY <1>1 DEF Apart, NamesApart, RolesApart, Safe
  <2> QED
    BY <1>1, <1>2, <2>1 DEF SessionInv, RequestsInv
<1>4. TokensInv' /\ RowTypes' /\ Outsiders'
  BY <1>1 DEF SessionInv, TokensInv, RowTypes, Recent, RolesApart, Safe, Outsiders, Moves
<1> QED
  BY <1>2, <1>3, <1>4 DEF SessionInv

LEMMA SessionKept == SessionInv /\ [Next]_vars => SessionInv'
<1> SUFFICES ASSUME SessionInv, [Next]_vars
             PROVE  SessionInv'
  OBVIOUS
<1>1. CASE UNCHANGED sessionVars
  BY <1>1, SessionSteps, SessionRests
<1>2. CASE SessionsNext
  <2>1. ASSUME NEW c \in Client, NEW tok,
               \/ \E n \in Name, m \in Mail : Register(c, tok, n, m)
               \/ \E i \in DOMAIN users : Login(c, tok, i)
        PROVE  SessionInv'
    BY <2>1, RegisterKeeps, LoginKeeps
  <2>2. ASSUME NEW c \in Client, NEW tok,
               \/ \E old \in tokens : Refresh(c, tok, old) \/ RefreshRefused(c, tok, old)
               \/ \E i \in DOMAIN users, r \in NewRole : LoadUser(c, tok, i, r)
               \/ Serve(c, tok)
        PROVE  SessionInv'
    BY <2>2, RefreshKeeps, RefusedKeeps, LoadKeeps, ServeKeeps
  <2>3. ASSUME NEW c \in Client,
               \/ CheckName(c) \/ CheckMail(c) \/ CreateUser(c) \/ CreateFails(c)
               \/ StampLogin(c) \/ IssueTokens(c) \/ StoreUser(c)
        PROVE  SessionInv'
    BY <2>3, CheckKeeps, CreateKeeps, StampKeeps, IssueKeeps, StoreKeeps
  <2>4. CASE Tick
    BY <2>4, TickKeeps
  <2> QED
    BY <1>2, <2>1, <2>2, <2>3, <2>4 DEF SessionsNext
<1> QED
  BY <1>1, <1>2, SessionSteps

LEMMA SessionSound ==
  SessionInv => /\ SessionsTypeOK /\ UsersUnique /\ RoleWithinTTL /\ LoginsKept
                /\ FirstTokenFromOutside
<1> SUFFICES ASSUME SessionInv
             PROVE  /\ SessionsTypeOK /\ UsersUnique /\ RoleWithinTTL /\ LoginsKept
                    /\ FirstTokenFromOutside
  OBVIOUS
<1>1. SessionsTypeOK
  BY DEF SessionInv, RowTypes, SessionsTypeOK
<1>2. RoleWithinTTL
  BY DEF SessionInv, TokensInv, Recent, RoleWithinTTL, RolesApart
<1>3. UsersUnique /\ LoginsKept /\ FirstTokenFromOutside
  BY DEF SessionInv, RowsInv, Outsiders, FirstTokenFromOutside
<1> QED
  BY <1>1, <1>2, <1>3

(* Who gets in: two users never share a name or an address and a login is  *)
(* never set back, unless the handlers overlap that way; a request is      *)
(* served in a role that its user had within the life of an access token;  *)
(* and the limiter lets no more through than it promises, and whoever      *)
(* waits as long as it says.                                               *)
THEOREM AccessHolds == Spec => []AccessSound
<1>1. SessionInv /\ LimiterInv => AccessSound
  BY SessionSound, LimiterSound DEF AccessSound
<1>2. Init => SessionInv /\ LimiterInv
  BY SessionAtFirst, LimiterAtFirst DEF Init
<1>3. SessionInv /\ LimiterInv /\ [Next]_vars => (SessionInv /\ LimiterInv)'
  BY SessionKept, LimiterKept
<1> QED
  BY <1>1, <1>2, <1>3, PTL DEF Spec
=============================================================================
