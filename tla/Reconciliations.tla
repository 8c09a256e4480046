-------------------------- MODULE Reconciliations --------------------------
(***************************************************************************)
(* The reconciliation processor of accounting/reconciliation.rs: statement *)
(* lines matched with the ledger's transactions, and the reconciliations   *)
(* made of the matches.  Its agent holds a mutex for a whole task, and the *)
(* other calls take the processor by `&mut self`: a call is a step.        *)
(***************************************************************************)
EXTENDS Parts, Integers, Sequences, FiniteSets, FiniteSetsExt, SequencesExt

CONSTANTS
  Bank,       \* the accounts that are reconciled
  Statement,  \* names of the statements that arrive
  StatementOf,\* what is in each: account, day, start, end, lines
  Book,       \* the ledger's transactions: a sequence, ordered by their ids
  MaxCalls    \* bound: the calls on reconciliations

(* Amounts are in cents.  A description is the set of its words, all of    *)
(* them longer than three letters; "" is an empty reference.               *)
IsLine(l) ==
  /\ l.cents \in Nat /\ l.sign \in {1, -1} /\ l.day \in Nat
  /\ DOMAIN l = {"cents", "sign", "words", "reference", "day"}

ASSUME ReconciliationAssumption ==
  /\ \A s \in Statement :
       /\ StatementOf[s].account \in Bank /\ StatementOf[s].day \in Nat
       /\ StatementOf[s].start \in Int /\ StatementOf[s].end \in Int
       /\ StatementOf[s].lines \in Seq(Range(StatementOf[s].lines))
       /\ \A l \in Range(StatementOf[s].lines) : IsLine(l)
  /\ Book \in Seq(Range(Book))
  /\ \A t \in Range(Book) : t.cents \in Nat /\ t.day \in Nat
  /\ \A i, j \in DOMAIN Book : Book[i].id = Book[j].id => i = j
  /\ MaxCalls \in Nat

VARIABLES
  recons,    \* reconciliations: id -> reconciliation, of those there are
  ofAccount, \* reconciliations_by_account: their ids, in order
  matches,   \* of each reconciliation: pairs of statement line and
             \* transaction, and the statement they are of (history)
  reconCalls

reconVars == <<recons, ofAccount, matches, reconCalls>>

BookIds == {Book[i].id : i \in DOMAIN Book}
BookOf(id) == CHOOSE t \in Range(Book) : t.id = id

-----------------------------------------------------------------------------
(* match_transactions.                                                     *)

Tolerance == 1 \* cents

Apart(l, t) == IF l.cents >= t.cents THEN l.cents - t.cents ELSE t.cents - l.cents

AmountScore(l, t) == IF Apart(l, t) = 0 THEN 100 ELSE 80

DescriptionScore(l, t) ==
  IF l.words = {} \/ t.words = {} THEN 0
  ELSE IF l.words = t.words THEN 50
  ELSE IF l.words \subseteq t.words \/ t.words \subseteq l.words THEN 30
  ELSE IF l.words \cap t.words # {} THEN 15
  ELSE 0

ReferenceScore(l, t) ==
  IF l.reference = "" THEN 0
  ELSE IF l.reference \in t.entryReferences THEN 40
  ELSE IF l.reference = t.number \/ l.reference \in t.words THEN 30
  ELSE 0

DateScore(l, t) ==
  LET apart == IF l.day >= t.day THEN l.day - t.day ELSE t.day - l.day IN
  IF apart = 0 THEN 20 ELSE IF apart <= 3 THEN 10 ELSE IF apart <= 7 THEN 5 ELSE 0

Score(l, t) ==
  AmountScore(l, t) + DescriptionScore(l, t) + ReferenceScore(l, t) + DateScore(l, t)

(* Mutant: a transaction may be matched twice. *)
CandidatesAll(l, taken) == {i \in DOMAIN Book : Apart(l, Book[i]) <= Tolerance}

(* Mutant: amounts that are equal only. *)
CandidatesExact(l, taken) ==
  {i \in DOMAIN Book : Book[i].id \notin taken /\ Apart(l, Book[i]) = 0}

(* The positions of the transactions a line can be matched with. *)
Candidates(l, taken) ==
  {i \in DOMAIN Book : Book[i].id \notin taken /\ Apart(l, Book[i]) <= Tolerance}

(* Mutant: the latest of the candidates. *)
BestLast(l, among) == CHOOSE i \in among : \A j \in among : j <= i

(* The best of the candidates: the first of the highest score. *)
Best(l, among) ==
  CHOOSE i \in among : \A j \in among :
    \/ Score(l, Book[i]) > Score(l, Book[j])
    \/ Score(l, Book[i]) = Score(l, Book[j]) /\ i <= j

Matched(pairs) == {p.id : p \in pairs}

(* Line by line, each with the best transaction that is left. *)
MatchTransactions(lines) ==
  LET upTo[n \in 0 .. Len(lines)] ==
        IF n = 0 THEN {}
        ELSE LET pairs == upTo[n - 1]
                 among == Candidates(lines[n], Matched(pairs))
             IN IF among = {} THEN pairs
                ELSE pairs \cup {[line |-> n, id |-> Book[Best(lines[n], among)].id]}
  IN upTo[Len(lines)]

-----------------------------------------------------------------------------
(* create_reconciliation: refused when the account has one of that day.     *)
Exists(account, day) ==
  \E i \in DOMAIN ofAccount[account] :
    /\ ofAccount[account][i] \in DOMAIN recons
    /\ recons[ofAccount[account][i]].day = day

(* Mutant: the reconciliation is not indexed under its account. *)
IndexedNot(id, account) == ofAccount

Indexed(id, account) == [ofAccount EXCEPT ![account] = Append(@, id)]

(* Mutant: less what the statement says. *)
DifferenceSwapped(end, ending) == ending - end

Difference(end, ending) == end - ending

(* A reconciliation with what a statement says. *)
New(s, ending, reconciled, outstanding, status) ==
  [account |-> s.account, day |-> s.day, start |-> s.start, ending |-> ending, end |-> s.end,
   reconciled |-> reconciled, outstanding |-> outstanding,
   difference |-> Difference(s.end, ending), status |-> status]

WithRecon(id, r) == [x \in DOMAIN recons \cup {id} |-> IF x = id THEN r ELSE recons[x]]
NextRecon == Max({0} \cup {m.recon : m \in matches} \cup DOMAIN recons) + 1

(* ReconcileAccount with an account: its balance, today. *)
CreateReconciliation(account, day) ==
  LET s == [account |-> account, day |-> day, start |-> 0, end |-> 0] IN
  /\ ~Exists(account, day)
  /\ recons' = WithRecon(NextRecon, New(s, 0, {}, {}, "in progress"))
  /\ ofAccount' = Indexed(NextRecon, account)
  /\ UNCHANGED matches

SignedSum(lines, ns) == SumFunction([n \in ns |-> lines[n].sign * lines[n].cents])

(* Mutant: the lines without a match are counted as well. *)
EndingWithAll(s, pairs) == s.start + SignedSum(s.lines, DOMAIN s.lines)

Ending(s, pairs) == s.start + SignedSum(s.lines, {p.line : p \in pairs})

(* reconcile_account. *)
ReconcileAccount(name) ==
  LET s == StatementOf[name]
      pairs == MatchTransactions(s.lines)
      ending == Ending(s, pairs)
  IN /\ ~Exists(s.account, s.day)
     /\ recons' = WithRecon(NextRecon,
          New(s, ending, Matched(pairs), BookIds \ Matched(pairs),
              IF s.end = ending THEN "completed" ELSE "needs review"))
     /\ ofAccount' = Indexed(NextRecon, s.account)
     /\ matches' = matches \cup {[recon |-> NextRecon, statement |-> name, pairs |-> pairs]}

(* auto_match: nothing but the status. *)
AutoMatch(id) ==
  /\ recons' = [recons EXCEPT ![id] = [@ EXCEPT !.status = "needs review"]]
  /\ UNCHANGED <<ofAccount, matches>>

(* Mutant: it stays among the outstanding ones. *)
ReconciledAlso(r, t) == [r EXCEPT !.reconciled = @ \cup {t}]

Reconciled(r, t) ==
  LET marked == [r EXCEPT !.reconciled = @ \cup {t}] IN [marked EXCEPT !.outstanding = @ \ {t}]

Unreconciled(r, t) ==
  LET unmarked == [r EXCEPT !.reconciled = @ \ {t}] IN [unmarked EXCEPT !.outstanding = @ \cup {t}]

MarkTransactionReconciled(id, t) ==
  /\ recons' = [recons EXCEPT ![id] = Reconciled(@, t)]
  /\ UNCHANGED <<ofAccount, matches>>

MarkTransactionUnreconciled(id, t) ==
  /\ recons' = [recons EXCEPT ![id] = Unreconciled(@, t)]
  /\ UNCHANGED <<ofAccount, matches>>

(* update_reconciliation by a caller: another account and day, unchecked. *)
UpdateReconciliation(id, account, day) ==
  /\ Risk("edit")
  /\ LET moved == [recons[id] EXCEPT !.account = account]
     IN recons' = [recons EXCEPT ![id] = [moved EXCEPT !.day = day]]
  /\ UNCHANGED <<ofAccount, matches>>

(* Mutant: the id stays in the index. *)
Unindexed(id) == ofAccount

(* The id is taken from the index of the account it has by now. *)
Removed(id) ==
  LET index == ofAccount[recons[id].account]
  IN [ofAccount EXCEPT ![recons[id].account] = Those(index, {i \in DOMAIN index : index[i] # id})]

DeleteReconciliation(id) ==
  /\ recons' = [x \in DOMAIN recons \ {id} |-> recons[x]]
  /\ ofAccount' = Removed(id)
  /\ UNCHANGED matches

ReconciliationInit ==
  /\ recons = [id \in {} |-> 0]
  /\ ofAccount = [a \in Bank |-> << >>]
  /\ matches = {}
  /\ reconCalls = 0

ReconciliationNext ==
  /\ Moves("reconciling")
  /\ reconCalls < MaxCalls
  /\ reconCalls' = reconCalls + 1
  /\ UNCHANGED mix
  /\ \/ \E a \in Bank, name \in Statement : CreateReconciliation(a, StatementOf[name].day)
     \/ \E name \in Statement : ReconcileAccount(name)
     \/ \E id \in DOMAIN recons :
          \/ AutoMatch(id)
          \/ \E t \in BookIds :
               MarkTransactionReconciled(id, t) \/ MarkTransactionUnreconciled(id, t)
          \/ \E a \in Bank, name \in Statement :
               UpdateReconciliation(id, a, StatementOf[name].day)
          \/ DeleteReconciliation(id)

ReconciliationTypeOK ==
  /\ \A id \in DOMAIN recons :
       /\ recons[id].account \in Bank
       /\ recons[id].ending + recons[id].difference = recons[id].end
       /\ recons[id].reconciled \subseteq BookIds /\ recons[id].outstanding \subseteq BookIds
  /\ ofAccount \in [Bank -> Seq(Nat)]
  /\ \A m \in matches : m.statement \in Statement

-----------------------------------------------------------------------------
LinesOf(m) == StatementOf[m.statement].lines

(* No transaction is matched with two lines of a statement. *)
MatchedOnce ==
  \A m \in matches : \A p, q \in m.pairs : p.id = q.id => p = q

(* Nothing that could be matched is left on both sides: a line without a    *)
(* match is more than a cent from each transaction without a match.         *)
NothingLeftToMatch ==
  \A m \in matches : \A n \in DOMAIN LinesOf(m), i \in DOMAIN Book :
    (n \notin {p.line : p \in m.pairs} /\ Book[i].id \notin Matched(m.pairs)) =>
      Apart(LinesOf(m)[n], Book[i]) > Tolerance

(* No transaction that is left would have matched a line better than the    *)
(* one that it has.                                                         *)
NoBetterLeft ==
  \A m \in matches : \A p \in m.pairs, i \in DOMAIN Book :
    (Book[i].id \notin Matched(m.pairs) /\ Apart(LinesOf(m)[p.line], Book[i]) <= Tolerance) =>
      Score(LinesOf(m)[p.line], Book[i]) <= Score(LinesOf(m)[p.line], BookOf(p.id))

(* A statement whose lines add up is not completed by its matching with     *)
(* lines left over, unless these cancel each other.                         *)
CompletedHidesNothing ==
  \A m \in matches :
    LET s == StatementOf[m.statement] IN
    (/\ m.recon \in DOMAIN recons /\ recons[m.recon].status = "completed"
     /\ s.end - s.start = SignedSum(s.lines, DOMAIN s.lines)) =>
      SignedSum(s.lines, DOMAIN s.lines \ {p.line : p \in m.pairs}) = 0

(* Whatever is marked, no transaction of a reconciliation is both           *)
(* reconciled and outstanding.                                              *)
NotBoth == \A id \in DOMAIN recons : recons[id].reconciled \cap recons[id].outstanding = {}

(* An account has one reconciliation a day, and its index lists its         *)
(* reconciliations, each once; unless a caller moves one elsewhere.          *)
OneADay ==
  Safe({"edit"}) =>
    /\ \A x, y \in DOMAIN recons :
         (recons[x].account = recons[y].account /\ recons[x].day = recons[y].day) => x = y
    /\ \A a \in Bank :
         /\ Range(ofAccount[a]) = {id \in DOMAIN recons : recons[id].account = a}
         /\ IsInjective(ofAccount[a])
=============================================================================
