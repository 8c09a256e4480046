------------------------------- MODULE Books -------------------------------
(***************************************************************************)
(* What a ledger promises to those who post to it: a transaction is taken  *)
(* up at one moment, wholly, once, under the next number, and only if it   *)
(* balances and all its accounts are open and active.                      *)
(***************************************************************************)
EXTENDS Accounting

CONSTANT Active        \* the accounts that are active when they are opened

VARIABLES
    books,     \* the open accounts, each with its balance and status
    posted,    \* the number of each posted transaction
    next       \* the next number

Opened(a) == [balance |-> 0, active |-> a \in Active]

Init ==
    /\ \E S \in SUBSET Accounts : books = [a \in S |-> Opened(a)]
    /\ posted = [t \in {} |-> 0]
    /\ next = 1

Open(a) ==
    /\ a \notin DOMAIN books
    /\ books' = Insert(books, a, Opened(a))
    /\ UNCHANGED <<posted, next>>

Post(t) ==
    /\ t \notin DOMAIN posted
    /\ IsBalanced(t)
    /\ \A a \in Mentioned(t) : a \in DOMAIN books /\ books[a].active
    /\ books' = [a \in DOMAIN books |->
                    [books[a] EXCEPT !.balance = @ + Change(t, a)]]
    /\ posted' = Insert(posted, t, next)
    /\ next' = next + 1

Next == (\E a \in Accounts : Open(a)) \/ (\E t \in Txns : Post(t))

Spec == Init /\ [][Next]_<<books, posted, next>>

=============================================================================
