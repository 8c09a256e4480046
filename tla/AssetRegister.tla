--------------------------- MODULE AssetRegister ---------------------------
(***************************************************************************)
(* Fixed assets (accounting/assets.rs): monthly depreciation by one of two *)
(* methods, and disposal.  The calls take the register mutably: a call is  *)
(* one step.  Amounts count the last digit that a Decimal keeps.           *)
(***************************************************************************)
EXTENDS Posting

CONSTANTS
    Assets,         \* identities of assets
    Cost, Salvage, Life, Acquired,   \* data of each asset (Life in months)
    Declining,      \* the assets that are depreciated by declining balance
    Dates,          \* dates, in any order, of depreciations and disposals
    Prices          \* what assets are sold for

ASSUME RegisterAssumption ==
    /\ Assets \subseteq Documents /\ Declining \subseteq Assets
    /\ \A a \in Assets : {Cost[a], Salvage[a], Life[a], Acquired[a]} \subseteq Nat
    /\ Dates \subseteq Nat \ {0} /\ Prices \subseteq Nat

VARIABLE register   \* the assets added: accumulated depreciation, disposal date

NotDisposed == 0

\* A quotient, to the nearest last digit.
Quotient(n, d) == (2 * n + d) \div (2 * d)

BookValue(a) == Cost[a] - register[a].accumulated

\* Mutated form of Monthly: the salvage value does not limit it.
MonthlyUnlimited(a) ==
    IF Life[a] = 0 THEN 0
    ELSE IF a \in Declining THEN Quotient(2 * BookValue(a), Life[a])
    ELSE Quotient(Cost[a] - Salvage[a], Life[a])

\* monthly_depreciation.
Monthly(a) ==
    LET declined == Quotient(2 * BookValue(a), Life[a]) IN
    IF Life[a] = 0 THEN 0
    ELSE IF a \notin Declining THEN Quotient(Cost[a] - Salvage[a], Life[a])
    ELSE IF BookValue(a) - declined < Salvage[a] THEN BookValue(a) - Salvage[a]
    ELSE declined

FullyDepreciated(a) == register[a].accumulated >= Cost[a] - Salvage[a]

\* The assets that compute_monthly_depreciation selects.
Due(date) ==
    {a \in DOMAIN register :
        /\ ~FullyDepreciated(a)
        /\ Acquired[a] <= date
        /\ register[a].disposed # NotDisposed => date <= register[a].disposed
        /\ Monthly(a) > 0}

RegisterInit == register = [a \in {} |-> 0]

AddAsset(a) ==
    /\ a \notin DOMAIN register
    /\ register' = Insert(register, a, [accumulated |-> 0, disposed |-> NotDisposed])
    /\ UNCHANGED net

\* Mutated form of PostDepreciation: it is added up also for assets that are
\* not due at that date.
PostDepreciationToAll(date) ==
    /\ Due(date) # {}
    /\ net' = [d \in Documents |->
                 IF d \in Due(date)
                 THEN Plus(net[d], Transfer(Depreciated, DepreciationExpense, Monthly(d)))
                 ELSE net[d]]
    /\ register' = [a \in DOMAIN register |->
                      [register[a] EXCEPT !.accumulated = @ + Monthly(a)]]

\* One transaction for all assets; the ledger never refuses it.
PostDepreciation(date) ==
    /\ Due(date) # {}
    /\ net' = [d \in Documents |->
                 IF d \in Due(date)
                 THEN Plus(net[d], Transfer(Depreciated, DepreciationExpense, Monthly(d)))
                 ELSE net[d]]
    /\ register' = [a \in DOMAIN register |->
                      IF a \in Due(date)
                      THEN [register[a] EXCEPT !.accumulated = @ + Monthly(a)]
                      ELSE register[a]]

\* The asset leaves the books; what it was sold for beyond its book value is
\* a gain, what is missing a loss.
DisposeAsset(a, price, date) ==
    LET gain == price - BookValue(a)
        sold == Plus(Plus(Entry(Cash, price), Entry(Depreciated, register[a].accumulated)),
                     Entry(FixedAssets, -Cost[a]))
        entry == IF gain > 0 THEN Plus(sold, Entry(Interest, -gain))
                 ELSE IF gain < 0 THEN Plus(sold, Entry(Supplies, -gain)) ELSE sold
    IN  /\ register[a].disposed = NotDisposed
        /\ Accepted(entry)
        /\ Record(a, entry)
        /\ register' = [register EXCEPT ![a].disposed = date]

RegisterNext ==
    \/ \E a \in Assets : AddAsset(a)
    \/ \E date \in Dates : PostDepreciation(date)
    \/ \E a \in DOMAIN register, price \in Prices, date \in Dates :
          DisposeAsset(a, price, date)

RegisterType ==
    /\ DOMAIN register \subseteq Assets
    /\ \A a \in DOMAIN register :
          register[a] \in [accumulated : Nat, disposed : Dates \cup {NotDisposed}]

=============================================================================
