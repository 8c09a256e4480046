------------------------------ MODULE Payroll ------------------------------
(***************************************************************************)
(* Payroll (accounting/payroll.rs) of the current pay period, the only one *)
(* that is ever created.  Changes of employees take the processor mutably; *)
(* a task of the agent is one step, as the orchestrator holds the agent.   *)
(*                                                                         *)
(* Wages are whole dollars; withholdings, and what is posted, count        *)
(* 1/2000 of a dollar, which makes every rate of the code an integer.      *)
(***************************************************************************)
EXTENDS Posting, FiniteSetsExt

CONSTANTS
    Employees,      \* identities of employees, each with a number of its own
    Rate,           \* hourly wage of each, an even number of dollars
    FederalRate, StateRate, LocalRate,      \* by filing status, in 1/2000
    FederalAllowances, StateAllowances,
    Shifts,         \* time entries: regular and overtime hours
    MaxHours        \* bound: the hours recorded for an employee

ASSUME PayrollAssumption ==
    /\ Employees \subseteq Documents
    /\ \A e \in Employees :
        /\ Rate[e] \in Nat /\ Rate[e] % 2 = 0
        /\ FederalRate[e] \in {240, 260, 300} /\ StateRate[e] \in {80, 90, 100}
        /\ LocalRate[e] \in {16, 18, 20}
        /\ FederalAllowances[e] \in 0..255 /\ StateAllowances[e] \in 0..255
    /\ Shifts \subseteq [regular : Nat, overtime : Nat] /\ MaxHours \in Nat

VARIABLES
    staff,          \* the employees in the map, with their status
    worked,         \* the hours recorded for the period
    period          \* the status of the pay period

EmploymentStatus == {"Active", "OnLeave", "Terminated", "Retired"}

Gross(e) == worked[e].regular * Rate[e] + worked[e].overtime * ((3 * Rate[e]) \div 2)

WageBaseLimit == 160200
AdditionalThreshold == 200000

TaxAccounts == {FederalTax, StateTax, Accrued, SocialSecurity, Medicare, Retirement}

\* calculate_payroll: an allowance may exceed the gross pay, and make the
\* tax negative.
Withheld(e) ==
    LET g == Gross(e) IN
    [a \in TaxAccounts |->
        CASE a = FederalTax     -> FederalRate[e] * (g - 100 * FederalAllowances[e])
          [] a = StateTax       -> StateRate[e] * (g - 50 * StateAllowances[e])
          [] a = Accrued        -> LocalRate[e] * g
          [] a = SocialSecurity -> 124 * Min({g, WageBaseLimit})
          [] a = Medicare       -> 29 * g + 18 * Max({0, g - AdditionalThreshold})
          [] a = Retirement     -> 100 * g]

NetPay(e) == 2000 * Gross(e) - SumFunction(Withheld(e))

\* Mutated form of PayEntry: negative withholdings are posted as well.
PayEntrySigned(e) ==
    LET tax == Withheld(e)
    IN  Plus([a \in TaxAccounts |-> -tax[a]],
             Plus(Entry(Salaries, 2000 * Gross(e)), Entry(Cash, -NetPay(e))))

\* generate_payroll_transactions: only positive withholdings get an entry.
PayEntry(e) ==
    LET tax == Withheld(e)
    IN  Plus([a \in {b \in TaxAccounts : tax[b] > 0} |-> -tax[a]],
             Plus(Entry(Salaries, 2000 * Gross(e)), Entry(Cash, -NetPay(e))))

PayrollInit ==
    /\ staff = [e \in {} |-> ""]
    /\ worked = [e \in Employees |-> [regular |-> 0, overtime |-> 0]]
    /\ period = "Open"

CreateEmployee(e) ==
    /\ e \notin DOMAIN staff
    /\ staff' = Insert(staff, e, "Active")
    /\ UNCHANGED <<worked, period, net>>

UpdateEmployee(e, status) ==
    /\ status # staff[e]
    /\ staff' = [staff EXCEPT ![e] = status]
    /\ UNCHANGED <<worked, period, net>>

\* The time entries stay.
DeleteEmployee(e) ==
    /\ staff' = [f \in DOMAIN staff \ {e} |-> staff[f]]
    /\ UNCHANGED <<worked, period, net>>

RecordTime(e, shift) ==
    /\ worked[e].regular + worked[e].overtime
        + shift.regular + shift.overtime <= MaxHours
    /\ worked' = [worked EXCEPT ![e] = [regular  |-> @.regular + shift.regular,
                                        overtime |-> @.overtime + shift.overtime]]
    /\ UNCHANGED <<staff, period, net>>

\* Every employee of S is paid, unless the ledger refuses the transaction.
PaidTo(S) ==
    [d \in Documents |-> IF d \in S /\ Accepted(PayEntry(d))
                         THEN Plus(net[d], PayEntry(d)) ELSE net[d]]

\* A task for one employee, whatever the employee's status.
PayOne(e) ==
    /\ net' = PaidTo({e})
    /\ UNCHANGED <<staff, worked, period>>

\* A task for all; the period may have been processed before.
PayAll ==
    /\ net' = PaidTo({e \in DOMAIN staff : staff[e] = "Active"})
    /\ period' = "Processed"
    /\ UNCHANGED <<staff, worked>>

PayrollNext ==
    \/ \E e \in Employees : CreateEmployee(e)
    \/ \E e \in DOMAIN staff :
          \/ \E status \in EmploymentStatus : UpdateEmployee(e, status)
          \/ DeleteEmployee(e)
          \/ \E shift \in Shifts : RecordTime(e, shift)
          \/ PayOne(e)
    \/ PayAll

PayrollType ==
    /\ DOMAIN staff \subseteq Employees
    /\ \A e \in DOMAIN staff : staff[e] \in EmploymentStatus
    /\ worked \in [Employees -> [regular : Nat, overtime : Nat]]
    /\ period \in {"Open", "Processed"}

=============================================================================
