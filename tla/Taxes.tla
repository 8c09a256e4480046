------------------------------- MODULE Taxes -------------------------------
(***************************************************************************)
(* The tax calculator of accounting/tax.rs: jurisdictions with their index *)
(* by code, calculations, and filings.  Each call takes the calculator by  *)
(* `&mut self`, or only reads it: a call is a step.  Callers hold copies   *)
(* of filings between two calls.                                           *)
(***************************************************************************)
EXTENDS Parts, Integers, Sequences, FiniteSets, SequencesExt

CONSTANTS
  Jurisdiction, \* ids
  Code,         \* codes, those of the default jurisdictions among them
  Defaults,     \* the code of each default jurisdiction's id
  RateTable,    \* what jurisdictions may be given: rates, brackets
  TaxKind,      \* types of tax
  Income,       \* the amounts that are taxed, 0 to Income
  FilingId,
  MaxTaxCalls   \* bound: the calls on jurisdictions and filings

(* Rates are per mille; a bracket without an upper bound has upper = -1.   *)
TaxBracket == [lower : Nat, upper : Nat \cup {-1}, rate : Nat]

ASSUME TaxAssumption ==
  /\ DOMAIN Defaults \subseteq Jurisdiction /\ Range(Defaults) \subseteq Code
  /\ \A x, y \in DOMAIN Defaults : Defaults[x] = Defaults[y] => x = y
  /\ \A t \in RateTable : t.brackets \in Seq(TaxBracket) /\ DOMAIN t.rates \subseteq TaxKind
  /\ \E t \in RateTable : t.brackets = << >>
  /\ Income \in Nat /\ MaxTaxCalls \in Nat

VARIABLES
  jurisdictions,       \* id -> code and table, of those there are
  jurisdictionsByCode, \* code -> id
  filings,             \* id -> status, payment
  copies,              \* copies of filings that callers hold
  paid,                \* the filings that were paid, and not deleted since (history)
  taxCalls

taxVars == <<jurisdictions, jurisdictionsByCode, filings, copies, paid, taxCalls>>

None == -1

-----------------------------------------------------------------------------
(* calculate_progressive_tax: of each bracket the part of the amount that   *)
(* lies in it.                                                             *)

(* Mutant: the whole amount in the highest bracket it reaches. *)
InBracketFlat(b, amount) == IF amount <= b.lower THEN 0 ELSE amount

InBracket(b, amount) ==
  IF amount <= b.lower THEN 0
  ELSE IF b.upper # None /\ amount > b.upper THEN b.upper - b.lower
  ELSE amount - b.lower

ProgressiveTax(brackets, amount) ==
  SumFunction([i \in DOMAIN brackets |-> InBracket(brackets[i], amount) * brackets[i].rate])

(* calculate_tax: brackets count before rates, whatever the type of tax;    *)
(* None: refused, for want of a jurisdiction or a rate.                     *)
CalculateTax(code, kind, amount) ==
  IF \/ code \notin DOMAIN jurisdictionsByCode
     \/ jurisdictionsByCode[code] \notin DOMAIN jurisdictions
  THEN None
  ELSE LET table == jurisdictions[jurisdictionsByCode[code]].table IN
       IF table.brackets # << >> THEN ProgressiveTax(table.brackets, amount)
       ELSE IF kind \in DOMAIN table.rates THEN amount * table.rates[kind]
       ELSE None

-----------------------------------------------------------------------------
(* create_jurisdiction: its id, a new one, comes with it. *)
CreateJurisdiction(id, code, table) ==
  /\ id \notin DOMAIN jurisdictions
  /\ code \notin DOMAIN jurisdictionsByCode
  /\ jurisdictions' = Put(jurisdictions, id, [code |-> code, table |-> table])
  /\ jurisdictionsByCode' = Put(jurisdictionsByCode, code, id)
  /\ UNCHANGED <<filings, copies, paid>>

(* Mutant: the former code stays in the index. *)
RecodedAlso(id, code) == Put(jurisdictionsByCode, code, id)

(* The index after a jurisdiction that exists gets a code of its own. *)
Recoded(id, code) == Put(Without(jurisdictionsByCode, jurisdictions[id].code), code, id)

(* update_jurisdiction: an id that does not exist is inserted, and its code *)
(* is neither checked nor indexed.                                         *)
UpdateJurisdiction(id, code, table) ==
  /\ IF id \in DOMAIN jurisdictions
       THEN IF jurisdictions[id].code = code
              THEN UNCHANGED jurisdictionsByCode
              ELSE /\ code \notin DOMAIN jurisdictionsByCode
                   /\ jurisdictionsByCode' = Recoded(id, code)
       ELSE Risk("unknown_id") /\ UNCHANGED jurisdictionsByCode
  /\ jurisdictions' = Put(jurisdictions, id, [code |-> code, table |-> table])
  /\ UNCHANGED <<filings, copies, paid>>

(* Mutant: the code stays taken. *)
UncodedNot(id) == jurisdictionsByCode

Uncoded(id) == Without(jurisdictionsByCode, jurisdictions[id].code)

(* delete_jurisdiction: the code goes, whoever it leads to. *)
DeleteJurisdiction(id) ==
  /\ id \in DOMAIN jurisdictions
  /\ jurisdictions' = Without(jurisdictions, id)
  /\ jurisdictionsByCode' = Uncoded(id)
  /\ UNCHANGED <<filings, copies, paid>>

(* create_default_jurisdictions, by initialize: it stops at the first code  *)
(* that is taken, so that a second initialize adds nothing.                 *)
TaxesInitialized ==
  [jurisdictions |-> [id \in DOMAIN Defaults |->
     [code |-> Defaults[id], table |-> CHOOSE t \in RateTable : t.brackets = << >>]],
   byCode |-> [c \in Range(Defaults) |-> CHOOSE id \in DOMAIN Defaults : Defaults[id] = c]]

-----------------------------------------------------------------------------
NewFiling == [status |-> "not started", payment |-> FALSE]

CreateFiling(f) ==
  /\ f \notin DOMAIN filings
  /\ filings' = Put(filings, f, NewFiling)
  /\ UNCHANGED <<jurisdictions, jurisdictionsByCode, copies, paid>>

(* get_filing, by a caller that will update it. *)
GetFiling(f) ==
  /\ f \in DOMAIN filings
  /\ copies' = copies \cup {[id |-> f, filing |-> filings[f]]}
  /\ UNCHANGED <<jurisdictions, jurisdictionsByCode, filings, paid>>

(* update_filing: the caller's copy, with a status of its choice, is put in *)
(* whether the filing exists or has changed since.                          *)
UpdateFiling(c, status) ==
  /\ c \in copies
  /\ \/ c.id \in DOMAIN filings /\ filings[c.id] = c.filing
     \/ Risk("stale_copy")
  /\ filings' = Put(filings, c.id, [c.filing EXCEPT !.status = status])
  /\ copies' = copies \ {c}
  /\ UNCHANGED <<jurisdictions, jurisdictionsByCode, paid>>

DeleteFiling(f) ==
  /\ f \in DOMAIN filings
  /\ filings' = Without(filings, f)
  /\ paid' = paid \ {f}
  /\ UNCHANGED <<jurisdictions, jurisdictionsByCode, copies>>

(* Mutant: filing anew forgets the payment. *)
FiledAnew(filing) == [NewFiling EXCEPT !.status = "filed"]

Filed(filing) == [filing EXCEPT !.status = "filed"]

MarkAsFiled(f) ==
  /\ f \in DOMAIN filings
  /\ filings' = [filings EXCEPT ![f] = Filed(@)]
  /\ UNCHANGED <<jurisdictions, jurisdictionsByCode, copies, paid>>

(* mark_as_paid: whatever the status was; nothing is posted to the ledger. *)
MarkAsPaid(f) ==
  /\ f \in DOMAIN filings
  /\ filings' = [filings EXCEPT ![f] = [status |-> "paid", payment |-> TRUE]]
  /\ paid' = paid \cup {f}
  /\ UNCHANGED <<jurisdictions, jurisdictionsByCode, copies>>

TaxesInit ==
  /\ jurisdictions = TaxesInitialized.jurisdictions
  /\ jurisdictionsByCode = TaxesInitialized.byCode
  /\ filings = [f \in {} |-> NewFiling]
  /\ copies = {} /\ paid = {}
  /\ taxCalls = 0

TaxesNext ==
  /\ Moves("taxes")
  /\ taxCalls < MaxTaxCalls
  /\ taxCalls' = taxCalls + 1
  /\ UNCHANGED mix
  /\ \/ \E id \in Jurisdiction, code \in Code, table \in RateTable :
          CreateJurisdiction(id, code, table) \/ UpdateJurisdiction(id, code, table)
     \/ \E id \in Jurisdiction : DeleteJurisdiction(id)
     \/ \E f \in FilingId :
          CreateFiling(f) \/ GetFiling(f) \/ DeleteFiling(f) \/ MarkAsFiled(f) \/ MarkAsPaid(f)
     \/ \E c \in copies : \E status \in {"in progress", "cancelled"} : UpdateFiling(c, status)

TaxesTypeOK ==
  /\ DOMAIN jurisdictions \subseteq Jurisdiction /\ DOMAIN jurisdictionsByCode \subseteq Code
  /\ \A id \in DOMAIN jurisdictions :
       jurisdictions[id].code \in Code /\ jurisdictions[id].table \in RateTable
  /\ DOMAIN filings \subseteq FilingId /\ paid \subseteq FilingId

-----------------------------------------------------------------------------
(* A jurisdiction is found under its code and under no other, so that no    *)
(* two have the same; unless an unknown one was updated.                   *)
CodesAgree ==
  Safe({"unknown_id"}) =>
    /\ \A id \in DOMAIN jurisdictions :
         /\ jurisdictions[id].code \in DOMAIN jurisdictionsByCode
         /\ jurisdictionsByCode[jurisdictions[id].code] = id
    /\ \A c \in DOMAIN jurisdictionsByCode :
         /\ jurisdictionsByCode[c] \in DOMAIN jurisdictions
         /\ jurisdictions[jurisdictionsByCode[c]].code = c

Contiguous(brackets) ==
  /\ brackets[1].lower = 0
  /\ \A i \in DOMAIN brackets :
       IF i = Len(brackets) THEN brackets[i].upper = None
       ELSE brackets[i].upper = brackets[i + 1].lower /\ brackets[i].lower < brackets[i].upper

RateAt(brackets, unit) ==
  LET i == CHOOSE i \in DOMAIN brackets :
             /\ brackets[i].lower < unit
             /\ brackets[i].upper = None \/ unit <= brackets[i].upper
  IN brackets[i].rate

(* With brackets that follow each other, each unit of an amount is taxed    *)
(* once, at the rate of its bracket: the tax on one unit more is higher by  *)
(* that rate, also at a bound.                                             *)
EachUnitTaxedOnce ==
  \A c \in DOMAIN jurisdictionsByCode, kind \in TaxKind :
    LET tax(n) == CalculateTax(c, kind, n)
        brackets == jurisdictions[jurisdictionsByCode[c]].table.brackets
    IN (tax(0) # None /\ brackets # << >> /\ Contiguous(brackets)) =>
         /\ tax(0) = 0
         /\ \A n \in 1..Income : tax(n) - tax(n - 1) = RateAt(brackets, n)

(* The record of a payment is kept, whatever is done to the filing, unless  *)
(* a copy from before the payment is written back.                         *)
PaymentsKept ==
  Safe({"stale_copy"}) => \A f \in paid : f \in DOMAIN filings /\ filings[f].payment
=============================================================================
