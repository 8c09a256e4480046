------------------------------- MODULE Advice -------------------------------
(***************************************************************************)
(* What the program says of a payment and of a text.                       *)
(*                                                                         *)
(* The detector of anomalies (ai/analysis.rs).  Its caller keeps the       *)
(* history: each payment is added to it and analyzed against it, in the    *)
(* order of entry, which need not be that of the dates.                    *)
(*                                                                         *)
(* The classifier of accounts (ai/classification.rs): keywords in a text   *)
(* choose a category and an account of the default chart; a language       *)
(* model, where it is built in, may answer too; and a name is looked for   *)
(* in a chart of accounts.  Texts are strings in lower case.  Confidences  *)
(* are in thousandths, scores of names in ten-thousandths.  The categories *)
(* are kept in a hash map: which comes first among equals is open.         *)
(***************************************************************************)
EXTENDS Parts, Integers, Sequences, FiniteSets, FiniteSetsExt, Functions

CONSTANTS
  Payee,           \* the vendors' names, and how they are written
  LowerCase,       \* payee -> the name in lower case
  NoPayee,         \* no vendor
  Amount, PayDay,
  DuplicateDays,   \* duplicate_days_window
  VendorDays,      \* unusual_vendor_days
  RoundFrom, Round, \* round_number_threshold, and the multiples looked for
  Deviations,      \* outlier_std_dev_threshold
  MaxPayments      \* bound: the payments

ASSUME AnomalyAssumption ==
  /\ Amount \subseteq Int /\ PayDay \subseteq Nat
  /\ DuplicateDays \in Nat /\ VendorDays \in Nat /\ MaxPayments \in Nat
  /\ DuplicateDays <= VendorDays \* as in AnomalyConfig::default
  /\ Round \in Nat \ {0} /\ Deviations \in Nat

VARIABLES
  history,  \* the transactions, numbered in the order of entry
  anomalies \* what was found of each

anomalyVars == <<history, anomalies>>

-----------------------------------------------------------------------------
SameVendor(t, vendor) == t.vendor # NoPayee /\ LowerCase[t.vendor] = LowerCase[vendor]

ByVendor(h, vendor) == {i \in DOMAIN h : SameVendor(h[i], vendor)}

ByVendorAndDateRange(h, vendor, from, to) ==
  {i \in ByVendor(h, vendor) : from <= h[i].date /\ h[i].date <= to}

(* Mutant: the last day of the window is left out. *)
CheckDuplicateAmountShort(h, i) ==
  /\ h[i].vendor # NoPayee
  /\ \E j \in ByVendorAndDateRange(h, h[i].vendor, h[i].date - DuplicateDays + 1, h[i].date) :
       j # i /\ h[j].amount = h[i].amount

CheckDuplicateAmount(h, i) ==
  /\ h[i].vendor # NoPayee
  /\ \E j \in ByVendorAndDateRange(h, h[i].vendor, h[i].date - DuplicateDays, h[i].date) :
       j # i /\ h[j].amount = h[i].amount

(* Mutant: the payments of the day itself do not count. *)
CheckUnusualVendorBefore(h, i) ==
  /\ h[i].vendor # NoPayee
  /\ ByVendorAndDateRange(h, h[i].vendor, h[i].date - VendorDays, h[i].date - 1) \ {i} = {}

CheckUnusualVendor(h, i) ==
  /\ h[i].vendor # NoPayee
  /\ ByVendorAndDateRange(h, h[i].vendor, h[i].date - VendorDays, h[i].date) \ {i} = {}

CheckRoundNumber(amount) == amount >= RoundFrom /\ amount # 0 /\ amount % Round = 0

(* Above the mean by more than the deviations: with n payments that make    *)
(* `sum`, and whose squares make `squares`, the variance is                *)
(* (n * squares - sum^2) / n^2.                                            *)
OutlierOf(n, sum, squares, amount) ==
  LET above == n * amount - sum
      variance == n * squares - sum * sum
  IN above > 0 /\ variance > 0 /\ above * above > Deviations * Deviations * variance

(* Mutant: what is far below the mean is flagged as well. *)
CheckAmountOutlierBoth(h, i) ==
  LET others == ByVendor(h, h[i].vendor) \ {i}
      sum == SumFunction([j \in others |-> h[j].amount])
      squares == SumFunction([j \in others |-> h[j].amount * h[j].amount])
      n == Cardinality(others)
  IN /\ h[i].vendor # NoPayee
     /\ n >= 2
     /\ \/ OutlierOf(n, sum, squares, h[i].amount)
        \/ OutlierOf(n, -sum, squares, -h[i].amount)

CheckAmountOutlier(h, i) ==
  LET others == ByVendor(h, h[i].vendor) \ {i}
  IN /\ h[i].vendor # NoPayee
     /\ Cardinality(others) >= 2
     /\ OutlierOf(Cardinality(others),
                  SumFunction([j \in others |-> h[j].amount]),
                  SumFunction([j \in others |-> h[j].amount * h[j].amount]),
                  h[i].amount)

(* Days 5 and 6 of a week are Saturday and Sunday. *)
CheckWeekend(date) == date % 7 \in {5, 6}

(* analyze, and analyze_with_llm, to which the model adds nothing. *)
Analyze(h, i) ==
  {kind \in {"DuplicateAmount", "UnusualVendor", "RoundNumber", "AmountOutlier",
             "WeekendTransaction"} :
     CASE kind = "DuplicateAmount" -> CheckDuplicateAmount(h, i)
       [] kind = "UnusualVendor" -> CheckUnusualVendor(h, i)
       [] kind = "RoundNumber" -> CheckRoundNumber(h[i].amount)
       [] kind = "AmountOutlier" -> CheckAmountOutlier(h, i)
       [] kind = "WeekendTransaction" -> CheckWeekend(h[i].date)}

-----------------------------------------------------------------------------
Latest(h) == Max({0} \cup {h[i].date : i \in DOMAIN h})

(* A payment is added and analyzed. *)
Add(t) ==
  /\ Len(history) < MaxPayments
  /\ t.date < Latest(history) => Risk("backdated")
  /\ history' = Append(history, t)
  /\ anomalies' = Append(anomalies, Analyze(history', Len(history')))

AnomalyInit == history = << >> /\ anomalies = << >>

AnomalyNext ==
  /\ Moves("anomalies") /\ UNCHANGED mix
  /\ \E v \in Payee \cup {NoPayee}, a \in Amount, day \in PayDay :
       Add([vendor |-> v, amount |-> a, date |-> day])

AnomalyTypeOK ==
  /\ Len(history) = Len(anomalies)
  /\ \A i \in DOMAIN history :
       history[i] \in [vendor : Payee \cup {NoPayee}, amount : Amount, date : PayDay]

-----------------------------------------------------------------------------
(* Of two equal payments to a vendor within the window, however its name is *)
(* written, one was flagged; unless the later was entered first.           *)
DuplicatesFlagged ==
  Safe({"backdated"}) =>
    \A i, j \in DOMAIN history :
      LET s == history[i]
          t == history[j]
      IN (/\ i < j /\ s.vendor # NoPayee /\ SameVendor(t, s.vendor)
          /\ s.amount = t.amount /\ t.date - s.date <= DuplicateDays) =>
           "DuplicateAmount" \in anomalies[j]

(* What repeats a payment is never to a vendor not seen for long.          *)
RepeatedIsKnown ==
  \A i \in DOMAIN anomalies : ~({"DuplicateAmount", "UnusualVendor"} \subseteq anomalies[i])

(* While there are no more payments to a vendor than the square of the      *)
(* deviations and one, an outlier is above each of them.                   *)
OutliersOnTop ==
  \A i \in DOMAIN anomalies :
    LET others == {j \in 1 .. i - 1 : history[i].vendor # NoPayee
                                      /\ SameVendor(history[j], history[i].vendor)}
    IN ("AmountOutlier" \in anomalies[i]
        /\ Cardinality(others) <= Deviations * Deviations + 1) =>
         \A j \in others : history[j].amount < history[i].amount

-----------------------------------------------------------------------------
(* The classifier.                                                         *)
CONSTANTS
  AccountText,    \* names and descriptions
  Misleading,     \* those among them that hold words of two categories
  LlmAnswer,      \* what the model may say: a category and a confidence
  AccountName, Chart, \* names, and charts: sequences of names
  WordsOf,        \* name -> its words of more than one letter
  MaxSuggestions

VARIABLES
  suggestion, \* the last answer of suggest_category or ..._with_llm
  ranked,     \* that of suggest_account_type, while the text is the same
  matched     \* that of match_existing_account, while only this is called

classifierVars == <<suggestion, ranked, matched>>

-----------------------------------------------------------------------------
Category == {"Asset", "Liability", "Equity", "Revenue", "Expense"}

CategoryKeywords ==
  [Asset |-> {"cash", "bank", "receivable", "inventory", "equipment", "furniture",
     "prepaid", "deposit", "investment", "asset", "petty cash"},
   Liability |-> {"payable", "loan", "mortgage", "tax payable", "accrued", "unearned",
     "debt", "credit card", "payroll liability"},
   Equity |-> {"capital", "equity", "retained earnings", "owner", "drawing",
     "common stock", "dividend"},
   Revenue |-> {"sales", "revenue", "income", "service", "consulting",
     "interest income", "rent income", "commission"},
   Expense |-> {"rent", "utilities", "supplies", "salary", "wage", "payroll",
     "insurance", "depreciation", "advertising", "marketing", "travel", "meals",
     "office", "professional", "legal", "accounting", "maintenance", "repair", "fuel",
     "shipping", "postage", "telephone", "internet", "software", "subscription",
     "training", "dues", "license", "permit", "bank fee", "interest expense",
     "bad debt", "charity", "donation"}]

(* The account number, which stands for the type as well, by what leads to  *)
(* it.                                                                     *)
DefaultAccountMap ==
  [cash |-> 1000, receivable |-> 1020, inventory |-> 1030, prepaid |-> 1040,
   equipment |-> 1100, furniture |-> 1200, investment |-> 1300, deposit |-> 1400,
   payable |-> 2000, accrued |-> 2010, loan |-> 2040, mortgage |-> 2040,
   capital |-> 3000, owner |-> 3000, drawing |-> 3020, dividend |-> 3040,
   sales |-> 4000, service |-> 4010, consulting |-> 4010, commission |-> 4040,
   rent |-> 5000, utilities |-> 5010, salary |-> 5020, wage |-> 5020,
   payroll |-> 5020, supplies |-> 5030, insurance |-> 5040, depreciation |-> 5050,
   office |-> 5060, professional |-> 5070, legal |-> 5070, accounting |-> 5070,
   travel |-> 5090, advertising |-> 5100, marketing |-> 5110, meals |-> 5120,
   maintenance |-> 5130, repair |-> 5130, fuel |-> 5140, shipping |-> 5150,
   postage |-> 5150, telephone |-> 5160, internet |-> 5170, software |-> 5180,
   subscription |-> 5180, training |-> 5190, dues |-> 5200, license |-> 5200,
   permit |-> 5200, charity |-> 5230, donation |-> 5230]
MoreOfTheMap == \* the entries of two words
  {<<"petty cash", 1010>>, <<"accumulated depreciation", 1050>>,
   <<"payroll tax", 2020>>, <<"sales tax", 2030>>, <<"notes payable", 2040>>,
   <<"credit card", 2050>>, <<"retained earnings", 3010>>, <<"common stock", 3030>>,
   <<"interest income", 4020>>, <<"rent income", 4030>>, <<"bank fee", 5080>>,
   <<"interest expense", 5210>>, <<"bad debt", 5220>>}
AccountMap == MoreOfTheMap \cup {<<w, DefaultAccountMap[w]>> : w \in DOMAIN DefaultAccountMap}

CategoryOfNumber(number) ==
  <<"Asset", "Liability", "Equity", "Revenue", "Expense">>[number \div 1000]

TextContains(text, word) ==
  \E i \in 1 .. Len(text) - Len(word) + 1 : SubSeq(text, i, i + Len(word) - 1) = word

LengthsOf(words) == SumFunction([w \in words |-> Len(w)])

KeywordsIn(text, category) ==
  {w \in CategoryKeywords[category] : TextContains(text, w)}

(* score_categories *)
ScoreOf(text, category) == LengthsOf(KeywordsIn(text, category))

Least(a, b) == IF a < b THEN a ELSE b
ConfidenceOf(score) == IF score > 0 THEN Least(500 + 30 * score, 950) ELSE 300

(* Mutant: every keyword counts the same. *)
BestCategoriesByCount(text) ==
  {c \in Category : \A d \in Category :
     Cardinality(KeywordsIn(text, d)) <= Cardinality(KeywordsIn(text, c))}

BestCategories(text) ==
  {c \in Category : \A d \in Category : ScoreOf(text, d) <= ScoreOf(text, c)}

NoEntry == "none"

(* Mutant: any trigger in the text will do. *)
RelevantAlways(word, category) == TRUE

Relevant(word, category) ==
  \E k \in CategoryKeywords[category] : TextContains(word, k) \/ TextContains(k, word)

NoNumber == 0

(* resolve_account_type: the longest trigger in the text, whose word has to *)
(* do with a keyword of the category.  Of several the first in the list is *)
(* taken, which is in the order of the numbers.                            *)
ResolveAccountType(text, category) ==
  LET triggers == {m \in AccountMap : TextContains(text, m[1]) /\ Relevant(m[1], category)}
      longest == {m \in triggers : \A n \in triggers : Len(n[1]) <= Len(m[1])}
  IN IF triggers = {} THEN NoNumber
     ELSE CHOOSE number \in {m[2] : m \in longest} : \A n \in longest : number <= n[2]

ASSUME ClassifierAssumption ==
  /\ Misleading \subseteq AccountText /\ MaxSuggestions \in Nat \ {0}
  /\ LlmAnswer \subseteq [category : Category, confidence : Nat]
  /\ Chart \subseteq Seq(AccountName) /\ NoEntry \notin AccountName
  /\ WordsOf \in [AccountName -> Seq(STRING)]

(* Strings are sequences of letters: they have lengths, and names with the  *)
(* same letters are the same.                                              *)
ASSUME LettersAssumption ==
  /\ \A c \in Category : /\ IsFiniteSet(CategoryKeywords[c])
                         /\ \A w \in CategoryKeywords[c] : Len(w) \in Nat
  /\ \A a \in AccountName : Len(a) \in Nat
  /\ \A a, b \in AccountName :
       (Len(a) = Len(b) /\ \A i \in 1 .. Len(a) : SubSeq(a, i, i) = SubSeq(b, i, i)) => a = b

NoSuggestion == [text |-> NoEntry]
NothingMatched == [name |-> NoEntry]

(* Only the last answers are kept that are of one text. *)
ForgetOthers(text) ==
  /\ matched' = NothingMatched
  /\ ranked' = (IF ranked # << >> /\ ranked[1].text = text THEN ranked ELSE << >>)

Suggested(text, category) ==
  [text |-> text, category |-> category, confidence |-> ConfidenceOf(ScoreOf(text, category)),
   number |-> ResolveAccountType(text, category)]

(* suggest_category: the last of the best in the map's order. *)
SuggestCategory(text) ==
  /\ text \in Misleading => Risk("misleading")
  /\ \E c \in BestCategories(text) : suggestion' = Suggested(text, c)
  /\ ForgetOthers(text)

(* merge_suggestions; the model names no number. *)
MergeSuggestions(rule, llm) ==
  [text |-> rule.text, category |-> llm.category, number |-> rule.number,
   confidence |->
     IF rule.category = llm.category THEN Least((rule.confidence + llm.confidence) \div 2, 980)
     ELSE Least((llm.confidence * 8) \div 10, 900)]

(* suggest_category_with_llm, where the model answers; where it does not,   *)
(* this is SuggestCategory.                                                *)
SuggestWithLlm(text) ==
  /\ Risk("llm")
  /\ text \notin Misleading
  /\ \E c \in BestCategories(text), llm \in LlmAnswer :
       suggestion' = MergeSuggestions(Suggested(text, c), llm)
  /\ ForgetOthers(text)

Orders(cs) ==
  {s \in [1 .. Cardinality(cs) -> cs] : \A i, j \in DOMAIN s : i # j => s[i] # s[j]}

(* The lists of suggest_account_type: the categories with a score, in an    *)
(* order of the confidences.                                               *)
Rankings(text) ==
  LET scored == {c \in Category : ScoreOf(text, c) > 0}
      byConfidence ==
        {s \in Orders(scored) : \A i, j \in DOMAIN s : i < j =>
           ConfidenceOf(ScoreOf(text, s[j])) <= ConfidenceOf(ScoreOf(text, s[i]))}
  IN IF scored = {} THEN {<<Suggested(text, "Expense")>>}
     ELSE {[i \in 1 .. Least(Cardinality(scored), MaxSuggestions) |-> Suggested(text, s[i])] :
             s \in byConfidence}

SuggestAccountType(text) ==
  /\ text \in Misleading => Risk("misleading")
  /\ ranked' \in Rankings(text)
  /\ matched' = NothingMatched
  /\ suggestion' = (IF suggestion.text = text THEN suggestion ELSE NoSuggestion)

-----------------------------------------------------------------------------
(* Mutant: a letter in place of another costs as much as two changes. *)
CostDouble(x, y) == IF x = y THEN 0 ELSE 2

Cost(x, y) == IF x = y THEN 0 ELSE 1

(* The rows of levenshtein_distance: the distances of a's first i letters   *)
(* from the beginnings of b, from those of one letter less.                *)
NextRow(i, prev, a, b) ==
  LET curr[j \in 0 .. Len(b)] ==
        IF j = 0 THEN <<i>>
        ELSE LET before == curr[j - 1]
                 changed == prev[j] + Cost(SubSeq(a, i, i), SubSeq(b, j, j))
             IN Append(before, Least(Least(prev[j + 1], before[j]) + 1, changed))
  IN curr[Len(b)]

(* Every row begins with i; asking for that here has TLC finish the         *)
(* previous row before it begins this one.                                 *)
LevenshteinRow(a, b) ==
  LET row[i \in 0 .. Len(a)] ==
        IF i = 0 THEN [j \in 1 .. Len(b) + 1 |-> j - 1]
        ELSE LET prev == row[i - 1]
             IN IF prev[1] = i - 1 THEN NextRow(i, prev, a, b) ELSE << >>
  IN row[Len(a)]

LevenshteinDistance(a, b) == LevenshteinRow(a, b)[Len(b) + 1]

Longer(a, b) == IF a < b THEN b ELSE a

SubstringScore(a, b) ==
  IF TextContains(a, b) \/ TextContains(b, a)
  THEN 6000 + (3000 * Least(Len(a), Len(b))) \div Longer(Len(a), Len(b)) ELSE 0

(* Mutant: the words must stand in the same places. *)
SharedInPlace(a, b) ==
  Cardinality({i \in DOMAIN WordsOf[a] : i \in DOMAIN WordsOf[b] /\ WordsOf[b][i] = WordsOf[a][i]})

Shared(a, b) ==
  Cardinality({i \in DOMAIN WordsOf[a] : \E j \in DOMAIN WordsOf[b] : WordsOf[b][j] = WordsOf[a][i]})

WordOverlapScore(a, b) ==
  IF WordsOf[a] = << >> \/ WordsOf[b] = << >> THEN 0
  ELSE (8500 * Shared(a, b)) \div Longer(Len(WordsOf[a]), Len(WordsOf[b]))

LevenshteinScore(a, b) ==
  8000 - (8000 * LevenshteinDistance(a, b)) \div Longer(Len(a), Len(b))

(* The three scores, blended: a score of 0 is below the others.            *)
Combined(a, b) ==
  Longer(Longer(SubstringScore(a, b), WordOverlapScore(a, b)), LevenshteinScore(a, b))

(* The first exact one, or the first of the best above 0.4.                *)
MatchIn(name, chart) ==
  LET exact == {i \in DOMAIN chart : chart[i] = name}
      close == {i \in DOMAIN chart : Combined(name, chart[i]) >= 4000}
      best == {i \in close : \A j \in close : Combined(name, chart[j]) <= Combined(name, chart[i])}
      first(S) == CHOOSE i \in S : \A j \in S : i <= j
  IN [name |-> name, chart |-> chart,
      entry |-> IF exact # {} THEN chart[first(exact)]
                ELSE IF best # {} THEN chart[first(best)] ELSE NoEntry]

MatchExistingAccount(name, chart) ==
  /\ matched' = MatchIn(name, chart)
  /\ suggestion' = NoSuggestion
  /\ ranked' = << >>

ClassifierInit ==
  /\ suggestion = NoSuggestion
  /\ ranked = << >>
  /\ matched = NothingMatched

ClassifierNext ==
  /\ Moves("classifier") /\ UNCHANGED mix
  /\ \/ \E text \in AccountText :
          SuggestCategory(text) \/ SuggestWithLlm(text) \/ SuggestAccountType(text)
     \/ \E name \in AccountName, chart \in Chart : MatchExistingAccount(name, chart)

ClassifierTypeOK ==
  /\ suggestion # NoSuggestion => suggestion.category \in Category
  /\ \A i \in DOMAIN ranked : ranked[i].confidence \in 300 .. 950
  /\ matched # NothingMatched => matched.name \in AccountName

-----------------------------------------------------------------------------
(* The account that is suggested is of the category that is suggested;      *)
(* unless the text has words of two, or the model overrules the words.     *)
NumberInCategory ==
  LET agrees(s) == s.number = NoNumber \/ CategoryOfNumber(s.number) = s.category
  IN Safe({"misleading", "llm"}) =>
       /\ suggestion # NoSuggestion => agrees(suggestion)
       /\ \A i \in DOMAIN ranked : agrees(ranked[i])

(* The two functions that classify a text agree, where one category leads,  *)
(* and its confidence is below the cap; elsewhere chance decides, also      *)
(* between all categories for a text without keywords.                     *)
FirstIsBest ==
  (/\ suggestion # NoSuggestion /\ ranked # << >> /\ suggestion.text = ranked[1].text
   /\ Safe({"llm"}) /\ Cardinality(BestCategories(suggestion.text)) = 1
   /\ suggestion.confidence < 950) =>
     ranked[1] = suggestion

WordSet(name) == {WordsOf[name][j] : j \in DOMAIN WordsOf[name]}

(* An account of the chart with the name that is looked for is found, and   *)
(* one with its words in another order, or one that is closer.             *)
NamesFound ==
  matched # NothingMatched =>
    \A i \in DOMAIN matched.chart :
      LET e == matched.chart[i]
          n == matched.name
      IN /\ e = n => matched.entry = e
         /\ (WordSet(e) = WordSet(n) /\ WordSet(e) # {} /\ Len(WordsOf[e]) = Len(WordsOf[n])) =>
              /\ matched.entry # NoEntry
              /\ matched.entry = n \/ Combined(n, matched.entry) >= 8500

(* The distance of names is one: none but equal names have none, it is the  *)
(* same both ways, is no longer than by a third name, and not longer than   *)
(* the longer of them.                                                     *)
DistancesAgree ==
  matched # NothingMatched =>
    \A i, j \in DOMAIN matched.chart :
      LET n == matched.name
          e == matched.chart[i]
          f == matched.chart[j]
          dist(a, b) == LevenshteinDistance(a, b)
      IN /\ dist(n, e) = dist(e, n) /\ (dist(n, e) = 0 <=> n = e)
         /\ dist(n, e) <= dist(n, f) + dist(f, e)
         /\ dist(n, e) <= Longer(Len(n), Len(e))
=============================================================================
