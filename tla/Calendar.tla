------------------------------ MODULE Calendar ------------------------------
(***************************************************************************)
(* Dates and periods (utils/date_utils.rs).  The clock moves on by days;   *)
(* the functions read it, those of the quarter twice.  The calendar is     *)
(* chrono's (external): an operation there gives no date that does not     *)
(* exist.  A function that unwraps such a date panics.                     *)
(***************************************************************************)
EXTENDS Parts, Integers, Sequences

CONSTANTS
  StartDays, \* the dates on which a behaviour starts
  Years,     \* bound: the years in which the clock moves
  Births,    \* dates of birth
  Shifts     \* numbers of months that are added

VARIABLES
  today,   \* Utc::now()
  reading, \* the date current_quarter's caller has read, or Panic
  quarter  \* the answer of today's first_ or last_day_of_quarter

calendarVars == <<today, reading, quarter>>

Panic == [panic |-> TRUE]
Huge == 2000000000 \* stands for what is too large for TLC
Date(y, m, d) == [y |-> y, m |-> m, d |-> d]

-----------------------------------------------------------------------------
(* chrono, external. *)
LeapDays(y) == (y \div 4) - (y \div 100) + (y \div 400)
LongYear(y) == LeapDays(y) - LeapDays(y - 1) = 1
MonthLengths == <<31, 28, 31, 30, 31, 30, 31, 31, 30, 31, 30, 31>>
DaysBefore == <<0, 31, 59, 90, 120, 151, 181, 212, 243, 273, 304, 334, 365>>
MonthLength(y, m) == MonthLengths[m] + (IF m = 2 /\ LongYear(y) THEN 1 ELSE 0)

(* from_ymd_opt, with_year, with_month and with_day. *)
Ymd(y, m, d) ==
  IF m \in 1 .. 12 /\ d >= 1 /\ d <= MonthLength(y, m) THEN Date(y, m, d) ELSE Panic
WithYear(date, y) == Ymd(y, date.m, date.d)
WithMonth(date, m) == Ymd(date.y, m, date.d)
WithDay(date, d) == Ymd(date.y, date.m, d)

(* The dates from the year 0 on. *)
Dates == {x \in [y : Nat, m : 1 .. 12, d : 1 .. 31] : x.d <= MonthLength(x.y, x.m)}

ASSUME CalendarAssumption ==
  /\ StartDays # {} /\ StartDays \subseteq Dates /\ \A x \in StartDays : x.y \in Years
  /\ Births \subseteq Dates
  /\ Years \subseteq Nat \ {0} /\ Shifts \subseteq Int
  /\ \A y \in Years, n \in Shifts : 12 * y + 2 * n >= 0 \* these dates are shifted to others

YearStart(y) == 365 * y + LeapDays(y - 1)
MonthStart(y, m) ==
  YearStart(y) + DaysBefore[m] + (IF m > 2 /\ LongYear(y) THEN 1 ELSE 0)
Number(date) == MonthStart(date.y, date.m) + date.d
OfNumber(n) ==
  LET y == CHOOSE y \in (n \div 366 - 1) .. (n \div 365) : YearStart(y) < n /\ n <= YearStart(y + 1)
      m == CHOOSE m \in 1 .. 12 :
             MonthStart(y, m) < n /\ (m = 12 \/ n <= MonthStart(y, m + 1))
  IN Date(y, m, n - MonthStart(y, m))

(* A date that is unwrapped. *)
After(date, F(_)) == IF date = Panic THEN Panic ELSE F(date)
Shifted(date, days) == OfNumber(Number(date) + days)
DayBefore(date) == Shifted(date, -1)

-----------------------------------------------------------------------------
(* DateRange *)
DateRange(start, end) == [start |-> start, end |-> end]
Days(r) == Number(r.end) - Number(r.start) + 1
InRange(r, date) == Number(r.start) <= Number(date) /\ Number(date) <= Number(r.end)

(* Mutant: the period before ends where its own length says. *)
PreviousFromStart(r) ==
  LET duration == Number(r.end) - Number(r.start)
  IN DateRange(Shifted(r.start, -duration), Shifted(r.start, -duration))

PreviousRange(r) ==
  LET duration == Number(r.end) - Number(r.start)
  IN DateRange(Shifted(r.start, -duration), Shifted(r.end, -duration))

(* 1 January 0001, whose number is 366, was a Monday. *)
FromSunday(date) == (Number(date) + 6) % 7

CurrentWeek(date) ==
  LET start == Shifted(date, -FromSunday(date)) IN DateRange(start, Shifted(start, 6))
CurrentMonth(date) == DateRange(WithDay(date, 1), WithDay(date, date.d))
CurrentYear(date) == DateRange(Date(date.y, 1, 1), Date(date.y, 12, 31))

(* Mutant: the last day of the month is looked for 30 days on. *)
LastDayOfMonthThirty(date) == DayBefore(WithDay(Shifted(date, 30), 1))

LastDayOfMonth(date) ==
  LET nextYear == WithYear(date, date.y + 1) \* unwrapped whether needed or not
      next == WithMonth(date, date.m + 1)
  IN IF nextYear = Panic THEN Panic
     ELSE DayBefore(WithDay(IF next # Panic THEN next ELSE WithMonth(nextYear, 1), 1))

Quarter(date) == (date.m - 1) \div 3 + 1
FirstDayOfQuarter(date, q) ==
  After(WithMonth(date, (q - 1) * 3 + 1), LAMBDA x : WithDay(x, 1))
LastDayOfQuarter(date, q) ==
  After(WithMonth(date, q * 3), LAMBDA x : DayBefore(WithDay(x, 1)))

IsLeapYear(y) == (y % 4 = 0 /\ y % 100 # 0) \/ y % 400 = 0

DaysInMonth(y, m) ==
  CASE m \in {1, 3, 5, 7, 8, 10, 12} -> 31
    [] m \in {4, 6, 9, 11} -> 30
    [] m = 2 -> IF IsLeapYear(y) THEN 29 ELSE 28
    [] OTHER -> 0

(* Mutant: without the rule of the centuries. *)
ValidateDateJulian(y, m, d) ==
  LET most == IF m = 2 /\ y % 4 = 0 THEN 29 ELSE DaysInMonth(y, m)
  IN IF m < 1 \/ m > 12 \/ d < 1 \/ d > most THEN Panic ELSE Date(y, m, d)

ValidateDate(y, m, d) ==
  IF m < 1 \/ m > 12 \/ d < 1 \/ d > DaysInMonth(y, m) THEN Panic ELSE Ymd(y, m, d)

(* Mutant: a negative month is taken off the year too late. *)
AddMonthsTruncated(date, months) ==
  LET total == date.y * 12 + (date.m - 1) + months
      y == date.y + (IF months < 0 THEN -((-months) \div 12) ELSE months \div 12)
      m == (total % 12) + 1
  IN Date(y, m, IF date.d < MonthLength(y, m) THEN date.d ELSE MonthLength(y, m))

(* add_months: the day is clamped to the last of the month. *)
AddMonths(date, months) ==
  LET total == date.y * 12 + (date.m - 1) + months
      y == total \div 12
      m == (total % 12) + 1
      last == DayBefore(IF m = 12 THEN Date(y + 1, 1, 1) ELSE Date(y, m + 1, 1)).d
  IN Date(y, m, IF date.d < last THEN date.d ELSE last)
SubtractMonths(date, months) == AddMonths(date, -months)

AddYears(date, years) ==
  IF WithYear(date, date.y + years) = Panic THEN date ELSE WithYear(date, date.y + years)

(* Mutant: the birthday counts from the day after. *)
AgeInYearsLate(birth, date) ==
  LET before == date.m < birth.m \/ (date.m = birth.m /\ date.d <= birth.d)
  IN date.y - birth.y - (IF before THEN 1 ELSE 0)

(* A negative age is cast to one of more than four billion years. *)
AgeInYears(birth, date) ==
  LET before == date.m < birth.m \/ (date.m = birth.m /\ date.d < birth.d)
      age == date.y - birth.y - (IF before THEN 1 ELSE 0)
  IN IF age < 0 THEN Huge ELSE age

(* The three formats of parse_date, as what stands between the separators. *)
FormatIso(date) == [separator |-> "-", parts |-> <<date.y, date.m, date.d>>]
FormatUs(date) == [separator |-> "/", parts |-> <<date.m, date.d, date.y>>]
FormatEuropean(date) == [separator |-> "/", parts |-> <<date.d, date.m, date.y>>]

(* Mutant: the European format is tried before the American one. *)
ParseDateEuropeanFirst(text) ==
  LET european == Ymd(text.parts[3], text.parts[2], text.parts[1])
  IN IF text.separator = "-" THEN Ymd(text.parts[1], text.parts[2], text.parts[3])
     ELSE IF european # Panic THEN european
     ELSE Ymd(text.parts[3], text.parts[1], text.parts[2])

ParseDate(text) ==
  LET american == Ymd(text.parts[3], text.parts[1], text.parts[2])
  IN IF text.separator = "-" THEN Ymd(text.parts[1], text.parts[2], text.parts[3])
     ELSE IF american # Panic THEN american
     ELSE Ymd(text.parts[3], text.parts[2], text.parts[1])

-----------------------------------------------------------------------------
NextDay ==
  /\ Shifted(today, 1).y \in Years
  /\ reading # Panic => Risk("midnight") /\ reading = today
  /\ today' = Shifted(today, 1)
  /\ quarter' = Panic
  /\ UNCHANGED reading

(* first_day_of_quarter, or last_, has read the clock, and calls            *)
(* current_quarter, which reads it too.                                    *)
AskQuarter ==
  /\ reading = Panic
  /\ reading' = today
  /\ quarter' = Panic
  /\ UNCHANGED today

(* Mutant: quarters begin a month late. *)
AnswerQuarterLate ==
  /\ reading # Panic
  /\ LET q == reading.m \div 3 + 1
     IN quarter' = [asked |-> reading, first |-> FirstDayOfQuarter(reading, q),
                    last |-> LastDayOfQuarter(reading, q)]
  /\ reading' = Panic
  /\ UNCHANGED today

AnswerQuarter ==
  /\ reading # Panic
  /\ LET q == Quarter(today)
     IN quarter' = [asked |-> reading, first |-> FirstDayOfQuarter(reading, q),
                    last |-> LastDayOfQuarter(reading, q)]
  /\ reading' = Panic
  /\ UNCHANGED today

CalendarInit ==
  /\ today \in (IF Moves("calendar") THEN StartDays ELSE {CHOOSE d \in StartDays : TRUE})
  /\ reading = Panic
  /\ quarter = Panic

CalendarNext ==
  Moves("calendar") /\ UNCHANGED mix /\ (NextDay \/ AskQuarter \/ AnswerQuarter)

CalendarTypeOK ==
  /\ today = Ymd(today.y, today.m, today.d) /\ today.y \in Years
  /\ reading = Panic \/ reading.y \in Years

-----------------------------------------------------------------------------
(* The dates on which the functions are called; in the other mixes none is. *)
DatesSeen == IF Moves("calendar") THEN {today} ELSE {}

(* Months that are added and taken off again lead back, or, when the day    *)
(* was clamped, to an earlier day of the same month; and they are added one *)
(* after another as all at once.                                           *)
MonthsLeadBack ==
  \A date \in DatesSeen, n \in Shifts :
    LET there == AddMonths(date, n)
        back == SubtractMonths(there, n)
    IN /\ back.y = date.y /\ back.m = date.m /\ back.d <= date.d
       /\ date.d <= 28 => back = date /\ AddMonths(there, n) = AddMonths(date, 2 * n)

(* A person has as many years as birthdays have passed, where add_years can *)
(* find the birthday (not on 29 February), from the birth on.              *)
AgeCountsBirthdays ==
  \A date \in DatesSeen, b \in Births :
    (Number(b) <= Number(date) /\ ~(b.m = 2 /\ b.d = 29)) =>
      LET age == AgeInYears(b, date)
      IN /\ Number(AddYears(b, age)) <= Number(date)
         /\ Number(date) < Number(AddYears(b, age + 1))

(* validate_date accepts the days that chrono has, and no other. *)
ValidDaysExist ==
  \A date \in DatesSeen, d \in 27 .. 32 :
    ValidateDate(date.y, date.m, d) = Ymd(date.y, date.m, d)

(* What was formatted is read back as the same day; but not a European date *)
(* whose day could be a month.                                             *)
FormatsReadBack ==
  \A date \in DatesSeen :
    /\ ParseDate(FormatIso(date)) = date
    /\ ParseDate(FormatUs(date)) = date
    /\ (ParseDate(FormatEuropean(date)) = date) <=> (date.d > 12 \/ date.d = date.m)

(* The period before one is as long and leaves no day between; in fact it   *)
(* shares a day with it.                                                   *)
PeriodsMeet ==
  \A date \in DatesSeen :
    \A r \in {CurrentWeek(date), CurrentMonth(date), CurrentYear(date)} :
      /\ InRange(r, date)
      /\ Days(PreviousRange(r)) = Days(r)
      /\ Number(PreviousRange(r).end) = Number(r.start)

(* The last day of the month is the one before another month, on the days   *)
(* that every month has.                                                   *)
MonthEnds ==
  \A date \in DatesSeen :
    date.d <= 28 =>
      LastDayOfMonth(date).m = date.m /\ Shifted(LastDayOfMonth(date), 1).d = 1

(* The first day of the quarter starts the quarter of the day it was asked  *)
(* for, and what is taken for its last day ends the quarter's second month; *)
(* or the call panics, on a day that the month it turns to lacks.  At       *)
(* midnight they may be of any quarter.                                    *)
QuarterOfTheDay ==
  (Safe({"midnight"}) /\ quarter # Panic) =>
    LET day == quarter.asked
        first == quarter.first
        last == quarter.last
    IN /\ first = Panic \/ last = Panic => day.d = 31
       /\ first # Panic => /\ first.y = day.y /\ first.m \in {1, 4, 7, 10} /\ first.d = 1
                          /\ day.m \in first.m .. first.m + 2
       /\ last # Panic => Shifted(last, 1) = Date(day.y, 3 * Quarter(day), 1)
=============================================================================
