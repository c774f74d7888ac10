---------------------------- MODULE RecurringDates ----------------------------
(***************************************************************************)
(* The dates of a recurring task (RecurringDateUtil).  A date is the number   *)
(* of a day in Korea; weeks, months and years may be shorter than ours.       *)
(*                                                                         *)
(* A rule is a record [type, interval, days, day, week, month, skip, move]:     *)
(* days are the weekdays of a weekly rule; a monthly or yearly rule has the      *)
(* weekday `day' of its week, or, where week is 0, the day of the month.        *)
(* skip are the kinds of days left out, "weekends" and "holidays"; move says     *)
(* whether such a day is moved to the next weekday instead.                    *)
(***************************************************************************)
EXTENDS Integers, Sequences, FiniteSets, FiniteSetsExt, Folds

CONSTANTS
  WeekLen,       \* days of a week; 0 and WeekLen - 1 are its weekend
  LastWeek,      \* the number (5) that means the last week of a month
  MonthStarts,   \* the first days of the months, and the day after the last of them
  MonthsPerYear,
  Holidays,      \* days
  NoDate         \* null

Weekday(d) == (d - 1) % WeekLen
WeekOf(d) == (d - 1) \div WeekLen

Months == 1..Len(MonthStarts) - 1
LastDay(m) == MonthStarts[m + 1] - 1
MonthOf(d) == CHOOSE m \in Months : MonthStarts[m] <= d /\ d <= LastDay(m)
DayIn(d) == d - MonthStarts[MonthOf(d)] + 1
YearOf(m) == (m - 1) \div MonthsPerYear

GetDateOfMonth(m, day) == Min({MonthStarts[m] + day - 1, LastDay(m)})

GetNthDayOfMonth(m, week, weekday) ==
  IF week = LastWeek
    THEN LastDay(m) - ((Weekday(LastDay(m)) - weekday) % WeekLen)
    ELSE LET d == MonthStarts[m] + ((weekday - Weekday(MonthStarts[m])) % WeekLen)
                    + ((week - 1) * WeekLen)
         IN IF d <= LastDay(m) THEN d ELSE NoDate

\* dayjs(...).add(n, 'month').
MonthsLater(d, n) == GetDateOfMonth(MonthOf(d) + n, DayIn(d))

DateIn(rule, m) == IF rule.week = 0 THEN GetDateOfMonth(m, rule.day)
                                    ELSE GetNthDayOfMonth(m, rule.week, rule.day)

-----------------------------------------------------------------------------
NeedsSkip(rule, d) ==
  \/ "weekends" \in rule.skip /\ Weekday(d) \in {0, WeekLen - 1}
  \/ "holidays" \in rule.skip /\ d \in Holidays

\* resolveDate: the day, the weekday it is moved to, or none.
ResolveDate(rule, d, taken) ==
  IF ~NeedsSkip(rule, d) THEN d
  ELSE LET free == {c \in d + 1..d + 7 : ~NeedsSkip(rule, c)}
       IN IF rule.move /\ free # {} /\ Min(free) \notin taken THEN Min(free) ELSE NoDate

\* The days on which a rule falls, between two days, counted from the first of them.
CalculateDailyDates(rule, from, to) ==
  {from + k * rule.interval : k \in 0..to - from} \cap from..to

CalculateWeeklyDates(rule, from, to) ==
  UNION {{from - Weekday(from) + k * WeekLen * rule.interval + w : w \in rule.days} :
           k \in 0..to - from} \cap from..to

CalculateMonthlyDates(rule, from, to) ==
  {DateIn(rule, m) : m \in {MonthOf(from) + k * rule.interval : k \in 0..MonthOf(to) - MonthOf(from)}
                             \cap MonthOf(from)..MonthOf(to)} \cap from..to

CalculateYearlyDates(rule, from, to) ==
  {DateIn(rule, m) : m \in {x \in MonthOf(from) - MonthsPerYear..MonthOf(to) \cap Months :
       /\ x % MonthsPerYear = rule.month % MonthsPerYear
       /\ \E k \in 0..YearOf(MonthOf(to)) : YearOf(x) = YearOf(MonthOf(from)) + k * rule.interval}}
    \cap from..to

DatesOf(rule, from, to) ==
  CASE rule.type = "DAILY"   -> CalculateDailyDates(rule, from, to)
    [] rule.type = "WEEKLY"  -> CalculateWeeklyDates(rule, from, to)
    [] rule.type = "MONTHLY" -> CalculateMonthlyDates(rule, from, to)
    [] rule.type = "YEARLY"  -> CalculateYearlyDates(rule, from, to)

\* calculateNextDates: in their order, at most n of those that are neither taken nor skipped.
CalculateNextDates(rule, from, to, n, taken, skips) ==
  LET add(d, new) ==
        LET r == ResolveDate(rule, d, taken \cup new)
        IN IF Cardinality(new) >= n \/ r = NoDate \/ r \in taken \cup new \cup skips
             THEN new ELSE new \cup {r}
  IN MapThenFoldSet(add, {}, LAMBDA d : d, Max, DatesOf(rule, from, to))

\* calculateNextSingleDate: weeks are looked through without regard to the interval.
CalculateNextSingleDate(rule, from) ==
  CASE rule.type = "DAILY"   -> from + rule.interval
    [] rule.type = "WEEKLY"  -> Min({d \in from + 1..from + WeekLen * rule.interval :
                                       Weekday(d) \in rule.days})
    [] rule.type = "MONTHLY" -> MonthsLater(from, rule.interval)
    [] rule.type = "YEARLY"  -> MonthsLater(from, rule.interval * MonthsPerYear)

-----------------------------------------------------------------------------
\* Whether a day is the rule's day of its month: what the names say.
ItsDay(rule, d) ==
  LET m == MonthOf(d) IN
  IF rule.week = 0
    THEN DayIn(d) = rule.day \/ (d = LastDay(m) /\ DayIn(d) < rule.day)
    ELSE /\ Weekday(d) = rule.day
         /\ IF rule.week = LastWeek THEN d + WeekLen > LastDay(m)
                                    ELSE (DayIn(d) - 1) \div WeekLen = rule.week - 1

\* Whether a rule counted from one day falls on another.
Falls(rule, from, d) ==
  /\ d >= from
  /\ CASE rule.type = "DAILY"   -> (d - from) % rule.interval = 0
       [] rule.type = "WEEKLY"  -> /\ Weekday(d) \in rule.days
                                   /\ (WeekOf(d) - WeekOf(from)) % rule.interval = 0
       [] rule.type = "MONTHLY" -> /\ (MonthOf(d) - MonthOf(from)) % rule.interval = 0
                                   /\ ItsDay(rule, d)
       [] rule.type = "YEARLY"  -> /\ (MonthOf(d) - rule.month) % MonthsPerYear = 0
                                   /\ (YearOf(MonthOf(d)) - YearOf(MonthOf(from))) % rule.interval = 0
                                   /\ ItsDay(rule, d)

\* A rule that falls on a day puts a task on this one.
Meant(rule, from, d) ==
  \/ Falls(rule, from, d) /\ ~NeedsSkip(rule, d)
  \/ /\ rule.move /\ ~NeedsSkip(rule, d)
     /\ \E e \in from..d - 1 : Falls(rule, from, e) /\ \A x \in e..d - 1 : NeedsSkip(rule, x)

=============================================================================
