----------------------------- MODULE AssetTrends -----------------------------
(***************************************************************************)
(* The statistics of the assets of a group: the totals now, and the trend by   *)
(* month of a year or by year, carried on where an account has no record.     *)
(*                                                                         *)
(* The input is any set of dated records of the accounts.  Queries that order    *)
(* by the date alone return either of two records of a day.  Balance, principal  *)
(* and profit are summed alike and stand as one amount.                      *)
(***************************************************************************)
EXTENDS Integers, Sequences, FiniteSets, FiniteSetsExt

CONSTANTS Accounts,      \* ids of accounts
          AccountTypes,  \* the type of each
          Amount,        \* the amount of each record, by account and index
          Days,          \* dates, in order
          DaysPerMonth, MonthsPerYear, \* the calendar
          MaxRecords,    \* bound: records of an account
          Saved,         \* savings goals that count as assets, in all
          None           \* no record yet

VARIABLE input \* [records: dates of each account in the order of creation, now: a month]

Month(d) == (d - 1) \div DaysPerMonth + 1
YearOf(m) == (m - 1) \div MonthsPerYear + 1
Months   == {Month(d) : d \in Days}
Years    == {YearOf(m) : m \in Months}

Init == input \in [records : [Accounts -> UNION {[1..n -> Days] : n \in 0..MaxRecords}],
                   now : Months]

Sum(S, f(_)) == MapThenSumSet(f, S)

-----------------------------------------------------------------------------
(* getStatistics: of each account the newest record, by date and creation.    *)

Records(a)  == DOMAIN input.records[a]
DayOf(a, i) == input.records[a][i]
Lasting(a, S) == {i \in S : \A j \in S : DayOf(a, j) <= DayOf(a, i)}
Latest(a, S) == CHOOSE i \in Lasting(a, S) : \A j \in Lasting(a, S) : j <= i
AmountAt(a, S) == IF S = {} THEN 0 ELSE Amount[a][Latest(a, S)]

GetStatistics ==
  LET of(t) == {a \in Accounts : AccountTypes[a] = t /\ Records(a) # {}}
  IN [total |-> Saved + Sum(Accounts, LAMBDA a : AmountAt(a, Records(a))),
      byType |-> [t \in {AccountTypes[a] : a \in Accounts} |->
                    Sum(of(t), LAMBDA a : AmountAt(a, Records(a)))],
      counted |-> Cardinality(UNION {of(t) : t \in {AccountTypes[a] : a \in Accounts}})]

-----------------------------------------------------------------------------
(* getGroupTrend and getAccountTrend, over a set of accounts.                  *)

\* findMany and findFirst order by the date alone: one of the last day's is the last.
OneOfLast(a, S, first) ==
  IF S = {} THEN None
  ELSE IF first THEN CHOOSE i \in Lasting(a, S) : \A j \in Lasting(a, S) : i <= j
  ELSE Latest(a, S)

\* getTrendRange and generatePeriodKeys.  By month the keys go on to the month of today
\* whatever the year.
MonthKeys(y) == {m \in 1..input.now : YearOf(m) >= y}
YearKeys(S) ==
  LET years == UNION {{YearOf(Month(DayOf(a, i))) : i \in Records(a)} : a \in S}
  IN IF years = {} THEN {} ELSE {y \in Years : \E p, q \in years : p <= y /\ y <= q}

\* Variant: nothing is known of an account before its first record in the range.
CarriedUnseeded(raw, seed) ==
  LET known[k \in DOMAIN raw] ==
        IF raw[k] # None THEN raw[k]
        ELSE IF k - 1 \in DOMAIN raw THEN known[k - 1] ELSE None
  IN known

\* aggregateTrend of one account: the record of each period, or the one before.
Carried(raw, seed) ==
  LET known[k \in DOMAIN raw] ==
        IF raw[k] # None THEN raw[k]
        ELSE IF k - 1 \in DOMAIN raw THEN known[k - 1] ELSE seed
  IN known

Total(known, k) ==
  LET S == {a \in DOMAIN known : known[a][k] # None} IN Sum(S, LAMBDA a : Amount[a][known[a][k]])

MonthlyTrend(S, y, first) ==
  LET during(a, m) == {i \in Records(a) : YearOf(m) = y /\ Month(DayOf(a, i)) = m}
      before(a) == {i \in Records(a) : YearOf(Month(DayOf(a, i))) < y}
      known == [a \in S |-> Carried([m \in MonthKeys(y) |-> OneOfLast(a, during(a, m), first)],
                                    OneOfLast(a, before(a), first))]
  IN [m \in MonthKeys(y) |-> Total(known, m)]

YearlyTrend(S, first) ==
  LET during(a, y) == {i \in Records(a) : YearOf(Month(DayOf(a, i))) = y}
      known == [a \in S |-> Carried([y \in YearKeys(S) |-> OneOfLast(a, during(a, y), first)],
                                    None)]
  IN [y \in YearKeys(S) |-> Total(known, y)]

-----------------------------------------------------------------------------
\* No account has two records on one day.
DaysDiffer == \A a \in Accounts : \A i, j \in Records(a) : DayOf(a, i) = DayOf(a, j) => i = j

\* No record is dated after this month.
NoneLater ==
  \A a \in Accounts : \A i \in Records(a) : Month(DayOf(a, i)) <= input.now

\* What the accounts of S amount to at the end of a month, or of a year.
AtMonth(S, m) == Sum(S, LAMBDA a : AmountAt(a, {i \in Records(a) : Month(DayOf(a, i)) <= m}))
AtYear(S, y)  ==
  Sum(S, LAMBDA a : AmountAt(a, {i \in Records(a) : YearOf(Month(DayOf(a, i))) <= y}))

\* A trend shows at the end of each period what the newest records then amount to, so that
\* the month of today shows the total of the statistics when no record is dated later and
\* no goal is counted; a trend of a group is the sum of those of its accounts; the types add
\* up to the total.  Two records of a day may be taken in either order; and a past year's
\* trend goes on to today with the amounts of that year's end (aggregateTrend,
\* generatePeriodKeys, getStatistics).
TrendsAgree ==
  /\ Saved + Sum(DOMAIN GetStatistics.byType, LAMBDA t : GetStatistics.byType[t])
       = GetStatistics.total
  /\ \A first \in BOOLEAN, y \in Years :
       LET trend == MonthlyTrend(Accounts, y, first)
           parts == [a \in Accounts |-> MonthlyTrend({a}, y, first)]
       IN /\ ~first \/ DaysDiffer =>
               /\ \A m \in MonthKeys(y), a \in Accounts :
                    parts[a][m] = IF YearOf(m) = y THEN AtMonth({a}, m) ELSE AtYear({a}, y)
               /\ y = YearOf(input.now) /\ NoneLater =>
                    trend[input.now] + Saved = GetStatistics.total
          /\ \A m \in MonthKeys(y) : trend[m] = Sum(Accounts, LAMBDA a : parts[a][m])
  /\ \A first \in BOOLEAN, S \in {Accounts} \cup {{a} : a \in Accounts} :
       ~first \/ DaysDiffer =>
         LET trend == YearlyTrend(S, first)
         IN \A y \in DOMAIN trend : trend[y] = AtYear(S, y)

=============================================================================
