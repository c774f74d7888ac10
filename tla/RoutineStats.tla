----------------------------- MODULE RoutineStats -----------------------------
(***************************************************************************)
(* The statistics of a routine: streaks of days, weeks and months, rates, the  *)
(* summary, the overview and the streak of the daily goal, which five requests   *)
(* compute from the same checks and pauses, each in its own way.               *)
(*                                                                         *)
(* The input is any history of a user's one routine.  Weeks and months may be    *)
(* shorter than ours, and months begin in the middle of weeks.                  *)
(***************************************************************************)
EXTENDS Integers, Sequences, FiniteSets, FiniteSetsExt, SequencesExt

CONSTANTS
  MaxDays,             \* bound: days; today is any of them
  WeekLen, MonthLen,   \* days of a week and of a month
  Frequencies,         \* [type, days, target]: "DAILY", "COUNT", "FIXED" or "MONTHLY", the
                       \* weekdays, the checks per week or month
  Pauses,              \* sets of pauses, of [from, to], to = None while it lasts
  None

VARIABLE input \* [freq, start, end, today, logs, pauses, goal: [from, count]]

Days == 1..MaxDays

Init ==
  /\ input \in [freq : Frequencies, start : {1, WeekLen}, end : {None, MaxDays - 1}, today : Days,
                logs : SUBSET Days, pauses : Pauses, goal : [from : {1, 2}, count : {None, 2}]]
  /\ \A d \in input.logs : d <= input.today
  /\ input.freq.type = "DAILY" \/ input.goal = [from |-> 1, count |-> None]
  /\ \A p \in input.pauses : p.from <= input.today /\ (p.to # None => p.to <= input.today)

-----------------------------------------------------------------------------
WeekStart(d)  == d - ((d - 1) % WeekLen)
MonthStart(d) == d - ((d - 1) % MonthLen)
StartOf(unit, d) == d - ((d - 1) % unit)

Scheduled(d) == input.freq.type = "FIXED" => (d - 1) % WeekLen \in input.freq.days
Target == CASE input.freq.type = "DAILY" -> WeekLen
            [] input.freq.type = "FIXED" -> Cardinality(input.freq.days)
            [] OTHER -> input.freq.target
Unit == IF input.freq.type = "MONTHLY" THEN MonthLen ELSE WeekLen

\* pauseToDateRange, isExcluded: not from the day on which it is resumed.
Excluded(d) == \E p \in input.pauses : p.from <= d /\ (p.to = None \/ d < p.to)

\* isRoutineActiveOnDate.
ActiveOn(d) == input.start <= d /\ (input.end # None => d <= input.end) /\ ~Excluded(d)

\* Weeks or months that overlap with some days and are not wholly excluded, by their first days.
Units(unit, from, to) ==
  {w \in {StartOf(unit, from) + k * unit : k \in 0..to} :
     w <= StartOf(unit, to) /\ \E d \in w..w + unit - 1 : ~Excluded(d)}

CountIn(unit, w, logs) == Cardinality({d \in logs : w <= d /\ d < w + unit})
InOrder(S) == SelectSeq([d \in Days |-> d], LAMBDA d : d \in S)

\* The longest run of successes and the one at the end.
Longest(results) ==
  FoldLeft(LAMBDA r, ok : [run |-> IF ok THEN r.run + 1 ELSE 0,
                           best |-> IF ok THEN Max({r.best, r.run + 1}) ELSE r.best],
           [run |-> 0, best |-> 0], results).best
Current(results) ==
  FoldRight(LAMBDA ok, r : [run |-> IF ok /\ r.going THEN r.run + 1 ELSE r.run,
                            going |-> ok /\ r.going],
            results, [run |-> 0, going |-> TRUE]).run

\* calculateWeekStreak, calculateMonthStreak: the unit of today is still under way.
UnitStreak(unit) ==
  LET past == StartOf(unit, input.today) - unit
      results == IF past < StartOf(unit, input.start) THEN <<>>
                 ELSE [i \in DOMAIN InOrder(Units(unit, input.start, past)) |->
                         CountIn(unit, InOrder(Units(unit, input.start, past))[i], input.logs) >= Target]
  IN [current |-> Current(results), longest |-> Longest(results)]

\* calculateScheduledDayStreak: from the first check on; today counts once it is checked.
DayStreak ==
  IF input.logs = {} THEN [current |-> 0, longest |-> 0]
  ELSE LET due == InOrder({d \in Min(input.logs)..input.today : ~Excluded(d) /\ Scheduled(d)})
           results == [i \in DOMAIN due |-> due[i] \in input.logs]
           open == Scheduled(input.today) /\ ~Excluded(input.today) /\ input.today \notin input.logs
       IN [longest |-> Longest(results),
           current |-> Current(IF open /\ results # <<>> THEN Front(results) ELSE results)]

\* calculateAchievementRate, calculateMonthlyAchievementRate: units as a whole, whatever days
\* the checks were read of.
AchievementRate(unit, from, to, logs) ==
  [expected |-> Cardinality(Units(unit, from, to)) * Target,
   checked |-> Cardinality({d \in logs : StartOf(unit, d) \in Units(unit, from, to)})]

Progress == CountIn(Unit, StartOf(Unit, input.today), input.logs)

-----------------------------------------------------------------------------
GetStreak == [units |-> UnitStreak(Unit), days |-> DayStreak, progress |-> Progress]

\* getSummary, of one routine.
GetSummary ==
  [days |-> DayStreak.current, checkedToday |-> input.today \in input.logs,
   progress |-> IF input.freq.type = "MONTHLY"
                  THEN CountIn(MonthLen, MonthStart(input.today), input.logs)
                  ELSE CountIn(WeekLen, WeekStart(input.today), input.logs)]

\* resolveRateRange.
RateRange(period) ==
  LET from == StartOf(period, input.today)
  IN [from |-> from, to |-> Min({input.today, from + period - 1})]
Within(range) == {d \in input.logs : range.from <= d /\ d <= range.to}

GetRate(period) ==
  LET r == RateRange(period) IN AchievementRate(Unit, r.from, r.to, Within(r))

\* resolveOverviewRange: the week or month of an anchor, up to today if it is the current one.
OverviewRange(period, anchor) ==
  LET from == StartOf(period, anchor)
  IN [from |-> from, to |-> IF from = StartOf(period, input.today)
                              THEN Min({input.today, from + period - 1}) ELSE from + period - 1]

\* getOverview, its totals: of the days of the routine in the range.
GetOverview(period, anchor) ==
  LET r == OverviewRange(period, anchor)
      from == Max({r.from, input.start})
      to == IF input.end = None THEN r.to ELSE Min({r.to, input.end})
  IN IF from <= to THEN AchievementRate(Unit, from, to, Within(r))
                   ELSE [expected |-> 0, checked |-> 0]

\* getEffectiveSettingsMap: all routines until the user sets a goal.
GoalOf(d) == IF input.goal.count # None /\ input.goal.from <= d THEN input.goal.count ELSE 1

\* computeDailyGoalStatus: of a day on which no routine is active, null.
GoalAchieved(d) ==
  IF ~ActiveOn(d) THEN None ELSE (IF d \in input.logs THEN 1 ELSE 0) >= GoalOf(d)

\* getDailyStreak: from the day on which the user first set a goal.
DailyStreak ==
  LET counted == {d \in input.goal.from..input.today : GoalAchieved(d) # None}
      results(S) == [i \in 1..Cardinality(S) |-> GoalAchieved(InOrder(S)[i])]
      open == input.today \in counted /\ ~GoalAchieved(input.today)
  IN [longest |-> Longest(results(counted)),
      current |-> Current(results(IF open THEN counted \ {input.today} ELSE counted))]

-----------------------------------------------------------------------------
\* A run of days or weeks: those of a set between two of them, each a success.
RunsIn(S, ok(_), last) ==
  LET Between(ab) == {x \in S : ab[1] <= x /\ x <= ab[2]} IN
  {0} \cup {Cardinality(Between(ab)) :
              ab \in {ab \in S \X S : /\ ab[1] <= ab[2] /\ (last => ab[2] = Max(S))
                                     /\ \A x \in Between(ab) : ok(x)}}

\* The statistics say the same of one history (RoutineStatsService).  A streak of days is the
\* longest, or last, run of scheduled and unpaused days that are all checked, where today
\* counts once it is checked, and one of weeks or months a run of past ones that reach their
\* target and are not paused throughout; the summary has the streak and the progress of the
\* streak page; the overview and the rate of a period have the same totals for a routine that
\* lasts throughout; and the streak of the daily goal is that of a daily routine under the
\* goal "all", set before the first check and the start.
StatsAgree ==
  LET due == {d \in 1..input.today : Scheduled(d) /\ ~Excluded(d)}
      done == IF input.today \in due \ input.logs THEN due \ {input.today} ELSE due
      past == {w \in Units(Unit, input.start, input.today) : w < StartOf(Unit, input.today)}
      checked(d) == d \in input.logs
      reached(w) == CountIn(Unit, w, input.logs) >= Target
  IN
  /\ GetStreak.days = [current |-> Max(RunsIn(done, checked, TRUE)),
                       longest |-> Max(RunsIn(due, checked, FALSE))]
  /\ GetStreak.units = [current |-> Max(RunsIn(past, reached, TRUE)),
                        longest |-> Max(RunsIn(past, reached, FALSE))]
  /\ GetSummary.days = GetStreak.days.current /\ GetSummary.progress = GetStreak.progress
  /\ \A period \in {WeekLen, MonthLen} :
       LET r == OverviewRange(period, input.today)
       IN input.start <= r.from /\ (input.end # None => r.to <= input.end) =>
            GetOverview(period, input.today) = GetRate(period)
  /\ /\ input.freq.type = "DAILY" /\ input.goal.count = None /\ input.end = None
     /\ \A d \in input.logs : Max({input.goal.from, input.start}) <= d
     => DailyStreak = GetStreak.days

=============================================================================
