----------------------------- MODULE MCServices -----------------------------
(***************************************************************************)
(* The services that share no state with each other, in one run: at first   *)
(* one of them is chosen, and the behaviour is one of that service.  The     *)
(* services use the same variables a1, a2, ...; each INSTANCE says what they   *)
(* are for it, and those a service does not need stay at None.  The services   *)
(* that MCServicesProofs is about take their parameters from CONSTANTS, the   *)
(* others have them here.                                                   *)
(***************************************************************************)
EXTENDS Integers, Sequences, FiniteSets, TLC

CONSTANTS None, Keep, o1, o2,
          Handlers, Servers,
          Goals, Calendar, NewGoals, Changes, Amounts,        \* of SavingsGoals
          SavingsRequests, SavingsFaults,
          Users, Writer, Texts, Ttl, MemoRequests, MaxTicks,   \* of MemoLocks
          Period, Day, Events, MaxTime, MaxVersions,          \* of Subscriptions
          SubscriptionRequests,
          Names, Frequents, Storages, MaxItems, MaxStock,     \* of ShoppingFridge
          ShopRequests, ShopFaults,
          Targets, Limit, ReportRequests, ReportFaults,       \* of GroupReports
          Recs, Creators, NewRecs, RecChanges, RecRequests,   \* of RecurringExpenses
          RecFaults,
          AlertUnits, Recipients, AlertChanges, AlertFaults,  \* of Alerts
          DeviceTokens, DevicePlatforms, Blank,               \* of TokenCache
          TokenRequests, TokenFaults,
          BoardRequests, BoardFaults,                         \* of AnnouncementBoard
          CodeRequests, CodeFaults,                           \* of EmailCodes
          Readers, Author, Admin, Answers,                    \* of Questions
          QuestionRequests, QuestionWeeks,
          Voters, VoteOwner, Options, VoteRequests,           \* of Votes
          Categories, Whole, BudgetMonths, BudgetRequests,    \* of Budgets
          RoleIds, RoleNames, RoleRequests,                   \* of Roles
          RoutineBadges, NewRoutines, RoutineUpdates,         \* of Routines
          RoutineDays, RoutineRequests, RoutineFaults,
          WeekLen, LastWeek, MonthStarts, MonthsPerYear,      \* of RecurringTasks
          Holidays, NewRules, TaskDays, RuleRequests,
          NewAnniversaries, NewDates, TaskOffsets,            \* of Anniversaries
          Hundred, Year, DaysAhead, AnniversaryDays,
          AnniversaryRequests,
          RecordDates, MonthFirsts, RecordInputs,             \* of AccountRecords
          Withdrawals, GoldPrices, RecordsEver, RecordFaults

VARIABLES service, a1, a2, a3, a4, a5, a6, a7, a8, a9, a10, a11, a12, a13, a14, a15

vars == <<service, a1, a2, a3, a4, a5, a6, a7, a8, a9, a10, a11, a12, a13, a14, a15>>

\* The variables from a number on, which a service may not need, and their one value.
From15 == <<a15>>
From14 == <<a14, From15>>
From13 == <<a13, From14>>
From12 == <<a12, From13>>
From11 == <<a11, From12>>
From10 == <<a10, From11>>
From9  == <<a9, From10>>
From8  == <<a8, From9>>
From7  == <<a7, From8>>
From2  == <<a2, a3, a4, a5, a6, From7>>

Idle15 == a15 = None
Idle14 == a14 = None /\ Idle15
Idle13 == a13 = None /\ Idle14
Idle12 == a12 = None /\ Idle13
Idle11 == a11 = None /\ Idle12
Idle10 == a10 = None /\ Idle11
Idle9  == a9 = None /\ Idle10
Idle8  == a8 = None /\ Idle9
Idle7  == a7 = None /\ Idle8
Idle2  == a2 = None /\ a3 = None /\ a4 = None /\ a5 = None /\ a6 = None /\ Idle7

\* Two days at the end of a short month after one of the month before.
ThreeDays ==
  <<[month |-> 1, day |-> 1, last |-> 1],
    [month |-> 2, day |-> 1, last |-> 2],
    [month |-> 2, day |-> 2, last |-> 2]>>

\* A goal of the last day, put off to the day before, made manual, or automatic again.
OneGoal == {[auto |-> TRUE, monthly |-> 1, depositDay |-> 2]}
GoalChanges ==
  {[auto |-> Keep, monthly |-> Keep, depositDay |-> 1],
   [auto |-> FALSE, monthly |-> Keep, depositDay |-> Keep],
   [auto |-> TRUE, monthly |-> 1, depositDay |-> Keep]}

\* A recurring expense of the last day, or of the first day for one month; made inactive,
\* active again for the second month only, or put on the first day.
TwoRecs ==
  {[day |-> 2, start |-> 1, total |-> None],
   [day |-> 1, start |-> 1, total |-> 1]}
RecurringChanges ==
  {[day |-> Keep, start |-> Keep, total |-> Keep, active |-> FALSE],
   [day |-> Keep, start |-> 2, total |-> 1, active |-> TRUE],
   [day |-> 1, start |-> Keep, total |-> Keep, active |-> Keep]}

\* A daily routine in the group and one so often a week in the category; made monthly, or
\* of fixed days.
TwoRoutines ==
  {[freq |-> "DAILY", mode |-> None, count |-> FALSE, days |-> FALSE,
    group |-> "g", link |-> FALSE],
   [freq |-> "WEEKLY", mode |-> "COUNT_ONLY", count |-> TRUE, days |-> FALSE,
    group |-> None, link |-> TRUE]}
RoutineChanges ==
  {[freq |-> "MONTHLY", mode |-> None, count |-> TRUE, days |-> FALSE,
    group |-> Keep, link |-> TRUE],
   [freq |-> Keep, mode |-> "FIXED_DAYS", count |-> FALSE, days |-> TRUE,
    group |-> "g", link |-> Keep]}

\* Three days a week, two months a year; the last week of a month is the third.
Once == [days |-> {}, day |-> 0, week |-> 0, month |-> 0, skip |-> {}, move |-> FALSE,
         generation |-> "AUTO_SCHEDULER", ahead |-> 1, count |-> None, end |-> None]
Rule(type, interval) == [type |-> type, interval |-> interval] @@ Once
Completed(rule) == [rule EXCEPT !.generation = "AFTER_COMPLETION"]
TaskRules ==
  {[Rule("WEEKLY", 2) EXCEPT !.days = {1}],
   [Rule("DAILY", 1) EXCEPT !.skip = {"weekends", "holidays"}, !.move = TRUE, !.count = 1],
   [Rule("MONTHLY", 1) EXCEPT !.day = 4, !.ahead = 2],
   [Rule("YEARLY", 1) EXCEPT !.day = 1, !.week = 3, !.month = 2],
   [Rule("DAILY", 2) EXCEPT !.end = 2],
   Completed([Rule("MONTHLY", 1) EXCEPT !.day = 2, !.week = 2, !.count = 1, !.end = 6]),
   Completed([Rule("WEEKLY", 1) EXCEPT !.days = {1, 2}]),
   Completed([Rule("DAILY", 2) EXCEPT !.end = 1]),
   Completed([Rule("YEARLY", 1) EXCEPT !.day = 2, !.month = 1])}
FourMonths == <<1, 5, 8, 12, 15>>
ChangesOfRules == [AUTO_SCHEDULER |-> 1, AFTER_COMPLETION |-> 2]

\* Every so many days, or no milestones; every year, on another date, or both.
TwoAnniversaries ==
  {[date |-> 1, config |-> {"every100Days"}], [date |-> 3, config |-> None]}
AnniversaryChanges ==
  {[date |-> None, config |-> {"everyYear"}], [date |-> 2, config |-> None],
   [date |-> 1, config |-> {"every100Days", "everyYear"}]}
OneOffset == {<<"DAYS", 2>>}

\* A record in each mode, and a withdrawal of each type.
RecordForms ==
  {[mode |-> "AUTO", balance |-> 1, added |-> 2],
   [mode |-> "GOLD", grams |-> 2, cost |-> None],
   [mode |-> "MANUAL", balance |-> 2, principal |-> 1, profit |-> 1]}
WithdrawalForms ==
  {[type |-> "PRINCIPAL", amount |-> 1], [type |-> "PROFIT", amount |-> 1]}

-----------------------------------------------------------------------------
Savings == INSTANCE SavingsGoals WITH
  today <- a1, goals <- a2, request <- a3, requests <- a4, faults <- a5, fired <- a6,
  run <- a7, gone <- a8, autoRows <- a9, up <- a10, since <- a11, crossed <- a12,
  lock <- a13, troubled <- a14, overran <- a15,
  MaxRequests <- SavingsRequests, MaxFaults <- SavingsFaults

ASSUME SavingsAssumption == Savings!ConstantsAssumption

Memos == INSTANCE MemoLocks WITH
  memo <- a1, editLock <- a2, request <- a3, requests <- a4, ticks <- a5, lease <- a6,
  early <- a7, blind <- a8, Owner <- Writer, MaxRequests <- MemoRequests

ASSUME MemosAssumption == Memos!ConstantsAssumption

Shop == INSTANCE ShoppingFridge WITH
  cart <- a1, fridge <- a2, request <- a3, requests <- a4, faults <- a5, frequent <- a6,
  storages <- a7, carts <- a8, stocked <- a9, bought <- a10, emptied <- a11, late <- a12,
  twice <- a13, MaxRequests <- ShopRequests, MaxFaults <- ShopFaults

ASSUME ShopAssumption == Shop!ConstantsAssumption

Subs == INSTANCE Subscriptions WITH
  platform <- a1, now <- a2, store <- a3, requests <- a4, notices <- a5, sub <- a6,
  user <- a7, report <- a8, restore <- a9, version <- a10, newest <- a11, bare <- a12,
  skewed <- a13, granted <- a14, MaxRequests <- SubscriptionRequests

ASSUME SubscriptionsAssumption == Subs!ConstantsAssumption

Recurring == INSTANCE RecurringExpenses WITH
  today <- a1, recs <- a2, request <- a3, requests <- a4, faults <- a5, fired <- a6,
  run <- a7, gone <- a8, expenses <- a9, up <- a10, since <- a11, crossed <- a12,
  shifted <- a13, troubled <- a14,
  Handlers <- Creators, Changes <- RecChanges,
  MaxRequests <- RecRequests, MaxFaults <- RecFaults

ASSUME RecurringAssumption == Recurring!ConstantsAssumption

Budget == INSTANCE Budgets WITH
  month <- a1, templates <- a2, request <- a3, requests <- a4, budgets <- a5,
  crossed <- a6, registered <- a7,
  Total <- Whole, MaxMonths <- BudgetMonths, MaxRequests <- BudgetRequests

ASSUME BudgetAssumption == Budget!ConstantsAssumption

Statistics == INSTANCE HouseholdStatistics WITH
  input <- a1, Ids <- 1..3, Months <- {1, 2}, AmountOf <- <<1, 2, 4>>

Vote == INSTANCE Votes WITH
  members <- a1, vote <- a2, request <- a3, requests <- a4, closed <- a5, ballots <- a6,
  choice <- a7, crossed <- a8,
  Users <- Voters, Owner <- VoteOwner, MaxRequests <- VoteRequests

ASSUME VoteAssumption == Vote!ConstantsAssumption

Question == INSTANCE Questions WITH
  question <- a1, answers <- a2, request <- a3, requests <- a4, weeks <- a5, replied <- a6,
  raced <- a7,
  Users <- Readers, MaxRequests <- QuestionRequests, MaxWeeks <- QuestionWeeks

ASSUME QuestionAssumption == Question!ConstantsAssumption

Routine == INSTANCE Routines WITH
  today <- a1, routine <- a2, request <- a3, requests <- a4, faults <- a5, pauses <- a6,
  logs <- a7, earned <- a8, group <- a9, category <- a10, raced <- a11, unjudged <- a12,
  Badges <- RoutineBadges, Creations <- NewRoutines, Updates <- RoutineUpdates,
  MaxDays <- RoutineDays, MaxRequests <- RoutineRequests, MaxFaults <- RoutineFaults

ASSUME RoutineAssumption == Routine!ConstantsAssumption

Alert == INSTANCE Alerts WITH
  job <- a1, due <- a2, members <- a3, lock <- a4, faults <- a5, fired <- a6, run <- a7,
  sent <- a8, changes <- a9, runs <- a10, again <- a11, steady <- a12, trouble <- a13,
  Units <- AlertUnits, Users <- Recipients, MaxChanges <- AlertChanges,
  MaxFaults <- AlertFaults

ASSUME AlertAssumption == Alert!ConstantsAssumption

Assets == INSTANCE AccountRecords WITH
  today <- a1, type <- a2, request <- a3, run <- a4, faults <- a5, lock <- a6, fired <- a7,
  records <- a8, withdrawals <- a9, crossed <- a10, cut <- a11, ofJob <- a12,
  Handlers <- Creators, Dates <- RecordDates, Firsts <- MonthFirsts, Inputs <- RecordInputs,
  Taken <- Withdrawals, Prices <- GoldPrices, MaxRecords <- RecordsEver,
  MaxFaults <- RecordFaults

ASSUME AssetsAssumption == Assets!ConstantsAssumption

Trends == INSTANCE AssetTrends WITH
  input <- a1, Accounts <- {o1, o2},
  AccountTypes <- (o1 :> "GOLD") @@ (o2 :> "STOCK"),
  Amount <- (o1 :> <<1, 2>>) @@ (o2 :> <<4, 8>>),
  Days <- 1..6, DaysPerMonth <- 2, MonthsPerYear <- 2, MaxRecords <- 2, Saved <- 16

Devices == INSTANCE TokenCache WITH
  device <- a1, system <- a2, request <- a3, requests <- a4, faults <- a5, cache <- a6,
  topic <- a7, tasks <- a8, mixed <- a9, left <- a10, late <- a11,
  Tokens <- DeviceTokens, Platforms <- DevicePlatforms, Empty <- Blank,
  MaxRequests <- TokenRequests, MaxFaults <- TokenFaults

ASSUME DevicesAssumption == Devices!ConstantsAssumption

Board == INSTANCE AnnouncementBoard WITH
  row <- a1, count <- a2, request <- a3, requests <- a4, faults <- a5, content <- a6,
  list <- a7, hits <- a8, raced <- a9, tracked <- a10, views <- a11, late <- a12,
  job <- a13,
  MaxRequests <- BoardRequests, MaxFaults <- BoardFaults

ASSUME BoardAssumption == Board!ConstantsAssumption

Tasks == INSTANCE RecurringTasks WITH
  today <- a1, rule <- a2, run <- a3, requests <- a4, skips <- a5, lock <- a6, fired <- a7,
  tasks <- a8, started <- a9, freed <- a10, complete <- a11, crossed <- a12,
  NoDate <- None, Rules <- NewRules, MaxDays <- TaskDays, MaxRequests <- RuleRequests

ASSUME TasksAssumption == Tasks!ConstantsAssumption

GroupRoles == INSTANCE Roles WITH
  role <- a1, member <- a2, request <- a3, requests <- a4, used <- a5, raced <- a6,
  Ids <- RoleIds, Names <- RoleNames, MaxRequests <- RoleRequests

ASSUME RolesAssumption == GroupRoles!ConstantsAssumption

Annual == INSTANCE Anniversaries WITH
  today <- a1, row <- a2, request <- a3, requests <- a4, stale <- a5, lock <- a6,
  fired <- a7, tasks <- a8, crossed <- a9, freed <- a10, through <- a11, since <- a12,
  Creations <- NewAnniversaries, Changes <- NewDates, Linked <- TaskOffsets,
  Ahead <- DaysAhead, MaxDays <- AnniversaryDays, MaxRequests <- AnniversaryRequests

ASSUME AnniversaryAssumption == Annual!ConstantsAssumption

Codes == INSTANCE EmailCodes WITH
  kept <- a1, mailed <- a2, request <- a3, requests <- a4, faults <- a5, drawn <- a6,
  user <- a7, trials <- a8, spent <- a9, shared <- a10,
  MaxRequests <- CodeRequests, MaxFaults <- CodeFaults

ASSUME CodesAssumption == Codes!ConstantsAssumption

Reports == INSTANCE GroupReports WITH
  reports <- a1, counter <- a2, request <- a3, requests <- a4, faults <- a5, made <- a6,
  missed <- a7, decided <- a8, raced <- a9,
  MaxRequests <- ReportRequests, MaxFaults <- ReportFaults

ASSUME ReportsAssumption == Reports!ConstantsAssumption

Pauses == {{}} \cup {{[from |-> f, to |-> t]} : f \in 2..4, t \in {None, 4, 5}}
             \cup {{[from |-> 1, to |-> 2], [from |-> 4, to |-> None]}}
Frequency(type) == [type |-> type, days |-> {}, target |-> 0]

Streaks == INSTANCE RoutineStats WITH
  input <- a1, MaxDays <- 5, WeekLen <- 2, MonthLen <- 3, Pauses <- Pauses,
  Frequencies <- {Frequency("DAILY"), [Frequency("COUNT") EXCEPT !.target = 1],
                  [Frequency("FIXED") EXCEPT !.days = {1}],
                  [Frequency("MONTHLY") EXCEPT !.target = 2]}

Api == INSTANCE HttpApi WITH input <- a1

-----------------------------------------------------------------------------
Init ==
  \/ service = "savings"       /\ Savings!Init
  \/ service = "memos"         /\ Memos!Init      /\ Idle9
  \/ service = "shopping"      /\ Shop!Init       /\ Idle14
  \/ service = "subscriptions" /\ Subs!Init       /\ Idle15
  \/ service = "recurring"     /\ Recurring!Init  /\ Idle15
  \/ service = "budgets"       /\ Budget!Init     /\ Idle8
  \/ service = "statistics"    /\ Statistics!Init /\ Idle2
  \/ service = "votes"         /\ Vote!Init       /\ Idle9
  \/ service = "questions"     /\ Question!Init   /\ Idle8
  \/ service = "routines"      /\ Routine!Init    /\ Idle13
  \/ service = "alerts"        /\ Alert!Init      /\ Idle14
  \/ service = "assets"        /\ Assets!Init     /\ Idle13
  \/ service = "trends"        /\ Trends!Init     /\ Idle2
  \/ service = "streaks"       /\ Streaks!Init    /\ Idle2
  \/ service = "tokens"        /\ Devices!Init    /\ Idle12
  \/ service = "board"         /\ Board!Init      /\ Idle14
  \/ service = "tasks"         /\ Tasks!Init      /\ Idle13
  \/ service = "roles"         /\ GroupRoles!Init /\ Idle7
  \/ service = "anniversaries" /\ Annual!Init     /\ Idle13
  \/ service = "codes"         /\ Codes!Init      /\ Idle11
  \/ service = "reports"       /\ Reports!Init    /\ Idle10
  \/ service = "api"           /\ Api!Init        /\ Idle2

\* HouseholdStatistics, AssetTrends, RoutineStats and HttpApi only compute.
Next ==
  /\ \/ service = "savings"       /\ Savings!Next
     \/ service = "memos"         /\ Memos!Next     /\ UNCHANGED From9
     \/ service = "shopping"      /\ Shop!Next      /\ UNCHANGED From14
     \/ service = "subscriptions" /\ Subs!Next      /\ UNCHANGED From15
     \/ service = "recurring"     /\ Recurring!Next /\ UNCHANGED From15
     \/ service = "budgets"       /\ Budget!Next    /\ UNCHANGED From8
     \/ service = "votes"         /\ Vote!Next      /\ UNCHANGED From9
     \/ service = "questions"     /\ Question!Next  /\ UNCHANGED From8
     \/ service = "routines"      /\ Routine!Next   /\ UNCHANGED From13
     \/ service = "alerts"        /\ Alert!Next     /\ UNCHANGED From14
     \/ service = "assets"        /\ Assets!Next    /\ UNCHANGED From13
     \/ service = "tokens"        /\ Devices!Next   /\ UNCHANGED From12
     \/ service = "board"         /\ Board!Next     /\ UNCHANGED From14
     \/ service = "tasks"         /\ Tasks!Next     /\ UNCHANGED From13
     \/ service = "roles"         /\ GroupRoles!Next /\ UNCHANGED From7
     \/ service = "anniversaries" /\ Annual!Next  /\ UNCHANGED From13
     \/ service = "codes"         /\ Codes!Next   /\ UNCHANGED From11
     \/ service = "reports"       /\ Reports!Next /\ UNCHANGED From10
  /\ UNCHANGED service

Spec == Init /\ [][Next]_vars

-----------------------------------------------------------------------------
TypeOK ==
  /\ service = "savings"       => Savings!TypeOK
  /\ service = "memos"         => Memos!TypeOK
  /\ service = "shopping"      => Shop!TypeOK
  /\ service = "subscriptions" => Subs!TypeOK
  /\ service = "recurring"     => Recurring!TypeOK
  /\ service = "budgets"       => Budget!TypeOK
  /\ service = "votes"         => Vote!TypeOK
  /\ service = "questions"     => Question!TypeOK
  /\ service = "routines"      => Routine!TypeOK
  /\ service = "alerts"        => Alert!TypeOK
  /\ service = "assets"        => Assets!TypeOK
  /\ service = "tokens"        => Devices!TypeOK
  /\ service = "board"         => Board!TypeOK
  /\ service = "tasks"         => Tasks!TypeOK
  /\ service = "roles"         => GroupRoles!TypeOK
  /\ service = "anniversaries" => Annual!TypeOK
  /\ service = "codes"         => Codes!TypeOK
  /\ service = "reports"       => Reports!TypeOK

\* See SavingsGoals: an automatic deposit once a month, missed on no good day.
DepositedOncePerMonth == service = "savings" => Savings!DepositedOncePerMonth

\* See SavingsGoals: no goal is withdrawn below zero.
AmountsCovered == service = "savings" => Savings!AmountsCovered

\* See MemoLocks: no text of another is written against a lock.
EditsRespectLock == [][service = "memos" => Memos!RespectsLock]_vars

\* See MemoLocks: two clients are never both within a lease.
OneEditor == service = "memos" => Memos!OneEditor

\* See ShoppingFridge: what leaves the cart by a purchase was bought, once.
BoughtOnce == service = "shopping" => Shop!BoughtOnce

\* See Subscriptions: the record is of the newest version written.
RecordIsNewest == service = "subscriptions" => Subs!RecordIsNewest

\* See Subscriptions: no paid tier without a record of it.
PaidTierIsRecorded == service = "subscriptions" => Subs!PaidTierIsRecorded

\* What a job is to do once is done once, and by every undisturbed run.  See
\* RecurringExpenses and Alerts.
JobsRunOnce ==
  /\ service = "recurring" => Recurring!GeneratedOnce
  /\ service = "alerts"    => Alert!RemindedOnce

\* Rows that no constraint of the database keeps together agree, unless requests that
\* read before they write have crossed.  See Budgets, Votes, Questions, Routines,
\* AccountRecords, Roles, Anniversaries and GroupReports.
RowsAgree ==
  /\ service = "budgets"   => Budget!OneBudgetPerKey
  /\ service = "votes"     => Vote!BallotsFollowChoice
  /\ service = "questions" => Question!AnswersFitQuestion
  /\ service = "routines"  => Routine!RoutineTablesAgree
  /\ service = "assets"    => Assets!RecordsMakeOneHistory
  /\ service = "roles"     => GroupRoles!RolesAgree
  /\ service = "anniversaries" => Annual!TasksFollowAnniversary
  /\ service = "reports"   => Reports!ReportsBounded

\* Two computations of one thing agree, what is generated is what the rule says, and a
\* request reaches the route that is meant for it, with the right to it.  See
\* HouseholdStatistics, AssetTrends, RoutineStats, RecurringTasks and HttpApi.
AlgorithmsAgree ==
  /\ service = "statistics" => Statistics!StatisticsAgree
  /\ service = "trends"     => Trends!TrendsAgree
  /\ service = "streaks"    => Streaks!StatsAgree
  /\ service = "tasks"      => Tasks!GeneratedAsRuled
  /\ service = "api"        => Api!AccessFits

\* See EmailCodes: a code sets a password once, and the trial is given once.
CodesWorkOnce == service = "codes" => Codes!CodesWorkOnce

\* Copies in Redis are those of the rows, and counts kept there reach them.  See
\* TokenCache and AnnouncementBoard.
CachesFollowTables ==
  /\ service = "tokens" => Devices!TokenCopiesAgree
  /\ service = "board"  => Board!BoardFollowsRow

\* Servers run the same code, and so do requests.
Symmetry == Permutations(Handlers) \cup Permutations(Servers)

=============================================================================
