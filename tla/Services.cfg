SPECIFICATION Spec
CONSTANTS
  None = None
  Keep = Keep
  o1 = o1
  o2 = o2
  Handlers = {h1, h2}
  Servers = {s1, s2}
  Goals = {n1}
  Calendar <- ThreeDays
  NewGoals <- OneGoal
  Changes <- GoalChanges
  Amounts = {1}
  SavingsRequests = 3
  SavingsFaults = 1
  Users = {u1, u2}
  Writer = u1
  Texts = {t1}
  Ttl = 1
  MemoRequests = 4
  MaxTicks = 2
  Period = 1
  Day = 1
  Events = {"active", "revoked"}
  MaxTime = 3
  MaxVersions = 3
  SubscriptionRequests = 1
  Names = {t1}
  Frequents = {n1}
  Storages = {o1}
  MaxItems = 3
  MaxStock = 2
  ShopRequests = 5
  ShopFaults = 1
  Targets = {o1, o2}
  Limit = 1
  ReportRequests = 4
  ReportFaults = 1
  Recs = {n1}
  Creators = {h1}
  NewRecs <- TwoRecs
  RecChanges <- RecurringChanges
  RecRequests = 2
  RecFaults = 1
  AlertUnits = {o1, o2}
  Recipients = {u1}
  AlertChanges = 1
  AlertFaults = 1
  DeviceTokens = {o1, o2}
  DevicePlatforms = {t1}
  Blank = n1
  TokenRequests = 3
  TokenFaults = 1
  BoardRequests = 3
  BoardFaults = 1
  CodeRequests = 5
  CodeFaults = 1
  Readers = {u1, u2, u3}
  Author = u1
  Admin = u2
  Answers = {o1, o2}
  QuestionRequests = 5
  QuestionWeeks = 1
  Voters = {u1, u2}
  VoteOwner = u1
  Options = {o1, o2}
  VoteRequests = 4
  Categories = {o1}
  Whole = t1
  BudgetMonths = 2
  BudgetRequests = 3
  RoleIds = {1, 2, 3, 4}
  RoleNames = {"ADMIN", "GUEST"}
  RoleRequests = 3
  RoutineBadges = {1, 2}
  NewRoutines <- TwoRoutines
  RoutineUpdates <- RoutineChanges
  RoutineDays = 2
  RoutineRequests = 5
  RoutineFaults = 1
  WeekLen = 3
  LastWeek = 3
  MonthStarts <- FourMonths
  MonthsPerYear = 2
  Holidays = {5}
  NewRules <- TaskRules
  TaskDays = 2
  RuleRequests <- ChangesOfRules
  NewAnniversaries <- TwoAnniversaries
  NewDates <- AnniversaryChanges
  TaskOffsets <- OneOffset
  Hundred = 2
  Year = 3
  DaysAhead = 3
  AnniversaryDays = 2
  AnniversaryRequests = 3
  RecordDates = {1, 2}
  MonthFirsts = {2}
  RecordInputs <- RecordForms
  Withdrawals <- WithdrawalForms
  GoldPrices = {1}
  RecordsEver = 3
  RecordFaults = 1
SYMMETRY Symmetry
INVARIANTS
  TypeOK
  DepositedOncePerMonth
  AmountsCovered
  OneEditor
  BoughtOnce
  
  PaidTierIsRecorded
  JobsRunOnce
  
  
  CodesWorkOnce
  
PROPERTIES
  EditsRespectLock
CHECK_DEADLOCK FALSE
