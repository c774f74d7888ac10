--------------------------- MODULE MCServicesProofs ---------------------------
(***************************************************************************)
(* What is proved of the services one by one, as the properties of            *)
(* MCServices.  A behaviour of MCServices is one of the service that is       *)
(* exercised, and that service, with its variables and parameters, is an      *)
(* instance of the module whose theorems are used.                          *)
(***************************************************************************)
EXTENDS MCServices, TLAPS

-----------------------------------------------------------------------------
\* The memos, the reports, the subscriptions, the cart with the fridge, the alert jobs,
\* the recurring expenses, the savings goals and the routines.
Proved == INSTANCE ServicesProofs WITH
  request <- a3, requests <- a4,
  memo <- a1, editLock <- a2, ticks <- a5, lease <- a6, early <- a7, blind <- a8,
  reports <- a1, counter <- a2, faults <- a5, made <- a6, missed <- a7, decided <- a8,
  raced <- a9,
  platform <- a1, now <- a2, store <- a3, notices <- a5, sub <- a6, user <- a7,
  report <- a8, restore <- a9, version <- a10, newest <- a11, bare <- a12, skewed <- a13,
  granted <- a14,
  cart <- a1, fridge <- a2, frequent <- a6, storages <- a7, carts <- a8, stocked <- a9,
  bought <- a10, emptied <- a11, late <- a12, twice <- a13,
  fired <- a6, run <- a7,
  job <- a1, due <- a2, members <- a3, lock <- a4, sent <- a8, changes <- a9, runs <- a10,
  again <- a11, steady <- a12, trouble <- a13,
  today <- a1, recs <- a2, gone <- a8, expenses <- a9, up <- a10, since <- a11,
  crossed <- a12, shifted <- a13, troubled <- a14,
  goals <- a2, autoRows <- a9, jobLock <- a13, overran <- a15,
  routine <- a2, pauses <- a6, logs <- a7, earned <- a8, group <- a9, category <- a10,
  misread <- a11, unjudged <- a12

-----------------------------------------------------------------------------
(* The edit lock of a memo (MemoLocks).                                    *)

\* Its parameters fit.
LEMMA MemosFit == Proved!Memos!ConstantsAssumption
BY MemosAssumption DEF MemosAssumption,
     Memos!Lock, Memos!ConstantsAssumption, Proved!Memos!Lock,
     Proved!Memos!ConstantsAssumption

\* The service is another one throughout, or the behaviour is one of this service, as the two
\* instances have the same definitions.
LEMMA MemosRun == Spec => []~(service = "memos") \/ Proved!Memos!Spec
<1>1. Init /\ service = "memos" => Proved!Memos!Init
  BY DEF Init,
     Memos!Init, Proved!Memos!Init
<1>2. [Memos!Next]_Memos!vars => [Proved!Memos!Next]_Proved!Memos!vars
  BY DEF
     Memos!vars, Memos!Holds, Memos!CanRead, Memos!NewRequest, Memos!Begin, Memos!End,
     Memos!At, Memos!UpdateRead, Memos!UpdateCheck, Memos!UpdateWrite, Memos!RemoveRead,
     Memos!RemoveWrite, Memos!PinRead, Memos!PinWrite, Memos!Checked, Memos!Acquire,
     Memos!AcquireLook, Memos!AcquireRenew, Memos!Heartbeat, Memos!ReleaseLock,
     Memos!Tick, Memos!Edit, Memos!Locking, Memos!Next, Proved!Memos!vars,
     Proved!Memos!Holds, Proved!Memos!CanRead, Proved!Memos!NewRequest,
     Proved!Memos!Begin, Proved!Memos!End, Proved!Memos!At, Proved!Memos!UpdateRead,
     Proved!Memos!UpdateCheck, Proved!Memos!UpdateWrite, Proved!Memos!RemoveRead,
     Proved!Memos!RemoveWrite, Proved!Memos!PinRead, Proved!Memos!PinWrite,
     Proved!Memos!Checked, Proved!Memos!Acquire, Proved!Memos!AcquireLook,
     Proved!Memos!AcquireRenew, Proved!Memos!Heartbeat, Proved!Memos!ReleaseLock,
     Proved!Memos!Tick, Proved!Memos!Edit, Proved!Memos!Locking, Proved!Memos!Next
<1>3. [Next]_vars => /\ service = "memos" <=> (service = "memos")'
                     /\ service = "memos" => [Memos!Next]_Memos!vars
  BY DEF Next, vars, Memos!vars
<1> QED BY <1>1, <1>2, <1>3, PTL DEF Spec, Proved!Memos!Spec

\* So the service keeps its types.
LEMMA MemosTyped == Spec => [](service = "memos" => Memos!TypeOK)
<1>1. Proved!Memos!Spec => []Proved!Memos!TypeOK
  BY MemosFit, Proved!MemosTypeCorrect
<1>2. Proved!Memos!TypeOK => Memos!TypeOK
  BY DEF
     Memos!Memo, Memos!Lock, Memos!Request, Memos!TypeOK, Proved!Memos!Memo,
     Proved!Memos!Lock, Proved!Memos!Request, Proved!Memos!TypeOK
<1> QED BY <1>1, <1>2, MemosRun, PTL

\* Two clients are never both within a lease they were told of, unless a renewal failed
\* unnoticed (acquireLock, heartbeat, releaseLock and the time limit).
THEOREM OneEditorHolds == Spec => []OneEditor
<1>1. Proved!Memos!Spec => []Proved!Memos!OneEditor
  BY MemosFit, Proved!OneEditorHolds
<1>2. (service = "memos" => Proved!Memos!OneEditor) => OneEditor
  BY DEF OneEditor, Memos!OneEditor, Proved!Memos!OneEditor
<1> QED BY <1>1, <1>2, MemosRun, PTL

\* While one member holds the lock another's text is not written, but by an edit that had
\* looked at the lock before it was taken (update, verifyLockOwnership).
THEOREM EditsRespectLockHolds == Spec => EditsRespectLock
<1>1. Proved!Memos!Spec => Proved!Memos!EditsRespectLock
  BY MemosFit, Proved!EditsRespectLockHolds
<1>2. [Proved!Memos!RespectsLock]_Proved!Memos!vars
      => [service = "memos" => Memos!RespectsLock]_vars
  <2>1. Proved!Memos!RespectsLock => Memos!RespectsLock
    BY DEF Memos!RespectsLock, Memos!Checked, Memos!At, Memos!Holds,
       Proved!Memos!RespectsLock, Proved!Memos!Checked, Proved!Memos!At, Proved!Memos!Holds
  <2>2. UNCHANGED Proved!Memos!vars => Memos!RespectsLock
    BY DEF Proved!Memos!vars, Memos!RespectsLock, Memos!Checked, Memos!At
  <2> QED BY <2>1, <2>2
<1>3. ~(service = "memos") => [service = "memos" => Memos!RespectsLock]_vars
  OBVIOUS
<1> QED BY <1>1, <1>2, <1>3, MemosRun, PTL DEF EditsRespectLock, Proved!Memos!EditsRespectLock

-----------------------------------------------------------------------------
(* The reports of a group (GroupReports).                                  *)

\* Its parameters fit.
LEMMA ReportsFit == Proved!Reports!ConstantsAssumption
BY ReportsAssumption DEF ReportsAssumption,
     Reports!Decisions, Reports!Statuses, Reports!Request, Reports!ConstantsAssumption,
     Proved!Reports!Decisions, Proved!Reports!Statuses, Proved!Reports!Request,
     Proved!Reports!ConstantsAssumption

\* The service is another one throughout, or the behaviour is one of this service, as the two
\* instances have the same definitions.
LEMMA ReportsRun == Spec => []~(service = "reports") \/ Proved!Reports!Spec
<1>1. Init /\ service = "reports" => Proved!Reports!Init
  BY DEF Init,
     Reports!Init, Proved!Reports!Init
<1>2. [Reports!Next]_Reports!vars => [Proved!Reports!Next]_Proved!Reports!vars
  BY DEF
     Reports!ghosts, Reports!vars, Reports!Decisions, Reports!Begin, Reports!At,
     Reports!Done, Reports!Reporting, Reports!Report, Reports!Look, Reports!Create,
     Reports!Count, Reports!SetCount, Reports!CountFails, Reports!Expire,
     Reports!ResolveRead, Reports!ResolveWrite, Reports!Next, Proved!Reports!ghosts,
     Proved!Reports!vars, Proved!Reports!Decisions, Proved!Reports!Begin,
     Proved!Reports!At, Proved!Reports!Done, Proved!Reports!Reporting,
     Proved!Reports!Report, Proved!Reports!Look, Proved!Reports!Create,
     Proved!Reports!Count, Proved!Reports!SetCount, Proved!Reports!CountFails,
     Proved!Reports!Expire, Proved!Reports!ResolveRead, Proved!Reports!ResolveWrite,
     Proved!Reports!Next
<1>3. [Next]_vars => /\ service = "reports" <=> (service = "reports")'
                     /\ service = "reports" => [Reports!Next]_Reports!vars
  BY DEF Next, vars, Reports!ghosts, Reports!vars
<1> QED BY <1>1, <1>2, <1>3, PTL DEF Spec, Proved!Reports!Spec

\* So the service keeps its types.
LEMMA ReportsTyped == Spec => [](service = "reports" => Reports!TypeOK)
<1>1. Proved!Reports!Spec => []Proved!Reports!TypeOK
  BY ReportsFit, Proved!ReportsTypeCorrect
<1>2. Proved!Reports!TypeOK => Reports!TypeOK
  BY DEF
     Reports!Decisions, Reports!Statuses, Reports!Request, Reports!TypeOK,
     Proved!Reports!Decisions, Proved!Reports!Statuses, Proved!Reports!Request,
     Proved!Reports!TypeOK
<1> QED BY <1>1, <1>2, ReportsRun, PTL

\* No more than Limit reports are made before a day without one, unless two were on their
\* way at once or one could not be counted; and the first decision stays, unless two were
\* made at once (reportMember, adminResolveReport).
THEOREM ReportsBoundedHolds == Spec => [](service = "reports" => Reports!ReportsBounded)
<1>1. Proved!Reports!Spec => []Proved!Reports!ReportsBounded
  BY ReportsFit, Proved!ReportsBoundedHolds
<1>2. Proved!Reports!ReportsBounded => Reports!ReportsBounded
  BY DEF Reports!ReportsBounded, Proved!Reports!ReportsBounded
<1> QED BY <1>1, <1>2, ReportsRun, PTL

-----------------------------------------------------------------------------
(* The subscription of a user (Subscriptions).                             *)

\* Its parameters fit.
LEMMA SubsFit == Proved!Subs!ConstantsAssumption
BY SubscriptionsAssumption DEF SubscriptionsAssumption,
     Subs!Statuses, Subs!Time, Subs!Subscription, Subs!ConstantsAssumption,
     Proved!Subs!Statuses, Proved!Subs!Time, Proved!Subs!Subscription,
     Proved!Subs!ConstantsAssumption

\* The service is another one throughout, or the behaviour is one of this service, as the two
\* instances have the same definitions.
LEMMA SubsRun == Spec => []~(service = "subscriptions") \/ Proved!Subs!Spec
<1>1. Init /\ service = "subscriptions" => Proved!Subs!Init
  BY DEF Init,
     Subs!Platforms, Subs!Init, Proved!Subs!Platforms, Proved!Subs!Init
<1>2. [Subs!Next]_Subs!vars => [Proved!Subs!Next]_Proved!Subs!vars
  BY DEF
     Subs!Entitled, Subs!storeVars, Subs!ghostVars, Subs!vars, Subs!Latest,
     Subs!StoreEvent, Subs!Tick, Subs!Status, Subs!Apply, Subs!Expire, Subs!Fetch,
     Subs!VerifyFetch, Subs!ReconcileFetch, Subs!GoogleNotice, Subs!ApplyReport,
     Subs!AppleNotice, Subs!NoticeLost, Subs!NewRequest, Subs!RestoreRead,
     Subs!RestoreWrite, Subs!Trial, Subs!AdminUpdate, Subs!Store, Subs!Server, Subs!Next,
     Proved!Subs!Entitled, Proved!Subs!storeVars, Proved!Subs!ghostVars,
     Proved!Subs!vars, Proved!Subs!Latest, Proved!Subs!StoreEvent, Proved!Subs!Tick,
     Proved!Subs!Status, Proved!Subs!Apply, Proved!Subs!Expire, Proved!Subs!Fetch,
     Proved!Subs!VerifyFetch, Proved!Subs!ReconcileFetch, Proved!Subs!GoogleNotice,
     Proved!Subs!ApplyReport, Proved!Subs!AppleNotice, Proved!Subs!NoticeLost,
     Proved!Subs!NewRequest, Proved!Subs!RestoreRead, Proved!Subs!RestoreWrite,
     Proved!Subs!Trial, Proved!Subs!AdminUpdate, Proved!Subs!Store, Proved!Subs!Server,
     Proved!Subs!Next
<1>3. [Next]_vars => /\ service = "subscriptions" <=> (service = "subscriptions")'
                     /\ service = "subscriptions" => [Subs!Next]_Subs!vars
  BY DEF Next, vars, Subs!storeVars, Subs!ghostVars, Subs!vars
<1> QED BY <1>1, <1>2, <1>3, PTL DEF Spec, Proved!Subs!Spec

\* So the service keeps its types.
LEMMA SubsTyped == Spec => [](service = "subscriptions" => Subs!TypeOK)
<1>1. Proved!Subs!Spec => []Proved!Subs!TypeOK
  BY SubsFit, Proved!SubscriptionsTypeCorrect
<1>2. Proved!Subs!TypeOK => Subs!TypeOK
  BY DEF
     Subs!Platforms, Subs!Statuses, Subs!Tiers, Subs!Latest, Subs!Time,
     Subs!Subscription, Subs!TypeOK, Proved!Subs!Platforms, Proved!Subs!Statuses,
     Proved!Subs!Tiers, Proved!Subs!Latest, Proved!Subs!Time, Proved!Subs!Subscription,
     Proved!Subs!TypeOK
<1> QED BY <1>1, <1>2, SubsRun, PTL

\* The record is of the newest version ever written, unless a version was applied under the
\* time of another, or a notice of the end came out of order (applyVerifiedPurchase).
THEOREM RecordIsNewestHolds == Spec => []RecordIsNewest
<1>1. Proved!Subs!Spec => []Proved!Subs!RecordIsNewest
  BY SubsFit, Proved!RecordIsNewestHolds
<1>2. (service = "subscriptions" => Proved!Subs!RecordIsNewest) => RecordIsNewest
  BY DEF RecordIsNewest, Subs!RecordIsNewest, Proved!Subs!RecordIsNewest
<1> QED BY <1>1, <1>2, SubsRun, PTL

\* A user has the paid tier only while the record says so, or an admin gave it
\* (applyVerifiedPurchase, expireSubscription).
THEOREM PaidTierIsRecordedHolds == Spec => []PaidTierIsRecorded
<1>1. Proved!Subs!Spec => []Proved!Subs!PaidTierIsRecorded
  BY SubsFit, Proved!PaidTierIsRecordedHolds
<1>2. (service = "subscriptions" => Proved!Subs!PaidTierIsRecorded) => PaidTierIsRecorded
  BY DEF PaidTierIsRecorded, Subs!PaidTierIsRecorded, Proved!Subs!PaidTierIsRecorded,
     Subs!Entitled, Proved!Subs!Entitled
<1> QED BY <1>1, <1>2, SubsRun, PTL

-----------------------------------------------------------------------------
(* The cart and the fridge of a group (ShoppingFridge).                    *)

\* Its parameters fit.
LEMMA ShopFit == Proved!Shop!ConstantsAssumption
BY ShopAssumption DEF ShopAssumption,
     Shop!ConstantsAssumption, Proved!Shop!ConstantsAssumption

\* The service is another one throughout, or the behaviour is one of this service, as the two
\* instances have the same definitions.
LEMMA ShopRun == Spec => []~(service = "shopping") \/ Proved!Shop!Spec
<1>1. Init /\ service = "shopping" => Proved!Shop!Init
  BY DEF Init,
     Shop!Items, Shop!Stock, Shop!Init, Proved!Shop!Items, Proved!Shop!Stock,
     Proved!Shop!Init
<1>2. [Shop!Next]_Shop!vars => [Proved!Shop!Next]_Proved!Shop!vars
  BY DEF
     Shop!Items, Shop!Stock, Shop!fridgeVars, Shop!boughtVars, Shop!vars, Shop!InCart,
     Shop!InFridge, Shop!NewRequest, Shop!Begin, Shop!End, Shop!At, Shop!LinkOf,
     Shop!SyncCart, Shop!RenameCartItem, Shop!RemoveCartItem, Shop!ReadByOthers,
     Shop!CompleteRead, Shop!Emptied, Shop!Shelve, Shop!CompleteWrite,
     Shop!CreateFridgeItem, Shop!RenameFridgeItem, Shop!Wanted, Shop!ConsumeRead,
     Shop!ConsumeDelete, Shop!RestockLook, Shop!RestockCreate, Shop!RestockDone,
     Shop!RestockCut, Shop!DeleteStorage, Shop!SetFrequent, Shop!DeleteFrequent,
     Shop!Cart, Shop!Fridge, Shop!Next, Proved!Shop!Items, Proved!Shop!Stock,
     Proved!Shop!fridgeVars, Proved!Shop!boughtVars, Proved!Shop!vars,
     Proved!Shop!InCart, Proved!Shop!InFridge, Proved!Shop!NewRequest, Proved!Shop!Begin,
     Proved!Shop!End, Proved!Shop!At, Proved!Shop!LinkOf, Proved!Shop!SyncCart,
     Proved!Shop!RenameCartItem, Proved!Shop!RemoveCartItem, Proved!Shop!ReadByOthers,
     Proved!Shop!CompleteRead, Proved!Shop!Emptied, Proved!Shop!Shelve,
     Proved!Shop!CompleteWrite, Proved!Shop!CreateFridgeItem,
     Proved!Shop!RenameFridgeItem, Proved!Shop!Wanted, Proved!Shop!ConsumeRead,
     Proved!Shop!ConsumeDelete, Proved!Shop!RestockLook, Proved!Shop!RestockCreate,
     Proved!Shop!RestockDone, Proved!Shop!RestockCut, Proved!Shop!DeleteStorage,
     Proved!Shop!SetFrequent, Proved!Shop!DeleteFrequent, Proved!Shop!Cart,
     Proved!Shop!Fridge, Proved!Shop!Next
<1>3. [Next]_vars => /\ service = "shopping" <=> (service = "shopping")'
                     /\ service = "shopping" => [Shop!Next]_Shop!vars
  BY DEF Next, vars, Shop!fridgeVars, Shop!boughtVars, Shop!vars
<1> QED BY <1>1, <1>2, <1>3, PTL DEF Spec, Proved!Shop!Spec

\* So the service keeps its types.
LEMMA ShopTyped == Spec => [](service = "shopping" => Shop!TypeOK)
<1>1. Proved!Shop!Spec => []Proved!Shop!TypeOK
  BY ShopFit, Proved!ShopTypeCorrect
<1>2. Proved!Shop!TypeOK => Shop!TypeOK
  BY DEF
     Shop!Items, Shop!Stock, Shop!Link, Shop!CartItem, Shop!FridgeItem, Shop!Entry,
     Shop!Completion, Shop!Consumption, Shop!TypeOK, Proved!Shop!Items,
     Proved!Shop!Stock, Proved!Shop!Link, Proved!Shop!CartItem, Proved!Shop!FridgeItem,
     Proved!Shop!Entry, Proved!Shop!Completion, Proved!Shop!Consumption,
     Proved!Shop!TypeOK
<1> QED BY <1>1, <1>2, ShopRun, PTL

\* What a completion takes out of the cart was recorded as bought, once: but for items that
\* came in after it had read the cart, and items that two completions read (completeShopping).
THEOREM BoughtOnceHolds == Spec => []BoughtOnce
<1>1. Proved!Shop!Spec => []Proved!Shop!BoughtOnce
  BY ShopFit, Proved!BoughtOnceHolds
<1>2. (service = "shopping" => Proved!Shop!BoughtOnce) => BoughtOnce
  BY DEF BoughtOnce, Shop!BoughtOnce, Proved!Shop!BoughtOnce, Shop!Items, Proved!Shop!Items
<1> QED BY <1>1, <1>2, ShopRun, PTL

-----------------------------------------------------------------------------
(* The daily jobs that remind (Alerts).                                    *)

\* Its parameters fit.
LEMMA AlertFit == Proved!Alert!ConstantsAssumption
BY AlertAssumption DEF AlertAssumption,
     Alert!ConstantsAssumption, Alert!IsFiniteSet, Proved!Alert!ConstantsAssumption,
     Proved!Alert!IsFiniteSet

\* The service is another one throughout, or the behaviour is one of this service, as the two
\* instances have the same definitions.
LEMMA AlertRun == Spec => []~(service = "alerts") \/ Proved!Alert!Spec
<1>1. Init /\ service = "alerts" => Proved!Alert!Init
  BY DEF Init,
     Alert!RoutineDaily, Alert!RoutineWeekly, Alert!RecordReminder, Alert!ExpiryAlert,
     Alert!WeatherAlert, Alert!Jobs, Alert!Idle, Alert!Init, Proved!Alert!RoutineDaily,
     Proved!Alert!RoutineWeekly, Proved!Alert!RecordReminder, Proved!Alert!ExpiryAlert,
     Proved!Alert!WeatherAlert, Proved!Alert!Jobs, Proved!Alert!Idle, Proved!Alert!Init
<1>2. [Alert!Next]_Alert!vars => [Proved!Alert!Next]_Proved!Alert!vars
  BY DEF
     Alert!vars, Alert!Idle, Alert!Change, Alert!ChangeDue, Alert!ChangeMember,
     Alert!Pairs, Alert!Fire, Alert!List, Alert!Unit, Alert!Send, Alert!Fails,
     Alert!Finish, Alert!LockExpires, Alert!Next, Proved!Alert!vars, Proved!Alert!Idle,
     Proved!Alert!Change, Proved!Alert!ChangeDue, Proved!Alert!ChangeMember,
     Proved!Alert!Pairs, Proved!Alert!Fire, Proved!Alert!List, Proved!Alert!Unit,
     Proved!Alert!Send, Proved!Alert!Fails, Proved!Alert!Finish,
     Proved!Alert!LockExpires, Proved!Alert!Next
<1>3. [Next]_vars => /\ service = "alerts" <=> (service = "alerts")'
                     /\ service = "alerts" => [Alert!Next]_Alert!vars
  BY DEF Next, vars, Alert!vars
<1> QED BY <1>1, <1>2, <1>3, PTL DEF Spec, Proved!Alert!Spec

\* So the service keeps its types.
LEMMA AlertTyped == Spec => [](service = "alerts" => Alert!TypeOK)
<1>1. Proved!Alert!Spec => []Proved!Alert!TypeOK
  BY AlertFit, Proved!AlertsTypeCorrect
<1>2. Proved!Alert!TypeOK => Alert!TypeOK
  BY DEF
     Alert!RoutineDaily, Alert!RoutineWeekly, Alert!RecordReminder, Alert!ExpiryAlert,
     Alert!WeatherAlert, Alert!Jobs, Alert!Run, Alert!TypeOK, Alert!Cardinality,
     Proved!Alert!RoutineDaily, Proved!Alert!RoutineWeekly, Proved!Alert!RecordReminder,
     Proved!Alert!ExpiryAlert, Proved!Alert!WeatherAlert, Proved!Alert!Jobs,
     Proved!Alert!Run, Proved!Alert!TypeOK, Proved!Alert!Cardinality
<1> QED BY <1>1, <1>2, AlertRun, PTL

-----------------------------------------------------------------------------
(* The recurring expenses (RecurringExpenses).                             *)

\* Its parameters fit.
LEMMA RecurringFit == Proved!Recurring!ConstantsAssumption
BY RecurringAssumption DEF RecurringAssumption,
     Recurring!Days, Recurring!Months, Recurring!Rec, Recurring!ConstantsAssumption,
     Proved!Recurring!Days, Proved!Recurring!Months, Proved!Recurring!Rec,
     Proved!Recurring!ConstantsAssumption

\* The service is another one throughout, or the behaviour is one of this service, as the two
\* instances have the same definitions.
LEMMA RecurringRun == Spec => []~(service = "recurring") \/ Proved!Recurring!Spec
<1>1. Init /\ service = "recurring" => Proved!Recurring!Init
  BY DEF Init,
     Recurring!Days, Recurring!Dates, Recurring!Idle, Recurring!Init,
     Proved!Recurring!Days, Proved!Recurring!Dates, Proved!Recurring!Idle,
     Proved!Recurring!Init
<1>2. [Recurring!Next]_Recurring!vars => [Proved!Recurring!Next]_Proved!Recurring!vars
  BY DEF
     Recurring!Days, Recurring!Months, Recurring!LastOf, Recurring!Dates,
     Recurring!jobVars, Recurring!recVars, Recurring!vars, Recurring!Idle,
     Recurring!Live, Recurring!Month, Recurring!Clamp, Recurring!Ended,
     Recurring!MonthsToFill, Recurring!AboutToInsert, Recurring!NewRequest,
     Recurring!Fault, Recurring!Trouble, Recurring!CreateRecurringExpenseDto,
     Recurring!UpdateRecurringExpenseDto, Recurring!CreateRecurring,
     Recurring!BackfillLook, Recurring!BackfillMake, Recurring!BackfillCut,
     Recurring!Given, Recurring!UpdateRecurring, Recurring!RemoveRecurring,
     Recurring!MoveExpense, Recurring!RemoveExpense, Recurring!Fire, Recurring!EndOver,
     Recurring!Look, Recurring!Generate, Recurring!JobFails, Recurring!Crash,
     Recurring!Boot, Recurring!DayPasses, Recurring!Household, Recurring!Job,
     Recurring!Next, Proved!Recurring!Days, Proved!Recurring!Months,
     Proved!Recurring!LastOf, Proved!Recurring!Dates, Proved!Recurring!jobVars,
     Proved!Recurring!recVars, Proved!Recurring!vars, Proved!Recurring!Idle,
     Proved!Recurring!Live, Proved!Recurring!Month, Proved!Recurring!Clamp,
     Proved!Recurring!Ended, Proved!Recurring!MonthsToFill,
     Proved!Recurring!AboutToInsert, Proved!Recurring!NewRequest, Proved!Recurring!Fault,
     Proved!Recurring!Trouble, Proved!Recurring!CreateRecurringExpenseDto,
     Proved!Recurring!UpdateRecurringExpenseDto, Proved!Recurring!CreateRecurring,
     Proved!Recurring!BackfillLook, Proved!Recurring!BackfillMake,
     Proved!Recurring!BackfillCut, Proved!Recurring!Given,
     Proved!Recurring!UpdateRecurring, Proved!Recurring!RemoveRecurring,
     Proved!Recurring!MoveExpense, Proved!Recurring!RemoveExpense, Proved!Recurring!Fire,
     Proved!Recurring!EndOver, Proved!Recurring!Look, Proved!Recurring!Generate,
     Proved!Recurring!JobFails, Proved!Recurring!Crash, Proved!Recurring!Boot,
     Proved!Recurring!DayPasses, Proved!Recurring!Household, Proved!Recurring!Job,
     Proved!Recurring!Next
<1>3. [Next]_vars => /\ service = "recurring" <=> (service = "recurring")'
                     /\ service = "recurring" => [Recurring!Next]_Recurring!vars
  BY DEF Next, vars, Recurring!jobVars, Recurring!recVars, Recurring!vars
<1> QED BY <1>1, <1>2, <1>3, PTL DEF Spec, Proved!Recurring!Spec

\* So the service keeps its types.
LEMMA RecurringTyped == Spec => [](service = "recurring" => Recurring!TypeOK)
<1>1. Proved!Recurring!Spec => []Proved!Recurring!TypeOK
  BY RecurringFit, Proved!RecurringTypeCorrect
<1>2. Proved!Recurring!TypeOK => Recurring!TypeOK
  BY DEF
     Recurring!Days, Recurring!Months, Recurring!Dates, Recurring!Rec, Recurring!Entry,
     Recurring!Creation, Recurring!Run, Recurring!TypeOK, Proved!Recurring!Days,
     Proved!Recurring!Months, Proved!Recurring!Dates, Proved!Recurring!Rec,
     Proved!Recurring!Entry, Proved!Recurring!Creation, Proved!Recurring!Run,
     Proved!Recurring!TypeOK
<1> QED BY <1>1, <1>2, RecurringRun, PTL

\* A recurring expense makes one expense a month, unless a row was looked up as another
\* was about to insert for it, and none is missed on a day without trouble; a job with a
\* lock reminds nobody twice while no timer fires after the first run is over, and runs
\* without trouble remind everybody of what was due all the time
\* (autoGenerateRecurringExpenses, the schedulers of Alerts).
THEOREM JobsRunOnceHolds == Spec => []JobsRunOnce
<1>1. Proved!Recurring!Spec => []Proved!Recurring!GeneratedOnce
  BY RecurringFit, Proved!GeneratedOnceHolds
<1>2. Proved!Alert!Spec => []Proved!Alert!RemindedOnce
  BY AlertFit, Proved!RemindedOnceHolds
<1>3. Proved!Recurring!GeneratedOnce => Recurring!GeneratedOnce
  BY DEF
     Recurring!Days, Recurring!LastOf, Recurring!Dates, Recurring!Live, Recurring!Clamp,
     Recurring!Ended, Recurring!GeneratedOnce, Proved!Recurring!Days,
     Proved!Recurring!LastOf, Proved!Recurring!Dates, Proved!Recurring!Live,
     Proved!Recurring!Clamp, Proved!Recurring!Ended, Proved!Recurring!GeneratedOnce
<1>4. Proved!Alert!RemindedOnce => Alert!RemindedOnce
  BY DEF
     Alert!Idle, Alert!RemindedOnce, Proved!Alert!Idle, Proved!Alert!RemindedOnce
<1>5. (service = "recurring" => Recurring!GeneratedOnce)
        /\ (service = "alerts" => Alert!RemindedOnce) => JobsRunOnce
  BY DEF JobsRunOnce
<1> QED BY <1>1, <1>2, <1>3, <1>4, <1>5, RecurringRun, AlertRun, PTL

-----------------------------------------------------------------------------
(* The savings goals of a group (SavingsGoals).                            *)

\* Its parameters fit.
LEMMA SavingsFit == Proved!Savings!ConstantsAssumption
BY SavingsAssumption DEF SavingsAssumption,
     Savings!ConstantsAssumption, Proved!Savings!ConstantsAssumption

\* The service is another one throughout, or the behaviour is one of this service, as the two
\* instances have the same definitions.
LEMMA SavingsRun == Spec => []~(service = "savings") \/ Proved!Savings!Spec
<1>1. Init /\ service = "savings" => Proved!Savings!Init
  BY DEF Init,
     Savings!Days, Savings!Months, Savings!Idle, Savings!Init, Proved!Savings!Days,
     Proved!Savings!Months, Proved!Savings!Idle, Proved!Savings!Init
<1>2. [Savings!Next]_Savings!vars => [Proved!Savings!Next]_Proved!Savings!vars
  BY DEF
     Savings!Days, Savings!Months, Savings!jobVars, Savings!goalVars, Savings!vars,
     Savings!Idle, Savings!Exists, Savings!Live, Savings!NewRequest, Savings!Begin,
     Savings!Write, Savings!WriteFails, Savings!CreateGoal, Savings!UpdateRead,
     Savings!Patched, Savings!UpdateWrite, Savings!StatusRead, Savings!StatusWrite,
     Savings!DeleteGoal, Savings!Deposit, Savings!WithdrawRead, Savings!WithdrawWrite,
     Savings!Fault, Savings!Trouble, Savings!DayFits, Savings!Due, Savings!Listed,
     Savings!Fire, Savings!Look, Savings!Release, Savings!Leave, Savings!Pay,
     Savings!Finish, Savings!JobFails, Savings!LockExpires, Savings!Crash, Savings!Boot,
     Savings!DayPasses, Savings!Members, Savings!Job, Savings!Next, Proved!Savings!Days,
     Proved!Savings!Months, Proved!Savings!jobVars, Proved!Savings!goalVars,
     Proved!Savings!vars, Proved!Savings!Idle, Proved!Savings!Exists,
     Proved!Savings!Live, Proved!Savings!NewRequest, Proved!Savings!Begin,
     Proved!Savings!Write, Proved!Savings!WriteFails, Proved!Savings!CreateGoal,
     Proved!Savings!UpdateRead, Proved!Savings!Patched, Proved!Savings!UpdateWrite,
     Proved!Savings!StatusRead, Proved!Savings!StatusWrite, Proved!Savings!DeleteGoal,
     Proved!Savings!Deposit, Proved!Savings!WithdrawRead, Proved!Savings!WithdrawWrite,
     Proved!Savings!Fault, Proved!Savings!Trouble, Proved!Savings!DayFits,
     Proved!Savings!Due, Proved!Savings!Listed, Proved!Savings!Fire, Proved!Savings!Look,
     Proved!Savings!Release, Proved!Savings!Leave, Proved!Savings!Pay,
     Proved!Savings!Finish, Proved!Savings!JobFails, Proved!Savings!LockExpires,
     Proved!Savings!Crash, Proved!Savings!Boot, Proved!Savings!DayPasses,
     Proved!Savings!Members, Proved!Savings!Job, Proved!Savings!Next
<1>3. [Next]_vars => /\ service = "savings" <=> (service = "savings")'
                     /\ service = "savings" => [Savings!Next]_Savings!vars
  BY DEF Next, vars, Savings!jobVars, Savings!goalVars, Savings!vars
<1> QED BY <1>1, <1>2, <1>3, PTL DEF Spec, Proved!Savings!Spec

\* So the service keeps its types.
LEMMA SavingsTyped == Spec => [](service = "savings" => Savings!TypeOK)
<1>1. Proved!Savings!Spec => []Proved!Savings!TypeOK
  BY SavingsFit, Proved!SavingsTypeCorrect
<1>2. Proved!Savings!TypeOK => Savings!TypeOK
  BY DEF
     Savings!Days, Savings!Months, Savings!Goal, Savings!Entry, Savings!Run,
     Savings!Request, Savings!TypeOK, Proved!Savings!Days, Proved!Savings!Months,
     Proved!Savings!Goal, Proved!Savings!Entry, Proved!Savings!Run,
     Proved!Savings!Request, Proved!Savings!TypeOK
<1> QED BY <1>1, <1>2, SavingsRun, PTL

\* No goal is withdrawn below zero, but by withdrawals compared with a balance that another
\* has lowered since (withdraw).
THEOREM AmountsCoveredHolds == Spec => []AmountsCovered
<1>1. Proved!Savings!Spec => []Proved!Savings!AmountsCovered
  BY SavingsFit, Proved!AmountsCoveredHolds
<1>2. (service = "savings" => Proved!Savings!AmountsCovered) => AmountsCovered
  BY DEF AmountsCovered, Savings!AmountsCovered, Proved!Savings!AmountsCovered, Savings!Live,
     Proved!Savings!Live, Savings!Exists, Proved!Savings!Exists
<1> QED BY <1>1, <1>2, SavingsRun, PTL

\* Each goal gets its automatic deposit at most once a month while no run outlives its lock,
\* and none is missed on a day without trouble (runAutoDeposit).
THEOREM DepositedOncePerMonthHolds == Spec => []DepositedOncePerMonth
<1>1. Proved!Savings!Spec => []Proved!Savings!DepositedOncePerMonth
  BY SavingsFit, Proved!DepositedOncePerMonthHolds
<1>2. (service = "savings" => Proved!Savings!DepositedOncePerMonth) => DepositedOncePerMonth
  BY DEF DepositedOncePerMonth,
     Savings!Days, Savings!Months, Savings!Exists, Savings!Live, Savings!DayFits,
     Savings!Due, Savings!DepositedOncePerMonth, Proved!Savings!Days,
     Proved!Savings!Months, Proved!Savings!Exists, Proved!Savings!Live,
     Proved!Savings!DayFits, Proved!Savings!Due, Proved!Savings!DepositedOncePerMonth
<1> QED BY <1>1, <1>2, SavingsRun, PTL

-----------------------------------------------------------------------------
(* A routine (Routines).                                                   *)

\* Its parameters fit.
LEMMA RoutineFit == Proved!Routine!ConstantsAssumption
BY RoutineAssumption DEF RoutineAssumption,
     Routine!Days, Routine!CreateRoutineDto, Routine!Row, Routine!UpdateRoutineDto,
     Routine!Request, Routine!ConstantsAssumption, Proved!Routine!Days,
     Proved!Routine!CreateRoutineDto, Proved!Routine!Row,
     Proved!Routine!UpdateRoutineDto, Proved!Routine!Request,
     Proved!Routine!ConstantsAssumption

\* The service is another one throughout, or the behaviour is one of this service, as the two
\* instances have the same definitions.
LEMMA RoutineRun == Spec => []~(service = "routines") \/ Proved!Routine!Spec
<1>1. Init /\ service = "routines" => Proved!Routine!Init
  BY DEF Init,
     Routine!Init, Proved!Routine!Init
<1>2. [Routine!Next]_Routine!vars => [Proved!Routine!Next]_Proved!Routine!vars
  BY DEF
     Routine!Days, Routine!rowVars, Routine!vars, Routine!NewRequest, Routine!Begin,
     Routine!Doing, Routine!Goto, Routine!Done, Routine!Note, Routine!Found,
     Routine!ValidCombo, Routine!PlacesLive, Routine!CreateRoutineDto,
     Routine!CreateRead, Routine!CreateWrite, Routine!Given, Routine!Merged,
     Routine!Combo, Routine!UpdateRead, Routine!UpdateWrite, Routine!OpenPauses,
     Routine!Newest, Routine!Close, Routine!PauseRead, Routine!PauseWrite,
     Routine!ResumeRead, Routine!ResumeWrite, Routine!EndRead, Routine!EndWrite,
     Routine!CheckRead, Routine!CheckWrite, Routine!ReadEarned, Routine!CountChecks,
     Routine!Award, Routine!EvaluationFails, Routine!Uncheck, Routine!RemoveGroup,
     Routine!RemoveCategory, Routine!LinkRead, Routine!LinkWrite, Routine!Unlink,
     Routine!DayPasses, Routine!Next, Routine!Cardinality, Proved!Routine!Days,
     Proved!Routine!rowVars, Proved!Routine!vars, Proved!Routine!NewRequest,
     Proved!Routine!Begin, Proved!Routine!Doing, Proved!Routine!Goto,
     Proved!Routine!Done, Proved!Routine!Note, Proved!Routine!Found,
     Proved!Routine!ValidCombo, Proved!Routine!PlacesLive,
     Proved!Routine!CreateRoutineDto, Proved!Routine!CreateRead,
     Proved!Routine!CreateWrite, Proved!Routine!Given, Proved!Routine!Merged,
     Proved!Routine!Combo, Proved!Routine!UpdateRead, Proved!Routine!UpdateWrite,
     Proved!Routine!OpenPauses, Proved!Routine!Newest, Proved!Routine!Close,
     Proved!Routine!PauseRead, Proved!Routine!PauseWrite, Proved!Routine!ResumeRead,
     Proved!Routine!ResumeWrite, Proved!Routine!EndRead, Proved!Routine!EndWrite,
     Proved!Routine!CheckRead, Proved!Routine!CheckWrite, Proved!Routine!ReadEarned,
     Proved!Routine!CountChecks, Proved!Routine!Award, Proved!Routine!EvaluationFails,
     Proved!Routine!Uncheck, Proved!Routine!RemoveGroup, Proved!Routine!RemoveCategory,
     Proved!Routine!LinkRead, Proved!Routine!LinkWrite, Proved!Routine!Unlink,
     Proved!Routine!DayPasses, Proved!Routine!Next, Proved!Routine!Cardinality
<1>3. [Next]_vars => /\ service = "routines" <=> (service = "routines")'
                     /\ service = "routines" => [Routine!Next]_Routine!vars
  BY DEF Next, vars, Routine!rowVars, Routine!vars
<1> QED BY <1>1, <1>2, <1>3, PTL DEF Spec, Proved!Routine!Spec

\* So the service keeps its types, and its rows agree.
LEMMA RoutineTyped == Spec => [](service = "routines" => Routine!TypeOK)
<1>1. Proved!Routine!Spec => []Proved!Routine!TypeOK
  BY RoutineFit, Proved!RoutinesTypeCorrect
<1>2. Proved!Routine!TypeOK => Routine!TypeOK
  BY DEF
     Routine!Days, Routine!CreateRoutineDto, Routine!Row, Routine!Pause,
     Routine!UpdateRoutineDto, Routine!Request, Routine!TypeOK, Proved!Routine!Days,
     Proved!Routine!CreateRoutineDto, Proved!Routine!Row, Proved!Routine!Pause,
     Proved!Routine!UpdateRoutineDto, Proved!Routine!Request, Proved!Routine!TypeOK
<1> QED BY <1>1, <1>2, RoutineRun, PTL

LEMMA RoutineAgree == Spec => [](service = "routines" => Routine!RoutineTablesAgree)
<1>1. Proved!Routine!Spec => []Proved!Routine!RoutineTablesAgree
  BY RoutineFit, Proved!RoutineTablesAgreeHolds
<1>2. Proved!Routine!RoutineTablesAgree => Routine!RoutineTablesAgree
  BY DEF
     Routine!Doing, Routine!ValidCombo, Routine!OpenPauses, Routine!Judging,
     Routine!RoutineTablesAgree, Routine!Cardinality, Proved!Routine!Doing,
     Proved!Routine!ValidCombo, Proved!Routine!OpenPauses, Proved!Routine!Judging,
     Proved!Routine!RoutineTablesAgree, Proved!Routine!Cardinality
<1> QED BY <1>1, <1>2, RoutineRun, PTL

-----------------------------------------------------------------------------
\* The device tokens, the announcements, the codes, the records of an account and the
\* recurring tasks.
Records == INSTANCE RecordsProofs WITH
  request <- a3, requests <- a4, faults <- a5,
  device <- a1, system <- a2, cache <- a6, topic <- a7, tasks <- a8, mixed <- a9,
  left <- a10, stray <- a11,
  row <- a1, count <- a2, content <- a6, list <- a7, hits <- a8, raced <- a9,
  tracked <- a10, views <- a11, late <- a12, sync <- a13,
  kept <- a1, mailed <- a2, drawn <- a6, user <- a7, trials <- a8, spent <- a9,
  shared <- a10,
  today <- a1, lock <- a6, fired <- a7, type <- a2, goldRun <- a4, records <- a8,
  withdrawals <- a9, between <- a10, cut <- a11, ofJob <- a12,
  rule <- a2, skips <- a5, run <- a3, started <- a9, freed <- a10, complete <- a11,
  mingled <- a12

-----------------------------------------------------------------------------
(* The device tokens of the users (TokenCache).                            *)

\* Its parameters fit.
LEMMA DevicesFit == Records!Devices!ConstantsAssumption
BY DevicesAssumption DEF DevicesAssumption,
     Devices!Task, Devices!Request, Devices!ConstantsAssumption, Records!Devices!Task,
     Records!Devices!Request, Records!Devices!ConstantsAssumption

\* The service is another one throughout, or the behaviour is one of this service, as the two
\* instances have the same definitions.
LEMMA DevicesRun == Spec => []~(service = "tokens") \/ Records!Devices!Spec
<1>1. Init /\ service = "tokens" => Records!Devices!Init
  BY DEF Init,
     Devices!Init, Records!Devices!Init
<1>2. [Devices!Next]_Devices!vars => [Records!Devices!Next]_Records!Devices!vars
  BY DEF
     Devices!vars, Devices!ghosts, Devices!NewRequest, Devices!NewFault, Devices!At,
     Devices!Done, Devices!TokensOf, Devices!SamePlatform, Devices!Outdated,
     Devices!Start, Devices!Mixed, Devices!RegisterRead, Devices!RegisterTouch,
     Devices!RegisterLook, Devices!Owners, Devices!RegisterReplace, Devices!Invalidate,
     Devices!InvalidateFails, Devices!DeleteRead, Devices!DeleteRow, Devices!Look,
     Devices!Hit, Devices!Miss, Devices!Store, Devices!Expire, Devices!Push,
     Devices!SettingWrite, Devices!SettingTasks, Devices!TaskChecks, Devices!TaskJoins,
     Devices!TaskLeaves, Devices!TaskFails, Devices!Next, Devices!ToSet,
     Records!Devices!vars, Records!Devices!ghosts, Records!Devices!NewRequest,
     Records!Devices!NewFault, Records!Devices!At, Records!Devices!Done,
     Records!Devices!TokensOf, Records!Devices!SamePlatform, Records!Devices!Outdated,
     Records!Devices!Start, Records!Devices!Mixed, Records!Devices!RegisterRead,
     Records!Devices!RegisterTouch, Records!Devices!RegisterLook, Records!Devices!Owners,
     Records!Devices!RegisterReplace, Records!Devices!Invalidate,
     Records!Devices!InvalidateFails, Records!Devices!DeleteRead,
     Records!Devices!DeleteRow, Records!Devices!Look, Records!Devices!Hit,
     Records!Devices!Miss, Records!Devices!Store, Records!Devices!Expire,
     Records!Devices!Push, Records!Devices!SettingWrite, Records!Devices!SettingTasks,
     Records!Devices!TaskChecks, Records!Devices!TaskJoins, Records!Devices!TaskLeaves,
     Records!Devices!TaskFails, Records!Devices!Next, Records!Devices!ToSet
<1>3. [Next]_vars => /\ service = "tokens" <=> (service = "tokens")'
                     /\ service = "tokens" => [Devices!Next]_Devices!vars
  BY DEF Next, vars, Devices!vars
<1> QED BY <1>1, <1>2, <1>3, PTL DEF Spec, Records!Devices!Spec

\* So the service keeps its types.
LEMMA DevicesTyped == Spec => [](service = "tokens" => Devices!TypeOK)
<1>1. Records!Devices!Spec => []Records!Devices!TypeOK
  BY DevicesFit, Records!TokensTypeCorrect
<1>2. Records!Devices!TypeOK => Devices!TypeOK
  BY DEF
     Devices!Task, Devices!Request, Devices!TypeOK, Records!Devices!Task,
     Records!Devices!Request, Records!Devices!TypeOK
<1> QED BY <1>1, <1>2, DevicesRun, PTL

-----------------------------------------------------------------------------
(* An announcement and its copies (AnnouncementBoard).                     *)

\* Its parameters fit.
LEMMA BoardFit == Records!Board!ConstantsAssumption
BY BoardAssumption DEF BoardAssumption,
     Board!Row, Board!Copy, Board!Request, Board!Run, Board!ConstantsAssumption,
     Records!Board!Row, Records!Board!Copy, Records!Board!Request, Records!Board!Run,
     Records!Board!ConstantsAssumption

\* The service is another one throughout, or the behaviour is one of this service, as the two
\* instances have the same definitions.
LEMMA BoardRun == Spec => []~(service = "board") \/ Records!Board!Spec
<1>1. Init /\ service = "board" => Records!Board!Init
  BY DEF Init,
     Board!Init, Records!Board!Init
<1>2. [Board!Next]_Board!vars => [Records!Board!Next]_Records!Board!vars
  BY DEF
     Board!vars, Board!counting, Board!copies, Board!NewRequest, Board!NewFault,
     Board!At, Board!Go, Board!Done, Board!Exists, Board!Found, Board!Outdated,
     Board!Create, Board!Find, Board!Write, Board!DropContent, Board!DropList,
     Board!DropFails, Board!TogglePin, Board!FindOne, Board!ReadOne, Board!StoreOne,
     Board!View, Board!Track, Board!FindAll, Board!StoreList, Board!ExpireContent,
     Board!ExpireList, Board!Collect, Board!Add, Board!Subtract, Board!Delete,
     Board!Untrack, Board!SyncFails, Board!Next, Records!Board!vars,
     Records!Board!counting, Records!Board!copies, Records!Board!NewRequest,
     Records!Board!NewFault, Records!Board!At, Records!Board!Go, Records!Board!Done,
     Records!Board!Exists, Records!Board!Found, Records!Board!Outdated,
     Records!Board!Create, Records!Board!Find, Records!Board!Write,
     Records!Board!DropContent, Records!Board!DropList, Records!Board!DropFails,
     Records!Board!TogglePin, Records!Board!FindOne, Records!Board!ReadOne,
     Records!Board!StoreOne, Records!Board!View, Records!Board!Track,
     Records!Board!FindAll, Records!Board!StoreList, Records!Board!ExpireContent,
     Records!Board!ExpireList, Records!Board!Collect, Records!Board!Add,
     Records!Board!Subtract, Records!Board!Delete, Records!Board!Untrack,
     Records!Board!SyncFails, Records!Board!Next
<1>3. [Next]_vars => /\ service = "board" <=> (service = "board")'
                     /\ service = "board" => [Board!Next]_Board!vars
  BY DEF Next, vars, Board!vars
<1> QED BY <1>1, <1>2, <1>3, PTL DEF Spec, Records!Board!Spec

\* So the service keeps its types.
LEMMA BoardTyped == Spec => [](service = "board" => Board!TypeOK)
<1>1. Records!Board!Spec => []Records!Board!TypeOK
  BY BoardFit, Records!BoardTypeCorrect
<1>2. Records!Board!TypeOK => Board!TypeOK
  BY DEF
     Board!Row, Board!Copy, Board!Request, Board!Run, Board!TypeOK, Records!Board!Row,
     Records!Board!Copy, Records!Board!Request, Records!Board!Run, Records!Board!TypeOK
<1> QED BY <1>1, <1>2, BoardRun, PTL

-----------------------------------------------------------------------------
(* The codes an address is sent (EmailCodes).                              *)

\* Its parameters fit.
LEMMA CodesFit == Records!Codes!ConstantsAssumption
BY CodesAssumption DEF CodesAssumption,
     Codes!Kinds, Codes!Codes, Codes!Row, Codes!Request, Codes!ConstantsAssumption,
     Records!Codes!Kinds, Records!Codes!Codes, Records!Codes!Row, Records!Codes!Request,
     Records!Codes!ConstantsAssumption

\* The service is another one throughout, or the behaviour is one of this service, as the two
\* instances have the same definitions.
LEMMA CodesRun == Spec => []~(service = "codes") \/ Records!Codes!Spec
<1>1. Init /\ service = "codes" => Records!Codes!Init
  BY DEF Init,
     Codes!Kinds, Codes!Codes, Codes!Init, Records!Codes!Kinds, Records!Codes!Codes,
     Records!Codes!Init
<1>2. [Codes!Next]_Codes!vars => [Records!Codes!Next]_Records!Codes!vars
  BY DEF
     Codes!ghosts, Codes!vars, Codes!Kinds, Codes!Begin, Codes!At, Codes!Done,
     Codes!Fault, Codes!Signup, Codes!CreateUser, Codes!Ask, Codes!Store, Codes!Mail,
     Codes!SendFails, Codes!Show, Codes!Find, Codes!Did, Codes!WriteRow,
     Codes!DeleteCode, Codes!DeleteFails, Codes!Expire, Codes!Next, Records!Codes!ghosts,
     Records!Codes!vars, Records!Codes!Kinds, Records!Codes!Begin, Records!Codes!At,
     Records!Codes!Done, Records!Codes!Fault, Records!Codes!Signup,
     Records!Codes!CreateUser, Records!Codes!Ask, Records!Codes!Store,
     Records!Codes!Mail, Records!Codes!SendFails, Records!Codes!Show, Records!Codes!Find,
     Records!Codes!Did, Records!Codes!WriteRow, Records!Codes!DeleteCode,
     Records!Codes!DeleteFails, Records!Codes!Expire, Records!Codes!Next
<1>3. [Next]_vars => /\ service = "codes" <=> (service = "codes")'
                     /\ service = "codes" => [Codes!Next]_Codes!vars
  BY DEF Next, vars, Codes!ghosts, Codes!vars
<1> QED BY <1>1, <1>2, <1>3, PTL DEF Spec, Records!Codes!Spec

\* So the service keeps its types.
LEMMA CodesTyped == Spec => [](service = "codes" => Codes!TypeOK)
<1>1. Records!Codes!Spec => []Records!Codes!TypeOK
  BY CodesFit, Records!CodesTypeCorrect
<1>2. Records!Codes!TypeOK => Codes!TypeOK
  BY DEF
     Codes!Kinds, Codes!Codes, Codes!Row, Codes!Request, Codes!TypeOK,
     Records!Codes!Kinds, Records!Codes!Codes, Records!Codes!Row, Records!Codes!Request,
     Records!Codes!TypeOK
<1> QED BY <1>1, <1>2, CodesRun, PTL

\* A code sets a password once, and the trial is given once, except where two requests had
\* codes in hand at once or a code could not be deleted (resetPassword, verifyEmail).
THEOREM CodesWorkOnceHolds == Spec => []CodesWorkOnce
<1>1. Records!Codes!Spec => []Records!Codes!CodesWorkOnce
  BY CodesFit, Records!CodesWorkOnceHolds
<1>2. (service = "codes" => Records!Codes!CodesWorkOnce) => CodesWorkOnce
  BY DEF CodesWorkOnce,
     Codes!Kinds, Codes!Codes, Codes!CodesWorkOnce, Records!Codes!Kinds,
     Records!Codes!Codes, Records!Codes!CodesWorkOnce
<1> QED BY <1>1, <1>2, CodesRun, PTL

-----------------------------------------------------------------------------
(* The records of an account (AccountRecords).                             *)

\* Its parameters fit.
LEMMA AssetsFit == Records!Assets!ConstantsAssumption
BY AssetsAssumption DEF AssetsAssumption,
     Assets!Row, Assets!Insertion, Assets!ConstantsAssumption, Records!Assets!Row,
     Records!Assets!Insertion, Records!Assets!ConstantsAssumption

\* The service is another one throughout, or the behaviour is one of this service, as the two
\* instances have the same definitions.
LEMMA AssetsRun == Spec => []~(service = "assets") \/ Records!Assets!Spec
<1>1. Init /\ service = "assets" => Records!Assets!Init
  BY DEF Init,
     Assets!Idle, Assets!Init, Records!Assets!Idle, Records!Assets!Init
<1>2. [Assets!Next]_Assets!vars => [Records!Assets!Next]_Records!Assets!vars
  BY DEF
     Assets!Idle, Assets!vars, Assets!Ids, Assets!On, Assets!Before, Assets!After,
     Assets!Snapshots, Assets!LastDay, Assets!Newest, Assets!Least, Assets!Greatest,
     Assets!Record, Assets!Computed, Assets!Withdrawn, Assets!Insert, Assets!Pending,
     Assets!RecordRead, Assets!WithdrawRead, Assets!Write, Assets!RemoveRecord,
     Assets!RemoveWithdrawal, Assets!ChangeType, Assets!Fire, Assets!Release,
     Assets!Weighed, Assets!Look, Assets!Make, Assets!JobFails, Assets!LockExpires,
     Assets!Next, Records!Assets!Idle, Records!Assets!vars, Records!Assets!Ids,
     Records!Assets!On, Records!Assets!Before, Records!Assets!After,
     Records!Assets!Snapshots, Records!Assets!LastDay, Records!Assets!Newest,
     Records!Assets!Least, Records!Assets!Greatest, Records!Assets!Record,
     Records!Assets!Computed, Records!Assets!Withdrawn, Records!Assets!Insert,
     Records!Assets!Pending, Records!Assets!RecordRead, Records!Assets!WithdrawRead,
     Records!Assets!Write, Records!Assets!RemoveRecord, Records!Assets!RemoveWithdrawal,
     Records!Assets!ChangeType, Records!Assets!Fire, Records!Assets!Release,
     Records!Assets!Weighed, Records!Assets!Look, Records!Assets!Make,
     Records!Assets!JobFails, Records!Assets!LockExpires, Records!Assets!Next
<1>3. [Next]_vars => /\ service = "assets" <=> (service = "assets")'
                     /\ service = "assets" => [Assets!Next]_Assets!vars
  BY DEF Next, vars, Assets!vars
<1> QED BY <1>1, <1>2, <1>3, PTL DEF Spec, Records!Assets!Spec

\* So the service keeps its types, and its rows agree.
LEMMA AssetsTyped == Spec => [](service = "assets" => Assets!TypeOK)
<1>1. Records!Assets!Spec => []Records!Assets!TypeOK
  BY AssetsFit, Records!AccountRecordsTypeCorrect
<1>2. Records!Assets!TypeOK => Assets!TypeOK
  BY DEF
     Assets!Row, Assets!Insertion, Assets!Run, Assets!TypeOK, Records!Assets!Row,
     Records!Assets!Insertion, Records!Assets!Run, Records!Assets!TypeOK
<1> QED BY <1>1, <1>2, AssetsRun, PTL

LEMMA AssetsAgree == Spec => [](service = "assets" => Assets!RecordsMakeOneHistory)
<1>1. Records!Assets!Spec => []Records!Assets!RecordsMakeOneHistory
  BY AssetsFit, Records!RecordsMakeOneHistoryHolds
<1>2. Records!Assets!RecordsMakeOneHistory => Assets!RecordsMakeOneHistory
  BY DEF
     Assets!Ids, Assets!On, Assets!Before, Assets!Snapshots, Assets!LastDay,
     Assets!Least, Assets!Greatest, Assets!Record, Assets!Withdrawn, Assets!Weighed,
     Assets!Balanced, Assets!Safe, Assets!ContinuesLast, Assets!RecordsMakeOneHistory,
     Assets!Cardinality, Records!Assets!Ids, Records!Assets!On, Records!Assets!Before,
     Records!Assets!Snapshots, Records!Assets!LastDay, Records!Assets!Least,
     Records!Assets!Greatest, Records!Assets!Record, Records!Assets!Withdrawn,
     Records!Assets!Weighed, Records!Assets!Balanced, Records!Assets!Safe,
     Records!Assets!ContinuesLast, Records!Assets!RecordsMakeOneHistory,
     Records!Assets!Cardinality
<1> QED BY <1>1, <1>2, AssetsRun, PTL

-----------------------------------------------------------------------------
(* The tasks of a rule (RecurringTasks).                                   *)

\* The dates of the one instance are those of the other.
LEMMA TasksDatesAlike ==
  /\ \A rule, from, to, n, taken, skips :
       Tasks!CalculateNextDates(rule, from, to, n, taken, skips)
         = Records!Tasks!CalculateNextDates(rule, from, to, n, taken, skips)
  /\ \A rule, from :
       Tasks!CalculateNextSingleDate(rule, from) = Records!Tasks!CalculateNextSingleDate(rule, from)
<1>1. \A rule, from, to, n, taken, skips :
       Tasks!CalculateNextDates(rule, from, to, n, taken, skips)
         = Records!Tasks!CalculateNextDates(rule, from, to, n, taken, skips)
  BY DEF
     Tasks!Weekday, Tasks!Months, Tasks!LastDay, Tasks!MonthOf, Tasks!YearOf,
     Tasks!GetDateOfMonth, Tasks!GetNthDayOfMonth, Tasks!DateIn, Tasks!NeedsSkip,
     Tasks!ResolveDate, Tasks!CalculateDailyDates, Tasks!CalculateWeeklyDates,
     Tasks!CalculateMonthlyDates, Tasks!CalculateYearlyDates, Tasks!DatesOf,
     Tasks!CalculateNextDates, Tasks!Cardinality, Tasks!Min, Tasks!MapThenFoldSet,
     Tasks!Max, Records!Tasks!Weekday, Records!Tasks!Months, Records!Tasks!LastDay,
     Records!Tasks!MonthOf, Records!Tasks!YearOf, Records!Tasks!GetDateOfMonth,
     Records!Tasks!GetNthDayOfMonth, Records!Tasks!DateIn, Records!Tasks!NeedsSkip,
     Records!Tasks!ResolveDate, Records!Tasks!CalculateDailyDates,
     Records!Tasks!CalculateWeeklyDates, Records!Tasks!CalculateMonthlyDates,
     Records!Tasks!CalculateYearlyDates, Records!Tasks!DatesOf,
     Records!Tasks!CalculateNextDates, Records!Tasks!Cardinality, Records!Tasks!Min,
     Records!Tasks!MapThenFoldSet, Records!Tasks!Max
<1>2. \A rule, from :
       Tasks!CalculateNextSingleDate(rule, from) = Records!Tasks!CalculateNextSingleDate(rule, from)
  BY DEF
     Tasks!Weekday, Tasks!Months, Tasks!LastDay, Tasks!MonthOf, Tasks!DayIn,
     Tasks!GetDateOfMonth, Tasks!MonthsLater, Tasks!CalculateNextSingleDate, Tasks!Min,
     Records!Tasks!Weekday, Records!Tasks!Months, Records!Tasks!LastDay,
     Records!Tasks!MonthOf, Records!Tasks!DayIn, Records!Tasks!GetDateOfMonth,
     Records!Tasks!MonthsLater, Records!Tasks!CalculateNextSingleDate, Records!Tasks!Min
<1> QED BY <1>1, <1>2

\* Its parameters fit.
LEMMA TasksFit == Records!Tasks!ConstantsAssumption
BY TasksAssumption DEF TasksAssumption,
     Tasks!LastDay, Tasks!Dates, Tasks!Run, Tasks!ConstantsAssumption,
     Records!Tasks!LastDay, Records!Tasks!Dates, Records!Tasks!Run,
     Records!Tasks!ConstantsAssumption

\* The service is another one throughout, or the behaviour is one of this service, as the two
\* instances have the same definitions.
LEMMA TasksRun == Spec => []~(service = "tasks") \/ Records!Tasks!Spec
<1>1. Init /\ service = "tasks" => Records!Tasks!Init
  BY DEF Init,
     Tasks!LastDay, Tasks!Dates, Tasks!Workers, Tasks!Init, Records!Tasks!LastDay,
     Records!Tasks!Dates, Records!Tasks!Workers, Records!Tasks!Init
<1>2. [Tasks!Next]_Tasks!vars => [Records!Tasks!Next]_Records!Tasks!vars
  BY TasksDatesAlike DEF
     Tasks!Months, Tasks!LastDay, Tasks!MonthOf, Tasks!DayIn, Tasks!GetDateOfMonth,
     Tasks!MonthsLater, Tasks!vars, Tasks!Dates, Tasks!Workers, Tasks!Auto, Tasks!Stored,
     Tasks!NewRequest, Tasks!Taken, Tasks!Overlaps, Tasks!Finish, Tasks!CreateTask,
     Tasks!EndOf, Tasks!UsedUp, Tasks!Ended, Tasks!Remaining, Tasks!Generate,
     Tasks!Insert, Tasks!InsertFails, Tasks!Fire, Tasks!Release, Tasks!LockExpires,
     Tasks!PauseRecurring, Tasks!SkipRecurring, Tasks!DeleteTask, Tasks!CompleteTask,
     Tasks!NextDay, Tasks!Next, Tasks!Cardinality, Tasks!Min, Records!Tasks!Months,
     Records!Tasks!LastDay, Records!Tasks!MonthOf, Records!Tasks!DayIn,
     Records!Tasks!GetDateOfMonth, Records!Tasks!MonthsLater, Records!Tasks!vars,
     Records!Tasks!Dates, Records!Tasks!Workers, Records!Tasks!Auto,
     Records!Tasks!Stored, Records!Tasks!NewRequest, Records!Tasks!Taken,
     Records!Tasks!Overlaps, Records!Tasks!Finish, Records!Tasks!CreateTask,
     Records!Tasks!EndOf, Records!Tasks!UsedUp, Records!Tasks!Ended,
     Records!Tasks!Remaining, Records!Tasks!Generate, Records!Tasks!Insert,
     Records!Tasks!InsertFails, Records!Tasks!Fire, Records!Tasks!Release,
     Records!Tasks!LockExpires, Records!Tasks!PauseRecurring,
     Records!Tasks!SkipRecurring, Records!Tasks!DeleteTask, Records!Tasks!CompleteTask,
     Records!Tasks!NextDay, Records!Tasks!Next, Records!Tasks!Cardinality,
     Records!Tasks!Min
<1>3. [Next]_vars => /\ service = "tasks" <=> (service = "tasks")'
                     /\ service = "tasks" => [Tasks!Next]_Tasks!vars
  BY DEF Next, vars, Tasks!vars
<1> QED BY <1>1, <1>2, <1>3, PTL DEF Spec, Records!Tasks!Spec

\* So the service keeps its types.
LEMMA TasksTyped == Spec => [](service = "tasks" => Tasks!TypeOK)
<1>1. Records!Tasks!Spec => []Records!Tasks!TypeOK
  BY TasksFit, Records!TasksTypeCorrect
<1>2. Records!Tasks!TypeOK => Tasks!TypeOK
  BY DEF
     Tasks!LastDay, Tasks!Dates, Tasks!Workers, Tasks!Stored, Tasks!Run, Tasks!TypeOK,
     Records!Tasks!LastDay, Records!Tasks!Dates, Records!Tasks!Workers,
     Records!Tasks!Stored, Records!Tasks!Run, Records!Tasks!TypeOK
<1> QED BY <1>1, <1>2, TasksRun, PTL

-----------------------------------------------------------------------------
\* The roles, votes, questions, budgets and anniversaries of a group; its membership is not
\* part of MCServices, and here that of no users.
Group == INSTANCE GroupMembershipProofs WITH
  Users <- {}, MaxRows <- 1, MaxAsked <- 0, MaxPurges <- 0,
  exists <- None, member <- None, lastRow <- None, asked <- None, purged <- None,
  handler <- None, stale <- None, ownerPurged <- None,
  request <- a3, requests <- a4,
  roles <- a1, holder <- a2, used <- a5, changed <- a6,
  members <- a1, vote <- a2, closed <- a5, ballots <- a6, choice <- a7, overlapped <- a8,
  question <- a1, answers <- a2, weeks <- a5, replied <- a6, outdated <- a7,
  month <- a1, templates <- a2, budgets <- a5, looked <- a6, registered <- a7,
  tasks <- a8, today <- a1, lock <- a6, fired <- a7, raced <- a9, freed <- a10,
  anniversary <- a2, misdated <- a5, through <- a11, since <- a12

\* There are finitely many members: none.
LEMMA NoMembers == Group!IsFiniteSet({}) /\ 1 \in Nat \ {0} /\ 0 \in Nat
<1>1. <<>> \in Seq({})
  OBVIOUS
<1>2. Group!IsFiniteSet({})
  BY <1>1, Zenon DEF Group!IsFiniteSet
<1> QED BY <1>2

-----------------------------------------------------------------------------
(* The roles of a group (Roles).                                           *)

\* Its parameters fit.
LEMMA GroupRolesFit == Group!GroupRoles!ConstantsAssumption
BY RolesAssumption DEF RolesAssumption,
     GroupRoles!Scopes, GroupRoles!Row, GroupRoles!Request,
     GroupRoles!ConstantsAssumption, Group!GroupRoles!Scopes, Group!GroupRoles!Row,
     Group!GroupRoles!Request, Group!GroupRoles!ConstantsAssumption

\* The service is another one throughout, or the behaviour is one of this service, as the two
\* instances have the same definitions.
LEMMA GroupRolesRun == Spec => []~(service = "roles") \/ Group!GroupRoles!Spec
<1>1. Init /\ service = "roles" => Group!GroupRoles!Init
  BY DEF Init,
     GroupRoles!Owner, GroupRoles!Init, Group!GroupRoles!Owner, Group!GroupRoles!Init
<1>2. [GroupRoles!Next]_GroupRoles!vars => [Group!GroupRoles!Next]_Group!GroupRoles!vars
  BY DEF
     GroupRoles!vars, GroupRoles!Scopes, GroupRoles!Rows, GroupRoles!Of,
     GroupRoles!Owner, GroupRoles!Begin, GroupRoles!At, GroupRoles!Done, GroupRoles!To,
     GroupRoles!Crossed, GroupRoles!Changed, GroupRoles!Create, GroupRoles!Update,
     GroupRoles!LookName, GroupRoles!LookDefault, GroupRoles!NameIsFree,
     GroupRoles!WriteNew, GroupRoles!WriteChange, GroupRoles!Remove,
     GroupRoles!RemoveRow, GroupRoles!Defaults, GroupRoles!Join, GroupRoles!LookForRole,
     GroupRoles!Assign, GroupRoles!WriteMember, GroupRoles!Start, GroupRoles!Next,
     Group!GroupRoles!vars, Group!GroupRoles!Scopes, Group!GroupRoles!Rows,
     Group!GroupRoles!Of, Group!GroupRoles!Owner, Group!GroupRoles!Begin,
     Group!GroupRoles!At, Group!GroupRoles!Done, Group!GroupRoles!To,
     Group!GroupRoles!Crossed, Group!GroupRoles!Changed, Group!GroupRoles!Create,
     Group!GroupRoles!Update, Group!GroupRoles!LookName, Group!GroupRoles!LookDefault,
     Group!GroupRoles!NameIsFree, Group!GroupRoles!WriteNew,
     Group!GroupRoles!WriteChange, Group!GroupRoles!Remove, Group!GroupRoles!RemoveRow,
     Group!GroupRoles!Defaults, Group!GroupRoles!Join, Group!GroupRoles!LookForRole,
     Group!GroupRoles!Assign, Group!GroupRoles!WriteMember, Group!GroupRoles!Start,
     Group!GroupRoles!Next
<1>3. [Next]_vars => /\ service = "roles" <=> (service = "roles")'
                     /\ service = "roles" => [GroupRoles!Next]_GroupRoles!vars
  BY DEF Next, vars, GroupRoles!vars
<1> QED BY <1>1, <1>2, <1>3, PTL DEF Spec, Group!GroupRoles!Spec

\* So the service keeps its types, and its rows agree.
LEMMA GroupRolesTyped == Spec => [](service = "roles" => GroupRoles!TypeOK)
<1>1. Group!GroupRoles!Spec => []Group!GroupRoles!TypeOK
  BY GroupRolesFit, NoMembers, Group!RolesTypeCorrect
<1>2. Group!GroupRoles!TypeOK => GroupRoles!TypeOK
  BY DEF
     GroupRoles!Scopes, GroupRoles!Row, GroupRoles!Request, GroupRoles!TypeOK,
     Group!GroupRoles!Scopes, Group!GroupRoles!Row, Group!GroupRoles!Request,
     Group!GroupRoles!TypeOK
<1> QED BY <1>1, <1>2, GroupRolesRun, PTL

LEMMA GroupRolesAgree == Spec => [](service = "roles" => GroupRoles!RolesAgree)
<1>1. Group!GroupRoles!Spec => []Group!GroupRoles!RolesAgree
  BY GroupRolesFit, NoMembers, Group!RolesAgreeHolds
<1>2. Group!GroupRoles!RolesAgree => GroupRoles!RolesAgree
  BY DEF
     GroupRoles!Scopes, GroupRoles!Rows, GroupRoles!Of, GroupRoles!Defaults,
     GroupRoles!RolesAgree, GroupRoles!Cardinality, Group!GroupRoles!Scopes,
     Group!GroupRoles!Rows, Group!GroupRoles!Of, Group!GroupRoles!Defaults,
     Group!GroupRoles!RolesAgree, Group!GroupRoles!Cardinality
<1> QED BY <1>1, <1>2, GroupRolesRun, PTL

-----------------------------------------------------------------------------
(* A vote (Votes).                                                         *)

\* Its parameters fit.
LEMMA VoteFit == Group!Vote!ConstantsAssumption
BY VoteAssumption DEF VoteAssumption,
     Vote!Row, Vote!Request, Vote!ConstantsAssumption, Vote!IsFiniteSet, Group!Vote!Row,
     Group!Vote!Request, Group!Vote!ConstantsAssumption, Group!Vote!IsFiniteSet

\* The service is another one throughout, or the behaviour is one of this service, as the two
\* instances have the same definitions.
LEMMA VoteRun == Spec => []~(service = "votes") \/ Group!Vote!Spec
<1>1. Init /\ service = "votes" => Group!Vote!Init
  BY DEF Init,
     Vote!Init, Group!Vote!Init
<1>2. [Vote!Next]_Vote!vars => [Group!Vote!Next]_Group!Vote!vars
  BY DEF
     Vote!vars, Vote!NewRequest, Vote!BallotsOf, Vote!Done, Vote!Create, Vote!Begin,
     Vote!Cancel, Vote!Delete, Vote!Insert, Vote!Remove, Vote!Close, Vote!Leave,
     Vote!Next, Vote!Cardinality, Group!Vote!vars, Group!Vote!NewRequest,
     Group!Vote!BallotsOf, Group!Vote!Done, Group!Vote!Create, Group!Vote!Begin,
     Group!Vote!Cancel, Group!Vote!Delete, Group!Vote!Insert, Group!Vote!Remove,
     Group!Vote!Close, Group!Vote!Leave, Group!Vote!Next, Group!Vote!Cardinality
<1>3. [Next]_vars => /\ service = "votes" <=> (service = "votes")'
                     /\ service = "votes" => [Vote!Next]_Vote!vars
  BY DEF Next, vars, Vote!vars
<1> QED BY <1>1, <1>2, <1>3, PTL DEF Spec, Group!Vote!Spec

\* So the service keeps its types, and its rows agree.
LEMMA VoteTyped == Spec => [](service = "votes" => Vote!TypeOK)
<1>1. Group!Vote!Spec => []Group!Vote!TypeOK
  BY VoteFit, NoMembers, Group!VotesTypeCorrect
<1>2. Group!Vote!TypeOK => Vote!TypeOK
  BY DEF
     Vote!Row, Vote!Request, Vote!TypeOK, Group!Vote!Row, Group!Vote!Request,
     Group!Vote!TypeOK
<1> QED BY <1>1, <1>2, VoteRun, PTL

LEMMA VoteAgree == Spec => [](service = "votes" => Vote!BallotsFollowChoice)
<1>1. Group!Vote!Spec => []Group!Vote!BallotsFollowChoice
  BY VoteFit, NoMembers, Group!BallotsFollowChoiceHolds
<1>2. Group!Vote!BallotsFollowChoice => Vote!BallotsFollowChoice
  BY DEF
     Vote!Shown, Vote!Listed, Vote!BallotsFollowChoice, Vote!Cardinality,
     Group!Vote!Shown, Group!Vote!Listed, Group!Vote!BallotsFollowChoice,
     Group!Vote!Cardinality
<1> QED BY <1>1, <1>2, VoteRun, PTL

-----------------------------------------------------------------------------
(* A question (Questions).                                                 *)

\* Its parameters fit.
LEMMA QuestionFit == Group!Question!ConstantsAssumption
BY QuestionAssumption DEF QuestionAssumption,
     Question!Row, Question!Request, Question!ConstantsAssumption, Group!Question!Row,
     Group!Question!Request, Group!Question!ConstantsAssumption

\* The service is another one throughout, or the behaviour is one of this service, as the two
\* instances have the same definitions.
LEMMA QuestionRun == Spec => []~(service = "questions") \/ Group!Question!Spec
<1>1. Init /\ service = "questions" => Group!Question!Init
  BY DEF Init,
     Question!Init, Group!Question!Init
<1>2. [Question!Next]_Question!vars => [Group!Question!Next]_Group!Question!vars
  BY DEF
     Question!Deleted, Question!vars, Question!NewRequest, Question!Exists,
     Question!Done, Question!Read, Question!Doing, Question!Touched, Question!Create,
     Question!UpdateRead, Question!UpdateWrite, Question!Remove, Question!ResolveRead,
     Question!ResolveWrite, Question!AnswerRead, Question!AnswerWrite,
     Question!UpdateAnswer, Question!RemoveAnswer, Question!AutoResolve, Question!Week,
     Question!Next, Group!Question!Deleted, Group!Question!vars,
     Group!Question!NewRequest, Group!Question!Exists, Group!Question!Done,
     Group!Question!Read, Group!Question!Doing, Group!Question!Touched,
     Group!Question!Create, Group!Question!UpdateRead, Group!Question!UpdateWrite,
     Group!Question!Remove, Group!Question!ResolveRead, Group!Question!ResolveWrite,
     Group!Question!AnswerRead, Group!Question!AnswerWrite, Group!Question!UpdateAnswer,
     Group!Question!RemoveAnswer, Group!Question!AutoResolve, Group!Question!Week,
     Group!Question!Next
<1>3. [Next]_vars => /\ service = "questions" <=> (service = "questions")'
                     /\ service = "questions" => [Question!Next]_Question!vars
  BY DEF Next, vars, Question!vars
<1> QED BY <1>1, <1>2, <1>3, PTL DEF Spec, Group!Question!Spec

\* So the service keeps its types, and its rows agree.
LEMMA QuestionTyped == Spec => [](service = "questions" => Question!TypeOK)
<1>1. Group!Question!Spec => []Group!Question!TypeOK
  BY QuestionFit, NoMembers, Group!QuestionsTypeCorrect
<1>2. Group!Question!TypeOK => Question!TypeOK
  BY DEF
     Question!Row, Question!Request, Question!TypeOK, Group!Question!Row,
     Group!Question!Request, Group!Question!TypeOK
<1> QED BY <1>1, <1>2, QuestionRun, PTL

LEMMA QuestionAgree == Spec => [](service = "questions" => Question!AnswersFitQuestion)
<1>1. Group!Question!Spec => []Group!Question!AnswersFitQuestion
  BY QuestionFit, NoMembers, Group!AnswersFitQuestionHolds
<1>2. Group!Question!AnswersFitQuestion => Question!AnswersFitQuestion
  BY DEF
     Question!Exists, Question!All, Question!FindQuestions, Question!Visible,
     Question!FindOne, Question!Statistics, Question!AnswersFitQuestion,
     Question!Cardinality, Group!Question!Exists, Group!Question!All,
     Group!Question!FindQuestions, Group!Question!Visible, Group!Question!FindOne,
     Group!Question!Statistics, Group!Question!AnswersFitQuestion,
     Group!Question!Cardinality
<1> QED BY <1>1, <1>2, QuestionRun, PTL

-----------------------------------------------------------------------------
(* The budgets of a group (Budgets).                                       *)

\* Its parameters fit.
LEMMA BudgetFit == Group!Budget!ConstantsAssumption
BY BudgetAssumption DEF BudgetAssumption,
     Budget!Keys, Budget!Months, Budget!Steps, Budget!Request,
     Budget!ConstantsAssumption, Group!Budget!Keys, Group!Budget!Months,
     Group!Budget!Steps, Group!Budget!Request, Group!Budget!ConstantsAssumption

\* The service is another one throughout, or the behaviour is one of this service, as the two
\* instances have the same definitions.
LEMMA BudgetRun == Spec => []~(service = "budgets") \/ Group!Budget!Spec
<1>1. Init /\ service = "budgets" => Group!Budget!Init
  BY DEF Init,
     Budget!Keys, Budget!Months, Budget!Init, Group!Budget!Keys, Group!Budget!Months,
     Group!Budget!Init
<1>2. [Budget!Next]_Budget!vars => [Group!Budget!Next]_Group!Budget!vars
  BY DEF
     Budget!Keys, Budget!Months, Budget!vars, Budget!Step, Budget!SetBudget,
     Budget!SetTemplate, Budget!BulkBudget, Budget!BulkTemplate, Budget!Plans,
     Budget!Begin, Budget!Head1, Budget!Busy, Budget!Rows, Budget!Racing, Budget!Pop,
     Budget!Probe, Budget!Skip, Budget!Upserts, Budget!Look, Budget!Stale, Budget!Update,
     Budget!Insert, Budget!Upsert, Budget!End, Budget!RemoveTemplate, Budget!NextMonth,
     Budget!Next, Group!Budget!Keys, Group!Budget!Months, Group!Budget!vars,
     Group!Budget!Step, Group!Budget!SetBudget, Group!Budget!SetTemplate,
     Group!Budget!BulkBudget, Group!Budget!BulkTemplate, Group!Budget!Plans,
     Group!Budget!Begin, Group!Budget!Head1, Group!Budget!Busy, Group!Budget!Rows,
     Group!Budget!Racing, Group!Budget!Pop, Group!Budget!Probe, Group!Budget!Skip,
     Group!Budget!Upserts, Group!Budget!Look, Group!Budget!Stale, Group!Budget!Update,
     Group!Budget!Insert, Group!Budget!Upsert, Group!Budget!End,
     Group!Budget!RemoveTemplate, Group!Budget!NextMonth, Group!Budget!Next
<1>3. [Next]_vars => /\ service = "budgets" <=> (service = "budgets")'
                     /\ service = "budgets" => [Budget!Next]_Budget!vars
  BY DEF Next, vars, Budget!vars
<1> QED BY <1>1, <1>2, <1>3, PTL DEF Spec, Group!Budget!Spec

\* So the service keeps its types, and its rows agree.
LEMMA BudgetTyped == Spec => [](service = "budgets" => Budget!TypeOK)
<1>1. Group!Budget!Spec => []Group!Budget!TypeOK
  BY BudgetFit, NoMembers, Group!BudgetsTypeCorrect
<1>2. Group!Budget!TypeOK => Budget!TypeOK
  BY DEF
     Budget!Keys, Budget!Months, Budget!Steps, Budget!Request, Budget!TypeOK,
     Group!Budget!Keys, Group!Budget!Months, Group!Budget!Steps, Group!Budget!Request,
     Group!Budget!TypeOK
<1> QED BY <1>1, <1>2, BudgetRun, PTL

LEMMA BudgetAgree == Spec => [](service = "budgets" => Budget!OneBudgetPerKey)
<1>1. Group!Budget!Spec => []Group!Budget!OneBudgetPerKey
  BY BudgetFit, NoMembers, Group!OneBudgetPerKeyHolds
<1>2. Group!Budget!OneBudgetPerKey => Budget!OneBudgetPerKey
  BY DEF
     Budget!Keys, Budget!Months, Budget!Busy, Budget!Filling, Budget!OneBudgetPerKey,
     Group!Budget!Keys, Group!Budget!Months, Group!Budget!Busy, Group!Budget!Filling,
     Group!Budget!OneBudgetPerKey
<1> QED BY <1>1, <1>2, BudgetRun, PTL

-----------------------------------------------------------------------------
(* An anniversary and its tasks (Anniversaries).                           *)

\* Its parameters fit.
LEMMA AnnualFit == Group!Annual!ConstantsAssumption
BY AnniversaryAssumption DEF AnniversaryAssumption,
     Annual!Configurations, Annual!Offset, Annual!Row, Annual!Request,
     Annual!ConstantsAssumption, Group!Annual!Configurations, Group!Annual!Offset,
     Group!Annual!Row, Group!Annual!Request, Group!Annual!ConstantsAssumption

\* The service is another one throughout, or the behaviour is one of this service, as the two
\* instances have the same definitions.
LEMMA AnnualRun == Spec => []~(service = "anniversaries") \/ Group!Annual!Spec
<1>1. Init /\ service = "anniversaries" => Group!Annual!Init
  BY DEF Init,
     Annual!Workers, Annual!Init, Group!Annual!Workers, Group!Annual!Init
<1>2. [Annual!Next]_Annual!vars => [Group!Annual!Next]_Group!Annual!vars
  BY DEF
     Annual!ghosts, Annual!vars, Annual!Workers, Annual!Exists, Annual!CalcScheduledAt,
     Annual!Specs, Annual!Offsets, Annual!WithTasks, Annual!Recalculated, Annual!Begin,
     Annual!At, Annual!Done, Annual!Generation, Annual!Create, Annual!Look,
     Annual!Insert, Annual!InsertFails, Annual!UpdateRead, Annual!UpdateWrite,
     Annual!Clear, Annual!Delete, Annual!Detach, Annual!DeleteRow, Annual!Link,
     Annual!LinkWrite, Annual!Unlink, Annual!Fire, Annual!Extend, Annual!Release,
     Annual!NextDay, Annual!Next, Annual!Cardinality, Group!Annual!ghosts,
     Group!Annual!vars, Group!Annual!Workers, Group!Annual!Exists,
     Group!Annual!CalcScheduledAt, Group!Annual!Specs, Group!Annual!Offsets,
     Group!Annual!WithTasks, Group!Annual!Recalculated, Group!Annual!Begin,
     Group!Annual!At, Group!Annual!Done, Group!Annual!Generation, Group!Annual!Create,
     Group!Annual!Look, Group!Annual!Insert, Group!Annual!InsertFails,
     Group!Annual!UpdateRead, Group!Annual!UpdateWrite, Group!Annual!Clear,
     Group!Annual!Delete, Group!Annual!Detach, Group!Annual!DeleteRow, Group!Annual!Link,
     Group!Annual!LinkWrite, Group!Annual!Unlink, Group!Annual!Fire, Group!Annual!Extend,
     Group!Annual!Release, Group!Annual!NextDay, Group!Annual!Next,
     Group!Annual!Cardinality
<1>3. [Next]_vars => /\ service = "anniversaries" <=> (service = "anniversaries")'
                     /\ service = "anniversaries" => [Annual!Next]_Annual!vars
  BY DEF Next, vars, Annual!ghosts, Annual!vars
<1> QED BY <1>1, <1>2, <1>3, PTL DEF Spec, Group!Annual!Spec

\* So the service keeps its types, and its rows agree.
LEMMA AnnualTyped == Spec => [](service = "anniversaries" => Annual!TypeOK)
<1>1. Group!Annual!Spec => []Group!Annual!TypeOK
  BY AnnualFit, NoMembers, Group!AnniversariesTypeCorrect
<1>2. Group!Annual!TypeOK => Annual!TypeOK
  BY DEF
     Annual!Workers, Annual!Configurations, Annual!Offset, Annual!Row, Annual!Task,
     Annual!Request, Annual!TypeOK, Group!Annual!Workers, Group!Annual!Configurations,
     Group!Annual!Offset, Group!Annual!Row, Group!Annual!Task, Group!Annual!Request,
     Group!Annual!TypeOK
<1> QED BY <1>1, <1>2, AnnualRun, PTL

LEMMA AnnualAgree == Spec => [](service = "anniversaries" => Annual!TasksFollowAnniversary)
<1>1. Group!Annual!Spec => []Group!Annual!TasksFollowAnniversary
  BY AnnualFit, NoMembers, Group!TasksFollowAnniversaryHolds
<1>2. Group!Annual!TasksFollowAnniversary => Annual!TasksFollowAnniversary
  BY DEF
     Annual!Exists, Annual!CalcScheduledAt, Annual!Offsets, Annual!At, Annual!Milestone,
     Annual!TasksFollowAnniversary, Group!Annual!Exists, Group!Annual!CalcScheduledAt,
     Group!Annual!Offsets, Group!Annual!At, Group!Annual!Milestone,
     Group!Annual!TasksFollowAnniversary
<1> QED BY <1>1, <1>2, AnnualRun, PTL

-----------------------------------------------------------------------------
(* What the services promise together.                                     *)

\* The copies in Redis are those of the rows: the tokens of a user and the content of an
\* announcement, but for fills that a write overtook; and the views that Redis counts reach
\* the row (TokenCache, AnnouncementBoard).
THEOREM CachesFollowTablesHolds == Spec => []CachesFollowTables
<1>1. Records!Devices!Spec => []Records!Devices!TokenCopiesAgree
  BY DevicesFit, Records!TokenCopiesAgreeHolds
<1>2. Records!Board!Spec => []Records!Board!BoardFollowsRow
  BY BoardFit, Records!BoardFollowsRowHolds
<1>3. Records!Devices!TokenCopiesAgree => Devices!TokenCopiesAgree
  BY DEF
     Devices!At, Devices!TokensOf, Devices!Uninvalidated, Devices!Unsettled,
     Devices!TokenCopiesAgree, Devices!ToSet, Records!Devices!At,
     Records!Devices!TokensOf, Records!Devices!Uninvalidated, Records!Devices!Unsettled,
     Records!Devices!TokenCopiesAgree, Records!Devices!ToSet
<1>4. Records!Board!BoardFollowsRow => Board!BoardFollowsRow
  BY DEF
     Board!At, Board!Exists, Board!Found, Board!Dropping, Board!Counted,
     Board!BoardFollowsRow, Records!Board!At, Records!Board!Exists, Records!Board!Found,
     Records!Board!Dropping, Records!Board!Counted, Records!Board!BoardFollowsRow
<1>5. (service = "tokens" => Devices!TokenCopiesAgree)
        /\ (service = "board" => Board!BoardFollowsRow) => CachesFollowTables
  BY DEF CachesFollowTables
<1> QED BY <1>1, <1>2, <1>3, <1>4, <1>5, DevicesRun, BoardRun, PTL

\* Rows that nothing keeps together agree, but where requests crossed (the services above).
THEOREM RowsAgreeHolds == Spec => []RowsAgree
<1>1. /\ service = "budgets"   => Budget!OneBudgetPerKey
      /\ service = "votes"     => Vote!BallotsFollowChoice
      /\ service = "questions" => Question!AnswersFitQuestion
      /\ service = "routines"  => Routine!RoutineTablesAgree
      /\ service = "assets"    => Assets!RecordsMakeOneHistory
      /\ service = "roles"     => GroupRoles!RolesAgree
      /\ service = "anniversaries" => Annual!TasksFollowAnniversary
      /\ service = "reports"   => Reports!ReportsBounded
      <=> RowsAgree
  BY DEF RowsAgree
<1> QED BY <1>1, BudgetAgree, VoteAgree, QuestionAgree, RoutineAgree, AssetsAgree,
    GroupRolesAgree, AnnualAgree, ReportsBoundedHolds, PTL

\* Every service keeps its types.
THEOREM TypeCorrect == Spec => []TypeOK
<1> DEFINE Jobs == /\ service = "savings"   => Savings!TypeOK
                   /\ service = "recurring" => Recurring!TypeOK
                   /\ service = "alerts"    => Alert!TypeOK
                   /\ service = "assets"    => Assets!TypeOK
                   /\ service = "tasks"     => Tasks!TypeOK
                   /\ service = "anniversaries" => Annual!TypeOK
           Shared == /\ service = "memos"     => Memos!TypeOK
                     /\ service = "shopping"  => Shop!TypeOK
                     /\ service = "budgets"   => Budget!TypeOK
                     /\ service = "votes"     => Vote!TypeOK
                     /\ service = "roles"     => GroupRoles!TypeOK
                     /\ service = "reports"   => Reports!TypeOK
           Others == /\ service = "subscriptions" => Subs!TypeOK
                     /\ service = "questions" => Question!TypeOK
                     /\ service = "routines"  => Routine!TypeOK
                     /\ service = "tokens"    => Devices!TypeOK
                     /\ service = "board"     => Board!TypeOK
                     /\ service = "codes"     => Codes!TypeOK
<1>1. Spec => []Jobs
  BY SavingsTyped, RecurringTyped, AlertTyped, AssetsTyped, TasksTyped, AnnualTyped, PTL
<1>2. Spec => []Shared
  BY MemosTyped, ShopTyped, BudgetTyped, VoteTyped, GroupRolesTyped, ReportsTyped, PTL
<1>3. Spec => []Others
  BY SubsTyped, QuestionTyped, RoutineTyped, DevicesTyped, BoardTyped, CodesTyped, PTL
<1>4. Jobs /\ Shared /\ Others => TypeOK
  BY DEF TypeOK
<1> HIDE DEF Jobs, Shared, Others
<1> QED BY <1>1, <1>2, <1>3, <1>4, PTL

=============================================================================
