------------------------- MODULE TaskRemindersProofs -------------------------
(***************************************************************************)
(* Proofs about TaskReminders, for any tasks, any requests and workers at   *)
(* once, and any bounds.                                                    *)
(***************************************************************************)
EXTENDS TaskReminders, FiniteSetTheorems, TLAPS

-----------------------------------------------------------------------------
(* Type correctness.                                                       *)

\* The waiting room never holds infinitely many members: the script that moves the
\* due ones counts them.
Typed == TypeOK /\ IsFiniteSet(waiting)

\* A handler without a request is well-typed.
LEMMA IdleType == Idle \in Handler /\ Idle.task \in Tasks
<1>1. (CHOOSE t \in Tasks : TRUE) \in Tasks
  BY ConstantsAssumption
<1>2. 1 \in Time
  BY ConstantsAssumption DEF Time
<1> QED BY <1>1, <1>2 DEF Idle, Handler

\* What a handler keeps of its request.
LEMMA HandlerType ==
  ASSUME TypeOK, NEW h \in Handlers
  PROVE  /\ handler \in [Handlers -> Handler]
         /\ handler[h] \in Handler
         /\ handler[h].task \in Tasks /\ handler[h].at \in Time
         /\ handler[h].cancel \subseteq Reminder /\ handler[h].add \subseteq Reminder
         /\ handler[h].found \subseteq Member
<1>1. handler \in [Handlers -> Handler] /\ handler[h] \in Handler
  BY DEF TypeOK
<1> QED BY <1>1 DEF Handler

\* A request that moves on after a cancellation, and after a read.
LEMMA AfterCancelType == ASSUME NEW r \in Handler PROVE AfterCancel(r) \in Handler
<1>1. [r EXCEPT !.pc = "clock", !.found = {}] \in Handler
  BY DEF Handler
<1> QED BY <1>1, IdleType DEF AfterCancel

LEMMA AfterReadType == ASSUME NEW r \in Handler PROVE AfterRead(r) \in Handler
<1>1. [r EXCEPT !.pc = "scan"] \in Handler
  BY DEF Handler
<1> QED BY <1>1, AfterCancelType DEF AfterRead

\* A request that comes in.
LEMMA BeginType ==
  ASSUME Typed, NEW h \in Handlers, NEW t \in Tasks, NEW r \in Handler, Begin(h, t, r)
  PROVE  /\ handler' \in [Handlers -> Handler]
         /\ requests' \in 0..MaxRequests
         /\ disturbed' \subseteq Tasks
<1>1. handler' \in [Handlers -> Handler] /\ disturbed' \subseteq Tasks
  BY DEF Begin, Typed, TypeOK
<1>2. requests \in Nat /\ requests < MaxRequests /\ requests' = requests + 1
  BY DEF Begin, Typed, TypeOK
<1> QED BY <1>1, <1>2, ConstantsAssumption

\* Rows that are created have ids of their own.
LEMMA NewRemindersType ==
  ASSUME Typed, NEW t \in Tasks, NEW n \in 0..1, NewReminders(t, n)
  PROVE  /\ lastId' \in 0..MaxReminders /\ lastId <= lastId'
         /\ reminders' \in [Tasks -> SUBSET Reminder]
         /\ \A k \in reminders'[t] : lastId < k /\ k <= lastId'
<1>1. lastId \in Nat /\ lastId + n <= MaxReminders /\ lastId' = lastId + n /\ MaxReminders \in Nat
  BY ConstantsAssumption DEF NewReminders, Typed, TypeOK
<1>2. (lastId + 1 .. lastId + n) \subseteq Reminder
  BY <1>1 DEF Reminder
<1>3. reminders' = [reminders EXCEPT ![t] = lastId + 1 .. lastId + n]
      /\ reminders \in [Tasks -> SUBSET Reminder]
  BY DEF NewReminders, Typed, TypeOK
<1> QED BY <1>1, <1>2, <1>3

\* The members that are due, one after the other.
LEMMA DueMembersType ==
  ASSUME Typed, NEW s \in [1..Cardinality(DueMembers) -> DueMembers]
  PROVE  /\ Cardinality(DueMembers) \in Nat
         /\ s \in Seq(DueMembers) /\ Len(s) = Cardinality(DueMembers)
         /\ s \in Seq(Member)
<1>1. DueMembers \subseteq waiting /\ waiting \subseteq Member
  BY DEF DueMembers, Typed, TypeOK
<1>2. IsFiniteSet(DueMembers)
  BY <1>1, FS_Subset DEF Typed
<1>3. Cardinality(DueMembers) \in Nat
  BY <1>2, FS_CardinalityType
<1> QED BY <1>1, <1>3

LEMMA RequestTyped == ASSUME Typed, NEW h \in Handlers, Request(h) PROVE Typed'
<1>0. Idle \in Handler
  BY IdleType
<1>1. ASSUME NEW t \in Tasks, NEW at \in Time, NEW n \in 0..1, CreateTask(h, t, at, n)
      PROVE  Typed'
  <2> DEFINE r == [Idle EXCEPT !.pc = "read", !.kind = "create", !.task = t, !.at = at]
  <2>1. r \in Handler
    BY <1>0 DEF Handler
  <2>2. /\ handler' \in [Handlers -> Handler]
        /\ requests' \in 0..MaxRequests
        /\ disturbed' \subseteq Tasks
    BY <1>1, <2>1, BeginType DEF CreateTask
  <2>3. task' \in [Tasks -> TaskRow]
    BY <1>1 DEF CreateTask, Typed, TypeOK, TaskRow
  <2>4. lastId' \in 0..MaxReminders /\ reminders' \in [Tasks -> SUBSET Reminder]
    BY <1>1, NewRemindersType DEF CreateTask
  <2> QED BY <1>1, <2>2, <2>3, <2>4 DEF CreateTask, Typed, TypeOK, queueVars
<1>2. ASSUME NEW t \in Tasks, NEW at \in Time, NEW replace \in BOOLEAN,
             BeginUpdate(h, t, at, replace)
      PROVE  Typed'
  <2> DEFINE r == [Idle EXCEPT !.pc = IF replace THEN "ids" ELSE "tx",
                               !.kind = "update", !.task = t, !.at = at, !.replace = replace]
  <2>1. r \in Handler
    BY <1>0 DEF Handler
  <2>2. /\ handler' \in [Handlers -> Handler]
        /\ requests' \in 0..MaxRequests
        /\ disturbed' \subseteq Tasks
    BY <1>2, <2>1, BeginType DEF BeginUpdate
  <2> QED BY <1>2, <2>2 DEF BeginUpdate, Typed, TypeOK, dbVars, queueVars
<1>3. ASSUME NEW t \in Tasks, BeginDelete(h, t) PROVE Typed'
  <2> DEFINE r == [Idle EXCEPT !.pc = "tx", !.kind = "delete", !.task = t]
  <2>1. r \in Handler
    BY <1>0 DEF Handler
  <2>2. /\ handler' \in [Handlers -> Handler]
        /\ requests' \in 0..MaxRequests
        /\ disturbed' \subseteq Tasks
    BY <1>3, <2>1, BeginType DEF BeginDelete
  <2> QED BY <1>3, <2>2 DEF BeginDelete, Typed, TypeOK, dbVars, queueVars
<1> QED BY <1>1, <1>2, <1>3 DEF Request

\* A handler that goes on as r, and nothing else but what is named.
LEMMA HandlerTyped ==
  ASSUME Typed, NEW h \in Handlers, NEW r \in Handler,
         handler' = [handler EXCEPT ![h] = r]
  PROVE  handler' \in [Handlers -> Handler]
  BY DEF Typed, TypeOK

LEMMA ContinueTyped == ASSUME Typed, NEW h \in Handlers, Continue(h) PROVE Typed'
<1> DEFINE r == handler[h]
<1>0. TypeOK /\ IsFiniteSet(waiting) /\ Idle \in Handler
  BY IdleType DEF Typed
<1>1. r \in Handler /\ handler \in [Handlers -> Handler] /\ r.task \in Tasks /\ r.at \in Time
      /\ r.add \subseteq Reminder
  BY <1>0, HandlerType
<1>2. reminders \in [Tasks -> SUBSET Reminder] /\ reminders[r.task] \in SUBSET Reminder
  BY <1>0, <1>1 DEF TypeOK
<1>3. CASE ReadCanceled(h)
  <2>1. handler' \in [Handlers -> Handler]
    BY <1>3, <1>1, <1>2 DEF ReadCanceled, Handler
  <2> QED BY <1>3, <1>0, <2>1
          DEF ReadCanceled, Typed, TypeOK, dbVars, queueVars, ghostVars
<1>4. ASSUME NEW n \in 0..1, UpdateTx(h, n) PROVE Typed'
  <2>1. handler' \in [Handlers -> Handler]
    <3>1. [handler EXCEPT ![h].pc = "read"] \in [Handlers -> Handler]
      BY <1>1 DEF Handler
    <3> QED BY <1>4, <1>0, <1>1, <3>1 DEF UpdateTx
  <2>2. task' \in [Tasks -> TaskRow]
    <3>1. task \in [Tasks -> TaskRow] /\ task' = [task EXCEPT ![r.task].at = r.at]
      BY <1>4, <1>0 DEF UpdateTx, TypeOK
    <3>2. [task[r.task] EXCEPT !.at = r.at] \in TaskRow
      BY <1>1, <3>1 DEF TaskRow
    <3> HIDE DEF r
    <3> QED BY <1>1, <3>1, <3>2
  <2>3. lastId' \in 0..MaxReminders /\ reminders' \in [Tasks -> SUBSET Reminder]
    <3>1. CASE r.replace
      BY <1>4, <1>1, <3>1, NewRemindersType DEF UpdateTx
    <3>2. CASE ~r.replace
      BY <1>4, <1>0, <3>2 DEF UpdateTx, TypeOK
    <3> QED BY <3>1, <3>2
  <2> QED BY <1>4, <1>0, <2>1, <2>2, <2>3 DEF UpdateTx, Typed, TypeOK, queueVars, ghostVars
<1>5. CASE DeleteTx(h)
  <2>1. handler' \in [Handlers -> Handler]
    BY <1>5, <1>1 DEF DeleteTx, Handler
  <2>2. task' \in [Tasks -> TaskRow]
    <3>1. task \in [Tasks -> TaskRow] /\ task' = [task EXCEPT ![r.task].state = "deleted"]
      BY <1>5, <1>0 DEF DeleteTx, TypeOK
    <3>2. [task[r.task] EXCEPT !.state = "deleted"] \in TaskRow
      BY <1>1, <3>1 DEF TaskRow
    <3> HIDE DEF r
    <3> QED BY <1>1, <3>1, <3>2
  <2> QED BY <1>5, <1>0, <2>1, <2>2 DEF DeleteTx, Typed, TypeOK, queueVars, ghostVars
<1>6. CASE ReadReminders(h)
  <2>1. [r EXCEPT !.add = reminders[r.task]] \in Handler
    BY <1>1, <1>2 DEF Handler
  <2>2. handler' \in [Handlers -> Handler]
    BY <1>6, <2>1, AfterReadType, HandlerTyped DEF ReadReminders
  <2> QED BY <1>6, <1>0, <2>2 DEF ReadReminders, Typed, TypeOK, dbVars, queueVars, ghostVars
<1>7. CASE ReadDeleted(h)
  <2>1. [r EXCEPT !.cancel = reminders[r.task]] \in Handler
    BY <1>1, <1>2 DEF Handler
  <2>2. handler' \in [Handlers -> Handler]
    BY <1>7, <2>1, AfterReadType, HandlerTyped DEF ReadDeleted
  <2> QED BY <1>7, <1>0, <2>2 DEF ReadDeleted, Typed, TypeOK, dbVars, queueVars, ghostVars
<1>8. CASE ScanWaiting(h)
  <2> DEFINE found == {m \in waiting : m.key \in r.cancel}
  <2>1. [r EXCEPT !.pc = "remove", !.found = found] \in Handler
    BY <1>0, <1>1 DEF Handler, TypeOK
  <2>2. handler' \in [Handlers -> Handler]
    BY <1>8, <1>1, <2>1, AfterCancelType, HandlerTyped DEF ScanWaiting
  <2> QED BY <1>8, <1>0, <2>2 DEF ScanWaiting, Typed, TypeOK, dbVars, queueVars, ghostVars
<1>9. CASE RemoveFound(h)
  <2>1. handler' \in [Handlers -> Handler]
    BY <1>9, <1>1, AfterCancelType, HandlerTyped DEF RemoveFound
  <2>2. waiting' \subseteq waiting
    BY <1>9 DEF RemoveFound
  <2>3. IsFiniteSet(waiting')
    BY <1>0, <2>2, FS_Subset
  <2> QED BY <1>9, <1>0, <2>1, <2>2, <2>3 DEF RemoveFound, Typed, TypeOK, dbVars, ghostVars
<1>10. CASE ReadClock(h)
  <2>1. handler' \in [Handlers -> Handler]
    <3>1. [handler EXCEPT ![h].pc = "add"] \in [Handlers -> Handler]
      BY <1>1 DEF Handler
    <3> QED BY <1>10, <1>0, <1>1, <3>1 DEF ReadClock
  <2>2. settled' \subseteq Reminder
    BY <1>10, <1>0, <1>1 DEF ReadClock, TypeOK
  <2> QED BY <1>10, <1>0, <2>1, <2>2 DEF ReadClock, Typed, TypeOK, dbVars, queueVars
<1>11. ASSUME NEW k \in Reminder, AddReminder(h, k) PROVE Typed'
  <2> DEFINE m == [key |-> k, task |-> r.task, at |-> r.at]
  <2>1. [r EXCEPT !.add = @ \ {k}] \in Handler
    BY <1>1 DEF Handler
  <2>2. handler' \in [Handlers -> Handler]
    BY <1>11, <1>0, <1>1, <2>1, HandlerTyped DEF AddReminder
  <2>3. m \in Member
    BY <1>1 DEF Member
  <2>4. waiting' = waiting \cup {m}
    BY <1>11 DEF AddReminder
  <2>5. IsFiniteSet(waiting')
    BY <1>0, <2>4, FS_AddElement
  <2> QED BY <1>11, <1>0, <2>2, <2>3, <2>4, <2>5
          DEF AddReminder, Typed, TypeOK, dbVars, ghostVars
<1> QED BY <1>3, <1>4, <1>5, <1>6, <1>7, <1>8, <1>9, <1>10, <1>11 DEF Continue

LEMMA WorkerTyped == ASSUME Typed, NEW w \in Workers, WorkerStep(w) PROVE Typed'
<1>0. TypeOK /\ worker \in [Workers -> Handling \cup {Free}] /\ ready \in Seq(Member)
  BY DEF Typed, TypeOK
<1>1. CASE Pop(w)
  <2>1. ready # <<>> /\ Head(ready) \in Member /\ Tail(ready) \in Seq(Member)
    BY <1>1, <1>0 DEF Pop
  <2>2. [stage |-> "check", m |-> Head(ready), gone |-> FALSE] \in Handling
    BY <2>1 DEF Handling
  <2>3. worker' \in [Workers -> Handling \cup {Free}]
    BY <1>1, <1>0, <2>2 DEF Pop
  <2> QED BY <1>1, <1>0, <2>1, <2>3 DEF Pop, Typed, TypeOK, dbVars, ghostVars
<1>2. CASE CheckTask(w)
  <2>1. worker[w] \in Handling
    BY <1>2, <1>0 DEF CheckTask, Free
  <2>2. Gone(worker[w].m.task) \in BOOLEAN
    <3>1. worker[w].m.task \in Tasks
      BY <2>1 DEF Handling, Member
    <3>2. task[worker[w].m.task] \in TaskRow
      BY <1>0, <3>1 DEF TypeOK
    <3> QED BY <3>2 DEF Gone, TaskRow
  <2>3. [worker[w] EXCEPT !.stage = "send", !.gone = Gone(worker[w].m.task)] \in Handling
    BY <2>1, <2>2 DEF Handling
  <2>4. worker' \in [Workers -> Handling \cup {Free}]
    BY <1>2, <1>0, <2>3 DEF CheckTask
  <2> QED BY <1>2, <1>0, <2>4 DEF CheckTask, Typed, TypeOK, dbVars, ghostVars
<1>3. CASE Deliver(w)
  <2>1. worker' \in [Workers -> Handling \cup {Free}]
    BY <1>3, <1>0 DEF Deliver
  <2>2. pushed' \in [Reminder -> Nat]
    BY <1>3, <1>0 DEF Deliver, TypeOK
  <2> QED BY <1>3, <1>0, <2>1, <2>2 DEF Deliver, Typed, TypeOK, dbVars
<1> QED BY <1>1, <1>2, <1>3 DEF WorkerStep

LEMMA MoveReadyTyped == ASSUME Typed, MoveReady PROVE Typed'
<1>0. TypeOK
  BY DEF Typed
<1>1. PICK s \in [1..Cardinality(DueMembers) -> DueMembers] : ready' = ready \o s
  BY DEF MoveReady
<1>2. ready' \in Seq(Member)
  BY <1>0, <1>1, DueMembersType DEF TypeOK
<1>3. waiting' \subseteq waiting
  BY DEF MoveReady
<1>4. IsFiniteSet(waiting')
  BY <1>3, FS_Subset DEF Typed
<1>5. settled' \subseteq Reminder
  BY <1>0 DEF MoveReady, TypeOK, DueMembers, Member
<1> QED BY <1>0, <1>2, <1>3, <1>4, <1>5 DEF MoveReady, Typed, TypeOK, dbVars

LEMMA OtherTyped ==
  ASSUME Typed,
         \/ \E t \in Tasks, at \in Time, n \in 0..1 : GenerateTask(t, at, n)
         \/ \E t \in Tasks : Complete(t)
         \/ \E t \in Tasks, at \in Time : ClientSchedule(t, at)
         \/ Tick \/ Crash
  PROVE  Typed'
<1>0. TypeOK /\ IsFiniteSet(waiting)
  BY DEF Typed
<1>1. ASSUME NEW t \in Tasks, NEW at \in Time, NEW n \in 0..1, GenerateTask(t, at, n)
      PROVE  Typed'
  <2>1. task' \in [Tasks -> TaskRow]
    BY <1>1, <1>0 DEF GenerateTask, TypeOK, TaskRow
  <2>2. lastId' \in 0..MaxReminders /\ reminders' \in [Tasks -> SUBSET Reminder]
    BY <1>1, NewRemindersType DEF GenerateTask
  <2>3. requests' \in 0..MaxRequests
    <3>1. requests < MaxRequests /\ requests' = requests + 1
      BY <1>1 DEF GenerateTask
    <3> QED BY <3>1, <1>0, ConstantsAssumption DEF TypeOK
  <2> QED BY <1>1, <1>0, <2>1, <2>2, <2>3 DEF GenerateTask, Typed, TypeOK, queueVars, ghostVars
<1>2. ASSUME NEW t \in Tasks, Complete(t) PROVE Typed'
  <2>1. task' \in [Tasks -> TaskRow]
    BY <1>2, <1>0 DEF Complete, TypeOK, TaskRow
  <2> QED BY <1>2, <1>0, <2>1 DEF Complete, Typed, TypeOK, queueVars, ghostVars
<1>3. ASSUME NEW t \in Tasks, NEW at \in Time, ClientSchedule(t, at) PROVE Typed'
  <2> DEFINE m == [key |-> NoKey, task |-> t, at |-> at]
  <2>1. m \in Member
    BY DEF Member
  <2>2. waiting' = waiting \cup {m}
    BY <1>3 DEF ClientSchedule
  <2>3. IsFiniteSet(waiting')
    BY <1>0, <2>2, FS_AddElement
  <2>4. requests' \in 0..MaxRequests
    BY <1>3, <1>0, ConstantsAssumption DEF ClientSchedule, TypeOK
  <2> QED BY <1>3, <1>0, <2>1, <2>2, <2>3, <2>4
          DEF ClientSchedule, Typed, TypeOK, dbVars, ghostVars
<1>4. CASE Tick
  <2>1. now' \in 0..Horizon
    BY <1>4, <1>0, ConstantsAssumption DEF Tick, TypeOK
  <2> QED BY <1>4, <1>0, <2>1 DEF Tick, Typed, TypeOK, dbVars, queueVars, ghostVars
<1>5. CASE Crash
  <2>1. crashes' \in 0..MaxCrashes
    BY <1>5, <1>0, ConstantsAssumption DEF Crash, TypeOK
  <2>2. handler' \in [Handlers -> Handler] /\ worker' \in [Workers -> Handling \cup {Free}]
    BY <1>5, IdleType DEF Crash
  <2>3. disturbed' \subseteq Tasks
    BY <1>5, <1>0 DEF Crash, TypeOK
  <2> QED BY <1>5, <1>0, <2>1, <2>2, <2>3 DEF Crash, Typed, TypeOK, dbVars
<1> QED BY <1>1, <1>2, <1>3, <1>4, <1>5

LEMMA TypedStep == ASSUME Typed, [Next]_vars PROVE Typed'
<1>1. ASSUME NEW h \in Handlers, Request(h) \/ Continue(h) PROVE Typed'
  BY <1>1, RequestTyped, ContinueTyped
<1>2. CASE UNCHANGED vars
  BY <1>2 DEF Typed, TypeOK, vars
<1> QED BY <1>1, <1>2, WorkerTyped, MoveReadyTyped, OtherTyped DEF Next

LEMMA TypedHolds == Spec => []Typed
<1>1. Init => Typed
  <2> SUFFICES ASSUME Init PROVE Typed
    OBVIOUS
  <2>1. 1 \in Time /\ 0 \in 0..Horizon /\ 0 \in 0..MaxReminders
        /\ 0 \in 0..MaxRequests /\ 0 \in 0..MaxCrashes
    BY ConstantsAssumption DEF Time
  <2>2. task \in [Tasks -> TaskRow]
    BY <2>1 DEF Init, TaskRow
  <2>3. handler \in [Handlers -> Handler] /\ worker \in [Workers -> Handling \cup {Free}]
    BY IdleType DEF Init
  <2>4. IsFiniteSet(waiting)
    BY FS_EmptySet DEF Init
  <2> QED BY <2>1, <2>2, <2>3, <2>4 DEF Init, Typed, TypeOK
<1> QED BY <1>1, TypedStep, PTL DEF Spec

\* Every variable of the reminder model keeps to its type: what waits, is ready or is
\* handled is a member, and ids are those of rows ever created.
THEOREM TypeCorrect == Spec => []TypeOK
<1>1. Typed => TypeOK
  BY DEF Typed
<1> QED BY <1>1, TypedHolds, PTL

-----------------------------------------------------------------------------
(* What a handler has become after each of its steps.                      *)

Others(h) == \A g \in Handlers : g # h => handler'[g] = handler[g]

\* It serves the same request.
Same(h) ==
  /\ handler'[h].kind = handler[h].kind /\ handler'[h].task = handler[h].task
  /\ handler'[h].at = handler[h].at /\ handler'[h].replace = handler[h].replace

\* It has nothing to cancel any more: it ends, or goes on to add its reminders.
GoesOn(h, add) ==
  \/ add = {} /\ handler'[h] = Idle
  \/ add # {} /\ Same(h) /\ handler'[h].pc = "clock" /\ handler'[h].add = add
     /\ handler'[h].cancel = handler[h].cancel

LEMMA IdleFields ==
  Idle.pc = "idle" /\ Idle.cancel = {} /\ Idle.add = {} /\ Idle.replace = FALSE
  BY DEF Idle

LEMMA CreateTaskGoes ==
  ASSUME TypeOK, NEW h \in Handlers, NEW t \in Tasks, NEW at \in Time, NEW n \in 0..1,
         CreateTask(h, t, at, n)
  PROVE  /\ Others(h) /\ handler[h].pc = "idle"
         /\ handler'[h].pc = "read" /\ handler'[h].kind = "create" /\ handler'[h].task = t
         /\ handler'[h].cancel = {} /\ handler'[h].add = {}
  BY DEF CreateTask, Begin, TypeOK, Others, Idle

LEMMA BeginUpdateGoes ==
  ASSUME TypeOK, NEW h \in Handlers, NEW t \in Tasks, NEW at \in Time, NEW replace \in BOOLEAN,
         BeginUpdate(h, t, at, replace)
  PROVE  /\ Others(h) /\ handler[h].pc = "idle"
         /\ handler'[h].pc = IF replace THEN "ids" ELSE "tx"
         /\ handler'[h].kind = "update" /\ handler'[h].task = t
         /\ handler'[h].replace = replace
         /\ handler'[h].cancel = {} /\ handler'[h].add = {}
  BY DEF BeginUpdate, Begin, TypeOK, Others, Idle

LEMMA BeginDeleteGoes ==
  ASSUME TypeOK, NEW h \in Handlers, NEW t \in Tasks, BeginDelete(h, t)
  PROVE  /\ Others(h) /\ handler[h].pc = "idle"
         /\ handler'[h].pc = "tx" /\ handler'[h].kind = "delete" /\ handler'[h].task = t
         /\ handler'[h].replace = FALSE
         /\ handler'[h].cancel = {} /\ handler'[h].add = {}
  BY DEF BeginDelete, Begin, TypeOK, Others, Idle

LEMMA ReadCanceledGoes ==
  ASSUME TypeOK, NEW h \in Handlers, ReadCanceled(h)
  PROVE  /\ Others(h) /\ Same(h) /\ handler'[h].pc = "tx"
         /\ handler'[h].cancel = reminders[handler[h].task]
         /\ handler'[h].add = handler[h].add
  BY HandlerType DEF ReadCanceled, Handler, Others, Same

LEMMA UpdateTxGoes ==
  ASSUME TypeOK, NEW h \in Handlers, NEW n \in 0..1, UpdateTx(h, n)
  PROVE  /\ Others(h)
         /\ handler[h].replace =>
              /\ Same(h) /\ handler'[h].pc = "read"
              /\ handler'[h].cancel = handler[h].cancel /\ handler'[h].add = handler[h].add
         /\ ~handler[h].replace => handler'[h] = Idle
  BY HandlerType DEF UpdateTx, Handler, Others, Same

LEMMA DeleteTxGoes ==
  ASSUME TypeOK, NEW h \in Handlers, DeleteTx(h)
  PROVE  /\ Others(h) /\ Same(h) /\ handler'[h].pc = "ids"
         /\ handler'[h].cancel = handler[h].cancel /\ handler'[h].add = handler[h].add
  BY HandlerType DEF DeleteTx, Handler, Others, Same

\* After a cancellation, and after a read.
LEMMA AfterCancelGoes ==
  ASSUME TypeOK, NEW h \in Handlers, NEW r \in Handler,
         handler' = [handler EXCEPT ![h] = AfterCancel(r)],
         r.kind = handler[h].kind, r.task = handler[h].task, r.at = handler[h].at,
         r.replace = handler[h].replace, r.cancel = handler[h].cancel
  PROVE  Others(h) /\ GoesOn(h, r.add)
  BY HandlerType DEF AfterCancel, Handler, Others, Same, GoesOn

LEMMA ReadRemindersGoes ==
  ASSUME TypeOK, NEW h \in Handlers, ReadReminders(h)
  PROVE  /\ Others(h)
         /\ handler[h].cancel # {} =>
              /\ Same(h) /\ handler'[h].pc = "scan"
              /\ handler'[h].cancel = handler[h].cancel
              /\ handler'[h].add = reminders[handler[h].task]
         /\ handler[h].cancel = {} => GoesOn(h, reminders[handler[h].task])
<1> DEFINE r == handler[h]
           q == [r EXCEPT !.add = reminders[r.task]]
<1>1. r \in Handler /\ reminders[r.task] \in SUBSET Reminder /\ handler \in [Handlers -> Handler]
  BY HandlerType DEF TypeOK
<1>2. /\ q \in Handler /\ q.add = reminders[r.task]
      /\ q.kind = r.kind /\ q.task = r.task /\ q.at = r.at /\ q.replace = r.replace
      /\ q.cancel = r.cancel
  BY <1>1 DEF Handler
<1>3. handler' = [handler EXCEPT ![h] = AfterRead(q)]
  BY DEF ReadReminders
<1> HIDE DEF q
<1>4. CASE r.cancel = {}
  BY <1>2, <1>3, <1>4, AfterCancelGoes DEF AfterRead
<1>5. CASE r.cancel # {}
  <2>1. handler' = [handler EXCEPT ![h] = [q EXCEPT !.pc = "scan"]]
    BY <1>2, <1>3, <1>5 DEF AfterRead
  <2> QED BY <1>1, <1>2, <1>5, <2>1 DEF Handler, Others, Same
<1> QED BY <1>4, <1>5

LEMMA ReadDeletedGoes ==
  ASSUME TypeOK, NEW h \in Handlers, ReadDeleted(h)
  PROVE  /\ Others(h)
         /\ \/ /\ Same(h) /\ handler'[h].pc = "scan"
               /\ handler'[h].cancel = reminders[handler[h].task]
               /\ handler'[h].add = handler[h].add
            \/ /\ reminders[handler[h].task] = {}
               /\ \/ handler[h].add = {} /\ handler'[h] = Idle
                  \/ /\ Same(h) /\ handler'[h].pc = "clock" /\ handler'[h].cancel = {}
                     /\ handler'[h].add = handler[h].add /\ handler[h].add # {}
<1> DEFINE r == handler[h]
           q == [r EXCEPT !.cancel = reminders[r.task]]
<1>1. r \in Handler /\ reminders[r.task] \in SUBSET Reminder /\ handler \in [Handlers -> Handler]
  BY HandlerType DEF TypeOK
<1>2. /\ q \in Handler /\ q.add = r.add
      /\ q.kind = r.kind /\ q.task = r.task /\ q.at = r.at /\ q.replace = r.replace
      /\ q.cancel = reminders[r.task]
  BY <1>1 DEF Handler
<1>3. handler' = [handler EXCEPT ![h] = AfterRead(q)]
  BY DEF ReadDeleted
<1> HIDE DEF q
<1>4. CASE q.cancel = {}
  <2>1. handler' = [handler EXCEPT ![h] = AfterCancel(q)]
    BY <1>3, <1>4 DEF AfterRead
  <2> QED BY <1>1, <1>2, <1>4, <2>1 DEF AfterCancel, Handler, Others, Same
<1>5. CASE q.cancel # {}
  <2>1. handler' = [handler EXCEPT ![h] = [q EXCEPT !.pc = "scan"]]
    BY <1>3, <1>5 DEF AfterRead
  <2> QED BY <1>1, <1>2, <1>5, <2>1 DEF Handler, Others, Same
<1> QED BY <1>4, <1>5

LEMMA ScanWaitingGoes ==
  ASSUME TypeOK, NEW h \in Handlers, ScanWaiting(h)
  PROVE  /\ Others(h)
         /\ \/ /\ \A m \in waiting : m.key \notin handler[h].cancel
               /\ GoesOn(h, handler[h].add)
            \/ /\ Same(h) /\ handler'[h].pc = "remove"
               /\ handler'[h].found = {m \in waiting : m.key \in handler[h].cancel}
               /\ handler'[h].cancel = handler[h].cancel /\ handler'[h].add = handler[h].add
<1> DEFINE r == handler[h]
           found == {m \in waiting : m.key \in r.cancel}
<1>1. r \in Handler /\ handler \in [Handlers -> Handler] /\ found \subseteq Member
  BY HandlerType DEF TypeOK
<1>2. CASE found = {}
  <2>1. handler' = [handler EXCEPT ![h] = AfterCancel(r)]
    BY <1>2 DEF ScanWaiting
  <2> QED BY <1>1, <1>2, <2>1, AfterCancelGoes
<1>3. CASE found # {}
  <2>1. handler' = [handler EXCEPT ![h] = [r EXCEPT !.pc = "remove", !.found = found]]
    BY <1>3 DEF ScanWaiting
  <2> HIDE DEF found
  <2>2. /\ Others(h) /\ Same(h) /\ handler'[h].pc = "remove" /\ handler'[h].found = found
        /\ handler'[h].cancel = handler[h].cancel /\ handler'[h].add = handler[h].add
    BY <1>1, <2>1 DEF Handler, Others, Same
  <2> QED BY <2>2 DEF found
<1> QED BY <1>2, <1>3

LEMMA RemoveFoundGoes ==
  ASSUME TypeOK, NEW h \in Handlers, RemoveFound(h)
  PROVE  Others(h) /\ GoesOn(h, handler[h].add)
  BY HandlerType, AfterCancelGoes DEF RemoveFound

LEMMA ReadClockGoes ==
  ASSUME TypeOK, NEW h \in Handlers, ReadClock(h)
  PROVE  /\ Others(h)
         /\ \/ handler'[h] = Idle /\ settled' = settled \cup handler[h].add
            \/ /\ Same(h) /\ handler'[h].pc = "add" /\ settled' = settled
               /\ handler'[h].cancel = handler[h].cancel /\ handler'[h].add = handler[h].add
  BY HandlerType DEF ReadClock, Handler, Others, Same

LEMMA AddReminderGoes ==
  ASSUME TypeOK, NEW h \in Handlers, NEW k \in Reminder, AddReminder(h, k)
  PROVE  /\ Others(h)
         /\ \/ handler'[h] = Idle /\ handler[h].add = {k}
            \/ /\ Same(h) /\ handler'[h].pc = "add"
               /\ handler'[h].cancel = handler[h].cancel
               /\ handler'[h].add = handler[h].add \ {k}
<1>1. handler[h] \in Handler /\ handler \in [Handlers -> Handler]
  BY HandlerType
<1> QED BY <1>1 DEF AddReminder, Handler, Others, Same

-----------------------------------------------------------------------------
(* Keys: a reminder belongs to one task.                                   *)

\* Where the key of a reminder may be, on its way to the push.
InAdd(k) == \E h \in Handlers : k \in handler[h].add
InWaiting(k) == \E m \in waiting : m.key = k
InReady(k) == \E i \in 1..Len(ready) : ready[i].key = k
InWorker(k) == \E w \in Workers : worker[w].stage # "free" /\ worker[w].m.key = k
Sent(k) == pushed[k] # 0
Taken(k) == InReady(k) \/ InWorker(k) \/ Sent(k)
Used(k) == InAdd(k) \/ InWaiting(k) \/ Taken(k)

\* The row, a request or a member of the waiting room has it as a reminder of t.
Names(t, k) ==
  \/ k \in reminders[t]
  \/ \E h \in Handlers :
       handler[h].task = t /\ (k \in handler[h].cancel \/ k \in handler[h].add)
  \/ \E m \in waiting : m.task = t /\ m.key = k

OneOwner == \A s, t \in Tasks, k \in Reminder : Names(s, k) /\ Names(t, k) => s = t
NamesAreOld == \A t \in Tasks, k \in Reminder : Names(t, k) => k <= lastId
TakenAreOld == \A k \in Reminder : Taken(k) => k <= lastId
FoundAreCancelled ==
  \A h \in Handlers :
    /\ handler[h].pc = "remove" =>
         \A m \in handler[h].found : m.key \in handler[h].cancel
    /\ handler[h].pc = "idle" => handler[h].add = {} /\ handler[h].cancel = {}

KeysInv == OneOwner /\ NamesAreOld /\ TakenAreOld /\ FoundAreCancelled

\* A step that names no key anew, but for rows that are created, and takes keys only
\* from the waiting room.
LEMMA KeysKept ==
  ASSUME Typed, KeysInv, lastId' \in Nat, lastId <= lastId', NEW v \in Tasks,
         \A t \in Tasks, k \in Reminder :
           Names(t, k)' => Names(t, k) \/ (t = v /\ lastId < k /\ k <= lastId'),
         \A k \in Reminder : Taken(k)' => Taken(k) \/ InWaiting(k),
         FoundAreCancelled'
  PROVE  KeysInv'
<1>1. lastId \in Nat /\ \A k \in Reminder : k \in Nat
  BY DEF Typed, TypeOK, Reminder
<1>2. NamesAreOld'
  BY <1>1 DEF KeysInv, NamesAreOld
<1>3. OneOwner'
  <2> SUFFICES ASSUME NEW s \in Tasks, NEW t \in Tasks, NEW k \in Reminder,
                      Names(s, k)', Names(t, k)'
               PROVE  s = t
    BY DEF OneOwner
  <2>1. CASE lastId < k
    <3>1. ~Names(s, k) /\ ~Names(t, k)
      BY <1>1, <2>1 DEF KeysInv, NamesAreOld
    <3> QED BY <3>1
  <2>2. CASE ~(lastId < k)
    BY <2>2 DEF KeysInv, OneOwner
  <2> QED BY <2>1, <2>2
<1>4. TakenAreOld'
  <2> SUFFICES ASSUME NEW k \in Reminder, Taken(k)' PROVE k <= lastId'
    BY DEF TakenAreOld
  <2>1. k <= lastId
    <3>1. CASE InWaiting(k)
      <4>1. PICK m \in waiting : m.key = k
        BY <3>1 DEF InWaiting
      <4>2. m.task \in Tasks /\ Names(m.task, k)
        BY <4>1 DEF Names, Typed, TypeOK, Member
      <4> QED BY <4>2 DEF KeysInv, NamesAreOld
    <3>2. CASE Taken(k)
      BY <3>2 DEF KeysInv, TakenAreOld
    <3> QED BY <3>1, <3>2
  <2> QED BY <2>1, <1>1
<1> QED BY <1>2, <1>3, <1>4 DEF KeysInv

\* The step of one handler: it keeps its task, and the keys it has are those it had
\* or those of the rows of its task.
LEMMA HandlerNames ==
  ASSUME Typed, KeysInv, NEW h \in Handlers, Others(h),
         NEW v \in Tasks,
         \/ handler'[h] = Idle
         \/ /\ handler'[h].task = v
            /\ \A k \in Reminder :
                 k \in handler'[h].cancel \/ k \in handler'[h].add => Names(v, k),
         \A m \in waiting' :
           m.key \in Reminder => Names(m.task, m.key),
         reminders' = reminders
  PROVE  \A t \in Tasks, k \in Reminder : Names(t, k)' => Names(t, k)
<1> SUFFICES ASSUME NEW t \in Tasks, NEW k \in Reminder, Names(t, k)' PROVE Names(t, k)
  OBVIOUS
<1>1. CASE k \in reminders'[t]
  BY <1>1 DEF Names
<1>2. CASE \E m \in waiting' : m.task = t /\ m.key = k
  BY <1>2
<1>3. ASSUME NEW g \in Handlers, handler'[g].task = t,
             k \in handler'[g].cancel \/ k \in handler'[g].add
      PROVE  Names(t, k)
  <2>1. CASE g = h
    BY <2>1, <1>3, IdleFields
  <2>2. CASE g # h
    BY <2>2, <1>3 DEF Others, Names
  <2> QED BY <2>1, <2>2
<1> QED BY <1>1, <1>2, <1>3 DEF Names

\* What is found is cancelled, after the step of one handler.
LEMMA HandlerFound ==
  ASSUME FoundAreCancelled, NEW h \in Handlers, Others(h),
         \/ handler'[h] = Idle
         \/ handler'[h].pc \notin {"idle", "remove"}
         \/ handler'[h].pc = "remove" /\ \A m \in handler'[h].found : m.key \in handler'[h].cancel
  PROVE  FoundAreCancelled'
  BY IdleFields DEF FoundAreCancelled, Others

\* The places after the waiting room are left alone.
LEMMA TakenKept ==
  ASSUME UNCHANGED <<ready, worker, pushed>>
  PROVE  \A k \in Reminder : Taken(k)' <=> Taken(k)
  BY DEF Taken, InReady, InWorker, Sent

\* Members that wait are named.
LEMMA WaitingNames ==
  ASSUME NEW m \in waiting PROVE Names(m.task, m.key)
  BY DEF Names

LEMMA RequestKeys == ASSUME Typed, KeysInv, NEW h \in Handlers, Request(h) PROVE KeysInv'
<1>0. TypeOK /\ FoundAreCancelled /\ lastId \in Nat /\ lastId <= lastId
  BY DEF Typed, TypeOK, KeysInv
<1>1. ASSUME NEW t \in Tasks, NEW at \in Time, NEW n \in 0..1, CreateTask(h, t, at, n)
      PROVE  KeysInv'
  <2> USE CreateTaskGoes, <1>0, <1>1
  <2>1. FoundAreCancelled'
    BY HandlerFound
  <2>2. UNCHANGED <<waiting, ready, worker, pushed>> /\ NewReminders(t, n)
    BY DEF CreateTask, queueVars
  <2>3. /\ lastId' \in 0..MaxReminders /\ lastId <= lastId'
        /\ \A k \in reminders'[t] : lastId < k /\ k <= lastId'
        /\ \A s \in Tasks : s # t => reminders'[s] = reminders[s]
    BY <2>2, NewRemindersType DEF NewReminders, TypeOK
  <2>4. \A s \in Tasks, k \in Reminder :
          Names(s, k)' => Names(s, k) \/ (s = t /\ lastId < k /\ k <= lastId')
    BY <2>2, <2>3 DEF Names, Others
  <2> QED BY <2>1, <2>2, <2>3, <2>4, TakenKept, KeysKept
<1>2. ASSUME NEW t \in Tasks, NEW at \in Time, NEW replace \in BOOLEAN,
             BeginUpdate(h, t, at, replace)
      PROVE  KeysInv'
  <2> USE BeginUpdateGoes, <1>0, <1>2
  <2>1. FoundAreCancelled'
    BY HandlerFound
  <2>2. UNCHANGED <<reminders, lastId, waiting, ready, worker, pushed>>
    BY DEF BeginUpdate, dbVars, queueVars
  <2>3. \A s \in Tasks, k \in Reminder : Names(s, k)' => Names(s, k)
    BY <2>2 DEF Names, Others
  <2> QED BY <2>1, <2>2, <2>3, TakenKept, KeysKept
<1>3. ASSUME NEW t \in Tasks, BeginDelete(h, t) PROVE KeysInv'
  <2> USE BeginDeleteGoes, <1>0, <1>3
  <2>1. FoundAreCancelled'
    BY HandlerFound
  <2>2. UNCHANGED <<reminders, lastId, waiting, ready, worker, pushed>>
    BY DEF BeginDelete, dbVars, queueVars
  <2>3. \A s \in Tasks, k \in Reminder : Names(s, k)' => Names(s, k)
    BY <2>2 DEF Names, Others
  <2> QED BY <2>1, <2>2, <2>3, TakenKept, KeysKept
<1> QED BY <1>1, <1>2, <1>3 DEF Request

LEMMA ContinueKeys == ASSUME Typed, KeysInv, NEW h \in Handlers, Continue(h) PROVE KeysInv'
<1> DEFINE r == handler[h]
           v == r.task
<1>0. TypeOK /\ FoundAreCancelled /\ lastId \in Nat /\ lastId <= lastId /\ v \in Tasks
  BY HandlerType DEF Typed, TypeOK, KeysInv
<1>a. \A k \in Reminder : k \in r.cancel \/ k \in r.add \/ k \in reminders[v] => Names(v, k)
  BY DEF Names
<1>b. ASSUME UNCHANGED <<reminders, lastId, ready, worker, pushed>>, Others(h),
             \A m \in waiting' : m.key \in Reminder => Names(m.task, m.key),
             \/ handler'[h] = Idle
             \/ /\ handler'[h].task = v
                /\ \A k \in Reminder :
                     k \in handler'[h].cancel \/ k \in handler'[h].add => Names(v, k),
             FoundAreCancelled'
      PROVE  KeysInv'
  <2>1. \A t \in Tasks, k \in Reminder : Names(t, k)' => Names(t, k)
    BY <1>b, <1>0, HandlerNames
  <2>2. \A k \in Reminder : Taken(k)' => Taken(k)
    BY <1>b, TakenKept
  <2> QED BY <1>0, <1>b, <2>1, <2>2, KeysKept
<1>c. \A m \in waiting : m.key \in Reminder => Names(m.task, m.key)
  BY WaitingNames
<1>3. CASE ReadCanceled(h)
  <2> USE <1>3, <1>0, ReadCanceledGoes
  <2>1. UNCHANGED <<reminders, lastId, waiting, ready, worker, pushed>>
    BY DEF ReadCanceled, dbVars, queueVars, ghostVars
  <2>2. FoundAreCancelled'
    BY HandlerFound
  <2> QED BY <2>1, <2>2, <1>a, <1>b, <1>c DEF Same
<1>4. ASSUME NEW n \in 0..1, UpdateTx(h, n) PROVE KeysInv'
  <2> USE <1>4, <1>0, UpdateTxGoes
  <2>1. UNCHANGED <<waiting, ready, worker, pushed>>
    BY DEF UpdateTx, queueVars, ghostVars
  <2>2. FoundAreCancelled'
    <3>1. r.replace \in BOOLEAN
      BY HandlerType DEF Handler
    <3> QED BY <3>1, HandlerFound
  <2>3. CASE r.replace
    <3>1. NewReminders(v, n)
      BY <2>3 DEF UpdateTx
    <3>2. /\ lastId' \in 0..MaxReminders /\ lastId <= lastId'
          /\ \A k \in reminders'[v] : lastId < k /\ k <= lastId'
          /\ \A s \in Tasks : s # v => reminders'[s] = reminders[s]
      BY <3>1, NewRemindersType DEF NewReminders, TypeOK
    <3>3. \A s \in Tasks, k \in Reminder :
            Names(s, k)' => Names(s, k) \/ (s = v /\ lastId < k /\ k <= lastId')
      <4> SUFFICES ASSUME NEW s \in Tasks, NEW k \in Reminder, Names(s, k)'
                   PROVE  Names(s, k) \/ (s = v /\ lastId < k /\ k <= lastId')
        OBVIOUS
      <4>1. CASE k \in reminders'[s]
        BY <4>1, <3>2 DEF Names
      <4>2. CASE \E m \in waiting' : m.task = s /\ m.key = k
        BY <4>2, <2>1 DEF Names
      <4>3. ASSUME NEW g \in Handlers, handler'[g].task = s,
                   k \in handler'[g].cancel \/ k \in handler'[g].add
            PROVE  Names(s, k)
        BY <4>3, <2>3 DEF Names, Others, Same
      <4> QED BY <4>1, <4>2, <4>3 DEF Names
    <3> QED BY <2>1, <2>2, <3>2, <3>3, TakenKept, KeysKept
  <2>4. CASE ~r.replace
    <3>1. UNCHANGED <<reminders, lastId>>
      BY <2>4 DEF UpdateTx
    <3> QED BY <2>1, <2>2, <2>4, <3>1, <1>b, <1>c
  <2> QED BY <2>3, <2>4
<1>5. CASE DeleteTx(h)
  <2> USE <1>5, <1>0, DeleteTxGoes
  <2>1. UNCHANGED <<reminders, lastId, waiting, ready, worker, pushed>>
    BY DEF DeleteTx, queueVars, ghostVars
  <2>2. FoundAreCancelled'
    BY HandlerFound
  <2> QED BY <2>1, <2>2, <1>a, <1>b, <1>c DEF Same
<1>6. CASE ReadReminders(h)
  <2> USE <1>6, <1>0, ReadRemindersGoes
  <2>1. UNCHANGED <<reminders, lastId, waiting, ready, worker, pushed>>
    BY DEF ReadReminders, dbVars, queueVars, ghostVars
  <2>2. FoundAreCancelled'
    BY HandlerFound DEF GoesOn
  <2> QED BY <2>1, <2>2, <1>a, <1>b, <1>c DEF Same, GoesOn
<1>7. CASE ReadDeleted(h)
  <2> USE <1>7, <1>0, ReadDeletedGoes
  <2>1. UNCHANGED <<reminders, lastId, waiting, ready, worker, pushed>>
    BY DEF ReadDeleted, dbVars, queueVars, ghostVars
  <2>2. FoundAreCancelled'
    BY HandlerFound DEF GoesOn
  <2> QED BY <2>1, <2>2, <1>a, <1>b, <1>c DEF Same
<1>8. CASE ScanWaiting(h)
  <2> USE <1>8, <1>0, ScanWaitingGoes
  <2>1. UNCHANGED <<reminders, lastId, waiting, ready, worker, pushed>>
    BY DEF ScanWaiting, dbVars, queueVars, ghostVars
  <2>2. FoundAreCancelled'
    BY HandlerFound DEF GoesOn
  <2> QED BY <2>1, <2>2, <1>a, <1>b, <1>c DEF Same, GoesOn
<1>9. CASE RemoveFound(h)
  <2> USE <1>9, <1>0, RemoveFoundGoes
  <2>1. UNCHANGED <<reminders, lastId, ready, worker, pushed>> /\ waiting' \subseteq waiting
    BY DEF RemoveFound, dbVars, ghostVars
  <2>2. FoundAreCancelled'
    BY HandlerFound DEF GoesOn
  <2> QED BY <2>1, <2>2, <1>a, <1>b, <1>c DEF Same, GoesOn
<1>10. CASE ReadClock(h)
  <2> USE <1>10, <1>0, ReadClockGoes
  <2>1. UNCHANGED <<reminders, lastId, waiting, ready, worker, pushed>>
    BY DEF ReadClock, dbVars, queueVars
  <2>2. FoundAreCancelled'
    BY HandlerFound
  <2> QED BY <2>1, <2>2, <1>a, <1>b, <1>c DEF Same
<1>11. ASSUME NEW k \in Reminder, AddReminder(h, k) PROVE KeysInv'
  <2> USE <1>11, <1>0, AddReminderGoes
  <2>1. /\ UNCHANGED <<reminders, lastId, ready, worker, pushed>>
        /\ waiting' = waiting \cup {[key |-> k, task |-> v, at |-> r.at]}
        /\ k \in r.add
    BY DEF AddReminder, dbVars, ghostVars
  <2>2. FoundAreCancelled'
    BY HandlerFound
  <2>3. \A m \in waiting' : m.key \in Reminder => Names(m.task, m.key)
    BY <2>1, <1>a, <1>c
  <2> QED BY <2>1, <2>2, <2>3, <1>a, <1>b DEF Same
<1> QED BY <1>3, <1>4, <1>5, <1>6, <1>7, <1>8, <1>9, <1>10, <1>11 DEF Continue

\* The script: the due members leave the waiting room for the end of the ready queue,
\* each once.
LEMMA MoveReadyGoes ==
  ASSUME Typed, MoveReady
  PROVE  \E s \in Seq(DueMembers) :
           /\ Len(s) \in Nat /\ Len(ready) \in Nat
           /\ Len(ready') = Len(ready) + Len(s)
           /\ \A i \in 1..Len(ready') :
                ready'[i] = IF i <= Len(ready) THEN ready[i] ELSE s[i - Len(ready)]
           /\ \A i \in 1..Len(s) : s[i] \in DueMembers
           /\ \A i, j \in 1..Len(s) : i < j => s[i] # s[j]
<1>1. PICK s \in [1..Cardinality(DueMembers) -> DueMembers] :
        /\ \A i, j \in DOMAIN s : i < j => s[i] # s[j] /\ s[i].at <= s[j].at
        /\ ready' = ready \o s
  BY DEF MoveReady
<1>2. /\ Cardinality(DueMembers) \in Nat /\ s \in Seq(DueMembers)
      /\ Len(s) = Cardinality(DueMembers) /\ s \in Seq(Member)
  BY DueMembersType
<1>3. ready \in Seq(Member)
  BY DEF Typed, TypeOK
<1>4. /\ Len(s) \in Nat /\ Len(ready) \in Nat /\ Len(ready') = Len(ready) + Len(s)
      /\ \A i \in 1..Len(ready') :
           ready'[i] = IF i <= Len(ready) THEN ready[i] ELSE s[i - Len(ready)]
  <2>1. Len(s) \in Nat /\ Len(ready) \in Nat
    BY <1>2, <1>3
  <2>2. Len(ready \o s) = Len(ready) + Len(s)
    BY <1>2, <1>3
  <2>3. \A i \in 1..(Len(ready) + Len(s)) :
           (ready \o s)[i] = IF i <= Len(ready) THEN ready[i] ELSE s[i - Len(ready)]
    BY <1>2, <1>3
  <2> QED BY <1>1, <2>1, <2>2, <2>3
<1>5. \A i \in 1..Len(s) : s[i] \in DueMembers
  BY <1>2
<1>6. \A i, j \in 1..Len(s) : i < j => s[i] # s[j]
  BY <1>1, <1>2
<1> QED BY <1>2, <1>4, <1>5, <1>6

LEMMA MoveReadyPlaces ==
  ASSUME Typed, MoveReady, NEW k \in Reminder
  PROVE  /\ waiting' = waiting \ DueMembers
         /\ InReady(k)' => InReady(k) \/ \E m \in DueMembers : m.key = k
<1>1. PICK s \in Seq(DueMembers) :
           /\ Len(s) \in Nat /\ Len(ready) \in Nat
           /\ Len(ready') = Len(ready) + Len(s)
           /\ \A i \in 1..Len(ready') :
                ready'[i] = IF i <= Len(ready) THEN ready[i] ELSE s[i - Len(ready)]
           /\ \A i \in 1..Len(s) : s[i] \in DueMembers
  BY MoveReadyGoes
<1>2. ASSUME NEW i \in 1..Len(ready'), ready'[i].key = k
      PROVE  InReady(k) \/ \E m \in DueMembers : m.key = k
  <2>1. CASE i <= Len(ready)
    BY <1>1, <1>2, <2>1 DEF InReady
  <2>2. CASE ~(i <= Len(ready))
    <3>1. i - Len(ready) \in 1..Len(s) /\ s[i - Len(ready)].key = k
      BY <1>1, <1>2, <2>2
    <3> QED BY <1>1, <3>1
  <2> QED BY <2>1, <2>2
<1>3. waiting' = waiting \ DueMembers
  BY DEF MoveReady
<1> QED BY <1>2, <1>3 DEF InReady

\* A worker: it takes the head of the ready queue, and drops or pushes what it has.
LEMMA PopGoes ==
  ASSUME Typed, NEW w \in Workers, Pop(w)
  PROVE  /\ Head(ready) = ready[1] /\ 1 \in 1..Len(ready)
         /\ Len(ready) \in Nat /\ Len(ready') = Len(ready) - 1
         /\ \A i \in 1..Len(ready') : ready'[i] = ready[i + 1] /\ i + 1 \in 1..Len(ready)
         /\ worker[w].stage = "free"
         /\ worker'[w].stage = "check" /\ worker'[w].m = ready[1]
         /\ \A x \in Workers : x # w => worker'[x] = worker[x]
<1>1. ready \in Seq(Member) /\ ready # <<>> /\ worker \in [Workers -> Handling \cup {Free}]
  BY DEF Pop, Typed, TypeOK
<1>2. Head(ready) = ready[1] /\ 1 \in 1..Len(ready) /\ Len(ready) \in Nat
  BY <1>1
<1>3. ready' = Tail(ready)
  BY DEF Pop
<1>4. Len(ready') = Len(ready) - 1
      /\ \A i \in 1..Len(ready') : ready'[i] = ready[i + 1] /\ i + 1 \in 1..Len(ready)
  BY <1>1, <1>2, <1>3
<1>5. /\ worker[w].stage = "free"
      /\ worker'[w].stage = "check" /\ worker'[w].m = ready[1]
      /\ \A x \in Workers : x # w => worker'[x] = worker[x]
  BY <1>1, <1>2 DEF Pop
<1> QED BY <1>2, <1>4, <1>5

LEMMA CheckGoes ==
  ASSUME Typed, NEW w \in Workers, CheckTask(w)
  PROVE  /\ worker[w].stage = "check"
         /\ \/ worker'[w].stage = "free"
            \/ worker'[w].stage = "send" /\ worker'[w].m = worker[w].m
         /\ \A x \in Workers : x # w => worker'[x] = worker[x]
<1>1. worker \in [Workers -> Handling \cup {Free}] /\ worker[w] \in Handling
  BY DEF CheckTask, Typed, TypeOK, Free
<1>2. PICK gone :
        worker'[w] = IF worker[w].m.key = NoKey /\ task[worker[w].m.task].state = "deleted"
                     THEN Free ELSE [worker[w] EXCEPT !.stage = "send", !.gone = gone]
  BY <1>1 DEF CheckTask
<1>3. [worker[w] EXCEPT !.stage = "send", !.gone = gone].stage = "send"
      /\ [worker[w] EXCEPT !.stage = "send", !.gone = gone].m = worker[w].m
  BY <1>1 DEF Handling
<1>4. worker[w].stage = "check" /\ \A x \in Workers : x # w => worker'[x] = worker[x]
  BY <1>1 DEF CheckTask
<1>5. worker'[w] = Free \/ worker'[w] = [worker[w] EXCEPT !.stage = "send", !.gone = gone]
  BY <1>2
<1>6. \/ worker'[w].stage = "free"
      \/ worker'[w].stage = "send" /\ worker'[w].m = worker[w].m
  <2>1. CASE worker'[w] = Free
    <3>1. Free.stage = "free"
      BY DEF Free
    <3> QED BY <2>1, <3>1
  <2>2. CASE worker'[w] = [worker[w] EXCEPT !.stage = "send", !.gone = gone]
    BY <2>2, <1>3
  <2> QED BY <1>5, <2>1, <2>2
<1> QED BY <1>4, <1>6

LEMMA DeliverGoes ==
  ASSUME Typed, NEW w \in Workers, Deliver(w)
  PROVE  /\ worker[w].stage = "send"
         /\ worker'[w].stage = "free"
         /\ \A x \in Workers : x # w => worker'[x] = worker[x]
         /\ \A k \in Reminder :
              \/ pushed'[k] = pushed[k]
              \/ k = worker[w].m.key /\ pushed'[k] = pushed[k] + 1
<1>1. worker \in [Workers -> Handling \cup {Free}] /\ pushed \in [Reminder -> Nat]
  BY DEF Typed, TypeOK
<1>2. \A k \in Reminder :
        \/ pushed'[k] = pushed[k]
        \/ k = worker[w].m.key /\ pushed'[k] = pushed[k] + 1
  BY <1>1 DEF Deliver
<1>3. /\ worker[w].stage = "send" /\ worker'[w].stage = "free"
      /\ \A x \in Workers : x # w => worker'[x] = worker[x]
  BY <1>1 DEF Deliver, Free
<1> QED BY <1>2, <1>3

LEMMA WorkerPlaces ==
  ASSUME Typed, NEW w \in Workers, WorkerStep(w), NEW k \in Reminder
  PROVE  Taken(k)' => Taken(k)
<1>1. CASE Pop(w)
  <2>1. InReady(k)' => InReady(k)
    BY <1>1, PopGoes DEF InReady
  <2>2. InWorker(k)' => InWorker(k) \/ InReady(k)
    BY <1>1, PopGoes DEF InWorker, InReady
  <2>3. Sent(k)' <=> Sent(k)
    BY <1>1 DEF Pop, Sent, ghostVars
  <2> QED BY <2>1, <2>2, <2>3 DEF Taken
<1>2. CASE CheckTask(w)
  <2>1. InWorker(k)' => InWorker(k)
    BY <1>2, CheckGoes DEF InWorker
  <2>2. InReady(k)' <=> InReady(k)
    BY <1>2 DEF CheckTask, InReady
  <2>3. Sent(k)' <=> Sent(k)
    BY <1>2 DEF CheckTask, Sent, ghostVars
  <2> QED BY <2>1, <2>2, <2>3 DEF Taken
<1>3. CASE Deliver(w)
  <2>1. InWorker(k)' => InWorker(k)
    BY <1>3, DeliverGoes DEF InWorker
  <2>2. InReady(k)' <=> InReady(k)
    BY <1>3 DEF Deliver, InReady
  <2>3. Sent(k)' => Sent(k) \/ InWorker(k)
    BY <1>3, DeliverGoes DEF Sent, InWorker
  <2> QED BY <2>1, <2>2, <2>3 DEF Taken
<1> QED BY <1>1, <1>2, <1>3 DEF WorkerStep

LEMMA OtherKeys ==
  ASSUME Typed, KeysInv, [Next]_vars,
         ~\E h \in Handlers : Request(h) \/ Continue(h)
  PROVE  KeysInv'
<1>0. /\ TypeOK /\ FoundAreCancelled /\ lastId \in Nat /\ lastId <= lastId
      /\ \E t \in Tasks : TRUE
  BY ConstantsAssumption DEF Typed, TypeOK, KeysInv
<1>a. ASSUME UNCHANGED <<reminders, lastId, handler>>,
             \A m \in waiting' : m.key \in Reminder => m \in waiting,
             \A k \in Reminder : Taken(k)' => Taken(k) \/ InWaiting(k)
      PROVE  KeysInv'
  <2>1. \A t \in Tasks, k \in Reminder : Names(t, k)' => Names(t, k)
    BY <1>a DEF Names
  <2>2. FoundAreCancelled'
    BY <1>0, <1>a DEF FoundAreCancelled
  <2> QED BY <1>0, <1>a, <2>1, <2>2, KeysKept
<1>b. ASSUME UNCHANGED <<reminders, lastId, handler, waiting, ready, worker, pushed>>
      PROVE  KeysInv'
  BY <1>b, <1>a, TakenKept
<1>1. ASSUME NEW t \in Tasks, NEW at \in Time, NEW n \in 0..1, GenerateTask(t, at, n)
      PROVE  KeysInv'
  <2>1. UNCHANGED <<handler, waiting, ready, worker, pushed>> /\ NewReminders(t, n)
    BY <1>1 DEF GenerateTask, queueVars, ghostVars
  <2>2. /\ lastId' \in 0..MaxReminders /\ lastId <= lastId'
        /\ \A k \in reminders'[t] : lastId < k /\ k <= lastId'
        /\ \A s \in Tasks : s # t => reminders'[s] = reminders[s]
    BY <1>0, <2>1, NewRemindersType DEF NewReminders, TypeOK
  <2>3. \A s \in Tasks, k \in Reminder :
          Names(s, k)' => Names(s, k) \/ (s = t /\ lastId < k /\ k <= lastId')
    BY <2>1, <2>2 DEF Names
  <2>4. FoundAreCancelled'
    BY <1>0, <2>1 DEF FoundAreCancelled
  <2> QED BY <2>1, <2>2, <2>3, <2>4, TakenKept, KeysKept
<1>2. ASSUME NEW t \in Tasks, Complete(t) PROVE KeysInv'
  BY <1>2, <1>b DEF Complete, queueVars, ghostVars
<1>3. ASSUME NEW t \in Tasks, NEW at \in Time, ClientSchedule(t, at) PROVE KeysInv'
  <2>1. /\ UNCHANGED <<reminders, lastId, handler, ready, worker, pushed>>
        /\ waiting' = waiting \cup {[key |-> NoKey, task |-> t, at |-> at]}
    BY <1>3 DEF ClientSchedule, dbVars, ghostVars
  <2>2. NoKey \notin Reminder
    BY DEF NoKey, Reminder
  <2> QED BY <2>1, <2>2, <1>a, TakenKept
<1>4. CASE Tick
  BY <1>4, <1>b DEF Tick, dbVars, queueVars, ghostVars
<1>5. CASE MoveReady
  <2>1. UNCHANGED <<reminders, lastId, handler, worker, pushed>>
    BY <1>5 DEF MoveReady, dbVars
  <2>2. ASSUME NEW k \in Reminder, Taken(k)' PROVE Taken(k) \/ InWaiting(k)
    <3>1. /\ InWorker(k)' <=> InWorker(k)
          /\ Sent(k)' <=> Sent(k)
      BY <2>1 DEF InWorker, Sent
    <3>2. InReady(k)' => InReady(k) \/ InWaiting(k)
      BY <1>5, MoveReadyPlaces DEF InWaiting, DueMembers
    <3> QED BY <2>2, <3>1, <3>2 DEF Taken
  <2>3. waiting' \subseteq waiting
    BY <1>5 DEF MoveReady
  <2> QED BY <2>1, <2>2, <2>3, <1>a
<1>6. ASSUME NEW w \in Workers, WorkerStep(w) PROVE KeysInv'
  <2>1. UNCHANGED <<reminders, lastId, handler, waiting>>
    BY <1>6 DEF WorkerStep, Pop, CheckTask, Deliver, dbVars
  <2> QED BY <2>1, <1>6, <1>a, WorkerPlaces
<1>7. CASE Crash
  <2>1. /\ UNCHANGED <<reminders, lastId, waiting, ready, pushed>>
        /\ \A h \in Handlers : handler'[h] = Idle
        /\ \A w \in Workers : worker'[w] = Free
    BY <1>7 DEF Crash, dbVars
  <2>2. \A t \in Tasks, k \in Reminder : Names(t, k)' => Names(t, k)
    BY <2>1, IdleFields DEF Names
  <2>3. FoundAreCancelled'
    BY <2>1, IdleFields DEF FoundAreCancelled
  <2>4. \A k \in Reminder : Taken(k)' => Taken(k)
    BY <2>1 DEF Taken, InReady, InWorker, Sent, Free
  <2> QED BY <1>0, <2>1, <2>2, <2>3, <2>4, KeysKept
<1>8. CASE UNCHANGED vars
  BY <1>8, <1>b DEF vars
<1> QED BY <1>1, <1>2, <1>3, <1>4, <1>5, <1>6, <1>7, <1>8 DEF Next

LEMMA KeysInvStep == ASSUME Typed, KeysInv, [Next]_vars PROVE KeysInv'
  BY RequestKeys, ContinueKeys, OtherKeys

LEMMA KeysInvHolds == Spec => []KeysInv
<1>1. Init => KeysInv
  <2> SUFFICES ASSUME Init PROVE KeysInv
    OBVIOUS
  <2>1. /\ \A h \in Handlers : handler[h] = Idle
        /\ \A t \in Tasks : reminders[t] = {}
        /\ \A w \in Workers : worker[w] = Free
        /\ waiting = {} /\ Len(ready) = 0
        /\ \A k \in Reminder : pushed[k] = 0
    BY DEF Init
  <2>2. \A t \in Tasks, k \in Reminder : ~Names(t, k)
    BY <2>1, IdleFields DEF Names
  <2>3. \A k \in Reminder : ~Taken(k)
    BY <2>1 DEF Taken, InReady, InWorker, Sent, Free
  <2>4. FoundAreCancelled
    BY <2>1, IdleFields DEF FoundAreCancelled
  <2> QED BY <2>2, <2>3, <2>4 DEF KeysInv, OneOwner, NamesAreOld, TakenAreOld
<1> QED BY <1>1, TypedHolds, KeysInvStep, PTL DEF Spec

-----------------------------------------------------------------------------
(* Rows and the waiting room, at every await of an undisturbed request.    *)

Serves(h, t) == handler[h].pc # "idle" /\ handler[h].task = t

\* Of the reminders of t, only those of S wait.
WaitingIn(t, S) == \A m \in waiting : m.task = t /\ m.key # NoKey => m.key \in S

\* The rows of t that are not in S wait, or their time has come.
Placed(k) == k \in settled \/ InWaiting(k)
AllPlaced(t, S) ==
  ~task[t].generated => \A k \in reminders[t] : k \in S \/ Placed(k)

\* What an undisturbed request r knows of its task t at each of its awaits.
Phase(t, r) ==
  /\ IF r.kind = "delete" /\ r.pc # "tx" THEN task[t].state = "deleted"
                                         ELSE task[t].state = "live"
  /\ r.pc \in {"ids", "tx"} =>
       /\ r.add = {} /\ r.kind \in {"update", "delete"}
       /\ WaitingIn(t, reminders[t]) /\ AllPlaced(t, {})
  /\ r.pc = "ids" => r.cancel = {} /\ (r.kind = "update" => r.replace)
  /\ r.pc = "tx" =>
       /\ r.cancel = IF r.replace THEN reminders[t] ELSE {}
       /\ r.kind = "delete" => ~r.replace
  /\ r.pc = "read" => r.kind # "delete" /\ r.add = {} /\ WaitingIn(t, r.cancel)
  /\ r.pc \in {"scan", "remove"} =>
       /\ WaitingIn(t, r.cancel)
       /\ r.add = IF r.kind = "delete" THEN {} ELSE reminders[t]
  /\ r.pc = "remove" =>
       \A m \in waiting : m.task = t /\ m.key # NoKey => m \in r.found
  /\ r.pc \in {"clock", "add"} =>
       /\ r.kind # "delete" /\ r.add \subseteq reminders[t]
       /\ WaitingIn(t, reminders[t]) /\ AllPlaced(t, r.add)

\* What holds of a task nobody is at work on.
Calm(t) ==
  /\ WaitingIn(t, IF task[t].state = "live" THEN reminders[t] ELSE {})
  /\ task[t].state = "live" => AllPlaced(t, {})

TaskInv(t) ==
  /\ task[t].state = "absent" =>
       reminders[t] = {} /\ WaitingIn(t, {}) /\ \A h \in Handlers : ~Serves(h, t)
  /\ t \notin disturbed =>
       /\ \A g, h \in Handlers : Serves(g, t) /\ Serves(h, t) => g = h
       /\ \A h \in Handlers : Serves(h, t) => Phase(t, handler[h])
       /\ (\A h \in Handlers : ~Serves(h, t)) => Calm(t)

RowsInv == \A t \in Tasks : TaskInv(t)

\* A step that does nothing to t but take members of the waiting room that are settled,
\* or to note that t is disturbed.
LEMMA Elsewhere ==
  ASSUME NEW t \in Tasks, TaskInv(t),
         task'[t].state = task[t].state, task'[t].generated = task[t].generated,
         reminders'[t] = reminders[t], t \in disturbed => t \in disturbed',
         \A h \in Handlers : Serves(h, t)' <=> Serves(h, t),
         \A h \in Handlers : Serves(h, t) => handler'[h] = handler[h],
         \A m \in waiting' : m.task = t /\ m.key # NoKey => m \in waiting,
         \A k \in reminders[t] : Placed(k) => Placed(k)'
  PROVE  TaskInv(t)'
<1>1. \A S : WaitingIn(t, S) => WaitingIn(t, S)'
  BY DEF WaitingIn
<1>2. \A S : AllPlaced(t, S) => AllPlaced(t, S)'
  BY DEF AllPlaced
<1>3. ASSUME NEW h \in Handlers, Serves(h, t), Phase(t, handler[h])
      PROVE  Phase(t, handler[h])'
  <2>1. handler'[h] = handler[h]
    BY <1>3
  <2>2. PICK r : r = handler[h]
    OBVIOUS
  <2>3. Phase(t, r)
    BY <1>3, <2>2
  <2>4. Phase(t, r)'
    <3>1. /\ WaitingIn(t, reminders[t]) => WaitingIn(t, reminders[t])'
          /\ WaitingIn(t, r.cancel) => WaitingIn(t, r.cancel)'
          /\ AllPlaced(t, {}) => AllPlaced(t, {})'
          /\ AllPlaced(t, r.add) => AllPlaced(t, r.add)'
      <4>1. PICK S : S = reminders[t]
        OBVIOUS
      <4>2. WaitingIn(t, S) => WaitingIn(t, S)'
        BY <1>1
      <4>3. WaitingIn(t, reminders[t]) => WaitingIn(t, reminders[t])'
        BY <4>1, <4>2 DEF WaitingIn
      <4> QED BY <4>3, <1>1, <1>2
    <3> QED BY <2>3, <3>1 DEF Phase
  <2> QED BY <2>1, <2>2, <2>4 DEF Phase, WaitingIn, AllPlaced
<1>4. Calm(t) => Calm(t)'
  BY <1>2 DEF Calm, WaitingIn
<1>5. WaitingIn(t, {}) => WaitingIn(t, {})'
  BY <1>1
<1> QED BY <1>3, <1>4, <1>5 DEF TaskInv

\* A step of handler h on task v: what it has to say of v.
LEMMA HandlerRows ==
  ASSUME RowsInv, NEW h \in Handlers, NEW v \in Tasks, Others(h),
         handler[h].pc = "idle" \/ handler[h].task = v,
         handler'[h] = Idle \/ handler'[h].task = v,
         \A s \in Tasks : s # v =>
           /\ task'[s] = task[s] /\ reminders'[s] = reminders[s]
           /\ \A k \in reminders[s] : Placed(k) => Placed(k)',
         \A m \in waiting' : m.key = NoKey \/ m \in waiting \/ m.task = v,
         disturbed \subseteq disturbed',
         TaskInv(v)'
  PROVE  RowsInv'
<1> SUFFICES ASSUME NEW s \in Tasks, s # v PROVE TaskInv(s)'
  BY DEF RowsInv
<1>1. ~Serves(h, s) /\ ~Serves(h, s)'
  BY IdleFields DEF Serves
<1>2. ASSUME NEW g \in Handlers, g # h
      PROVE  (Serves(g, s)' <=> Serves(g, s)) /\ handler'[g] = handler[g]
  BY <1>2 DEF Serves, Others
<1>3. \A g \in Handlers : Serves(g, s)' <=> Serves(g, s)
  BY <1>1, <1>2
<1>4. \A g \in Handlers : Serves(g, s) => handler'[g] = handler[g]
  BY <1>1, <1>2
<1> QED BY <1>3, <1>4, Elsewhere DEF RowsInv

\* A request on v goes on, or ends.
LEMMA OwnTask ==
  ASSUME RowsInv, NEW h \in Handlers, NEW v \in Tasks, Others(h), Serves(h, v),
         disturbed' = disturbed, task'[v].state # "absent",
         \/ handler'[h] = Idle /\ (v \notin disturbed => Calm(v)')
         \/ /\ handler'[h].pc # "idle" /\ handler'[h].task = v
            /\ v \notin disturbed => Phase(v, handler[h])'
  PROVE  TaskInv(v)'
<1> SUFFICES ASSUME v \notin disturbed
             PROVE  /\ \A f, g \in Handlers : Serves(f, v)' /\ Serves(g, v)' => f = g
                    /\ \A g \in Handlers : Serves(g, v)' => Phase(v, handler[g])'
                    /\ (\A g \in Handlers : ~Serves(g, v)') => Calm(v)'
  BY DEF TaskInv
<1>1. \A g \in Handlers : g # h => ~Serves(g, v)
  BY DEF RowsInv, TaskInv
<1>2. \A g \in Handlers : g # h => ~Serves(g, v)'
  BY <1>1 DEF Serves, Others
<1>3. CASE handler'[h] = Idle /\ Calm(v)'
  BY <1>2, <1>3, IdleFields DEF Serves
<1>4. CASE handler'[h].pc # "idle" /\ handler'[h].task = v /\ Phase(v, handler[h])'
  <2>1. Serves(h, v)'
    BY <1>4 DEF Serves
  <2>2. \A f, g \in Handlers : Serves(f, v)' /\ Serves(g, v)' => f = g
    BY <1>2
  <2>3. ASSUME NEW g \in Handlers, Serves(g, v)' PROVE Phase(v, handler[g])'
    <3>1. g = h
      BY <1>2, <2>3
    <3> QED BY <3>1, <1>4
  <2> QED BY <2>1, <2>2, <2>3
<1> QED BY <1>3, <1>4

\* A request on v begins.
LEMMA NewTask ==
  ASSUME RowsInv, NEW h \in Handlers, NEW v \in Tasks, Others(h), handler[h].pc = "idle",
         handler'[h].pc # "idle", handler'[h].task = v, task'[v].state # "absent",
         disturbed' = IF Open(v) = {} THEN disturbed ELSE disturbed \cup {v},
         v \notin disturbed /\ Calm(v) => Phase(v, handler[h])'
  PROVE  TaskInv(v)' /\ disturbed \subseteq disturbed'
<1>1. disturbed \subseteq disturbed'
  OBVIOUS
<1> SUFFICES ASSUME v \notin disturbed'
             PROVE  /\ \A f, g \in Handlers : Serves(f, v)' /\ Serves(g, v)' => f = g
                    /\ \A g \in Handlers : Serves(g, v)' => Phase(v, handler[g])'
                    /\ (\A g \in Handlers : ~Serves(g, v)') => Calm(v)'
  BY <1>1 DEF TaskInv
<1>2. v \notin disturbed /\ \A g \in Handlers : ~Serves(g, v)
  BY DEF Open, Serves
<1>3. Phase(v, handler[h])'
  BY <1>2 DEF RowsInv, TaskInv
<1>4. Serves(h, v)' /\ \A g \in Handlers : g # h => ~Serves(g, v)'
  BY <1>2 DEF Serves, Others
<1>5. ASSUME NEW g \in Handlers, Serves(g, v)' PROVE Phase(v, handler[g])'
  <2>1. g = h
    BY <1>4, <1>5
  <2> QED BY <2>1, <1>3
<1> QED BY <1>4, <1>5

\* The step of one handler leaves the placed reminders of other tasks alone, if it
\* takes no member of theirs out.
LEMMA PlacedElsewhere ==
  ASSUME waiting \subseteq waiting', settled \subseteq settled', NEW k
  PROVE  Placed(k) => Placed(k)'
  BY DEF Placed, InWaiting

LEMMA RequestRows ==
  ASSUME Typed, KeysInv, RowsInv, NEW h \in Handlers, Request(h) PROVE RowsInv'
<1>0. TypeOK
  BY DEF Typed
<1>1. ASSUME NEW t \in Tasks, NEW at \in Time, NEW n \in 0..1, CreateTask(h, t, at, n)
      PROVE  RowsInv'
  <2> USE CreateTaskGoes, <1>0, <1>1
  <2>1. /\ task[t].state = "absent" /\ UNCHANGED <<waiting, settled>>
        /\ disturbed' = IF Open(t) = {} THEN disturbed ELSE disturbed \cup {t}
    BY DEF CreateTask, Begin, queueVars
  <2>2. /\ task'[t].state = "live"
        /\ \A s \in Tasks : s # t => task'[s] = task[s]
    <3>1. task \in [Tasks -> TaskRow] /\ task[t] \in TaskRow
      BY DEF TypeOK
    <3>2. task' = [task EXCEPT ![t] = [@ EXCEPT !.state = "live", !.at = at]]
      BY DEF CreateTask
    <3>3. [task[t] EXCEPT !.state = "live", !.at = at].state = "live"
      BY <3>1 DEF TaskRow
    <3> QED BY ONLY <3>1, <3>2, <3>3
  <2>3. \A s \in Tasks : s # t => reminders'[s] = reminders[s]
    BY DEF CreateTask, NewReminders, TypeOK
  <2>4. WaitingIn(t, {})
    BY <2>1 DEF RowsInv, TaskInv
  <2>5. Phase(t, handler[h])'
    BY <2>1, <2>2, <2>4 DEF Phase, WaitingIn
  <2>6. TaskInv(t)' /\ disturbed \subseteq disturbed'
    BY <2>1, <2>2, <2>5, NewTask
  <2> QED BY <2>1, <2>2, <2>3, <2>6, PlacedElsewhere, HandlerRows
<1>2. ASSUME NEW t \in Tasks, NEW at \in Time, NEW replace \in BOOLEAN,
             BeginUpdate(h, t, at, replace)
      PROVE  RowsInv'
  <2> USE BeginUpdateGoes, <1>0, <1>2
  <2>1. /\ task[t].state = "live" /\ UNCHANGED <<task, reminders, waiting, settled>>
        /\ disturbed' = IF Open(t) = {} THEN disturbed ELSE disturbed \cup {t}
    BY DEF BeginUpdate, Begin, dbVars, queueVars
  <2>2. ASSUME Calm(t) PROVE Phase(t, handler[h])'
    <3>1. WaitingIn(t, reminders[t])' /\ AllPlaced(t, {})'
      BY <2>1, <2>2 DEF Calm, WaitingIn, AllPlaced, Placed, InWaiting
    <3>2. IF replace THEN handler'[h].pc = "ids" /\ handler'[h].replace
                     ELSE handler'[h].pc = "tx" /\ ~handler'[h].replace
      OBVIOUS
    <3>3. CASE replace
      BY <2>1, <3>1, <3>2, <3>3 DEF Phase
    <3>4. CASE ~replace
      <4>1. /\ handler'[h].pc = "tx" /\ ~handler'[h].replace /\ handler'[h].kind = "update"
            /\ handler'[h].cancel = {} /\ handler'[h].add = {} /\ task'[t].state = "live"
        BY <2>1, <3>2, <3>4
      <4> QED BY ONLY <3>1, <4>1 DEF Phase
    <3> QED BY <3>3, <3>4
  <2>3. TaskInv(t)' /\ disturbed \subseteq disturbed'
    BY <2>1, <2>2, NewTask
  <2> QED BY <2>1, <2>3, PlacedElsewhere, HandlerRows
<1>3. ASSUME NEW t \in Tasks, BeginDelete(h, t) PROVE RowsInv'
  <2> USE BeginDeleteGoes, <1>0, <1>3
  <2>1. /\ task[t].state = "live" /\ UNCHANGED <<task, reminders, waiting, settled>>
        /\ disturbed' = IF Open(t) = {} THEN disturbed ELSE disturbed \cup {t}
    BY DEF BeginDelete, Begin, dbVars, queueVars
  <2>2. ASSUME Calm(t) PROVE Phase(t, handler[h])'
    <3>1. WaitingIn(t, reminders[t])' /\ AllPlaced(t, {})'
      BY <2>1, <2>2 DEF Calm, WaitingIn, AllPlaced, Placed, InWaiting
    <3> QED BY <2>1, <3>1 DEF Phase
  <2>3. TaskInv(t)' /\ disturbed \subseteq disturbed'
    BY <2>1, <2>2, NewTask
  <2> QED BY <2>1, <2>3, PlacedElsewhere, HandlerRows
<1> QED BY <1>1, <1>2, <1>3 DEF Request

\* After a cancellation nothing of the task waits: the request adds its reminders, or
\* there are none.
LEMMA CancelledRows ==
  ASSUME NEW h \in Handlers, NEW v \in Tasks, NEW add,
         GoesOn(h, add), handler[h].task = v,
         UNCHANGED <<task, reminders>>, WaitingIn(v, {})',
         IF handler[h].kind = "delete" THEN task[v].state = "deleted" /\ add = {}
                                       ELSE task[v].state = "live" /\ add = reminders[v]
  PROVE  \/ handler'[h] = Idle /\ Calm(v)'
         \/ /\ handler'[h].pc # "idle" /\ handler'[h].task = v
            /\ Phase(v, handler[h])'
<1>1. CASE add = {} /\ handler'[h] = Idle
  <2>1. Calm(v)'
    BY <1>1 DEF Calm, WaitingIn, AllPlaced
  <2> QED BY <1>1, <2>1
<1>2. CASE add # {} /\ Same(h) /\ handler'[h].pc = "clock" /\ handler'[h].add = add
  <2>1. WaitingIn(v, reminders[v])'
    BY DEF WaitingIn
  <2>2. handler[h].kind # "delete" /\ task[v].state = "live" /\ add = reminders[v]
    BY <1>2
  <2> QED BY <1>2, <2>1, <2>2 DEF Phase, AllPlaced, Same
<1> QED BY <1>1, <1>2 DEF GoesOn

LEMMA ContinueRows ==
  ASSUME Typed, KeysInv, RowsInv, NEW h \in Handlers, Continue(h) PROVE RowsInv'
<1>z. TypeOK /\ handler[h] \in Handler /\ handler[h].task \in Tasks
  BY HandlerType DEF Typed
<1> PICK r \in Handler, v \in Tasks : r = handler[h] /\ v = handler[h].task
  BY <1>z
<1>0. TypeOK /\ r = handler[h] /\ v = handler[h].task /\ r.task = v
  BY <1>z
<1>a. Serves(h, v) => /\ task[v].state # "absent"
                      /\ v \notin disturbed => Phase(v, r)
  BY <1>0 DEF RowsInv, TaskInv
\* The step leaves rows and the waiting room alone.
<1>b. ASSUME Serves(h, v), Others(h), UNCHANGED <<task, reminders, waiting, disturbed>>,
             settled \subseteq settled',
             \/ handler'[h] = Idle /\ (v \notin disturbed => Calm(v)')
             \/ /\ handler'[h].pc # "idle" /\ handler'[h].task = v
                /\ v \notin disturbed => Phase(v, handler[h])'
      PROVE  RowsInv'
  <2>1. TaskInv(v)'
    BY <1>0, <1>a, <1>b, OwnTask
  <2> QED BY <1>0, <1>b, <2>1, PlacedElsewhere, HandlerRows
<1>3. CASE ReadCanceled(h)
  <2> USE <1>3, <1>0, ReadCanceledGoes
  <2>1. /\ r.pc = "ids" /\ r.kind = "update" /\ Serves(h, v)
        /\ UNCHANGED <<task, reminders, waiting, disturbed, settled>>
    BY DEF ReadCanceled, dbVars, queueVars, ghostVars, Serves
  <2>2. ASSUME v \notin disturbed PROVE Phase(v, handler[h])'
    <3>1. Phase(v, r)
      BY <2>1, <2>2, <1>a
    <3>2. r.replace
      BY <2>1, <3>1 DEF Phase
    <3> QED BY <2>1, <3>1, <3>2 DEF Phase, WaitingIn, AllPlaced, Placed, InWaiting, Same
  <2> QED BY <2>1, <2>2, <1>b DEF Same
<1>4. ASSUME NEW n \in 0..1, UpdateTx(h, n) PROVE RowsInv'
  <2> USE <1>4, <1>0, UpdateTxGoes
  <2>1. /\ r.pc = "tx" /\ r.kind = "update" /\ Serves(h, v)
        /\ UNCHANGED <<waiting, disturbed, settled>>
    BY DEF UpdateTx, queueVars, ghostVars, Serves
  <2>2. /\ task'[v].state = task[v].state /\ task'[v].generated = task[v].generated
        /\ \A s \in Tasks : s # v => task'[s] = task[s]
    BY DEF UpdateTx, TypeOK, TaskRow
  <2>3. \A s \in Tasks : s # v => reminders'[s] = reminders[s]
    BY DEF UpdateTx, NewReminders, TypeOK
  <2>4. ASSUME v \notin disturbed
        PROVE  \/ handler'[h] = Idle /\ Calm(v)'
               \/ /\ handler'[h].pc # "idle" /\ handler'[h].task = v
                  /\ Phase(v, handler[h])'
    <3>1. Phase(v, r)
      BY <2>1, <2>4, <1>a
    <3>2. CASE r.replace
      BY <2>1, <2>2, <3>1, <3>2 DEF Phase, WaitingIn, Same
    <3>3. CASE ~r.replace
      <4>1. UNCHANGED reminders
        BY <3>3 DEF UpdateTx
      <4> QED BY <2>1, <2>2, <3>1, <3>3, <4>1
              DEF Phase, Calm, WaitingIn, AllPlaced, Placed, InWaiting
    <3> QED BY <3>2, <3>3
  <2>5. handler'[h] = Idle \/ (handler'[h].pc # "idle" /\ handler'[h].task = v)
    BY DEF Same
  <2>6. TaskInv(v)'
    BY <2>1, <2>2, <2>4, <2>5, <1>a, OwnTask
  <2> QED BY <2>1, <2>2, <2>3, <2>5, <2>6, PlacedElsewhere, HandlerRows
<1>5. CASE DeleteTx(h)
  <2> USE <1>5, <1>0, DeleteTxGoes
  <2>1. /\ r.pc = "tx" /\ r.kind = "delete" /\ Serves(h, v)
        /\ UNCHANGED <<reminders, waiting, disturbed, settled>>
    BY DEF DeleteTx, queueVars, ghostVars, Serves
  <2>2. /\ task'[v].state = "deleted" /\ task'[v].generated = task[v].generated
        /\ \A s \in Tasks : s # v => task'[s] = task[s]
    BY DEF DeleteTx, TypeOK, TaskRow
  <2>3. ASSUME v \notin disturbed PROVE Phase(v, handler[h])'
    <3>1. Phase(v, r)
      BY <2>1, <2>3, <1>a
    <3>2. r.cancel = {}
      BY <2>1, <3>1 DEF Phase
    <3> QED BY <2>1, <2>2, <3>1, <3>2 DEF Phase, WaitingIn, AllPlaced, Placed, InWaiting, Same
  <2>4. TaskInv(v)'
    BY <2>1, <2>2, <2>3, OwnTask DEF Same
  <2> QED BY <2>1, <2>2, <2>4, PlacedElsewhere, HandlerRows DEF Same
<1>6. CASE ReadReminders(h)
  <2> USE <1>6, <1>0, ReadRemindersGoes
  <2>1. /\ r.pc = "read" /\ Serves(h, v)
        /\ UNCHANGED <<task, reminders, waiting, disturbed, settled>>
    BY DEF ReadReminders, dbVars, queueVars, ghostVars, Serves
  <2>2. ASSUME v \notin disturbed
        PROVE  \/ handler'[h] = Idle /\ Calm(v)'
               \/ /\ handler'[h].pc # "idle" /\ handler'[h].task = v
                  /\ Phase(v, handler[h])'
    <3>1. Phase(v, r)
      BY <2>1, <2>2, <1>a
    <3>2. /\ r.kind # "delete" /\ task[v].state = "live" /\ WaitingIn(v, r.cancel)
      BY <2>1, <3>1 DEF Phase
    <3>3. CASE r.cancel # {}
      BY <2>1, <3>2, <3>3 DEF Phase, WaitingIn, AllPlaced, Same
    <3>4. CASE r.cancel = {}
      <4>1. WaitingIn(v, {})'
        BY <2>1, <3>2, <3>4 DEF WaitingIn
      <4> QED BY <2>1, <3>2, <3>4, <4>1, CancelledRows
    <3> QED BY <3>3, <3>4
  <2>3. handler'[h] = Idle \/ (handler'[h].pc # "idle" /\ handler'[h].task = v)
    BY DEF Same, GoesOn
  <2> QED BY <2>1, <2>2, <2>3, <1>b
<1>7. CASE ReadDeleted(h)
  <2> USE <1>7, <1>0, ReadDeletedGoes
  <2>1. /\ r.pc = "ids" /\ r.kind = "delete" /\ Serves(h, v)
        /\ UNCHANGED <<task, reminders, waiting, disturbed, settled>>
    BY DEF ReadDeleted, dbVars, queueVars, ghostVars, Serves
  <2>2. ASSUME v \notin disturbed
        PROVE  \/ handler'[h] = Idle /\ Calm(v)'
               \/ /\ handler'[h].pc # "idle" /\ handler'[h].task = v
                  /\ Phase(v, handler[h])'
    <3>1. Phase(v, r)
      BY <2>1, <2>2, <1>a
    <3>2. task[v].state = "deleted" /\ WaitingIn(v, reminders[v]) /\ r.add = {}
      BY <2>1, <3>1 DEF Phase
    <3>3. CASE handler'[h] = Idle
      <4>1. reminders[v] = {}
        BY <3>3, IdleFields
      <4> QED BY <2>1, <3>2, <3>3, <4>1 DEF Calm, WaitingIn
    <3>4. CASE handler'[h] # Idle
      <4>1. /\ Same(h) /\ handler'[h].pc = "scan"
            /\ handler'[h].cancel = reminders[v] /\ handler'[h].add = {}
        BY <3>2, <3>4
      <4> QED BY <2>1, <3>2, <4>1 DEF Phase, WaitingIn, Same
    <3> QED BY <3>3, <3>4
  <2>3. handler'[h] = Idle \/ (handler'[h].pc # "idle" /\ handler'[h].task = v)
    BY DEF Same
  <2> QED BY <2>1, <2>2, <2>3, <1>b
<1>8. CASE ScanWaiting(h)
  <2> USE <1>8, <1>0, ScanWaitingGoes
  <2>1. /\ r.pc = "scan" /\ Serves(h, v)
        /\ UNCHANGED <<task, reminders, waiting, disturbed, settled>>
    BY DEF ScanWaiting, dbVars, queueVars, ghostVars, Serves
  <2>2. ASSUME v \notin disturbed
        PROVE  \/ handler'[h] = Idle /\ Calm(v)'
               \/ /\ handler'[h].pc # "idle" /\ handler'[h].task = v
                  /\ Phase(v, handler[h])'
    <3>1. Phase(v, r)
      BY <2>1, <2>2, <1>a
    <3>2. /\ WaitingIn(v, r.cancel)
          /\ IF r.kind = "delete" THEN task[v].state = "deleted" /\ r.add = {}
                                  ELSE task[v].state = "live" /\ r.add = reminders[v]
      BY <2>1, <3>1 DEF Phase
    <3>3. CASE /\ \A m \in waiting : m.key \notin r.cancel
               /\ GoesOn(h, r.add)
      <4>1. WaitingIn(v, {})'
        BY <2>1, <3>2, <3>3 DEF WaitingIn
      <4> QED BY <2>1, <3>2, <3>3, <4>1, CancelledRows
    <3>4. CASE /\ Same(h) /\ handler'[h].pc = "remove"
               /\ handler'[h].found = {m \in waiting : m.key \in r.cancel}
               /\ handler'[h].cancel = r.cancel /\ handler'[h].add = r.add
      <4>1. WaitingIn(v, handler[h].cancel)'
        BY <2>1, <3>2, <3>4 DEF WaitingIn
      <4>2. \A m \in waiting' : m.task = v /\ m.key # NoKey => m \in handler'[h].found
        BY <2>1, <3>2, <3>4 DEF WaitingIn
      <4>3. CASE r.kind = "delete"
        BY <2>1, <3>2, <3>4, <4>1, <4>2, <4>3 DEF Phase, Same
      <4>4. CASE r.kind # "delete"
        BY <2>1, <3>2, <3>4, <4>1, <4>2, <4>4 DEF Phase, Same
      <4> QED BY <4>3, <4>4
    <3> QED BY <3>3, <3>4
  <2>3. handler'[h] = Idle \/ (handler'[h].pc # "idle" /\ handler'[h].task = v)
    BY DEF Same, GoesOn
  <2> QED BY <2>1, <2>2, <2>3, <1>b
<1>9. CASE RemoveFound(h)
  <2> USE <1>9, <1>0, RemoveFoundGoes
  <2>1. /\ r.pc = "remove" /\ Serves(h, v) /\ waiting' = waiting \ r.found
        /\ UNCHANGED <<task, reminders, disturbed, settled>>
    BY DEF RemoveFound, dbVars, ghostVars, Serves
  <2>2. ASSUME v \notin disturbed
        PROVE  \/ handler'[h] = Idle /\ Calm(v)'
               \/ /\ handler'[h].pc # "idle" /\ handler'[h].task = v
                  /\ Phase(v, handler[h])'
    <3>1. Phase(v, r)
      BY <2>1, <2>2, <1>a
    <3>2. /\ IF r.kind = "delete" THEN task[v].state = "deleted" /\ r.add = {}
                                  ELSE task[v].state = "live" /\ r.add = reminders[v]
          /\ \A m \in waiting : m.task = v /\ m.key # NoKey => m \in r.found
      BY <2>1, <3>1 DEF Phase
    <3>3. WaitingIn(v, {})'
      BY <2>1, <3>2 DEF WaitingIn
    <3> QED BY <2>1, <3>2, <3>3, CancelledRows
  <2>3. handler'[h] = Idle \/ (handler'[h].pc # "idle" /\ handler'[h].task = v)
    BY DEF Same, GoesOn
  <2>4. TaskInv(v)'
    BY <2>1, <2>2, <2>3, <1>a, OwnTask
  <2>5. ASSUME NEW s \in Tasks, s # v, NEW k \in reminders[s], Placed(k) PROVE Placed(k)'
    <3>1. CASE k \in settled
      BY <3>1, <2>1 DEF Placed
    <3>2. ASSUME NEW m \in waiting, m.key = k PROVE Placed(k)'
      <4>1. k \in Reminder /\ Names(s, k)
        BY HandlerType DEF TypeOK, Names
      <4>2. k \notin r.cancel
        BY <4>1, <2>5 DEF Names, KeysInv, OneOwner
      <4>3. m \notin r.found
        BY <4>2, <3>2, <2>1 DEF KeysInv, FoundAreCancelled
      <4> QED BY <4>3, <3>2, <2>1 DEF Placed, InWaiting
    <3> QED BY <2>5, <3>1, <3>2 DEF Placed, InWaiting
  <2>6. \A s \in Tasks : s # v =>
           /\ task'[s] = task[s] /\ reminders'[s] = reminders[s]
           /\ \A k \in reminders[s] : Placed(k) => Placed(k)'
    BY <2>1, <2>5
  <2> QED BY <2>1, <2>3, <2>4, <2>6, HandlerRows
<1>10. CASE ReadClock(h)
  <2> USE <1>10, <1>0, ReadClockGoes
  <2>1. /\ r.pc = "clock" /\ Serves(h, v) /\ settled \subseteq settled'
        /\ UNCHANGED <<task, reminders, waiting, disturbed>>
    BY DEF ReadClock, dbVars, queueVars, Serves
  <2>2. ASSUME v \notin disturbed
        PROVE  \/ handler'[h] = Idle /\ Calm(v)'
               \/ /\ handler'[h].pc # "idle" /\ handler'[h].task = v
                  /\ Phase(v, handler[h])'
    <3>1. Phase(v, r)
      BY <2>1, <2>2, <1>a
    <3>2. /\ r.kind # "delete" /\ task[v].state = "live" /\ r.add \subseteq reminders[v]
          /\ WaitingIn(v, reminders[v]) /\ AllPlaced(v, r.add)
      BY <2>1, <3>1 DEF Phase
    <3>3. CASE handler'[h] = Idle /\ settled' = settled \cup r.add
      BY <2>1, <3>2, <3>3 DEF Calm, WaitingIn, AllPlaced, Placed, InWaiting
    <3>4. CASE /\ Same(h) /\ handler'[h].pc = "add" /\ settled' = settled
               /\ handler'[h].cancel = r.cancel /\ handler'[h].add = r.add
      BY <2>1, <3>2, <3>4 DEF Phase, WaitingIn, AllPlaced, Placed, InWaiting, Same
    <3> QED BY <3>3, <3>4
  <2>3. handler'[h] = Idle \/ (handler'[h].pc # "idle" /\ handler'[h].task = v)
    BY DEF Same
  <2> QED BY <2>1, <2>2, <2>3, <1>b
<1>11. ASSUME NEW k \in Reminder, AddReminder(h, k) PROVE RowsInv'
  <2> USE <1>11, <1>0, AddReminderGoes
  <2>1. /\ r.pc = "add" /\ k \in r.add /\ Serves(h, v)
        /\ waiting' = waiting \cup {[key |-> k, task |-> v, at |-> r.at]}
        /\ UNCHANGED <<task, reminders, disturbed, settled>>
    BY DEF AddReminder, dbVars, ghostVars, Serves
  <2>2. ASSUME v \notin disturbed
        PROVE  \/ handler'[h] = Idle /\ Calm(v)'
               \/ /\ handler'[h].pc # "idle" /\ handler'[h].task = v
                  /\ Phase(v, handler[h])'
    <3>1. Phase(v, r)
      BY <2>1, <2>2, <1>a
    <3>2. /\ r.kind # "delete" /\ task[v].state = "live" /\ r.add \subseteq reminders[v]
          /\ WaitingIn(v, reminders[v]) /\ AllPlaced(v, r.add)
      BY <2>1, <3>1 DEF Phase
    <3>3. WaitingIn(v, reminders[v])'
      BY <2>1, <3>2 DEF WaitingIn
    <3>4. AllPlaced(v, r.add \ {k})'
      <4>1. InWaiting(k)' /\ \A j \in Reminder : Placed(j) => Placed(j)'
        <5>1. \E m \in waiting' : m.key = k
          <6> DEFINE m == [key |-> k, task |-> v, at |-> r.at]
          <6>1. m.key = k
            OBVIOUS
          <6>2. m \in waiting'
            BY <2>1
          <6> HIDE DEF m
          <6> QED BY ONLY <6>1, <6>2
        <5>2. waiting \subseteq waiting' /\ settled' = settled
          BY <2>1
        <5> QED BY ONLY <5>1, <5>2 DEF Placed, InWaiting
      <4>2. reminders[v] \in SUBSET Reminder
        BY DEF TypeOK
      <4> QED BY <2>1, <3>2, <4>1, <4>2 DEF AllPlaced, Placed
    <3>5. CASE handler'[h] = Idle /\ r.add = {k}
      BY <2>1, <3>2, <3>3, <3>4, <3>5 DEF Calm, AllPlaced, WaitingIn
    <3>6. CASE /\ Same(h) /\ handler'[h].pc = "add"
               /\ handler'[h].cancel = r.cancel /\ handler'[h].add = r.add \ {k}
      BY <2>1, <3>2, <3>3, <3>4, <3>6 DEF Phase, Same, AllPlaced
    <3> QED BY <3>5, <3>6
  <2>3. handler'[h] = Idle \/ (handler'[h].pc # "idle" /\ handler'[h].task = v)
    BY DEF Same
  <2>4. TaskInv(v)'
    BY <2>1, <2>2, <2>3, <1>a, OwnTask
  <2> QED BY <2>1, <2>3, <2>4, PlacedElsewhere, HandlerRows
<1> QED BY <1>3, <1>4, <1>5, <1>6, <1>7, <1>8, <1>9, <1>10, <1>11 DEF Continue

LEMMA OtherRows ==
  ASSUME Typed, KeysInv, RowsInv, [Next]_vars,
         ~\E h \in Handlers : Request(h) \/ Continue(h)
  PROVE  RowsInv'
<1>0. TypeOK
  BY DEF Typed
<1>a. ASSUME \A t \in Tasks :
               /\ task'[t].state = task[t].state /\ task'[t].generated = task[t].generated
               /\ \A m \in waiting' : m.task = t /\ m.key # NoKey => m \in waiting
               /\ \A k \in reminders[t] : Placed(k) => Placed(k)',
             UNCHANGED <<reminders, handler, disturbed>>
      PROVE  RowsInv'
  BY <1>a, Elsewhere DEF RowsInv, Serves
<1>b. ASSUME UNCHANGED <<task, reminders, handler, waiting, disturbed, settled>>
      PROVE  RowsInv'
  BY <1>a, <1>b DEF Placed, InWaiting
<1>1. ASSUME NEW v \in Tasks, NEW at \in Time, NEW n \in 0..1, GenerateTask(v, at, n)
      PROVE  RowsInv'
  <2>1. /\ task[v].state = "absent"
        /\ UNCHANGED <<handler, waiting, disturbed, settled>>
    BY <1>1 DEF GenerateTask, queueVars, ghostVars
  <2>2. /\ task'[v].state = "live" /\ task'[v].generated
        /\ \A t \in Tasks : t # v => task'[t] = task[t]
    <3>1. task \in [Tasks -> TaskRow] /\ task[v] \in TaskRow
      BY <1>0 DEF TypeOK
    <3>2. task' = [task EXCEPT ![v] = [@ EXCEPT !.state = "live", !.at = at,
                                                !.generated = TRUE]]
      BY <1>1 DEF GenerateTask
    <3>3. /\ [task[v] EXCEPT !.state = "live", !.at = at, !.generated = TRUE].state = "live"
          /\ [task[v] EXCEPT !.state = "live", !.at = at, !.generated = TRUE].generated = TRUE
      BY <3>1 DEF TaskRow
    <3> QED BY <3>1, <3>2, <3>3
  <2>3. \A t \in Tasks : t # v => reminders'[t] = reminders[t]
    BY <1>0, <1>1 DEF GenerateTask, NewReminders, TypeOK
  <2>4. WaitingIn(v, {}) /\ \A h \in Handlers : ~Serves(h, v)
    BY <2>1 DEF RowsInv, TaskInv
  <2>5. TaskInv(v)'
    BY <2>1, <2>2, <2>4 DEF TaskInv, Calm, WaitingIn, AllPlaced, Serves
  <2>6. ASSUME NEW t \in Tasks, t # v PROVE TaskInv(t)'
    BY <2>1, <2>2, <2>3, <2>6, Elsewhere DEF RowsInv, Serves, Placed, InWaiting
  <2> QED BY <2>5, <2>6 DEF RowsInv
<1>2. ASSUME NEW v \in Tasks, Complete(v) PROVE RowsInv'
  <2>1. \A t \in Tasks : task'[t].state = task[t].state /\ task'[t].generated = task[t].generated
    BY <1>2, <1>0 DEF Complete, TypeOK, TaskRow
  <2>2. UNCHANGED <<reminders, handler, waiting, disturbed, settled>>
    BY <1>2 DEF Complete, queueVars, ghostVars
  <2> QED BY <2>1, <2>2, <1>a DEF Placed, InWaiting
<1>3. ASSUME NEW v \in Tasks, NEW at \in Time, ClientSchedule(v, at) PROVE RowsInv'
  <2>1. /\ UNCHANGED <<task, reminders, handler, disturbed, settled>>
        /\ waiting' = waiting \cup {[key |-> NoKey, task |-> v, at |-> at]}
    BY <1>3 DEF ClientSchedule, dbVars, ghostVars
  <2>2. \A m \in waiting' : m.key # NoKey => m \in waiting
    BY <2>1
  <2>3. waiting \subseteq waiting'
    BY <2>1
  <2> QED BY <2>1, <2>2, <2>3, <1>a, PlacedElsewhere
<1>4. CASE Tick
  BY <1>4, <1>b DEF Tick, dbVars, queueVars, ghostVars
<1>5. CASE MoveReady
  <2>1. /\ UNCHANGED <<task, reminders, handler, disturbed>>
        /\ waiting' = waiting \ DueMembers
        /\ settled' = settled \cup ({m.key : m \in DueMembers} \ {NoKey})
    BY <1>5 DEF MoveReady, dbVars
  <2>2. ASSUME NEW t \in Tasks, NEW k \in reminders[t], Placed(k) PROVE Placed(k)'
    <3>1. k # NoKey
      BY <1>0 DEF TypeOK, Reminder, NoKey
    <3>2. CASE k \in settled
      BY <2>1, <3>2 DEF Placed
    <3>3. ASSUME NEW m \in waiting, m.key = k PROVE Placed(k)'
      <4>1. CASE m \in DueMembers
        BY <2>1, <3>1, <3>3, <4>1 DEF Placed
      <4>2. CASE m \notin DueMembers
        BY <2>1, <3>3, <4>2 DEF Placed, InWaiting
      <4> QED BY <4>1, <4>2
    <3> QED BY <2>2, <3>2, <3>3 DEF Placed, InWaiting
  <2> QED BY <2>1, <2>2, <1>a
<1>6. ASSUME NEW w \in Workers, WorkerStep(w) PROVE RowsInv'
  BY <1>6, <1>b DEF WorkerStep, Pop, CheckTask, Deliver, dbVars, ghostVars
<1>7. CASE Crash
  <2>1. /\ UNCHANGED <<task, reminders, waiting, settled>>
        /\ \A h \in Handlers : handler'[h] = Idle
        /\ disturbed' = disturbed \cup {t \in Tasks : Open(t) # {}}
    BY <1>7 DEF Crash, dbVars
  <2>2. \A t \in Tasks, h \in Handlers : ~Serves(h, t)'
    BY <2>1, IdleFields DEF Serves
  <2>3. ASSUME NEW t \in Tasks, t \notin disturbed'
        PROVE  t \notin disturbed /\ \A h \in Handlers : ~Serves(h, t)
    BY <2>1, <2>3 DEF Open, Serves
  <2>4. ASSUME NEW t \in Tasks PROVE TaskInv(t)'
    <3>1. task'[t].state = "absent" => reminders'[t] = {} /\ WaitingIn(t, {})'
      BY <2>1 DEF RowsInv, TaskInv, WaitingIn
    <3>2. t \notin disturbed' => Calm(t)'
      <4>1. t \notin disturbed' => Calm(t)
        BY <2>3 DEF RowsInv, TaskInv
      <4> QED BY <2>1, <4>1 DEF Calm, WaitingIn, AllPlaced, Placed, InWaiting
    <3> QED BY <2>2, <3>1, <3>2 DEF TaskInv
  <2> QED BY <2>4 DEF RowsInv
<1>8. CASE UNCHANGED vars
  BY <1>8, <1>b DEF vars
<1> QED BY <1>1, <1>2, <1>3, <1>4, <1>5, <1>6, <1>7, <1>8 DEF Next

LEMMA RowsInvStep == ASSUME Typed, KeysInv, RowsInv, [Next]_vars PROVE RowsInv'
  BY RequestRows, ContinueRows, OtherRows

LEMMA RowsInvHolds == Spec => []RowsInv
<1>1. Init => RowsInv
  <2> SUFFICES ASSUME Init PROVE RowsInv
    OBVIOUS
  <2>1. /\ \A h \in Handlers, t \in Tasks : ~Serves(h, t)
        /\ \A t \in Tasks : reminders[t] = {} /\ task[t].state = "absent"
        /\ waiting = {}
    BY IdleFields DEF Init, Serves
  <2> QED BY <2>1 DEF RowsInv, TaskInv, Calm, WaitingIn
<1> QED BY <1>1, TypedHolds, KeysInvHolds, RowsInvStep, PTL DEF Spec

\* A quiet task is calm.
LEMMA QuietIsCalm == ASSUME RowsInv, NEW t \in Tasks, Quiet(t) PROVE Calm(t)
  BY DEF RowsInv, TaskInv, Quiet, Open, Serves

\* Once the listener is done, only reminders a live task still has wait for it, for any
\* number of tasks and requests at once (handleTaskUpdated, handleTaskDeleted).
THEOREM WaitingMatchesRowsHolds == Spec => []WaitingMatchesRows
<1>1. RowsInv => WaitingMatchesRows
  <2> SUFFICES ASSUME RowsInv, NEW t \in Tasks, Quiet(t), NEW m \in waiting,
                      m.task = t, m.key # NoKey
               PROVE  task[t].state = "live" /\ m.key \in reminders[t]
    BY DEF WaitingMatchesRows
  <2>1. Calm(t)
    BY QuietIsCalm
  <2> QED BY <2>1 DEF Calm, WaitingIn
<1> QED BY <1>1, RowsInvHolds, PTL

\* Once the listener is done, every reminder of a live task is waiting or its time has
\* come: replacing reminders takes no new one out, of this task or of another
\* (scheduleReminders, removeRemindersFromWaitingRoom).
THEOREM RemindersAreWaitingHolds == Spec => []RemindersAreWaiting
<1>1. RowsInv => RemindersAreWaiting
  <2> SUFFICES ASSUME RowsInv, NEW t \in Tasks, Quiet(t), task[t].state = "live",
                      ~task[t].generated, NEW k \in reminders[t]
               PROVE  k \in settled \/ \E m \in waiting : m.key = k
    BY DEF RemindersAreWaiting
  <2>1. Calm(t)
    BY QuietIsCalm
  <2> QED BY <2>1 DEF Calm, AllPlaced, Placed, InWaiting
<1> QED BY <1>1, RowsInvHolds, PTL

-----------------------------------------------------------------------------
(* A reminder is in one place at a time.                                   *)

\* Whatever is past a place is not before it, and no place has it twice.
Single(k) ==
  /\ InAdd(k) => ~InWaiting(k) /\ ~Taken(k)
  /\ InWaiting(k) => ~Taken(k)
  /\ InReady(k) => ~InWorker(k) /\ ~Sent(k)
  /\ InWorker(k) => ~Sent(k)
  /\ pushed[k] <= 1
  /\ \A m, n \in waiting : m.key = k /\ n.key = k => m = n
  /\ \A i, j \in 1..Len(ready) : ready[i].key = k /\ ready[j].key = k => i = j
  /\ \A v, w \in Workers :
       /\ worker[v].stage # "free" /\ worker[v].m.key = k
       /\ worker[w].stage # "free" /\ worker[w].m.key = k
       => v = w

Reads(h, t) == Serves(h, t) /\ handler[h].pc = "read"

\* While a request is about to read the reminders it has stored, they are nowhere.
Pushes(t) ==
  t \notin disturbed =>
    \A k \in reminders[t] :
      /\ Single(k)
      /\ (\E h \in Handlers : Reads(h, t)) => ~Used(k)

PushInv == \A t \in Tasks : Pushes(t)

\* What is nowhere is in one place at most; a new row's key is nowhere.
LEMMA UnusedIsSingle == ASSUME NEW k, ~Used(k) PROVE Single(k)
<1>1. ~InAdd(k) /\ ~InWaiting(k) /\ ~InReady(k) /\ ~InWorker(k) /\ pushed[k] = 0
  BY DEF Used, Taken, Sent
<1> QED BY <1>1 DEF Single, InWaiting, InReady, InWorker, Sent

LEMMA NewIsUnused ==
  ASSUME Typed, KeysInv, NEW k \in Reminder, lastId < k PROVE ~Used(k)
<1>1. lastId \in Nat /\ k \in Nat
  BY DEF Typed, TypeOK, Reminder
<1>2. \A t \in Tasks : ~Names(t, k)
  BY <1>1 DEF KeysInv, NamesAreOld
<1>3. ~InAdd(k)
  BY <1>2, HandlerType DEF Typed, InAdd, Names
<1>4. ~InWaiting(k)
  BY <1>2 DEF InWaiting, Names, Typed, TypeOK, Member
<1>5. ~Taken(k)
  BY <1>1 DEF KeysInv, TakenAreOld
<1> QED BY <1>3, <1>4, <1>5 DEF Used

\* A step that puts k nowhere it is not.
LEMMA SingleShrinks ==
  ASSUME NEW k, InAdd(k)' => InAdd(k), \A m \in waiting' : m.key = k => m \in waiting,
         UNCHANGED <<ready, pushed>>,
         \A w \in Workers : worker'[w] = worker[w] \/ worker'[w].stage = "free"
  PROVE  (Single(k) => Single(k)') /\ (Used(k)' => Used(k))
<1>1. InWaiting(k)' => InWaiting(k)
  BY DEF InWaiting
<1>2. (InReady(k)' <=> InReady(k)) /\ (Sent(k)' <=> Sent(k))
  BY DEF InReady, Sent
<1>3. InWorker(k)' => InWorker(k)
  BY DEF InWorker
<1>4. Used(k)' => Used(k)
  BY <1>1, <1>2, <1>3 DEF Used, Taken
<1>5. ASSUME Single(k) PROVE Single(k)'
  <2>1. /\ \A m, n \in waiting' : m.key = k /\ n.key = k => m = n
        /\ \A i, j \in 1..Len(ready') : ready'[i].key = k /\ ready'[j].key = k => i = j
        /\ pushed'[k] <= 1
    BY <1>5 DEF Single
  <2>2. \A v, w \in Workers :
          /\ worker'[v].stage # "free" /\ worker'[v].m.key = k
          /\ worker'[w].stage # "free" /\ worker'[w].m.key = k
          => v = w
    BY <1>5 DEF Single
  <2> QED BY <1>1, <1>2, <1>3, <1>5, <2>1, <2>2 DEF Single, Taken
<1> QED BY <1>4, <1>5

\* A task whose rows stay, and whose reminders are put nowhere anew.
LEMMA PushKept ==
  ASSUME PushInv, NEW t \in Tasks, reminders'[t] = reminders[t],
         t \in disturbed => t \in disturbed',
         \A k \in reminders[t] : (Single(k) => Single(k)') /\ (Used(k)' => Used(k)),
         \A h \in Handlers : Reads(h, t)' => \E g \in Handlers : Reads(g, t)
  PROVE  Pushes(t)'
  BY DEF PushInv, Pushes

\* Rows that have just been created.
LEMMA NewRowsPush ==
  ASSUME Typed, KeysInv, NEW t \in Tasks, NEW n \in 0..1, NewReminders(t, n),
         \A h \in Handlers : handler'[h].add \subseteq handler[h].add,
         UNCHANGED <<waiting, ready, worker, pushed>>
  PROVE  /\ Pushes(t)'
         /\ \A s \in Tasks : s # t => reminders'[s] = reminders[s]
         /\ \A k \in Reminder : (Single(k) => Single(k)') /\ (Used(k)' => Used(k))
<1>1. \A k \in Reminder : InAdd(k)' => InAdd(k)
  BY DEF InAdd
<1>2. \A k \in Reminder : (Single(k) => Single(k)') /\ (Used(k)' => Used(k))
  BY <1>1, SingleShrinks
<1>3. \A s \in Tasks : s # t => reminders'[s] = reminders[s]
  BY DEF NewReminders, Typed, TypeOK
<1>4. ASSUME NEW k \in reminders'[t] PROVE Single(k)' /\ ~Used(k)'
  <2>1. k \in Reminder /\ lastId < k
    BY NewRemindersType
  <2>2. ~Used(k) /\ Single(k)
    BY <2>1, NewIsUnused, UnusedIsSingle
  <2> QED BY <2>1, <2>2, <1>2
<1> QED BY <1>2, <1>3, <1>4 DEF Pushes

\* A step of a handler that puts no reminder anywhere.
LEMMA HandlerPushes ==
  ASSUME Typed, PushInv, NEW h \in Handlers, Others(h),
         handler'[h].add \subseteq handler[h].add, handler'[h].pc # "read",
         \A m \in waiting' : m \in waiting,
         UNCHANGED <<reminders, ready, worker, pushed>>, disturbed \subseteq disturbed'
  PROVE  PushInv'
<1>1. \A k : InAdd(k)' => InAdd(k)
  BY DEF InAdd, Others
<1>2. \A k : (Single(k) => Single(k)') /\ (Used(k)' => Used(k))
  BY <1>1, SingleShrinks
<1>3. \A t \in Tasks, g \in Handlers : Reads(g, t)' => Reads(g, t)
  BY DEF Reads, Serves, Others
<1> QED BY <1>2, <1>3, PushKept DEF PushInv

LEMMA RequestPushes ==
  ASSUME Typed, KeysInv, PushInv, NEW h \in Handlers, Request(h) PROVE PushInv'
<1>0. TypeOK /\ FoundAreCancelled
  BY DEF Typed, KeysInv
<1>1. ASSUME NEW t \in Tasks, NEW at \in Time, NEW n \in 0..1, CreateTask(h, t, at, n)
      PROVE  PushInv'
  <2>1. /\ Others(h) /\ handler'[h].add = {} /\ handler'[h].task = t
        /\ \A g \in Handlers : handler'[g].add \subseteq handler[g].add
    BY <1>0, <1>1, CreateTaskGoes DEF Others
  <2>2. /\ NewReminders(t, n) /\ UNCHANGED <<waiting, ready, worker, pushed>>
        /\ disturbed \subseteq disturbed'
    BY <1>1 DEF CreateTask, Begin, queueVars
  <2>3. /\ Pushes(t)'
        /\ \A s \in Tasks : s # t => reminders'[s] = reminders[s]
        /\ \A k \in Reminder : (Single(k) => Single(k)') /\ (Used(k)' => Used(k))
    BY <2>1, <2>2, NewRowsPush
  <2>4. ASSUME NEW s \in Tasks, s # t PROVE Pushes(s)'
    <3>1. reminders[s] \subseteq Reminder
      BY <1>0 DEF TypeOK
    <3>2. \A g \in Handlers : Reads(g, s)' => Reads(g, s)
      BY <2>1, <2>4 DEF Reads, Serves, Others
    <3> QED BY <2>2, <2>3, <2>4, <3>1, <3>2, PushKept
  <2> QED BY <2>3, <2>4 DEF PushInv
<1>2. ASSUME NEW t \in Tasks, NEW at \in Time, NEW replace \in BOOLEAN,
             BeginUpdate(h, t, at, replace)
      PROVE  PushInv'
  <2>1. /\ Others(h) /\ handler'[h].add = {} /\ handler'[h].pc # "read"
    BY <1>0, <1>2, BeginUpdateGoes
  <2>2. /\ UNCHANGED <<reminders, waiting, ready, worker, pushed>>
        /\ disturbed \subseteq disturbed'
    BY <1>2 DEF BeginUpdate, Begin, dbVars, queueVars
  <2> QED BY <2>1, <2>2, HandlerPushes
<1>3. ASSUME NEW t \in Tasks, BeginDelete(h, t) PROVE PushInv'
  <2>1. /\ Others(h) /\ handler'[h].add = {} /\ handler'[h].pc # "read"
    BY <1>0, <1>3, BeginDeleteGoes
  <2>2. /\ UNCHANGED <<reminders, waiting, ready, worker, pushed>>
        /\ disturbed \subseteq disturbed'
    BY <1>3 DEF BeginDelete, Begin, dbVars, queueVars
  <2> QED BY <2>1, <2>2, HandlerPushes
<1> QED BY <1>1, <1>2, <1>3 DEF Request

\* The listener learns the reminders it is to add: they are nowhere yet.
LEMMA ReadRemindersPushes ==
  ASSUME Typed, KeysInv, RowsInv, PushInv, NEW h \in Handlers, ReadReminders(h)
  PROVE  PushInv'
<1>z. TypeOK /\ handler[h].task \in Tasks
  BY HandlerType DEF Typed
<1> PICK v \in Tasks : v = handler[h].task
  BY <1>z
<1>1. /\ Serves(h, v) /\ Reads(h, v)
      /\ UNCHANGED <<reminders, waiting, ready, worker, pushed, disturbed>>
  BY DEF ReadReminders, dbVars, queueVars, ghostVars, Serves, Reads
<1>2. /\ Others(h) /\ handler'[h].add \subseteq reminders[v] /\ handler'[h].pc # "read"
  BY <1>z, ReadRemindersGoes, IdleFields DEF GoesOn
<1>3. \A t \in Tasks, g \in Handlers : Reads(g, t)' => Reads(g, t) /\ g # h
  BY <1>2 DEF Reads, Serves, Others
<1>4. ASSUME NEW t \in Tasks, t # v PROVE Pushes(t)'
  <2>1. \A k \in reminders[t] : k \notin reminders[v] /\ k \in Reminder
    BY <1>4, <1>z DEF KeysInv, OneOwner, Names, TypeOK
  <2>2. \A k \in reminders[t] : InAdd(k)' => InAdd(k)
    BY <1>2, <2>1 DEF InAdd, Others
  <2>3. \A k \in reminders[t] : (Single(k) => Single(k)') /\ (Used(k)' => Used(k))
    BY <1>1, <2>2, SingleShrinks
  <2> QED BY <1>1, <1>3, <2>3, PushKept
<1>5. ASSUME v \notin disturbed, NEW k \in reminders[v]
      PROVE  Single(k)' /\ \A g \in Handlers : ~Reads(g, v)'
  <2>1. ~Used(k)
    BY <1>1, <1>5 DEF PushInv, Pushes
  <2>2. ~InWaiting(k)' /\ ~InReady(k)' /\ ~InWorker(k)' /\ ~Sent(k)' /\ pushed'[k] = 0
    BY <1>1, <2>1 DEF Used, Taken, InWaiting, InReady, InWorker, Sent
  <2>3. Single(k)'
    BY <2>2 DEF Single, Taken, InWaiting, InReady, InWorker
  <2>4. \A g \in Handlers : ~Reads(g, v)'
    BY <1>1, <1>3, <1>5 DEF RowsInv, TaskInv, Reads
  <2> QED BY <2>3, <2>4
<1>6. Pushes(v)'
  BY <1>1, <1>5 DEF Pushes
<1> QED BY <1>4, <1>6 DEF PushInv

\* ZADD: a reminder leaves the listener for the waiting room.
LEMMA AddReminderPushes ==
  ASSUME Typed, KeysInv, RowsInv, PushInv, NEW h \in Handlers, NEW c \in Reminder,
         AddReminder(h, c)
  PROVE  PushInv'
<1>z. TypeOK /\ handler[h].task \in Tasks
  BY HandlerType DEF Typed
<1> PICK v \in Tasks : v = handler[h].task
  BY <1>z
<1>1. /\ Serves(h, v) /\ c \in handler[h].add
      /\ UNCHANGED <<reminders, ready, worker, pushed, disturbed>>
  BY DEF AddReminder, dbVars, ghostVars, Serves
<1>2. PICK x : x.key = c /\ waiting' = waiting \cup {x}
  <2> DEFINE x == [key |-> c, task |-> handler[h].task, at |-> handler[h].at]
  <2>1. x.key = c
    OBVIOUS
  <2>2. waiting' = waiting \cup {x}
    BY DEF AddReminder
  <2> HIDE DEF x
  <2> QED BY <2>1, <2>2
<1>3. /\ Others(h) /\ handler'[h].pc # "read" /\ handler'[h].add = handler[h].add \ {c}
  BY <1>z, AddReminderGoes, IdleFields
<1>4. Names(v, c)
  BY <1>1 DEF Names
<1>5. \A t \in Tasks, g \in Handlers : Reads(g, t)' => Reads(g, t) /\ g # h
  BY <1>3 DEF Reads, Serves, Others
<1>6. ASSUME NEW k \in Reminder, k # c
      PROVE  (Single(k) => Single(k)') /\ (Used(k)' => Used(k))
  <2>1. InAdd(k)' => InAdd(k)
    BY <1>3 DEF InAdd, Others
  <2> QED BY <1>1, <1>2, <1>6, <2>1, SingleShrinks
<1>7. ASSUME NEW t \in Tasks, t # v PROVE Pushes(t)'
  <2>1. \A k \in reminders[t] : k # c /\ k \in Reminder
    BY <1>4, <1>7, <1>z DEF KeysInv, OneOwner, Names, TypeOK
  <2> QED BY <1>1, <1>5, <1>6, <2>1, PushKept
<1>8. ASSUME v \notin disturbed
      PROVE  /\ \A g \in Handlers : ~Reads(g, v)'
             /\ \A k \in reminders[v] : Single(k)'
  <2>1. \A g \in Handlers : Serves(g, v) => g = h
    BY <1>1, <1>8 DEF RowsInv, TaskInv
  <2>2. \A g \in Handlers : ~Reads(g, v)'
    BY <1>5, <2>1 DEF Reads
  <2>3. ASSUME c \in reminders[v] PROVE Single(c)'
    <3>1. Single(c) /\ InAdd(c)
      BY <1>1, <1>8, <2>3 DEF PushInv, Pushes, InAdd
    <3>2. ASSUME NEW g \in Handlers, c \in handler'[g].add PROVE FALSE
      <4>1. g # h /\ c \in handler[g].add
        BY <1>3, <3>2 DEF Others
      <4>2. handler[g].task \in Tasks /\ handler[g].pc # "idle"
        BY <1>z, <4>1, HandlerType DEF KeysInv, FoundAreCancelled
      <4>3. handler[g].task = v
        BY <1>4, <4>1, <4>2 DEF KeysInv, OneOwner, Names
      <4> QED BY <2>1, <4>1, <4>2, <4>3 DEF Serves
    <3>3. ~InAdd(c)'
      BY <3>2 DEF InAdd
    <3>4. ~InWaiting(c) /\ ~Taken(c)
      BY <3>1 DEF Single
    <3>5. ~InReady(c)' /\ ~InWorker(c)' /\ ~Sent(c)' /\ pushed'[c] = 0
      BY <1>1, <3>4 DEF Taken, InReady, InWorker, Sent
    <3>6. \A m, n \in waiting' : m.key = c /\ n.key = c => m = n
      BY <1>2, <3>4 DEF InWaiting
    <3> QED BY <3>3, <3>5, <3>6 DEF Single, Taken, InReady, InWorker
  <2>4. ASSUME NEW k \in reminders[v] PROVE Single(k)'
    <3>1. k \in Reminder /\ Single(k)
      BY <1>8, <1>z DEF PushInv, Pushes, TypeOK
    <3> QED BY <3>1, <1>6, <2>3
  <2> QED BY <2>2, <2>4
<1>9. Pushes(v)'
  BY <1>1, <1>8 DEF Pushes
<1> QED BY <1>7, <1>9 DEF PushInv

LEMMA ContinuePushes ==
  ASSUME Typed, KeysInv, RowsInv, PushInv, NEW h \in Handlers, Continue(h) PROVE PushInv'
<1>0. TypeOK /\ handler[h].task \in Tasks
  BY HandlerType DEF Typed
<1>1. CASE ReadCanceled(h)
  <2>1. UNCHANGED <<reminders, waiting, ready, worker, pushed, disturbed>>
    BY <1>1 DEF ReadCanceled, dbVars, queueVars, ghostVars
  <2>2. Others(h) /\ handler'[h].add \subseteq handler[h].add /\ handler'[h].pc # "read"
    BY <1>0, <1>1, ReadCanceledGoes
  <2> QED BY <2>1, <2>2, HandlerPushes
<1>2. ASSUME NEW n \in 0..1, UpdateTx(h, n) PROVE PushInv'
  <2> PICK v \in Tasks : v = handler[h].task
    BY <1>0
  <2>1. /\ Others(h) /\ UNCHANGED <<waiting, ready, worker, pushed, disturbed>>
        /\ \A g \in Handlers : handler'[g].add \subseteq handler[g].add
    BY <1>0, <1>2, UpdateTxGoes, IdleFields DEF UpdateTx, queueVars, ghostVars, Others
  <2>2. CASE handler[h].replace
    <3>1. NewReminders(v, n) /\ handler'[h].task = v
      BY <1>0, <1>2, <2>2, UpdateTxGoes DEF UpdateTx, Same
    <3>2. /\ Pushes(v)'
          /\ \A s \in Tasks : s # v => reminders'[s] = reminders[s]
          /\ \A k \in Reminder : (Single(k) => Single(k)') /\ (Used(k)' => Used(k))
      BY <2>1, <3>1, NewRowsPush
    <3>3. ASSUME NEW s \in Tasks, s # v PROVE Pushes(s)'
      <4>1. reminders[s] \subseteq Reminder
        BY <1>0 DEF TypeOK
      <4>2. \A g \in Handlers : Reads(g, s)' => Reads(g, s)
        BY <2>1, <3>1, <3>3 DEF Reads, Serves, Others
      <4> QED BY <2>1, <3>2, <3>3, <4>1, <4>2, PushKept
    <3> QED BY <3>2, <3>3 DEF PushInv
  <2>3. CASE ~handler[h].replace
    <3>1. reminders' = reminders
      BY <1>2, <2>3 DEF UpdateTx
    <3>2. handler'[h].pc # "read"
      BY <1>0, <1>2, <2>3, UpdateTxGoes, IdleFields
    <3> QED BY <2>1, <3>1, <3>2, HandlerPushes
  <2> QED BY <2>2, <2>3
<1>3. CASE DeleteTx(h)
  <2>1. UNCHANGED <<reminders, waiting, ready, worker, pushed, disturbed>>
    BY <1>3 DEF DeleteTx, queueVars, ghostVars
  <2>2. Others(h) /\ handler'[h].add \subseteq handler[h].add /\ handler'[h].pc # "read"
    BY <1>0, <1>3, DeleteTxGoes
  <2> QED BY <2>1, <2>2, HandlerPushes
<1>4. CASE ReadReminders(h)
  BY <1>4, ReadRemindersPushes
<1>5. CASE ReadDeleted(h)
  <2>1. UNCHANGED <<reminders, waiting, ready, worker, pushed, disturbed>>
    BY <1>5 DEF ReadDeleted, dbVars, queueVars, ghostVars
  <2>2. Others(h) /\ handler'[h].add \subseteq handler[h].add /\ handler'[h].pc # "read"
    BY <1>0, <1>5, ReadDeletedGoes, IdleFields
  <2> QED BY <2>1, <2>2, HandlerPushes
<1>6. CASE ScanWaiting(h)
  <2>1. UNCHANGED <<reminders, waiting, ready, worker, pushed, disturbed>>
    BY <1>6 DEF ScanWaiting, dbVars, queueVars, ghostVars
  <2>2. Others(h) /\ handler'[h].add \subseteq handler[h].add /\ handler'[h].pc # "read"
    BY <1>0, <1>6, ScanWaitingGoes, IdleFields DEF GoesOn
  <2> QED BY <2>1, <2>2, HandlerPushes
<1>7. CASE RemoveFound(h)
  <2>1. /\ UNCHANGED <<reminders, ready, worker, pushed, disturbed>>
        /\ waiting' \subseteq waiting
    BY <1>7 DEF RemoveFound, dbVars, ghostVars
  <2>2. Others(h) /\ handler'[h].add \subseteq handler[h].add /\ handler'[h].pc # "read"
    BY <1>0, <1>7, RemoveFoundGoes, IdleFields DEF GoesOn
  <2> QED BY <2>1, <2>2, HandlerPushes
<1>8. CASE ReadClock(h)
  <2>1. UNCHANGED <<reminders, waiting, ready, worker, pushed, disturbed>>
    BY <1>8 DEF ReadClock, dbVars, queueVars
  <2>2. Others(h) /\ handler'[h].add \subseteq handler[h].add /\ handler'[h].pc # "read"
    BY <1>0, <1>8, ReadClockGoes, IdleFields
  <2> QED BY <2>1, <2>2, HandlerPushes
<1>9. ASSUME NEW c \in Reminder, AddReminder(h, c) PROVE PushInv'
  BY <1>9, AddReminderPushes
<1> QED BY <1>1, <1>2, <1>3, <1>4, <1>5, <1>6, <1>7, <1>8, <1>9 DEF Continue

\* The script puts a due member in the ready queue once.
LEMMA MoveReadySingle ==
  ASSUME Typed, MoveReady, NEW k \in Reminder
  PROVE  (Single(k) => Single(k)') /\ (Used(k)' => Used(k))
<1>1. PICK s \in Seq(DueMembers) :
           /\ Len(s) \in Nat /\ Len(ready) \in Nat
           /\ Len(ready') = Len(ready) + Len(s)
           /\ \A i \in 1..Len(ready') :
                ready'[i] = IF i <= Len(ready) THEN ready[i] ELSE s[i - Len(ready)]
           /\ \A i \in 1..Len(s) : s[i] \in DueMembers
           /\ \A i, j \in 1..Len(s) : i < j => s[i] # s[j]
  BY MoveReadyGoes
<1>2. /\ UNCHANGED <<handler, worker, pushed>> /\ waiting' = waiting \ DueMembers
      /\ DueMembers \subseteq waiting
  BY DEF MoveReady, DueMembers
<1>3. InReady(k)' => InReady(k) \/ \E m \in DueMembers : m.key = k
  BY MoveReadyPlaces
<1>4. /\ InAdd(k)' <=> InAdd(k)
      /\ InWorker(k)' <=> InWorker(k)
      /\ Sent(k)' <=> Sent(k)
      /\ InWaiting(k)' => InWaiting(k)
  BY <1>2 DEF InAdd, InWorker, Sent, InWaiting
<1>5. InReady(k)' => InReady(k) \/ InWaiting(k)
  BY <1>2, <1>3 DEF InWaiting
<1>6. Used(k)' => Used(k)
  BY <1>4, <1>5 DEF Used, Taken
<1>7. ASSUME Single(k) PROVE Single(k)'
  <2>1. \A m, n \in waiting : m.key = k /\ n.key = k => m = n
    BY <1>7 DEF Single
  <2>2. InWaiting(k)' => ~InReady(k)'
    <3> SUFFICES ASSUME NEW m \in waiting', m.key = k, InReady(k)' PROVE FALSE
      BY DEF InWaiting
    <3>1. m \in waiting /\ m \notin DueMembers /\ InWaiting(k)
      BY <1>2 DEF InWaiting
    <3>2. ~InReady(k)
      BY <1>7, <3>1 DEF Single, Taken
    <3>3. PICK n \in DueMembers : n.key = k
      BY <1>3, <3>2
    <3> QED BY <1>2, <2>1, <3>1, <3>3
  <2>3. /\ InAdd(k)' => ~InWaiting(k)' /\ ~InReady(k)' /\ ~InWorker(k)' /\ ~Sent(k)'
        /\ InWaiting(k)' => ~InWorker(k)' /\ ~Sent(k)'
        /\ InReady(k)' => ~InWorker(k)' /\ ~Sent(k)'
        /\ InWorker(k)' => ~Sent(k)'
    BY <1>4, <1>5, <1>7 DEF Single, Taken
  <2>4. ASSUME NEW i \in 1..Len(ready'), NEW j \in 1..Len(ready'), i < j,
               ready'[i].key = k, ready'[j].key = k
        PROVE  FALSE
    <3>1. CASE j <= Len(ready)
      <4>1. /\ i \in 1..Len(ready) /\ j \in 1..Len(ready)
            /\ ready[i].key = k /\ ready[j].key = k
        BY <1>1, <2>4, <3>1
      <4> QED BY <1>7, <2>4, <4>1 DEF Single
    <3>2. CASE ~(j <= Len(ready)) /\ i <= Len(ready)
      <4>1. /\ i \in 1..Len(ready) /\ ready[i].key = k
            /\ j - Len(ready) \in 1..Len(s) /\ s[j - Len(ready)].key = k
        BY <1>1, <2>4, <3>2
      <4>2. InReady(k) /\ InWaiting(k)
        BY <1>1, <1>2, <4>1 DEF InReady, InWaiting
      <4> QED BY <1>7, <4>2 DEF Single, Taken
    <3>3. CASE ~(j <= Len(ready)) /\ ~(i <= Len(ready))
      <4> DEFINE a == i - Len(ready)
                 b == j - Len(ready)
      <4>1. /\ a \in 1..Len(s) /\ b \in 1..Len(s) /\ a < b
            /\ s[a].key = k /\ s[b].key = k
        BY <1>1, <2>4, <3>3
      <4> HIDE DEF a, b
      <4>2. s[a] \in waiting /\ s[b] \in waiting /\ s[a] # s[b]
        BY <1>1, <1>2, <4>1
      <4> QED BY <2>1, <4>1, <4>2
    <3> QED BY <3>1, <3>2, <3>3
  <2>5. \A i, j \in 1..Len(ready') : ready'[i].key = k /\ ready'[j].key = k => i = j
    <3> SUFFICES ASSUME NEW i \in 1..Len(ready'), NEW j \in 1..Len(ready'),
                        ready'[i].key = k, ready'[j].key = k, i # j
                 PROVE  FALSE
      OBVIOUS
    <3>1. i < j \/ j < i
      BY <1>1
    <3> QED BY <2>4, <3>1
  <2>6. /\ pushed'[k] <= 1
        /\ \A m, n \in waiting' : m.key = k /\ n.key = k => m = n
        /\ \A v, w \in Workers :
             /\ worker'[v].stage # "free" /\ worker'[v].m.key = k
             /\ worker'[w].stage # "free" /\ worker'[w].m.key = k
             => v = w
    BY <1>2, <1>7 DEF Single
  <2> QED BY <2>2, <2>3, <2>5, <2>6 DEF Single, Taken
<1> QED BY <1>6, <1>7

\* A worker hands a reminder from the ready queue to the push, once.
LEMMA WorkerSingle ==
  ASSUME Typed, NEW w \in Workers, WorkerStep(w), NEW k \in Reminder
  PROVE  (Single(k) => Single(k)') /\ (Used(k)' => Used(k))
<1>1. UNCHANGED <<handler, waiting>>
  BY DEF WorkerStep, Pop, CheckTask, Deliver
<1>2. (InAdd(k)' <=> InAdd(k)) /\ (InWaiting(k)' <=> InWaiting(k))
  BY <1>1 DEF InAdd, InWaiting
<1>3. Taken(k)' => Taken(k)
  BY WorkerPlaces
<1>4. Used(k)' => Used(k)
  BY <1>2, <1>3 DEF Used
<1>5. ASSUME Single(k) PROVE Single(k)'
  <2>1. /\ InAdd(k)' => ~InWaiting(k)' /\ ~Taken(k)'
        /\ InWaiting(k)' => ~Taken(k)'
        /\ \A m, n \in waiting' : m.key = k /\ n.key = k => m = n
    BY <1>1, <1>2, <1>3, <1>5 DEF Single
  <2>2. CASE Pop(w)
    <3>1. pushed' = pushed /\ (Sent(k)' <=> Sent(k))
      BY <2>2 DEF Pop, Sent, ghostVars
    <3>2. \A i, j \in 1..Len(ready') : ready'[i].key = k /\ ready'[j].key = k => i = j
      <4> SUFFICES ASSUME NEW i \in 1..Len(ready'), NEW j \in 1..Len(ready'),
                          ready'[i].key = k, ready'[j].key = k
                   PROVE  i = j
        OBVIOUS
      <4>1. /\ i + 1 \in 1..Len(ready) /\ j + 1 \in 1..Len(ready)
            /\ ready[i + 1].key = k /\ ready[j + 1].key = k
        BY <2>2, PopGoes
      <4>2. i + 1 = j + 1
        BY <1>5, <4>1 DEF Single
      <4> QED BY <4>2
    <3>3. CASE ready[1].key = k
      <4>1. InReady(k)
        BY <2>2, <3>3, PopGoes DEF InReady
      <4>2. ~InWorker(k) /\ ~Sent(k)
        BY <1>5, <4>1 DEF Single
      <4>3. ~InReady(k)'
        <5> SUFFICES ASSUME NEW i \in 1..Len(ready'), ready'[i].key = k PROVE FALSE
          BY DEF InReady
        <5>1. i + 1 \in 1..Len(ready) /\ ready[i + 1].key = k /\ 1 \in 1..Len(ready)
          BY <2>2, PopGoes
        <5>2. i + 1 = 1
          BY <1>5, <3>3, <5>1 DEF Single
        <5> QED BY <5>2
      <4>4. \A v \in Workers :
              worker'[v].stage # "free" /\ worker'[v].m.key = k => v = w
        BY <2>2, <4>2, PopGoes DEF InWorker
      <4> QED BY <1>5, <2>1, <3>1, <3>2, <4>2, <4>3, <4>4 DEF Single
    <3>4. CASE ready[1].key # k
      <4>1. \A v \in Workers :
              worker'[v].stage # "free" /\ worker'[v].m.key = k
              => worker[v].stage # "free" /\ worker[v].m.key = k
        BY <2>2, <3>4, PopGoes
      <4>2. InWorker(k)' => InWorker(k)
        BY <4>1 DEF InWorker
      <4>3. InReady(k)' => InReady(k)
        BY <2>2, PopGoes DEF InReady
      <4> QED BY <1>5, <2>1, <3>1, <3>2, <4>1, <4>2, <4>3 DEF Single
    <3> QED BY <3>3, <3>4
  <2>3. CASE CheckTask(w)
    <3>1. UNCHANGED <<ready, pushed>>
      BY <2>3 DEF CheckTask, ghostVars
    <3>2. \A v \in Workers :
            worker'[v].stage # "free" /\ worker'[v].m.key = k
            => worker[v].stage # "free" /\ worker[v].m.key = k
      BY <2>3, CheckGoes
    <3>3. /\ InWorker(k)' => InWorker(k)
          /\ InReady(k)' <=> InReady(k)
          /\ Sent(k)' <=> Sent(k)
      BY <3>1, <3>2 DEF InWorker, InReady, Sent
    <3> QED BY <1>5, <2>1, <3>1, <3>2, <3>3 DEF Single
  <2>4. CASE Deliver(w)
    <3>1. ready' = ready /\ (InReady(k)' <=> InReady(k))
      BY <2>4 DEF Deliver, InReady
    <3>2. /\ worker[w].stage = "send" /\ worker'[w].stage = "free"
          /\ \A x \in Workers : x # w => worker'[x] = worker[x]
          /\ \/ pushed'[k] = pushed[k]
             \/ k = worker[w].m.key /\ pushed'[k] = pushed[k] + 1
      BY <2>4, DeliverGoes
    <3>3. \A v \in Workers :
            worker'[v].stage # "free" /\ worker'[v].m.key = k
            => v # w /\ worker[v].stage # "free" /\ worker[v].m.key = k
      BY <3>2
    <3>4. CASE pushed'[k] = pushed[k]
      <4>1. (InWorker(k)' => InWorker(k)) /\ (Sent(k)' <=> Sent(k))
        BY <3>3, <3>4 DEF InWorker, Sent
      <4> QED BY <1>5, <2>1, <3>1, <3>3, <3>4, <4>1 DEF Single
    <3>5. CASE k = worker[w].m.key /\ pushed'[k] = pushed[k] + 1
      <4>1. InWorker(k)
        BY <3>2, <3>5 DEF InWorker
      <4>2. pushed[k] = 0 /\ ~InReady(k)
        BY <1>5, <4>1 DEF Single, Sent
      <4>3. ~InWorker(k)'
        BY <1>5, <3>2, <3>3, <3>5 DEF Single, InWorker
      <4>4. pushed'[k] <= 1
        BY <3>5, <4>2
      <4> QED BY <1>5, <2>1, <3>1, <3>3, <4>2, <4>3, <4>4 DEF Single
    <3> QED BY <3>2, <3>4, <3>5
  <2> QED BY <2>2, <2>3, <2>4 DEF WorkerStep
<1> QED BY <1>4, <1>5

LEMMA OtherPushes ==
  ASSUME Typed, KeysInv, PushInv, [Next]_vars,
         ~\E h \in Handlers : Request(h) \/ Continue(h)
  PROVE  PushInv'
<1>0. TypeOK /\ \A t \in Tasks : reminders[t] \subseteq Reminder
  BY DEF Typed, TypeOK
<1>a. ASSUME UNCHANGED <<reminders, handler>>, disturbed \subseteq disturbed',
             \A k \in Reminder : (Single(k) => Single(k)') /\ (Used(k)' => Used(k))
      PROVE  PushInv'
  <2>1. \A t \in Tasks, h \in Handlers : Reads(h, t)' => Reads(h, t)
    BY <1>a DEF Reads, Serves
  <2> QED BY <1>0, <1>a, <2>1, PushKept DEF PushInv
<1>b. ASSUME UNCHANGED <<reminders, handler, waiting, ready, worker, pushed, disturbed>>
      PROVE  PushInv'
  <2>1. \A k : (Single(k) => Single(k)') /\ (Used(k)' => Used(k))
    BY <1>b, SingleShrinks DEF InAdd
  <2> QED BY <1>b, <1>a, <2>1
<1>1. ASSUME NEW t \in Tasks, NEW at \in Time, NEW n \in 0..1, GenerateTask(t, at, n)
      PROVE  PushInv'
  <2>1. UNCHANGED <<handler, waiting, ready, worker, pushed, disturbed>> /\ NewReminders(t, n)
    BY <1>1 DEF GenerateTask, queueVars, ghostVars
  <2>2. /\ Pushes(t)'
        /\ \A s \in Tasks : s # t => reminders'[s] = reminders[s]
        /\ \A k \in Reminder : (Single(k) => Single(k)') /\ (Used(k)' => Used(k))
    BY <2>1, NewRowsPush
  <2>3. ASSUME NEW s \in Tasks, s # t PROVE Pushes(s)'
    <3>1. \A g \in Handlers : Reads(g, s)' => Reads(g, s)
      BY <2>1 DEF Reads, Serves
    <3> QED BY <1>0, <2>1, <2>2, <2>3, <3>1, PushKept
  <2> QED BY <2>2, <2>3 DEF PushInv
<1>2. ASSUME NEW t \in Tasks, Complete(t) PROVE PushInv'
  BY <1>2, <1>b DEF Complete, queueVars, ghostVars
<1>3. ASSUME NEW t \in Tasks, NEW at \in Time, ClientSchedule(t, at) PROVE PushInv'
  <2>1. UNCHANGED <<reminders, handler, ready, worker, pushed, disturbed>>
    BY <1>3 DEF ClientSchedule, dbVars, ghostVars
  <2>2. PICK x : x.key = NoKey /\ waiting' = waiting \cup {x}
    <3> DEFINE x == [key |-> NoKey, task |-> t, at |-> at]
    <3>1. x.key = NoKey
      OBVIOUS
    <3>2. waiting' = waiting \cup {x}
      BY <1>3 DEF ClientSchedule
    <3> HIDE DEF x
    <3> QED BY <3>1, <3>2
  <2>3. NoKey \notin Reminder
    BY DEF NoKey, Reminder
  <2>4. \A k \in Reminder, m \in waiting' : m.key = k => m \in waiting
    BY <2>2, <2>3
  <2>5. \A k \in Reminder : (Single(k) => Single(k)') /\ (Used(k)' => Used(k))
    BY <2>1, <2>4, SingleShrinks DEF InAdd
  <2> QED BY <2>1, <2>5, <1>a
<1>4. CASE Tick
  BY <1>4, <1>b DEF Tick, dbVars, queueVars, ghostVars
<1>5. CASE MoveReady
  <2>1. UNCHANGED <<reminders, handler, disturbed>>
    BY <1>5 DEF MoveReady, dbVars
  <2> QED BY <1>5, <1>a, <2>1, MoveReadySingle
<1>6. ASSUME NEW w \in Workers, WorkerStep(w) PROVE PushInv'
  <2>1. UNCHANGED <<reminders, handler, disturbed>>
    BY <1>6 DEF WorkerStep, Pop, CheckTask, Deliver, dbVars, ghostVars
  <2> QED BY <1>6, <1>a, <2>1, WorkerSingle
<1>7. CASE Crash
  <2>1. /\ UNCHANGED <<reminders, waiting, ready, pushed>> /\ disturbed \subseteq disturbed'
        /\ \A h \in Handlers : handler'[h] = Idle
        /\ \A w \in Workers : worker'[w].stage = "free"
    BY <1>7 DEF Crash, dbVars, Free
  <2>2. \A k : InAdd(k)' => InAdd(k)
    BY <2>1, IdleFields DEF InAdd
  <2>3. \A k : (Single(k) => Single(k)') /\ (Used(k)' => Used(k))
    BY <2>1, <2>2, SingleShrinks
  <2>4. \A t \in Tasks, h \in Handlers : ~Reads(h, t)'
    BY <2>1, IdleFields DEF Reads, Serves
  <2> QED BY <2>1, <2>3, <2>4, PushKept DEF PushInv
<1>8. CASE UNCHANGED vars
  BY <1>8, <1>b DEF vars
<1> QED BY <1>1, <1>2, <1>3, <1>4, <1>5, <1>6, <1>7, <1>8 DEF Next

LEMMA PushInvStep == ASSUME Typed, KeysInv, RowsInv, PushInv, [Next]_vars PROVE PushInv'
  BY RequestPushes, ContinuePushes, OtherPushes

LEMMA PushInvHolds == Spec => []PushInv
<1>1. Init => PushInv
  BY DEF Init, PushInv, Pushes
<1> QED BY <1>1, TypedHolds, KeysInvHolds, RowsInvHolds, PushInvStep, PTL DEF Spec

\* A reminder a task still has was pushed at most once, whatever workers, cron job and
\* requests do at once, unless requests on the task overlapped or were cut off: the Lua
\* script moves it once, BRPOP gives it to one worker, and the listener adds it once.
THEOREM PushedOnceHolds == Spec => []PushedOnce
<1>1. PushInv => PushedOnce
  BY DEF PushInv, Pushes, PushedOnce, Single
<1> QED BY <1>1, PushInvHolds, PTL

=============================================================================
