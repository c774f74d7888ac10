----------------------- MODULE ChildcareAccountsProofs -----------------------
(***************************************************************************)
(* Proofs about ChildcareAccounts, for any children, instances, requests,  *)
(* calendar and bounds.                                                     *)
(***************************************************************************)
EXTENDS ChildcareAccounts, SequenceTheorems, TLAPS

-----------------------------------------------------------------------------
(* Type correctness.                                                       *)

Paying == [child : Children, amount : Int, active : BOOLEAN, monthly : Int]

\* Whoever is about to pay back a plan has seen one, and a run that is about to
\* pay has prepared the payment.
Prepared ==
  /\ \A h \in Handlers :
       request[h] # None /\ request[h].op = "cancel" =>
         plan[request[h].child] \in SavingsPlan
  /\ \A i \in Instances : \A s \in run[i]["maturity"].todo :
       plan[s.child] \in SavingsPlan
  /\ \A i \in Instances :
       run[i]["allowance"].stage = "pay" => run[i]["allowance"].paying \in Paying

Typed == TypeOK /\ Prepared

\* Today is in the calendar.
LEMMA CalendarType ==
  ASSUME NEW d \in Days
  PROVE  /\ Calendar[d] \in [month : Nat, day : Nat, last : Nat]
         /\ Calendar[d].month \in Months
<1>1. Calendar \in Seq([month : Nat, day : Nat, last : Nat])
  BY ConstantsAssumption
<1>2. Calendar[d] \in [month : Nat, day : Nat, last : Nat]
  BY <1>1, ElementOfSeq, Zenon DEF Days
<1>3. Calendar[d].month \in Months
  BY DEF Months
<1> QED BY <1>2, <1>3

\* The fields of settings and of terms are naturals.
LEMMA FieldTypes ==
  /\ \A p \in Settings : p.points \in Nat /\ p.payDay \in Nat
  /\ \A t \in Terms : t.monthly \in Nat /\ t.interest \in Nat /\ t.ends \in Nat
<1>1. Settings \subseteq [points : Nat, payDay : Nat]
  BY ConstantsAssumption
<1>2. Terms \subseteq [monthly : Nat, interest : Nat, ends : Nat]
  BY ConstantsAssumption
<1> QED BY <1>1, <1>2

\* A request that waits is of one of three kinds.
LEMMA RequestKinds ==
  ASSUME TypeOK, NEW h \in Handlers, request[h] # None
  PROVE  /\ request[h].op \in {"transaction", "allowance", "cancel"}
         /\ request[h].child \in Children
         /\ request[h].op = "transaction" =>
              /\ request[h].type \in {"ALLOWANCE", "ADD", "TAKE"}
              /\ request[h].amount \in Amounts
              /\ request[h].read \in Int
         /\ request[h].op = "allowance" =>
              request[h].new \in Settings /\ request[h].read \in {None} \cup Settings
         /\ request[h].op = "cancel" => request[h].read \in Int
<1>1. request[h] \in Request
  BY DEF TypeOK
<1> QED BY <1>1 DEF Request

\* A request that begins leaves the requests well-typed.
LEMMA BeginType ==
  ASSUME TypeOK, NEW h \in Handlers, NEW r \in Request, Begin(h, r)
  PROVE  /\ request' \in [Handlers -> {None} \cup Request]
         /\ requests' \in 0..MaxRequests
  BY ConstantsAssumption DEF TypeOK, Begin

\* A request that ends leaves the requests well-typed.
LEMMA EndType ==
  ASSUME TypeOK, NEW h \in Handlers, End(h)
  PROVE  request' \in [Handlers -> {None} \cup Request]
  BY DEF TypeOK, End

\* A run that gets a new state leaves the runs well-typed, and the others as they are.
SetRun(i, j, r) == run' = [run EXCEPT ![i][j] = r]

LEMMA RunUpdate ==
  ASSUME TypeOK, NEW i \in Instances, NEW j \in Jobs, NEW r \in Run, SetRun(i, j, r)
  PROVE  /\ run' \in [Instances -> [Jobs -> Run]]
         /\ run'[i][j] = r
         /\ \A n \in Instances, m \in Jobs : n # i \/ m # j => run'[n][m] = run[n][m]
  BY DEF TypeOK, SetRun

\* What the accounts hold.
LEMMA AccountTypes ==
  ASSUME TypeOK
  PROVE  /\ balance \in [Children -> Int] /\ savings \in [Children -> Int]
         /\ deposited \in [Children -> Int] /\ returned \in [Children -> Int]
         /\ mixed \subseteq Children /\ short \subseteq Children
         /\ run \in [Instances -> [Jobs -> Run]]
         /\ rows \in [Children -> [Months -> Nat]]
         /\ auto \in [Children -> [Months -> Nat]]
  BY DEF TypeOK

\* One account with a new number of points.
LEMMA PointsUpdate ==
  ASSUME NEW f \in [Children -> Int], NEW k \in Children, NEW n \in Int
  PROVE  [f EXCEPT ![k] = n] \in [Children -> Int]
  OBVIOUS

\* An idle run is well-typed.
LEMMA IdleType == Idle \in Run /\ Idle.stage = "idle" /\ Idle.todo = {}
  BY DEF Idle, Run

\* What a job finds is a list of entries; what it matures has a plan.
LEMMA FoundType ==
  ASSUME TypeOK, NEW j \in Jobs
  PROVE  /\ Found(j) \subseteq Entry
         /\ j = "maturity" => \A s \in Found(j) : plan[s.child] \in SavingsPlan
<1>1. DueAllowances \subseteq Entry
  <2> SUFFICES ASSUME NEW k \in Children, allowance[k] # None
               PROVE  [child |-> k, amount |-> allowance[k].points] \in Entry
    BY DEF DueAllowances
  <2>1. allowance[k] \in Settings
    BY DEF TypeOK
  <2> QED BY <2>1, FieldTypes DEF Entry
<1>2. EndingPlans \subseteq Entry /\ \A s \in EndingPlans : plan[s.child] \in SavingsPlan
  BY DEF EndingPlans, IsActive, Entry, TypeOK
<1> QED BY <1>1, <1>2 DEF Found, Jobs

\* A payment is well-typed.
LEMMA PaymentType ==
  ASSUME TypeOK, NEW s \in Entry
  PROVE  Payment(s) \in Paying
<1>1. s.child \in Children /\ s.amount \in Int /\ IsActive(s.child) \in BOOLEAN
  BY DEF Entry, IsActive
<1>2. ASSUME IsActive(s.child) PROVE plan[s.child].terms.monthly \in Nat
  <2>1. plan[s.child] \in SavingsPlan
    BY <1>1, <1>2 DEF IsActive, TypeOK
  <2> QED BY <2>1, FieldTypes DEF SavingsPlan
<1>3. (IF IsActive(s.child) THEN plan[s.child].terms.monthly ELSE 0) \in Int
  BY <1>2
<1> QED BY <1>1, <1>3 DEF Payment, Paying

\* Paying back a plan leaves the account well-typed.
LEMMA PayBackType ==
  ASSUME TypeOK, NEW k \in Children, NEW p \in Int, NEW n \in Int,
         NEW s \in {"MATURED", "CANCELLED"}, plan[k] \in SavingsPlan, PayBack(k, p, n, s)
  PROVE  /\ balance' \in [Children -> Int] /\ savings' \in [Children -> Int]
         /\ plan' \in [Children -> {None} \cup SavingsPlan]
         /\ returned' \in [Children -> Int]
         /\ mixed' \subseteq Children
         /\ \A c \in Children : plan[c] \in SavingsPlan => plan'[c] \in SavingsPlan
<1>1. [plan[k] EXCEPT !.status = s] \in SavingsPlan
  BY DEF SavingsPlan
<1>2. plan' = [plan EXCEPT ![k] = [plan[k] EXCEPT !.status = s]]
  BY DEF PayBack
<1>3. /\ balance' \in [Children -> Int] /\ savings' \in [Children -> Int]
      /\ returned' \in [Children -> Int]
  <2>1. balance[k] + p + n \in Int /\ returned[k] + p \in Int
    BY AccountTypes
  <2>2. /\ balance' = [balance EXCEPT ![k] = balance[k] + p + n]
        /\ savings' = [savings EXCEPT ![k] = 0]
        /\ returned' = [returned EXCEPT ![k] = returned[k] + p]
    BY DEF PayBack
  <2> QED BY <2>1, <2>2, AccountTypes, PointsUpdate
<1>4. /\ plan' \in [Children -> {None} \cup SavingsPlan]
      /\ \A c \in Children : plan[c] \in SavingsPlan => plan'[c] \in SavingsPlan
  BY <1>1, <1>2 DEF TypeOK
<1>5. mixed' \subseteq Children
  BY DEF PayBack, TypeOK
<1> QED BY <1>3, <1>4, <1>5

\* A request that has just begun leaves everything well-typed.
LEMMA BeginStep ==
  ASSUME Typed, NEW h \in Handlers, NEW r \in Request, Begin(h, r),
         r.op = "cancel" => plan[r.child] \in SavingsPlan,
         UNCHANGED <<today, accountVars, settingVars, rows, jobVars, auto, opened>>
  PROVE  Typed'
<1>1. TypeOK'
  BY BeginType DEF Typed, TypeOK, accountVars, settingVars, jobVars
<1>2. \A n \in Handlers : request'[n] = IF n = h THEN r ELSE request[n]
  BY DEF Typed, TypeOK, Begin
<1>3. Prepared'
  BY <1>2 DEF Typed, Prepared, accountVars, jobVars
<1> QED BY <1>1, <1>3 DEF Typed

\* What handlers and runs have prepared stays so, when requests end and plans stay
\* plans.
LEMMA PreparedKept ==
  ASSUME Typed, NEW h \in Handlers, End(h), UNCHANGED run,
         \A k \in Children : plan[k] \in SavingsPlan => plan'[k] \in SavingsPlan
  PROVE  Prepared'
<1>1. \A n \in Handlers : request'[n] = IF n = h THEN None ELSE request[n]
  BY DEF Typed, TypeOK, End
<1>2. ASSUME NEW n \in Handlers, request'[n] # None, request'[n].op = "cancel"
      PROVE  plan'[request'[n].child] \in SavingsPlan
  BY <1>1, <1>2, RequestKinds DEF Typed, Prepared
<1>3. ASSUME NEW i \in Instances, NEW s \in run[i]["maturity"].todo
      PROVE  s.child \in Children
  BY <1>3 DEF Typed, TypeOK, Run, Entry, Jobs
<1> QED BY <1>2, <1>3 DEF Typed, Prepared

\* A run that does something else than to mature a plan leaves what was prepared,
\* when it has prepared its own payment.
LEMMA PreparedByRun ==
  ASSUME Typed, NEW i \in Instances, NEW j \in Jobs, NEW r \in Run,
         run' = [run EXCEPT ![i][j] = r],
         UNCHANGED <<plan, request>>,
         j = "maturity" => \A s \in r.todo : plan[s.child] \in SavingsPlan,
         j = "allowance" => (r.stage = "pay" => r.paying \in Paying)
  PROVE  run' \in [Instances -> [Jobs -> Run]] /\ Prepared'
<1>1. /\ run' \in [Instances -> [Jobs -> Run]]
      /\ run'[i][j] = r
      /\ \A n \in Instances, m \in Jobs : n # i \/ m # j => run'[n][m] = run[n][m]
  <2>1. TypeOK /\ SetRun(i, j, r)
    BY DEF Typed, SetRun
  <2> QED BY <2>1, RunUpdate
<1>2. "maturity" \in Jobs /\ "allowance" \in Jobs /\ "maturity" # "allowance"
  BY DEF Jobs
<1>3. \A n \in Instances : \A s \in run'[n]["maturity"].todo :
        plan'[s.child] \in SavingsPlan
  BY <1>1, <1>2 DEF Typed, Prepared
<1>4. \A n \in Instances :
        run'[n]["allowance"].stage = "pay" => run'[n]["allowance"].paying \in Paying
  BY <1>1, <1>2 DEF Typed, Prepared
<1>5. \A h \in Handlers :
       request'[h] # None /\ request'[h].op = "cancel" =>
         plan'[request'[h].child] \in SavingsPlan
  BY DEF Typed, Prepared
<1> QED BY <1>1, <1>3, <1>4, <1>5 DEF Prepared

\* What parents do.
LEMMA ParentsType == ASSUME Typed, Parents PROVE Typed'
<1> USE DEF Typed
<1>1. ASSUME NEW h \in Handlers, NEW k \in Children, NEW t \in {"ALLOWANCE", "ADD", "TAKE"},
             NEW a \in Amounts, TransactionRead(h, k, t, a)
      PROVE  Typed'
  <2> DEFINE r == [op |-> "transaction", child |-> k, type |-> t, amount |-> a,
                   read |-> balance[k]]
  <2>1. r \in Request
    BY DEF Request, TypeOK
  <2>2. r.op # "cancel"
    OBVIOUS
  <2> HIDE DEF r
  <2>3. Begin(h, r) /\ UNCHANGED <<today, accountVars, settingVars, rows, jobVars, auto, opened>>
    BY <1>1 DEF TransactionRead, r
  <2> QED BY <2>1, <2>2, <2>3, BeginStep
<1>2. ASSUME NEW h \in Handlers, NEW k \in Children, NEW p \in Settings, AllowanceRead(h, k, p)
      PROVE  Typed'
  <2> DEFINE r == [op |-> "allowance", child |-> k, new |-> p, read |-> allowance[k]]
  <2>1. r \in Request
    BY DEF Request, TypeOK
  <2>2. r.op # "cancel"
    OBVIOUS
  <2> HIDE DEF r
  <2>3. Begin(h, r) /\ UNCHANGED <<today, accountVars, settingVars, rows, jobVars, auto, opened>>
    BY <1>2 DEF AllowanceRead, r
  <2> QED BY <2>1, <2>2, <2>3, BeginStep
<1>3. ASSUME NEW k \in Children, NEW t \in Terms, OpenSavings(k, t) PROVE Typed'
  <2>1. [terms |-> t, status |-> "ACTIVE"] \in SavingsPlan
    BY DEF SavingsPlan
  <2>2. plan' = [plan EXCEPT ![k] = [terms |-> t, status |-> "ACTIVE"]]
    BY <1>3 DEF OpenSavings
  <2>3. /\ plan' \in [Children -> {None} \cup SavingsPlan]
        /\ \A c \in Children : plan[c] \in SavingsPlan => plan'[c] \in SavingsPlan
    BY <2>1, <2>2 DEF TypeOK
  <2>4. TypeOK'
    <3>1. requests' \in 0..MaxRequests
      BY <1>3, ConstantsAssumption DEF OpenSavings, TypeOK
    <3>2. opened' \in [Children -> Days]
      BY <1>3 DEF OpenSavings, TypeOK
    <3> QED BY <1>3, <2>3, <3>1, <3>2 DEF OpenSavings, TypeOK, settingVars, jobVars
  <2>5. ASSUME NEW n \in Handlers, request[n] # None, request[n].op = "cancel"
        PROVE  plan'[request[n].child] \in SavingsPlan
    BY <2>3, <2>5, RequestKinds DEF Prepared
  <2>6. ASSUME NEW i \in Instances, NEW s \in run[i]["maturity"].todo
        PROVE  plan'[s.child] \in SavingsPlan
    <3>1. s.child \in Children
      BY <2>6 DEF TypeOK, Run, Entry, Jobs
    <3> QED BY <3>1, <2>3, <2>6 DEF Prepared
  <2>7. UNCHANGED <<request, run>>
    BY <1>3 DEF OpenSavings, jobVars
  <2>8. Prepared'
    BY <2>5, <2>6, <2>7 DEF Prepared
  <2> QED BY <2>4, <2>8
<1>4. ASSUME NEW h \in Handlers, NEW k \in Children, CancelRead(h, k) PROVE Typed'
  <2> DEFINE r == [op |-> "cancel", child |-> k, read |-> savings[k]]
  <2>1. r \in Request
    BY DEF Request, TypeOK
  <2>2. plan[k] \in SavingsPlan /\ r.child = k
    BY <1>4 DEF CancelRead, IsActive, TypeOK
  <2> HIDE DEF r
  <2>3. Begin(h, r) /\ UNCHANGED <<today, accountVars, settingVars, rows, jobVars, auto, opened>>
    BY <1>4 DEF CancelRead, r
  <2> QED BY <2>1, <2>2, <2>3, BeginStep
<1>5. ASSUME NEW h \in Handlers, TransactionWrite(h) PROVE Typed'
  <2>1. /\ request[h].child \in Children /\ request[h].amount \in Nat
        /\ request[h].type \in {"ALLOWANCE", "ADD", "TAKE"}
    BY <1>5, RequestKinds, ConstantsAssumption DEF TransactionWrite
  <2>2. Delta(request[h].type, request[h].amount) \in Int
    BY <2>1 DEF Delta
  <2>3. ThisMonth \in Months
    BY CalendarType DEF TypeOK, ThisMonth
  <2>4. balance' \in [Children -> Int]
    <3> DEFINE n == balance[request[h].child] + Delta(request[h].type, request[h].amount)
    <3>1. n \in Int
      BY <2>1, <2>2, AccountTypes
    <3>2. balance' = [balance EXCEPT ![request[h].child] = n]
      BY <1>5 DEF TransactionWrite
    <3> HIDE DEF n
    <3> QED BY <2>1, <3>1, <3>2, AccountTypes, PointsUpdate
  <2>5. rows' \in [Children -> [Months -> Nat]]
    <3>1. CASE rows' = rows
      BY <3>1 DEF TypeOK
    <3>2. CASE rows' = [rows EXCEPT ![request[h].child][ThisMonth] = @ + 1]
      BY <3>2, <2>1, <2>3, AccountTypes
    <3> QED BY <1>5, <3>1, <3>2 DEF TransactionWrite
  <2>6. mixed' \subseteq Children
    BY <1>5, <2>1 DEF TransactionWrite, TypeOK
  <2>7. request' \in [Handlers -> {None} \cup Request]
    BY <1>5, EndType DEF TransactionWrite
  <2>8. TypeOK'
    BY <1>5, <2>4, <2>5, <2>6, <2>7 DEF TransactionWrite, TypeOK, settingVars, jobVars
  <2>9. Prepared'
    BY <1>5, PreparedKept DEF TransactionWrite, jobVars
  <2> QED BY <2>8, <2>9
<1>6. ASSUME NEW h \in Handlers, AllowanceWrite(h) PROVE Typed'
  <2>1. /\ request[h].child \in Children /\ request[h].new \in Settings
        /\ request[h].read \in {None} \cup Settings
    BY <1>6, RequestKinds DEF AllowanceWrite
  <2>2. /\ allowance' \in [Children -> {None} \cup Settings]
        /\ history' \in [Children -> SUBSET Settings]
        /\ settings' \in [Children -> SUBSET Settings]
        /\ since' \in [Children -> 0..Len(Calendar)]
        /\ mixed' \subseteq Children
    <3> DEFINE r == request[h]
    <3>1. today \in 0..Len(Calendar)
      BY DEF TypeOK, Days
    <3>2. CASE /\ history' = IF r.read # None
                              THEN [history EXCEPT ![r.child] = @ \cup {r.read}]
                              ELSE history
               /\ allowance' = [allowance EXCEPT ![r.child] = r.new]
               /\ settings' = [settings EXCEPT ![r.child] = @ \cup {r.new}]
               /\ since' = [since EXCEPT ![r.child] = today]
               /\ mixed' = IF allowance[r.child] # r.read
                             THEN mixed \cup {r.child} ELSE mixed
      <4>1. allowance' \in [Children -> {None} \cup Settings]
        BY <3>2, <2>1 DEF TypeOK
      <4>2. history' \in [Children -> SUBSET Settings]
        <5>1. CASE r.read = None
          BY <3>2, <5>1 DEF TypeOK
        <5>2. CASE r.read # None
          <6>1. r.read \in Settings
            BY <5>2, <2>1
          <6>2. history' = [history EXCEPT ![r.child] = @ \cup {r.read}]
            BY <5>2, <3>2
          <6> QED BY <6>1, <6>2, <2>1 DEF TypeOK
        <5> QED BY <5>1, <5>2
      <4>3. settings' \in [Children -> SUBSET Settings]
        BY <3>2, <2>1 DEF TypeOK
      <4>4. since' \in [Children -> 0..Len(Calendar)]
        BY <3>2, <2>1, <3>1 DEF TypeOK
      <4>5. mixed' \subseteq Children
        BY <3>2, <2>1 DEF TypeOK
      <4> QED BY <4>1, <4>2, <4>3, <4>4, <4>5
    <3>3. CASE UNCHANGED <<settingVars, mixed>>
      BY <3>3 DEF TypeOK, settingVars
    <3> QED BY <1>6, <3>2, <3>3 DEF AllowanceWrite
  <2>3. request' \in [Handlers -> {None} \cup Request]
    BY <1>6, EndType DEF AllowanceWrite
  <2>4. TypeOK'
    BY <1>6, <2>2, <2>3 DEF AllowanceWrite, TypeOK, jobVars
  <2>5. Prepared'
    BY <1>6, PreparedKept DEF AllowanceWrite, jobVars
  <2> QED BY <2>4, <2>5
<1>7. ASSUME NEW h \in Handlers, CancelWrite(h) PROVE Typed'
  <2>1. /\ request[h].child \in Children /\ request[h].read \in Int
        /\ plan[request[h].child] \in SavingsPlan
    BY <1>7, RequestKinds DEF CancelWrite, Prepared
  <2>2. PayBack(request[h].child, request[h].read, 0, "CANCELLED")
    BY <1>7 DEF CancelWrite
  <2>3. /\ balance' \in [Children -> Int] /\ savings' \in [Children -> Int]
        /\ plan' \in [Children -> {None} \cup SavingsPlan]
        /\ returned' \in [Children -> Int]
        /\ mixed' \subseteq Children
        /\ \A c \in Children : plan[c] \in SavingsPlan => plan'[c] \in SavingsPlan
    BY <2>1, <2>2, PayBackType
  <2>4. request' \in [Handlers -> {None} \cup Request]
    BY <1>7, EndType DEF CancelWrite
  <2>5. TypeOK'
    BY <1>7, <2>3, <2>4 DEF CancelWrite, TypeOK, settingVars, jobVars
  <2>6. Prepared'
    BY <1>7, <2>3, PreparedKept DEF CancelWrite, jobVars
  <2> QED BY <2>5, <2>6
<1> QED BY <1>1, <1>2, <1>3, <1>4, <1>5, <1>6, <1>7 DEF Parents

\* What the runs of an instance, its crashes and its restarts do.
LEMMA SchedulerType == ASSUME Typed, NEW i \in Instances, Scheduler(i) PROVE Typed'
<1> USE DEF Typed
<1>0. "allowance" \in Jobs /\ "maturity" \in Jobs
  BY DEF Jobs
<1>1. ASSUME NEW j \in Jobs, Fire(i, j) PROVE Typed'
  <2>1. fired' \in [Instances -> SUBSET Jobs]
    BY <1>1 DEF Fire, TypeOK
  <2>2. CASE UNCHANGED <<lock, run>>
    <3>1. TypeOK'
      BY <1>1, <2>1, <2>2 DEF Fire, TypeOK, accountVars, settingVars
    <3>2. Prepared'
      BY <1>1, <2>2 DEF Fire, Prepared, accountVars
    <3> QED BY <3>1, <3>2
  <2>3. CASE /\ lock' = [lock EXCEPT ![j] = i]
             /\ run' = [run EXCEPT ![i][j] =
                          [stage |-> "loop", todo |-> Found(j), paying |-> None]]
    <3> DEFINE r == [stage |-> "loop", todo |-> Found(j), paying |-> None]
    <3>1. r \in Run
      BY FoundType DEF Run
    <3>2. r.stage # "pay" /\ (j = "maturity" => \A s \in r.todo : plan[s.child] \in SavingsPlan)
      BY FoundType
    <3>3. run' = [run EXCEPT ![i][j] = r]
      BY <2>3
    <3> HIDE DEF r
    <3>4. UNCHANGED <<plan, request>>
      BY <1>1 DEF Fire, accountVars
    <3>5. run' \in [Instances -> [Jobs -> Run]] /\ Prepared'
      BY <3>1, <3>2, <3>3, <3>4, PreparedByRun
    <3>6. lock' \in [Jobs -> {None} \cup Instances]
      BY <2>3 DEF TypeOK
    <3>7. TypeOK'
      BY <1>1, <2>1, <3>5, <3>6 DEF Fire, TypeOK, accountVars, settingVars
    <3> QED BY <3>5, <3>7
  <2> QED BY <1>1, <2>2, <2>3 DEF Fire
<1>2. ASSUME NEW j \in Jobs, Release(i, j) PROVE lock' \in [Jobs -> {None} \cup Instances]
  BY <1>2 DEF Release, TypeOK
<1>3. ASSUME NEW j \in Jobs, run' = [run EXCEPT ![i][j] = Idle], UNCHANGED <<plan, request>>
      PROVE  run' \in [Instances -> [Jobs -> Run]] /\ Prepared'
  BY <1>3, IdleType, PreparedByRun
<1>4. ASSUME NEW j \in Jobs, Finish(i, j) PROVE Typed'
  <2>1. lock' \in [Jobs -> {None} \cup Instances]
    BY <1>2, <1>4 DEF Finish
  <2>2. run' \in [Instances -> [Jobs -> Run]] /\ Prepared'
    BY <1>3, <1>4 DEF Finish, accountVars
  <2>3. TypeOK'
    BY <1>4, <2>1, <2>2 DEF Finish, TypeOK, accountVars, settingVars
  <2> QED BY <2>2, <2>3
<1>5. ASSUME Fault PROVE faults' \in 0..MaxFaults
  BY <1>5, ConstantsAssumption DEF Fault, TypeOK
<1>6. ASSUME Trouble PROVE troubled' \subseteq Days
  BY <1>6 DEF Trouble, TypeOK
<1>7. ASSUME NEW j \in Jobs, JobFails(i, j) PROVE Typed'
  <2>1. lock' \in [Jobs -> {None} \cup Instances]
    BY <1>2, <1>7 DEF JobFails
  <2>2. run' \in [Instances -> [Jobs -> Run]] /\ Prepared'
    BY <1>3, <1>7 DEF JobFails, accountVars
  <2>3. faults' \in 0..MaxFaults /\ troubled' \subseteq Days
    BY <1>5, <1>6, <1>7 DEF JobFails
  <2>4. TypeOK'
    BY <1>7, <2>1, <2>2, <2>3 DEF JobFails, TypeOK, accountVars, settingVars
  <2> QED BY <2>2, <2>4
<1>8. ASSUME Check(i) PROVE Typed'
  <2> DEFINE old == run[i]["allowance"]
  <2>1. old \in Run
    BY <1>0 DEF TypeOK
  <2>2. PICK s \in old.todo :
          run' = [run EXCEPT ![i]["allowance"] =
            IF rows[s.child][ThisMonth] > 0
              THEN [old EXCEPT !.todo = @ \ {s}]
              ELSE [stage |-> "pay", todo |-> old.todo \ {s}, paying |-> Payment(s)]]
    BY <1>8 DEF Check
  <2> DEFINE new == IF rows[s.child][ThisMonth] > 0
                      THEN [old EXCEPT !.todo = @ \ {s}]
                      ELSE [stage |-> "pay", todo |-> old.todo \ {s}, paying |-> Payment(s)]
  <2>3. s \in Entry
    BY <2>1 DEF Run
  <2>4. Payment(s) \in Paying
    BY <2>3, PaymentType
  <2>5. old.stage = "loop"
    BY <1>8 DEF Check
  <2>6. new \in Run /\ (new.stage = "pay" => new.paying \in Paying)
    BY <2>1, <2>4, <2>5 DEF Run, Paying
  <2>7. run' = [run EXCEPT ![i]["allowance"] = new]
    BY <2>2
  <2> HIDE DEF new, old
  <2>8. UNCHANGED <<plan, request>>
    BY <1>8 DEF Check, accountVars
  <2>9. run' \in [Instances -> [Jobs -> Run]] /\ Prepared'
    BY <1>0, <2>6, <2>7, <2>8, PreparedByRun
  <2>10. TypeOK'
    BY <1>8, <2>9 DEF Check, TypeOK, accountVars, settingVars
  <2> QED BY <2>9, <2>10
<1>9. ASSUME Pay(i) PROVE Typed'
  <2> DEFINE old == run[i]["allowance"]
             p == run[i]["allowance"].paying
             new == [old EXCEPT !.stage = "loop", !.paying = None]
  <2>1. old \in Run /\ p \in Paying
    <3>1. old \in Run
      BY <1>0, AccountTypes
    <3>2. old.stage = "pay"
      BY <1>9 DEF Pay
    <3> QED BY <1>0, <3>1, <3>2 DEF Prepared
  <2>2. p.child \in Children /\ p.amount \in Int /\ p.monthly \in Int
    BY <2>1 DEF Paying
  <2>3. new \in Run /\ new.stage # "pay"
    BY <2>1 DEF Run
  <2>4. run' = [run EXCEPT ![i]["allowance"] = new]
    BY <1>0, <1>9 DEF Pay, TypeOK
  <2>5. UNCHANGED <<plan, request>>
    BY <1>9 DEF Pay
  <2> HIDE DEF new, old
  <2>6. run' \in [Instances -> [Jobs -> Run]] /\ Prepared'
    BY <1>0, <2>3, <2>4, <2>5, PreparedByRun
  <2>7. ThisMonth \in Months
    BY CalendarType DEF TypeOK, ThisMonth
  <2>8. rows' \in [Children -> [Months -> Nat]]
    <3>1. rows' = [rows EXCEPT ![p.child][ThisMonth] = @ + 1]
      BY <1>9 DEF Pay
    <3> HIDE DEF p
    <3> QED BY <2>2, <2>7, <3>1, AccountTypes
  <2>9. auto' \in [Children -> [Months -> Nat]]
    <3>1. auto' = [auto EXCEPT ![p.child][ThisMonth] = @ + 1]
      BY <1>9 DEF Pay
    <3> HIDE DEF p
    <3> QED BY <2>2, <2>7, <3>1, AccountTypes
  <2>10. /\ balance' \in [Children -> Int] /\ savings' \in [Children -> Int]
         /\ deposited' \in [Children -> Int]
    <3>1. /\ balance' = [balance EXCEPT ![p.child] = @ + p.amount - p.monthly]
          /\ savings' = [savings EXCEPT ![p.child] = @ + p.monthly]
          /\ deposited' = [deposited EXCEPT ![p.child] = @ + p.monthly]
      BY <1>9 DEF Pay
    <3> HIDE DEF p
    <3>2. balance' \in [Children -> Int]
      <4>1. balance[p.child] + p.amount - p.monthly \in Int
        BY <2>2, AccountTypes
      <4> QED BY <2>2, <3>1, <4>1, AccountTypes, PointsUpdate
    <3>3. savings' \in [Children -> Int]
      <4>1. savings[p.child] + p.monthly \in Int
        BY <2>2, AccountTypes
      <4> QED BY <2>2, <3>1, <4>1, AccountTypes, PointsUpdate
    <3>4. deposited' \in [Children -> Int]
      <4>1. deposited[p.child] + p.monthly \in Int
        BY <2>2, AccountTypes
      <4> QED BY <2>2, <3>1, <4>1, AccountTypes, PointsUpdate
    <3> QED BY <3>2, <3>3, <3>4
  <2>11. mixed' \subseteq Children /\ short' \subseteq Children
    <3>1. mixed' \subseteq mixed \cup {p.child} /\ short' \subseteq short \cup {p.child}
      BY <1>9 DEF Pay
    <3> HIDE DEF p
    <3> QED BY <2>2, <3>1, AccountTypes
  <2>12. TypeOK'
    BY <1>9, <2>6, <2>8, <2>9, <2>10, <2>11 DEF Pay, TypeOK, settingVars
  <2> QED BY <2>6, <2>12
<1>10. ASSUME Mature(i) PROVE Typed'
  <2> DEFINE old == run[i]["maturity"]
  <2>1. old \in Run
    BY <1>0 DEF TypeOK
  <2>2. PICK s \in old.todo :
          /\ PayBack(s.child, s.amount, plan[s.child].terms.interest, "MATURED")
          /\ run' = [run EXCEPT ![i]["maturity"].todo = @ \ {s}]
    BY <1>10 DEF Mature
  <2>3. s.child \in Children /\ s.amount \in Int
    BY <2>1 DEF Run, Entry
  <2>4. plan[s.child] \in SavingsPlan
    BY DEF Prepared
  <2>5. plan[s.child].terms.interest \in Int
    BY <2>4, FieldTypes DEF SavingsPlan
  <2>6. /\ balance' \in [Children -> Int] /\ savings' \in [Children -> Int]
        /\ plan' \in [Children -> {None} \cup SavingsPlan]
        /\ returned' \in [Children -> Int]
        /\ mixed' \subseteq Children
        /\ \A c \in Children : plan[c] \in SavingsPlan => plan'[c] \in SavingsPlan
    BY <2>2, <2>3, <2>4, <2>5, PayBackType
  <2> DEFINE new == [old EXCEPT !.todo = @ \ {s}]
  <2>7. new \in Run /\ new.todo \subseteq old.todo
    BY <2>1 DEF Run
  <2>8. run' = [run EXCEPT ![i]["maturity"] = new]
    BY <2>2
  <2> HIDE DEF new
  <2>9. /\ run' \in [Instances -> [Jobs -> Run]]
        /\ run'[i]["maturity"] = new
        /\ \A n \in Instances, m \in Jobs : n # i \/ m # "maturity" => run'[n][m] = run[n][m]
    <3>1. TypeOK /\ "maturity" \in Jobs /\ SetRun(i, "maturity", new)
      BY <1>0, <2>8 DEF SetRun
    <3> QED BY <2>7, <3>1, RunUpdate
  <2>10. \A n \in Instances : run'[n]["maturity"].todo \subseteq run[n]["maturity"].todo
    BY <1>0, <2>7, <2>9
  <2>11. \A n \in Instances : run'[n]["allowance"] = run[n]["allowance"]
    BY <1>0, <2>9
  <2>12. request' = request
    BY <1>10 DEF Mature
  <2>13. ASSUME NEW n \in Instances, NEW x \in run[n]["maturity"].todo
         PROVE  x.child \in Children
    BY <1>0 DEF TypeOK, Run, Entry
  <2>14. Prepared'
    BY <2>6, <2>10, <2>11, <2>12, <2>13, RequestKinds DEF Prepared
  <2>15. TypeOK'
    BY <1>10, <2>6, <2>9 DEF Mature, TypeOK, settingVars
  <2> QED BY <2>14, <2>15
<1>11. ASSUME Crash(i) PROVE Typed'
  <2>1. \A n \in Instances : run'[n] = IF n = i THEN [j \in Jobs |-> Idle] ELSE run[n]
    BY <1>11 DEF Crash, TypeOK
  <2>2. run' \in [Instances -> [Jobs -> Run]]
    BY <1>11, IdleType DEF Crash, TypeOK
  <2>3. Prepared'
    BY <1>0, <1>11, <2>1, IdleType DEF Crash, Prepared, accountVars
  <2>4. faults' \in 0..MaxFaults /\ troubled' \subseteq Days
    BY <1>5, <1>6, <1>11 DEF Crash
  <2>5. TypeOK'
    BY <1>11, <2>2, <2>4 DEF Crash, TypeOK, accountVars, settingVars
  <2> QED BY <2>3, <2>5
<1>12. ASSUME Boot(i) PROVE Typed'
  <2>1. TypeOK'
    BY <1>12 DEF Boot, TypeOK, accountVars, settingVars
  <2>2. Prepared'
    BY <1>12 DEF Boot, Prepared, accountVars
  <2> QED BY <2>1, <2>2
<1> QED
  BY <1>1, <1>4, <1>7, <1>8, <1>9, <1>10, <1>11, <1>12 DEF Scheduler

\* Every step keeps every variable's type, and what was prepared.
LEMMA TypeStep == Typed /\ [Next]_vars => Typed'
<1> SUFFICES ASSUME Typed, [Next]_vars PROVE Typed'
  OBVIOUS
<1>1. ASSUME NEW j \in Jobs, LockExpires(j) PROVE Typed'
  <2>1. lock' \in [Jobs -> {None} \cup Instances]
    BY <1>1 DEF LockExpires, Typed, TypeOK
  <2>2. faults' \in 0..MaxFaults /\ troubled' \subseteq Days /\ overran' \in Nat
    BY <1>1, ConstantsAssumption DEF LockExpires, Fault, Trouble, Typed, TypeOK
  <2>3. TypeOK'
    BY <1>1, <2>1, <2>2 DEF LockExpires, Typed, TypeOK, accountVars, settingVars
  <2>4. Prepared'
    BY <1>1 DEF LockExpires, Typed, Prepared, accountVars
  <2> QED BY <2>3, <2>4 DEF Typed
<1>2. CASE DayPasses
  <2>1. today' \in Days
    BY <1>2 DEF DayPasses, Typed, TypeOK, Days
  <2>2. troubled' \subseteq Days
    BY <1>2, <2>1 DEF DayPasses, Typed, TypeOK
  <2>3. fired' \in [Instances -> SUBSET Jobs]
    BY <1>2 DEF DayPasses
  <2>4. TypeOK'
    BY <1>2, <2>1, <2>2, <2>3 DEF DayPasses, Typed, TypeOK, accountVars, settingVars
  <2>5. Prepared'
    BY <1>2 DEF DayPasses, Typed, Prepared, accountVars
  <2> QED BY <2>4, <2>5 DEF Typed
<1>3. CASE UNCHANGED vars
  <2>1. TypeOK'
    BY <1>3 DEF vars, Typed, TypeOK, accountVars, settingVars, jobVars
  <2>2. Prepared'
    BY <1>3 DEF vars, Typed, Prepared, accountVars, jobVars
  <2> QED BY <2>1, <2>2 DEF Typed
<1> QED BY <1>1, <1>2, <1>3, ParentsType, SchedulerType DEF Next

\* In the beginning everything is well-typed and nothing is prepared.
LEMMA TypeInit == Init => Typed
<1> SUFFICES ASSUME Init PROVE Typed
  OBVIOUS
<1>1. 1 \in Days /\ 0 \in 0..Len(Calendar)
  <2>1. Calendar \in Seq([month : Nat, day : Nat, last : Nat]) /\ Calendar # << >>
    BY ConstantsAssumption
  <2>2. Len(Calendar) \in Nat /\ Len(Calendar) # 0
    BY <2>1, EmptySeq, LenProperties
  <2> QED BY <2>2 DEF Days
<1>2. \A n \in Instances, j \in Jobs : run[n][j] = Idle
  BY DEF Init
<1>3. run \in [Instances -> [Jobs -> Run]]
  BY IdleType DEF Init
<1>4. settings \in [Children -> SUBSET Settings]
  BY DEF Init
<1>5. TypeOK
  BY <1>1, <1>3, <1>4, ConstantsAssumption DEF Init, TypeOK
<1>6. Prepared
  BY <1>2, IdleType DEF Init, Prepared, Jobs
<1> QED BY <1>5, <1>6 DEF Typed

\* Every variable keeps its type, for every value of the constants.
THEOREM TypeCorrect == Spec => []TypeOK
<1>1. Typed => TypeOK
  BY DEF Typed
<1> QED BY <1>1, TypeInit, TypeStep, PTL DEF Spec

-----------------------------------------------------------------------------
(* The job pays once a month.                                              *)

\* A run of the job that pays has the lock.
OneRun ==
  overran = 0 =>
    \A i \in Instances : run[i]["allowance"].stage # "idle" => lock["allowance"] = i

\* Every allowance the job has paid is one of the rows it looks for.
PaidHasRow == \A k \in Children, m \in Months : auto[k][m] <= rows[k][m]

\* Who is about to be paid has not been paid this month.
PayingIsFirst ==
  overran = 0 =>
    \A i \in Instances :
      run[i]["allowance"].stage = "pay" =>
        auto[run[i]["allowance"].paying.child][ThisMonth] = 0

PayInv == Typed /\ OneRun /\ PaidHasRow /\ PayingIsFirst /\ AllowanceOnce

\* No instance is None.
LEMMA NoneIsNoInstance == \A i \in Instances : i # None
  BY ConstantsAssumption

\* What the invariant speaks of, apart from the locks and rows it names.
LEMMA PayInvKept ==
  ASSUME PayInv, Typed', UNCHANGED <<today, lock, overran, auto>>,
         \A i \in Instances : run'[i]["allowance"] = run[i]["allowance"],
         PaidHasRow'
  PROVE  PayInv'
  BY DEF PayInv, OneRun, PayingIsFirst, AllowanceOnce, ThisMonth

\* Runs that end, or are gone, leave the invariant, when no other run loses its lock.
LEMMA PayInvFewerRuns ==
  ASSUME PayInv, Typed', UNCHANGED <<today, auto, rows>>, overran' = overran,
         \A i \in Instances :
           run'[i]["allowance"].stage # "idle" =>
             /\ run'[i]["allowance"] = run[i]["allowance"]
             /\ lock["allowance"] = i => lock'["allowance"] = i
  PROVE  PayInv'
  BY DEF PayInv, OneRun, PaidHasRow, PayingIsFirst, AllowanceOnce, ThisMonth

\* What parents do leaves the invariant: rows may be added.
LEMMA PayInvParents == ASSUME PayInv, Typed', Parents PROVE PayInv'
<1>1. UNCHANGED <<today, lock, overran, auto, run>>
  BY DEF Parents, TransactionRead, AllowanceRead, OpenSavings, CancelRead,
         TransactionWrite, AllowanceWrite, CancelWrite, jobVars
<1>2. PaidHasRow'
  <2>1. CASE \E h \in Handlers : TransactionWrite(h)
    <3>1. PICK h \in Handlers : TransactionWrite(h)
      BY <2>1
    <3>2. /\ rows \in [Children -> [Months -> Nat]] /\ auto \in [Children -> [Months -> Nat]]
          /\ ThisMonth \in Months
      BY CalendarType DEF PayInv, Typed, TypeOK, ThisMonth
    <3>3. request[h].child \in Children
      BY <3>1, RequestKinds DEF TransactionWrite, PayInv, Typed
    <3>4. \A k \in Children, m \in Months : rows'[k][m] >= rows[k][m]
      <4>1. CASE rows' = rows
        BY <4>1, <3>2
      <4>2. CASE rows' = [rows EXCEPT ![request[h].child][ThisMonth] = @ + 1]
        BY <4>2, <3>2, <3>3
      <4> QED BY <3>1, <4>1, <4>2 DEF TransactionWrite
    <3>5. rows' \in [Children -> [Months -> Nat]]
      BY DEF Typed, TypeOK
    <3>6. ASSUME NEW k \in Children, NEW m \in Months PROVE auto'[k][m] <= rows'[k][m]
      <4>1. auto[k][m] <= rows[k][m]
        BY DEF PayInv, PaidHasRow
      <4>2. auto[k][m] \in Nat /\ rows[k][m] \in Nat /\ rows'[k][m] \in Nat
        BY <3>2, <3>5
      <4> QED BY <1>1, <3>4, <4>1, <4>2
    <3> QED BY <3>6 DEF PaidHasRow
  <2>2. CASE ~\E h \in Handlers : TransactionWrite(h)
    <3>1. rows' = rows
      BY <2>2 DEF Parents, TransactionRead, AllowanceRead, OpenSavings, CancelRead,
                  AllowanceWrite, CancelWrite
    <3> QED BY <1>1, <3>1 DEF PayInv, PaidHasRow
  <2> QED BY <2>1, <2>2
<1> QED BY <1>1, <1>2, PayInvKept

\* What the scheduler of an instance does leaves the invariant.
LEMMA PayInvScheduler ==
  ASSUME PayInv, Typed', NEW i \in Instances, Scheduler(i)
  PROVE  PayInv'
<1>0. "allowance" \in Jobs /\ "maturity" \in Jobs /\ "allowance" # "maturity"
  BY DEF Jobs
<1>a. /\ TypeOK /\ ThisMonth \in Months
      /\ rows \in [Children -> [Months -> Nat]] /\ auto \in [Children -> [Months -> Nat]]
  BY CalendarType DEF PayInv, Typed, TypeOK, ThisMonth
<1>1. ASSUME NEW j \in Jobs, Fire(i, j) PROVE PayInv'
  <2>1. UNCHANGED <<today, auto, rows, overran>>
    BY <1>1 DEF Fire
  <2>2. CASE UNCHANGED <<lock, run>> \/ j = "maturity"
    <3>1. lock'["allowance"] = lock["allowance"]
      BY <1>0, <1>1, <1>a, <2>2 DEF Fire, TypeOK
    <3>2. \A n \in Instances : run'[n]["allowance"] = run[n]["allowance"]
      <4>1. CASE run' = run
        BY <4>1
      <4>2. CASE run' = [run EXCEPT ![i]["maturity"] =
                           [stage |-> "loop", todo |-> Found(j), paying |-> None]]
        BY <1>0, <1>a, <4>2 DEF TypeOK
      <4> QED BY <1>1, <2>2, <4>1, <4>2 DEF Fire
    <3> QED BY <2>1, <3>1, <3>2, PayInvFewerRuns
  <2>3. CASE ~UNCHANGED <<lock, run>> /\ j = "allowance"
    <3>1. /\ lock["allowance"] = None
          /\ lock' = [lock EXCEPT !["allowance"] = i]
          /\ run' = [run EXCEPT ![i]["allowance"] =
                       [stage |-> "loop", todo |-> Found(j), paying |-> None]]
      BY <1>1, <2>3 DEF Fire
    <3>2. /\ lock'["allowance"] = i /\ run'[i]["allowance"].stage = "loop"
          /\ \A n \in Instances : n # i => run'[n]["allowance"] = run[n]["allowance"]
      BY <1>0, <1>a, <3>1 DEF TypeOK
    <3>3. ASSUME overran = 0, NEW n \in Instances, n # i
          PROVE  run'[n]["allowance"].stage = "idle"
      BY <3>1, <3>2, <3>3, NoneIsNoInstance DEF PayInv, OneRun
    <3>4. OneRun' /\ PayingIsFirst'
      BY <2>1, <3>2, <3>3 DEF OneRun, PayingIsFirst
    <3> QED BY <2>1, <3>4 DEF PayInv, PaidHasRow, AllowanceOnce
  <2> QED BY <2>2, <2>3 DEF Jobs
<1>2. ASSUME NEW j \in Jobs, run' = [run EXCEPT ![i][j] = Idle], Release(i, j),
             UNCHANGED <<today, auto, rows, overran>>
      PROVE  PayInv'
  <2>1. ASSUME NEW n \in Instances, run'[n]["allowance"].stage # "idle"
        PROVE  /\ run'[n]["allowance"] = run[n]["allowance"]
               /\ lock["allowance"] = n => lock'["allowance"] = n
    <3>1. run'[n]["allowance"] = IF n = i /\ j = "allowance" THEN Idle
                                                              ELSE run[n]["allowance"]
      BY <1>0, <1>2, <1>a DEF TypeOK
    <3>2. n # i \/ j # "allowance"
      BY <2>1, <3>1, IdleType
    <3>3. lock["allowance"] = n => lock'["allowance"] = n
      BY <1>0, <1>2, <1>a, <3>2 DEF Release, TypeOK
    <3> QED BY <3>1, <3>2, <3>3
  <2> QED BY <1>2, <2>1, PayInvFewerRuns
<1>3. ASSUME NEW j \in Jobs, Finish(i, j) PROVE PayInv'
  BY <1>2, <1>3 DEF Finish
<1>4. ASSUME NEW j \in Jobs, JobFails(i, j) PROVE PayInv'
  BY <1>2, <1>4 DEF JobFails
<1>5. ASSUME Check(i) PROVE PayInv'
  <2> DEFINE old == run[i]["allowance"]
  <2>1. UNCHANGED <<today, lock, overran, auto, rows>> /\ old.stage = "loop"
    BY <1>5 DEF Check
  <2>2. old \in Run
    BY <1>0, <1>a DEF TypeOK
  <2>3. PICK s \in old.todo :
          run' = [run EXCEPT ![i]["allowance"] =
            IF rows[s.child][ThisMonth] > 0
              THEN [old EXCEPT !.todo = @ \ {s}]
              ELSE [stage |-> "pay", todo |-> old.todo \ {s}, paying |-> Payment(s)]]
    BY <1>5 DEF Check
  <2> DEFINE new == run'[i]["allowance"]
  <2>4. /\ new = IF rows[s.child][ThisMonth] > 0
                   THEN [old EXCEPT !.todo = @ \ {s}]
                   ELSE [stage |-> "pay", todo |-> old.todo \ {s}, paying |-> Payment(s)]
        /\ \A n \in Instances : n # i => run'[n]["allowance"] = run[n]["allowance"]
    BY <1>0, <1>a, <2>3 DEF TypeOK
  <2>5. s.child \in Children /\ Payment(s).child = s.child
    BY <2>2 DEF Run, Entry, Payment
  <2>6. ASSUME new.stage = "pay" PROVE auto[new.paying.child][ThisMonth] = 0
    <3>1. ~(rows[s.child][ThisMonth] > 0) /\ new.paying = Payment(s)
      <4>1. CASE rows[s.child][ThisMonth] > 0
        <5>1. new.stage = old.stage
          BY <2>2, <2>4, <4>1 DEF Run
        <5> QED BY <2>1, <2>6, <5>1
      <4>2. CASE ~(rows[s.child][ThisMonth] > 0)
        BY <2>4, <4>2
      <4> QED BY <4>1, <4>2
    <3>2. rows[s.child][ThisMonth] \in Nat /\ auto[s.child][ThisMonth] \in Nat
      BY <1>a, <2>5
    <3>3. auto[s.child][ThisMonth] <= rows[s.child][ThisMonth]
      BY <1>a, <2>5 DEF PayInv, PaidHasRow
    <3> QED BY <2>5, <3>1, <3>2, <3>3
  <2> HIDE DEF new
  <2>7. OneRun' /\ PayingIsFirst'
    BY <2>1, <2>4, <2>6 DEF PayInv, OneRun, PayingIsFirst, ThisMonth, new
  <2> QED BY <2>1, <2>7 DEF PayInv, PaidHasRow, AllowanceOnce
<1>6. ASSUME Pay(i) PROVE PayInv'
  <2> DEFINE k == run[i]["allowance"].paying.child
  <2>1. k \in Children /\ run[i]["allowance"].stage = "pay"
    BY <1>6 DEF Pay, PayInv, Typed, Prepared, Paying
  <2>2. /\ auto' = [auto EXCEPT ![k][ThisMonth] = @ + 1]
        /\ rows' = [rows EXCEPT ![k][ThisMonth] = @ + 1]
        /\ UNCHANGED <<today, lock, overran>>
    BY <1>6 DEF Pay
  <2>3. /\ run'[i]["allowance"].stage = "loop"
        /\ \A n \in Instances : n # i => run'[n]["allowance"] = run[n]["allowance"]
    <3>1. run[i]["allowance"] \in Run
      BY <1>0, <1>a DEF TypeOK
    <3>2. run' = [run EXCEPT ![i]["allowance"].stage = "loop",
                             ![i]["allowance"].paying = None]
      BY <1>6 DEF Pay
    <3> QED BY <1>0, <1>a, <3>1, <3>2 DEF TypeOK, Run
  <2>4. overran = 0 => auto[k][ThisMonth] = 0
    BY <2>1 DEF PayInv, PayingIsFirst
  <2>5. ASSUME overran = 0, NEW n \in Instances, n # i
        PROVE  run[n]["allowance"].stage = "idle"
    BY <2>1, <2>5 DEF PayInv, OneRun
  <2> HIDE DEF k
  <2>6. PaidHasRow'
    <3> SUFFICES ASSUME NEW c \in Children, NEW m \in Months PROVE auto'[c][m] <= rows'[c][m]
      BY DEF PaidHasRow
    <3>1. auto[c][m] <= rows[c][m] /\ auto[c][m] \in Nat /\ rows[c][m] \in Nat
      BY <1>a DEF PayInv, PaidHasRow
    <3>2. CASE c = k /\ m = ThisMonth
      BY <1>a, <2>1, <2>2, <3>1, <3>2
    <3>3. CASE ~(c = k /\ m = ThisMonth)
      BY <1>a, <2>1, <2>2, <3>1, <3>3
    <3> QED BY <3>2, <3>3
  <2>7. AllowanceOnce'
    <3> SUFFICES ASSUME overran = 0, NEW c \in Children, NEW m \in Months PROVE auto'[c][m] <= 1
      BY <2>2 DEF AllowanceOnce
    <3>1. CASE c = k /\ m = ThisMonth
      BY <1>a, <2>1, <2>2, <2>4, <3>1
    <3>2. CASE ~(c = k /\ m = ThisMonth)
      <4>1. auto'[c][m] = auto[c][m]
        BY <1>a, <2>1, <2>2, <3>2
      <4> QED BY <4>1 DEF PayInv, AllowanceOnce
    <3> QED BY <3>1, <3>2
  <2>8. OneRun' /\ PayingIsFirst'
    <3>1. OneRun'
      BY <2>1, <2>2, <2>3, <2>5 DEF PayInv, OneRun
    <3>2. ASSUME overran = 0, NEW n \in Instances PROVE run'[n]["allowance"].stage # "pay"
      BY <2>3, <2>5, <3>2
    <3>3. PayingIsFirst'
      BY <2>2, <3>2 DEF PayingIsFirst
    <3> QED BY <3>1, <3>3
  <2> QED BY <2>6, <2>7, <2>8 DEF PayInv
<1>7. ASSUME Mature(i) PROVE PayInv'
  <2>1. \A n \in Instances : run'[n]["allowance"] = run[n]["allowance"]
    BY <1>0, <1>7, <1>a DEF Mature, TypeOK
  <2>2. UNCHANGED <<today, lock, overran, auto, rows>>
    BY <1>7 DEF Mature
  <2>3. PaidHasRow'
    BY <2>2 DEF PayInv, PaidHasRow
  <2> QED BY <2>1, <2>2, <2>3, PayInvKept
<1>8. ASSUME Crash(i) PROVE PayInv'
  <2>1. UNCHANGED <<today, lock, overran, auto, rows>>
    BY <1>8 DEF Crash
  <2>2. \A n \in Instances : run'[n] = IF n = i THEN [j \in Jobs |-> Idle] ELSE run[n]
    BY <1>8, <1>a DEF Crash, TypeOK
  <2>3. \A n \in Instances :
          run'[n]["allowance"].stage # "idle" => run'[n]["allowance"] = run[n]["allowance"]
    BY <1>0, <2>2, IdleType
  <2> QED BY <2>1, <2>3, PayInvFewerRuns
<1>9. ASSUME Boot(i) PROVE PayInv'
  <2>1. UNCHANGED <<today, lock, overran, auto, rows, run>>
    BY <1>9 DEF Boot
  <2>2. PaidHasRow'
    BY <2>1 DEF PayInv, PaidHasRow
  <2> QED BY <2>1, <2>2, PayInvKept
<1> QED
  BY <1>1, <1>3, <1>4, <1>5, <1>6, <1>7, <1>8, <1>9 DEF Scheduler

\* Every step leaves the invariant.
LEMMA PayInvStep == PayInv /\ [Next]_vars => PayInv'
<1> SUFFICES ASSUME PayInv, [Next]_vars PROVE PayInv'
  OBVIOUS
<1>0. Typed'
  BY TypeStep DEF PayInv
<1>1. ASSUME NEW j \in Jobs, LockExpires(j) PROVE PayInv'
  <2>1. UNCHANGED <<today, auto, rows, run>> /\ lock' = [lock EXCEPT ![j] = None]
    BY <1>1 DEF LockExpires
  <2>2. CASE /\ run[lock[j]][j].stage = "idle"
             /\ UNCHANGED <<faults, troubled, overran>>
    <3>1. ASSUME NEW n \in Instances, run[n]["allowance"].stage # "idle",
                 lock["allowance"] = n
          PROVE  lock'["allowance"] = n
      BY <2>1, <2>2, <3>1 DEF PayInv, Typed, TypeOK, Jobs
    <3> QED BY <1>0, <2>1, <2>2, <3>1, PayInvFewerRuns
  <2>3. CASE overran' = overran + 1
    <3>1. overran' # 0
      BY <2>3 DEF PayInv, Typed, TypeOK
    <3> QED BY <1>0, <2>1, <3>1 DEF PayInv, OneRun, PaidHasRow, PayingIsFirst, AllowanceOnce
  <2> QED BY <1>1, <2>2, <2>3 DEF LockExpires
<1>2. CASE DayPasses
  <2>1. \A i \in Instances : run[i]["allowance"].stage = "idle"
    BY <1>2 DEF DayPasses, Jobs
  <2>2. UNCHANGED <<auto, rows, run, overran>>
    BY <1>2 DEF DayPasses
  <2> QED BY <1>0, <2>1, <2>2 DEF PayInv, OneRun, PaidHasRow, PayingIsFirst, AllowanceOnce
<1>3. CASE UNCHANGED vars
  <2>1. UNCHANGED <<today, lock, overran, auto, rows, run>>
    BY <1>3 DEF vars, jobVars
  <2>2. PaidHasRow'
    BY <2>1 DEF PayInv, PaidHasRow
  <2> QED BY <1>0, <2>1, <2>2, PayInvKept
<1> QED BY <1>0, <1>1, <1>2, <1>3, PayInvParents, PayInvScheduler DEF Next

\* The job pays a child once a month as long as no run outlives its lock: the
\* lock keeps runs apart, and what the first one pays the next one finds
\* (dispatchAllowance).
THEOREM AllowanceOnceHolds == Spec => []AllowanceOnce
<1>1. Init => PayInv
  <2> SUFFICES ASSUME Init PROVE PayInv
    OBVIOUS
  <2>1. \A i \in Instances : run[i]["allowance"] = Idle
    BY DEF Init, Jobs
  <2>2. \A k \in Children, m \in Months : auto[k][m] = 0 /\ rows[k][m] = 0
    BY DEF Init
  <2> QED BY <2>1, <2>2, TypeInit, IdleType
          DEF PayInv, OneRun, PaidHasRow, PayingIsFirst, AllowanceOnce
<1>2. PayInv => AllowanceOnce
  BY DEF PayInv
<1> QED BY <1>1, <1>2, PayInvStep, PTL DEF Spec

-----------------------------------------------------------------------------
(* No point is lost, no balance is overdrawn, no setting is forgotten.      *)

SavingsAreNatural == \A k \in Children : savings[k] >= 0

\* What a run is about to pay puts nothing into a plan it has seen inactive.
PaymentGrounds ==
  \A i \in Instances :
    run[i]["allowance"].stage = "pay" =>
      /\ run[i]["allowance"].paying.monthly >= 0
      /\ ~run[i]["allowance"].paying.active => run[i]["allowance"].paying.monthly = 0

\* A transaction that waits was covered by the balance that was read.
TransactionGrounds ==
  \A h \in Handlers :
    request[h] # None /\ request[h].op = "transaction" =>
      request[h].read + Delta(request[h].type, request[h].amount) >= 0

PointsKept == SavingsAreNatural /\ SavingsKept /\ NoOverdraft
Grounds == PaymentGrounds /\ TransactionGrounds

AccountInv == Typed /\ PointsKept /\ Grounds /\ HistoryKept

\* A step that writes nothing on the accounts.
LEMMA PointsUnchanged ==
  ASSUME PointsKept, UNCHANGED accountVars
  PROVE  PointsKept'
  BY DEF PointsKept, SavingsAreNatural, SavingsKept, NoOverdraft, IsActive, accountVars

LEMMA HistoryUnchanged ==
  ASSUME HistoryKept, UNCHANGED settingVars, mixed \subseteq mixed'
  PROVE  HistoryKept'
  BY DEF HistoryKept, settingVars

\* Paying back a plan keeps the points, on an account that was not changed.
LEMMA PayBackKeepsPoints ==
  ASSUME TypeOK, PointsKept, NEW k \in Children, NEW p \in Int, NEW n \in Nat, NEW s,
         plan[k] \in SavingsPlan, PayBack(k, p, n, s), UNCHANGED <<deposited, short>>
  PROVE  PointsKept' /\ mixed \subseteq mixed'
<1>1. \A c \in Children :
        /\ balance'[c] = IF c = k THEN balance[c] + p + n ELSE balance[c]
        /\ savings'[c] = IF c = k THEN 0 ELSE savings[c]
        /\ returned'[c] = IF c = k THEN returned[c] + p ELSE returned[c]
        /\ c # k => plan'[c] = plan[c]
  BY DEF PayBack, TypeOK
<1>2. k \notin mixed' => savings[k] = p /\ IsActive(k) /\ k \notin mixed
  BY DEF PayBack
<1>3. mixed' \subseteq mixed \cup {k} /\ mixed \subseteq mixed'
  BY DEF PayBack
<1>4. \A c \in Children : /\ balance[c] \in Int /\ savings[c] \in Int
                          /\ returned[c] \in Int /\ deposited[c] \in Int
  BY DEF TypeOK
<1>5. SavingsAreNatural'
  BY <1>1, <1>4 DEF PointsKept, SavingsAreNatural
<1>6. SavingsKept'
  <2> SUFFICES ASSUME NEW c \in Children, c \notin mixed'
               PROVE  /\ deposited'[c] = returned'[c] + savings'[c]
                      /\ savings'[c] # 0 => IsActive(c)'
    BY DEF SavingsKept
  <2>1. c \notin mixed /\ deposited[c] = returned[c] + savings[c]
    BY <1>3 DEF PointsKept, SavingsKept
  <2>2. CASE c = k
    BY <1>1, <1>2, <1>4, <2>1, <2>2
  <2>3. CASE c # k
    BY <1>1, <2>1, <2>3 DEF PointsKept, SavingsKept, IsActive
  <2> QED BY <2>2, <2>3
<1>7. NoOverdraft'
  <2> SUFFICES ASSUME NEW c \in Children, c \notin mixed', c \notin short
               PROVE  balance'[c] >= 0
    BY DEF NoOverdraft
  <2>1. c \notin mixed /\ balance[c] >= 0 /\ savings[c] >= 0
    BY <1>3 DEF PointsKept, NoOverdraft, SavingsAreNatural
  <2> QED BY <1>1, <1>2, <1>4, <2>1
<1> QED BY <1>3, <1>5, <1>6, <1>7 DEF PointsKept

\* What parents write on the accounts.
LEMMA PointsParents ==
  ASSUME AccountInv, Parents PROVE PointsKept' /\ mixed \subseteq mixed'
<1> USE DEF AccountInv, Typed
<1>1. CASE UNCHANGED accountVars
  BY <1>1, PointsUnchanged DEF accountVars
<1>2. ASSUME NEW k \in Children, NEW t \in Terms, OpenSavings(k, t)
      PROVE  PointsKept' /\ mixed \subseteq mixed'
  <2>1. UNCHANGED <<balance, savings, deposited, returned, mixed, short>> /\ plan[k] = None
    BY <1>2 DEF OpenSavings
  <2>2. \A c \in Children : c # k => plan'[c] = plan[c]
    BY <1>2 DEF OpenSavings, TypeOK
  <2>3. ~IsActive(k)
    BY <2>1 DEF IsActive
  <2>4. SavingsKept'
    BY <2>1, <2>2, <2>3 DEF PointsKept, SavingsKept, IsActive
  <2> QED BY <2>1, <2>4 DEF PointsKept, SavingsAreNatural, NoOverdraft
<1>3. ASSUME NEW h \in Handlers, TransactionWrite(h)
      PROVE  PointsKept' /\ mixed \subseteq mixed'
  <2> DEFINE k == request[h].child
             d == Delta(request[h].type, request[h].amount)
  <2>1. /\ k \in Children /\ request[h].read \in Int
        /\ request[h].amount \in Nat /\ request[h].type \in {"ALLOWANCE", "ADD", "TAKE"}
    BY <1>3, RequestKinds, ConstantsAssumption DEF TransactionWrite
  <2>2. d \in Int
    BY <2>1 DEF Delta
  <2>3. request[h].read + d >= 0
    BY <1>3 DEF TransactionWrite, Grounds, TransactionGrounds
  <2>4. /\ balance' = [balance EXCEPT ![k] = @ + d]
        /\ UNCHANGED <<savings, plan, deposited, returned, short>>
        /\ mixed' = IF balance[k] # request[h].read THEN mixed \cup {k} ELSE mixed
    BY <1>3 DEF TransactionWrite
  <2> HIDE DEF k, d
  <2>5. mixed \subseteq mixed'
    BY <2>4
  <2>6. SavingsKept' /\ SavingsAreNatural'
    BY <2>4, <2>5 DEF PointsKept, SavingsKept, SavingsAreNatural, IsActive
  <2>7. NoOverdraft'
    <3> SUFFICES ASSUME NEW c \in Children, c \notin mixed', c \notin short
                 PROVE  balance'[c] >= 0
      BY <2>4 DEF NoOverdraft
    <3>1. balance[c] >= 0
      BY <2>5 DEF PointsKept, NoOverdraft
    <3>2. CASE c = k
      BY <2>1, <2>3, <2>4, <3>2 DEF TypeOK
    <3>3. CASE c # k
      BY <2>4, <3>1, <3>3 DEF TypeOK
    <3> QED BY <3>2, <3>3
  <2> QED BY <2>5, <2>6, <2>7 DEF PointsKept
<1>4. ASSUME NEW h \in Handlers, AllowanceWrite(h)
      PROVE  PointsKept' /\ mixed \subseteq mixed'
  <2>1. UNCHANGED <<balance, savings, plan, deposited, returned, short>> /\ mixed \subseteq mixed'
    BY <1>4 DEF AllowanceWrite
  <2> QED BY <2>1 DEF PointsKept, SavingsAreNatural, SavingsKept, NoOverdraft, IsActive
<1>5. ASSUME NEW h \in Handlers, CancelWrite(h)
      PROVE  PointsKept' /\ mixed \subseteq mixed'
  <2>1. /\ request[h].child \in Children /\ request[h].read \in Int
        /\ plan[request[h].child] \in SavingsPlan
    BY <1>5, RequestKinds DEF CancelWrite, Prepared
  <2>2. /\ PayBack(request[h].child, request[h].read, 0, "CANCELLED")
        /\ UNCHANGED <<deposited, short>>
    BY <1>5 DEF CancelWrite
  <2> QED BY <2>1, <2>2, PayBackKeepsPoints
<1> QED
  BY <1>1, <1>2, <1>3, <1>4, <1>5
     DEF Parents, TransactionRead, AllowanceRead, CancelRead

\* What the scheduler of an instance writes on the accounts.
LEMMA PointsScheduler ==
  ASSUME AccountInv, NEW i \in Instances, Scheduler(i)
  PROVE  PointsKept' /\ mixed \subseteq mixed'
<1> USE DEF AccountInv, Typed
<1>1. CASE UNCHANGED accountVars
  BY <1>1, PointsUnchanged DEF accountVars
<1>2. ASSUME Pay(i) PROVE PointsKept' /\ mixed \subseteq mixed'
  <2> DEFINE p == run[i]["allowance"].paying
             k == p.child
  <2>1. /\ k \in Children /\ p.amount \in Int /\ p.monthly \in Int /\ p.active \in BOOLEAN
        /\ p.monthly >= 0 /\ (~p.active => p.monthly = 0)
    BY <1>2 DEF Pay, Prepared, Paying, Grounds, PaymentGrounds
  <2>2. /\ balance' = [balance EXCEPT ![k] = @ + p.amount - p.monthly]
        /\ savings' = [savings EXCEPT ![k] = @ + p.monthly]
        /\ deposited' = [deposited EXCEPT ![k] = @ + p.monthly]
        /\ mixed' = IF IsActive(k) # p.active THEN mixed \cup {k} ELSE mixed
        /\ short' = IF balance[k] + p.amount < p.monthly THEN short \cup {k} ELSE short
        /\ UNCHANGED <<plan, returned>>
    BY <1>2 DEF Pay
  <2> HIDE DEF p
  <2>3. \A c \in Children : /\ balance[c] \in Int /\ savings[c] \in Int
                            /\ returned[c] \in Int /\ deposited[c] \in Int
    BY DEF TypeOK
  <2>4. \A c \in Children :
          /\ balance'[c] = IF c = k THEN balance[c] + p.amount - p.monthly ELSE balance[c]
          /\ savings'[c] = IF c = k THEN savings[c] + p.monthly ELSE savings[c]
          /\ deposited'[c] = IF c = k THEN deposited[c] + p.monthly ELSE deposited[c]
    BY <2>1, <2>2 DEF TypeOK
  <2>5. mixed \subseteq mixed' /\ short \subseteq short'
    BY <2>2
  <2>6. SavingsAreNatural'
    BY <2>1, <2>3, <2>4 DEF PointsKept, SavingsAreNatural
  <2>7. SavingsKept'
    <3> SUFFICES ASSUME NEW c \in Children, c \notin mixed'
                 PROVE  /\ deposited'[c] = returned'[c] + savings'[c]
                        /\ savings'[c] # 0 => IsActive(c)'
      BY DEF SavingsKept
    <3>1. /\ deposited[c] = returned[c] + savings[c]
          /\ savings[c] # 0 => IsActive(c)
      BY <2>5 DEF PointsKept, SavingsKept
    <3>2. IsActive(c)' <=> IsActive(c)
      BY <2>2 DEF IsActive
    <3>3. deposited'[c] = returned'[c] + savings'[c]
      BY <2>1, <2>2, <2>3, <2>4, <3>1
    <3>4. CASE c = k
      <4>1. IsActive(k) = p.active
        BY <2>2, <3>4
      <4> QED BY <2>1, <2>3, <2>4, <3>1, <3>2, <3>3, <3>4, <4>1
    <3>5. CASE c # k
      BY <2>4, <3>1, <3>2, <3>3, <3>5
    <3> QED BY <3>4, <3>5
  <2>8. NoOverdraft'
    <3> SUFFICES ASSUME NEW c \in Children, c \notin mixed', c \notin short'
                 PROVE  balance'[c] >= 0
      BY DEF NoOverdraft
    <3>1. balance[c] >= 0
      BY <2>5 DEF PointsKept, NoOverdraft
    <3>2. c = k => ~(balance[c] + p.amount < p.monthly)
      BY <2>2
    <3> QED BY <2>1, <2>3, <2>4, <3>1, <3>2
  <2> QED BY <2>5, <2>6, <2>7, <2>8 DEF PointsKept
<1>3. ASSUME Mature(i) PROVE PointsKept' /\ mixed \subseteq mixed'
  <2>1. PICK s \in run[i]["maturity"].todo :
          PayBack(s.child, s.amount, plan[s.child].terms.interest, "MATURED")
    BY <1>3 DEF Mature
  <2>2. s.child \in Children /\ s.amount \in Int
    BY DEF TypeOK, Run, Entry, Jobs
  <2>3. plan[s.child] \in SavingsPlan
    BY DEF Prepared
  <2>4. plan[s.child].terms.interest \in Nat
    BY <2>3, FieldTypes DEF SavingsPlan
  <2>5. UNCHANGED <<deposited, short>>
    BY <1>3 DEF Mature
  <2> QED BY <2>1, <2>2, <2>3, <2>4, <2>5, PayBackKeepsPoints
<1> QED
  BY <1>1, <1>2, <1>3 DEF Scheduler, Fire, Finish, JobFails, Check, Crash, Boot

\* The grounds of requests and payments hold until they are written.
LEMMA GroundsStep == ASSUME AccountInv, [Next]_vars PROVE Grounds'
<1> USE DEF AccountInv, Typed
<1>0. "allowance" \in Jobs
  BY DEF Jobs
<1>1. TransactionGrounds'
  <2>1. ASSUME NEW h \in Handlers, NEW k \in Children, NEW t \in {"ALLOWANCE", "ADD", "TAKE"},
               NEW a \in Amounts, TransactionRead(h, k, t, a)
        PROVE  TransactionGrounds'
    <3> DEFINE r == [op |-> "transaction", child |-> k, type |-> t, amount |-> a,
                     read |-> balance[k]]
    <3>1. r.read + Delta(r.type, r.amount) >= 0
      BY <2>1 DEF TransactionRead
    <3>2. Begin(h, r)
      BY <2>1 DEF TransactionRead
    <3> HIDE DEF r
    <3>3. \A n \in Handlers : request'[n] = IF n = h THEN r ELSE request[n]
      BY <3>2 DEF Begin, TypeOK
    <3> QED BY <3>1, <3>3 DEF Grounds, TransactionGrounds
  <2>2. ASSUME NEW h \in Handlers, NEW r, Begin(h, r), r.op # "transaction"
        PROVE  TransactionGrounds'
    <3>1. \A n \in Handlers : request'[n] = IF n = h THEN r ELSE request[n]
      BY <2>2 DEF Begin, TypeOK
    <3> QED BY <2>2, <3>1 DEF Grounds, TransactionGrounds
  <2>3. ASSUME NEW h \in Handlers, End(h) PROVE TransactionGrounds'
    <3>1. \A n \in Handlers : request'[n] = IF n = h THEN None ELSE request[n]
      BY <2>3 DEF End, TypeOK
    <3> QED BY <3>1 DEF Grounds, TransactionGrounds
  <2>4. CASE request' = request
    BY <2>4 DEF Grounds, TransactionGrounds
  <2>5. CASE Parents
    <3>1. ASSUME NEW h \in Handlers, NEW k \in Children, NEW s \in Settings, AllowanceRead(h, k, s)
          PROVE  TransactionGrounds'
      BY <2>2, <3>1 DEF AllowanceRead
    <3>2. ASSUME NEW h \in Handlers, NEW k \in Children, CancelRead(h, k)
          PROVE  TransactionGrounds'
      BY <2>2, <3>2 DEF CancelRead
    <3>3. ASSUME NEW k \in Children, NEW t \in Terms, OpenSavings(k, t)
          PROVE  TransactionGrounds'
      BY <2>4, <3>3 DEF OpenSavings
    <3>4. ASSUME NEW h \in Handlers, TransactionWrite(h) \/ AllowanceWrite(h) \/ CancelWrite(h)
          PROVE  TransactionGrounds'
      BY <2>3, <3>4 DEF TransactionWrite, AllowanceWrite, CancelWrite
    <3> QED BY <2>1, <2>5, <3>1, <3>2, <3>3, <3>4 DEF Parents
  <2>6. CASE ~Parents
    <3>1. ASSUME NEW i \in Instances, Scheduler(i) PROVE request' = request
      <4>1. (\E j \in Jobs : Fire(i, j) \/ Finish(i, j) \/ JobFails(i, j)) => request' = request
        BY DEF Fire, Finish, JobFails
      <4>2. Check(i) \/ Pay(i) \/ Mature(i) => request' = request
        BY DEF Check, Pay, Mature
      <4>3. Crash(i) \/ Boot(i) => request' = request
        BY DEF Crash, Boot
      <4> QED BY <3>1, <4>1, <4>2, <4>3 DEF Scheduler
    <3>2. (\E j \in Jobs : LockExpires(j)) => request' = request
      BY DEF LockExpires
    <3>3. DayPasses \/ UNCHANGED vars => request' = request
      BY DEF DayPasses, vars
    <3> QED BY <2>4, <2>6, <3>1, <3>2, <3>3 DEF Next
  <2> QED BY <2>5, <2>6
<1>2. PaymentGrounds'
  <2>1. ASSUME \A i \in Instances :
                 run'[i]["allowance"].stage = "pay" =>
                   run'[i]["allowance"] = run[i]["allowance"]
        PROVE  PaymentGrounds'
    BY <2>1 DEF Grounds, PaymentGrounds
  <2>2. CASE UNCHANGED run
    BY <2>1, <2>2
  <2>3. ASSUME NEW i \in Instances, NEW j \in Jobs, NEW r, r.stage # "pay",
               run' = [run EXCEPT ![i][j] = r]
        PROVE  PaymentGrounds'
    BY <1>0, <2>1, <2>3 DEF TypeOK
  <2>4. ASSUME NEW i \in Instances, Scheduler(i) PROVE PaymentGrounds'
    <3>1. ASSUME NEW j \in Jobs, Fire(i, j) PROVE PaymentGrounds'
      <4>1. CASE UNCHANGED run
        BY <2>2, <4>1
      <4>2. CASE run' = [run EXCEPT ![i][j] =
                           [stage |-> "loop", todo |-> Found(j), paying |-> None]]
        <5>1. [stage |-> "loop", todo |-> Found(j), paying |-> None].stage # "pay"
          OBVIOUS
        <5> QED BY <2>3, <4>2, <5>1
      <4> QED BY <3>1, <4>1, <4>2 DEF Fire
    <3>2. ASSUME NEW j \in Jobs, Finish(i, j) \/ JobFails(i, j) PROVE PaymentGrounds'
      BY <2>3, <3>2, IdleType DEF Finish, JobFails
    <3>3. ASSUME Check(i) PROVE PaymentGrounds'
      <4> DEFINE old == run[i]["allowance"]
      <4>1. old \in Run /\ old.stage = "loop"
        BY <1>0, <3>3 DEF Check, TypeOK
      <4>2. PICK s \in old.todo :
              run' = [run EXCEPT ![i]["allowance"] =
                IF rows[s.child][ThisMonth] > 0
                  THEN [old EXCEPT !.todo = @ \ {s}]
                  ELSE [stage |-> "pay", todo |-> old.todo \ {s}, paying |-> Payment(s)]]
        BY <3>3 DEF Check
      <4>3. CASE rows[s.child][ThisMonth] > 0
        <5>1. [old EXCEPT !.todo = @ \ {s}].stage # "pay"
          BY <4>1 DEF Run
        <5> QED BY <1>0, <2>3, <4>2, <4>3, <5>1
      <4>4. CASE ~(rows[s.child][ThisMonth] > 0)
        <5>1. s \in Entry
          BY <4>1 DEF Run
        <5>2. /\ Payment(s).active = IsActive(s.child)
              /\ Payment(s).monthly = IF IsActive(s.child) THEN plan[s.child].terms.monthly ELSE 0
          BY DEF Payment
        <5>3. IsActive(s.child) => plan[s.child].terms.monthly \in Nat
          <6>1. IsActive(s.child) => plan[s.child] \in SavingsPlan
            BY <5>1 DEF IsActive, Entry, TypeOK
          <6> QED BY <6>1, FieldTypes DEF SavingsPlan
        <5>4. /\ Payment(s).monthly >= 0
              /\ ~Payment(s).active => Payment(s).monthly = 0
          BY <5>2, <5>3
        <5>5. /\ run'[i]["allowance"].paying = Payment(s)
              /\ \A n \in Instances : n # i => run'[n]["allowance"] = run[n]["allowance"]
          BY <1>0, <4>2, <4>4 DEF TypeOK
        <5> QED BY <5>4, <5>5 DEF Grounds, PaymentGrounds
      <4> QED BY <4>3, <4>4
    <3>4. ASSUME Pay(i) PROVE PaymentGrounds'
      <4>1. run[i]["allowance"] \in Run
        BY <1>0 DEF TypeOK
      <4>2. run' = [run EXCEPT ![i]["allowance"].stage = "loop",
                               ![i]["allowance"].paying = None]
        BY <3>4 DEF Pay
      <4>3. /\ run'[i]["allowance"].stage = "loop"
            /\ \A n \in Instances : n # i => run'[n]["allowance"] = run[n]["allowance"]
        BY <1>0, <4>1, <4>2 DEF TypeOK, Run
      <4> QED BY <2>1, <4>3
    <3>5. ASSUME Mature(i) PROVE PaymentGrounds'
      <4>1. \A n \in Instances : run'[n]["allowance"] = run[n]["allowance"]
        BY <1>0, <3>5 DEF Mature, TypeOK
      <4> QED BY <2>1, <4>1
    <3>6. ASSUME Crash(i) PROVE PaymentGrounds'
      <4>1. \A n \in Instances : run'[n] = IF n = i THEN [j \in Jobs |-> Idle] ELSE run[n]
        BY <3>6 DEF Crash, TypeOK
      <4> QED BY <1>0, <2>1, <4>1, IdleType
    <3>7. ASSUME Boot(i) PROVE PaymentGrounds'
      BY <2>2, <3>7 DEF Boot
    <3> QED BY <2>4, <3>1, <3>2, <3>3, <3>4, <3>5, <3>6, <3>7 DEF Scheduler
  <2>5. CASE ~\E i \in Instances : Scheduler(i)
    <3>1. UNCHANGED run
      BY <2>5 DEF Next, Parents, TransactionRead, AllowanceRead, OpenSavings, CancelRead,
                  TransactionWrite, AllowanceWrite, CancelWrite, LockExpires, DayPasses,
                  vars, jobVars
    <3> QED BY <2>2, <3>1
  <2> QED BY <2>4, <2>5
<1> QED BY <1>1, <1>2 DEF Grounds

\* Settings that are replaced go to the history.
LEMMA HistoryStep ==
  ASSUME AccountInv, [Next]_vars, mixed \subseteq mixed' PROVE HistoryKept'
<1> USE DEF AccountInv, Typed
<1>1. CASE UNCHANGED settingVars
  BY <1>1, HistoryUnchanged
<1>2. ASSUME NEW h \in Handlers, AllowanceWrite(h), ~UNCHANGED settingVars
      PROVE  HistoryKept'
  <2> DEFINE r == request[h]
             k == request[h].child
  <2>1. k \in Children /\ r.read \in {None} \cup Settings /\ r.new \in Settings
    BY <1>2, RequestKinds DEF AllowanceWrite
  <2>2. /\ history' = IF r.read # None THEN [history EXCEPT ![k] = @ \cup {r.read}]
                                       ELSE history
        /\ allowance' = [allowance EXCEPT ![k] = r.new]
        /\ settings' = [settings EXCEPT ![k] = @ \cup {r.new}]
        /\ mixed' = IF allowance[k] # r.read THEN mixed \cup {k} ELSE mixed
    BY <1>2 DEF AllowanceWrite, settingVars
  <2> HIDE DEF r, k
  <2>3. SUFFICES ASSUME NEW c \in Children, c \notin mixed'
                 PROVE  settings'[c] \subseteq history'[c] \cup {allowance'[c]}
    BY DEF HistoryKept
  <2>4. settings[c] \subseteq history[c] \cup {allowance[c]}
    BY <2>3 DEF HistoryKept
  <2>5. CASE c # k
    BY <2>1, <2>2, <2>4, <2>5 DEF TypeOK
  <2>6. CASE c = k
    <3>1. allowance[k] = r.read
      BY <2>2, <2>3, <2>6
    <3>2. settings'[k] = settings[k] \cup {r.new} /\ allowance'[k] = r.new
      BY <2>1, <2>2 DEF TypeOK
    <3>3. CASE r.read = None
      <4>1. settings[k] \subseteq Settings /\ None \notin Settings
        BY <2>1, ConstantsAssumption DEF TypeOK
      <4>2. settings[k] \subseteq history[k] /\ history' = history
        BY <2>2, <2>4, <2>6, <3>1, <3>3, <4>1
      <4> QED BY <2>6, <3>2, <4>2
    <3>4. CASE r.read # None
      <4>1. history'[k] = history[k] \cup {r.read}
        BY <2>1, <2>2, <3>4 DEF TypeOK
      <4> QED BY <2>4, <2>6, <3>1, <3>2, <4>1
    <3> QED BY <3>3, <3>4
  <2> QED BY <2>5, <2>6
<1>3. UNCHANGED settingVars \/ \E h \in Handlers : AllowanceWrite(h)
  <2>1. Parents => UNCHANGED settingVars \/ \E h \in Handlers : AllowanceWrite(h)
    BY DEF Parents, TransactionRead, AllowanceRead, OpenSavings, CancelRead,
           TransactionWrite, CancelWrite
  <2>2. ASSUME NEW i \in Instances, Scheduler(i) PROVE UNCHANGED settingVars
    <3>1. (\E j \in Jobs : Fire(i, j) \/ Finish(i, j) \/ JobFails(i, j)) => UNCHANGED settingVars
      BY DEF Fire, Finish, JobFails
    <3>2. Check(i) \/ Pay(i) \/ Mature(i) => UNCHANGED settingVars
      BY DEF Check, Pay, Mature
    <3>3. Crash(i) \/ Boot(i) => UNCHANGED settingVars
      BY DEF Crash, Boot
    <3> QED BY <2>2, <3>1, <3>2, <3>3 DEF Scheduler
  <2>3. (\E j \in Jobs : LockExpires(j)) => UNCHANGED settingVars
    BY DEF LockExpires
  <2>4. DayPasses => UNCHANGED settingVars
    BY DEF DayPasses
  <2>5. UNCHANGED vars => UNCHANGED settingVars
    BY DEF vars
  <2> QED BY <2>1, <2>2, <2>3, <2>4, <2>5 DEF Next
<1> QED BY <1>1, <1>2, <1>3

\* Every step leaves the invariant of the accounts.
LEMMA AccountStep == AccountInv /\ [Next]_vars => AccountInv'
<1> SUFFICES ASSUME AccountInv, [Next]_vars PROVE AccountInv'
  OBVIOUS
<1>1. PointsKept' /\ mixed \subseteq mixed'
  <2>1. CASE UNCHANGED accountVars
    BY <2>1, PointsUnchanged DEF AccountInv, accountVars
  <2>2. CASE Parents
    BY <2>2, PointsParents
  <2>3. CASE \E i \in Instances : Scheduler(i)
    BY <2>3, PointsScheduler
  <2>4. UNCHANGED accountVars \/ Parents \/ \E i \in Instances : Scheduler(i)
    BY DEF Next, LockExpires, DayPasses, vars
  <2> QED BY <2>1, <2>2, <2>3, <2>4
<1> QED BY <1>1, TypeStep, GroundsStep, HistoryStep DEF AccountInv

\* In the beginning nothing is saved, waits or has been replaced.
LEMMA AccountInit == Init => AccountInv
<1> SUFFICES ASSUME Init PROVE AccountInv
  OBVIOUS
<1>1. Typed
  BY TypeInit
<1>2. PointsKept
  BY ConstantsAssumption DEF Init, PointsKept, SavingsAreNatural, SavingsKept, NoOverdraft
<1>3. Grounds
  <2>1. \A i \in Instances : run[i]["allowance"] = Idle
    BY DEF Init, Jobs
  <2>2. \A h \in Handlers : request[h] = None
    BY DEF Init
  <2> QED BY <2>1, <2>2, IdleType DEF Grounds, PaymentGrounds, TransactionGrounds
<1>4. HistoryKept
  BY DEF Init, HistoryKept
<1> QED BY <1>1, <1>2, <1>3, <1>4 DEF AccountInv

\* The invariant of the accounts, from which the three properties follow.
LEMMA AccountInvariant == Spec => []AccountInv
  BY AccountInit, AccountStep, PTL DEF Spec

\* No point is lost or made in savings, on an account whose writes rest on what it
\* was when they read it (dispatchAllowance, matureSavingsPlans, cancelSavingsPlan).
THEOREM SavingsKeptHolds == Spec => []SavingsKept
<1>1. AccountInv => SavingsKept
  BY DEF AccountInv, PointsKept
<1> QED BY <1>1, AccountInvariant, PTL

\* No child spends more than it has, with the same premise, unless its plan takes
\* more than there is (createTransaction).
THEOREM NoOverdraftHolds == Spec => []NoOverdraft
<1>1. AccountInv => NoOverdraft
  BY DEF AccountInv, PointsKept
<1> QED BY <1>1, AccountInvariant, PTL

\* No setting of the allowance is forgotten, with the same premise
\* (upsertAllowancePlan).
THEOREM HistoryKeptHolds == Spec => []HistoryKept
<1>1. AccountInv => HistoryKept
  BY DEF AccountInv
<1> QED BY <1>1, AccountInvariant, PTL

-----------------------------------------------------------------------------
(* The daily jobs leave nothing undone.                                    *)

\* What a job has to do today for child k, and whether a run has it on its list.
DueOn(k)  == allowance[k] # None /\ since[k] < today /\ Due(allowance[k])
EndsOn(k) == IsActive(k) /\ opened[k] < plan[k].terms.ends /\ plan[k].terms.ends = today

Owed(j, k) == IF j = "allowance" THEN DueOn(k) /\ rows[k][ThisMonth] = 0 ELSE EndsOn(k)

InHand(j, k) ==
  \E i \in Instances :
    \/ \E s \in run[i][j].todo : s.child = k
    \/ j = "allowance" /\ run[i][j].stage = "pay" /\ run[i][j].paying.child = k

Attended(j) == \A k \in Children : Owed(j, k) => InHand(j, k)

\* On a day without faults a timer is still to fire, and finds the lock free, or all that
\* is owed is done or on the list of a run.
JobsRun ==
  \A j \in Jobs :
    today \notin troubled =>
      \/ lock[j] = None /\ \E i \in up : j \notin fired[i]
      \/ Attended(j)

SomebodyIsUp == up = {} => today \in troubled
IdleRuns == \A i \in Instances, j \in Jobs : run[i][j].stage = "idle" => run[i][j].todo = {}

DailyInv == SomebodyIsUp /\ IdleRuns /\ JobsRun /\ DailyJobsDone

\* What a step of the day may do to accounts and settings: rows stay, a setting or a plan
\* that is new starts today, no plan becomes ACTIVE again.
WithinDay ==
  /\ today' = today /\ troubled \subseteq troubled'
  /\ \A k \in Children :
       /\ \/ allowance'[k] = allowance[k] /\ since'[k] = since[k]
          \/ since'[k] = today
       /\ \A m \in Months : rows[k][m] > 0 => rows'[k][m] > 0
       /\ IsActive(k)' =>
            \/ IsActive(k) /\ plan'[k].terms = plan[k].terms /\ opened'[k] = opened[k]
            \/ opened'[k] = today

LEMMA DayTypes ==
  ASSUME TypeOK
  PROVE  /\ today \in Nat /\ today \in Days /\ Len(Calendar) \in Nat
         /\ ThisMonth \in Months
         /\ \A k \in Children :
              /\ since[k] \in Nat /\ opened[k] \in Nat
              /\ \A m \in Months : rows[k][m] \in Nat
              /\ allowance[k] # None => allowance[k].payDay \in Nat
              /\ IsActive(k) => plan[k] \in SavingsPlan /\ plan[k].terms.ends \in Nat
<1>1. Len(Calendar) \in Nat
  <2>1. Calendar \in Seq([month : Nat, day : Nat, last : Nat])
    BY ConstantsAssumption
  <2> QED BY <2>1, LenProperties
<1>2. today \in Days /\ today \in Nat
  BY <1>1 DEF TypeOK, Days
<1>3. ThisMonth \in Months
  BY <1>2, CalendarType DEF ThisMonth
<1>4. ASSUME NEW k \in Children
      PROVE  /\ since[k] \in Nat /\ opened[k] \in Nat
             /\ \A m \in Months : rows[k][m] \in Nat
             /\ allowance[k] # None => allowance[k].payDay \in Nat
             /\ IsActive(k) => plan[k] \in SavingsPlan /\ plan[k].terms.ends \in Nat
  <2>1. since[k] \in Nat /\ opened[k] \in Nat /\ \A m \in Months : rows[k][m] \in Nat
    BY <1>1 DEF TypeOK, Days
  <2>2. allowance[k] # None => allowance[k].payDay \in Nat
    BY FieldTypes DEF TypeOK
  <2>3. IsActive(k) => plan[k] \in SavingsPlan /\ plan[k].terms \in Terms
    BY DEF IsActive, TypeOK, SavingsPlan
  <2> QED BY <2>1, <2>2, <2>3, FieldTypes
<1> QED BY <1>1, <1>2, <1>3, <1>4

LEMMA OwedWithinDay ==
  ASSUME TypeOK, TypeOK', WithinDay, NEW j, NEW k \in Children, Owed(j, k)'
  PROVE  Owed(j, k)
<1>1. /\ today \in Nat /\ ThisMonth' = ThisMonth /\ ThisMonth \in Months
      /\ rows[k][ThisMonth] \in Nat /\ today' = today
  BY DayTypes DEF WithinDay, ThisMonth
<1>2. CASE j = "allowance"
  <2>1. allowance'[k] # None /\ since'[k] < today /\ Due(allowance[k])' /\ rows'[k][ThisMonth] = 0
    BY <1>1, <1>2 DEF Owed, DueOn
  <2>2. allowance'[k] = allowance[k] /\ since'[k] = since[k] /\ ~(rows[k][ThisMonth] > 0)
    BY <1>1, <2>1 DEF WithinDay
  <2>3. Due(allowance[k])
    BY <1>1, <2>1, <2>2 DEF Due
  <2>4. rows[k][ThisMonth] = 0
    BY <1>1, <2>2
  <2> QED BY <1>2, <2>1, <2>2, <2>3, <2>4 DEF Owed, DueOn
<1>3. CASE j # "allowance"
  <2>1. IsActive(k)' /\ opened'[k] < plan'[k].terms.ends /\ plan'[k].terms.ends = today
    BY <1>1, <1>3 DEF Owed, EndsOn
  <2> QED BY <1>1, <1>3, <2>1 DEF Owed, EndsOn, WithinDay
<1> QED BY <1>2, <1>3

LEMMA DoneWithinDay ==
  ASSUME TypeOK, TypeOK', WithinDay, DailyJobsDone
  PROVE  DailyJobsDone'
<1>0. today \in Nat /\ today' = today /\ troubled \subseteq troubled'
  BY DayTypes DEF WithinDay
<1>1. ASSUME NEW k \in Children, NEW d \in Days, d \notin troubled', WasPayDay(k, d)'
      PROVE  rows'[k][Calendar[d].month] > 0
  <2>1. /\ allowance'[k] # None /\ since'[k] < d /\ d < today
        /\ \/ allowance'[k].payDay = Calendar[d].day
           \/ Calendar[d].day = Calendar[d].last /\ allowance'[k].payDay > Calendar[d].last
    BY <1>0, <1>1 DEF WasPayDay
  <2>2. since'[k] # today
    BY <1>0, <1>1, <2>1 DEF Days
  <2>3. allowance'[k] = allowance[k] /\ since'[k] = since[k]
    BY <2>2 DEF WithinDay
  <2>4. WasPayDay(k, d)
    BY <2>1, <2>3 DEF WasPayDay
  <2>5. rows[k][Calendar[d].month] > 0 /\ Calendar[d].month \in Months
    BY <1>0, <1>1, <2>4, CalendarType DEF DailyJobsDone
  <2> QED BY <2>5 DEF WithinDay
<1>2. ASSUME NEW k \in Children, IsActive(k)', opened'[k] < plan'[k].terms.ends,
             plan'[k].terms.ends < today
      PROVE  plan'[k].terms.ends \in troubled'
  <2>1. plan'[k].terms.ends \in Nat
    <3>1. plan'[k] \in SavingsPlan
      BY <1>2 DEF IsActive, TypeOK
    <3> QED BY <3>1, FieldTypes DEF SavingsPlan
  <2>2. opened'[k] # today
    BY <1>0, <1>2, <2>1
  <2>3. IsActive(k) /\ plan'[k].terms = plan[k].terms /\ opened'[k] = opened[k]
    BY <1>2, <2>2 DEF WithinDay
  <2>4. plan[k].terms.ends \in troubled
    BY <1>2, <2>3 DEF DailyJobsDone
  <2> QED BY <1>0, <2>3, <2>4
<1> QED BY <1>0, <1>1, <1>2 DEF DailyJobsDone

\* A plan that is paid back is not ACTIVE any more, and keeps its terms.
LEMMA PayBackEnds ==
  ASSUME TypeOK, NEW k \in Children, NEW p, NEW n, NEW s \in {"MATURED", "CANCELLED"},
         PayBack(k, p, n, s), plan[k] \in SavingsPlan
  PROVE  \A c \in Children :
           /\ IsActive(c)' => c # k
           /\ c # k => plan'[c] = plan[c]
           /\ IsActive(c)' => IsActive(c) /\ plan'[c].terms = plan[c].terms
<1>1. plan' = [plan EXCEPT ![k] = [plan[k] EXCEPT !.status = s]]
  BY DEF PayBack
<1>2. [plan[k] EXCEPT !.status = s].status = s
  BY DEF SavingsPlan
<1>3. /\ plan'[k].status = s /\ s # "ACTIVE"
      /\ \A c \in Children : c # k => plan'[c] = plan[c]
  BY <1>1, <1>2 DEF TypeOK
<1> QED BY <1>3 DEF IsActive

LEMMA ParentsWithinDay ==
  ASSUME Typed, Parents
  PROVE  WithinDay /\ UNCHANGED <<lock, fired, run, up, troubled>>
<1>0. TypeOK /\ ThisMonth \in Months
  BY DayTypes DEF Typed
<1>1. UNCHANGED <<today, lock, fired, run, up, troubled>>
  BY DEF Parents, TransactionRead, AllowanceRead, OpenSavings, CancelRead,
         TransactionWrite, AllowanceWrite, CancelWrite, jobVars
<1>3. ASSUME NEW h \in Handlers, TransactionWrite(h) PROVE WithinDay
  <2>1. UNCHANGED <<allowance, since, plan, opened>>
    BY <1>3 DEF TransactionWrite, settingVars
  <2>2. \A k \in Children, m \in Months : rows[k][m] > 0 => rows'[k][m] > 0
    <3>1. rows' = rows \/ rows' = [rows EXCEPT ![request[h].child][ThisMonth] = @ + 1]
      BY <1>3 DEF TransactionWrite
    <3>2. request[h].child \in Children
      BY <1>0, <1>3, RequestKinds DEF TransactionWrite
    <3>3. rows \in [Children -> [Months -> Nat]]
      BY <1>0 DEF TypeOK
    <3>4. CASE rows' = [rows EXCEPT ![request[h].child][ThisMonth] = @ + 1]
      BY <1>0, <3>2, <3>3, <3>4
    <3> QED BY <3>1, <3>4
  <2> QED BY <1>1, <2>1, <2>2 DEF WithinDay, IsActive
<1>4. ASSUME NEW h \in Handlers, AllowanceWrite(h) PROVE WithinDay
  <2>1. UNCHANGED <<rows, plan, opened>>
    BY <1>4 DEF AllowanceWrite
  <2>2. \/ UNCHANGED <<allowance, since>>
        \/ /\ allowance' = [allowance EXCEPT ![request[h].child] = request[h].new]
           /\ since' = [since EXCEPT ![request[h].child] = today]
    BY <1>4 DEF AllowanceWrite, settingVars
  <2>3. \A k \in Children : \/ allowance'[k] = allowance[k] /\ since'[k] = since[k]
                            \/ since'[k] = today
    BY <1>0, <2>2 DEF TypeOK
  <2> QED BY <1>1, <2>1, <2>3 DEF WithinDay, IsActive
<1>5. ASSUME NEW k \in Children, NEW t \in Terms, OpenSavings(k, t) PROVE WithinDay
  <2>1. /\ UNCHANGED <<allowance, since, rows>>
        /\ opened' = [opened EXCEPT ![k] = today]
        /\ plan' = [plan EXCEPT ![k] = [terms |-> t, status |-> "ACTIVE"]]
    BY <1>5 DEF OpenSavings, settingVars
  <2>2. \A c \in Children : IF c = k THEN opened'[c] = today
                            ELSE plan'[c] = plan[c] /\ opened'[c] = opened[c]
    BY <1>0, <2>1 DEF TypeOK
  <2> QED BY <1>1, <2>1, <2>2 DEF WithinDay, IsActive
<1>6. ASSUME NEW h \in Handlers, CancelWrite(h) PROVE WithinDay
  <2>1. UNCHANGED <<allowance, since, rows, opened>>
    BY <1>6 DEF CancelWrite, settingVars
  <2>2. /\ PayBack(request[h].child, request[h].read, 0, "CANCELLED")
        /\ request[h].child \in Children /\ plan[request[h].child] \in SavingsPlan
    BY <1>6, RequestKinds DEF CancelWrite, Typed, Prepared
  <2>3. \A c \in Children : IsActive(c)' => IsActive(c) /\ plan'[c].terms = plan[c].terms
    BY <1>0, <2>2, PayBackEnds
  <2> QED BY <1>1, <2>1, <2>3 DEF WithinDay
<1>7. CASE \/ \E h \in Handlers, k \in Children, t \in {"ALLOWANCE", "ADD", "TAKE"}, a \in Amounts :
                TransactionRead(h, k, t, a)
           \/ \E h \in Handlers, k \in Children, s \in Settings : AllowanceRead(h, k, s)
           \/ \E h \in Handlers, k \in Children : CancelRead(h, k)
  <2>1. UNCHANGED <<accountVars, settingVars, rows, opened>>
    BY <1>7 DEF TransactionRead, AllowanceRead, CancelRead
  <2>2. UNCHANGED <<allowance, since, rows, plan, opened>>
    BY <2>1 DEF accountVars, settingVars
  <2> QED BY <1>1, <2>2 DEF WithinDay, IsActive
<1>8. WithinDay
  BY <1>3, <1>4, <1>5, <1>6, <1>7 DEF Parents
<1> QED BY <1>1, <1>8

\* A step of the day after which every timer and every list is at least what it was.
LEMMA DailyKept ==
  ASSUME Typed, Typed', WithinDay, DailyInv, IdleRuns', up \subseteq up',
         \A j \in Jobs : lock[j] = None => lock'[j] = None,
         \A i \in up : fired'[i] = fired[i],
         \A j \in Jobs, k \in Children : InHand(j, k) /\ Owed(j, k)' => InHand(j, k)'
  PROVE  DailyInv'
<1>1. SomebodyIsUp' /\ DailyJobsDone'
  BY DoneWithinDay DEF DailyInv, SomebodyIsUp, WithinDay, Typed
<1>2. ASSUME NEW j \in Jobs, Attended(j) PROVE Attended(j)'
  BY <1>2, OwedWithinDay DEF Attended, Typed
<1>3. JobsRun'
  BY <1>2 DEF DailyInv, JobsRun, WithinDay
<1> QED BY <1>1, <1>3 DEF DailyInv

\* A step of the day that is a fault of a job.
LEMMA DailyTroubled ==
  ASSUME Typed, Typed', WithinDay, DailyInv, IdleRuns', today \in troubled'
  PROVE  DailyInv'
<1>1. today' = today /\ DailyJobsDone'
  BY DoneWithinDay DEF DailyInv, WithinDay, Typed
<1> QED BY <1>1 DEF DailyInv, SomebodyIsUp, JobsRun

LEMMA ParentsDaily == ASSUME Typed, Typed', DailyInv, Parents PROVE DailyInv'
<1>1. WithinDay /\ UNCHANGED <<lock, fired, run, up, troubled>>
  BY ParentsWithinDay
<1>2. IdleRuns' /\ \A j \in Jobs, k \in Children : InHand(j, k)' <=> InHand(j, k)
  BY <1>1 DEF DailyInv, IdleRuns, InHand
<1> QED BY <1>1, <1>2, DailyKept

\* A step that is none of an account or a setting.
LEMMA AccountsUntouched ==
  ASSUME UNCHANGED <<today, allowance, since, rows, plan, opened>>, troubled \subseteq troubled'
  PROVE  WithinDay
  BY DEF WithinDay, IsActive

\* The timer: a free lock means a run with all that is owed on its list; a lock that is
\* taken means that another run has it, or has done it.
LEMMA FireDaily ==
  ASSUME Typed, Typed', DailyInv, NEW i \in Instances, NEW j \in Jobs, Fire(i, j)
  PROVE  DailyInv'
<1>0. TypeOK /\ run \in [Instances -> [Jobs -> Run]]
  BY DEF Typed, TypeOK
<1>1. UNCHANGED <<today, allowance, since, rows, plan, opened, up, troubled>>
  BY DEF Fire, accountVars, settingVars
<1>2. WithinDay
  BY <1>1, AccountsUntouched
<1>3. DailyJobsDone' /\ SomebodyIsUp'
  BY <1>0, <1>1, <1>2, DoneWithinDay DEF DailyInv, SomebodyIsUp, Typed
<1>4. \A n \in up, m \in Jobs : m # j /\ m \notin fired[n] => m \notin fired'[n]
  BY <1>0 DEF Fire, TypeOK
<1>5. CASE lock[j] # None
  <2>1. UNCHANGED <<lock, run>>
    BY <1>5 DEF Fire
  <2>2. IdleRuns' /\ \A m \in Jobs, k \in Children : InHand(m, k)' <=> InHand(m, k)
    BY <2>1 DEF DailyInv, IdleRuns, InHand
  <2>3. ASSUME NEW m \in Jobs, Attended(m) PROVE Attended(m)'
    BY <1>2, <2>2, <2>3, OwedWithinDay DEF Attended, Typed
  <2>4. JobsRun'
    BY <1>1, <1>4, <1>5, <2>1, <2>3 DEF DailyInv, JobsRun
  <2> QED BY <1>3, <2>2, <2>4 DEF DailyInv
<1>6. CASE lock[j] = None
  <2> DEFINE r == [stage |-> "loop", todo |-> Found(j), paying |-> None]
  <2>1. lock' = [lock EXCEPT ![j] = i] /\ run' = [run EXCEPT ![i][j] = r]
    BY <1>6 DEF Fire
  <2>2. r.stage = "loop" /\ r.todo = Found(j)
    OBVIOUS
  <2> HIDE DEF r
  <2>3. /\ run'[i][j] = r
        /\ \A n \in Instances, m \in Jobs : n # i \/ m # j => run'[n][m] = run[n][m]
        /\ \A m \in Jobs : m # j => lock'[m] = lock[m]
    BY <1>0, <2>1 DEF TypeOK
  <2>4. IdleRuns'
    BY <2>2, <2>3 DEF DailyInv, IdleRuns
  <2>5. Attended(j)'
    <3> SUFFICES ASSUME NEW k \in Children, Owed(j, k)' PROVE \E s \in Found(j) : s.child = k
      BY <2>2, <2>3 DEF Attended, InHand
    <3>1. Owed(j, k)
      BY <1>0, <1>2, OwedWithinDay DEF Typed
    <3>2. CASE j = "allowance"
      <4>1. [child |-> k, amount |-> allowance[k].points] \in DueAllowances
        BY <3>1, <3>2 DEF Owed, DueOn, DueAllowances
      <4> QED BY <3>2, <4>1 DEF Found
    <3>3. CASE j # "allowance"
      <4>1. [child |-> k, amount |-> savings[k]] \in EndingPlans
        BY <3>1, <3>3 DEF Owed, EndsOn, EndingPlans
      <4> QED BY <3>3, <4>1 DEF Found
    <3> QED BY <3>2, <3>3
  <2>6. ASSUME NEW m \in Jobs, m # j, Attended(m) PROVE Attended(m)'
    <3>1. \A k \in Children : InHand(m, k)' <=> InHand(m, k)
      BY <2>3, <2>6 DEF InHand
    <3> QED BY <1>2, <2>6, <3>1, OwedWithinDay DEF Attended, Typed
  <2>7. JobsRun'
    BY <1>1, <1>4, <2>3, <2>5, <2>6 DEF DailyInv, JobsRun
  <2> QED BY <1>3, <2>4, <2>7 DEF DailyInv
<1> QED BY <1>5, <1>6

\* The entries of the list of the allowance job: one is dropped when its row is there, and
\* becomes the payment when it is not.
LEMMA CheckDaily ==
  ASSUME Typed, Typed', DailyInv, NEW i \in Instances, Check(i) PROVE DailyInv'
<1> DEFINE old == run[i]["allowance"]
<1>0. /\ TypeOK /\ run \in [Instances -> [Jobs -> Run]] /\ "allowance" \in Jobs
      /\ old \in Run
  <2>1. TypeOK /\ "allowance" \in Jobs
    BY DEF Typed, Jobs
  <2> QED BY <2>1, AccountTypes
<1>1. UNCHANGED <<today, allowance, since, rows, plan, opened, up, troubled, lock, fired>>
      /\ old.stage = "loop"
  BY DEF Check, accountVars, settingVars
<1>2. WithinDay
  BY <1>1, AccountsUntouched
<1>3. PICK s \in old.todo :
        run' = [run EXCEPT ![i]["allowance"] =
          IF rows[s.child][ThisMonth] > 0
            THEN [old EXCEPT !.todo = @ \ {s}]
            ELSE [stage |-> "pay", todo |-> old.todo \ {s}, paying |-> Payment(s)]]
  BY DEF Check
<1> DEFINE new == run'[i]["allowance"]
<1>4. /\ new = IF rows[s.child][ThisMonth] > 0
                 THEN [old EXCEPT !.todo = @ \ {s}]
                 ELSE [stage |-> "pay", todo |-> old.todo \ {s}, paying |-> Payment(s)]
      /\ \A n \in Instances, m \in Jobs :
           n # i \/ m # "allowance" => run'[n][m] = run[n][m]
  BY <1>0, <1>3
<1>5. Payment(s).child = s.child
  BY DEF Payment
<1>6. /\ new.todo = old.todo \ {s} /\ new.stage # "idle"
      /\ \/ rows[s.child][ThisMonth] > 0
         \/ new.stage = "pay" /\ new.paying.child = s.child
  <2>1. CASE rows[s.child][ThisMonth] > 0
    BY <1>0, <1>1, <1>4, <2>1 DEF Run
  <2>2. CASE ~(rows[s.child][ThisMonth] > 0)
    BY <1>4, <1>5, <2>2
  <2> QED BY <2>1, <2>2
<1> HIDE DEF new
<1>7. IdleRuns'
  <2>1. IdleRuns
    BY DEF DailyInv
  <2> SUFFICES ASSUME NEW n \in Instances, NEW m \in Jobs, run'[n][m].stage = "idle"
               PROVE  run'[n][m].todo = {}
    BY DEF IdleRuns
  <2>2. CASE n = i /\ m = "allowance"
    BY <1>6, <2>2 DEF new
  <2>3. CASE n # i \/ m # "allowance"
    BY <1>4, <2>1, <2>3 DEF IdleRuns
  <2> QED BY <2>2, <2>3
<1>8. ASSUME NEW j \in Jobs, NEW k \in Children, InHand(j, k), Owed(j, k)' PROVE InHand(j, k)'
  <2>1. CASE j # "allowance"
    BY <1>4, <1>8, <2>1 DEF InHand
  <2>2. CASE j = "allowance"
    <3>1. rows[k][ThisMonth] = 0
      BY <1>1, <1>8, <2>2 DEF Owed, ThisMonth
    <3>2. PICK n \in Instances :
            \/ \E e \in run[n][j].todo : e.child = k
            \/ j = "allowance" /\ run[n][j].stage = "pay" /\ run[n][j].paying.child = k
      BY <1>8 DEF InHand
    <3>3. CASE n # i
      BY <1>4, <2>2, <3>2, <3>3 DEF InHand
    <3>4. CASE n = i
      <4>1. PICK e \in old.todo : e.child = k
        BY <1>1, <2>2, <3>2, <3>4
      <4>2. CASE e = s
        BY <1>6, <2>2, <3>1, <4>1, <4>2 DEF InHand, new
      <4>3. CASE e # s
        BY <1>6, <2>2, <4>1, <4>3 DEF InHand, new
      <4> QED BY <4>2, <4>3
    <3> QED BY <3>3, <3>4
  <2> QED BY <2>1, <2>2
<1> QED BY <1>1, <1>2, <1>7, <1>8, DailyKept

\* The payment: the row is there for whoever looks for it later.
LEMMA PayDaily ==
  ASSUME Typed, Typed', DailyInv, NEW i \in Instances, Pay(i) PROVE DailyInv'
<1> DEFINE c == run[i]["allowance"].paying.child
<1>0. /\ TypeOK /\ run \in [Instances -> [Jobs -> Run]] /\ "allowance" \in Jobs
      /\ rows \in [Children -> [Months -> Nat]] /\ ThisMonth \in Months
      /\ run[i]["allowance"] \in Run
  <2>1. TypeOK /\ "allowance" \in Jobs
    BY DEF Typed, Jobs
  <2> QED BY <2>1, AccountTypes, DayTypes
<1>1. /\ UNCHANGED <<today, allowance, since, plan, opened, up, troubled, lock, fired>>
      /\ run[i]["allowance"].stage = "pay" /\ c \in Children
      /\ rows' = [rows EXCEPT ![c][ThisMonth] = @ + 1]
  BY DEF Pay, settingVars, Typed, Prepared, Paying
<1>2. run' = [run EXCEPT ![i]["allowance"].stage = "loop", ![i]["allowance"].paying = None]
  BY DEF Pay
<1>3. /\ run'[i]["allowance"].stage = "loop"
      /\ run'[i]["allowance"].todo = run[i]["allowance"].todo
      /\ \A n \in Instances, m \in Jobs :
           n # i \/ m # "allowance" => run'[n][m] = run[n][m]
  BY <1>0, <1>2 DEF Run
<1> HIDE DEF c
<1>4. /\ rows'[c][ThisMonth] = rows[c][ThisMonth] + 1
      /\ \A k \in Children, m \in Months : rows[k][m] > 0 => rows'[k][m] > 0
  BY <1>0, <1>1
<1>5. WithinDay
  BY <1>1, <1>4 DEF WithinDay, IsActive
<1>6. IdleRuns'
  BY <1>3 DEF DailyInv, IdleRuns
<1>7. ASSUME NEW j \in Jobs, NEW k \in Children, InHand(j, k), Owed(j, k)' PROVE InHand(j, k)'
  <2>1. CASE j # "allowance"
    BY <1>3, <1>7, <2>1 DEF InHand
  <2>2. CASE j = "allowance"
    <3>1. k # c
      <4>1. rows'[k][ThisMonth] = 0 /\ rows[c][ThisMonth] \in Nat
        BY <1>0, <1>1, <1>7, <2>2 DEF Owed, ThisMonth
      <4> QED BY <1>4, <4>1
    <3>2. PICK n \in Instances :
            \/ \E e \in run[n][j].todo : e.child = k
            \/ j = "allowance" /\ run[n][j].stage = "pay" /\ run[n][j].paying.child = k
      BY <1>7 DEF InHand
    <3>3. CASE n # i
      BY <1>3, <2>2, <3>2, <3>3 DEF InHand
    <3>4. CASE n = i
      BY <1>3, <2>2, <3>1, <3>2, <3>4 DEF InHand, c
    <3> QED BY <3>3, <3>4
  <2> QED BY <2>1, <2>2
<1> QED BY <1>1, <1>5, <1>6, <1>7, DailyKept

\* A plan that is paid back is not ACTIVE, and leaves the list.
LEMMA MatureDaily ==
  ASSUME Typed, Typed', DailyInv, NEW i \in Instances, Mature(i) PROVE DailyInv'
<1>0. /\ TypeOK /\ run \in [Instances -> [Jobs -> Run]] /\ "maturity" \in Jobs
      /\ "maturity" # "allowance" /\ run[i]["maturity"] \in Run
  BY DEF Typed, TypeOK, Jobs
<1>1. UNCHANGED <<today, allowance, since, rows, opened, up, troubled, lock, fired>>
      /\ run[i]["maturity"].stage = "loop"
  BY DEF Mature, settingVars
<1>2. PICK s \in run[i]["maturity"].todo :
        /\ PayBack(s.child, s.amount, plan[s.child].terms.interest, "MATURED")
        /\ run' = [run EXCEPT ![i]["maturity"].todo = @ \ {s}]
  BY DEF Mature
<1>3. s.child \in Children /\ plan[s.child] \in SavingsPlan
  BY <1>0 DEF Run, Entry, Typed, Prepared
<1>4. \A k \in Children : IsActive(k)' =>
        k # s.child /\ IsActive(k) /\ plan'[k].terms = plan[k].terms
  BY <1>0, <1>2, <1>3, PayBackEnds
<1>5. WithinDay
  BY <1>1, <1>4 DEF WithinDay
<1>6. /\ run'[i]["maturity"].stage = "loop"
      /\ run'[i]["maturity"].todo = run[i]["maturity"].todo \ {s}
      /\ \A n \in Instances, m \in Jobs :
           n # i \/ m # "maturity" => run'[n][m] = run[n][m]
  BY <1>0, <1>1, <1>2 DEF Run
<1>7. IdleRuns'
  BY <1>6 DEF DailyInv, IdleRuns
<1>8. ASSUME NEW j \in Jobs, NEW k \in Children, InHand(j, k), Owed(j, k)' PROVE InHand(j, k)'
  <2>1. CASE j = "allowance"
    BY <1>0, <1>6, <1>8, <2>1 DEF InHand
  <2>2. CASE j = "maturity"
    <3>1. k # s.child
      BY <1>0, <1>4, <1>8, <2>2 DEF Owed, EndsOn
    <3>2. PICK n \in Instances : \E e \in run[n][j].todo : e.child = k
      BY <1>0, <1>8, <2>2 DEF InHand
    <3>3. \E e \in run'[n][j].todo : e.child = k
      BY <1>6, <2>2, <3>1, <3>2
    <3> QED BY <3>3 DEF InHand
  <2> QED BY <2>1, <2>2 DEF Jobs
<1> QED BY <1>1, <1>5, <1>7, <1>8, DailyKept

LEMMA SchedulerDaily ==
  ASSUME Typed, Typed', DailyInv, NEW i \in Instances, Scheduler(i) PROVE DailyInv'
<1>0. TypeOK /\ run \in [Instances -> [Jobs -> Run]]
  BY DEF Typed, TypeOK
<1>a. ASSUME NEW j \in Jobs, run' = [run EXCEPT ![i][j] = Idle]
      PROVE  /\ IdleRuns'
             /\ \A n \in Instances, m \in Jobs : n # i \/ m # j => run'[n][m] = run[n][m]
  <2>1. /\ run'[i][j] = Idle
        /\ \A n \in Instances, m \in Jobs : n # i \/ m # j => run'[n][m] = run[n][m]
    BY <1>0, <1>a
  <2> QED BY <2>1, IdleType DEF DailyInv, IdleRuns
<1>1. ASSUME NEW j \in Jobs, Finish(i, j) PROVE DailyInv'
  <2>1. /\ UNCHANGED <<today, allowance, since, rows, plan, opened, up, troubled, fired>>
        /\ run' = [run EXCEPT ![i][j] = Idle] /\ Release(i, j)
        /\ run[i][j].stage = "loop" /\ run[i][j].todo = {}
    BY <1>1 DEF Finish, accountVars, settingVars
  <2>2. WithinDay
    BY <2>1, AccountsUntouched
  <2>3. \A m \in Jobs : lock[m] = None => lock'[m] = None
    BY <1>0, <2>1 DEF Release, TypeOK
  <2>4. \A m \in Jobs, k \in Children : InHand(m, k) => InHand(m, k)'
    BY <1>a, <2>1 DEF InHand
  <2> QED BY <1>a, <2>1, <2>2, <2>3, <2>4, DailyKept
<1>2. ASSUME NEW j \in Jobs, JobFails(i, j) PROVE DailyInv'
  <2>1. /\ UNCHANGED <<today, allowance, since, rows, plan, opened>>
        /\ run' = [run EXCEPT ![i][j] = Idle] /\ troubled' = troubled \cup {today}
    BY <1>2 DEF JobFails, Trouble, accountVars, settingVars
  <2>2. WithinDay
    BY <2>1, AccountsUntouched
  <2> QED BY <1>a, <2>1, <2>2, DailyTroubled
<1>3. CASE Crash(i)
  <2>1. /\ UNCHANGED <<today, allowance, since, rows, plan, opened>>
        /\ run' = [run EXCEPT ![i] = [j \in Jobs |-> Idle]] /\ troubled' = troubled \cup {today}
    BY <1>3 DEF Crash, Trouble, accountVars, settingVars
  <2>2. WithinDay
    BY <2>1, AccountsUntouched
  <2>3. IdleRuns'
    BY <1>0, <2>1, IdleType DEF DailyInv, IdleRuns
  <2> QED BY <2>1, <2>2, <2>3, DailyTroubled
<1>4. CASE Boot(i)
  <2>1. /\ UNCHANGED <<today, allowance, since, rows, plan, opened, troubled, lock, run>>
        /\ up' = up \cup {i} /\ i \notin up /\ fired' = [fired EXCEPT ![i] = Jobs]
    BY <1>4 DEF Boot, accountVars, settingVars
  <2>2. WithinDay
    BY <2>1, AccountsUntouched
  <2>3. \A n \in up : fired'[n] = fired[n]
    BY <1>0, <2>1 DEF TypeOK
  <2>4. IdleRuns' /\ \A m \in Jobs, k \in Children : InHand(m, k)' <=> InHand(m, k)
    BY <2>1 DEF DailyInv, IdleRuns, InHand
  <2> QED BY <2>1, <2>2, <2>3, <2>4, DailyKept
<1> QED
  BY <1>1, <1>2, <1>3, <1>4, FireDaily, CheckDaily, PayDaily, MatureDaily DEF Scheduler

\* The day is over when every timer has fired, every run has ended and every lock is free:
\* what was owed on it is done.
LEMMA DayPassesDaily == ASSUME Typed, Typed', DailyInv, DayPasses PROVE DailyInv'
<1>0. /\ TypeOK /\ today \in Nat /\ today' = today + 1
      /\ "allowance" \in Jobs /\ "maturity" \in Jobs /\ "allowance" # "maturity"
  BY DayTypes DEF Typed, DayPasses, Jobs
<1>1. /\ UNCHANGED <<allowance, since, rows, plan, opened, up, lock, run>>
      /\ \A i \in up : fired[i] = Jobs
      /\ \A i \in Instances, j \in Jobs : run[i][j].stage = "idle"
      /\ \A j \in Jobs : lock[j] = None
      /\ fired' = [i \in Instances |-> {}]
      /\ troubled' = IF up = {} THEN troubled \cup {today + 1} ELSE troubled
  BY DEF DayPasses, accountVars, settingVars
<1>2. ASSUME NEW j \in Jobs, NEW k \in Children, today \notin troubled PROVE ~Owed(j, k)
  <2>1. \A i \in Instances : run[i][j].stage # "pay" /\ run[i][j].todo = {}
    BY <1>1 DEF DailyInv, IdleRuns
  <2>2. ~InHand(j, k)
    BY <2>1 DEF InHand
  <2>3. Attended(j)
    BY <1>1, <1>2 DEF DailyInv, JobsRun
  <2> QED BY <2>2, <2>3 DEF Attended
<1>3. ASSUME NEW k \in Children, NEW d \in Days, d \notin troubled', WasPayDay(k, d)'
      PROVE  rows'[k][Calendar[d].month] > 0
  <2>1. /\ allowance[k] # None /\ since[k] < d /\ d < today + 1 /\ d \notin troubled
        /\ \/ allowance[k].payDay = Calendar[d].day
           \/ Calendar[d].day = Calendar[d].last /\ allowance[k].payDay > Calendar[d].last
        /\ d \in Nat
    BY <1>0, <1>1, <1>3 DEF WasPayDay, Days
  <2>2. CASE d = today
    <3>1. DueOn(k)
      BY <2>1, <2>2 DEF DueOn, Due
    <3>2. rows[k][ThisMonth] # 0
      BY <1>0, <1>2, <2>1, <2>2, <3>1 DEF Owed
    <3>3. rows[k][ThisMonth] \in Nat
      BY <1>0, DayTypes
    <3> QED BY <1>1, <2>2, <3>2, <3>3 DEF ThisMonth
  <2>3. CASE d # today
    <3>1. d < today
      BY <1>0, <2>1, <2>3
    <3>2. WasPayDay(k, d)
      BY <2>1, <3>1 DEF WasPayDay
    <3> QED BY <1>1, <2>1, <3>2 DEF DailyInv, DailyJobsDone
  <2> QED BY <2>2, <2>3
<1>4. ASSUME NEW k \in Children, IsActive(k)', opened'[k] < plan'[k].terms.ends,
             plan'[k].terms.ends < today'
      PROVE  plan'[k].terms.ends \in troubled'
  <2>1. /\ IsActive(k) /\ opened[k] < plan[k].terms.ends /\ plan[k].terms.ends < today + 1
        /\ troubled \subseteq troubled'
    BY <1>0, <1>1, <1>4 DEF IsActive
  <2>2. plan[k].terms.ends \in Nat
    BY <1>0, <2>1, DayTypes
  <2>3. CASE plan[k].terms.ends = today
    <3>1. Owed("maturity", k)
      BY <1>0, <2>1, <2>3 DEF Owed, EndsOn
    <3>2. today \in troubled
      BY <1>0, <1>2, <3>1
    <3> QED BY <1>1, <2>1, <2>3, <3>2
  <2>4. CASE plan[k].terms.ends # today
    <3>1. plan[k].terms.ends < today
      BY <1>0, <2>1, <2>2, <2>4
    <3> QED BY <1>1, <2>1, <3>1 DEF DailyInv, DailyJobsDone
  <2> QED BY <2>3, <2>4
<1>5. DailyJobsDone'
  BY <1>3, <1>4 DEF DailyJobsDone
<1>6. SomebodyIsUp' /\ IdleRuns'
  BY <1>0, <1>1 DEF DailyInv, SomebodyIsUp, IdleRuns
<1>7. JobsRun'
  <2>1. CASE up = {}
    BY <1>0, <1>1, <2>1 DEF JobsRun
  <2>2. CASE up # {}
    <3>1. PICK i \in up : i \in Instances
      BY <1>0, <2>2 DEF TypeOK
    <3> QED BY <1>1, <3>1 DEF JobsRun
  <2> QED BY <2>1, <2>2
<1> QED BY <1>5, <1>6, <1>7 DEF DailyInv

LEMMA DailyStep == ASSUME Typed, Typed', DailyInv, [Next]_vars PROVE DailyInv'
<1>1. ASSUME NEW j \in Jobs, LockExpires(j) PROVE DailyInv'
  <2>1. /\ UNCHANGED <<today, allowance, since, rows, plan, opened, up, run, fired>>
        /\ lock' = [lock EXCEPT ![j] = None] /\ troubled \subseteq troubled'
    BY <1>1 DEF LockExpires, Trouble, accountVars, settingVars
  <2>2. WithinDay
    BY <2>1, AccountsUntouched
  <2>3. \A m \in Jobs : lock[m] = None => lock'[m] = None
    BY <2>1 DEF Typed, TypeOK
  <2>4. IdleRuns' /\ \A m \in Jobs, k \in Children : InHand(m, k)' <=> InHand(m, k)
    BY <2>1 DEF DailyInv, IdleRuns, InHand
  <2> QED BY <2>1, <2>2, <2>3, <2>4, DailyKept
<1>2. CASE UNCHANGED vars
  <2>1. UNCHANGED <<today, allowance, since, rows, plan, opened, up, run, fired, lock, troubled>>
    BY <1>2 DEF vars, accountVars, settingVars, jobVars
  <2>2. WithinDay
    BY <2>1, AccountsUntouched
  <2>3. IdleRuns' /\ \A m \in Jobs, k \in Children : InHand(m, k)' <=> InHand(m, k)
    BY <2>1 DEF DailyInv, IdleRuns, InHand
  <2> QED BY <2>1, <2>2, <2>3, DailyKept
<1> QED BY <1>1, <1>2, ParentsDaily, SchedulerDaily, DayPassesDaily DEF Next

\* On a day without faults the jobs leave nothing undone, for any calendar, children and
\* instances: an allowance whose pay day it was is paid, at the end of a short month too, and
\* a plan that ended is paid back (dispatchAllowance, matureSavingsPlans and their locks).
THEOREM DailyJobsDoneHolds == Spec => []DailyJobsDone
<1>1. Init => DailyInv
  <2> SUFFICES ASSUME Init PROVE DailyInv
    OBVIOUS
  <2>1. /\ up = Instances /\ up # {} /\ troubled = {} /\ today = 1
        /\ \A j \in Jobs : lock[j] = None /\ \A i \in Instances : run[i][j] = Idle
        /\ \A i \in Instances : fired[i] = {}
        /\ \A k \in Children : plan[k] = None /\ since[k] = 0
    BY ConstantsAssumption DEF Init
  <2>2. SomebodyIsUp /\ IdleRuns /\ JobsRun
    BY <2>1, IdleType DEF SomebodyIsUp, IdleRuns, JobsRun
  <2>3. \A k \in Children, d \in Days : ~WasPayDay(k, d)
    BY <2>1 DEF WasPayDay, Days
  <2>4. DailyJobsDone
    BY <2>1, <2>3 DEF DailyJobsDone, IsActive
  <2> QED BY <2>2, <2>4 DEF DailyInv
<1>2. DailyInv => DailyJobsDone
  BY DEF DailyInv
<1> QED BY <1>1, <1>2, TypeInit, TypeStep, DailyStep, PTL DEF Spec

=============================================================================
