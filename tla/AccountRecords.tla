--------------------------- MODULE AccountRecords ---------------------------
(***************************************************************************)
(* One account of the assets: its dated records, its withdrawals (each with a  *)
(* record of its own) and the monthly record of an account in gold.           *)
(*                                                                         *)
(* What follows the newest date may be recorded, in three modes of input.  A   *)
(* request reads the records it builds on and inserts later; on the first of a  *)
(* month the job of every instance does the same under a lock.  Days are days    *)
(* of records, given by the user at will.  Access is checked before all else.    *)
(***************************************************************************)
EXTENDS Integers, Sequences, FiniteSets

CONSTANTS Handlers,   \* the requests that can be on their way at once
          Servers,    \* the instances
          Dates,      \* dates of records
          Firsts,     \* the first days of months among them
          Inputs,     \* create requests: [mode, ...], see Computed
          Taken,      \* withdrawal requests: [type, amount]
          Prices,     \* prices of a gram
          None,       \* no record, weight, request, holder
          MaxRecords, \* bound: records ever
          MaxFaults   \* bound: locks that expire, runs cut off

VARIABLES
  type,        \* "GOLD" or another
  today,       \* the date of the job
  records,     \* account_records in the order of creation; None when deleted
  withdrawals, \* ids of withdrawals: each is the index of its record
  request,     \* per handler: the record it will insert, or None
  lock,        \* lock:assets:gold-monthly
  fired,       \* instances whose timer has fired
  run,         \* per instance: [stage, pending], the record it will insert
  faults,      \* counts the faults
  crossed,     \* ghost: a record was inserted between a look and an insertion, not both of
               \* a job, or a run outlived its lock
  cut,         \* ghost: withdrawals whose record was deleted by hand
  ofJob        \* ghost: the records the job inserted

Idle == [stage |-> "idle", pending |-> None]

vars == <<type, today, records, withdrawals, request, lock, fired, run, faults, crossed, cut,
          ofJob>>

Init ==
  /\ type \in {"GOLD", "OTHER"} /\ today \in {0} \cup Firsts
  /\ records = <<>> /\ withdrawals = {}
  /\ request = [h \in Handlers |-> None]
  /\ lock = None /\ fired = {} /\ run = [s \in Servers |-> Idle]
  /\ faults = 0 /\ crossed = FALSE /\ cut = {} /\ ofJob = {}

-----------------------------------------------------------------------------
(* What the queries find.                                                  *)

Ids == {i \in DOMAIN records : records[i] # None}
On(d)     == {i \in Ids : records[i].date = d}
Before(d) == {i \in Ids : records[i].date < d}
After(d)  == {i \in Ids : records[i].date > d}
Snapshots == {i \in Ids : records[i].kind = "snapshot"}
LastDay(S) == {i \in S : \A j \in S : records[j].date <= records[i].date}
Newest(S)  == CHOOSE i \in LastDay(S) : \A j \in LastDay(S) : j <= i

Least(a, b)    == IF a < b THEN a ELSE b
Greatest(a, b) == IF a > b THEN a ELSE b

Record(d, kind, b, p, q, g) ==
  [date |-> d, kind |-> kind, balance |-> b, principal |-> p, profit |-> q, grams |-> g]

\* createAccountRecord, the three modes.  As typed, profit included, when MANUAL; AUTO adds
\* to the principal of the record before.
Computed(d, in, price) ==
  CASE in.mode = "AUTO" ->
         LET p == (IF Before(d) = {} THEN 0 ELSE records[Newest(Before(d))].principal) + in.added
         IN Record(d, "snapshot", in.balance, p, in.balance - p, None)
    [] in.mode = "GOLD" ->
         LET b == in.grams * price
             p == IF in.cost = None THEN b ELSE in.cost
         IN Record(d, "snapshot", b, p, b - p, in.grams)
    [] in.mode = "MANUAL" ->
         Record(d, "snapshot", in.balance, in.principal, in.profit, None)

\* applyWithdrawal and the balance after it.
Withdrawn(d, r, w) ==
  LET fromFirst == Least(IF w.type = "PRINCIPAL" THEN r.principal ELSE r.profit, w.amount)
      rest      == w.amount - fromFirst
      b         == Greatest(0, r.balance - w.amount)
  IN IF w.type = "PRINCIPAL"
       THEN Record(d, "withdrawal", b, r.principal - fromFirst, Greatest(0, r.profit - rest), None)
       ELSE Record(d, "withdrawal", b, Greatest(0, r.principal - rest), r.profit - fromFirst, None)

Insert(p, others) ==
  /\ Len(records) < MaxRecords
  /\ records' = Append(records, p.record)
  /\ crossed' = (crossed \/ p.seen + 1..Len(records) \cap others # {})

Pending(r) == [record |-> r, seen |-> Len(records)]

-----------------------------------------------------------------------------
(* The requests.                                                           *)

RecordRead(h, d, in, price) ==
  /\ request[h] = None
  /\ On(d) \cap Snapshots = {} /\ After(d) = {}
  /\ in.mode = "GOLD" => type = "GOLD"
  /\ request' = [request EXCEPT ![h] = Pending(Computed(d, in, price))]
  /\ UNCHANGED <<type, today, records, withdrawals, lock, fired, run, faults, crossed, cut, ofJob>>

\* Variant: a withdrawal may be dated before a record.
WithdrawAnyDay(h, d, w) ==
  /\ request[h] = None
  /\ Before(d) \cup On(d) # {}
  /\ request' = [request EXCEPT ![h] =
                   Pending(Withdrawn(d, records[Newest(Before(d) \cup On(d))], w))]
  /\ UNCHANGED <<type, today, records, withdrawals, lock, fired, run, faults, crossed, cut, ofJob>>

\* createWithdrawal builds on the newest record up to the day.
WithdrawRead(h, d, w) ==
  /\ request[h] = None
  /\ Before(d) \cup On(d) # {} /\ After(d) = {}
  /\ request' = [request EXCEPT ![h] =
                   Pending(Withdrawn(d, records[Newest(Before(d) \cup On(d))], w))]
  /\ UNCHANGED <<type, today, records, withdrawals, lock, fired, run, faults, crossed, cut, ofJob>>

\* A withdrawal and its record go in together.
Write(h) ==
  /\ request[h] # None
  /\ Insert(request[h], DOMAIN records)
  /\ withdrawals' = IF request[h].record.kind = "withdrawal"
                      THEN withdrawals \cup {Len(records) + 1} ELSE withdrawals
  /\ request' = [request EXCEPT ![h] = None]
  /\ UNCHANGED <<type, today, lock, fired, run, faults, cut, ofJob>>

\* removeAccountRecord: any record, of a withdrawal as well.
RemoveRecord(i) ==
  /\ i \in Ids
  /\ records' = [records EXCEPT ![i] = None]
  /\ cut' = cut \cup ({i} \cap withdrawals)
  /\ UNCHANGED <<type, today, withdrawals, request, lock, fired, run, faults, crossed, ofJob>>

\* removeWithdrawal: with its record; later records stay as they are.
RemoveWithdrawal(i) ==
  /\ i \in withdrawals
  /\ withdrawals' = withdrawals \ {i}
  /\ records' = [records EXCEPT ![i] = None]
  /\ UNCHANGED <<type, today, request, lock, fired, run, faults, crossed, cut, ofJob>>

\* updateAccount may change the type.
ChangeType ==
  /\ type' \in {"GOLD", "OTHER"} \ {type}
  /\ \A s \in Servers : run[s] = Idle
  /\ UNCHANGED <<today, records, withdrawals, request, lock, fired, run, faults, crossed,
                 cut, ofJob>>

-----------------------------------------------------------------------------
(* createMonthlyGoldRecords, runMonthlyGoldUpdate.                           *)

Fire(s) ==
  /\ today \in Firsts /\ s \notin fired
  /\ fired' = fired \cup {s}
  /\ IF lock = None
       THEN lock' = s /\ run' = [run EXCEPT ![s].stage = "list"]
       ELSE UNCHANGED <<lock, run>>
  /\ UNCHANGED <<type, today, records, withdrawals, request, faults, crossed, cut, ofJob>>

Release(s) == lock' = IF lock = s THEN None ELSE lock
Weighed == {i \in Ids : records[i].grams # None}

\* The newest weight, at the price of today; the principal of the last day before, of
\* any of its records.  Records of withdrawals have no weight.
Look(s) ==
  /\ run[s].stage = "list"
  /\ IF type # "GOLD" \/ Weighed = {} \/ On(today) \cap Snapshots # {}
       THEN Release(s) /\ run' = [run EXCEPT ![s] = Idle]
       ELSE /\ \E price \in Prices, w \in LastDay(Weighed),
                  p \in IF Before(today) = {} THEN {None} ELSE LastDay(Before(today)) :
                 LET b == records[w].grams * price
                     principal == IF p = None THEN b ELSE records[p].principal
                 IN run' = [run EXCEPT ![s] =
                       [stage |-> "make",
                        pending |-> Pending(Record(today, "snapshot", b, principal,
                                                   b - principal, records[w].grams))]]
            /\ UNCHANGED lock
  /\ UNCHANGED <<type, today, records, withdrawals, request, fired, faults, crossed, cut, ofJob>>

Make(s) ==
  /\ run[s].stage = "make"
  /\ Insert(run[s].pending, DOMAIN records \ ofJob)
  /\ ofJob' = ofJob \cup {Len(records) + 1}
  /\ Release(s)
  /\ run' = [run EXCEPT ![s] = Idle]
  /\ UNCHANGED <<type, today, withdrawals, request, fired, faults, cut>>

\* No price, an error of the database, or a crash.
JobFails(s) ==
  /\ run[s] # Idle
  /\ faults < MaxFaults /\ faults' = faults + 1
  /\ run' = [run EXCEPT ![s] = Idle]
  /\ Release(s)
  /\ UNCHANGED <<type, today, records, withdrawals, request, fired, crossed, cut, ofJob>>

LockExpires ==
  /\ lock # None
  /\ faults < MaxFaults /\ faults' = faults + 1
  /\ lock' = None
  /\ crossed' = TRUE
  /\ UNCHANGED <<type, today, records, withdrawals, request, fired, run, cut, ofJob>>

-----------------------------------------------------------------------------
Next ==
  \/ \E h \in Handlers, d \in Dates :
       \/ \E in \in Inputs, price \in Prices : RecordRead(h, d, in, price)
       \/ \E w \in Taken : WithdrawRead(h, d, w)
  \/ \E h \in Handlers : Write(h)
  \/ \E i \in 1..MaxRecords : RemoveRecord(i) \/ RemoveWithdrawal(i)
  \/ \E s \in Servers : Fire(s) \/ Look(s) \/ Make(s) \/ JobFails(s)
  \/ ChangeType \/ LockExpires

Spec == Init /\ [][Next]_vars

-----------------------------------------------------------------------------
Row ==
  [date : Dates, kind : {"snapshot", "withdrawal"}, balance : Nat, principal : Nat,
   profit : Int, grams : {None} \cup Nat]
Insertion == [record : Row, seen : Nat]
Run == [stage : {"idle", "list"}, pending : {None}] \cup [stage : {"make"}, pending : Insertion]

ConstantsAssumption ==
  /\ None \notin Row \cup Insertion \cup Servers \cup Nat
  /\ Dates \subseteq Int /\ Firsts \subseteq Dates
  /\ Inputs \subseteq [mode : {"AUTO"}, balance : Nat, added : Nat]
               \cup [mode : {"GOLD"}, grams : Nat, cost : {None} \cup Nat]
               \cup [mode : {"MANUAL"}, balance : Nat, principal : Nat, profit : Int]
  /\ Taken \subseteq [type : {"PRINCIPAL", "PROFIT"}, amount : Nat] /\ Prices \subseteq Nat
  /\ MaxFaults \in Nat

TypeOK ==
  /\ type \in {"GOLD", "OTHER"} /\ today \in {0} \cup Firsts
  /\ records \in Seq({None} \cup Row)
  /\ withdrawals \subseteq DOMAIN records /\ cut \subseteq DOMAIN records
  /\ ofJob \subseteq DOMAIN records
  /\ request \in [Handlers -> {None} \cup Insertion]
  /\ lock \in {None} \cup Servers /\ fired \subseteq Servers /\ run \in [Servers -> Run]
  /\ faults \in 0..MaxFaults /\ crossed \in BOOLEAN

\* A record that a computation wrote: its balance is the principal and the profit.
Balanced(r) == r.balance = r.principal + r.profit

\* A withdrawal finds no account at a loss, or takes from the profit.
Safe(r, w) == r.profit >= 0 \/ w.type = "PROFIT"

\* The job goes on with the last day before, when its one record has a weight.
ContinuesLast(r) ==
  \A i \in LastDay(Before(today)) :
    LastDay(Before(today)) = {i} /\ i \in LastDay(Weighed) =>
      r.grams = records[i].grams /\ r.principal = records[i].principal

\* The records of an account make one history, unless a record was inserted between a look
\* and an insertion (the lock keeps those of the job apart): a date has one snapshot,
\* whoever of users and instances made it, and what is created later is dated no earlier,
\* so that the newest record is the state of the account (the job of a month looks at its
\* own day alone); the record of the month keeps weight and principal; every withdrawal
\* has its record, until that is deleted by hand; and a withdrawal leaves a balance that is
\* principal plus profit, but for principal taken from an account at a loss
\* (createAccountRecord, createWithdrawal, removeAccountRecord, removeWithdrawal,
\* runMonthlyGoldUpdate).
RecordsMakeOneHistory ==
  /\ ~crossed =>
       /\ \A d \in Dates : Cardinality(On(d) \cap Snapshots) <= 1
       /\ \A i, j \in Ids : i < j /\ records[j].date # today =>
            records[i].date <= records[j].date
  /\ \A s \in Servers : run[s].stage = "make" /\ run[s].pending.seen = Len(records)
       => \/ \E i \in DOMAIN records : records[i] = None
          \/ ContinuesLast(run[s].pending.record)
  /\ \A i \in withdrawals \ cut : records[i] # None /\ records[i].kind = "withdrawal"
  /\ \A i \in Ids : records[i].kind = "withdrawal" => i \in withdrawals
  /\ \A i \in Ids, d \in Dates, w \in Taken :
       Balanced(records[i]) /\ Safe(records[i], w) => Balanced(Withdrawn(d, records[i], w))

=============================================================================
