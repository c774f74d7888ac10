------------------------- MODULE HouseholdStatistics -------------------------
(***************************************************************************)
(* The sums a household is shown: of a month, of a year, and of the          *)
(* expenses of one recurring expense.                                      *)
(*                                                                         *)
(* A transaction is an expense or an income of some month; an income may     *)
(* refund an expense, and both kinds may be carried over from the month       *)
(* before.  Requests may leave out refunds and what is carried over.  The     *)
(* month and the year are computed by separate code.                       *)
(***************************************************************************)
EXTENDS Integers, FiniteSets, FiniteSetsExt

CONSTANTS Ids,      \* ids of transactions
          Months,   \* the months of the year
          AmountOf, \* the amount of each transaction
          None      \* no refund, no budget

VARIABLE input \* transactions: [type, month, category, refunds]

\* What is refunded is any transaction: no request checks that it is an expense.
Tx ==
  [type : {"EXPENSE"}, month : Months, category : {"FOOD", "CARRYOVER"}, refunds : {None}]
  \cup
  [type : {"INCOME"}, month : Months, category : {"SALARY", "CARRYOVER"},
   refunds : {None} \cup Ids]

Init == input \in [Ids -> Tx]

Sum(S) == MapThenSumSet(LAMBDA i : AmountOf[i], S)

\* The incomes that refund, among S, and what they refund.
Excluded(S, txs) ==
  LET refunding == {i \in S : txs[i].type = "INCOME" /\ txs[i].refunds # None}
  IN refunding \cup {txs[i].refunds : i \in refunding}

\* The transactions of S that count.
Counted(S, txs, noRefunds, noCarryover) ==
  {i \in S : /\ noRefunds => i \notin Excluded(S, txs)
             /\ noCarryover => txs[i].category # "CARRYOVER"}

OfType(S, txs, type) == {i \in S : txs[i].type = type}
InMonth(txs, m) == {i \in Ids : txs[i].month = m}

\* getStatistics: refunds are looked for in the month alone.
Monthly(txs, m, noRefunds, noCarryover) ==
  LET counted  == Counted(InMonth(txs, m), txs, noRefunds, noCarryover)
      expenses == OfType(counted, txs, "EXPENSE")
      incomes  == OfType(counted, txs, "INCOME")
      of(c)    == {i \in expenses : txs[i].category = c}
  IN [income |-> Sum(incomes), expense |-> Sum(expenses),
      balance |-> Sum(incomes) - Sum(expenses),
      categories |-> [c \in {txs[i].category : i \in expenses} |->
                        [total |-> Sum(of(c)), count |-> Cardinality(of(c))]]]

\* getStatistics: the budget of all categories, or of the whole when that is more.
TotalBudget(budgets, whole) ==
  LET sum == MapThenSumSet(LAMBDA c : budgets[c], DOMAIN budgets)
  IN IF whole # None /\ whole > sum THEN whole ELSE sum

\* getYearlyStatistics: refunds are looked for in the whole year.
YearMonth(txs, m, noRefunds, noCarryover) ==
  LET counted == Counted(Ids, txs, noRefunds, noCarryover) \cap InMonth(txs, m)
  IN [income |-> Sum(OfType(counted, txs, "INCOME")),
      expense |-> Sum(OfType(counted, txs, "EXPENSE")),
      count |-> Cardinality(counted)]

\* Variant: what is carried over is left out of the months and not of the totals.
YearTotalsAll(txs, noRefunds, noCarryover) ==
  LET counted == Counted(Ids, txs, noRefunds, FALSE)
  IN [income |-> Sum(OfType(counted, txs, "INCOME")),
      expense |-> Sum(OfType(counted, txs, "EXPENSE"))]

\* The totals of the year are summed up again from the transactions.
YearTotals(txs, noRefunds, noCarryover) ==
  LET counted == Counted(Ids, txs, noRefunds, noCarryover)
  IN [income |-> Sum(OfType(counted, txs, "INCOME")),
      expense |-> Sum(OfType(counted, txs, "EXPENSE"))]

\* getRecurringExpenseHistory of a variable one, over its confirmed expenses.
History(S) ==
  IF S = {} THEN None
  ELSE [total |-> Sum(S), count |-> Cardinality(S),
        min |-> CHOOSE a \in {AmountOf[i] : i \in S} : \A i \in S : a <= AmountOf[i],
        max |-> CHOOSE a \in {AmountOf[i] : i \in S} : \A i \in S : a >= AmountOf[i]]

-----------------------------------------------------------------------------
\* No refund is of another month.
RefundsStay == \A i \in Ids : input[i].refunds # None =>
                 input[input[i].refunds].month = input[i].month

\* The three computations agree: the totals of the year are the sums of its months,
\* a month shows the same in its own statistics and in the year's, as long as what is
\* refunded and the refund are of one month or refunds are not left out, and the
\* categories of a month add up to its expenses (getStatistics,
\* getYearlyStatistics).  The average of a history lies between its extremes.
StatisticsAgree ==
  \A r, c \in BOOLEAN :
    LET year == [m \in Months |-> YearMonth(input, m, r, c)] IN
      /\ YearTotals(input, r, c) =
           [income |-> MapThenSumSet(LAMBDA m : year[m].income, Months),
            expense |-> MapThenSumSet(LAMBDA m : year[m].expense, Months)]
      /\ \A m \in Months :
           LET month == Monthly(input, m, r, c) IN
             /\ ~r \/ RefundsStay =>
                  month.income = year[m].income /\ month.expense = year[m].expense
             /\ month.expense = MapThenSumSet(LAMBDA k : month.categories[k].total,
                                              DOMAIN month.categories)
             /\ month.balance = month.income - month.expense
             /\ LET h == History(InMonth(input, m)) IN
                  h # None => h.min * h.count <= h.total /\ h.total <= h.max * h.count

=============================================================================
