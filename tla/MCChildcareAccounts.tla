------------------------- MODULE MCChildcareAccounts -------------------------
(* The runs of ChildcareAccounts: a month of one day and one of two.      *)
EXTENDS ChildcareAccounts, TLC

ThreeDays == <<[month |-> 1, day |-> 1, last |-> 1],
               [month |-> 2, day |-> 1, last |-> 2],
               [month |-> 2, day |-> 2, last |-> 2]>>

TwoSettings == {[points |-> 1, payDay |-> 1], [points |-> 1, payDay |-> 2]}

\* More goes into savings than the allowance brings.
OnePlan == {[monthly |-> 2, interest |-> 1, ends |-> 2]}

\* What follows a write on an account that changed since it was read is not
\* explored: the properties of points have it as their premise, and the jobs'
\* properties do not depend on it.
Meaningful == mixed = {}

\* Instances run the same code, and so do requests.
Symmetry == Permutations(Instances) \cup Permutations(Handlers)

=============================================================================
