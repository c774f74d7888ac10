-------------------------- MODULE MCGroupMembership --------------------------
EXTENDS GroupMembership, TLC

\* What follows a write on changed grounds is not explored: every property has
\* the premise ~stale.  Nor is a group whose owner's account was deleted.
Meaningful == ~stale /\ ~ownerPurged

Symmetry == Permutations(Users) \cup Permutations(Handlers)
=============================================================================
