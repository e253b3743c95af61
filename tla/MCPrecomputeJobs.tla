-------------------------- MODULE MCPrecomputeJobs --------------------------
(* Two interchangeable channels and two interchangeable tasks of Alice's.   *)
EXTENDS PrecomputeJobs, TLC

CONSTANTS c1, c2, t1, t2

TwoChannels == {c1, c2}
TwoTasks == {t1, t2}
JobSymmetry == Permutations(TwoChannels) \cup Permutations(TwoTasks)

=============================================================================
