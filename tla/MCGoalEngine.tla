---------------------------- MODULE MCGoalEngine ----------------------------
(* Instances of GoalEngine: a shared team of two named members with room for  *)
(* one more task, and a solo goal with two independent tasks.                 *)
EXTENDS GoalEngine, TLC

CONSTANTS a, b, c

Both == {a, b}
Three == {a, b, c}
Swap == Permutations(Both)
=============================================================================
