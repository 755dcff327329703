--------------------------- MODULE MCGoalWorkspaces ---------------------------
\* Instances of GoalWorkspaces: who makes which edit.
EXTENDS GoalWorkspaces, TLC

CONSTANTS g1, u1, a1, a2

MCEdits == {u1, a1, a2}
OneGoal == [e \in MCEdits |-> IF e = u1 THEN None ELSE g1]

\* The files are alike, and so are the agents' edits.
SoloSymmetry == Permutations(Files) \cup Permutations({a1, a2})
===============================================================================
