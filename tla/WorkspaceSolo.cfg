\* One goal with two edits against a user with one, all of which may be taken
\* back; two files, three interrupted calls.
SPECIFICATION Spec
CONSTANTS
    g1 = g1  u1 = u1  a1 = a1  a2 = a2
    Goals = {g1}
    Files = {f1, f2}
    Edits <- MCEdits
    Author <- OneGoal
    Undoable = {u1, a1, a2}
    MaxCrashes = 3
    None = None
SYMMETRY SoloSymmetry
CHECK_DEADLOCK FALSE
INVARIANTS OnlyOwnDelta
PROPERTIES NoLostUpdate AgentWorkKept PublishedIsVerified
