\* Two requests for the first of two goals, sent in one chat; the first run makes
\* up to two provider turns at once. One crash or failed anchor write.
SPECIFICATION FairSpec
CONSTANTS
    q1 = q1  r1 = r1  r2 = r2
    Requests = {r1, r2}
    Slots = {s1, s2}
    ThreadOf <- OwnThread
    Procs = {p1}
    Queues = {q1}
    TurnsOf <- FirstOnly
    N = 2
    TargetOf <- FirstGoal
    ChatOf <- OneChat
    MaxFaults = 1
    None = None
    Gone = Gone
CHECK_DEADLOCK FALSE
INVARIANTS CompletedInOrder NothingLeftInDoubt AlwaysOpens
PROPERTIES StopIsFinal GoalComesBack
