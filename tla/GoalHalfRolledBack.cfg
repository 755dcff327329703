SPECIFICATION Spec
CONSTANTS
    a = a
    b = b
    c = c
    None = None
    Tasks <- Both
    Founders <- Both
    RequireAll = TRUE
    MaxParallel = 1
    Budget = 3
    Actions = {"edit", "deliver", "complete", "ask", "context"}
    Controls = {"pause", "resume", "cancel", "retry", "steer"}
    MaxEpoch = 2
    MaxCrashes = 1
    CrashInRollback = TRUE
INVARIANTS AtBoundary
CHECK_DEADLOCK FALSE
