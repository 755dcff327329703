SPECIFICATION FairSpec
CONSTANTS
    a = a
    b = b
    c = c
    None = None
    Tasks <- Both
    Founders <- Both
    RequireAll = FALSE
    MaxParallel = 2
    Budget = 3
    Actions = {"deliver", "ask"}
    Controls = {"pause", "resume", "cancel", "steer"}
    MaxEpoch = 2
    MaxCrashes = 1
    CrashInRollback = FALSE
INVARIANTS WritesAreCurrent CancelledIsQuiet
PROPERTIES NothingBehindAStop CancellationDrains
CHECK_DEADLOCK FALSE
