SPECIFICATION Spec
CONSTANTS
    a = a
    b = b
    c = c
    None = None
    Tasks <- Three
    Founders <- Both
    RequireAll = TRUE
    MaxParallel = 1
    Budget = 4
    Actions = {"edit", "deliver", "complete", "ask", "context"}
    Controls = {"resume", "cancel", "retry", "steer"}
    MaxEpoch = 2
    MaxCrashes = 2
    CrashInRollback = FALSE
INVARIANTS LandsOnce AtBoundary EveryMemberKeepsACall AgreedOnTheResult
PROPERTIES ChangesReopen AppliedIsRecorded HalfMadeIsKept
SYMMETRY Swap
CHECK_DEADLOCK FALSE
