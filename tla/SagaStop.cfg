\* Two transactions over one file, nobody else and no crash.
SPECIFICATION Spec
CONSTANTS
    Files = {f1}
    MaxTx = 2
    MaxEdits = 0
    MaxCrashes = 0
    Faults = FALSE
INVARIANTS StopUndoes
