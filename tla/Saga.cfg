\* Two transactions over two files, in one run or in two; one edit by somebody
\* else, two crashes.
SPECIFICATION Spec
CONSTANTS
    Files = {f1, f2}
    MaxTx = 2
    MaxEdits = 1
    MaxCrashes = 2
    Faults = TRUE
SYMMETRY Alike
INVARIANTS CancelUndoes JournalIsTrue
PROPERTIES AppliedWorkStays
