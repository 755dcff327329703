\* Three jobs, of which two wait from the start, one request of any kind, one
\* process that dies by itself (the request may kill another). The leases suffice.
SPECIFICATION FairSpec
CONSTANTS
    Jobs = {1, 2, 3}
    Waiting = {1, 2}
    Commands = {1}
    Leases = {1, 2, 3, 4}
    MaxFaults = 1
CHECK_DEADLOCK FALSE
INVARIANTS NothingTwice RunningIsWatched OutcomeIsTrue HalfDoneIsKept
PROPERTIES JobsSettle
