SPECIFICATION FairSpec
CONSTANTS
    whole = whole
    left = left
    right = right
    Workers <- Threads
    Overlaps <- Nested
    Processes <- Servers
    MaxStalls = 1
    MaxLost = 1
    MaxCrashes = 1
INVARIANTS Exclusive TicketsAccounted
PROPERTIES PrecedenceKept TicketServed
CHECK_DEADLOCK FALSE
