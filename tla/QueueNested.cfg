SPECIFICATION Spec
CONSTANTS
    root = root
    left = left
    right = right
    None = None
    Goals <- MCGoals
    Chats <- Sides
    Shared <- NestedShared
    ModesOf <- LegacyModes
    MaxCrashes = 1
INVARIANTS RunnersExclusive
CHECK_DEADLOCK FALSE
