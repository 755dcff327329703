SPECIFICATION Spec
CONSTANTS
    root = root
    left = left
    right = right
    None = None
    Goals <- MCGoals
    Chats = {}
    Shared <- OneProjectShared
    ModesOf <- NestedModes
    MaxCrashes = 1
INVARIANTS OwnerExclusion BlockerIsOwner UnsettledKeepsOwnership
PROPERTIES ReleasePromotes NoOvertaking
CHECK_DEADLOCK FALSE
