SPECIFICATION Spec
CONSTANTS
    changed = changed
    edited = edited
    new = new
    gone = gone
    None = None
    Files <- Plan
    Created <- New
    Deleted <- Gone
    MaxEdits = 2
    MaxCrashes = 2
PROPERTIES AllOrNothing EditsKept
CHECK_DEADLOCK FALSE
