\* Two saves, two sessions: the second one begins on a new machine after the last save.
CONSTANTS
    None = None
    Broken = Broken
    MaxStep = 2
    MaxSession = 2
    MaxSnapshot = 6
    Budget = 4
SPECIFICATION Spec
INVARIANTS
    BestIsKept
CHECK_DEADLOCK FALSE
