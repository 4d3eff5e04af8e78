\* Five saves, three sessions, room for four checkpoints.
CONSTANTS
    None = None
    Broken = Broken
    MaxStep = 5
    MaxSession = 3
    MaxSnapshot = 11
    Budget = 4
SPECIFICATION Spec
INVARIANTS
    RetainedSnapshotsResolve
    SnapshotsAreOneLine
    SnapshotsFitBudget
    ResumesAdvertised
    FinishedRunStands
PROPERTIES
    ImplementsHistory
CHECK_DEADLOCK FALSE
