\* Two batches, two processes, two attempts at a batch, one retry, one stall.
CONSTANTS
    None = None
    BatchCount = 2
    Owners = {o1, o2}
    MaxAttempts = 2
    MaxRetries = 1
    MaxStalls = 1
SPECIFICATION FairSpec
INVARIANTS
    CallsAreBounded
PROPERTIES
    FinishedBatchStands
    ImplementsLedger
    JobEnds
CHECK_DEADLOCK FALSE
