\* One link, two requests, two claims, the cleanup job not scheduled, one slot.
CONSTANTS
    None = None
    Versions = {v1}
    Requests = {r1, r2}
    Dispatches = {d1, d2}
    MaxConcurrent = 1
    MaxCleanupAttempts = 1
SPECIFICATION FairSpecNoCleanup
PROPERTIES
    ProcessingIsDecidedOrRecoverable
    DispatchSettles
CHECK_DEADLOCK FALSE
