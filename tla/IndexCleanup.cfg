\* One link, one claim, three cleanup attempts, no symmetry.
CONSTANTS
    None = None
    Versions = {v1}
    Requests = {r1}
    Dispatches = {d1}
    MaxConcurrent = 1
    MaxCleanupAttempts = 3
SPECIFICATION FairSpec
PROPERTIES
    AbandonedGenerationIsCleaned
CHECK_DEADLOCK FALSE
