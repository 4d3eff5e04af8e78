\* One link, two claims (of one request or of two), one cleanup attempt each.
CONSTANTS
    None = None
    Versions = {v1}
    Requests = {r1, r2}
    Dispatches = {d1, d2}
    MaxConcurrent = 1
    MaxCleanupAttempts = 1
SYMMETRY Symmetry
SPECIFICATION Spec
INVARIANTS
    DocumentStatusAgrees
    ReadyDocumentIsServed
    TypeOK
    ActiveIsTheReadyGeneration
    PublishedDataIntact
    PinnedStaysRetrievable
    ProcessingHasItsJob
    JobMatchesGeneration
    CleanedIsGone
PROPERTIES
    ServingSurvives
    ImplementsServing
CHECK_DEADLOCK FALSE
