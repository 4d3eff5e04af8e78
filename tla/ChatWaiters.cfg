\* Three attempts at one request; two rounds of waiting, so that a waiter may give up.
CONSTANTS
    None = None
    Attempts = {t1, t2, t3}
    Requests = {r1}
    Payloads = {m1}
    Procedures = {p, q}
    Active = {p, q}
    MaxVersion = 1
    MaxTries = 2
SPECIFICATION FairSpec
INVARIANTS
    WaitsAreForWork
PROPERTIES
    WaitersEnd
CHECK_DEADLOCK FALSE
