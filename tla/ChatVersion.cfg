\* Expected to be violated: a question about another procedure leads back to a newer version than the pinned one.
CONSTANTS
    None = None
    Attempts = {t1, t2, t3}
    Requests = {r1, r2}
    Payloads = {m1}
    Procedures = {p, q}
    Active = {p, q}
    MaxVersion = 2
    MaxTries = 3
SYMMETRY Symmetry
SPECIFICATION Spec
PROPERTIES
    DecidedByThePinnedVersion
CHECK_DEADLOCK FALSE
