\* Two versions, two drafts, two calls.
CONSTANTS
    None = None
    Nil = Nil
    Versions = {v1, v2}
    Drafts = {d1, d2}
    Calls = {c1, c2}
SYMMETRY Symmetry
SPECIFICATION Spec
INVARIANTS
    DraftNamesItsVersion
    PublishedWasActive
    AnswersTellTheTruth
PROPERTIES
    ImplementsActiveVersion
CHECK_DEADLOCK FALSE
