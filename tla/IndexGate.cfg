\* Two slots and two calls.
CONSTANTS
    None = None
    Slots = {s1, s2}
    Calls = {c1, c2}
SYMMETRY Symmetry
SPECIFICATION Spec
INVARIANTS
    AnswersAreOwn
    PendingCounts
    ReadyIsWhole
    RecoveringIsDecided
PROPERTIES
    ImplementsAdmission
CHECK_DEADLOCK FALSE
