\* Three attempts at two requests with two possible messages, two procedures with two versions each.
CONSTANTS
    None = None
    Attempts = {t1, t2, t3}
    Requests = {r1, r2}
    Payloads = {m1, m2}
    Procedures = {p, q}
    Active = {p, q}
    MaxVersion = 2
    MaxTries = 3
SYMMETRY Symmetry
SPECIFICATION Spec
PROPERTIES
    OneAnswerPerRequest
    PinIsStable
    ProposalOverwritesOnlyWhatItSaw
    ImplementsConversation
CHECK_DEADLOCK FALSE
