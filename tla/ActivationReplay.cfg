\* Expected to be violated: a create request that answered from a filled target is repeated.
CONSTANTS
    None = None
    Nil = Nil
    Versions = {v1, v2}
    Drafts = {d1}
    Calls = {c1, c2}
SYMMETRY Symmetry
SPECIFICATION Spec
INVARIANTS
    RetriesKeepTheVersion
CHECK_DEADLOCK FALSE
