SPECIFICATION Spec
CONSTANTS
    Drafts = {}
    Accepts = {}
    Logs = {s1}
    Confirms = {c1}
    Edits = {}
    ShortAliases = {l1}
    None = None
    AckCap = 1
    Periodic = FALSE
    MaxSubmit = 1
    MaxClock = 1
    MaxFaults = 2
SYMMETRY Symmetry
INVARIANTS AcksBacked NoneForgotten FirstReadInOrder
