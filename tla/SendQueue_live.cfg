SPECIFICATION FairSpec
CONSTANTS
    Drafts = {d1}
    Accepts = {a1}
    Logs = {}
    Confirms = {}
    Edits = {}
    ShortAliases = {}
    None = None
    AckCap = 1
    Periodic = TRUE
    MaxSubmit = 1
    MaxClock = 0
    MaxFaults = 2
INVARIANTS TypeOK PayloadKept OneToken StopAndWait
PROPERTIES ImplementsOutbox EventuallyRetired
