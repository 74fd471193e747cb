SPECIFICATION FilesLiveSpec
CONSTANTS
    Update = {u1, u2}
    Once = {u1}
    SyncFaults = {"seen", "refuses"}
    MaxSyncCrashes = 2
    MaxResends = 1
    NoUpdate = no
    Torn = torn
    Value = {v1, v2, v3}
    Empty = empty
    None = None
INVARIANTS LogsKept AlwaysWhole
PROPERTIES ImplementsStream ReachesReplicas ImplementsFile
\* the log waits for updates, and a process may end itself
CHECK_DEADLOCK FALSE
