SPECIFICATION FilesSpec
CONSTANTS
    Update = {u1, u2}
    Once = {u1}
    SyncFaults = {"seen", "refuses"}
    MaxSyncCrashes = 1
    MaxResends = 0
    NoUpdate = no
    Torn = torn
    Value = {v1, v2, v3}
    Empty = empty
    None = None
INVARIANT SyncNoQuit
CHECK_DEADLOCK FALSE
