SPECIFICATION Spec
CONSTANTS
    None = None
    NewDraft = n1
    First = "received"
    Forwarded = {}
    Own = {}
    Replies = {}
    UserActs = {"see"}
    ReplicaActs = {}
    MaxId = 1
    MaxCrash = 1
    UpdateCrash = TRUE
    ReplyCrash = FALSE
    LateAcks = FALSE
    TwoClients = FALSE
    Size <- MCSize
CHECK_DEADLOCK FALSE
INVARIANT NoFatal
