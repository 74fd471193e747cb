SPECIFICATION Spec
CONSTANTS
    None = None
    NewDraft = n1
    First = "received"
    Forwarded = {}
    Own = {}
    Replies = {r1}
    UserActs = {}
    ReplicaActs = {}
    MaxId = 2
    MaxCrash = 1
    UpdateCrash = FALSE
    ReplyCrash = TRUE
    LateAcks = FALSE
    TwoClients = FALSE
    Size <- MCSize
CHECK_DEADLOCK FALSE
INVARIANT NothingLost
