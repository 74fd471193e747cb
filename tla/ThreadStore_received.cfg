SPECIFICATION Spec
CONSTANTS
    None = None
    NewDraft = n1
    First = "received"
    Forwarded = {}
    Own = {3}
    Replies = {r1}
    UserActs = {}
    ReplicaActs = {"see", "untag", "tag"}
    MaxId = 3
    MaxCrash = 1
    UpdateCrash = FALSE
    ReplyCrash = FALSE
    LateAcks = FALSE
    TwoClients = FALSE
    Size <- MCSize
CHECK_DEADLOCK FALSE
INVARIANTS NoFatal WellFormed MessagesInOrder NothingLost
PROPERTY ImplementsLog
