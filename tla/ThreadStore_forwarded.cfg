SPECIFICATION Spec
CONSTANTS
    None = None
    NewDraft = n1
    First = "forwarded"
    Forwarded = {1}
    Own = {}
    Replies = {r1}
    UserActs = {"see"}
    ReplicaActs = {"tag"}
    MaxId = 2
    MaxCrash = 1
    UpdateCrash = FALSE
    ReplyCrash = TRUE
    LateAcks = FALSE
    TwoClients = FALSE
    Size <- MCSize
CHECK_DEADLOCK FALSE
INVARIANTS SeenIsSynced SearchAgrees
