SPECIFICATION FairSpec
CONSTANTS
    None = None
    NewDraft = n1
    First = "sent"
    Forwarded = {}
    Own = {}
    Replies = {r1, r2}
    UserActs = {}
    ReplicaActs = {}
    MaxId = 3
    MaxCrash = 2
    UpdateCrash = FALSE
    ReplyCrash = FALSE
    LateAcks = FALSE
    TwoClients = FALSE
    Size <- MCSize
CHECK_DEADLOCK FALSE
INVARIANTS DraftsAgree
PROPERTIES ImplementsLog Recovers
