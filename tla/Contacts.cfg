SPECIFICATION Spec
CONSTANTS
    Alias = {"a", "b"}
    Uid = {"u", "v"}
    Peer <- PeerPairs
    Kinds = {"ping", "invite"}
    Mail <- Arriving
    CcLists <- CcOneTwo
    QueuedEdits = FALSE
    MaxLog = 3
    MaxDrafts = 1
    MaxSends = 2
    MaxAbCrashes = 1
    Member = {m, n}
    OwnMsg = {x, y}
    Self = self
    Other = other
    Faults = {"none", "overlap", "redelivery", "second", "refusal", "timeout"}
    MaxForwards = 2
    MaxSaves = 2
    MaxTold = 1
    MaxResend = 3
    MaxFwdCrashes = 1
    OhiUser = {m}
    OhiFaults = {"none", "overtakes", "refuses"}
    MaxEdits = 3
    MaxStatus = 2
    MaxOhiCrashes = 1
    StaleReplica = FALSE
    MaxNotices = 5
    CountThread = {t1, t2, t3}
    Overtakes = FALSE
    MaxUnseen = 2
    MaxCountCrashes = 1
INVARIANTS BookSound LogSound SendsLogged ForwardSound ForwardsEnd OhiSound CountSound
PROPERTIES NoticesSound
\* every part waits for requests of pages or for the server
CHECK_DEADLOCK FALSE
