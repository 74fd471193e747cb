SPECIFICATION Spec
CONSTANTS
    Client = {a}
    Topic = {t1, t2, t3}
    Sent = {t1}
    HistoryLen = {2, 3}
    Hasty = FALSE
    MaxRefs = 3
    TabClient = {a}
    Term = {x, y, z}
    MaxTabs = 3
    NodeName = {"a", "b"}
    NodeAddr = {"x", "y"}
    NodeFaults = {"twice", "refused", "crash", "namesake", "meanwhile"}
    MaxNodeAdds = 3
    MaxFailures = 1
    MaxNodeCrashes = 1
    MaxNamesakes = 1
    TagName = {"x"}
    TagFaults = {"late", "second", "crash", "redo"}
    MaxTags = 2
    MaxMarks = 1
    MaxTagCrashes = 1
    MaxSuffix = 2
INVARIANTS HistorySound TabsSound NodesRight NodesGoOn TagsSound TagsShared
PROPERTIES HistoryMoves NoTabLost
\* every part may wait: for a connection, for a process that starts, for requests of
\* pages or for the server
CHECK_DEADLOCK FALSE
