SPECIFICATION TagsSpec
CONSTANTS
    TagName = {"x"}
    TagFaults = {"redo"}
    MaxTags = 2
    MaxMarks = 0
    MaxTagCrashes = 1
    MaxSuffix = 2
INVARIANTS TagsReopen
CHECK_DEADLOCK FALSE
