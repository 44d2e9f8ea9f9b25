SPECIFICATION MergeSpec
CONSTANTS
    Paths <- SmallPaths
    Wh = 2
    LinkTo <- TheFile
INVARIANTS MergeTypeOK MergeCorrect FailsByKind
CHECK_DEADLOCK FALSE
