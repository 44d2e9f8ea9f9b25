SPECIFICATION ShellFairSpec
CONSTANTS
    s1 = s1
    s2 = s2
    s3 = s3
    Sessions = {s1}
    NoSession = NoSession
CHECK_DEADLOCK FALSE
PROPERTIES ShellEnds
