SPECIFICATION EitherSpec
CONSTANTS
    web = web
    webserver1 = webserver1
    webserver2 = webserver2
    Containers = {web, webserver1, webserver2}
    Nobody = Nobody
    NoIP = NoIP
    FirstIP = 2
    LastIP = 4
    HostEnd <- CutNames
    PeerEnd <- Own
    Copied = {}
    Runners = {web}
    s1 = s1
    s2 = s2
    s3 = s3
    Sessions = {s1, s2, s3}
    NoSession = NoSession
INVARIANTS DistinctUntilWrap ShownIsWired NoStrayPair DialReachesOwner
    OneTerminal Tracked OwnShell
\* The sessions may all be over.
CHECK_DEADLOCK FALSE
