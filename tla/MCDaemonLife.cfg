SPECIFICATION LifeFairSpec
CONSTANTS
    c1 = c1
    c2 = c2
    Clients = {c1, c2}
    Stoppers = {c2}
    Nobody = Nobody
    Error = Error
    MaxConns = 2
CHECK_DEADLOCK FALSE
INVARIANTS ReplyMatches AnswersStayOnConnection NoneCutOff
PROPERTIES EveryRequestEnds Reconnects StopEndsDaemon
