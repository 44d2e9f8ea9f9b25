SPECIFICATION ForwardsSpec
CONSTANTS
    web = web
    db = db
    http = http
    psql = psql
    Containers = {web, db}
    Ports = {http, psql}
    Nobody = Nobody
    MaxRm = 1
    t1 = t1
    t2 = t2
    t3 = t3
    t4 = t4
    Clients = {t1, t2, t3, t4}
    Forwarded = {http, psql}
    PortOf <- ThreeAndOne
    NoChannel = NoChannel
CHECK_DEADLOCK FALSE
INVARIANTS Closable ForwardTried Exclusive OwnTunnel Conserved
PROPERTIES StaysForwarded Ended
