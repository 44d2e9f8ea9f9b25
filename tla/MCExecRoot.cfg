SPECIFICATION AccessSpec
CONSTANTS
    web = web
    webserver1 = webserver1
    webserver2 = webserver2
    Containers = {web}
    Nobody = Nobody
    NoIP = NoIP
    FirstIP = 2
    LastIP = 2
    HostEnd <- Own
    PeerEnd <- Own
    Copied = {web}
    Runners = {web}
INVARIANTS ExecSeesOwnRoot
