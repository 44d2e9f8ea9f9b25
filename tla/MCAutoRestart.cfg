SPECIFICATION Spec
CONSTANTS
    Names = {n1}
    Links = {n1}
    LinkOf <- OwnLink
    Callers = {c1}
    Main = c1
    Objs = {o1, o2}
    Pids = {p1, p2}
    alpine = alpine
    debian = debian
    Images = {alpine, debian}
    External = External
    Existing = Existing
    Params <- OneKind
    NoObj = NoObj
    NoPid = NoPid
    NoConfig = NoConfig
    NoName = NoName
    Empty = Empty
    Absent = Absent
    OverlayFS = TRUE
    DiskFaults = FALSE
    AgentRestarts = FALSE
    MaxRestarts = 1
SYMMETRY Symmetric
INVARIANTS AutoRestartsOnlyRunning
