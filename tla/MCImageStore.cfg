SPECIFICATION Spec
CONSTANTS
    Tags = {t1, t2}
    Builtin = builtin
    SameRepo = TRUE
    Digests <- TwoDigests
    Layers = 2
    c1 = c1
    Containers = {c1}
    NoBase = NoBase
    NoName = NoName
    NoContainer = NoContainer
    MaxRestarts = 2
    MaxPushes = 1
INVARIANTS CompleteBases
PROPERTIES PulledBase
SYMMETRY Symmetric
