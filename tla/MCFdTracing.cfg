CONSTANTS
    Pid = {p1, p2}
    Fd = {f1, f2}
    NoPid = NoPid
    NoFd = NoFd
    Unbound = Unbound
    Closed = Closed
    Idle = Idle
    Behaviours = {{}, {"strangers"}, {"split"}, {"selfdup"}, {"threads"}, {"split", "selfdup", "strangers", "threads"}}
    MaxEvents = 4
    MaxUnusual = 3
SPECIFICATION Spec
SYMMETRY Symmetry
INVARIANTS TablesAgree NothingForgotten OpenMeansOpen ChainReachesOrigin
CHECK_DEADLOCK FALSE
