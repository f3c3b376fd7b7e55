\* Two callers, two daemons, each spawned once; two tasks share a harness's handle; two
\* users of two requests; three pages and every limit on them.
CONSTANTS
    Ids = {d1, d2}
    Pids = {p1, p2}
    Callers = {c1, c2}
    Respawn = FALSE
    None = None
    TestPids = {1}
    TestTasks = {t1, t2}
    Users = {u1, u2}
    RequestsPerUser = 2
    Latencies = {1, 2}
    RpsIsUsable = TRUE
    Pages = {g1, g2, g3}
    LockLimits = {0, 1, 2}
SPECIFICATION NativeSpec
CHECK_DEADLOCK FALSE
INVARIANTS
    NoStraySignals
    StopMeansDead
    NoneLost
    ShutdownMeansDown
    ReportAddsUp
    LockHolds
PROPERTIES
    StopEnds
    ShutdownEnds
