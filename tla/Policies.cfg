\* Three breaker threads; two callers of a limiter, two pids; every restart policy with
\* one supervisor; up to three checks of a gate.
CONSTANTS
    Threads = {t1, t2, t3}
    FailureThreshold = 2
    RecoveryTimeout = 1
    NoInstant = NoInstant
    GroupPids = {1, 2}
    LimitCallers = {c1, c2}
    LimitsWanted = {"memory.max", "cpu.max", "pids.max"}
    LimitsOffered = {"memory.max", "memory.swap.max", "pids.max"}
    Overlap = FALSE
    Supervisors = {s1}
    InitialDelay = 2
    MaxDelay = 5
    Multipliers <- SomeMultipliers
    MaxRetries = {0, 4}
    CountBits = 4
    Reregisters = FALSE
    MaxRestarts = 5
    MaxGateChecks = 3
    Measures = {0, 1, 2}
    Markers = {"WOS_KERNEL", "PEPITA_VM", "/.dockerenv", "cgroup kubepods", "container", "/run/systemd/system"}
SPECIFICATION PoliciesSpec
CHECK_DEADLOCK FALSE
SYMMETRY Symmetry
INVARIANTS
    NoLostTrip
    NoLostRecovery
    ConfinedAreLimited
    RestartsFollowPolicy
    
    SelectedFits
PROPERTY ClosedNeverHalfOpens
