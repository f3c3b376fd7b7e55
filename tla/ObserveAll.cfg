\* Health thresholds of 2 failures and 3 successes, which the subtraction of a recovery may
\* take below zero, every sequence of up to 9 outcomes; a full ring buffer; six kinds of calls; two threads and their atomics.
CONSTANTS
    Daemons = {d1}
    FailureThreshold = 2
    RecoveryThreshold = 3
    OverflowChecks = FALSE
    MaxChecks = 9
    Pids = {p1}
    MonitorCapacity = 2
    MaxTicks = 4
    MaxCollects = 5
    TracedPids = {p1, p2}
    Syscalls = {"read", "write", "openat", "poll", "futex", "brk"}
    AnomalyThreshold = 2
    MinSamples = 10
    MinCalls = 2
    MaxSamples = 10
    MaxProcesses = 1
    MetricThreads = {t1, t2}
    Durations = {1, 2}
    Loads = {5}
    MaxRequests = 1
    MaxRecordings = 2
SPECIFICATION ObserveSpec
CHECK_DEADLOCK FALSE
INVARIANTS
    HealthIsDebounced
    SamplesAreTrue
    ReportsAreFounded
    RecordingsAreKept
PROPERTY RecoveryIsTold
