\* Two threads: open() and close() interleave.
CONSTANTS
    Threads = {t1, t2}
    FailureThreshold = 2
    RecoveryTimeout = 1
    NoInstant = NoInstant
SPECIFICATION Spec
INVARIANT OpenIsTimed
