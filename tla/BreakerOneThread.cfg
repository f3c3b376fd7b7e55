\* One thread that keeps asking: the breaker against its abstract specification.
CONSTANTS
    Threads = {t1}
    FailureThreshold = 4
    RecoveryTimeout = 3
    NoInstant = NoInstant
SPECIFICATION HFairSpec
PROPERTIES
    ImplementsAbstract
    OpenRecovers
