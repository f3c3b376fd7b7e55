\* Both adapters, two processes; wos-ctl is there or is not, and its words are all known.
CONSTANTS
    stopper = stopper
    other = other
    Callers = {stopper, other}
    Pids = {2, 3}
    Operations <- StopperAndOther
    Waits = FALSE
SPECIFICATION FairSpec
INVARIANT TablesAgree
PROPERTIES
    StopMeansDown
    KilledIsReaped
CHECK_DEADLOCK FALSE
