\* One cleanup of two devices, one of them with an id below 8; a kernel that
\* answers in time.
CONSTANTS
    Devices = {d1, d2}
    RangeIds = {d1}
    Tags = {k1, k2}
    Methods = {"force_delete"}
    KernelMayStall = FALSE
    None = None
SPECIFICATION CFairSpec
INVARIANTS
    AnswerIsOwn
    CleanedIsDeleted
    OrphansAreGone
    SteadyDevicesSurvive
PROPERTY CleanupTerminates
\* The cleanup ends and the devices may all be dead.
CHECK_DEADLOCK FALSE
