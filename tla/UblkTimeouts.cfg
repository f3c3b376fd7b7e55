\* A kernel that may never answer; at most three commands are outstanding.
CONSTANTS
    Devices = {d1}
    Tags = {k1, k2, k3}
    Methods = {"delete", "stop", "force_delete", "info"}
    KernelMayStall = TRUE
    None = None
SPECIFICATION FairSpec
INVARIANT WaitersAreAnswered
PROPERTY CallReturns
\* The bound on the commands outstanding stops the caller.
CHECK_DEADLOCK FALSE
