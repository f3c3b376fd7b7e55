\* A completion that comes after its timeout.
CONSTANTS
    Devices = {d1}
    Tags = {k1, k2, k3}
    Methods = {"delete", "stop", "force_delete"}
    KernelMayStall = TRUE
    None = None
SPECIFICATION Spec
INVARIANT DeletedMeansGone
