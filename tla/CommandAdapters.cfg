\* All eight adapters, the container adapter over docker and over ctr, one service, one caller that owns the name and one that does not.
CONSTANTS
    owner = owner
    other = other
    Callers = {owner, other}
    Services = {s1}
    Kinds = {"systemd", "container", "containerd", "launchd", "pepita", "linux", "macos", "oci", "vm"}
    Lives <- KnownLives
    Operations <- OwnerAndOther
    Respawn = FALSE
    Refusals = {}
    Contains = {}
SPECIFICATION Spec
INVARIANT LoadedHasPlist
PROPERTIES
    StatusIsTrue
    StopMeansDown
