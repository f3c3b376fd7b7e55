\* One daemon with two successive contexts, two callers of any method.
CONSTANTS
    c1 = c1
    c2 = c2
    Callers = {c1, c2}
    Daemons = {d1}
    Contexts = {x1, x2}
    Capacity = 1
    StatusInputs = {"Running", "Stopping", "Stopped"}
    Signals = {"Term", "Hup"}
    Operations <- AnyMethod
    None = None
SPECIFICATION Spec
INVARIANT SendingStillValid
PROPERTY ActiveStaysRegistered
