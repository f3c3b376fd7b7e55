\* Two daemons, one of them started, and a caller that shuts down while another starts and signals
\* daemons and may give up; the run loops keep their contract.
CONSTANTS
    c1 = c1
    c2 = c2
    Callers = {c1, c2}
    Daemons = {d1, d2}
    Contexts = {x1}
    Capacity = 2
    StatusInputs = {"Running"}
    Signals = {"Hup"}
    Operations <- SweepAgainstStart
    None = None
SPECIFICATION FairSpec
PROPERTIES
    CallsReturn
    TermEndsRun
    ListedEndsRun
