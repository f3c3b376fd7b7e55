--------------------------- MODULE MCDaemonManager --------------------------
(* DaemonManager for TLC: who calls what.                                   *)
EXTENDS DaemonManager

CONSTANTS c1, c2

EntryMethods == {"register", "unregister", "status", "update_status", "signal",
                 "set_context_handle"}

\* Callers of every method but shutdown_all.
AnyMethod == [c \in Callers |-> EntryMethods \cup {"cancel"}]

\* c1 removes daemons or shuts everything down, while c2 starts daemons, signals
\* them, and may give a call up.
SweepAgainstStart ==
    [c \in Callers |->
        IF c = c1 THEN {"unregister", "shutdown_all"}
                  ELSE {"register", "update_status", "set_context_handle", "signal", "cancel"}]

\* Each caller starts daemons, signals them and shuts everything down.
StartAndSweep ==
    [c \in Callers |->
        {"register", "update_status", "set_context_handle", "signal", "shutdown_all"}]

=============================================================================
