-------------------------- MODULE LifecycleCallers --------------------------
(***************************************************************************)
(* DaemonManager used by callers that keep to the state machine of         *)
(* types.rs: before update_status a caller asks for the status, and moves  *)
(* the daemon along an edge that leaves it.                                *)
(***************************************************************************)
EXTENDS DaemonManager

\* What LifecycleCallers.cfg gives for Operations: every caller asks and moves.
AskAndMove == [c \in Callers |-> {"register", "status", "update_status"}]

VARIABLE seen   \* the status each caller was last told, or None

lvars == <<vars, seen>>

\* The diagram of DaemonStatus (types.rs l.49-54); Failed is reached from any
\* state in which the daemon has code running.
Lifecycle ==
    {<<"Created", "Starting">>, <<"Starting", "Running">>,
     <<"Running", "Paused">>, <<"Paused", "Running">>,
     <<"Running", "Stopping">>, <<"Paused", "Stopping">>, <<"Stopping", "Stopped">>}
    \cup ({"Starting", "Running", "Paused", "Stopping"} \X {"Failed"})

LInit == Init /\ seen = [c \in Callers |-> None]

Ask(c) == ReadEntry(c) /\ seen' = [seen EXCEPT ![c] = status[call[c].id]]

Move(c, r) ==
    /\ r.op = "update_status" /\ <<seen[c], r.arg>> \in Lifecycle
    /\ Begin(c, r)
    /\ seen' = [seen EXCEPT ![c] = None]

LNext ==
    \E c \in Callers :
        \/ Ask(c)
        \/ \E r \in Requests : Move(c, r)
        \/ \E r \in Requests : r.op \in {"register", "status"} /\ Begin(c, r) /\ UNCHANGED seen
        \/ (Register(c) \/ Lookup(c) \/ UpdateStatus(c)) /\ UNCHANGED seen

LSpec == LInit /\ [][LNext]_lvars

(* types.rs l.49: "State transitions follow a strict state machine".        *)
StrictLifecycle ==
    [][\A d \in registered : status'[d] # status[d] => <<status[d], status'[d]>> \in Lifecycle]_lvars

=============================================================================
