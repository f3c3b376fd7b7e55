----------------------------- MODULE MCWosAdapters -----------------------------
(* WosAdapters with one caller of everything and one that does not stop.   *)
EXTENDS WosAdapters

CONSTANTS stopper, other

StopperAndOther ==
    [c \in Callers |-> {"spawn", "signal", "status"} \cup (IF c = stopper THEN {"stop"} ELSE {})]

=============================================================================
