------------------------- MODULE MCCommandAdapters --------------------------
(* CommandAdapters with tools whose states all have a word the adapter     *)
(* looks for, and with one caller that spawns and removes.                 *)
EXTENDS CommandAdapters

CONSTANTS owner, other

KnownLives == [k \in Kinds |-> KnownStates(k)]

OwnerAndOther ==
    [c \in Callers |-> IF c = owner THEN {"spawn", "remove", "stop"} ELSE {"signal", "status", "trace", "stop"}]

\* The labels of the services 1 and 2 of CommandOutput.cfg.
OneInTwo == {<<1, 2>>}

=============================================================================
