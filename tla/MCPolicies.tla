------------------------------ MODULE MCPolicies ----------------------------
(***************************************************************************)
(* The policies a daemon runs under: circuit breaker, resource limits,     *)
(* restarts, gates; and the platform it is placed on.  They share nothing: *)
(* a behaviour exercises one of them and leaves the others' choices alone. *)
(***************************************************************************)
EXTENDS CircuitBreaker, ResourceLimiter, RestartPolicy, Gates, Platforms, TLC

VARIABLE policing

\* The default multiplier, one that is not whole, one below 1 and 0.
SomeMultipliers == {[num |-> 2, den |-> 1], [num |-> 3, den |-> 2], [num |-> 1, den |-> 2], [num |-> 0, den |-> 1]}

Symmetry == Permutations(Threads)

PoliciesInit ==
    /\ policing \in {"calls", "resources", "restarts", "quality", "places"}
    /\ Init /\ LimiterInit /\ RestartInit /\ GateInit /\ PlacesInit
    /\ policing # "resources" => member = [p \in GroupPids |-> Root]
    /\ policing # "restarts" => restart_policy.kind = "Never"
    /\ policing # "places" => target = "linux" /\ env = {}

PoliciesNext ==
    /\ UNCHANGED policing
    /\ \/ policing = "calls" /\ Next
          /\ UNCHANGED <<limiterVars, restartVars, gateVars, placeVars>>
       \/ policing = "resources" /\ LimiterNext
          /\ UNCHANGED <<vars, restartVars, gateVars, placeVars>>
       \/ policing = "restarts" /\ RestartNext
          /\ UNCHANGED <<vars, limiterVars, gateVars, placeVars>>
       \/ policing = "quality" /\ GateNext
          /\ UNCHANGED <<vars, limiterVars, restartVars, placeVars>>
       \/ policing = "places" /\ PlacesNext
          /\ UNCHANGED <<vars, limiterVars, restartVars, gateVars>>

PoliciesSpec == PoliciesInit /\ [][PoliciesNext]_<<policing, vars, limiterVars, restartVars, gateVars, placeVars>>

=============================================================================
