--------------------------- MODULE AbstractBreaker --------------------------
(***************************************************************************)
(* What the circuit breaker promises (circuit_breaker.rs l.13-29, l.48-50):*)
(* a three-state machine whose every call is one indivisible step, that    *)
(* opens on the FailureThreshold-th failure in a row and tests recovery    *)
(* only after RecoveryTimeout.  failures counts while Closed, successes    *)
(* while HalfOpen, age while Open; each is 0 in the other states.          *)
(***************************************************************************)
EXTENDS Naturals

CONSTANTS FailureThreshold, RecoveryTimeout, SuccessesToClose

VARIABLES state, failures, successes, age

vars == <<state, failures, successes, age>>

Enter(s) == state' = s /\ failures' = 0 /\ successes' = 0 /\ age' = 0

Init == state = "Closed" /\ failures = 0 /\ successes = 0 /\ age = 0

Success ==
    \/ state = "Closed" /\ Enter("Closed")
    \/ /\ state = "HalfOpen"
       /\ IF successes + 1 < SuccessesToClose
          THEN successes' = successes + 1 /\ UNCHANGED <<state, failures, age>>
          ELSE Enter("Closed")

Failure ==
    \/ /\ state = "Closed"
       /\ IF failures + 1 < FailureThreshold
          THEN failures' = failures + 1 /\ UNCHANGED <<state, successes, age>>
          ELSE Enter("Open")
    \/ state = "HalfOpen" /\ Enter("Open")

Reset == Enter("Closed")

Recover == state = "Open" /\ age = RecoveryTimeout /\ Enter("HalfOpen")

Tick ==
    /\ state = "Open" /\ age < RecoveryTimeout
    /\ age' = age + 1
    /\ UNCHANGED <<state, failures, successes>>

Next == Success \/ Failure \/ Reset \/ Recover \/ Tick

Spec == Init /\ [][Next]_vars

=============================================================================
