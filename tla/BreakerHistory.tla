--------------------------- MODULE BreakerHistory ---------------------------
(***************************************************************************)
(* CircuitBreaker with two history variables, which no action of the code  *)
(* reads: what a client that watches the breaker could have measured.      *)
(***************************************************************************)
EXTENDS CircuitBreaker

VARIABLES
    open_age,       \* time since state last became Open, cut off at RecoveryTimeout
    failures_seen   \* failures recorded since state last became Closed,
                    \* cut off at FailureThreshold

hvars == <<vars, open_age, failures_seen>>

HInit == Init /\ open_age = 0 /\ failures_seen = 0

HTick == Tick /\ open_age' = Older(open_age) /\ UNCHANGED failures_seen

Entered(s) == state # s /\ state' = s

HStep(t) ==
    /\ Call(t) \/ Continue(t)
    /\ open_age' = IF Entered("Open") THEN 0 ELSE open_age
    /\ failures_seen' =
           CASE Entered("Closed") -> 0
             [] ~Entered("Closed") /\ FailureWhileClosed(t) /\ failures_seen < FailureThreshold
                  -> failures_seen + 1
             [] OTHER -> failures_seen

HNext == HTick \/ \E t \in Threads : HStep(t)

HSpec == HInit /\ [][HNext]_hvars

HFairSpec == HSpec /\ Fairness

(* recovery_timeout (l.50, l.199): an open circuit is tested only after the *)
(* timeout has passed since it opened.                                      *)
TimeoutHonoured ==
    [][state = "Open" /\ state' = "HalfOpen" => open_age = RecoveryTimeout]_hvars

(* failure_threshold (l.49): a closed circuit opens only after that many    *)
(* failures were recorded since it closed.                                  *)
ThresholdHonoured ==
    [][state = "Closed" /\ state' = "Open" => failures_seen = FailureThreshold]_hvars

-----------------------------------------------------------------------------
(* Refinement of the indivisible breaker.  A call takes effect when it      *)
(* writes state, so a counter the call has yet to reset counts as reset,    *)
(* and the increment that decided a write counts only with the write.       *)

Someone(step) == \E t \in Threads : pc[t] = step

AbstractFailures ==
    IF state # "Closed" \/ Someone("close_failures") THEN 0
    ELSE IF Someone("open_state") THEN failure_count - 1 ELSE failure_count

AbstractSuccesses ==
    IF state # "HalfOpen" \/ Someone("probe_reset") THEN 0
    ELSE IF success_count = SuccessesToClose THEN success_count - 1 ELSE success_count

Abstract == INSTANCE AbstractBreaker WITH
    failures  <- AbstractFailures,
    successes <- AbstractSuccesses,
    age       <- IF state = "Open" THEN open_age ELSE 0

(* A breaker used by one thread at a time is the indivisible machine of the *)
(* type's documentation (l.24-29).                                          *)
ImplementsAbstract == Abstract!Spec

=============================================================================
