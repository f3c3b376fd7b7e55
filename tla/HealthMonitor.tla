---------------------------- MODULE HealthMonitor ---------------------------
(***************************************************************************)
(* duende-observe/src/health.rs: the health state of each monitored daemon *)
(* and the events broadcast about it.  Every method holds the one RwLock   *)
(* of the states from its first line to its last, events included, so a    *)
(* method is one step and concurrent calls are their interleavings.        *)
(*                                                                         *)
(* results is a history variable: the outcomes recorded for each daemon    *)
(* since it was registered, at most MaxChecks of them.                     *)
(***************************************************************************)
EXTENDS Integers, Sequences, FiniteSets, FiniteSetsExt

CONSTANTS
    Daemons,
    FailureThreshold,   \* config.failure_threshold
    RecoveryThreshold,  \* config.recovery_threshold
    OverflowChecks,     \* TRUE: a build that panics on integer overflow (debug)
    MaxChecks           \* bound on the outcomes recorded per daemon

ASSUME HealthAssumption ==
    /\ FailureThreshold \in Nat /\ RecoveryThreshold \in Nat
    /\ OverflowChecks \in BOOLEAN
    /\ MaxChecks \in Nat

VARIABLES
    monitored,              \* keys of states
    is_healthy,
    consecutive_failures,
    consecutive_successes,
    total_checks,
    total_failures,
    events,                 \* what the last method broadcast
    results

states == <<is_healthy, consecutive_failures, consecutive_successes, total_checks, total_failures>>
vars   == <<monitored, states, events, results>>

Event == [kind: {"Healthy", "Timeout"}, id: Daemons]
    \cup [kind: {"Unhealthy"}, id: Daemons, failures: Nat]
    \cup [kind: {"Recovered"}, id: Daemons, failures: Int]

TypeOK ==
    /\ monitored \subseteq Daemons
    /\ is_healthy \in [Daemons -> BOOLEAN]
    /\ consecutive_failures \in [Daemons -> Nat]
    /\ consecutive_successes \in [Daemons -> Nat]
    /\ total_checks \in [Daemons -> Nat]
    /\ total_failures \in [Daemons -> Nat]
    /\ events \in Seq(Event) /\ Len(events) <= 2
    /\ results \in [Daemons -> Seq({"ok", "fail"})]

Init ==
    /\ monitored = {}
    /\ is_healthy = [d \in Daemons |-> TRUE]
    /\ consecutive_failures = [d \in Daemons |-> 0]
    /\ consecutive_successes = [d \in Daemons |-> 0]
    /\ total_checks = [d \in Daemons |-> 0]
    /\ total_failures = [d \in Daemons |-> 0]
    /\ events = <<>>
    /\ results = [d \in Daemons |-> <<>>]

\* DaemonHealthState::new
Fresh(d) ==
    /\ is_healthy' = [is_healthy EXCEPT ![d] = TRUE]
    /\ consecutive_failures' = [consecutive_failures EXCEPT ![d] = 0]
    /\ consecutive_successes' = [consecutive_successes EXCEPT ![d] = 0]
    /\ total_checks' = [total_checks EXCEPT ![d] = 0]
    /\ total_failures' = [total_failures EXCEPT ![d] = 0]
    /\ results' = [results EXCEPT ![d] = <<>>]
    /\ events' = <<>>

\* A daemon registered again starts afresh.
Register(d) == monitored' = monitored \cup {d} /\ Fresh(d)

\* The state is dropped: its fields go back to the initial ones.
Unregister(d) == d \in monitored /\ monitored' = monitored \ {d} /\ Fresh(d)

-----------------------------------------------------------------------------

\* DaemonHealthState::record_success
RecordSuccess(d) ==
    /\ consecutive_failures' = [consecutive_failures EXCEPT ![d] = 0]
    /\ consecutive_successes' = [consecutive_successes EXCEPT ![d] = @ + 1]
    /\ total_checks' = [total_checks EXCEPT ![d] = @ + 1]
    /\ UNCHANGED total_failures

\* DaemonHealthState::record_failure
RecordFailure(d) ==
    /\ consecutive_failures' = [consecutive_failures EXCEPT ![d] = @ + 1]
    /\ consecutive_successes' = [consecutive_successes EXCEPT ![d] = 0]
    /\ total_checks' = [total_checks EXCEPT ![d] = @ + 1]
    /\ total_failures' = [total_failures EXCEPT ![d] = @ + 1]

Recorded(d, outcome) ==
    /\ d \in monitored /\ Len(results[d]) < MaxChecks
    /\ results' = [results EXCEPT ![d] = Append(@, outcome)]
    /\ UNCHANGED monitored

\* The u64 subtraction of l.313, below zero where it overflows.
FailuresBefore(d) == total_failures'[d] - consecutive_successes'[d]

Recovers_Always(d) == consecutive_successes'[d] >= RecoveryThreshold

Recovers(d) == ~is_healthy[d] /\ consecutive_successes'[d] >= RecoveryThreshold

(* record_check with a healthy status.  Where the subtraction overflows, a  *)
(* checking build panics there: the counters were updated, the rest of the  *)
(* method does not run (a tokio lock is not poisoned).                      *)
CheckHealthy(d) ==
    /\ Recorded(d, "ok")
    /\ RecordSuccess(d)
    /\ IF Recovers(d) /\ FailuresBefore(d) < 0 /\ OverflowChecks
       THEN UNCHANGED is_healthy /\ events' = <<>>
       ELSE /\ is_healthy' = [is_healthy EXCEPT ![d] = @ \/ Recovers(d)]
            /\ events' = (IF Recovers(d)
                          THEN <<[kind |-> "Recovered", id |-> d, failures |-> FailuresBefore(d)]>>
                          ELSE <<>>)
                      \o (IF is_healthy'[d] THEN <<[kind |-> "Healthy", id |-> d]>> ELSE <<>>)

Fails(d) == consecutive_failures'[d] >= FailureThreshold

\* record_check with an unhealthy status: the event is the same either way.
CheckUnhealthy(d) ==
    /\ Recorded(d, "fail")
    /\ RecordFailure(d)
    /\ is_healthy' = [is_healthy EXCEPT ![d] = @ /\ ~Fails(d)]
    /\ events' = <<[kind |-> "Unhealthy", id |-> d, failures |-> consecutive_failures'[d]]>>

RecordTimeout_Lenient(d) ==
    /\ Recorded(d, "fail")
    /\ RecordFailure(d)
    /\ UNCHANGED is_healthy
    /\ events' = <<[kind |-> "Timeout", id |-> d]>>

RecordTimeout(d) ==
    /\ Recorded(d, "fail")
    /\ RecordFailure(d)
    /\ is_healthy' = [is_healthy EXCEPT ![d] = @ /\ ~Fails(d)]
    /\ events' = <<[kind |-> "Timeout", id |-> d]>>

\* statistics, under the lock that every method holds; rates are quotients of these.
Statistics ==
    [total_daemons   |-> Cardinality(monitored),
     healthy_daemons |-> Cardinality({ d \in monitored : is_healthy[d] }),
     total_checks    |-> SumFunctionOnSet(total_checks, monitored),
     total_failures  |-> SumFunctionOnSet(total_failures, monitored)]

Next == \E d \in Daemons :
    \/ Register(d) \/ Unregister(d)
    \/ CheckHealthy(d) \/ CheckUnhealthy(d) \/ RecordTimeout(d)

Spec == Init /\ [][Next]_vars

-----------------------------------------------------------------------------

\* The n outcomes of r that end at position i are all o.
RunOf(r, o, n, i) == i >= n /\ \A k \in (i - n + 1)..i : r[k] = o

AtLeastOne(n) == IF n = 0 THEN 1 ELSE n

(* failure_threshold and recovery_threshold (l.69-72), said of the outcomes *)
(* alone: a daemon is unhealthy exactly if some run of consecutive failures *)
(* reached the one and no later run of consecutive successes the other,     *)
(* whatever mixture of checks and timeouts the failures were.  (A threshold *)
(* of 0 acts as 1.)                                                         *)
Debounced(r) ==
    ~\E i \in 1..Len(r) :
        /\ RunOf(r, "fail", AtLeastOne(FailureThreshold), i)
        /\ \A j \in (i + 1)..Len(r) :
               ~RunOf(SubSeq(r, i + 1, j), "ok", AtLeastOne(RecoveryThreshold), j - i)

FailuresIn(r) == Cardinality({ i \in DOMAIN r : r[i] = "fail" })

(* Each daemon is as healthy as its outcomes say (l.69-72), and statistics  *)
(* (l.390) counts the daemons that are, every outcome and every failure of  *)
(* the daemons registered now, and none of an earlier registration.         *)
HealthIsDebounced ==
    /\ \A d \in monitored : is_healthy[d] <=> Debounced(results[d])
    /\ Statistics = [total_daemons   |-> Cardinality(monitored),
                     healthy_daemons |-> Cardinality({ d \in monitored : Debounced(results[d]) }),
                     total_checks    |-> SumFunctionOnSet([d \in Daemons |-> Len(results[d])], monitored),
                     total_failures  |-> SumFunctionOnSet([d \in Daemons |-> FailuresIn(results[d])], monitored)]

(* l.71-72: a daemon that has reached the recovery threshold is not left    *)
(* unhealthy, and one that has reached the failure threshold is not healthy.*)
ThresholdsDecide ==
    \A d \in monitored :
        /\ is_healthy[d] => consecutive_failures[d] < AtLeastOne(FailureThreshold)
        /\ ~is_healthy[d] => consecutive_successes[d] < AtLeastOne(RecoveryThreshold)

Said(kind, d) == \E i \in DOMAIN events : events[i].kind = kind /\ events[i].id = d

(* Events are transitions (l.23 "Health state transition event", l.33       *)
(* "Daemon became unhealthy"): an Unhealthy event says that the daemon is.  *)
UnhealthyIsUnhealthy == \A d \in monitored : Said("Unhealthy", d) => ~is_healthy[d]

(* A subscriber is told of a daemon that becomes unhealthy (l.33, l.298).   *)
UnhealthyIsTold ==
    [][\A d \in monitored : is_healthy[d] /\ ~is_healthy'[d] => Said("Unhealthy", d)']_vars

(* A subscriber is told of every recovery (l.49), in the step that makes    *)
(* the daemon healthy again, and of nothing else as a recovery, a step that *)
(* panics included; and the count of failures it is told (l.313) is below   *)
(* zero, where it wraps, by no more than the successes that a recovery      *)
(* takes exceed the failures that ended the health, and never if they do    *)
(* not (l.637-640 tests the monitor with thresholds that do).               *)
RecoveryIsTold ==
    [][/\ \A d \in monitored \cap monitored' :
              Said("Recovered", d)' <=> (~is_healthy[d] /\ is_healthy'[d] /\ results'[d] # <<>>)
       /\ \A i \in DOMAIN events' :
              events'[i].kind = "Recovered" =>
                  events'[i].failures >= AtLeastOne(FailureThreshold) - AtLeastOne(RecoveryThreshold)]_vars

\* The longest run of outcomes other than a recovery's that precede it.
FailuresInARow(r) ==
    LET lastFail == { i \in DOMAIN r : r[i] = "fail" }
    IN  IF lastFail = {} THEN 0
        ELSE LET top == CHOOSE i \in lastFail : \A j \in lastFail : j <= i
                 oks == { i \in 1..top : r[i] = "ok" }
             IN  IF oks = {} THEN top
                 ELSE top - (CHOOSE i \in oks : \A j \in oks : j <= i)

(* l.53 "Number of failures before recovery": at least the failures in a    *)
(* row that came last before it.                                            *)
RecoveredCountsFailures ==
    \A i \in DOMAIN events :
        events[i].kind = "Recovered" => events[i].failures >= FailuresInARow(results[events[i].id])

=============================================================================
