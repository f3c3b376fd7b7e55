--------------------------- MODULE CircuitBreaker ---------------------------
(***************************************************************************)
(* duende-policy/src/circuit_breaker.rs: one CircuitBreaker shared by      *)
(* threads.  The two RwLocks (state, opened_at) are never held together    *)
(* and the two counters are atomics outside of both, so every method is a  *)
(* sequence of separately atomic steps; pc[t] names the next one of the    *)
(* call thread t is in.  A read of state and the counter operation done    *)
(* while its read guard is alive (l.90-112, l.117-138) are one step: no    *)
(* writer of state can come between them.                                  *)
(*                                                                         *)
(* Calls that leave everything alone (a record_* that finds the circuit    *)
(* Open, an allow() or state() that finds it not Open) are stuttering      *)
(* steps.  Callers are unconstrained: any thread may make any call.        *)
(***************************************************************************)
EXTENDS Naturals

CONSTANTS
    Threads,            \* the callers
    FailureThreshold,   \* failure_threshold
    RecoveryTimeout,    \* recovery_timeout, in ticks of the clock
    NoInstant           \* the None of Option<Instant>

ASSUME BreakerAssumption ==
    /\ FailureThreshold \in Nat
    /\ RecoveryTimeout \in Nat
    /\ NoInstant \notin Nat

VARIABLES
    state,          \* CircuitState, under its RwLock
    failure_count,  \* AtomicU64
    success_count,  \* AtomicU64
    opened_at,      \* NoInstant, or opened_at.elapsed() cut off at RecoveryTimeout
    pc              \* the next step of each thread's call

vars == <<state, failure_count, success_count, opened_at, pc>>

CircuitState == {"Closed", "Open", "HalfOpen"}

\* Successes that close a half-open circuit.
SuccessesToClose == 3

Steps == {"idle",
          "open_state", "open_instant", "open_successes",
          "close_state", "close_failures", "close_successes", "close_instant",
          "probe_instant", "probe_state", "probe_reset"}

TypeOK ==
    /\ state \in CircuitState
    /\ failure_count \in Nat
    /\ success_count \in Nat
    /\ opened_at \in (0..RecoveryTimeout) \cup {NoInstant}
    /\ pc \in [Threads -> Steps]

Init ==
    /\ state = "Closed"
    /\ failure_count = 0
    /\ success_count = 0
    /\ opened_at = NoInstant
    /\ pc = [t \in Threads |-> "idle"]

Goto(t, from, to) == pc[t] = from /\ pc' = [pc EXCEPT ![t] = to]

-----------------------------------------------------------------------------
(* Public methods: the step up to the first point another thread can enter. *)

\* record_success in a closed circuit forgets the failures.
SuccessWhileClosed(t) ==
    /\ state = "Closed"
    /\ Goto(t, "idle", "idle")
    /\ failure_count' = 0
    /\ UNCHANGED <<state, success_count, opened_at>>

SuccessWhileHalfOpen_OffByOne(t) ==
    /\ state = "HalfOpen"
    /\ success_count' = success_count + 1
    /\ Goto(t, "idle", IF success_count' > SuccessesToClose THEN "close_state" ELSE "idle")
    /\ UNCHANGED <<state, failure_count, opened_at>>

\* record_success in a half-open circuit: the third one goes on to close().
SuccessWhileHalfOpen(t) ==
    /\ state = "HalfOpen"
    /\ success_count' = success_count + 1
    /\ Goto(t, "idle", IF success_count' >= SuccessesToClose THEN "close_state" ELSE "idle")
    /\ UNCHANGED <<state, failure_count, opened_at>>

FailureWhileClosed_OffByOne(t) ==
    /\ state = "Closed"
    /\ failure_count' = failure_count + 1
    /\ Goto(t, "idle", IF failure_count' > FailureThreshold THEN "open_state" ELSE "idle")
    /\ UNCHANGED <<state, success_count, opened_at>>

\* record_failure in a closed circuit: at the threshold it goes on to open().
FailureWhileClosed(t) ==
    /\ state = "Closed"
    /\ failure_count' = failure_count + 1
    /\ Goto(t, "idle", IF failure_count' >= FailureThreshold THEN "open_state" ELSE "idle")
    /\ UNCHANGED <<state, success_count, opened_at>>

\* record_failure in a half-open circuit always goes on to open().
FailureWhileHalfOpen(t) ==
    /\ state = "HalfOpen"
    /\ Goto(t, "idle", "open_state")
    /\ UNCHANGED <<state, failure_count, success_count, opened_at>>

Reset(t) ==
    /\ Goto(t, "idle", "close_state")
    /\ UNCHANGED <<state, failure_count, success_count, opened_at>>

\* allow() and state() run maybe_transition, which goes on only from Open.
Poll(t) ==
    /\ state = "Open"
    /\ Goto(t, "idle", "probe_instant")
    /\ UNCHANGED <<state, failure_count, success_count, opened_at>>

-----------------------------------------------------------------------------
(* open *)

OpenState(t) ==
    /\ Goto(t, "open_state", "open_instant")
    /\ state' = "Open"
    /\ UNCHANGED <<failure_count, success_count, opened_at>>

OpenInstant_Skipped(t) ==
    /\ Goto(t, "open_instant", "open_successes")
    /\ UNCHANGED <<state, failure_count, success_count, opened_at>>

OpenInstant(t) ==
    /\ Goto(t, "open_instant", "open_successes")
    /\ opened_at' = 0
    /\ UNCHANGED <<state, failure_count, success_count>>

OpenSuccesses(t) ==
    /\ Goto(t, "open_successes", "idle")
    /\ success_count' = 0
    /\ UNCHANGED <<state, failure_count, opened_at>>

(* close *)

CloseState(t) ==
    /\ Goto(t, "close_state", "close_failures")
    /\ state' = "Closed"
    /\ UNCHANGED <<failure_count, success_count, opened_at>>

CloseFailures_Skipped(t) ==
    /\ Goto(t, "close_failures", "close_successes")
    /\ UNCHANGED <<state, failure_count, success_count, opened_at>>

CloseFailures(t) ==
    /\ Goto(t, "close_failures", "close_successes")
    /\ failure_count' = 0
    /\ UNCHANGED <<state, success_count, opened_at>>

CloseSuccesses(t) ==
    /\ Goto(t, "close_successes", "close_instant")
    /\ success_count' = 0
    /\ UNCHANGED <<state, failure_count, opened_at>>

CloseInstant(t) ==
    /\ Goto(t, "close_instant", "idle")
    /\ opened_at' = NoInstant
    /\ UNCHANGED <<state, failure_count, success_count>>

(* maybe_transition *)

ShouldTransition == opened_at = RecoveryTimeout

ProbeInstant(t) ==
    /\ Goto(t, "probe_instant", IF ShouldTransition THEN "probe_state" ELSE "idle")
    /\ UNCHANGED <<state, failure_count, success_count, opened_at>>

ProbeState_Unchecked(t) ==
    /\ Goto(t, "probe_state", "probe_reset")
    /\ state' = "HalfOpen"
    /\ UNCHANGED <<failure_count, success_count, opened_at>>

\* The state is read again under the write lock: another thread may have moved it.
ProbeState(t) ==
    /\ Goto(t, "probe_state", IF state = "Open" THEN "probe_reset" ELSE "idle")
    /\ state' = IF state = "Open" THEN "HalfOpen" ELSE state
    /\ UNCHANGED <<failure_count, success_count, opened_at>>

ProbeReset(t) ==
    /\ Goto(t, "probe_reset", "idle")
    /\ success_count' = 0
    /\ UNCHANGED <<state, failure_count, opened_at>>

-----------------------------------------------------------------------------

\* An elapsed time one tick later; past RecoveryTimeout the code cannot tell.
Older(age) == IF age = RecoveryTimeout THEN age ELSE age + 1

\* The monotonic clock behind Instant::elapsed.
Tick ==
    /\ opened_at' = IF opened_at = NoInstant THEN NoInstant ELSE Older(opened_at)
    /\ UNCHANGED <<state, failure_count, success_count, pc>>

Call(t) ==
    \/ SuccessWhileClosed(t)   \/ SuccessWhileHalfOpen(t)
    \/ FailureWhileClosed(t)   \/ FailureWhileHalfOpen(t)
    \/ Reset(t)                \/ Poll(t)

\* The steps a thread takes on its own once a call is under way.
Continue(t) ==
    \/ OpenState(t)  \/ OpenInstant(t)   \/ OpenSuccesses(t)
    \/ CloseState(t) \/ CloseFailures(t) \/ CloseSuccesses(t) \/ CloseInstant(t)
    \/ ProbeInstant(t) \/ ProbeState(t)  \/ ProbeReset(t)

Next == Tick \/ \E t \in Threads : Call(t) \/ Continue(t)

Spec == Init /\ [][Next]_vars

(* The clock advances, a call that began is finished, and clients keep      *)
(* asking: strong fairness on Poll, since other calls of the same thread    *)
(* disable it in between.                                                   *)
Fairness ==
    /\ WF_vars(Tick)
    /\ \A t \in Threads : WF_vars(Continue(t)) /\ SF_vars(Poll(t))

FairSpec == Spec /\ Fairness

-----------------------------------------------------------------------------

Quiescent == \A t \in Threads : pc[t] = "idle"

\* The failure count calls for the circuit to be opened.
Tripped == failure_count > 0 /\ failure_count >= FailureThreshold

(* No trip is lost (record_failure l.124-128 against close l.176-185): once *)
(* no call is under way, a closed circuit has not reached its threshold,    *)
(* however the count-then-open and close-then-reset sequences interleaved.  *)
NoLostTrip == Quiescent /\ state = "Closed" => ~Tripped

(* No recovery is lost (record_success l.102-107 against maybe_transition   *)
(* l.220-228): once no call is under way, a half-open circuit has not       *)
(* already collected the successes that close it.                           *)
NoLostRecovery == Quiescent /\ state = "HalfOpen" => success_count < SuccessesToClose

(* A probe decided on a stale opened_at (l.211-218) never reopens for       *)
(* testing a circuit that was closed meanwhile: the recheck at l.225.       *)
ClosedNeverHalfOpens == [][state = "Closed" => state' # "HalfOpen"]_state

(* With clients that keep asking, an open circuit does not stay open        *)
(* (recovery_timeout, l.50).                                                *)
OpenRecovers == state = "Open" ~> state # "Open"

(* An open circuit knows when it opened, once open() (l.153) has returned:  *)
(* otherwise maybe_transition (l.215-217) can never leave Open.             *)
OpenIsTimed == Quiescent /\ state = "Open" => opened_at # NoInstant

=============================================================================
