----------------------------- MODULE PolicyProofs ---------------------------
(***************************************************************************)
(* The policies, for every value of their constants: the circuit breaker   *)
(* with any set of threads, threshold and timeout, the limiter with any    *)
(* pids, callers and limits, the restarts of one supervisor, the gates and *)
(* the platforms.                                                          *)
(***************************************************************************)
EXTENDS BreakerHistory, ResourceLimiter, RestartPolicy, Gates, Platforms,
        Sums, FiniteSetTheorems, SequenceTheorems, TLAPS

-----------------------------------------------------------------------------
(* The circuit breaker.                                                     *)

(* Type correctness of the breaker (circuit_breaker.rs l.30-43).            *)
THEOREM TypeCorrect == Spec => []TypeOK
<1>1. Init => TypeOK
  BY BreakerAssumption DEF Init, TypeOK, CircuitState, Steps
<1>2. TypeOK /\ [Next]_vars => TypeOK'
  <2> SUFFICES ASSUME TypeOK, [Next]_vars PROVE TypeOK'
    OBVIOUS
  <2> USE BreakerAssumption DEF TypeOK, CircuitState, Steps, Goto
  <2>1. CASE Tick
    BY <2>1 DEF Tick, Older
  <2>2. ASSUME NEW t \in Threads, Call(t) PROVE TypeOK'
    <3>1. CASE SuccessWhileClosed(t)
      BY <3>1 DEF SuccessWhileClosed
    <3>2. CASE SuccessWhileHalfOpen(t)
      BY <3>2 DEF SuccessWhileHalfOpen
    <3>3. CASE FailureWhileClosed(t)
      BY <3>3 DEF FailureWhileClosed
    <3>4. CASE FailureWhileHalfOpen(t)
      BY <3>4 DEF FailureWhileHalfOpen
    <3>5. CASE Reset(t)
      BY <3>5 DEF Reset
    <3>6. CASE Poll(t)
      BY <3>6 DEF Poll
    <3> QED
      BY <2>2, <3>1, <3>2, <3>3, <3>4, <3>5, <3>6 DEF Call
  <2>3. ASSUME NEW t \in Threads, Continue(t) PROVE TypeOK'
    <3>1. CASE OpenState(t) \/ OpenInstant(t) \/ OpenSuccesses(t)
      BY <3>1 DEF OpenState, OpenInstant, OpenSuccesses
    <3>2. CASE CloseState(t) \/ CloseFailures(t) \/ CloseSuccesses(t) \/ CloseInstant(t)
      BY <3>2 DEF CloseState, CloseFailures, CloseSuccesses, CloseInstant
    <3>3. CASE ProbeInstant(t) \/ ProbeState(t) \/ ProbeReset(t)
      BY <3>3 DEF ProbeInstant, ProbeState, ProbeReset
    <3> QED
      BY <2>3, <3>1, <3>2, <3>3 DEF Continue
  <2>4. CASE UNCHANGED vars
    BY <2>4 DEF vars
  <2> QED
    BY <2>1, <2>2, <2>3, <2>4 DEF Next
<1> QED
  BY <1>1, <1>2, PTL DEF Spec

-----------------------------------------------------------------------------
(***************************************************************************)
(* NoLostTrip is not inductive: it says nothing while a call is under way. *)
(* TripPending names the call that will act on the count: the record_      *)
(* failure that reached the threshold and has yet to write Open, or the    *)
(* close() that wrote Closed and has yet to clear the count.  In the same  *)
(* way RecoveryPending names the call that will act on three successes.    *)
(***************************************************************************)

Pending(steps) == \E t \in Threads : pc[t] \in steps

TripPending ==
    state = "Closed" /\ Tripped => Pending({"open_state", "close_failures"})

RecoveryPending ==
    state = "HalfOpen" /\ success_count >= SuccessesToClose
        => Pending({"close_state", "probe_reset"})

(* A pending step of one thread survives a step of another.                 *)
LEMMA PendingKept ==
    ASSUME NEW steps, Pending(steps), pc \in [Threads -> Steps],
           NEW t \in Threads, NEW from, from \notin steps, NEW to, Goto(t, from, to)
    PROVE  Pending(steps)'
<1>1. PICK u \in Threads : pc[u] \in steps
  BY DEF Pending
<1>2. u # t /\ pc'[u] = pc[u]
  BY <1>1 DEF Goto
<1> QED
  BY <1>1, <1>2 DEF Pending

(* A thread that moves to a step of the set makes it pending.               *)
LEMMA PendingMade ==
    ASSUME NEW steps, pc \in [Threads -> Steps],
           NEW t \in Threads, NEW from, NEW to \in steps, Goto(t, from, to)
    PROVE  Pending(steps)'
BY DEF Pending, Goto

LEMMA TripPendingStep == TypeOK /\ TripPending /\ [Next]_vars => TripPending'
<1> SUFFICES ASSUME TypeOK, TripPending, [Next]_vars,
                    state' = "Closed", Tripped'
             PROVE  Pending({"open_state", "close_failures"})'
  BY DEF TripPending
<1> DEFINE P == {"open_state", "close_failures"}
<1>a. pc \in [Threads -> Steps] /\ failure_count \in Nat /\ FailureThreshold \in Nat
  BY BreakerAssumption DEF TypeOK
<1>1. CASE Tick
  BY <1>1 DEF Tick, TripPending, Tripped, Pending
<1>2. ASSUME NEW t \in Threads, Call(t) PROVE Pending(P)'
  <2>1. CASE SuccessWhileClosed(t)
    BY <2>1 DEF SuccessWhileClosed, Tripped
  <2>2. CASE FailureWhileClosed(t)
    <3>1. failure_count' >= FailureThreshold
      BY DEF Tripped
    <3>2. Goto(t, "idle", "open_state")
      BY <2>2, <3>1 DEF FailureWhileClosed
    <3> QED
      BY <1>a, <3>2, PendingMade
  <2>3. CASE SuccessWhileHalfOpen(t) \/ FailureWhileHalfOpen(t) \/ Poll(t)
    BY <2>3 DEF SuccessWhileHalfOpen, FailureWhileHalfOpen, Poll
  <2>4. CASE Reset(t)
    <3>1. Pending(P) /\ Goto(t, "idle", "close_state")
      BY <2>4 DEF Reset, TripPending, Tripped
    <3> QED
      BY <1>a, <3>1, PendingKept
  <2> QED
    BY <1>2, <2>1, <2>2, <2>3, <2>4 DEF Call
<1>3. ASSUME NEW t \in Threads, Continue(t) PROVE Pending(P)'
  <2>1. CASE OpenState(t)
    BY <2>1 DEF OpenState
  <2>2. CASE CloseState(t)
    <3>1. Goto(t, "close_state", "close_failures")
      BY <2>2 DEF CloseState
    <3> QED
      BY <1>a, <3>1, PendingMade
  <2>3. CASE CloseFailures(t)
    BY <2>3 DEF CloseFailures, Tripped
  <2>4. ASSUME NEW from, from \notin P, NEW to, Goto(t, from, to),
               UNCHANGED <<state, failure_count>>
        PROVE  Pending(P)'
    <3>1. Pending(P)
      BY <2>4 DEF TripPending, Tripped
    <3> QED
      BY <1>a, <2>4, <3>1, PendingKept
  <2>5. CASE OpenInstant(t)
    BY <2>4, <2>5 DEF OpenInstant
  <2>6. CASE OpenSuccesses(t)
    BY <2>4, <2>6 DEF OpenSuccesses
  <2>7. CASE CloseSuccesses(t)
    BY <2>4, <2>7 DEF CloseSuccesses
  <2>8. CASE CloseInstant(t)
    BY <2>4, <2>8 DEF CloseInstant
  <2>9. CASE ProbeInstant(t)
    BY <2>4, <2>9 DEF ProbeInstant
  <2>10. CASE ProbeState(t)
    <3>1. state # "Open"
      BY <2>10 DEF ProbeState
    <3> QED
      BY <2>4, <2>10, <3>1 DEF ProbeState
  <2>11. CASE ProbeReset(t)
    BY <2>4, <2>11 DEF ProbeReset
  <2> QED
    BY <1>3, <2>1, <2>2, <2>3, <2>5, <2>6, <2>7, <2>8, <2>9, <2>10, <2>11 DEF Continue
<1>4. CASE UNCHANGED vars
  BY <1>4 DEF vars, TripPending, Tripped, Pending
<1> QED
  BY <1>1, <1>2, <1>3, <1>4 DEF Next

(* No trip is lost, whatever the interleaving of record_failure (l.116-139) *)
(* and close (l.176-197).                                                   *)
THEOREM TripsAreKept == Spec => []NoLostTrip
<1>1. Init => TripPending
  BY DEF Init, TripPending, Tripped
<1>2. TripPending => NoLostTrip
  BY DEF TripPending, NoLostTrip, Quiescent, Pending
<1> QED
  BY <1>1, <1>2, TypeCorrect, TripPendingStep, PTL DEF Spec

-----------------------------------------------------------------------------

LEMMA RecoveryPendingStep == TypeOK /\ RecoveryPending /\ [Next]_vars => RecoveryPending'
<1> SUFFICES ASSUME TypeOK, RecoveryPending, [Next]_vars,
                    state' = "HalfOpen", success_count' >= SuccessesToClose
             PROVE  Pending({"close_state", "probe_reset"})'
  BY DEF RecoveryPending, SuccessesToClose
<1> DEFINE P == {"close_state", "probe_reset"}
<1>a. pc \in [Threads -> Steps]
  BY DEF TypeOK
<1>b. ASSUME NEW t \in Threads, NEW from, from \notin P, NEW to, Goto(t, from, to),
             UNCHANGED <<state, success_count>>
      PROVE  Pending(P)'
  BY <1>a, <1>b, PendingKept DEF RecoveryPending
<1>1. CASE Tick
  BY <1>1 DEF Tick, RecoveryPending, Pending
<1>2. ASSUME NEW t \in Threads, Call(t) PROVE Pending(P)'
  <2>1. CASE SuccessWhileHalfOpen(t)
    BY <1>a, <2>1, PendingMade DEF SuccessWhileHalfOpen
  <2>2. CASE SuccessWhileClosed(t) \/ FailureWhileClosed(t) \/ Poll(t)
    BY <2>2 DEF SuccessWhileClosed, FailureWhileClosed, Poll
  <2>3. CASE FailureWhileHalfOpen(t) \/ Reset(t)
    BY <1>b, <2>3 DEF FailureWhileHalfOpen, Reset
  <2> QED
    BY <1>2, <2>1, <2>2, <2>3 DEF Call
<1>3. ASSUME NEW t \in Threads, Continue(t) PROVE Pending(P)'
  <2>1. CASE OpenState(t) \/ CloseState(t)
    BY <2>1 DEF OpenState, CloseState
  <2>2. CASE OpenSuccesses(t) \/ CloseSuccesses(t) \/ ProbeReset(t)
    BY <2>2 DEF OpenSuccesses, CloseSuccesses, ProbeReset, SuccessesToClose
  <2>3. CASE OpenInstant(t) \/ CloseFailures(t) \/ CloseInstant(t) \/ ProbeInstant(t)
    BY <1>b, <2>3 DEF OpenInstant, CloseFailures, CloseInstant, ProbeInstant
  <2>4. CASE ProbeState(t)
    <3>1. CASE state = "Open"
      <4>1. Goto(t, "probe_state", "probe_reset")
        BY <2>4, <3>1 DEF ProbeState
      <4> QED
        BY <1>a, <4>1, PendingMade
    <3>2. CASE state # "Open"
      BY <1>b, <2>4, <3>2 DEF ProbeState
    <3> QED
      BY <3>1, <3>2
  <2> QED
    BY <1>3, <2>1, <2>2, <2>3, <2>4 DEF Continue
<1>4. CASE UNCHANGED vars
  BY <1>4 DEF vars, RecoveryPending, Pending
<1> QED
  BY <1>1, <1>2, <1>3, <1>4 DEF Next

(* No recovery is lost, whatever the interleaving of record_success         *)
(* (l.89-113), record_failure, close and maybe_transition (l.200-232).      *)
THEOREM RecoveriesAreKept == Spec => []NoLostRecovery
<1>1. Init => RecoveryPending
  BY DEF Init, RecoveryPending
<1>2. TypeOK /\ RecoveryPending => NoLostRecovery
  BY DEF TypeOK, RecoveryPending, NoLostRecovery, Quiescent, Pending, SuccessesToClose
<1> QED
  BY <1>1, <1>2, TypeCorrect, RecoveryPendingStep, PTL DEF Spec

(* A closed circuit never becomes half-open: the recheck of the state under *)
(* the write lock (l.225) is enough, whatever the probe read before.        *)
THEOREM ClosedStaysOffHalfOpen == Spec => ClosedNeverHalfOpens
<1>1. [Next]_vars => [state = "Closed" => state' # "HalfOpen"]_state
  <2> SUFFICES ASSUME [Next]_vars, state = "Closed" PROVE state' # "HalfOpen"
    OBVIOUS
  <2>1. CASE Tick \/ UNCHANGED vars
    BY <2>1 DEF Tick, vars
  <2>2. ASSUME NEW t \in Threads, Call(t) PROVE state' # "HalfOpen"
    BY <2>2 DEF Call, SuccessWhileClosed, SuccessWhileHalfOpen, FailureWhileClosed,
                FailureWhileHalfOpen, Reset, Poll
  <2>3. ASSUME NEW t \in Threads, Continue(t) PROVE state' # "HalfOpen"
    BY <2>3 DEF Continue, OpenState, OpenInstant, OpenSuccesses, CloseState, CloseFailures,
                CloseSuccesses, CloseInstant, ProbeInstant, ProbeState, ProbeReset
  <2> QED
    BY <2>1, <2>2, <2>3 DEF Next
<1> QED
  BY <1>1, PTL DEF Spec, ClosedNeverHalfOpens

-----------------------------------------------------------------------------
(***************************************************************************)
(* One thread at a time: the breaker implements AbstractBreaker.  RefInv   *)
(* says what the thread knows at each step of a call; with several threads *)
(* it does not hold, and neither does the refinement.                      *)
(***************************************************************************)

\* What thread t may rely on between two steps of a call.
Knows(t) ==
    /\ pc[t] = "open_state" => state = "HalfOpen" \/ (state = "Closed" /\ failure_count >= FailureThreshold)
    /\ pc[t] \in {"open_instant", "open_successes", "probe_instant", "probe_state"} => state = "Open"
    /\ pc[t] \in {"close_failures", "close_successes", "close_instant"} => state = "Closed"
    /\ pc[t] = "probe_reset" => state = "HalfOpen"
    /\ pc[t] = "probe_state" => opened_at = RecoveryTimeout
    /\ state = "HalfOpen" /\ pc[t] # "probe_reset" =>
           success_count < SuccessesToClose \/ (pc[t] = "close_state" /\ success_count = SuccessesToClose)
    /\ state = "Open" /\ pc[t] # "open_instant" => opened_at \in 0..open_age

RefInv ==
    /\ TypeOK
    /\ open_age \in 0..RecoveryTimeout
    /\ \A t \in Threads : Knows(t)

\* The types, and the steps of a call, as the proofs below use them.
LEMMA RefFacts ==
    ASSUME RefInv
    PROVE  /\ FailureThreshold \in Nat /\ RecoveryTimeout \in Nat /\ NoInstant \notin Nat
           /\ failure_count \in Nat /\ success_count \in Nat /\ open_age \in 0..RecoveryTimeout
           /\ pc \in [Threads -> Steps] /\ state \in {"Closed", "Open", "HalfOpen"}
           /\ opened_at \in (0..RecoveryTimeout) \cup {NoInstant}
BY BreakerAssumption DEF RefInv, TypeOK, CircuitState

(* A call of the only thread keeps what it knows.                           *)
LEMMA RefInvStep ==
    ASSUME NEW t, Threads = {t}, RefInv, TypeOK', [HNext]_hvars
    PROVE  RefInv'
<1> SUFFICES open_age' \in 0..RecoveryTimeout /\ Knows(t)'
  BY DEF RefInv
<1>0. Knows(t)
  BY DEF RefInv
<1>1. CASE HTick
  BY <1>0, <1>1, RefFacts DEF HTick, Tick, Older, Knows
<1>2. CASE UNCHANGED hvars
  BY <1>0, <1>2, RefFacts DEF hvars, vars, Knows
<1>3. CASE HStep(t)
  <2>1. open_age' = IF state # "Open" /\ state' = "Open" THEN 0 ELSE open_age
    BY <1>3 DEF HStep, Entered
  <2>2. open_age' \in 0..RecoveryTimeout
    BY <2>1, RefFacts
  <2>3. ASSUME Call(t)
        PROVE  Knows(t)'
    <3>1. open_age' = open_age /\ state' = state
      BY <2>1, <2>3 DEF Call, SuccessWhileClosed, SuccessWhileHalfOpen, FailureWhileClosed,
                        FailureWhileHalfOpen, Reset, Poll
    <3>2. CASE SuccessWhileClosed(t) \/ FailureWhileClosed(t)
      BY <1>0, <3>1, <3>2, RefFacts DEF SuccessWhileClosed, FailureWhileClosed, Goto, Knows
    <3>3. CASE SuccessWhileHalfOpen(t)
      BY <1>0, <3>1, <3>3, RefFacts DEF SuccessWhileHalfOpen, Goto, Knows, SuccessesToClose
    <3>4. CASE FailureWhileHalfOpen(t) \/ Reset(t) \/ Poll(t)
      BY <1>0, <3>1, <3>4, RefFacts DEF FailureWhileHalfOpen, Reset, Poll, Goto, Knows
    <3>. QED
      BY <2>3, <3>2, <3>3, <3>4 DEF Call
  <2>4. ASSUME Continue(t)
        PROVE  Knows(t)'
    <3>1. CASE OpenState(t)
      BY <1>0, <2>1, <3>1, RefFacts DEF OpenState, Goto, Knows
    <3>2. CASE OpenInstant(t) \/ OpenSuccesses(t)
      BY <1>0, <2>1, <3>2, RefFacts DEF OpenInstant, OpenSuccesses, Goto, Knows
    <3>3. CASE CloseState(t) \/ CloseFailures(t) \/ CloseSuccesses(t) \/ CloseInstant(t)
      BY <1>0, <2>1, <3>3, RefFacts
         DEF CloseState, CloseFailures, CloseSuccesses, CloseInstant, Goto, Knows
    <3>4. CASE ProbeInstant(t)
      BY <1>0, <2>1, <3>4, RefFacts DEF ProbeInstant, ShouldTransition, Goto, Knows
    <3>5. CASE ProbeState(t) \/ ProbeReset(t)
      BY <1>0, <2>1, <3>5, RefFacts DEF ProbeState, ProbeReset, Goto, Knows, SuccessesToClose
    <3>. QED
      BY <2>4, <3>1, <3>2, <3>3, <3>4, <3>5 DEF Continue
  <2>. QED
    BY <1>3, <2>2, <2>3, <2>4 DEF HStep
<1>. QED
  BY <1>1, <1>2, <1>3 DEF HNext

\* The abstract counters, of a breaker whose only thread is t.
FailuresOf(t) ==
    IF state # "Closed" \/ pc[t] = "close_failures" THEN 0
    ELSE IF pc[t] = "open_state" THEN failure_count - 1 ELSE failure_count

SuccessesOf(t) ==
    IF state # "HalfOpen" \/ pc[t] = "probe_reset" THEN 0
    ELSE IF success_count = SuccessesToClose THEN success_count - 1 ELSE success_count

Age == IF state = "Open" THEN open_age ELSE 0

LEMMA AbstractCounters ==
    ASSUME NEW t, Threads = {t}
    PROVE  /\ AbstractFailures = FailuresOf(t)   /\ AbstractFailures' = FailuresOf(t)'
           /\ AbstractSuccesses = SuccessesOf(t) /\ AbstractSuccesses' = SuccessesOf(t)'
<1>1. ASSUME NEW step
      PROVE  Someone(step) <=> pc[t] = step
  BY DEF Someone
<1>2. ASSUME NEW step
      PROVE  Someone(step)' <=> pc'[t] = step
  BY DEF Someone
<1>3. AbstractFailures = FailuresOf(t) /\ AbstractFailures' = FailuresOf(t)'
  BY <1>1, <1>2 DEF AbstractFailures, FailuresOf
<1>4. AbstractSuccesses = SuccessesOf(t) /\ AbstractSuccesses' = SuccessesOf(t)'
  BY <1>1, <1>2 DEF AbstractSuccesses, SuccessesOf
<1>. QED
  BY <1>3, <1>4

(* Every step of the thread is a step of the abstract breaker or none.      *)
LEMMA RefinementStep ==
    ASSUME NEW t, Threads = {t}, RefInv, [HNext]_hvars
    PROVE  [Abstract!Next]_(Abstract!vars)
<1> DEFINE stutter == /\ state' = state /\ Age' = Age
                      /\ FailuresOf(t)' = FailuresOf(t) /\ SuccessesOf(t)' = SuccessesOf(t)
           enter(s) == /\ state' = s /\ Age' = 0
                       /\ FailuresOf(t)' = 0 /\ SuccessesOf(t)' = 0
<1>0. Knows(t)
  BY DEF RefInv
<1>1. ASSUME stutter
      PROVE  UNCHANGED Abstract!vars
  BY <1>1, AbstractCounters DEF Abstract!vars, Age
<1>2. ASSUME NEW s, enter(s)
      PROVE  Abstract!Enter(s)
  BY <1>2, AbstractCounters DEF Abstract!Enter, Age
<1>3. CASE HTick
  <2>1. CASE state = "Open" /\ open_age # RecoveryTimeout
    <3>1. open_age < RecoveryTimeout /\ open_age' = open_age + 1 /\ state' = "Open"
      BY <1>3, <2>1, RefFacts DEF HTick, Tick, Older
    <3>2. FailuresOf(t)' = FailuresOf(t) /\ SuccessesOf(t)' = SuccessesOf(t)
      BY <2>1, <3>1 DEF FailuresOf, SuccessesOf
    <3>3. Abstract!Tick
      BY <2>1, <3>1, <3>2, AbstractCounters DEF Abstract!Tick
    <3>. QED
      BY <3>3 DEF Abstract!Next
  <2>2. CASE ~(state = "Open" /\ open_age # RecoveryTimeout)
    <3>1. stutter
      BY <1>3, <2>2, RefFacts DEF HTick, Tick, Older, Age, FailuresOf, SuccessesOf
    <3>. QED
      BY <1>1, <3>1
  <2>. QED
    BY <2>1, <2>2
<1>4. CASE UNCHANGED hvars
  <2>1. stutter
    BY <1>4 DEF hvars, vars, Age, FailuresOf, SuccessesOf
  <2>. QED
    BY <1>1, <2>1
<1>5. CASE HStep(t)
  <2>0. /\ open_age' = IF state # "Open" /\ state' = "Open" THEN 0 ELSE open_age
        /\ Call(t) \/ Continue(t)
    BY <1>5 DEF HStep, Entered
  <2>1. CASE SuccessWhileClosed(t)
    <3>1. state = "Closed" /\ enter("Closed")
      BY <2>0, <2>1, RefFacts DEF SuccessWhileClosed, Goto, Age, FailuresOf, SuccessesOf
    <3>2. Abstract!Success
      BY <1>2, <3>1 DEF Abstract!Success
    <3>. QED
      BY <3>2 DEF Abstract!Next
  <2>2. CASE SuccessWhileHalfOpen(t)
    <3>1. /\ state = "HalfOpen" /\ state' = state /\ pc[t] = "idle"
          /\ success_count' = success_count + 1 /\ success_count < SuccessesToClose
          /\ pc'[t] \in {"idle", "close_state"}
      BY <1>0, <2>2, RefFacts DEF SuccessWhileHalfOpen, Goto, Knows, SuccessesToClose
    <3>2. CASE success_count + 1 < SuccessesToClose
      <4>1. /\ SuccessesOf(t) = success_count /\ SuccessesOf(t)' = success_count + 1
            /\ FailuresOf(t) = 0 /\ FailuresOf(t)' = 0 /\ Age = 0 /\ Age' = 0
        BY <3>1, <3>2, RefFacts DEF SuccessesOf, FailuresOf, Age, SuccessesToClose
      <4>2. Abstract!Success
        BY <3>1, <3>2, <4>1, AbstractCounters DEF Abstract!Success, Age
      <4>. QED
        BY <4>2 DEF Abstract!Next
    <3>3. CASE success_count + 1 >= SuccessesToClose
      <4>1. stutter
        BY <3>1, <3>3, RefFacts DEF SuccessesOf, FailuresOf, Age, SuccessesToClose
      <4>. QED
        BY <1>1, <4>1
    <3>. QED
      BY <3>2, <3>3, RefFacts DEF SuccessesToClose
  <2>3. CASE FailureWhileClosed(t)
    <3>1. /\ state = "Closed" /\ state' = state /\ pc[t] = "idle"
          /\ failure_count' = failure_count + 1
          /\ pc'[t] = IF failure_count + 1 >= FailureThreshold THEN "open_state" ELSE "idle"
      BY <2>3, RefFacts DEF FailureWhileClosed, Goto
    <3>2. CASE failure_count + 1 < FailureThreshold
      <4>1. /\ FailuresOf(t) = failure_count /\ FailuresOf(t)' = failure_count + 1
            /\ SuccessesOf(t) = 0 /\ SuccessesOf(t)' = 0 /\ Age = 0 /\ Age' = 0
        BY <3>1, <3>2, RefFacts DEF SuccessesOf, FailuresOf, Age
      <4>2. Abstract!Failure
        BY <3>1, <3>2, <4>1, AbstractCounters DEF Abstract!Failure, Age
      <4>. QED
        BY <4>2 DEF Abstract!Next
    <3>3. CASE failure_count + 1 >= FailureThreshold
      <4>1. stutter
        BY <3>1, <3>3, RefFacts DEF SuccessesOf, FailuresOf, Age
      <4>. QED
        BY <1>1, <4>1
    <3>. QED
      BY <3>2, <3>3, RefFacts
  <2>4. CASE FailureWhileHalfOpen(t) \/ Reset(t) \/ Poll(t)
    <3>1. stutter
      BY <2>0, <2>4, RefFacts DEF FailureWhileHalfOpen, Reset, Poll, Goto, Age, FailuresOf, SuccessesOf
    <3>. QED
      BY <1>1, <3>1
  <2>5. CASE OpenState(t)
    <3>1. enter("Open")
      BY <1>0, <2>0, <2>5, RefFacts DEF OpenState, Goto, Age, FailuresOf, SuccessesOf, Knows
    <3>2. CASE state = "HalfOpen"
      BY <1>2, <3>1, <3>2 DEF Abstract!Failure, Abstract!Next
    <3>3. CASE state = "Closed"
      <4>1. ~(FailuresOf(t) + 1 < FailureThreshold)
        BY <1>0, <2>5, <3>3, RefFacts DEF OpenState, Goto, FailuresOf, Knows
      <4>2. Abstract!Failure
        BY <1>2, <3>1, <3>3, <4>1, AbstractCounters DEF Abstract!Failure
      <4>. QED
        BY <4>2 DEF Abstract!Next
    <3>. QED
      BY <1>0, <2>5, <3>2, <3>3 DEF OpenState, Goto, Knows
  <2>6. CASE CloseState(t)
    <3>1. enter("Closed")
      BY <2>0, <2>6, RefFacts DEF CloseState, Goto, Age, FailuresOf, SuccessesOf
    <3>. QED
      BY <1>2, <3>1 DEF Abstract!Reset, Abstract!Next
  <2>7. CASE ProbeState(t)
    <3>1. pc[t] = "probe_state" /\ state = "Open" /\ open_age = RecoveryTimeout
      BY <1>0, <2>7, RefFacts DEF ProbeState, Goto, Knows
    <3>2. enter("HalfOpen")
      BY <2>0, <2>7, <3>1, RefFacts DEF ProbeState, Goto, Age, FailuresOf, SuccessesOf
    <3>3. Abstract!Recover
      BY <1>2, <3>1, <3>2 DEF Abstract!Recover
    <3>. QED
      BY <3>3 DEF Abstract!Next
  <2>8. CASE \/ OpenInstant(t) \/ OpenSuccesses(t) \/ CloseFailures(t) \/ CloseSuccesses(t)
             \/ CloseInstant(t) \/ ProbeInstant(t) \/ ProbeReset(t)
    <3>1. stutter
      BY <1>0, <2>0, <2>8, RefFacts
         DEF OpenInstant, OpenSuccesses, CloseFailures, CloseSuccesses, CloseInstant, ProbeInstant,
             ProbeReset, Goto, Age, FailuresOf, SuccessesOf, Knows, SuccessesToClose
    <3>. QED
      BY <1>1, <3>1
  <2>. QED
    BY <2>0, <2>1, <2>2, <2>3, <2>4, <2>5, <2>6, <2>7, <2>8 DEF Call, Continue
<1>. QED
  BY <1>3, <1>4, <1>5 DEF HNext

(* A breaker used by one thread at a time behaves as the indivisible        *)
(* three-state machine of its documentation (circuit_breaker.rs l.13-29),   *)
(* for every threshold and timeout.                                         *)
THEOREM OneThreadImplementsAbstract ==
    ASSUME NEW t, Threads = {t}
    PROVE  HSpec => ImplementsAbstract
<1>1. HInit => RefInv /\ Abstract!Init
  <2> SUFFICES ASSUME HInit PROVE RefInv /\ Abstract!Init
    OBVIOUS
  <2>1. TypeOK
    BY BreakerAssumption DEF HInit, Init, TypeOK, CircuitState, Steps
  <2>2. Knows(t) /\ open_age \in 0..RecoveryTimeout
    BY BreakerAssumption DEF HInit, Init, Knows
  <2>3. Abstract!Init
    BY AbstractCounters DEF HInit, Init, Abstract!Init, FailuresOf, SuccessesOf
  <2>. QED
    BY <2>1, <2>2, <2>3 DEF RefInv
<1>2. HSpec => Spec
  <2>1. HInit => Init
    BY DEF HInit
  <2>2. [HNext]_hvars => [Next]_vars
    BY DEF HNext, HTick, HStep, Next, hvars
  <2>. QED
    BY <2>1, <2>2, PTL DEF HSpec, Spec
<1>3. TypeOK' /\ RefInv /\ [HNext]_hvars => RefInv'
  BY RefInvStep
<1>4. RefInv /\ [HNext]_hvars => [Abstract!Next]_(Abstract!vars)
  BY RefinementStep
<1>. QED
  BY <1>1, <1>2, <1>3, <1>4, TypeCorrect, PTL DEF HSpec, ImplementsAbstract, Abstract!Spec

-----------------------------------------------------------------------------
(***************************************************************************)
(* The resource limiter: as long as no pid is applied to and removed at    *)
(* the same time, no process runs in a group that lacks a limit.  The      *)
(* strengthening says how far the applies under way have come: their       *)
(* groups are there, with the limits written so far, and nobody removes    *)
(* them.                                                                   *)
(***************************************************************************)

Granted == LimitsWanted \cap LimitsOffered

\* What the applies under way can count on.
ApplyHolds ==
    \A c \in LimitCallers : Applying(c) =>
        /\ call[c].pid \in groups
        /\ \A i \in 1..(call[c].at - 1) :
               LimitFiles[i] \in Granted => LimitFiles[i] \in set[call[c].pid]

\* One pid's apply and remove keep apart.
OneAtATime ==
    \A c, d \in LimitCallers : Applying(c) /\ Removing(d) => call[c].pid # call[d].pid

LimiterInv == LimiterTypeOK /\ ApplyHolds /\ OneAtATime /\ ConfinedAreLimited

-----------------------------------------------------------------------------

(* A call under way is of the shape its operation has.                      *)
LEMMA CallShapes ==
    ASSUME LimiterTypeOK, NEW c \in LimitCallers
    PROVE  /\ Applying(c) => /\ call[c] \in [op: {"apply"}, pid: GroupPids, at: 1..5]
                             /\ call[c].pid \in GroupPids /\ call[c].at \in 1..5
           /\ Removing(c) => /\ call[c] \in [op: {"remove"}, pid: GroupPids, left: SUBSET GroupPids]
                             /\ call[c].pid \in GroupPids
  <1>1. Len(LimitFiles) = 4
    BY DEF LimitFiles
  <1>2. call[c] \in Calls
    BY DEF LimiterTypeOK
  <1> QED
    BY <1>1, <1>2 DEF Calls, Applying, Removing, Idle

(* An apply that has written every file has set every limit there is.       *)
LEMMA AllWritten ==
    ASSUME LimiterInv, NEW c \in LimitCallers, Applying(c), call[c].at = 5
    PROVE  Granted \subseteq set[call[c].pid]
  <1>1. \A i \in 1..4 : LimitFiles[i] \in Granted => LimitFiles[i] \in set[call[c].pid]
    BY DEF LimiterInv, ApplyHolds
  <1>2. LimitsWanted \subseteq { LimitFiles[1], LimitFiles[2], LimitFiles[3], LimitFiles[4] }
    BY LimiterAssumption DEF LimitFiles
  <1> QED
    BY <1>1, <1>2 DEF Granted

LEMMA LimiterInitially == LimiterInit => LimiterInv
  <1> SUFFICES ASSUME LimiterInit PROVE LimiterInv
    OBVIOUS
  <1>1. LimiterTypeOK
    BY DEF LimiterInit, LimiterTypeOK, Calls, Idle, Root, Gone
  <1>2. \A c \in LimitCallers : ~Applying(c) /\ ~Removing(c)
    BY DEF LimiterInit, Applying, Removing, Idle
  <1>3. ConfinedAreLimited
    BY DEF LimiterInit, ConfinedAreLimited
  <1> QED
    BY <1>1, <1>2, <1>3 DEF LimiterInv, ApplyHolds, OneAtATime

-----------------------------------------------------------------------------
(* One lemma per action.                                                    *)

LEMMA ForkKeeps ==
    ASSUME LimiterInv, NEW p \in GroupPids, Fork(p)
    PROVE  LimiterInv'
  <1> USE DEF LimiterInv
  <1>1. PICK g \in { member[q] : q \in GroupPids } \cup {Root} :
            g # Gone /\ member' = [member EXCEPT ![p] = g]
    BY DEF Fork
  <1>2. UNCHANGED <<groups, set, call>>
    BY DEF Fork
  <1>3. LimiterTypeOK'
    BY <1>1, <1>2 DEF LimiterTypeOK, Calls
  <1>4. ApplyHolds' /\ OneAtATime'
    BY <1>2 DEF ApplyHolds, OneAtATime, Applying, Removing
  <1>5. ConfinedAreLimited'
    BY <1>1, <1>2 DEF ConfinedAreLimited, LimiterTypeOK
  <1> QED
    BY <1>3, <1>4, <1>5

LEMMA ExitKeeps ==
    ASSUME LimiterInv, NEW p \in GroupPids, Exit(p)
    PROVE  LimiterInv'
  <1> USE DEF LimiterInv
  <1>1. LimiterTypeOK'
    BY DEF Exit, LimiterTypeOK, Calls
  <1>2. ApplyHolds' /\ OneAtATime'
    BY DEF Exit, ApplyHolds, OneAtATime, Applying, Removing
  <1>3. ConfinedAreLimited'
    BY DEF Exit, ConfinedAreLimited, LimiterTypeOK
  <1> QED
    BY <1>1, <1>2, <1>3

LEMMA ApplyKeeps ==
    ASSUME LimiterInv, ~Overlap, NEW c \in LimitCallers, NEW p \in GroupPids, Apply(c, p)
    PROVE  LimiterInv'
  <1> USE DEF LimiterInv
  <1>1. CASE UNCHANGED <<groups, call>>
    BY <1>1 DEF Apply, LimiterTypeOK, Calls, ApplyHolds, OneAtATime, ConfinedAreLimited,
                Applying, Removing
  <1>2. CASE /\ groups' = groups \cup {p}
             /\ call' = [call EXCEPT ![c] = [op |-> "apply", pid |-> p, at |-> 1]]
    <2>1. UNCHANGED <<set, member>>
      BY DEF Apply
    <2>2. LimiterTypeOK'
      BY <1>2, <2>1 DEF LimiterTypeOK, Calls, LimitFiles
    <2>3. ApplyHolds'
      BY <1>2, <2>1 DEF ApplyHolds, Applying, LimiterTypeOK
    <2>4. \A d \in LimitCallers : Removing(d) => call[d].pid # p
      BY DEF Apply, Apart, Removing
    <2>5. OneAtATime'
      BY <1>2, <2>4 DEF OneAtATime, Applying, Removing, LimiterTypeOK
    <2>6. ConfinedAreLimited'
      BY <2>1 DEF ConfinedAreLimited
    <2> QED
      BY <2>2, <2>3, <2>5, <2>6
  <1> QED
    BY <1>1, <1>2 DEF Apply

LEMMA WriteLimitKeeps ==
    ASSUME LimiterInv, NEW c \in LimitCallers, WriteLimit(c)
    PROVE  LimiterInv'
  <1> USE DEF LimiterInv
  <1> DEFINE g == call[c].pid
  <1>1. /\ Applying(c) /\ call[c].at \in 1..4 /\ g \in GroupPids
        /\ call[c] \in [op: {"apply"}, pid: GroupPids, at: 1..5]
    BY CallShapes DEF WriteLimit, LimitFiles
  <1>2. UNCHANGED <<groups, member>>
    BY DEF WriteLimit
  <1>3. CASE Returns(c) /\ UNCHANGED set
    <2>1. LimiterTypeOK'
      BY <1>2, <1>3 DEF Returns, LimiterTypeOK, Calls, Idle
    <2>2. ApplyHolds' /\ OneAtATime' /\ ConfinedAreLimited'
      BY <1>2, <1>3 DEF Returns, ApplyHolds, OneAtATime, ConfinedAreLimited, Applying, Removing,
                        Idle, LimiterTypeOK
    <2> QED
      BY <2>1, <2>2
  <1>4. CASE /\ call' = [call EXCEPT ![c].at = @ + 1]
             /\ set' = IF g \in groups /\ Written(c) \in Granted
                       THEN [set EXCEPT ![g] = @ \cup {Written(c)}] ELSE set
    <2>1. /\ call' = [call EXCEPT ![c] = [call[c] EXCEPT !.at = call[c].at + 1]]
          /\ [call[c] EXCEPT !.at = call[c].at + 1] \in [op: {"apply"}, pid: GroupPids, at: 1..5]
      BY <1>1, <1>4
    <2>2. LimiterTypeOK'
      <3>1. set' \in [GroupPids -> SUBSET LimitsWanted]
        BY <1>4 DEF LimiterTypeOK, Granted
      <3>2. call' \in [LimitCallers -> Calls]
        BY <2>1 DEF LimiterTypeOK, Calls, LimitFiles
      <3> QED
        BY <1>2, <3>1, <3>2 DEF LimiterTypeOK
    <2>3. \A h \in GroupPids : set[h] \subseteq set'[h]
      BY <1>4 DEF LimiterTypeOK
    <2>4. \A d \in LimitCallers : call'[d].op = call[d].op /\ call'[d].pid = call[d].pid
      BY <1>1, <2>1 DEF LimiterTypeOK
    <2>5. OneAtATime'
      BY <2>4 DEF OneAtATime, Applying, Removing
    <2>6. ConfinedAreLimited'
      BY <1>2, <2>3 DEF ConfinedAreLimited, LimiterTypeOK
    <2>7. ApplyHolds'
      <3> SUFFICES ASSUME NEW d \in LimitCallers, Applying(d)',
                          NEW i \in 1..(call'[d].at - 1), LimitFiles[i] \in Granted
                   PROVE  /\ call'[d].pid \in groups'
                          /\ LimitFiles[i] \in set'[call'[d].pid]
        <4>1. \A d \in LimitCallers : Applying(d)' => call'[d].pid \in groups'
          BY <1>2, <2>4 DEF ApplyHolds, Applying
        <4> QED
          BY <4>1 DEF ApplyHolds, Applying
      <3>1. Applying(d) /\ call'[d].pid = call[d].pid /\ call[d].pid \in groups
        BY <2>4 DEF Applying, ApplyHolds
      <3>2. call[d].pid \in GroupPids
        BY <3>1, CallShapes
      <3>3. CASE i \in 1..(call[d].at - 1)
        BY <1>2, <2>3, <3>1, <3>2, <3>3 DEF ApplyHolds
      <3>4. CASE d = c /\ i = call[c].at
        BY <1>2, <1>4, <3>1, <3>2, <3>4 DEF Written, LimiterTypeOK
      <3>5. i \in 1..(call[d].at - 1) \/ (d = c /\ i = call[c].at)
        <4>1. CASE d = c
          <5>1. call'[c].at = call[c].at + 1
            BY <1>1, <2>1 DEF LimiterTypeOK
          <5> QED
            BY <1>1, <4>1, <5>1
        <4>2. CASE d # c
          BY <2>1, <4>2 DEF LimiterTypeOK
        <4> QED
          BY <4>1, <4>2
      <3> QED
        BY <1>2, <3>1, <3>3, <3>4, <3>5
    <2> QED
      BY <2>2, <2>5, <2>6, <2>7
  <1> QED
    BY <1>3, <1>4 DEF WriteLimit, Granted

LEMMA MoveKeeps ==
    ASSUME LimiterInv, NEW c \in LimitCallers, Move(c)
    PROVE  LimiterInv'
  <1> USE DEF LimiterInv
  <1> DEFINE g == call[c].pid
  <1>1. Applying(c) /\ call[c].at = 5 /\ g \in GroupPids
    BY CallShapes DEF Move, LimitFiles
  <1>2. UNCHANGED <<groups, set>> /\ Returns(c)
    BY DEF Move
  <1>3. Granted \subseteq set[g]
    BY <1>1, AllWritten
  <1>4. \/ g \in groups /\ member' = [member EXCEPT ![g] = g]
        \/ UNCHANGED member
    BY DEF Move
  <1>5. LimiterTypeOK'
    BY <1>1, <1>2, <1>4 DEF Returns, LimiterTypeOK, Calls, Idle
  <1>6. ApplyHolds' /\ OneAtATime'
    BY <1>2 DEF Returns, ApplyHolds, OneAtATime, Applying, Removing, Idle, LimiterTypeOK
  <1>7. ConfinedAreLimited'
    BY <1>1, <1>2, <1>3, <1>4 DEF ConfinedAreLimited, LimiterTypeOK, Granted
  <1> QED
    BY <1>5, <1>6, <1>7

LEMMA RemoveGroupKeeps ==
    ASSUME LimiterInv, ~Overlap, NEW c \in LimitCallers, NEW p \in GroupPids, RemoveGroup(c, p)
    PROVE  LimiterInv'
  <1> USE DEF LimiterInv
  <1>1. PICK procs \in {{}, { q \in GroupPids : member[q] = p }} :
            call' = [call EXCEPT ![c] = [op |-> "remove", pid |-> p, left |-> procs]]
    BY DEF RemoveGroup
  <1>2. UNCHANGED <<groups, set, member>>
    BY DEF RemoveGroup
  <1>3. LimiterTypeOK'
    BY <1>1, <1>2 DEF LimiterTypeOK, Calls
  <1>4. ApplyHolds' /\ ConfinedAreLimited'
    BY <1>1, <1>2 DEF ApplyHolds, ConfinedAreLimited, Applying, LimiterTypeOK
  <1>5. \A d \in LimitCallers : Applying(d) => call[d].pid # p
    BY DEF RemoveGroup, Apart, Applying
  <1>6. OneAtATime'
    BY <1>1, <1>5 DEF OneAtATime, Applying, Removing, LimiterTypeOK
  <1> QED
    BY <1>3, <1>4, <1>6

LEMMA MoveToRootKeeps ==
    ASSUME LimiterInv, NEW c \in LimitCallers, MoveToRoot(c)
    PROVE  LimiterInv'
  <1> USE DEF LimiterInv
  <1>1. PICK q \in call[c].left :
            /\ call' = [call EXCEPT ![c].left = @ \ {q}]
            /\ \/ member[q] # Gone /\ member' = [member EXCEPT ![q] = Root]
               \/ UNCHANGED member
    BY DEF MoveToRoot
  <1>2. UNCHANGED <<groups, set>>
    BY DEF MoveToRoot
  <1>3. Removing(c) /\ call[c] \in [op: {"remove"}, pid: GroupPids, left: SUBSET GroupPids]
    BY CallShapes DEF MoveToRoot
  <1>4. /\ call' = [call EXCEPT ![c] = [call[c] EXCEPT !.left = call[c].left \ {q}]]
        /\ [call[c] EXCEPT !.left = call[c].left \ {q}]
               \in [op: {"remove"}, pid: GroupPids, left: SUBSET GroupPids]
    BY <1>1, <1>3
  <1>5. LimiterTypeOK'
    BY <1>1, <1>2, <1>4 DEF LimiterTypeOK, Calls
  <1>6. \A d \in LimitCallers : call'[d].op = call[d].op /\ call'[d].pid = call[d].pid
    BY <1>3, <1>4 DEF LimiterTypeOK
  <1>7. \A d \in LimitCallers : Applying(d) => call'[d].at = call[d].at
    BY <1>3, <1>4 DEF LimiterTypeOK, Applying, Removing
  <1>8. ApplyHolds' /\ OneAtATime'
    BY <1>2, <1>6, <1>7 DEF ApplyHolds, OneAtATime, Applying, Removing
  <1>9. ConfinedAreLimited'
    BY <1>1, <1>2 DEF ConfinedAreLimited, LimiterTypeOK
  <1> QED
    BY <1>5, <1>8, <1>9

LEMMA RemoveDirKeeps ==
    ASSUME LimiterInv, NEW c \in LimitCallers, RemoveDir(c)
    PROVE  LimiterInv'
  <1> USE DEF LimiterInv
  <1> DEFINE g == call[c].pid
  <1>1. Removing(c) /\ g \in GroupPids
    BY CallShapes DEF RemoveDir
  <1>2. Returns(c) /\ UNCHANGED member
    BY DEF RemoveDir
  <1>3. OneAtATime'
    BY <1>2 DEF Returns, OneAtATime, Applying, Removing, Idle, LimiterTypeOK
  <1>4. \A d \in LimitCallers : Applying(d)' => Applying(d) /\ call'[d] = call[d]
    BY <1>2 DEF Returns, Applying, Idle, LimiterTypeOK
  <1>5. CASE UNCHANGED <<groups, set>>
    <2>1. LimiterTypeOK'
      BY <1>2, <1>5 DEF Returns, LimiterTypeOK, Calls, Idle
    <2>2. ApplyHolds' /\ ConfinedAreLimited'
      BY <1>2, <1>4, <1>5 DEF ApplyHolds, ConfinedAreLimited
    <2> QED
      BY <1>3, <2>1, <2>2
  <1>6. CASE Emptied(g) /\ groups' = groups \ {g} /\ set' = [set EXCEPT ![g] = {}]
    <2>1. LimiterTypeOK'
      BY <1>1, <1>2, <1>6 DEF Returns, LimiterTypeOK, Calls, Idle, Emptied
    <2>2. \A d \in LimitCallers : Applying(d) => call[d].pid # g /\ call[d].pid \in GroupPids
      BY <1>1, CallShapes DEF OneAtATime
    <2>3. ApplyHolds'
      BY <1>4, <1>6, <2>2 DEF ApplyHolds, LimiterTypeOK
    <2>4. ConfinedAreLimited'
      BY <1>1, <1>2, <1>6 DEF ConfinedAreLimited, LimiterTypeOK, Emptied
    <2> QED
      BY <1>3, <2>1, <2>3, <2>4
  <1> QED
    BY <1>5, <1>6 DEF RemoveDir

-----------------------------------------------------------------------------

LEMMA LimiterStep == ASSUME LimiterInv, ~Overlap, [LimiterNext]_limiterVars PROVE LimiterInv'
  <1>1. ASSUME NEW p \in GroupPids, Fork(p) \/ Exit(p) PROVE LimiterInv'
    BY <1>1, ForkKeeps, ExitKeeps
  <1>2. ASSUME NEW c \in LimitCallers, NEW p \in GroupPids, Apply(c, p) \/ RemoveGroup(c, p)
        PROVE  LimiterInv'
    BY <1>2, ApplyKeeps, RemoveGroupKeeps
  <1>3. ASSUME NEW c \in LimitCallers, WriteLimit(c) \/ Move(c) \/ MoveToRoot(c) \/ RemoveDir(c)
        PROVE  LimiterInv'
    BY <1>3, WriteLimitKeeps, MoveKeeps, MoveToRootKeeps, RemoveDirKeeps
  <1>4. CASE UNCHANGED limiterVars
    BY <1>4 DEF limiterVars, LimiterInv, LimiterTypeOK, ApplyHolds, OneAtATime, ConfinedAreLimited,
                Applying, Removing
  <1> QED
    BY <1>1, <1>2, <1>3, <1>4 DEF LimiterNext

(* apply and remove of limiter.rs: processes are never confined without     *)
(* their limits, if nobody applies to and removes one pid at a time.        *)
THEOREM ConfinedStayLimited == ASSUME ~Overlap PROVE LimiterSpec => []ConfinedAreLimited
  <1>1. LimiterInv /\ [LimiterNext]_limiterVars => LimiterInv'
    BY LimiterStep
  <1>2. LimiterInv => ConfinedAreLimited
    BY DEF LimiterInv
  <1> QED
    BY <1>1, <1>2, LimiterInitially, PTL DEF LimiterSpec

-----------------------------------------------------------------------------
(***************************************************************************)
(* The platforms: what an adapter asks of a handle tells the handles it    *)
(* made from the others', and detection never ends in a stub.              *)
(***************************************************************************)

LEMMA NoStubIsSelected ==
    ASSUME NEW t \in Target, NEW e
    PROVE  ~IsStub(SelectAdapter[DetectPlatform(t, e)], t)
  BY DEF IsStub, SystemdStub, LaunchdStub, SelectAdapter, DetectPlatform, Detect, Target

LEMMA SelectedIsAdapter ==
    ASSUME NEW t \in Target, NEW e
    PROVE  SelectAdapter[DetectPlatform(t, e)] \in Adapter
  BY DEF SelectAdapter, DetectPlatform, Detect, Adapter

LEMMA TakesItsOwn ==
    ASSUME NEW a \in Adapter, NEW op \in {"signal", "status"}
    PROVE  Takes(a, op, a)
  BY DEF Takes, Asks, Accessors, Adapter

LEMMA TakesNoOther ==
    ASSUME NEW a \in Adapter \ {"wos"}, NEW op \in {"signal", "status"}, NEW kind \in Adapter,
           Takes(a, op, kind)
    PROVE  kind = a
<1>1. CASE a = "native"
  BY <1>1 DEF Takes
<1>2. CASE a = "systemd"
  BY <1>2 DEF Takes, Asks, Accessors
<1>3. CASE a = "launchd"
  BY <1>3 DEF Takes, Asks, Accessors
<1>4. CASE a = "container"
  BY <1>4 DEF Takes, Asks, Accessors
<1>5. CASE a = "pepita"
  BY <1>5 DEF Takes, Asks, Accessors
<1> QED
  BY <1>1, <1>2, <1>3, <1>4, <1>5 DEF Adapter

PlacesInv == target \in Target /\ kept \subseteq Adapter /\ SelectedFits

(* select_adapter_auto (adapters/mod.rs l.233): on every target and         *)
(* whatever of the markers are there when handles are made and used, the    *)
(* selected adapter can spawn, takes its own handles and, the wos adapter   *)
(* aside, acts on nobody else's.                                            *)
THEOREM SelectedAlwaysFits == PlacesSpec => []SelectedFits
<1>1. PlacesInit => PlacesInv
  BY DEF PlacesInit, PlacesInv, SelectedFits
<1>2. PlacesInv /\ [PlacesNext]_placeVars => PlacesInv'
  <2> SUFFICES ASSUME PlacesInv, [PlacesNext]_placeVars PROVE PlacesInv'
    OBVIOUS
  <2>1. Selected \in Adapter /\ ~IsStub(Selected, target)
    BY NoStubIsSelected, SelectedIsAdapter DEF PlacesInv, Selected
  <2>2. CASE SpawnAuto
    BY <2>1, <2>2 DEF SpawnAuto, Asked, PlacesInv, SelectedFits
  <2>3. CASE StartElsewhere
    BY <2>3 DEF StartElsewhere, PlacesInv, SelectedFits
  <2>4. ASSUME NEW op \in {"signal", "status"}, NEW kind \in Adapter, UseAuto(op, kind)
        PROVE  PlacesInv'
    <3>1. kind = Selected => Takes(Selected, op, kind)
      BY <2>1, TakesItsOwn
    <3>2. Takes(Selected, op, kind) /\ Selected # "wos" => kind = Selected
      BY <2>1, TakesNoOther
    <3> QED
      BY <2>1, <2>4, <3>1, <3>2 DEF UseAuto, Asked, PlacesInv, SelectedFits
  <2>5. ASSUME NEW adapter \in Adapter, NEW kind \in Adapter, UsePlatform(adapter, kind)
        PROVE  PlacesInv'
    BY <2>5 DEF UsePlatform, Asked, PlacesInv, SelectedFits
  <2>6. CASE UNCHANGED placeVars
    BY <2>6 DEF placeVars, PlacesInv, SelectedFits
  <2> QED
    BY <2>2, <2>3, <2>4, <2>5, <2>6 DEF PlacesNext
<1>3. PlacesInv => SelectedFits
  BY DEF PlacesInv
<1> QED
  BY <1>1, <1>2, <1>3, PTL DEF PlacesSpec

-----------------------------------------------------------------------------
(***************************************************************************)
(* The platforms are told the same of a config.                            *)
(***************************************************************************)

ConfigInv == last.gate = "config" /\ last.loaded => last.config \in DaemonConfig /\ Validate(last.config)

LEMMA ToldTheSame ==
    ASSUME NEW c \in DaemonConfig, Validate(c), NEW k \in {"linux", "macos", "container", "pepita"},
           NEW l \in {"linux", "macos", "container", "pepita"}
    PROVE  LET told == Told(c) IN
           /\ told[k].memory > 0 /\ told[l].memory > 0 => told[k].memory \div Mebi = told[l].memory \div Mebi
           /\ told[k].cpu \in 1..(WholeCpu - 1) /\ told[l].cpu > 0 => told[k].cpu <= told[l].cpu
           /\ told[k].pids > 0 /\ told[l].pids > 0 => told[k].pids = told[l].pids
<1> DEFINE m == c.resources.memory_bytes
           q == CpuQuota(c.resources)
           p == c.resources.pids_max
<1>1. m \in Nat /\ p \in Nat
  BY GatesAssumption DEF DaemonConfig, ResourceConfig
<1>2. q \in 0..(WholeCpu - 1)
  BY DEF CpuQuota, WholeCpu
<1>3. Told(c)[k].memory \in {m, 0, (m \div Mebi) * Mebi} /\ Told(c)[l].memory \in {m, 0, (m \div Mebi) * Mebi}
  BY DEF Told, UnitFile, Plist, RunArgs, VmArgs
<1>4. Told(c)[k].cpu \in {q, 0, WholeCpu} /\ Told(c)[l].cpu \in {q, 0, WholeCpu}
  BY DEF Told, UnitFile, Plist, RunArgs, VmArgs
<1>5. Told(c)[k].pids \in {p, 0} /\ Told(c)[l].pids \in {p, 0}
  BY DEF Told, UnitFile, Plist, RunArgs, VmArgs
<1> HIDE DEF m, q, p
<1>6. ((m \div Mebi) * Mebi) \div Mebi = m \div Mebi
  BY <1>1 DEF Mebi
<1> QED
  BY <1>1, <1>2, <1>3, <1>4, <1>5, <1>6 DEF WholeCpu

LEMMA ToldWhatIsMeant ==
    ASSUME NEW c \in DaemonConfig, Validate(c)
    PROVE  LET told == Told(c) IN
           /\ DOMAIN told = {"linux", "macos", "container", "pepita"}
           /\ \A k \in {"linux", "container"} : told[k].memory > 0 /\ told[k].pids > 0
           /\ c.restart = "never" => \A k \in DOMAIN told : told[k].restarts = {}
           /\ c.restart \in {"on-failure", "always"} =>
                  \A k \in {"linux", "macos", "container"} : "failed" \in told[k].restarts
<1>1. DOMAIN Told(c) = {"linux", "macos", "container", "pepita"}
  BY DEF Told
<1>2. c.resources.memory_bytes > 0 /\ c.resources.pids_max > 0
  <2>1. c.resources.memory_bytes \in Nat /\ c.resources.pids_max \in Nat
    BY GatesAssumption DEF DaemonConfig, ResourceConfig
  <2>2. c.resources.memory_bytes # 0 /\ c.resources.pids_max # 0
    BY DEF Validate, ValidateResources
  <2> QED
    BY <2>1, <2>2
<1>3. \A k \in {"linux", "container"} : Told(c)[k].memory > 0 /\ Told(c)[k].pids > 0
  BY <1>2 DEF Told, UnitFile, RunArgs
<1>4. c.restart = "never" => \A k \in DOMAIN Told(c) : Told(c)[k].restarts = {}
  BY <1>1 DEF Told, UnitFile, Plist, RunArgs, VmArgs, SystemdRestarts, DockerRestarts, KeepAlive
<1>5. c.restart \in {"on-failure", "always"} =>
          \A k \in {"linux", "macos", "container"} : "failed" \in Told(c)[k].restarts
  BY DEF Told, UnitFile, Plist, RunArgs, SystemdRestarts, DockerRestarts, KeepAlive, ServiceEnds
<1> QED
  BY <1>1, <1>3, <1>4, <1>5

(* LinuxAdapter, MacOSAdapter, ContainerAdapter, PepitaAdapter of           *)
(* duende-platform: whatever a loaded config says, they limit the same      *)
(* resource to the same, in whole units, and restart neither a daemon that  *)
(* is never to be nor, the VMs aside, forget one that failed.               *)
THEOREM PlatformsAreToldTheSame == GateSpec => []PlatformsAgree
<1>1. GateInit => ConfigInv
  BY DEF GateInit, Nothing, ConfigInv
<1>2. ConfigInv /\ [GateNext]_gateVars => ConfigInv'
  <2> SUFFICES ASSUME ConfigInv, [GateNext]_gateVars PROVE ConfigInv'
    OBVIOUS
  <2>1. CASE AddCheck
    BY <2>1 DEF AddCheck, Nothing, ConfigInv
  <2>2. CASE CheckEvidence
    BY <2>2 DEF CheckEvidence, ConfigInv
  <2>3. CASE AnalyzeQuality
    BY <2>3 DEF AnalyzeQuality, ConfigInv
  <2>4. CASE LoadConfig
    <3>1. PICK c \in DaemonConfig, legible \in BOOLEAN :
              last' = [gate |-> "config", config |-> c, loaded |-> legible /\ Validate(c)]
      BY <2>4 DEF LoadConfig
    <3>2. last'.config = c /\ (last'.loaded <=> legible /\ Validate(c))
      BY <3>1, Zenon
    <3> QED
      BY <3>2 DEF ConfigInv
  <2>5. CASE UNCHANGED gateVars
    BY <2>5 DEF gateVars, ConfigInv
  <2> QED
    BY <2>1, <2>2, <2>3, <2>4, <2>5 DEF GateNext
<1>3. ConfigInv => PlatformsAgree
  <2> SUFFICES ASSUME ConfigInv, last.gate = "config" /\ last.loaded PROVE PlatformsAgree
    BY DEF PlatformsAgree
  <2>1. last.config \in DaemonConfig /\ Validate(last.config)
    BY DEF ConfigInv
  <2> QED
    BY <2>1, ToldTheSame, ToldWhatIsMeant DEF PlatformsAgree
<1> QED
  BY <1>1, <1>2, <1>3, PTL DEF GateSpec

-----------------------------------------------------------------------------
(***************************************************************************)
(* The verdicts of a gate.  A gate goes through its checks, and its        *)
(* recommendation through the violations, one by one: Induct is induction  *)
(* over how many, and Iterates says that the functions so defined exist.   *)
(***************************************************************************)

LEMMA Induct ==
    ASSUME NEW n \in Nat, NEW T \in SUBSET (0..n), 0 \in T, \A i \in 1..n : i - 1 \in T => i \in T
    PROVE  T = 0..n
<1> DEFINE Bad == (0..n) \ T
<1>1. ASSUME Bad # {} PROVE FALSE
  <2>1. PICK i \in Bad : \A j \in Bad : i <= j
    <3>1. Bad \in SUBSET Nat
      OBVIOUS
    <3> HIDE DEF Bad
    <3> QED
      BY <1>1, <3>1, LeastNumber
  <2>2. i \in 1..n /\ i - 1 \in 0..n
    BY <2>1
  <2>3. ~(i <= i - 1)
    BY <2>2
  <2> QED
    BY <2>1, <2>2, <2>3
<1> QED
  BY <1>1

Iteration(X, base, n, step) ==
    \E g \in [0..n -> X] : g[0] = base /\ \A i \in 1..n : g[i] = step[i][g[i - 1]]

LEMMA Iterates ==
    ASSUME NEW X, NEW base \in X, NEW n \in Nat, NEW step \in [1..n -> [X -> X]]
    PROVE  Iteration(X, base, n, step)
<1> DEFINE T == { m \in 0..n : \E g \in [0..m -> X] : /\ g[0] = base
                                                      /\ \A i \in 1..m : g[i] = step[i][g[i - 1]] }
<1>1. 0 \in T
  <2> DEFINE g == [i \in 0..0 |-> base]
  <2>1. g \in [0..0 -> X] /\ g[0] = base /\ 1..0 = {}
    OBVIOUS
  <2> HIDE DEF g
  <2> QED
    BY <2>1
<1>2. ASSUME NEW m \in 1..n, m - 1 \in T PROVE m \in T
  <2>1. PICK g \in [0..(m - 1) -> X] : /\ g[0] = base
                                       /\ \A i \in 1..(m - 1) : g[i] = step[i][g[i - 1]]
    BY <1>2
  <2> DEFINE h == [i \in 0..m |-> IF i = m THEN step[m][g[m - 1]] ELSE g[i]]
  <2>2. \A i \in 0..m : h[i] = IF i = m THEN step[m][g[m - 1]] ELSE g[i]
    OBVIOUS
  <2>3. step[m][g[m - 1]] \in X
    <3>1. g[m - 1] \in X
      OBVIOUS
    <3> QED
      BY <3>1
  <2>4. h \in [0..m -> X]
    BY <2>3
  <2> HIDE DEF h
  <2>5. h[0] = base /\ \A i \in 1..m : h[i] = step[i][h[i - 1]]
    <3>1. h[0] = base
      BY <2>1, <2>2
    <3>2. ASSUME NEW i \in 1..m PROVE h[i] = step[i][h[i - 1]]
      <4>1. h[i - 1] = g[i - 1]
        BY <2>2
      <4> QED
        BY <2>1, <2>2, <4>1
    <3> QED
      BY <3>1, <3>2
  <2> QED
    BY <2>4, <2>5
<1>3. T = 0..n
  <2> HIDE DEF T
  <2>1. T \in SUBSET (0..n)
    BY DEF T
  <2> QED
    BY <1>1, <1>2, <2>1, Induct
<1>4. n \in T
  BY <1>3
<1> QED
  BY <1>4 DEF Iteration

\* What recommend has said after so many violations, and check found after so many verdicts.
SaidBy(violations, g) ==
    g = [i \in 0..Len(violations) |->
            IF i = 0 THEN <<>>
            ELSE IF g[i - 1] # <<>> /\ Last(g[i - 1]) = violations[i] THEN g[i - 1]
            ELSE Append(g[i - 1], violations[i])]

FoundBy(verdicts, stop_on_first, g) ==
    g = [i \in 0..Len(verdicts) |->
            IF i = 0 THEN <<>>
            ELSE IF verdicts[i] = Passes \/ (stop_on_first /\ g[i - 1] # <<>>) THEN g[i - 1]
            ELSE Append(g[i - 1], verdicts[i])]

LEMMA RecommendIs ==
    ASSUME NEW v \in Seq(ViolationKind)
    PROVE  \E g : SaidBy(v, g) /\ Recommend(v) = g[Len(v)]
<1> DEFINE X == Seq(ViolationKind)
           n == Len(v)
           step == [i \in 1..n |-> [x \in X |-> IF x # <<>> /\ Last(x) = v[i] THEN x ELSE Append(x, v[i])]]
<1>1. Recommend(v) = (CHOOSE g : SaidBy(v, g))[Len(v)]
  BY DEF Recommend, SaidBy
<1>2. \E g : SaidBy(v, g)
  <2>1. step \in [1..n -> [X -> X]] /\ n \in Nat /\ <<>> \in X
    OBVIOUS
  <2>2. PICK g \in [0..n -> X] : g[0] = <<>> /\ \A i \in 1..n : g[i] = step[i][g[i - 1]]
    <3> HIDE DEF step, X, n
    <3>1. Iteration(X, <<>>, n, step)
      BY <2>1, Iterates
    <3> QED
      BY <3>1 DEF Iteration
  <2>3. ASSUME NEW i \in 1..n
        PROVE  g[i] = IF g[i - 1] # <<>> /\ Last(g[i - 1]) = v[i] THEN g[i - 1] ELSE Append(g[i - 1], v[i])
    <3>1. i - 1 \in 0..n /\ g[i - 1] \in X
      <4> HIDE DEF X, n
      <4> QED
        BY <2>1
    <3> QED
      BY <2>2, <3>1
  <2>4. SaidBy(v, g)
    <3> DEFINE h(i) == IF i = 0 THEN <<>>
                       ELSE IF g[i - 1] # <<>> /\ Last(g[i - 1]) = v[i] THEN g[i - 1]
                       ELSE Append(g[i - 1], v[i])
    <3>1. \A i \in 0..n : g[i] = h(i)
      <4>1. h(0) = g[0]
        BY <2>2
      <4>2. ASSUME NEW i \in 1..n PROVE h(i) = g[i]
        BY <2>3
      <4> HIDE DEF X, step, h, n
      <4> QED
        BY <2>1, <4>1, <4>2
    <3>2. g = [i \in 0..n |-> g[i]]
      <4> HIDE DEF X, n
      <4> QED
        OBVIOUS
    <3> HIDE DEF h
    <3>3. g = [i \in 0..n |-> h(i)]
      BY <3>1, <3>2
    <3> QED
      BY <3>3 DEF SaidBy, h
  <2> QED
    BY <2>4
<1> QED
  BY <1>1, <1>2

LEMMA ViolationsIs ==
    ASSUME NEW v \in Seq(ViolationKind \cup {Passes}), NEW stop \in BOOLEAN
    PROVE  \E g : FoundBy(v, stop, g) /\ Violations(v, stop) = g[Len(v)]
<1> DEFINE X == Seq(ViolationKind \cup {Passes})
           n == Len(v)
           step == [i \in 1..n |-> [x \in X |-> IF v[i] = Passes \/ (stop /\ x # <<>>) THEN x
                                                ELSE Append(x, v[i])]]
<1>1. Violations(v, stop) = (CHOOSE g : FoundBy(v, stop, g))[Len(v)]
  BY DEF Violations, FoundBy
<1>2. \E g : FoundBy(v, stop, g)
  <2>1. step \in [1..n -> [X -> X]] /\ n \in Nat /\ <<>> \in X
    OBVIOUS
  <2>2. PICK g \in [0..n -> X] : g[0] = <<>> /\ \A i \in 1..n : g[i] = step[i][g[i - 1]]
    <3> HIDE DEF step, X, n
    <3>1. Iteration(X, <<>>, n, step)
      BY <2>1, Iterates
    <3> QED
      BY <3>1 DEF Iteration
  <2>3. ASSUME NEW i \in 1..n
        PROVE  g[i] = IF v[i] = Passes \/ (stop /\ g[i - 1] # <<>>) THEN g[i - 1]
                      ELSE Append(g[i - 1], v[i])
    <3>1. i - 1 \in 0..n /\ g[i - 1] \in X
      <4> HIDE DEF X, n
      <4> QED
        BY <2>1
    <3> QED
      BY <2>2, <3>1
  <2>4. FoundBy(v, stop, g)
    <3> DEFINE h(i) == IF i = 0 THEN <<>>
                       ELSE IF v[i] = Passes \/ (stop /\ g[i - 1] # <<>>) THEN g[i - 1]
                       ELSE Append(g[i - 1], v[i])
    <3>1. \A i \in 0..n : g[i] = h(i)
      <4>1. h(0) = g[0]
        BY <2>2
      <4>2. ASSUME NEW i \in 1..n PROVE h(i) = g[i]
        BY <2>3
      <4> HIDE DEF X, step, h, n
      <4> QED
        BY <2>1, <4>1, <4>2
    <3>2. g = [i \in 0..n |-> g[i]]
      <4> HIDE DEF X, n
      <4> QED
        OBVIOUS
    <3> HIDE DEF h
    <3>3. g = [i \in 0..n |-> h(i)]
      BY <3>1, <3>2
    <3> QED
      BY <3>3 DEF FoundBy, h
  <2> QED
    BY <2>4
<1> QED
  BY <1>1, <1>2

LEMMA OneMore ==
    ASSUME NEW S, NEW seq \in Seq(S), NEW e \in S
    PROVE  LET longer == Append(seq, e) IN
           /\ longer \in Seq(S) /\ longer # <<>> /\ Len(seq) \in Nat /\ Len(longer) = Len(seq) + 1
           /\ longer[Len(longer)] = e
           /\ \A j \in 1..Len(seq) : longer[j] = seq[j]
           /\ ToSet(longer) = ToSet(seq) \cup {e}
<1> DEFINE longer == Append(seq, e)
<1>1. /\ longer \in Seq(S) /\ longer # <<>> /\ Len(seq) \in Nat /\ Len(longer) = Len(seq) + 1
      /\ longer[Len(longer)] = e
      /\ \A j \in 1..Len(seq) : longer[j] = seq[j]
      /\ DOMAIN longer = 1..(Len(seq) + 1) /\ DOMAIN seq = 1..Len(seq)
  OBVIOUS
<1> HIDE DEF longer
<1>2. ToSet(longer) = ToSet(seq) \cup {e}
  BY <1>1 DEF ToSet
<1> QED
  BY <1>1, <1>2 DEF longer

(* What recommend says: of each kind of violation, in order, none twice in  *)
(* a row.                                                                   *)
LEMMA RecommendSays ==
    ASSUME NEW v \in Seq(ViolationKind), NEW r, r = Recommend(v)
    PROVE  /\ r \in Seq(ViolationKind) /\ (v = <<>> => r = <<>>)
           /\ v # <<>> => r # <<>> /\ r[1] = v[1]
           /\ ToSet(r) = ToSet(v)
           /\ \A j \in 1..(Len(r) - 1) : r[j] # r[j + 1]
<1> DEFINE n == Len(v)
<1>1. PICK g : SaidBy(v, g) /\ r = g[n]
  BY RecommendIs
<1>2. n \in Nat /\ DOMAIN v = 1..n /\ \A i \in 1..n : v[i] \in ViolationKind
  OBVIOUS
<1>3. g[0] = <<>>
  BY <1>2, <1>1 DEF SaidBy
<1>4. \A i \in 1..n : g[i] = IF g[i - 1] # <<>> /\ Last(g[i - 1]) = v[i] THEN g[i - 1]
                             ELSE Append(g[i - 1], v[i])
  <2> DEFINE h(i) == IF i = 0 THEN <<>>
                     ELSE IF g[i - 1] # <<>> /\ Last(g[i - 1]) = v[i] THEN g[i - 1]
                     ELSE Append(g[i - 1], v[i])
  <2>1. g = [i \in 0..n |-> h(i)]
    BY <1>1 DEF SaidBy
  <2>2. ASSUME NEW i \in 1..n
        PROVE  h(i) = IF g[i - 1] # <<>> /\ Last(g[i - 1]) = v[i] THEN g[i - 1]
                      ELSE Append(g[i - 1], v[i])
    BY <1>2
  <2> HIDE DEF h, n
  <2>3. \A i \in 1..n : g[i] = h(i)
    BY <1>2, <2>1
  <2> QED
    BY <2>2, <2>3
<1> DEFINE Says(i) ==
               /\ g[i] \in Seq(ViolationKind) /\ (i = 0 => g[i] = <<>>)
               /\ i > 0 => g[i] # <<>> /\ g[i][1] = v[1] /\ g[i][Len(g[i])] = v[i]
               /\ ToSet(g[i]) = { v[j] : j \in 1..i }
               /\ \A j \in 1..(Len(g[i]) - 1) : g[i][j] # g[i][j + 1]
           T == { i \in 0..n : Says(i) }
<1>5. 0 \in T
  <2>1. ToSet(<<>>) = {} /\ { v[j] : j \in 1..0 } = {} /\ Len(<<>>) = 0 /\ <<>> \in Seq(ViolationKind)
    BY DEF ToSet
  <2>2. Says(0)
    BY <1>3, <2>1
  <2> QED
    BY <1>2, <2>2
<1>6. ASSUME NEW i \in 1..n, i - 1 \in T PROVE i \in T
  <2> DEFINE x == g[i - 1]
             y == g[i]
  <2>1. /\ x \in Seq(ViolationKind) /\ (i - 1 = 0 => x = <<>>)
        /\ i - 1 > 0 => x # <<>> /\ x[1] = v[1] /\ x[Len(x)] = v[i - 1]
        /\ ToSet(x) = { v[j] : j \in 1..(i - 1) }
        /\ \A j \in 1..(Len(x) - 1) : x[j] # x[j + 1]
    BY <1>6
  <2>2. { v[j] : j \in 1..i } = { v[j] : j \in 1..(i - 1) } \cup {v[i]} /\ i \in Nat /\ i > 0
        /\ i - 1 \in Nat
    BY <1>2
  <2>3. v[i] \in ViolationKind
    BY <1>2
  <2>4. CASE x # <<>> /\ Last(x) = v[i]
    <3>1. y = x /\ x # <<>> /\ x[Len(x)] = v[i]
      BY <1>4, <2>4 DEF Last
    <3>2. i - 1 # 0
      BY <2>1, <3>1
    <3>3. Len(x) \in DOMAIN x
      BY <2>1, <3>1
    <3>4. v[i] \in ToSet(x)
      BY <3>1, <3>3 DEF ToSet
    <3> HIDE DEF x
    <3>5. Says(i)
      BY <2>1, <2>2, <3>1, <3>2, <3>4
    <3> QED
      BY <3>5
  <2>5. CASE ~(x # <<>> /\ Last(x) = v[i])
    <3>1. y = Append(x, v[i])
      BY <1>4, <2>5
    <3>2. /\ y \in Seq(ViolationKind) /\ y # <<>> /\ Len(x) \in Nat /\ Len(y) = Len(x) + 1
          /\ y[Len(y)] = v[i] /\ \A j \in 1..Len(x) : y[j] = x[j]
          /\ ToSet(y) = ToSet(x) \cup {v[i]}
      <4> HIDE DEF x, y
      <4>1. x \in Seq(ViolationKind)
        BY <2>1
      <4> QED
        BY <4>1, <2>3, <3>1, OneMore
    <3>3. x # <<>> => x[Len(x)] # v[i]
      BY <2>5 DEF Last
    <3>4. x # <<>> => Len(x) > 0
      BY <2>1
    <3>5. y[1] = v[1]
      <4>1. CASE i = 1
        <5>1. Len(x) = 0
          BY <2>1, <4>1
        <5> QED
          BY <3>2, <4>1, <5>1
      <4>2. CASE i # 1
        <5>1. i - 1 > 0 /\ Len(x) > 0
          BY <2>1, <2>2, <3>4, <4>2
        <5> QED
          BY <2>1, <3>2, <5>1
      <4> QED
        BY <4>1, <4>2
    <3>6. ASSUME NEW j \in 1..(Len(y) - 1) PROVE y[j] # y[j + 1]
      <4>1. CASE j = Len(x)
        <5>1. x # <<>> /\ y[j] = x[Len(x)] /\ y[j + 1] = v[i]
          BY <3>2, <4>1
        <5> QED
          BY <3>3, <5>1
      <4>2. CASE j # Len(x)
        <5>1. j \in 1..(Len(x) - 1) /\ y[j] = x[j] /\ y[j + 1] = x[j + 1]
          BY <3>2, <4>2
        <5> QED
          BY <2>1, <5>1
      <4> QED
        BY <4>1, <4>2
    <3> HIDE DEF x
    <3>7. Says(i)
      BY <2>1, <2>2, <3>2, <3>5, <3>6
    <3> QED
      BY <3>7
  <2> QED
    BY <2>4, <2>5
<1>7. n \in T
  <2> HIDE DEF T, n
  <2>1. T \in SUBSET (0..n)
    BY DEF T
  <2>2. T = 0..n
    BY <1>2, <1>5, <1>6, <2>1, Induct
  <2> QED
    BY <1>2, <2>2
<1>8. Says(n)
  BY <1>7
<1>9. ToSet(v) = { v[j] : j \in 1..n }
  BY <1>2 DEF ToSet
<1>10. (v = <<>> => n = 0) /\ (v # <<>> => n > 0)
  BY EmptySeq
<1> QED
  BY <1>1, <1>8, <1>9, <1>10

LEMMA FoundIs ==
    ASSUME NEW v \in Seq(ViolationKind \cup {Passes}), NEW stop \in BOOLEAN, NEW g, FoundBy(v, stop, g)
    PROVE  /\ g[0] = <<>>
           /\ \A i \in 1..Len(v) : g[i] = IF v[i] = Passes \/ (stop /\ g[i - 1] # <<>>) THEN g[i - 1]
                                          ELSE Append(g[i - 1], v[i])
<1> DEFINE n == Len(v)
           h(i) == IF i = 0 THEN <<>>
                   ELSE IF v[i] = Passes \/ (stop /\ g[i - 1] # <<>>) THEN g[i - 1]
                   ELSE Append(g[i - 1], v[i])
<1>1. g = [i \in 0..n |-> h(i)]
  BY DEF FoundBy
<1>2. n \in Nat
  OBVIOUS
<1>3. ASSUME NEW i \in 1..n
      PROVE  h(i) = IF v[i] = Passes \/ (stop /\ g[i - 1] # <<>>) THEN g[i - 1]
                    ELSE Append(g[i - 1], v[i])
  BY <1>2
<1>4. h(0) = <<>>
  OBVIOUS
<1> HIDE DEF h, n
<1>5. g[0] = h(0) /\ \A i \in 1..n : g[i] = h(i)
  BY <1>1, <1>2
<1> QED
  BY <1>3, <1>4, <1>5 DEF n

(* What check finds: every verdict that is not a pass, or the first alone.  *)
LEMMA ViolationsAre ==
    ASSUME NEW v \in Seq(ViolationKind \cup {Passes}),
           NEW all, all = Violations(v, FALSE), NEW first, first = Violations(v, TRUE)
    PROVE  /\ all \in Seq(ViolationKind) /\ first = IF all = <<>> THEN <<>> ELSE <<all[1]>>
           /\ ToSet(all) = ToSet(v) \ {Passes}
<1> DEFINE n == Len(v)
<1>1. PICK a : FoundBy(v, FALSE, a) /\ all = a[n]
  BY ViolationsIs
<1>2. PICK f : FoundBy(v, TRUE, f) /\ first = f[n]
  BY ViolationsIs
<1>3. n \in Nat /\ DOMAIN v = 1..n /\ \A i \in 1..n : v[i] \in ViolationKind \cup {Passes}
  OBVIOUS
<1>4. a[0] = <<>> /\ f[0] = <<>>
  BY <1>1, <1>2, FoundIs
<1>5. \A i \in 1..n : a[i] = IF v[i] = Passes THEN a[i - 1] ELSE Append(a[i - 1], v[i])
  BY <1>1, FoundIs
<1>6. \A i \in 1..n : f[i] = IF v[i] = Passes \/ f[i - 1] # <<>> THEN f[i - 1] ELSE Append(f[i - 1], v[i])
  BY <1>2, FoundIs
<1> DEFINE Finds(i) ==
               /\ a[i] \in Seq(ViolationKind) /\ f[i] = IF a[i] = <<>> THEN <<>> ELSE <<a[i][1]>>
               /\ ToSet(a[i]) = { v[j] : j \in 1..i } \ {Passes}
           T == { i \in 0..n : Finds(i) }
<1>7. 0 \in T
  <2>1. ToSet(<<>>) = {} /\ { v[j] : j \in 1..0 } = {} /\ <<>> \in Seq(ViolationKind)
    BY DEF ToSet
  <2>2. Finds(0)
    BY <1>4, <2>1
  <2> QED
    BY <1>3, <2>2
<1>8. ASSUME NEW i \in 1..n, i - 1 \in T PROVE i \in T
  <2> DEFINE x == a[i - 1]
             w == f[i - 1]
  <2>1. /\ x \in Seq(ViolationKind) /\ w = IF x = <<>> THEN <<>> ELSE <<x[1]>>
        /\ ToSet(x) = { v[j] : j \in 1..(i - 1) } \ {Passes}
    BY <1>8
  <2>2. { v[j] : j \in 1..i } = { v[j] : j \in 1..(i - 1) } \cup {v[i]}
    BY <1>3
  <2>3. CASE v[i] = Passes
    <3>1. a[i] = x /\ f[i] = w
      BY <1>5, <1>6, <2>3
    <3> HIDE DEF x, w
    <3>2. Finds(i)
      BY <2>1, <2>2, <2>3, <3>1
    <3> QED
      BY <3>2
  <2>4. CASE v[i] # Passes
    <3>1. v[i] \in ViolationKind
      BY <1>3, <2>4
    <3>2. a[i] = Append(x, v[i]) /\ f[i] = IF w # <<>> THEN w ELSE Append(w, v[i])
      BY <1>5, <1>6, <2>4
    <3> HIDE DEF x, w
    <3>3. /\ a[i] \in Seq(ViolationKind) /\ a[i] # <<>> /\ Len(x) \in Nat
          /\ Len(a[i]) = Len(x) + 1 /\ a[i][Len(a[i])] = v[i] /\ \A j \in 1..Len(x) : a[i][j] = x[j]
          /\ ToSet(a[i]) = ToSet(x) \cup {v[i]}
      <4>1. x \in Seq(ViolationKind)
        BY <2>1
      <4> QED
        BY <3>1, <3>2, <4>1, OneMore
    <3>4. f[i] = <<a[i][1]>>
      <4>1. CASE x = <<>>
        <5>1. f[i] = <<v[i]>> /\ Len(x) = 0
          BY <2>1, <3>2, <4>1
        <5> QED
          BY <3>3, <5>1
      <4>2. CASE x # <<>>
        <5>1. f[i] = <<x[1]>> /\ Len(x) > 0
          BY <2>1, <3>2, <4>2
        <5> QED
          BY <3>3, <5>1
      <4> QED
        BY <4>1, <4>2
    <3>5. Finds(i)
      BY <2>1, <2>2, <2>4, <3>3, <3>4
    <3> QED
      BY <3>5
  <2> QED
    BY <2>3, <2>4
<1>9. n \in T
  <2> HIDE DEF T, n
  <2>1. T \in SUBSET (0..n)
    BY DEF T
  <2>2. T = 0..n
    BY <1>3, <1>7, <1>8, <2>1, Induct
  <2> QED
    BY <1>3, <2>2
<1>10. Finds(n)
  BY <1>9
<1>11. ToSet(v) = { v[j] : j \in 1..n }
  BY <1>3 DEF ToSet
<1> QED
  BY <1>1, <1>2, <1>10, <1>11

LEMMA FirstIsPrefix ==
    ASSUME NEW S, NEW seq \in Seq(S)
    PROVE  IsPrefix(<<>>, seq) /\ (seq # <<>> => IsPrefix(<<seq[1]>>, seq))
<1>1. IsPrefix(<<>>, seq)
  BY DEF IsPrefix
<1>2. ASSUME seq # <<>> PROVE IsPrefix(<<seq[1]>>, seq)
  <2>1. Len(seq) >= 1
    BY <1>2
  <2>2. SubSeq(seq, 1, 1) = <<seq[1]>> /\ SubSeq(<<seq[1]>>, 1, 1) = <<seq[1]>>
    <3>1. seq[1] \in S /\ Len(seq) \in Nat
      BY <2>1
    <3> DEFINE one == <<seq[1]>>
               cut == SubSeq(seq, 1, 1)
               same == SubSeq(one, 1, 1)
    <3>2. one \in Seq(S) /\ Len(one) = 1 /\ one[1] = seq[1]
      BY <3>1
    <3>3. cut \in Seq(S) /\ Len(cut) = 1 /\ cut[1] = seq[1]
      BY <2>1, <3>1, SubSeqProperties
    <3>4. same \in Seq(S) /\ Len(same) = 1 /\ same[1] = seq[1]
      <4> HIDE DEF one
      <4> QED
        BY <3>2, SubSeqProperties
    <3> HIDE DEF one, cut, same
    <3>5. cut = one /\ same = one
      BY <3>2, <3>3, <3>4, SeqEqual
    <3> QED
      BY <3>5 DEF one, cut, same
  <2>3. Len(<<seq[1]>>) = 1
    OBVIOUS
  <2> QED
    BY <2>1, <2>2, <2>3 DEF IsPrefix
<1> QED
  BY <1>1, <1>2

(* One violation, one recommendation.                                       *)
LEMMA RecommendOne ==
    ASSUME NEW kind \in ViolationKind PROVE Recommend(<<kind>>) = <<kind>>
<1> DEFINE r == Recommend(<<kind>>)
<1>1. <<kind>> \in Seq(ViolationKind) /\ <<kind>> # <<>> /\ <<kind>>[1] = kind /\ ToSet(<<kind>>) = {kind}
  BY DEF ToSet
<1>2. /\ r \in Seq(ViolationKind) /\ r # <<>> /\ r[1] = kind /\ ToSet(r) = {kind}
      /\ \A j \in 1..(Len(r) - 1) : r[j] # r[j + 1]
  BY <1>1, RecommendSays
<1> HIDE DEF r
<1>3. \A j \in 1..Len(r) : r[j] = kind
  <2>1. DOMAIN r = 1..Len(r)
    BY <1>2
  <2>2. \A j \in DOMAIN r : r[j] \in ToSet(r)
    BY DEF ToSet
  <2> QED
    BY <1>2, <2>1, <2>2
<1>4. Len(r) = 1
  <2>1. Len(r) \in Nat /\ Len(r) > 0
    BY <1>2
  <2>2. ASSUME Len(r) > 1 PROVE FALSE
    <3>1. r[1] # r[1 + 1] /\ 1 \in 1..Len(r) /\ 1 + 1 \in 1..Len(r)
      BY <1>2, <2>1, <2>2
    <3> QED
      BY <1>3, <3>1
  <2>3. ~(Len(r) > 1)
    BY <2>2
  <2> QED
    BY <2>1, <2>3
<1>5. r = <<kind>>
  BY <1>2, <1>4
<1> QED
  BY <1>5 DEF r

LEMMA ChecksAgree ==
    ASSUME NEW v \in Seq(ViolationKind \cup {Passes}),
           NEW first, first = Check(v, TRUE), NEW all, all = Check(v, FALSE)
    PROVE  /\ Passed(first) <=> Passed(all)
           /\ IsPrefix(first.violations, all.violations)
           /\ IsPrefix(first.recommendation, all.recommendation)
           /\ Len(first.violations) <= 1
           /\ ToSet(all.recommendation) = ToSet(v) \ {Passes}
           /\ \A i \in 1..(Len(all.recommendation) - 1) :
                  all.recommendation[i] # all.recommendation[i + 1]
<1> DEFINE a == Violations(v, FALSE)
           f == Violations(v, TRUE)
           says == Recommend(a)
<1>1. /\ first.violations = f /\ first.recommendation = Recommend(f)
      /\ all.violations = a /\ all.recommendation = says
  BY DEF Check
<1>2. /\ a \in Seq(ViolationKind) /\ f = IF a = <<>> THEN <<>> ELSE <<a[1]>>
      /\ ToSet(a) = ToSet(v) \ {Passes}
  BY ViolationsAre
<1>3. /\ says \in Seq(ViolationKind) /\ (a = <<>> => says = <<>>)
      /\ a # <<>> => says # <<>> /\ says[1] = a[1]
      /\ ToSet(says) = ToSet(a)
      /\ \A j \in 1..(Len(says) - 1) : says[j] # says[j + 1]
  BY <1>2, RecommendSays
<1> HIDE DEF a, f, says
<1>4. (f = <<>> <=> a = <<>>) /\ IsPrefix(f, a) /\ Len(f) <= 1
  <2>1. Len(f) <= 1 /\ (f = <<>> <=> a = <<>>)
    BY <1>2
  <2> QED
    BY <1>2, <2>1, FirstIsPrefix
<1>5. IsPrefix(Recommend(f), says)
  <2>1. CASE a = <<>>
    <3>1. Recommend(f) = says /\ says = <<>> /\ <<>> \in Seq(ViolationKind)
      BY <1>2, <1>3, <2>1 DEF says
    <3> QED
      BY <3>1, FirstIsPrefix
  <2>2. CASE a # <<>>
    <3>1. f = <<a[1]>> /\ says # <<>> /\ says[1] = a[1] /\ a[1] \in ViolationKind
      BY <1>2, <1>3, <2>2
    <3>2. Recommend(f) = <<says[1]>>
      BY <3>1, RecommendOne
    <3> QED
      BY <1>3, <3>1, <3>2, FirstIsPrefix
  <2> QED
    BY <2>1, <2>2
<1>6. Passed(first) <=> Passed(all)
  BY <1>1, <1>4 DEF Passed
<1>7. ToSet(all.recommendation) = ToSet(v) \ {Passes}
  BY <1>1, <1>2, <1>3
<1>8. \A i \in 1..(Len(all.recommendation) - 1) : all.recommendation[i] # all.recommendation[i + 1]
  BY <1>1, <1>3
<1> QED
  BY <1>1, <1>4, <1>5, <1>6, <1>7, <1>8

VerdictsInv == checks \in Nat /\ VerdictsAgree

LEMMA VerdictsAlwaysAgree == GateSpec => []VerdictsAgree
<1>1. GateInit => VerdictsInv
  BY DEF GateInit, Nothing, VerdictsInv, VerdictsAgree
<1>2. VerdictsInv /\ [GateNext]_gateVars => VerdictsInv'
  <2> SUFFICES ASSUME VerdictsInv, [GateNext]_gateVars PROVE VerdictsInv'
    OBVIOUS
  <2> USE DEF VerdictsInv
  <2>1. CASE AddCheck
    BY <2>1 DEF AddCheck, Nothing, VerdictsAgree
  <2>2. CASE CheckEvidence
    <3>1. PICK v \in [1..checks -> ViolationKind \cup {Passes}] :
              last' = [gate |-> "jidoka", verdicts |-> v,
                       first |-> Check(v, TRUE), all |-> Check(v, FALSE)]
      BY <2>2 DEF CheckEvidence
    <3>2. v \in Seq(ViolationKind \cup {Passes}) /\ checks' \in Nat
      BY <2>2, <3>1 DEF CheckEvidence
    <3>3. last'.verdicts = v /\ last'.first = Check(v, TRUE) /\ last'.all = Check(v, FALSE)
      BY <3>1
    <3> QED
      BY <3>2, <3>3, ChecksAgree DEF VerdictsAgree
  <2>3. CASE AnalyzeQuality
    BY <2>3 DEF AnalyzeQuality, VerdictsAgree
  <2>4. CASE LoadConfig
    BY <2>4 DEF LoadConfig, VerdictsAgree
  <2>5. CASE UNCHANGED gateVars
    BY <2>5 DEF gateVars, VerdictsAgree
  <2> QED
    BY <2>1, <2>2, <2>3, <2>4, <2>5 DEF GateNext
<1>3. VerdictsInv => VerdictsAgree
  BY DEF VerdictsInv
<1> QED
  BY <1>1, <1>2, <1>3, PTL DEF GateSpec

(* JidokaGate::check (jidoka.rs l.29-88) and the platforms: of any number   *)
(* of checks, whatever they say, a gate that stops on the first violation   *)
(* and one that goes on agree, and the recommendation is of the violations; *)
(* a config that was loaded means the same to all platforms.                *)
THEOREM GatesAlwaysAgree == GateSpec => []GatesAgree
<1>1. VerdictsAgree /\ PlatformsAgree => GatesAgree
  BY DEF GatesAgree
<1> QED
  BY <1>1, VerdictsAlwaysAgree, PlatformsAreToldTheSame, PTL

-----------------------------------------------------------------------------
(***************************************************************************)
(* Restarts.  RestartsFollowPolicy says nothing of a supervisor that has   *)
(* decided and sleeps: RestartInv adds that the policy allows the restart  *)
(* it will make and that the delay it sleeps is the one of the count,      *)
(* which no one changes meanwhile.  The backends know nothing of powers    *)
(* but their numerals: PowersMultiply states the equations that define     *)
(* those of every number.                                                  *)
(***************************************************************************)

PowersMultiply ==
    \A b \in Nat : b ^ 1 = b /\ \A n \in Nat \ {0} :
        b ^ n \in Nat /\ (b # 0 => b ^ n # 0) /\ b ^ (n + 1) = b * b ^ n

(* A supervisor of its own, and counts that are no negative i32.            *)
OneSupervisor(s) ==
    Supervisors = {s} /\ ~Reregisters /\ MaxRestarts <= 2 ^ (CountBits - 1)

(* The counts the delay is asked of keep their sign as an i32.              *)
LEMMA CountKeepsItsSign ==
    ASSUME NEW s, OneSupervisor(s), NEW n \in Nat, n < MaxRestarts
    PROVE  AsI32(n) = n
<1>1. CountBits - 1 \in Nat /\ IsFiniteSet(1..(CountBits - 1))
  BY RestartAssumption, FS_Interval
<1>2. Cardinality(1..(CountBits - 1)) = CountBits - 1
  BY <1>1, FS_Interval
<1>3. 2 ^ (CountBits - 1) \in Nat
  BY <1>1, <1>2, FS_SUBSET, FS_CardinalityType
<1>4. CountBits \in Nat /\ IsFiniteSet(1..CountBits) /\ Cardinality(1..CountBits) = CountBits
  BY RestartAssumption, FS_Interval
<1>5. 2 ^ CountBits \in Nat
  BY <1>4, FS_SUBSET, FS_CardinalityType
<1>6. MaxRestarts \in Nat
  BY <1>5, RestartAssumption
<1> QED
  BY <1>3, <1>6 DEF OneSupervisor, AsI32

LEMMA MaxRestartsType == MaxRestarts \in Nat
<1>1. CountBits \in Nat /\ IsFiniteSet(1..CountBits) /\ Cardinality(1..CountBits) = CountBits
  BY RestartAssumption, FS_Interval
<1>2. 2 ^ CountBits \in Nat
  BY <1>1, FS_SUBSET, FS_CardinalityType
<1> QED
  BY <1>2, RestartAssumption

LEMMA PowerIs ==
    ASSUME PowersMultiply, NEW b \in Nat, NEW n \in Nat
    PROVE  /\ Power(b, n) \in Nat /\ (b # 0 => Power(b, n) # 0)
           /\ Power(b, n + 1) = b * Power(b, n)
<1>1. CASE n = 0
  BY <1>1 DEF Power, PowersMultiply
<1>2. CASE n # 0
  <2>1. Power(b, n) = b ^ n /\ Power(b, n + 1) = b ^ (n + 1)
    BY <1>2 DEF Power
  <2>2. b ^ n \in Nat /\ (b # 0 => b ^ n # 0) /\ b ^ (n + 1) = b * b ^ n
    BY <1>2 DEF PowersMultiply
  <2> QED
    BY <2>1, <2>2
<1> QED
  BY <1>1, <1>2

(* Rounding down keeps the order of fractions.                              *)
LEMMA QuotientsCompare ==
    ASSUME NEW a \in Nat, NEW b \in Nat \ {0}, NEW c \in Nat, NEW d \in Nat \ {0}, a * d <= c * b
    PROVE  a \div b \in Nat /\ c \div d \in Nat /\ a \div b <= c \div d
  OBVIOUS

(* One more power of a fraction that is not below 1 shrinks nothing.        *)
LEMMA ScaledGrows ==
    ASSUME PowersMultiply, NEW num \in Nat, NEW den \in Nat \ {0}, NEW n \in Nat
    PROVE  /\ Scaled(num, den, n) \in Nat
           /\ num >= den => Scaled(num, den, n) <= Scaled(num, den, n + 1)
<1> DEFINE x == Power(num, n)
           y == Power(den, n)
<1>1. /\ x \in Nat /\ y \in Nat \ {0} /\ InitialDelay \in Nat
      /\ Power(num, n + 1) = num * x /\ Power(den, n + 1) = den * y
  BY PowerIs, RestartAssumption
<1> HIDE DEF x, y
<1>2. InitialDelay * x \in Nat /\ den * y \in Nat \ {0} /\ InitialDelay * (num * x) \in Nat
  BY <1>1
<1>3. Scaled(num, den, n) = (InitialDelay * x) \div y
  BY DEF Scaled, x, y
<1>4. Scaled(num, den, n + 1) = (InitialDelay * (num * x)) \div (den * y)
  BY <1>1 DEF Scaled
<1>5. ASSUME num >= den PROVE (InitialDelay * x) * (den * y) <= (InitialDelay * (num * x)) * y
  <2>1. (InitialDelay * x) * y \in Nat
    BY <1>1
  <2>2. \A k \in Nat : k * den <= k * num
    BY <1>5
  <2>3. ((InitialDelay * x) * y) * den <= ((InitialDelay * x) * y) * num
    BY <2>1, <2>2
  <2>4. /\ ((InitialDelay * x) * y) * den = (InitialDelay * x) * (den * y)
        /\ ((InitialDelay * x) * y) * num = (InitialDelay * (num * x)) * y
    BY <1>1
  <2> QED
    BY <2>3, <2>4
<1>6. (InitialDelay * x) \div y \in Nat
  <2>1. \A a \in Nat, b \in Nat \ {0} : a \div b \in Nat
    OBVIOUS
  <2> QED
    BY <1>1, <1>2, <2>1
<1>7. num >= den => (InitialDelay * x) \div y <= (InitialDelay * (num * x)) \div (den * y)
  BY <1>1, <1>2, <1>5, QuotientsCompare
<1> QED
  BY <1>3, <1>4, <1>6, <1>7

(* Delays are never negative and never beyond the maximum; they do not      *)
(* shrink from one count to the next but for a multiplier below 1.          *)
LEMMA DelaysGrow ==
    ASSUME NEW s, OneSupervisor(s), PowersMultiply, NEW policy \in Policy,
           NEW n \in Nat, n < MaxRestarts
    PROVE  /\ RestartDelay(policy, n) \in Nat
           /\ policy.kind = "WithBackoff" => RestartDelay(policy, n) <= MaxDelay
           /\ n > 0 /\ (policy.kind = "WithBackoff" => policy.multiplier.num >= policy.multiplier.den) =>
                  RestartDelay(policy, n - 1) <= RestartDelay(policy, n)
<1>1. AsI32(n) = n /\ (n > 0 => AsI32(n - 1) = n - 1)
  BY CountKeepsItsSign, MaxRestartsType
<1>2. CASE policy.kind # "WithBackoff"
  BY <1>2 DEF RestartDelay
<1>3. CASE policy.kind = "WithBackoff"
  <2> DEFINE m == policy.multiplier
             D(k) == Scaled(m.num, m.den, k)
  <2>1. m.num \in Nat /\ m.den \in Nat \ {0}
    <3>1. policy \in [kind: {"WithBackoff"}, max_retries: MaxRetries, multiplier: Multipliers]
      BY <1>3 DEF Policy
    <3>2. m \in Multipliers
      BY <3>1
    <3> QED
      BY <3>2, RestartAssumption
  <2>2. \A k \in Nat : D(k) \in Nat /\ (m.num >= m.den => D(k) <= D(k + 1))
    BY <2>1, ScaledGrows
  <2>3. RestartDelay(policy, n) = IF D(n) < MaxDelay THEN D(n) ELSE MaxDelay
    BY <1>1, <1>3 DEF RestartDelay, DelayFor
  <2>4. n > 0 => RestartDelay(policy, n - 1) = IF D(n - 1) < MaxDelay THEN D(n - 1) ELSE MaxDelay
    BY <1>1, <1>3 DEF RestartDelay, DelayFor
  <2>5. MaxDelay \in Nat
    BY RestartAssumption
  <2>6. n > 0 => D(n - 1) \in Nat /\ (m.num >= m.den => D(n - 1) <= D(n))
    BY <2>2
  <2>7. D(n) \in Nat
    BY <2>2
  <2> HIDE DEF D
  <2> QED
    BY <1>3, <2>3, <2>4, <2>5, <2>6, <2>7
<1> QED
  BY <1>2, <1>3

RestartInv(s) ==
    /\ restart_policy \in Policy /\ exit_reason \in ExitReason /\ running \in BOOLEAN
    /\ restarts \in Seq([reason: ExitReason, delay: Nat])
    /\ waiting \in [Supervisors -> Nat \cup {Awake}]
    /\ restart_count = Len(restarts) /\ Len(restarts) <= MaxRestarts
    /\ waiting[s] # Awake =>
           /\ ~running /\ restart_count < MaxRestarts
           /\ ShouldRestart(restart_policy, exit_reason, restart_count)
           /\ waiting[s] = RestartDelay(restart_policy, restart_count)
    /\ restarts # <<>> =>
           restarts[Len(restarts)].delay = RestartDelay(restart_policy, Len(restarts) - 1)
    /\ RestartsFollowPolicy

LEMMA RetriesAreNumbers ==
    ASSUME NEW policy \in Policy, policy.kind \in {"MaxRetries", "WithBackoff"}
    PROVE  policy.max_retries \in Nat
<1>1. \/ policy \in [kind: {"MaxRetries"}, max_retries: MaxRetries]
      \/ policy \in [kind: {"WithBackoff"}, max_retries: MaxRetries, multiplier: Multipliers]
  BY DEF Policy
<1>2. policy.max_retries \in MaxRetries
  BY <1>1
<1> QED
  BY <1>2, RestartAssumption

LEMMA NewEntryFollows ==
    ASSUME restart_policy \in Policy, restarts = <<>>
    PROVE  RestartsFollowPolicy
<1>1. DOMAIN restarts = {} /\ Len(restarts) = 0
  OBVIOUS
<1>2. restart_policy.kind \in {"MaxRetries", "WithBackoff"} => 0 <= restart_policy.max_retries
  BY RetriesAreNumbers
<1> QED
  BY <1>1, <1>2 DEF RestartsFollowPolicy

LEMMA RestartKeeps ==
    ASSUME NEW s, OneSupervisor(s), PowersMultiply, RestartInv(s), Restart(s)
    PROVE  RestartInv(s)'
<1> DEFINE n == Len(restarts)
           new == [reason |-> exit_reason, delay |-> waiting[s]]
<1>1. /\ restarts' = Append(restarts, new) /\ restart_count' = n + 1
      /\ n \in Nat /\ n < MaxRestarts /\ n + 1 <= MaxRestarts
      /\ ShouldRestart(restart_policy, exit_reason, n) /\ waiting[s] = RestartDelay(restart_policy, n)
      /\ restart_policy \in Policy /\ UNCHANGED <<restart_policy, exit_reason>>
  BY MaxRestartsType DEF RestartInv, Restart
<1>2. /\ RestartDelay(restart_policy, n) \in Nat
      /\ restart_policy.kind = "WithBackoff" => RestartDelay(restart_policy, n) <= MaxDelay
      /\ n > 0 /\ Grows => RestartDelay(restart_policy, n - 1) <= RestartDelay(restart_policy, n)
  BY <1>1, DelaysGrow DEF Grows, Backs
<1>3. /\ new \in [reason: ExitReason, delay: Nat]
      /\ restarts \in Seq([reason: ExitReason, delay: Nat])
  BY <1>1, <1>2 DEF RestartInv
<1>4. /\ restarts' \in Seq([reason: ExitReason, delay: Nat]) /\ Len(restarts') = n + 1
      /\ DOMAIN restarts' = 1..(n + 1) /\ DOMAIN restarts = 1..n
      /\ restarts'[n + 1] = new /\ \A i \in 1..n : restarts'[i] = restarts[i]
  BY <1>1, <1>3
<1>5. \A i \in 1..n : restarts[i] \in [reason: ExitReason, delay: Nat] /\ restarts[i].delay \in Nat
  <2> SUFFICES ASSUME NEW i \in 1..n PROVE restarts[i] \in [reason: ExitReason, delay: Nat]
    OBVIOUS
  <2> QED
    BY <1>3, <1>4, ElementOfSeq
<1>6. Grows => \A i \in 1..n : restarts[i].delay <= new.delay
  <2> SUFFICES ASSUME Grows, NEW i \in 1..n PROVE restarts[i].delay <= new.delay
    OBVIOUS
  <2>1. restarts[i].delay <= restarts[n].delay /\ n \in 1..n
    <3>1. CASE i = n
      BY <1>1, <1>5, <3>1
    <3>2. CASE i # n
      <4>1. n \in 1..n /\ i < n
        BY <1>1, <3>2
      <4> QED
        BY <1>4, <4>1 DEF RestartInv, RestartsFollowPolicy
    <3> QED
      BY <3>1, <3>2
  <2>2. restarts[n].delay = RestartDelay(restart_policy, n - 1)
    BY <1>1, <2>1 DEF RestartInv
  <2> QED
    BY <1>1, <1>2, <1>5, <2>1, <2>2
<1>7. RestartsFollowPolicy'
  <2>1. restart_policy.kind # "Never"
    BY <1>1 DEF ShouldRestart
  <2>2. restart_policy.kind \in {"OnFailure", "WithBackoff"} =>
            new.reason \in Failure /\ \A i \in 1..n : restarts[i].reason \in Failure
    BY <1>1, <1>4 DEF ShouldRestart, RestartInv, RestartsFollowPolicy
  <2>3. restart_policy.kind \in {"MaxRetries", "WithBackoff"} => n + 1 <= restart_policy.max_retries
    BY <1>1, RetriesAreNumbers DEF ShouldRestart
  <2>4. restart_policy.kind = "WithBackoff" =>
            new.delay <= MaxDelay /\ \A i \in 1..n : restarts[i].delay <= MaxDelay
    BY <1>1, <1>2, <1>4 DEF RestartInv, RestartsFollowPolicy, Backs
  <2>5. Grows => \A i, j \in 1..n : i < j => restarts[i].delay <= restarts[j].delay
    BY <1>4 DEF RestartInv, RestartsFollowPolicy
  <2>6. Grows => \A i, j \in 1..(n + 1) : i < j => restarts'[i].delay <= restarts'[j].delay
    <3> SUFFICES ASSUME Grows, NEW i \in 1..(n + 1), NEW j \in 1..(n + 1), i < j
                 PROVE  restarts'[i].delay <= restarts'[j].delay
      OBVIOUS
    <3>1. i \in 1..n /\ (j \in 1..n \/ j = n + 1)
      BY <1>1
    <3> HIDE DEF n, new
    <3> QED
      BY <1>4, <1>6, <2>5, <3>1
  <2>7. \A i \in 1..(n + 1) : i = n + 1 \/ i \in 1..n
    BY <1>1
  <2>8. Grows' = Grows /\ Backs' = Backs /\ (Backs <=> restart_policy.kind = "WithBackoff")
    BY <1>1 DEF Grows, Backs
  <2> HIDE DEF new
  <2> QED
    BY <1>1, <1>4, <2>1, <2>2, <2>3, <2>4, <2>6, <2>7, <2>8 DEF RestartsFollowPolicy
<1>8. waiting'[s] = Awake /\ waiting' \in [Supervisors -> Nat \cup {Awake}]
  BY DEF RestartInv, Restart, OneSupervisor, Awake
<1>9. running' = TRUE
  BY DEF Restart
<1> QED
  BY <1>1, <1>3, <1>4, <1>7, <1>8, <1>9 DEF RestartInv

(* should_restart and delay_for (manager.rs): a daemon whose restarts one   *)
(* supervisor decides is restarted for the reasons its policy names, as     *)
(* often as it allows and after delays that never exceed the maximum, of    *)
(* every multiplier, and never shrink unless it is below 1.                 *)
THEOREM RestartsAlwaysFollowPolicy ==
    ASSUME NEW s, OneSupervisor(s), PowersMultiply
    PROVE  RestartSpec => []RestartsFollowPolicy
<1>1. RestartInit => RestartInv(s)
  <2> SUFFICES ASSUME RestartInit PROVE RestartInv(s)
    OBVIOUS
  <2>1. RestartsFollowPolicy
    BY NewEntryFollows DEF RestartInit, NewEntry
  <2> QED
    BY <2>1, MaxRestartsType DEF RestartInit, NewEntry, RestartInv, OneSupervisor, ExitReason
<1>2. RestartInv(s) /\ [RestartNext]_restartVars => RestartInv(s)'
  <2> SUFFICES ASSUME RestartInv(s), [RestartNext]_restartVars PROVE RestartInv(s)'
    OBVIOUS
  <2>1. ASSUME NEW reason \in ExitReason, Ends(reason) PROVE RestartInv(s)'
    BY <2>1 DEF Ends, RestartInv, RestartsFollowPolicy, Backs, Grows
  <2>2. CASE Reregister
    <3>1. restart_policy' \in Policy /\ restarts' = <<>>
      BY <2>2 DEF Reregister, NewEntry
    <3>2. RestartsFollowPolicy'
      <4>1. DOMAIN restarts' = {} /\ Len(restarts') = 0
        BY <3>1
      <4>2. restart_policy'.kind \in {"MaxRetries", "WithBackoff"} => 0 <= restart_policy'.max_retries
        BY <3>1, RetriesAreNumbers
      <4> QED
        BY <3>1, <4>1, <4>2 DEF RestartsFollowPolicy
    <3> QED
      BY <2>2, <3>1, <3>2, MaxRestartsType DEF Reregister, NewEntry, RestartInv, OneSupervisor
  <2>3. CASE Decide(s)
    <3>1. RestartDelay(restart_policy, restart_count) \in Nat
      BY <2>3, DelaysGrow DEF Decide, RestartInv
    <3>2. /\ waiting' \in [Supervisors -> Nat \cup {Awake}]
          /\ waiting'[s] = RestartDelay(restart_policy, restart_count)
      BY <2>3, <3>1 DEF Decide, RestartInv, OneSupervisor
    <3> QED
      BY <2>3, <3>2 DEF Decide, RestartInv, RestartsFollowPolicy, Backs, Grows
  <2>4. CASE Restart(s)
    BY <2>4, RestartKeeps
  <2>5. CASE UNCHANGED restartVars
    BY <2>5 DEF restartVars, RestartInv, RestartsFollowPolicy, Backs, Grows
  <2> QED
    BY <2>1, <2>2, <2>3, <2>4, <2>5 DEF RestartNext, OneSupervisor
<1>3. RestartInv(s) => RestartsFollowPolicy
  BY DEF RestartInv
<1> QED
  BY <1>1, <1>2, <1>3, PTL DEF RestartSpec

=============================================================================
