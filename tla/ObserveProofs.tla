---------------------------- MODULE ObserveProofs ---------------------------
(***************************************************************************)
(* What duende keeps about a daemon it watches, for every value of the     *)
(* constants: the health thresholds, 0 included, for every set of daemons; *)
(* the samples of a monitor; the calls of a tracer; the metrics of every   *)
(* set of threads.                                                         *)
(***************************************************************************)
EXTENDS HealthMonitor, DaemonMonitor, DaemonTracer, Metrics, Sums, SequenceTheorems

-----------------------------------------------------------------------------
(* The health monitor.                                                      *)

(* What every method but register and unregister does to the counters.      *)
Counted(d) ==
    /\ d \in monitored /\ UNCHANGED monitored
    /\ \/ RecordSuccess(d)
       \/ RecordFailure(d)
    /\ is_healthy' \in [Daemons -> BOOLEAN]
    /\ \A e \in Daemons \ {d} : is_healthy'[e] = is_healthy[e]
    /\ results' \in [Daemons -> Seq({"ok", "fail"})]
    /\ events' \in Seq(Event) /\ Len(events') <= 2

LEMMA RecordedIn ==
    ASSUME TypeOK, NEW d \in Daemons, NEW o \in {"ok", "fail"}, Recorded(d, o)
    PROVE  results' \in [Daemons -> Seq({"ok", "fail"})]
<1>1. Append(results[d], o) \in Seq({"ok", "fail"})
  BY DEF TypeOK
<1> QED
  BY <1>1 DEF Recorded, TypeOK

LEMMA TwoFit ==
    ASSUME NEW S, NEW a \in Seq(S), NEW b \in Seq(S), Len(a) <= 1, Len(b) <= 1
    PROVE  a \o b \in Seq(S) /\ Len(a \o b) <= 2 /\ <<>> \in Seq(S) /\ Len(<<>>) <= 2
OBVIOUS

LEMMA CheckCounts ==
    ASSUME TypeOK, NEW d \in Daemons,
           CheckHealthy(d) \/ CheckUnhealthy(d) \/ RecordTimeout(d)
    PROVE  Counted(d)
<1>1. CASE CheckHealthy(d)
  <2>1. results' \in [Daemons -> Seq({"ok", "fail"})]
    BY <1>1, RecordedIn DEF CheckHealthy
  <2>2. is_healthy' \in [Daemons -> BOOLEAN] /\ \A e \in Daemons \ {d} : is_healthy'[e] = is_healthy[e]
    BY <1>1, Zenon DEF CheckHealthy, TypeOK, Recovers
  <2>3. FailuresBefore(d) \in Int
    BY <1>1 DEF CheckHealthy, FailuresBefore, TypeOK, RecordSuccess
  <2>4. /\ [kind |-> "Recovered", id |-> d, failures |-> FailuresBefore(d)] \in Event
        /\ [kind |-> "Healthy", id |-> d] \in Event
    BY <2>3 DEF Event
  <2>5. events' \in Seq(Event) /\ Len(events') <= 2
    <3> DEFINE recovered == IF Recovers(d)
                            THEN <<[kind |-> "Recovered", id |-> d, failures |-> FailuresBefore(d)]>>
                            ELSE <<>>
               healthy   == IF is_healthy'[d] THEN <<[kind |-> "Healthy", id |-> d]>> ELSE <<>>
    <3>1. recovered \in Seq(Event) /\ Len(recovered) <= 1 /\ healthy \in Seq(Event) /\ Len(healthy) <= 1
      BY <2>4
    <3>2. events' = <<>> \/ events' = recovered \o healthy
      BY <1>1, Zenon DEF CheckHealthy
    <3> HIDE DEF recovered, healthy
    <3>3. /\ recovered \o healthy \in Seq(Event) /\ Len(recovered \o healthy) <= 2
          /\ <<>> \in Seq(Event) /\ Len(<<>>) <= 2
      BY <3>1, TwoFit, Zenon
    <3> QED
      BY <3>2, <3>3, Zenon
  <2> QED
    BY <1>1, <2>1, <2>2, <2>5 DEF CheckHealthy, Counted, Recorded
<1>2. CASE CheckUnhealthy(d) \/ RecordTimeout(d)
  <2>1. results' \in [Daemons -> Seq({"ok", "fail"})]
    BY <1>2, RecordedIn DEF CheckUnhealthy, RecordTimeout
  <2>2. is_healthy' \in [Daemons -> BOOLEAN] /\ \A e \in Daemons \ {d} : is_healthy'[e] = is_healthy[e]
    BY <1>2, Zenon DEF CheckUnhealthy, RecordTimeout, TypeOK
  <2>3. consecutive_failures'[d] \in Nat
    BY <1>2 DEF CheckUnhealthy, RecordTimeout, RecordFailure, TypeOK
  <2>4. /\ [kind |-> "Unhealthy", id |-> d, failures |-> consecutive_failures'[d]] \in Event
        /\ [kind |-> "Timeout", id |-> d] \in Event
    BY <2>3 DEF Event
  <2>5. events' \in Seq(Event) /\ Len(events') <= 2
    <3>1. ASSUME NEW e \in Event, events' = <<e>> PROVE events' \in Seq(Event) /\ Len(events') <= 2
      BY <3>1
    <3>2. \/ events' = <<[kind |-> "Unhealthy", id |-> d, failures |-> consecutive_failures'[d]]>>
          \/ events' = <<[kind |-> "Timeout", id |-> d]>>
      BY <1>2, Zenon DEF CheckUnhealthy, RecordTimeout
    <3> QED
      BY <3>1, <3>2, <2>4
  <2> QED
    BY <1>2, <2>1, <2>2, <2>5 DEF CheckUnhealthy, RecordTimeout, Counted, Recorded
<1> QED
  BY <1>1, <1>2

LEMMA TypeStep == TypeOK /\ [Next]_vars => TypeOK'
<1> SUFFICES ASSUME TypeOK, [Next]_vars PROVE TypeOK'
  OBVIOUS
<1>1. ASSUME NEW d \in Daemons, Register(d) \/ Unregister(d) PROVE TypeOK'
  <2>1. Fresh(d) /\ monitored' \subseteq Daemons
    BY <1>1 DEF Register, Unregister, TypeOK
  <2>2. events' \in Seq(Event) /\ Len(events') <= 2
    BY <2>1 DEF Fresh
  <2>3. results' \in [Daemons -> Seq({"ok", "fail"})]
    BY <2>1, <<>> \in Seq({"ok", "fail"}) DEF Fresh, TypeOK
  <2>4. is_healthy' \in [Daemons -> BOOLEAN]
    BY <2>1 DEF Fresh, TypeOK
  <2>5. /\ consecutive_failures' \in [Daemons -> Nat] /\ consecutive_successes' \in [Daemons -> Nat]
        /\ total_checks' \in [Daemons -> Nat] /\ total_failures' \in [Daemons -> Nat]
    BY <2>1 DEF Fresh, TypeOK
  <2> QED
    BY <2>1, <2>2, <2>3, <2>4, <2>5 DEF TypeOK
<1>2. ASSUME NEW d \in Daemons, Counted(d) PROVE TypeOK'
  <2>1. /\ consecutive_failures' \in [Daemons -> Nat] /\ consecutive_successes' \in [Daemons -> Nat]
        /\ total_checks' \in [Daemons -> Nat] /\ total_failures' \in [Daemons -> Nat]
    <3>1. CASE RecordSuccess(d)
      BY <3>1 DEF RecordSuccess, TypeOK
    <3>2. CASE RecordFailure(d)
      BY <3>2 DEF RecordFailure, TypeOK
    <3> QED
      BY <1>2, <3>1, <3>2 DEF Counted
  <2> QED
    BY <1>2, <2>1 DEF Counted, TypeOK
<1>3. CASE UNCHANGED vars
  BY <1>3 DEF vars, states, TypeOK
<1> QED
  BY <1>1, <1>2, <1>3, CheckCounts DEF Next

(* Type correctness of the monitor (health.rs l.127-147).                   *)
THEOREM HealthTypeCorrect == Spec => []TypeOK
<1>1. Init => TypeOK
  BY DEF Init, TypeOK
<1> QED
  BY <1>1, TypeStep, PTL DEF Spec

-----------------------------------------------------------------------------
(* The thresholds decide.                                                   *)

\* A recovery is as short as a failure is long, or overflow goes unchecked.
NeverPanics == OverflowChecks => AtLeastOne(RecoveryThreshold) <= AtLeastOne(FailureThreshold)

\* ThresholdsDecide of one daemon,
Decided(d) ==
    /\ is_healthy[d] => consecutive_failures[d] < AtLeastOne(FailureThreshold)
    /\ ~is_healthy[d] => consecutive_successes[d] < AtLeastOne(RecoveryThreshold)

\* and the failures that the subtraction of a recovery (l.313) starts from.
Owed(d) ==
    /\ consecutive_failures[d] <= total_failures[d]
    /\ ~is_healthy[d] => AtLeastOne(FailureThreshold) <= total_failures[d]

LEMMA ThresholdTypes ==
    /\ AtLeastOne(FailureThreshold) \in Nat \ {0} /\ AtLeastOne(RecoveryThreshold) \in Nat \ {0}
    /\ \A n \in Nat \ {0} : /\ n >= FailureThreshold <=> n >= AtLeastOne(FailureThreshold)
                            /\ n >= RecoveryThreshold <=> n >= AtLeastOne(RecoveryThreshold)
BY HealthAssumption DEF AtLeastOne

(* A daemon recovers after exactly as many successes as it takes, so that   *)
(* the subtraction falls short of zero by the difference of the thresholds. *)
LEMMA RecoveryCounts ==
    ASSUME TypeOK, NEW d \in Daemons, Decided(d), Owed(d), CheckHealthy(d), Recovers(d)
    PROVE  FailuresBefore(d) >= AtLeastOne(FailureThreshold) - AtLeastOne(RecoveryThreshold)
<1>1. /\ consecutive_successes'[d] = consecutive_successes[d] + 1
      /\ total_failures'[d] = total_failures[d]
      /\ consecutive_successes[d] \in Nat /\ total_failures[d] \in Nat
  BY DEF CheckHealthy, RecordSuccess, TypeOK
<1>2. ~is_healthy[d]
  BY DEF Recovers
<1> QED
  BY <1>1, <1>2, ThresholdTypes DEF Decided, Owed, FailuresBefore

\* What CheckHealthy does to the health of d, where it does not panic.
LEMMA OkDecides ==
    ASSUME NeverPanics, TypeOK, NEW d \in Daemons, Decided(d), Owed(d), CheckHealthy(d)
    PROVE  /\ is_healthy'[d] <=> is_healthy[d] \/ consecutive_successes'[d] >= AtLeastOne(RecoveryThreshold)
           /\ consecutive_failures'[d] = 0
           /\ consecutive_successes'[d] = consecutive_successes[d] + 1
           /\ total_checks'[d] = total_checks[d] + 1
           /\ total_failures'[d] = total_failures[d]
<1>1. /\ consecutive_failures'[d] = 0
      /\ consecutive_successes'[d] = consecutive_successes[d] + 1
      /\ total_checks'[d] = total_checks[d] + 1
      /\ total_failures'[d] = total_failures[d]
      /\ consecutive_successes[d] \in Nat
  BY DEF CheckHealthy, RecordSuccess, TypeOK
<1>2. ~(Recovers(d) /\ FailuresBefore(d) < 0 /\ OverflowChecks)
  <2>1. CASE Recovers(d) /\ OverflowChecks
    <3>1. FailuresBefore(d) >= AtLeastOne(FailureThreshold) - AtLeastOne(RecoveryThreshold)
      BY <2>1, RecoveryCounts
    <3>2. AtLeastOne(RecoveryThreshold) <= AtLeastOne(FailureThreshold)
      BY <2>1 DEF NeverPanics
    <3>3. FailuresBefore(d) \in Int
      BY <1>1 DEF FailuresBefore, TypeOK
    <3> QED
      BY <3>1, <3>2, <3>3, ThresholdTypes
  <2> QED
    BY <2>1
<1>3. is_healthy' = [is_healthy EXCEPT ![d] = @ \/ Recovers(d)]
  BY <1>2, Zenon DEF CheckHealthy
<1>4. is_healthy'[d] <=> is_healthy[d] \/ Recovers(d)
  BY <1>3, Zenon DEF TypeOK
<1>5. Recovers(d) <=> ~is_healthy[d] /\ consecutive_successes'[d] >= AtLeastOne(RecoveryThreshold)
  BY <1>1, ThresholdTypes DEF Recovers
<1> QED
  BY <1>1, <1>4, <1>5

LEMMA FailDecides ==
    ASSUME TypeOK, NEW d \in Daemons, CheckUnhealthy(d) \/ RecordTimeout(d)
    PROVE  /\ is_healthy'[d] <=> is_healthy[d] /\ consecutive_failures'[d] < AtLeastOne(FailureThreshold)
           /\ consecutive_failures'[d] = consecutive_failures[d] + 1
           /\ consecutive_successes'[d] = 0
           /\ total_checks'[d] = total_checks[d] + 1
           /\ total_failures'[d] = total_failures[d] + 1
<1>1. /\ consecutive_successes'[d] = 0
      /\ consecutive_failures'[d] = consecutive_failures[d] + 1
      /\ total_checks'[d] = total_checks[d] + 1
      /\ total_failures'[d] = total_failures[d] + 1
      /\ consecutive_failures[d] \in Nat
  BY DEF CheckUnhealthy, RecordTimeout, RecordFailure, TypeOK
<1>2. is_healthy'[d] <=> is_healthy[d] /\ ~Fails(d)
  BY Zenon DEF CheckUnhealthy, RecordTimeout, TypeOK
<1>3. Fails(d) <=> ~(consecutive_failures'[d] < AtLeastOne(FailureThreshold))
  BY <1>1, ThresholdTypes DEF Fails
<1> QED
  BY <1>1, <1>2, <1>3

(* The others are left alone: their health depends on their own outcomes.   *)
LEMMA OthersKept ==
    ASSUME TypeOK, NEW d \in Daemons, Counted(d), NEW e \in Daemons \ {d}
    PROVE  /\ is_healthy'[e] = is_healthy[e]
           /\ consecutive_failures'[e] = consecutive_failures[e]
           /\ consecutive_successes'[e] = consecutive_successes[e]
           /\ total_checks'[e] = total_checks[e]
           /\ total_failures'[e] = total_failures[e]
BY DEF Counted, RecordSuccess, RecordFailure, TypeOK

LEMMA FreshStarts ==
    ASSUME TypeOK, NEW d \in Daemons, Fresh(d)
    PROVE  /\ is_healthy'[d] /\ results'[d] = <<>> /\ events' = <<>>
           /\ consecutive_failures'[d] = 0 /\ consecutive_successes'[d] = 0
           /\ total_checks'[d] = 0 /\ total_failures'[d] = 0
           /\ \A e \in Daemons \ {d} :
                 /\ is_healthy'[e] = is_healthy[e]
                 /\ consecutive_failures'[e] = consecutive_failures[e]
                 /\ consecutive_successes'[e] = consecutive_successes[e]
                 /\ total_checks'[e] = total_checks[e]
                 /\ total_failures'[e] = total_failures[e]
                 /\ results'[e] = results[e]
BY DEF Fresh, TypeOK

DecidedInv == TypeOK /\ \A d \in Daemons : Decided(d) /\ Owed(d)

LEMMA DecidedStep == ASSUME NeverPanics PROVE DecidedInv /\ [Next]_vars => DecidedInv'
<1> SUFFICES ASSUME DecidedInv, [Next]_vars PROVE \A e \in Daemons : Decided(e)' /\ Owed(e)'
  BY TypeStep DEF DecidedInv
<1>1. ASSUME NEW d \in Daemons, Register(d) \/ Unregister(d)
      PROVE  \A e \in Daemons : Decided(e)' /\ Owed(e)'
  BY <1>1, FreshStarts, ThresholdTypes DEF Register, Unregister, DecidedInv, Decided, Owed
<1>2. ASSUME NEW d \in Daemons, CheckHealthy(d) \/ CheckUnhealthy(d) \/ RecordTimeout(d), NEW e \in Daemons
      PROVE  Decided(e)' /\ Owed(e)'
  <2>1. Counted(d) /\ Decided(e) /\ Owed(e)
        /\ consecutive_failures[e] \in Nat /\ consecutive_successes[e] \in Nat /\ total_failures[e] \in Nat
    BY <1>2, CheckCounts DEF DecidedInv, TypeOK
  <2>2. CASE e # d
    BY <2>1, <2>2, OthersKept DEF DecidedInv, Decided, Owed
  <2>3. CASE e = d /\ CheckHealthy(d)
    BY <2>1, <2>3, OkDecides, ThresholdTypes DEF DecidedInv, Decided, Owed
  <2>4. CASE e = d /\ (CheckUnhealthy(d) \/ RecordTimeout(d))
    BY <2>1, <2>4, FailDecides, ThresholdTypes DEF DecidedInv, Decided, Owed
  <2> QED
    BY <1>2, <2>2, <2>3, <2>4
<1>3. CASE UNCHANGED vars
  BY <1>3 DEF vars, states, DecidedInv, Decided, Owed
<1> QED
  BY <1>1, <1>2, <1>3 DEF Next

LEMMA DecidedInit == Init => DecidedInv
BY ThresholdTypes DEF Init, DecidedInv, TypeOK, Decided, Owed

(* health.rs l.69-72: where the subtraction of l.313 does not panic, no     *)
(* sequence of checks and timeouts leaves a daemon unhealthy that has       *)
(* reached the recovery threshold, or healthy one that has reached the      *)
(* failure threshold.                                                       *)
THEOREM ThresholdsAreKept == ASSUME NeverPanics PROVE Spec => []ThresholdsDecide
<1>1. DecidedInv => ThresholdsDecide
  BY DEF DecidedInv, TypeOK, Decided, ThresholdsDecide
<1> QED
  BY <1>1, DecidedInit, DecidedStep, PTL DEF Spec

-----------------------------------------------------------------------------
(* What a subscriber is told.                                               *)

LEMMA PairJoined == ASSUME NEW a, NEW b PROVE <<a>> \o <<b>> = <<a, b>>
<1> DEFINE S == {a, b}
<1>1. <<a>> \in Seq(S) /\ <<b>> \in Seq(S) /\ <<a, b>> \in Seq(S)
  OBVIOUS
<1>2. <<a>> \o <<b>> \in Seq(S) /\ Len(<<a>> \o <<b>>) = 2
  BY <1>1
<1>3. (<<a>> \o <<b>>)[1] = a /\ (<<a>> \o <<b>>)[2] = b
  BY <1>1
<1>4. Len(<<a, b>>) = 2 /\ <<a, b>>[1] = a /\ <<a, b>>[2] = b
  OBVIOUS
<1>5. \A i \in 1..Len(<<a>> \o <<b>>) : (<<a>> \o <<b>>)[i] = <<a, b>>[i]
  <2>1. \A i \in 1..2 : i = 1 \/ i = 2
    OBVIOUS
  <2> QED
    BY <1>2, <1>3, <1>4, <2>1
<1> HIDE DEF S
<1> QED
  BY <1>1, <1>2, <1>4, <1>5, SeqEqual, Zenon

(* What OkTells starts from: the thresholds decide where nothing panics.    *)
ToldInv == TypeOK /\ (NeverPanics => \A d \in Daemons : Decided(d) /\ Owed(d))

\* By how much the number of failures told with a recovery may wrap.
Shortfall == AtLeastOne(FailureThreshold) - AtLeastOne(RecoveryThreshold)

\* A step that tells of a recovery did not panic in its subtraction.
LEMMA RecoveryFallsShort ==
    ASSUME ToldInv, NEW d \in Daemons, CheckHealthy(d), Recovers(d),
           ~(FailuresBefore(d) < 0 /\ OverflowChecks)
    PROVE  FailuresBefore(d) >= Shortfall
<1>1. CASE NeverPanics
  BY <1>1, RecoveryCounts DEF ToldInv, Shortfall
<1>2. CASE ~NeverPanics
  <2>1. OverflowChecks /\ ~(AtLeastOne(RecoveryThreshold) <= AtLeastOne(FailureThreshold))
    BY <1>2 DEF NeverPanics
  <2>2. FailuresBefore(d) \in Int
    BY DEF FailuresBefore, ToldInv, TypeOK, CheckHealthy, RecordSuccess
  <2> QED
    BY <2>1, <2>2, ThresholdTypes DEF Shortfall
<1> QED
  BY <1>1, <1>2

\* The events of a check that finds d healthy.
LEMMA OkTells ==
    ASSUME ToldInv, NEW d \in Daemons, CheckHealthy(d)
    PROVE  \/ /\ ~is_healthy'[d]
              /\ events' = <<>>
           \/ /\ is_healthy[d] /\ is_healthy'[d]
              /\ events' = <<[kind |-> "Healthy", id |-> d]>>
           \/ /\ ~is_healthy[d] /\ is_healthy'[d] /\ FailuresBefore(d) >= Shortfall
              /\ events' = <<[kind |-> "Recovered", id |-> d, failures |-> FailuresBefore(d)],
                             [kind |-> "Healthy", id |-> d]>>
<1>1. Recovers(d) => ~is_healthy[d]
  BY DEF Recovers
<1>2. CASE Recovers(d) /\ FailuresBefore(d) < 0 /\ OverflowChecks
  <2>1. is_healthy' = is_healthy /\ events' = <<>>
    BY <1>2, Zenon DEF CheckHealthy
  <2> QED
    BY <1>1, <1>2, <2>1
<1>3. CASE ~(Recovers(d) /\ FailuresBefore(d) < 0 /\ OverflowChecks)
  <2>1. Recovers(d) => FailuresBefore(d) >= Shortfall
    BY <1>3, RecoveryFallsShort
  <2>2. /\ is_healthy' = [is_healthy EXCEPT ![d] = @ \/ Recovers(d)]
        /\ events' = (IF Recovers(d)
                      THEN <<[kind |-> "Recovered", id |-> d, failures |-> FailuresBefore(d)]>>
                      ELSE <<>>)
                  \o (IF is_healthy'[d] THEN <<[kind |-> "Healthy", id |-> d]>> ELSE <<>>)
    BY <1>3, Zenon DEF CheckHealthy
  <2>3. is_healthy'[d] <=> is_healthy[d] \/ Recovers(d)
    BY <2>2, Zenon DEF ToldInv, TypeOK
  <2>4. CASE Recovers(d)
    <3>1. ~is_healthy[d] /\ is_healthy'[d]
      BY <1>1, <2>3, <2>4
    <3>2. events' = <<[kind |-> "Recovered", id |-> d, failures |-> FailuresBefore(d)]>>
                        \o <<[kind |-> "Healthy", id |-> d]>>
      BY <2>2, <2>4, <3>1, Zenon
    <3>3. events' = <<[kind |-> "Recovered", id |-> d, failures |-> FailuresBefore(d)],
                      [kind |-> "Healthy", id |-> d]>>
      BY <3>2, PairJoined, Zenon
    <3> QED
      BY <2>1, <2>4, <3>1, <3>3, Zenon
  <2>5. CASE ~Recovers(d) /\ is_healthy[d]
    <3>1. is_healthy'[d]
      BY <2>3, <2>5
    <3>2. events' = <<>> \o <<[kind |-> "Healthy", id |-> d]>>
      BY <2>2, <2>5, <3>1, Zenon
    <3>3. \A a : <<>> \o <<a>> = <<a>>
      OBVIOUS
    <3> QED
      BY <2>5, <3>1, <3>2, <3>3, Zenon
  <2>6. CASE ~Recovers(d) /\ ~is_healthy[d]
    <3>1. ~is_healthy'[d]
      BY <2>3, <2>6
    <3>2. events' = <<>> \o <<>>
      BY <2>2, <2>6, <3>1, Zenon
    <3>3. <<>> \o <<>> = <<>>
      OBVIOUS
    <3> QED
      BY <3>1, <3>2, <3>3, Zenon
  <2> QED
    BY <2>4, <2>5, <2>6
<1> QED
  BY <1>2, <1>3

ToldRightly ==
    /\ \A d \in monitored \cap monitored' :
          Said("Recovered", d)' <=> (~is_healthy[d] /\ is_healthy'[d] /\ results'[d] # <<>>)
    /\ \A i \in DOMAIN events' : events'[i].kind = "Recovered" => events'[i].failures >= Shortfall

(* A subscriber is told of every recovery and of none that is not, whatever *)
(* the thresholds and in a build that panics on overflow too, with a number *)
(* of failures that wraps only if a recovery takes more successes than      *)
(* becoming unhealthy took failures (health.rs l.49, l.309-317).            *)
THEOREM RecoveriesAreTold == Spec => RecoveryIsTold
<1>1. ToldInv /\ [Next]_vars => [ToldRightly]_vars
  <2> SUFFICES ASSUME ToldInv, Next PROVE ToldRightly
    OBVIOUS
  <2>1. ASSUME NEW d \in Daemons, Register(d) \/ Unregister(d) PROVE ToldRightly
    <3>1. /\ events' = <<>> /\ results'[d] = <<>>
          /\ \A e \in Daemons \ {d} : is_healthy'[e] = is_healthy[e]
      BY <2>1, FreshStarts DEF Register, Unregister, ToldInv
    <3>2. monitored \subseteq Daemons
      BY DEF ToldInv, TypeOK
    <3> QED
      BY <3>1, <3>2 DEF ToldRightly, Said
  <2>2. ASSUME NEW d \in Daemons, CheckHealthy(d) PROVE ToldRightly
    <3>1. /\ results'[d] # <<>> /\ monitored \subseteq Daemons
          /\ \A e \in Daemons \ {d} : is_healthy'[e] = is_healthy[e]
      <4>1. results[d] \in Seq({"ok", "fail"}) /\ results'[d] = Append(results[d], "ok")
        BY <2>2 DEF CheckHealthy, Recorded, ToldInv, TypeOK
      <4>2. Len(results'[d]) = Len(results[d]) + 1 /\ Len(results[d]) \in Nat
        BY <4>1
      <4>3. results'[d] # <<>>
        BY <4>2
      <4>4. TypeOK
        BY DEF ToldInv
      <4>5. Counted(d)
        BY <2>2, <4>4, CheckCounts
      <4> QED
        BY <4>3, <4>4, <4>5, OthersKept DEF TypeOK
    <3>2. CASE ~is_healthy'[d] /\ events' = <<>>
      BY <3>1, <3>2 DEF ToldRightly, Said
    <3>3. CASE is_healthy[d] /\ is_healthy'[d] /\ events' = <<[kind |-> "Healthy", id |-> d]>>
      BY <3>1, <3>3 DEF ToldRightly, Said
    <3>4. CASE /\ ~is_healthy[d] /\ is_healthy'[d] /\ FailuresBefore(d) >= Shortfall
               /\ events' = <<[kind |-> "Recovered", id |-> d, failures |-> FailuresBefore(d)],
                              [kind |-> "Healthy", id |-> d]>>
      <4>1. /\ DOMAIN events' = {1, 2}
            /\ events'[1].kind = "Recovered" /\ events'[1].id = d /\ events'[1].failures >= Shortfall
            /\ events'[2].kind = "Healthy"
        BY <3>4
      <4>2. \A e : Said("Recovered", e)' <=> e = d
        BY <4>1 DEF Said
      <4> QED
        BY <3>1, <3>4, <4>1, <4>2 DEF ToldRightly
    <3> QED
      BY <2>2, <3>2, <3>3, <3>4, OkTells
  <2>3. ASSUME NEW d \in Daemons, CheckUnhealthy(d) \/ RecordTimeout(d) PROVE ToldRightly
    <3>1. /\ \A e \in Daemons \ {d} : is_healthy'[e] = is_healthy[e]
          /\ is_healthy'[d] => is_healthy[d]
          /\ monitored \subseteq Daemons
      BY <2>3, CheckCounts, OthersKept, FailDecides DEF ToldInv, TypeOK
    <3>2. DOMAIN events' = {1} /\ events'[1].kind \in {"Unhealthy", "Timeout"}
      BY <2>3 DEF CheckUnhealthy, RecordTimeout
    <3> QED
      BY <3>1, <3>2 DEF ToldRightly, Said
  <2> QED
    BY <2>1, <2>2, <2>3 DEF Next
<1>2. Init => ToldInv
  BY DecidedInit DEF ToldInv, DecidedInv
<1>3. ToldInv /\ [Next]_vars => ToldInv'
  <2>1. CASE NeverPanics
    BY <2>1, DecidedStep DEF ToldInv, DecidedInv
  <2>2. CASE ~NeverPanics
    BY <2>2, TypeStep DEF ToldInv
  <2> QED
    BY <2>1, <2>2
<1>4. ([][ToldRightly]_vars) => RecoveryIsTold
  BY PTL DEF RecoveryIsTold, ToldRightly, Shortfall
<1> QED
  BY <1>1, <1>2, <1>3, <1>4, PTL DEF Spec

-----------------------------------------------------------------------------
(* The health of a daemon against the outcomes recorded for it.             *)

Outcomes == {"ok", "fail"}

\* The outcomes r end with exactly n times o.
EndsWith(r, o, n) ==
    /\ n <= Len(r)
    /\ \A k \in (Len(r) - n + 1)..Len(r) : r[k] = o
    /\ n < Len(r) => r[Len(r) - n] # o

\* Debounced, turned round and without the subsequences.
Unwell(r) ==
    \E i \in 1..Len(r) :
        /\ RunOf(r, "fail", AtLeastOne(FailureThreshold), i)
        /\ \A j \in (i + 1)..Len(r) : ~RunOf(r, "ok", AtLeastOne(RecoveryThreshold), j)

LEMMA Appended ==
    ASSUME NEW r \in Seq(Outcomes), NEW o \in Outcomes
    PROVE  /\ Append(r, o) \in Seq(Outcomes) /\ Len(Append(r, o)) = Len(r) + 1 /\ Len(r) \in Nat
           /\ Append(r, o)[Len(r) + 1] = o
           /\ \A i \in 1..Len(r) : Append(r, o)[i] = r[i]
OBVIOUS

LEMMA RunsStay ==
    ASSUME NEW r \in Seq(Outcomes), NEW x \in Outcomes, NEW o, NEW n \in Nat \ {0}, NEW i \in 1..Len(r)
    PROVE  RunOf(Append(r, x), o, n, i) <=> RunOf(r, o, n, i)
<1>1. \A k \in (i - n + 1)..i : i >= n => k \in 1..Len(r)
  OBVIOUS
<1> QED
  BY <1>1, Appended DEF RunOf

LEMMA RunAtEnd ==
    ASSUME NEW r \in Seq(Outcomes), NEW o, NEW n \in Nat, EndsWith(r, o, n), NEW m \in Nat \ {0}
    PROVE  RunOf(r, o, m, Len(r)) <=> m <= n
<1>1. Len(r) \in Nat
  OBVIOUS
<1>2. CASE m <= n
  BY <1>1, <1>2 DEF RunOf, EndsWith
<1>3. CASE m > n /\ Len(r) >= m
  <2>1. Len(r) - n \in (Len(r) - m + 1)..Len(r) /\ n < Len(r)
    BY <1>1, <1>3
  <2> QED
    BY <1>3, <2>1 DEF RunOf, EndsWith
<1>4. CASE ~(Len(r) >= m)
  BY <1>1, <1>4 DEF RunOf, EndsWith
<1> QED
  BY <1>1, <1>2, <1>3, <1>4

LEMMA EndGrows ==
    ASSUME NEW r \in Seq(Outcomes), NEW o \in Outcomes, NEW n \in Nat, EndsWith(r, o, n)
    PROVE  EndsWith(Append(r, o), o, n + 1)
<1> DEFINE s == Append(r, o)
<1>1. Len(s) = Len(r) + 1 /\ Len(r) \in Nat /\ s[Len(r) + 1] = o /\ \A i \in 1..Len(r) : s[i] = r[i]
  BY Appended
<1> HIDE DEF s
<1>2. n <= Len(r)
  BY DEF EndsWith
<1>3. ASSUME NEW k \in (Len(s) - (n + 1) + 1)..Len(s) PROVE s[k] = o
  <2>1. k = Len(r) + 1 \/ (k \in (Len(r) - n + 1)..Len(r) /\ k \in 1..Len(r))
    BY <1>1, <1>2, <1>3
  <2> QED
    BY <1>1, <2>1 DEF EndsWith
<1>4. n + 1 < Len(s) => s[Len(s) - (n + 1)] # o
  <2>1. n + 1 < Len(s) => /\ n < Len(r) /\ Len(s) - (n + 1) = Len(r) - n /\ Len(r) - n \in 1..Len(r)
    BY <1>1, <1>2
  <2> QED
    BY <1>1, <2>1 DEF EndsWith
<1>5. EndsWith(s, o, n + 1)
  BY <1>1, <1>2, <1>3, <1>4 DEF EndsWith
<1> QED
  BY <1>5 DEF s

LEMMA EndBreaks ==
    ASSUME NEW r \in Seq(Outcomes), NEW o \in Outcomes, NEW x \in Outcomes \ {o}
    PROVE  EndsWith(Append(r, x), o, 0)
BY Appended DEF EndsWith

(* A failure makes a daemon unwell if it completes a run, or leaves it so.  *)
LEMMA UnwellAfterFail ==
    ASSUME NEW r \in Seq(Outcomes), NEW n \in Nat, EndsWith(r, "fail", n)
    PROVE  Unwell(Append(r, "fail")) <=> Unwell(r) \/ n + 1 >= AtLeastOne(FailureThreshold)
<1> DEFINE s == Append(r, "fail")
           f == AtLeastOne(FailureThreshold)
           g == AtLeastOne(RecoveryThreshold)
<1>1. /\ s \in Seq(Outcomes) /\ Len(s) = Len(r) + 1 /\ Len(r) \in Nat /\ s[Len(r) + 1] = "fail"
      /\ f \in Nat \ {0} /\ g \in Nat \ {0}
  BY Appended, ThresholdTypes DEF Outcomes
<1>2. \A i \in 1..Len(r) : /\ RunOf(s, "fail", f, i) <=> RunOf(r, "fail", f, i)
                           /\ RunOf(s, "ok", g, i) <=> RunOf(r, "ok", g, i)
  BY <1>1, RunsStay DEF Outcomes
<1>3. RunOf(s, "fail", f, Len(s)) <=> n + 1 >= f
  <2>1. EndsWith(s, "fail", n + 1)
    BY EndGrows DEF Outcomes
  <2> HIDE DEF s, f, g
  <2>2. RunOf(s, "fail", f, Len(s)) <=> f <= n + 1
    BY <1>1, <2>1, RunAtEnd
  <2> QED
    BY <1>1, <2>2
<1> HIDE DEF s, f, g
<1>4. ~RunOf(s, "ok", g, Len(s))
  <2>1. Len(s) \in (Len(s) - g + 1)..Len(s)
    BY <1>1
  <2> QED
    BY <1>1, <2>1 DEF RunOf
<1>5. ASSUME n + 1 >= f PROVE Unwell(s)
  <2>1. Len(s) \in 1..Len(s) /\ (Len(s) + 1)..Len(s) = {}
    BY <1>1
  <2> QED
    BY <1>3, <1>5, <2>1 DEF Unwell, f
<1>6. ASSUME Unwell(r) PROVE Unwell(s)
  <2>1. PICK i \in 1..Len(r) : RunOf(r, "fail", f, i) /\ \A j \in (i + 1)..Len(r) : ~RunOf(r, "ok", g, j)
    BY <1>6 DEF Unwell, f, g
  <2>2. i \in 1..Len(s) /\ \A j \in (i + 1)..Len(s) : j = Len(s) \/ (j \in (i + 1)..Len(r) /\ j \in 1..Len(r))
    BY <1>1
  <2>3. \A j \in (i + 1)..Len(s) : ~RunOf(s, "ok", g, j)
    BY <1>2, <1>4, <2>1, <2>2
  <2> QED
    BY <1>2, <2>1, <2>2, <2>3 DEF Unwell, f, g
<1>7. ASSUME Unwell(s), ~(n + 1 >= f) PROVE Unwell(r)
  <2>1. PICK i \in 1..Len(s) : RunOf(s, "fail", f, i) /\ \A j \in (i + 1)..Len(s) : ~RunOf(s, "ok", g, j)
    BY <1>7 DEF Unwell, f, g
  <2>2. i \in 1..Len(r)
    BY <1>1, <1>3, <1>7, <2>1
  <2>3. \A j \in (i + 1)..Len(r) : j \in (i + 1)..Len(s) /\ j \in 1..Len(r)
    BY <1>1, <2>2
  <2>4. RunOf(r, "fail", f, i) /\ \A j \in (i + 1)..Len(r) : ~RunOf(r, "ok", g, j)
    BY <1>2, <2>1, <2>2, <2>3
  <2> QED
    BY <2>2, <2>4 DEF Unwell, f, g
<1> QED
  BY <1>5, <1>6, <1>7 DEF s, f

(* A success ends that if it completes a run of its own.                    *)
LEMMA UnwellAfterOk ==
    ASSUME NEW r \in Seq(Outcomes), NEW n \in Nat, EndsWith(r, "ok", n)
    PROVE  Unwell(Append(r, "ok")) <=> Unwell(r) /\ ~(n + 1 >= AtLeastOne(RecoveryThreshold))
<1> DEFINE s == Append(r, "ok")
           f == AtLeastOne(FailureThreshold)
           g == AtLeastOne(RecoveryThreshold)
<1>1. /\ s \in Seq(Outcomes) /\ Len(s) = Len(r) + 1 /\ Len(r) \in Nat /\ s[Len(r) + 1] = "ok"
      /\ f \in Nat \ {0} /\ g \in Nat \ {0}
  BY Appended, ThresholdTypes DEF Outcomes
<1>2. \A i \in 1..Len(r) : /\ RunOf(s, "fail", f, i) <=> RunOf(r, "fail", f, i)
                           /\ RunOf(s, "ok", g, i) <=> RunOf(r, "ok", g, i)
  BY <1>1, RunsStay DEF Outcomes
<1>3. RunOf(s, "ok", g, Len(s)) <=> n + 1 >= g
  <2>1. EndsWith(s, "ok", n + 1)
    BY EndGrows DEF Outcomes
  <2> HIDE DEF s, f, g
  <2>2. RunOf(s, "ok", g, Len(s)) <=> g <= n + 1
    BY <1>1, <2>1, RunAtEnd
  <2> QED
    BY <1>1, <2>2
<1> HIDE DEF s, f, g
<1>4. ~RunOf(s, "fail", f, Len(s))
  <2>1. Len(s) \in (Len(s) - f + 1)..Len(s)
    BY <1>1
  <2> QED
    BY <1>1, <2>1 DEF RunOf
<1>5. ASSUME Unwell(r), ~(n + 1 >= g) PROVE Unwell(s)
  <2>1. PICK i \in 1..Len(r) : RunOf(r, "fail", f, i) /\ \A j \in (i + 1)..Len(r) : ~RunOf(r, "ok", g, j)
    BY <1>5 DEF Unwell, f, g
  <2>2. i \in 1..Len(s) /\ \A j \in (i + 1)..Len(s) : j = Len(s) \/ (j \in (i + 1)..Len(r) /\ j \in 1..Len(r))
    BY <1>1
  <2>3. \A j \in (i + 1)..Len(s) : ~RunOf(s, "ok", g, j)
    BY <1>2, <1>3, <1>5, <2>1, <2>2
  <2> QED
    BY <1>2, <2>1, <2>2, <2>3 DEF Unwell, f, g
<1>6. ASSUME Unwell(s) PROVE Unwell(r) /\ ~(n + 1 >= g)
  <2>1. PICK i \in 1..Len(s) : RunOf(s, "fail", f, i) /\ \A j \in (i + 1)..Len(s) : ~RunOf(s, "ok", g, j)
    BY <1>6 DEF Unwell, f, g
  <2>2. i \in 1..Len(r)
    BY <1>1, <1>4, <2>1
  <2>3. /\ Len(s) \in (i + 1)..Len(s)
        /\ \A j \in (i + 1)..Len(r) : j \in (i + 1)..Len(s) /\ j \in 1..Len(r)
    BY <1>1, <2>2
  <2>4. RunOf(r, "fail", f, i) /\ \A j \in (i + 1)..Len(r) : ~RunOf(r, "ok", g, j)
    BY <1>2, <2>1, <2>2, <2>3
  <2>5. ~(n + 1 >= g)
    BY <1>3, <2>1, <2>3
  <2> QED
    BY <2>2, <2>4, <2>5 DEF Unwell, f, g
<1> QED
  BY <1>5, <1>6 DEF s, g

(* A run of successes after a failure does not reach back over it.          *)
LEMMA DebouncedIsWell == ASSUME NEW r \in Seq(Outcomes) PROVE Debounced(r) <=> ~Unwell(r)
<1> DEFINE f == AtLeastOne(FailureThreshold)
           g == AtLeastOne(RecoveryThreshold)
<1>1. f \in Nat \ {0} /\ g \in Nat \ {0} /\ Len(r) \in Nat
  BY ThresholdTypes
<1> HIDE DEF f, g
<1>2. ASSUME NEW i \in 1..Len(r), RunOf(r, "fail", f, i), NEW j \in (i + 1)..Len(r)
      PROVE  RunOf(SubSeq(r, i + 1, j), "ok", g, j - i) <=> RunOf(r, "ok", g, j)
  <2>1. /\ Len(SubSeq(r, i + 1, j)) = j - i
        /\ \A k \in 1..(j - i) : SubSeq(r, i + 1, j)[k] = r[i + k]
        /\ i \in Nat /\ j \in Nat /\ i >= 1 /\ j > i /\ j <= Len(r)
    BY <1>1
  <2>2. r[i] = "fail"
    BY <1>1, <1>2, i \in (i - f + 1)..i DEF RunOf
  <2>3. ASSUME RunOf(r, "ok", g, j) PROVE RunOf(SubSeq(r, i + 1, j), "ok", g, j - i)
    <3>1. j - g >= i
      <4>1. j - g < i => i \in (j - g + 1)..j
        BY <1>1, <2>1
      <4> QED
        BY <1>1, <2>1, <2>2, <2>3, <4>1 DEF RunOf
    <3>2. \A k \in (j - i - g + 1)..(j - i) : k \in 1..(j - i) /\ i + k \in (j - g + 1)..j
      BY <1>1, <2>1, <3>1
    <3> QED
      BY <1>1, <2>1, <2>3, <3>1, <3>2 DEF RunOf
  <2>4. ASSUME RunOf(SubSeq(r, i + 1, j), "ok", g, j - i) PROVE RunOf(r, "ok", g, j)
    <3>1. j - i >= g
      BY <2>4 DEF RunOf
    <3>2. \A k \in (j - g + 1)..j : /\ k - i \in (j - i - g + 1)..(j - i) /\ k - i \in 1..(j - i)
                                    /\ i + (k - i) = k
      BY <1>1, <2>1, <3>1
    <3>3. \A k \in (j - g + 1)..j : r[k] = "ok"
      BY <2>1, <2>4, <3>2 DEF RunOf
    <3>4. j >= g
      BY <1>1, <2>1, <3>1
    <3> QED
      BY <3>3, <3>4 DEF RunOf
  <2> QED
    BY <2>3, <2>4
<1>3. (~Debounced(r)) <=>
      \E i \in 1..Len(r) : /\ RunOf(r, "fail", f, i)
                           /\ \A j \in (i + 1)..Len(r) : ~RunOf(SubSeq(r, i + 1, j), "ok", g, j - i)
  BY DEF Debounced, f, g
<1>4. Unwell(r) <=> \E i \in 1..Len(r) : /\ RunOf(r, "fail", f, i)
                                         /\ \A j \in (i + 1)..Len(r) : ~RunOf(r, "ok", g, j)
  BY DEF Unwell, f, g
<1> QED
  BY <1>2, <1>3, <1>4

LEMMA FailuresCounted ==
    ASSUME NEW r \in Seq(Outcomes), NEW o \in Outcomes
    PROVE  /\ FailuresIn(r) \in Nat
           /\ FailuresIn(Append(r, o)) = IF o = "fail" THEN FailuresIn(r) + 1 ELSE FailuresIn(r)
<1> DEFINE fails == { i \in DOMAIN r : r[i] = "fail" }
           s     == Append(r, o)
           after == { i \in DOMAIN s : s[i] = "fail" }
<1>1. DOMAIN r = 1..Len(r) /\ DOMAIN s = 1..(Len(r) + 1) /\ Len(r) \in Nat
      /\ s[Len(r) + 1] = o /\ \A i \in 1..Len(r) : s[i] = r[i]
  BY Appended
<1>2. IsFiniteSet(fails) /\ Cardinality(fails) \in Nat
  <2>1. IsFiniteSet(1..Len(r)) /\ fails \subseteq 1..Len(r)
    BY <1>1, FS_Interval
  <2> QED
    BY <2>1, FS_Subset, FS_CardinalityType
<1>3. after = IF o = "fail" THEN fails \cup {Len(r) + 1} ELSE fails
  <2> HIDE DEF s
  <2>1. \A i \in 1..(Len(r) + 1) : i = Len(r) + 1 \/ i \in 1..Len(r)
    BY <1>1
  <2>2. \A i \in 1..Len(r) : i \in 1..(Len(r) + 1)
    BY <1>1
  <2>3. Len(r) + 1 \in 1..(Len(r) + 1)
    BY <1>1
  <2>4. \A i : i \in after <=> i \in 1..(Len(r) + 1) /\ s[i] = "fail"
    BY <1>1
  <2>5. \A i : i \in fails <=> i \in 1..Len(r) /\ r[i] = "fail"
    BY <1>1
  <2> HIDE DEF after, fails
  <2>6. \A i : i \in after <=> i \in fails \/ (i = Len(r) + 1 /\ o = "fail")
    BY <1>1, <2>1, <2>2, <2>3, <2>4, <2>5
  <2> QED
    BY <2>6
<1>4. Len(r) + 1 \notin fails
  BY <1>1
<1> HIDE DEF fails, after
<1>5. Cardinality(after) = IF o = "fail" THEN Cardinality(fails) + 1 ELSE Cardinality(fails)
  BY <1>2, <1>3, <1>4, FS_AddElement
<1> QED
  BY <1>2, <1>5 DEF FailuresIn, fails, after

OfOutcomes(d) ==
    /\ EndsWith(results[d], "fail", consecutive_failures[d])
    /\ EndsWith(results[d], "ok", consecutive_successes[d])
    /\ is_healthy[d] <=> ~Unwell(results[d])
    /\ total_checks[d] = Len(results[d])
    /\ total_failures[d] = FailuresIn(results[d])

OutcomesInv == DecidedInv /\ \A d \in Daemons : OfOutcomes(d)

LEMMA NothingRecorded ==
    /\ \A o : EndsWith(<<>>, o, 0)
    /\ ~Unwell(<<>>) /\ Len(<<>>) = 0 /\ FailuresIn(<<>>) = 0
<1>1. \A r : r = <<>> => { i \in DOMAIN r : r[i] = "fail" } = {}
  OBVIOUS
<1>2. FailuresIn(<<>>) = 0
  BY <1>1, FS_EmptySet DEF FailuresIn
<1> QED
  BY <1>2 DEF EndsWith, Unwell

LEMMA OutcomesStep == ASSUME NeverPanics PROVE OutcomesInv /\ [Next]_vars => OutcomesInv'
<1> SUFFICES ASSUME OutcomesInv, [Next]_vars PROVE \A e \in Daemons : OfOutcomes(e)'
  BY DecidedStep DEF OutcomesInv
<1>0. TypeOK /\ DecidedInv /\ \A e \in Daemons : OfOutcomes(e) /\ Decided(e) /\ Owed(e)
  BY DEF OutcomesInv, DecidedInv
<1>1. ASSUME NEW d \in Daemons, Register(d) \/ Unregister(d), NEW e \in Daemons PROVE OfOutcomes(e)'
  BY <1>0, <1>1, FreshStarts, NothingRecorded DEF Register, Unregister, OfOutcomes
<1>2. ASSUME NEW d \in Daemons, NEW o \in Outcomes, Recorded(d, o), NEW e \in Daemons
      PROVE  /\ results[e] \in Seq(Outcomes)
             /\ results'[e] = IF e = d THEN Append(results[d], o) ELSE results[e]
             /\ consecutive_failures[e] \in Nat /\ consecutive_successes[e] \in Nat
  BY <1>0, <1>2 DEF Recorded, TypeOK, Outcomes
<1>3. ASSUME NEW d \in Daemons, CheckHealthy(d), NEW e \in Daemons PROVE OfOutcomes(e)'
  <2>1. /\ results[e] \in Seq(Outcomes) /\ consecutive_failures[e] \in Nat /\ consecutive_successes[e] \in Nat
        /\ results'[e] = IF e = d THEN Append(results[d], "ok") ELSE results[e]
    BY <1>2, <1>3 DEF CheckHealthy, Outcomes
  <2>2. CASE e # d
    BY <1>0, <1>3, <2>1, <2>2, CheckCounts, OthersKept DEF OfOutcomes
  <2>3. CASE e = d
    <3> DEFINE n == consecutive_successes[d]
    <3>1. EndsWith(results'[d], "ok", n + 1) /\ EndsWith(results'[d], "fail", 0)
      BY <1>0, <2>1, <2>3, EndGrows, EndBreaks DEF OfOutcomes, Outcomes
    <3>2. Unwell(results'[d]) <=> Unwell(results[d]) /\ ~(n + 1 >= AtLeastOne(RecoveryThreshold))
      <4>1. EndsWith(results[d], "ok", n) /\ n \in Nat /\ results'[d] = Append(results[d], "ok")
        BY <1>0, <2>1, <2>3 DEF OfOutcomes
      <4> HIDE DEF n
      <4> QED
        BY <2>1, <2>3, <4>1, UnwellAfterOk
    <3>3. Len(results'[d]) = Len(results[d]) + 1 /\ FailuresIn(results'[d]) = FailuresIn(results[d])
      BY <2>1, <2>3, Appended, FailuresCounted DEF Outcomes
    <3> QED
      BY <1>0, <1>3, <2>3, <3>1, <3>2, <3>3, OkDecides DEF OfOutcomes
  <2> QED
    BY <2>2, <2>3
<1>4. ASSUME NEW d \in Daemons, CheckUnhealthy(d) \/ RecordTimeout(d), NEW e \in Daemons PROVE OfOutcomes(e)'
  <2>1. /\ results[e] \in Seq(Outcomes) /\ consecutive_failures[e] \in Nat /\ consecutive_successes[e] \in Nat
        /\ results'[e] = IF e = d THEN Append(results[d], "fail") ELSE results[e]
    BY <1>2, <1>4 DEF CheckUnhealthy, RecordTimeout, Outcomes
  <2>2. CASE e # d
    BY <1>0, <1>4, <2>1, <2>2, CheckCounts, OthersKept DEF OfOutcomes
  <2>3. CASE e = d
    <3> DEFINE n == consecutive_failures[d]
    <3>1. EndsWith(results'[d], "fail", n + 1) /\ EndsWith(results'[d], "ok", 0)
      BY <1>0, <2>1, <2>3, EndGrows, EndBreaks DEF OfOutcomes, Outcomes
    <3>2. Unwell(results'[d]) <=> Unwell(results[d]) \/ n + 1 >= AtLeastOne(FailureThreshold)
      BY <1>0, <2>1, <2>3, UnwellAfterFail DEF OfOutcomes
    <3>3. Len(results'[d]) = Len(results[d]) + 1 /\ FailuresIn(results'[d]) = FailuresIn(results[d]) + 1
      BY <2>1, <2>3, Appended, FailuresCounted DEF Outcomes
    <3>4. n + 1 >= AtLeastOne(FailureThreshold) <=> ~(n + 1 < AtLeastOne(FailureThreshold))
      BY <2>1, <2>3, ThresholdTypes
    <3> QED
      BY <1>0, <1>4, <2>3, <3>1, <3>2, <3>3, <3>4, FailDecides DEF OfOutcomes
  <2> QED
    BY <2>2, <2>3
<1>5. CASE UNCHANGED vars
  BY <1>0, <1>5 DEF vars, states, OfOutcomes
<1> QED
  BY <1>1, <1>3, <1>4, <1>5 DEF Next

(* The health of a daemon (health.rs l.69-72) and the statistics (l.390)    *)
(* are functions of the outcomes recorded since it was registered: the      *)
(* debouncing that the two thresholds describe, for any thresholds and any  *)
(* sequence of checks and timeouts.                                         *)
THEOREM HealthIsOfOutcomes == ASSUME NeverPanics PROVE Spec => []HealthIsDebounced
<1>1. Init => OutcomesInv
  BY DecidedInit, NothingRecorded DEF OutcomesInv, OfOutcomes, Init
<1>2. OutcomesInv => HealthIsDebounced
  <2> SUFFICES ASSUME OutcomesInv PROVE HealthIsDebounced
    OBVIOUS
  <2>1. TypeOK /\ \A d \in Daemons : OfOutcomes(d)
    BY DEF OutcomesInv, DecidedInv
  <2>2. \A d \in Daemons : is_healthy[d] <=> Debounced(results[d])
    <3> SUFFICES ASSUME NEW d \in Daemons PROVE is_healthy[d] <=> Debounced(results[d])
      OBVIOUS
    <3>1. results[d] \in Seq(Outcomes)
      BY <2>1 DEF TypeOK, Outcomes
    <3> QED
      BY <2>1, <3>1, DebouncedIsWell DEF OfOutcomes
  <2>3. /\ total_checks = [d \in Daemons |-> Len(results[d])]
        /\ total_failures = [d \in Daemons |-> FailuresIn(results[d])]
    BY <2>1 DEF TypeOK, OfOutcomes
  <2>4. monitored \subseteq Daemons
    BY <2>1 DEF TypeOK
  <2>5. { d \in monitored : is_healthy[d] } = { d \in monitored : Debounced(results[d]) }
    BY <2>2, <2>4
  <2> QED
    BY <2>2, <2>3, <2>4, <2>5, Zenon DEF HealthIsDebounced, Statistics
<1> QED
  BY <1>1, <1>2, OutcomesStep, PTL DEF Spec

-----------------------------------------------------------------------------
(***************************************************************************)
(* The metrics.  RecordingsAreKept bounds the atomics by the recordings    *)
(* that are complete and those that have begun; the strengthening says     *)
(* which exactly are in each atomic: all but the last of a thread that     *)
(* still has this access to make.  A thread about to swap has seen a       *)
(* maximum below its duration, so that no swap makes the maximum smaller.  *)
(***************************************************************************)

Newest(t) == <<t, Len(recorded[t])>>

Summed  == { r \in Begun : r = Newest(r[1]) => "sum" \notin todo[r[1]] }
Tallied == { r \in Begun : r = Newest(r[1]) => "count" \notin todo[r[1]] }
Maxed   == { r \in Begun : r = Newest(r[1]) => todo[r[1]] \cap {"load", "swap"} = {} }

RecordingTypes ==
    /\ {duration_sum_us, duration_count, duration_max_us} \subseteq Nat
    /\ todo \in [MetricThreads -> SUBSET {"sum", "count", "load", "swap"}]
    /\ current_max \in [MetricThreads -> Nat]
    /\ recorded \in [MetricThreads -> Seq(Durations)]
    /\ \A t \in MetricThreads : /\ Len(recorded[t]) <= MaxRecordings
                                /\ todo[t] # {} => Len(recorded[t]) > 0

MetricsInv ==
    /\ RecordingTypes
    /\ duration_sum_us = TotalUs(Summed)
    /\ duration_count = Cardinality(Tallied)
    /\ \A r \in Maxed : Duration(r) <= duration_max_us
    /\ duration_max_us # 0 => \E r \in Begun : Duration(r) = duration_max_us
    /\ \A t \in MetricThreads : "swap" \in todo[t] => current_max[t] < Us(t)

LEMMA BegunIsFinite ==
    ASSUME IsFiniteSet(MetricThreads), NEW S \in SUBSET Begun
    PROVE  IsFiniteSet(S)
<1>1. IsFiniteSet(MetricThreads \X (1..MaxRecordings))
  <2>1. IsFiniteSet(1..MaxRecordings)
    BY MetricsAssumption, FS_Interval
  <2> QED
    BY <2>1, FS_Product
<1>2. S \in SUBSET (MetricThreads \X (1..MaxRecordings))
  BY DEF Begun
<1> QED
  BY <1>1, <1>2, FS_Subset

LEMMA DurationsAreNumbers ==
    ASSUME RecordingTypes, NEW r \in Begun
    PROVE  Duration(r) \in Nat /\ r[1] \in MetricThreads /\ r[2] \in 1..Len(recorded[r[1]])
<1>1. r[1] \in MetricThreads /\ r[2] \in DOMAIN recorded[r[1]]
  BY DEF Begun
<1>2. recorded[r[1]] \in Seq(Durations)
  BY <1>1 DEF RecordingTypes
<1>3. r[2] \in 1..Len(recorded[r[1]])
  BY <1>1, <1>2
<1>4. Duration(r) \in Durations
  BY <1>2, <1>3, ElementOfSeq DEF Duration
<1> QED
  BY <1>1, <1>3, <1>4, MetricsAssumption

LEMMA TotalsGrow ==
    ASSUME IsFiniteSet(MetricThreads), RecordingTypes, NEW S \in SUBSET Begun, NEW R \in SUBSET S
    PROVE  TotalUs(R) \in Nat /\ TotalUs(S) \in Nat /\ TotalUs(R) <= TotalUs(S)
<1> DEFINE f == [r \in S |-> Duration(r)]
           g == [r \in R |-> Duration(r)]
<1>1. \A r \in S : f[r] \in Nat
  BY DurationsAreNumbers
<1>2. IsFiniteSet(S) /\ IsFiniteSet(R)
  BY BegunIsFinite
<1>3. \A r \in R : f[r] = g[r]
  OBVIOUS
<1>4. TotalUs(S) = SumFunctionOnSet(f, S) /\ TotalUs(R) = SumFunctionOnSet(g, R)
  BY DEF TotalUs
<1> HIDE DEF f, g
<1>5. SumFunctionOnSet(f, R) = SumFunctionOnSet(g, R)
  BY <1>1, <1>2, <1>3, SumOfSame
<1>6. /\ 0 <= SumFunctionOnSet(f, R) /\ SumFunctionOnSet(f, R) <= SumFunctionOnSet(f, S)
      /\ SumFunctionOnSet(f, R) \in Int /\ SumFunctionOnSet(f, S) \in Int
  BY <1>1, <1>2, SumIsMonotone, SumIsInt
<1> QED
  BY <1>4, <1>5, <1>6

LEMMA TotalWithOneMore ==
    ASSUME IsFiniteSet(MetricThreads), RecordingTypes, NEW S \in SUBSET Begun, NEW r \in Begun \ S
    PROVE  TotalUs(S \cup {r}) = TotalUs(S) + Duration(r)
<1> DEFINE R == S \cup {r}
           f == [q \in R |-> Duration(q)]
           g == [q \in S |-> Duration(q)]
<1>1. /\ \A q \in R : f[q] \in Int
      /\ \A q \in S : f[q] = g[q]
      /\ f[r] = Duration(r)
  BY DurationsAreNumbers
<1>2. IsFiniteSet(S)
  BY BegunIsFinite
<1>3. TotalUs(R) = SumFunctionOnSet(f, R) /\ TotalUs(S) = SumFunctionOnSet(g, S)
  BY DEF TotalUs
<1> HIDE DEF f, g
<1>4. SumFunctionOnSet(f, S) = SumFunctionOnSet(g, S)
  BY <1>1, <1>2, SumOfSame
<1>5. SumFunctionOnSet(f, R) = SumFunctionOnSet(f, S) + f[r]
  BY <1>1, <1>2, SumWithOneMore
<1> QED
  BY <1>1, <1>3, <1>4, <1>5

LEMMA TallyOneMore ==
    ASSUME IsFiniteSet(MetricThreads), NEW S \in SUBSET Begun, NEW r \in Begun \ S
    PROVE  Cardinality(S \cup {r}) = Cardinality(S) + 1
BY BegunIsFinite, FS_AddElement

LEMMA KeptByInv ==
    ASSUME IsFiniteSet(MetricThreads), MetricsInv
    PROVE  RecordingsAreKept
<1>1. Complete \subseteq Summed /\ Complete \subseteq Tallied /\ Complete \subseteq Maxed
  <2> SUFFICES ASSUME NEW r \in Complete
               PROVE  r \in Summed /\ r \in Tallied /\ r \in Maxed
    OBVIOUS
  <2>1. r \in Begun /\ (todo[r[1]] = {} \/ r[2] < Len(recorded[r[1]]))
    BY DEF Complete
  <2>2. r = Newest(r[1]) => r[2] = Len(recorded[r[1]])
    BY DEF Newest
  <2>3. r = Newest(r[1]) => todo[r[1]] = {}
    BY <2>1, <2>2, DurationsAreNumbers DEF MetricsInv
  <2> QED
    BY <2>1, <2>3 DEF Summed, Tallied, Maxed
<1>2. Summed \subseteq Begun /\ Tallied \subseteq Begun /\ Complete \subseteq Begun
  BY DEF Summed, Tallied, Complete
<1>3. TotalUs(Complete) <= duration_sum_us /\ duration_sum_us <= TotalUs(Begun)
  BY <1>1, <1>2, TotalsGrow DEF MetricsInv
<1>4. Cardinality(Complete) <= duration_count /\ duration_count <= Cardinality(Begun)
  <2>1. IsFiniteSet(Tallied) /\ IsFiniteSet(Begun)
    BY <1>2, BegunIsFinite
  <2> QED
    BY <1>1, <1>2, <2>1, FS_Subset DEF MetricsInv
<1> QED
  BY <1>1, <1>3, <1>4 DEF RecordingsAreKept, MetricsInv

LEMMA NewestBegan ==
    ASSUME RecordingTypes, NEW t \in MetricThreads, todo[t] # {}
    PROVE  /\ Newest(t) \in Begun /\ Duration(Newest(t)) = Us(t)
           /\ Newest(t)[1] = t /\ Us(t) \in Nat
<1>1. Len(recorded[t]) \in 1..MaxRecordings /\ recorded[t] \in Seq(Durations)
  <2>1. recorded[t] \in Seq(Durations) /\ Len(recorded[t]) > 0 /\ Len(recorded[t]) <= MaxRecordings
    BY DEF RecordingTypes
  <2>2. Len(recorded[t]) \in Nat /\ MaxRecordings \in Nat
    BY <2>1, MetricsAssumption
  <2> QED
    BY <2>1, <2>2
<1>2. Newest(t)[1] = t /\ Newest(t)[2] = Len(recorded[t])
  BY DEF Newest
<1>3. Newest(t) \in Begun
  BY <1>1, <1>2 DEF Begun, Newest
<1>4. Duration(Newest(t)) = Us(t)
  BY <1>2 DEF Duration, Us
<1> QED
  BY <1>2, <1>3, <1>4, DurationsAreNumbers

(* A recording begins: it is in none of the atomics, and the one before it  *)
(* was in all of them.                                                      *)
LEMMA RecordDurationKeeps ==
    ASSUME IsFiniteSet(MetricThreads), MetricsInv,
           NEW t \in MetricThreads, NEW us \in Durations, RecordDuration(t, us)
    PROVE  MetricsInv'
<1> DEFINE n == Len(recorded[t])
           new == <<t, n + 1>>
<1>1. /\ todo[t] = {} /\ n < MaxRecordings /\ n \in Nat
      /\ recorded' = [recorded EXCEPT ![t] = Append(recorded[t], us)]
      /\ todo' = [todo EXCEPT ![t] = {"sum", "count", "load"}]
      /\ recorded[t] \in Seq(Durations)
      /\ UNCHANGED <<duration_sum_us, duration_count, duration_max_us, current_max>>
  BY DEF MetricsInv, RecordingTypes, RecordDuration
<1>2. /\ recorded'[t] \in Seq(Durations) /\ Len(recorded'[t]) = n + 1
      /\ DOMAIN recorded'[t] = 1..(n + 1) /\ DOMAIN recorded[t] = 1..n
      /\ \A i \in 1..n : recorded'[t][i] = recorded[t][i]
      /\ \A s \in MetricThreads \ {t} : recorded'[s] = recorded[s] /\ todo'[s] = todo[s]
      /\ todo'[t] = {"sum", "count", "load"}
  BY <1>1 DEF MetricsInv, RecordingTypes
<1>3. RecordingTypes'
  <2>1. /\ todo' \in [MetricThreads -> SUBSET {"sum", "count", "load", "swap"}]
        /\ recorded' \in [MetricThreads -> Seq(Durations)]
    BY <1>1, <1>2 DEF MetricsInv, RecordingTypes
  <2>2. ASSUME NEW s \in MetricThreads
        PROVE  Len(recorded'[s]) <= MaxRecordings /\ (todo'[s] # {} => Len(recorded'[s]) > 0)
    BY <1>1, <1>2, MetricsAssumption DEF MetricsInv, RecordingTypes
  <2> QED
    BY <1>1, <2>1, <2>2 DEF MetricsInv, RecordingTypes
<1>4. Begun' = Begun \cup {new} /\ new \notin Begun /\ new[1] = t /\ new[2] = n + 1
  <2>1. new \notin Begun /\ new[1] = t /\ new[2] = n + 1
    BY <1>1, <1>2 DEF Begun
  <2>2. new \in MetricThreads \X (1..MaxRecordings)
    BY <1>1, MetricsAssumption
  <2>3. ASSUME NEW r \in MetricThreads \X (1..MaxRecordings)
        PROVE  r[2] \in DOMAIN recorded'[r[1]] <=> r[2] \in DOMAIN recorded[r[1]] \/ r = new
    <3>1. r[1] \in MetricThreads /\ r[2] \in Nat /\ r = <<r[1], r[2]>>
      OBVIOUS
    <3>2. CASE r[1] = t
      BY <1>1, <1>2, <3>1, <3>2
    <3>3. CASE r[1] # t
      BY <1>2, <3>1, <3>3
    <3> QED
      BY <3>2, <3>3
  <2> QED
    BY <2>1, <2>2, <2>3 DEF Begun
<1>5. Newest(t)' = new /\ \A s \in MetricThreads \ {t} : Newest(s)' = Newest(s)
  BY <1>2 DEF Newest
<1> HIDE DEF new
<1>6. ASSUME NEW r \in Begun
      PROVE  /\ Duration(r)' = Duration(r) /\ r[1] \in MetricThreads
             /\ r[1] = t => r # Newest(r[1])'
             /\ r[1] # t => Newest(r[1])' = Newest(r[1]) /\ todo'[r[1]] = todo[r[1]]
  <2>1. r[1] \in MetricThreads /\ r[2] \in 1..Len(recorded[r[1]])
    BY DurationsAreNumbers DEF MetricsInv
  <2>2. CASE r[1] = t
    BY <1>2, <1>4, <1>5, <2>1, <2>2 DEF Duration
  <2>3. CASE r[1] # t
    BY <1>2, <1>5, <2>1, <2>3 DEF Duration
  <2> QED
    BY <2>1, <2>2, <2>3
<1>7. Summed' = Summed /\ Tallied' = Tallied /\ Maxed' = Maxed
  <2>1. ASSUME NEW r \in Begun
        PROVE  /\ (r = Newest(r[1]) => "sum" \notin todo[r[1]])' <=> (r = Newest(r[1]) => "sum" \notin todo[r[1]])
               /\ (r = Newest(r[1]) => "count" \notin todo[r[1]])' <=> (r = Newest(r[1]) => "count" \notin todo[r[1]])
               /\ (r = Newest(r[1]) => todo[r[1]] \cap {"load", "swap"} = {})'
                      <=> (r = Newest(r[1]) => todo[r[1]] \cap {"load", "swap"} = {})
    <3>1. CASE r[1] = t
      BY <1>1, <1>6, <3>1
    <3>2. CASE r[1] # t
      BY <1>6, <3>2
    <3> QED
      BY <3>1, <3>2
  <2>2. new = <<new[1], Len(recorded'[new[1]])>> /\ todo'[new[1]] = {"sum", "count", "load"}
    BY <1>2 DEF new
  <2>3. Summed' = Summed
    <3>1. new \notin Summed'
      BY <2>2 DEF Summed, Newest
    <3>2. \A r \in Begun : r \in Summed' <=> r \in Summed
      BY <1>4, <2>1 DEF Summed
    <3> QED
      BY <1>4, <3>1, <3>2 DEF Summed
  <2>4. Tallied' = Tallied
    <3>1. new \notin Tallied'
      BY <2>2 DEF Tallied, Newest
    <3>2. \A r \in Begun : r \in Tallied' <=> r \in Tallied
      BY <1>4, <2>1 DEF Tallied
    <3> QED
      BY <1>4, <3>1, <3>2 DEF Tallied
  <2>5. Maxed' = Maxed
    <3>1. new \notin Maxed'
      BY <2>2 DEF Maxed, Newest
    <3>2. \A r \in Begun : r \in Maxed' <=> r \in Maxed
      BY <1>4, <2>1 DEF Maxed
    <3> QED
      BY <1>4, <3>1, <3>2 DEF Maxed
  <2> QED
    BY <2>3, <2>4, <2>5
<1>8. TotalUs(Summed)' = TotalUs(Summed)
  <2>1. \A r \in Summed : Duration(r)' = Duration(r)
    BY <1>6 DEF Summed
  <2>2. [r \in Summed |-> Duration(r)]' = [r \in Summed |-> Duration(r)]
    BY <1>7, <2>1
  <2> QED
    BY <1>7, <2>2 DEF TotalUs
<1>9. /\ duration_sum_us' = TotalUs(Summed)'
      /\ duration_count' = Cardinality(Tallied)'
  BY <1>1, <1>7, <1>8 DEF MetricsInv
<1>10. /\ \A r \in Maxed' : Duration(r)' <= duration_max_us'
       /\ duration_max_us' # 0 => \E r \in Begun' : Duration(r)' = duration_max_us'
  <2>1. Maxed \subseteq Begun
    BY DEF Maxed
  <2> QED
    BY <1>1, <1>4, <1>6, <1>7, <2>1 DEF MetricsInv
<1>11. \A s \in MetricThreads : "swap" \in todo'[s] => current_max'[s] < Us(s)'
  BY <1>1, <1>2 DEF MetricsInv, Us
<1> QED
  BY <1>3, <1>9, <1>10, <1>11 DEF MetricsInv

(* An access of t is made: todo[t] becomes left, nothing is recorded.       *)
LEMMA AccessMade ==
    ASSUME MetricsInv, NEW t \in MetricThreads, todo[t] # {}, UNCHANGED recorded,
           NEW left \in SUBSET {"sum", "count", "load", "swap"}, todo' = [todo EXCEPT ![t] = left]
    PROVE  /\ Begun' = Begun /\ \A r \in Begun : Duration(r)' = Duration(r)
           /\ \A s \in MetricThreads : Us(s)' = Us(s) /\ todo'[s] = IF s = t THEN left ELSE todo[s]
           /\ ("sum" \in left <=> "sum" \in todo[t]) => Summed' = Summed
           /\ "sum" \in todo[t] \ left =>
                  Summed' = Summed \cup {Newest(t)} /\ Newest(t) \in Begun \ Summed
           /\ ("count" \in left <=> "count" \in todo[t]) => Tallied' = Tallied
           /\ "count" \in todo[t] \ left =>
                  Tallied' = Tallied \cup {Newest(t)} /\ Newest(t) \in Begun \ Tallied
           /\ (left \cap {"load", "swap"} = {} <=> todo[t] \cap {"load", "swap"} = {}) => Maxed' = Maxed
           /\ left \cap {"load", "swap"} = {} => Maxed' = Maxed \cup {Newest(t)}
           /\ TotalUs(Summed)' = TotalUs(Summed')
<1>1. Begun' = Begun /\ \A r \in Begun : Duration(r)' = Duration(r)
  BY DEF Begun, Duration
<1>2. /\ \A s \in MetricThreads : Us(s)' = Us(s) /\ todo'[s] = IF s = t THEN left ELSE todo[s]
      /\ \A s \in MetricThreads : Newest(s)' = Newest(s)
  BY DEF MetricsInv, RecordingTypes, Us, Newest
<1>3. Newest(t) \in Begun /\ Newest(t)[1] = t
  BY NewestBegan DEF MetricsInv
<1>4. \A r \in Begun : r[1] \in MetricThreads
  BY DEF Begun
<1>5. /\ ("sum" \in left <=> "sum" \in todo[t]) => Summed' = Summed
      /\ "sum" \in todo[t] \ left => Summed' = Summed \cup {Newest(t)} /\ Newest(t) \in Begun \ Summed
  BY <1>1, <1>2, <1>3, <1>4 DEF Summed
<1>6. /\ ("count" \in left <=> "count" \in todo[t]) => Tallied' = Tallied
      /\ "count" \in todo[t] \ left => Tallied' = Tallied \cup {Newest(t)} /\ Newest(t) \in Begun \ Tallied
  BY <1>1, <1>2, <1>3, <1>4 DEF Tallied
<1>7. /\ (left \cap {"load", "swap"} = {} <=> todo[t] \cap {"load", "swap"} = {}) => Maxed' = Maxed
      /\ left \cap {"load", "swap"} = {} => Maxed' = Maxed \cup {Newest(t)}
  BY <1>1, <1>2, <1>3, <1>4 DEF Maxed
<1>8. TotalUs(Summed)' = TotalUs(Summed')
  <2>1. Summed' \subseteq Begun
    BY <1>1 DEF Summed
  <2>2. [r \in Summed |-> Duration(r)]' = [r \in Summed' |-> Duration(r)]
    BY <1>1, <2>1
  <2> QED
    BY <2>2 DEF TotalUs
<1> QED
  BY <1>1, <1>2, <1>5, <1>6, <1>7, <1>8

LEMMA AddSumKeeps ==
    ASSUME IsFiniteSet(MetricThreads), MetricsInv, NEW t \in MetricThreads, AddSum(t)
    PROVE  MetricsInv'
<1> DEFINE left == todo[t] \ {"sum"}
<1>1. /\ todo[t] # {} /\ todo' = [todo EXCEPT ![t] = left]
      /\ left \in SUBSET {"sum", "count", "load", "swap"} /\ "sum" \in todo[t] \ left
      /\ duration_sum_us' = duration_sum_us + Us(t)
      /\ UNCHANGED <<duration_count, duration_max_us, current_max, recorded>>
  BY DEF AddSum, Does, MetricsInv, RecordingTypes
<1>2. /\ "count" \in left <=> "count" \in todo[t]
      /\ left \cap {"load", "swap"} = todo[t] \cap {"load", "swap"}
      /\ "swap" \in left <=> "swap" \in todo[t]
  OBVIOUS
<1> HIDE DEF left
<1>3. Duration(Newest(t)) = Us(t) /\ Us(t) \in Nat
  BY <1>1, NewestBegan DEF MetricsInv
<1>4. /\ Begun' = Begun /\ \A r \in Begun : Duration(r)' = Duration(r)
      /\ \A s \in MetricThreads : Us(s)' = Us(s) /\ todo'[s] = IF s = t THEN left ELSE todo[s]
      /\ Summed' = Summed \cup {Newest(t)} /\ Newest(t) \in Begun \ Summed
      /\ Tallied' = Tallied /\ Maxed' = Maxed /\ TotalUs(Summed)' = TotalUs(Summed')
  BY <1>1, <1>2, AccessMade
<1>5. TotalUs(Summed') = TotalUs(Summed) + Us(t)
  <2>1. Summed \in SUBSET Begun
    BY DEF Summed
  <2> QED
    BY <1>3, <1>4, <2>1, TotalWithOneMore DEF MetricsInv
<1>6. duration_sum_us' = TotalUs(Summed)' /\ duration_sum_us' \in Nat
  BY <1>1, <1>3, <1>4, <1>5 DEF MetricsInv, RecordingTypes
<1>7. RecordingTypes'
  BY <1>1, <1>4, <1>6 DEF MetricsInv, RecordingTypes
<1>8. Maxed \subseteq Begun
  BY DEF Maxed
<1> QED
  BY <1>1, <1>2, <1>4, <1>6, <1>7, <1>8 DEF MetricsInv

LEMMA AddCountKeeps ==
    ASSUME IsFiniteSet(MetricThreads), MetricsInv, NEW t \in MetricThreads, AddCount(t)
    PROVE  MetricsInv'
<1> DEFINE left == todo[t] \ {"count"}
<1>1. /\ todo[t] # {} /\ todo' = [todo EXCEPT ![t] = left]
      /\ left \in SUBSET {"sum", "count", "load", "swap"} /\ "count" \in todo[t] \ left
      /\ duration_count' = duration_count + 1
      /\ UNCHANGED <<duration_sum_us, duration_max_us, current_max, recorded>>
  BY DEF AddCount, Does, MetricsInv, RecordingTypes
<1>2. /\ "sum" \in left <=> "sum" \in todo[t]
      /\ left \cap {"load", "swap"} = todo[t] \cap {"load", "swap"}
      /\ "swap" \in left <=> "swap" \in todo[t]
  OBVIOUS
<1> HIDE DEF left
<1>3. /\ Begun' = Begun /\ \A r \in Begun : Duration(r)' = Duration(r)
      /\ \A s \in MetricThreads : Us(s)' = Us(s) /\ todo'[s] = IF s = t THEN left ELSE todo[s]
      /\ Tallied' = Tallied \cup {Newest(t)} /\ Newest(t) \in Begun \ Tallied
      /\ Summed' = Summed /\ Maxed' = Maxed /\ TotalUs(Summed)' = TotalUs(Summed')
  BY <1>1, <1>2, AccessMade
<1>4. Cardinality(Tallied') = Cardinality(Tallied) + 1
  <2>1. Tallied \in SUBSET Begun
    BY DEF Tallied
  <2> QED
    BY <1>3, <2>1, TallyOneMore
<1>5. duration_count' = Cardinality(Tallied') /\ duration_count' \in Nat
  BY <1>1, <1>4 DEF MetricsInv, RecordingTypes
<1>6. RecordingTypes'
  BY <1>1, <1>3, <1>5 DEF MetricsInv, RecordingTypes
<1>7. Maxed \subseteq Begun
  BY DEF Maxed
<1> QED
  BY <1>1, <1>2, <1>3, <1>5, <1>6, <1>7 DEF MetricsInv

(* A thread looks at the maximum: it will swap, or its duration is in it.   *)
LEMMA SeesKeeps ==
    ASSUME IsFiniteSet(MetricThreads), MetricsInv,
           NEW t \in MetricThreads, NEW access \in {"load", "swap"}, Sees(t, access),
           UNCHANGED <<duration_sum_us, duration_count, duration_max_us, recorded>>
    PROVE  MetricsInv'
<1>1. Duration(Newest(t)) = Us(t) /\ Us(t) \in Nat /\ todo[t] # {} /\ duration_max_us \in Nat
  BY NewestBegan DEF MetricsInv, RecordingTypes, Sees
<1>2. PICK left \in SUBSET {"sum", "count", "load", "swap"} :
          /\ todo' = [todo EXCEPT ![t] = left]
          /\ "sum" \in left <=> "sum" \in todo[t]
          /\ "count" \in left <=> "count" \in todo[t]
          /\ \/ /\ Us(t) > duration_max_us
                /\ left \cap {"load", "swap"} # {} /\ todo[t] \cap {"load", "swap"} # {}
                /\ current_max' = [current_max EXCEPT ![t] = duration_max_us]
             \/ /\ Us(t) <= duration_max_us /\ left = todo[t] \ {access}
                /\ current_max' = [current_max EXCEPT ![t] = 0]
  <2>1. todo[t] \in SUBSET {"sum", "count", "load", "swap"} /\ access \in todo[t]
    BY DEF MetricsInv, RecordingTypes, Sees
  <2>2. CASE Us(t) > duration_max_us
    <3>1. (todo[t] \ {access}) \cup {"swap"} \in SUBSET {"sum", "count", "load", "swap"}
      BY <2>1
    <3> QED
      BY <2>1, <2>2, <3>1 DEF Sees
  <2>3. CASE ~(Us(t) > duration_max_us)
    <3> DEFINE left == todo[t] \ {access}
    <3>1. /\ left \in SUBSET {"sum", "count", "load", "swap"}
          /\ "sum" \in left <=> "sum" \in todo[t]
          /\ "count" \in left <=> "count" \in todo[t]
      BY <2>1
    <3>2. todo' = [todo EXCEPT ![t] = left] /\ current_max' = [current_max EXCEPT ![t] = 0]
      BY <2>3 DEF Sees
    <3>3. Us(t) <= duration_max_us /\ left = todo[t] \ {access}
      BY <1>1, <2>3
    <3> HIDE DEF left
    <3> QED
      BY <3>1, <3>2, <3>3
  <2> QED
    BY <2>2, <2>3
<1>3. /\ Begun' = Begun /\ \A r \in Begun : Duration(r)' = Duration(r)
      /\ \A s \in MetricThreads : Us(s)' = Us(s) /\ todo'[s] = IF s = t THEN left ELSE todo[s]
      /\ Summed' = Summed /\ Tallied' = Tallied /\ TotalUs(Summed)' = TotalUs(Summed')
  BY <1>1, <1>2, AccessMade
<1>4. \A r \in Maxed' : r \in Maxed \/ (r = Newest(t) /\ Us(t) <= duration_max_us)
  <2>1. CASE left \cap {"load", "swap"} # {}
    <3>1. todo[t] \cap {"load", "swap"} # {}
      BY <1>2, <2>1
    <3> QED
      BY <1>1, <1>2, <2>1, <3>1, AccessMade
  <2>2. CASE left \cap {"load", "swap"} = {}
    <3>1. Us(t) <= duration_max_us
      BY <1>2, <2>2
    <3>2. Maxed' = Maxed \cup {Newest(t)}
      BY <1>1, <1>2, <2>2, AccessMade
    <3> QED
      BY <3>1, <3>2
  <2> QED
    BY <2>1, <2>2
<1>5. \A r \in Maxed' : Duration(r)' <= duration_max_us'
  <2>1. Maxed \subseteq Begun /\ Maxed' \subseteq Begun
    BY <1>3 DEF Maxed
  <2> QED
    BY <1>1, <1>3, <1>4, <2>1 DEF MetricsInv
<1>6. RecordingTypes'
  <2>1. current_max' \in [MetricThreads -> Nat]
    <3>1. current_max \in [MetricThreads -> Nat]
      BY DEF MetricsInv, RecordingTypes
    <3>2. \A n \in Nat : [current_max EXCEPT ![t] = n] \in [MetricThreads -> Nat]
      BY <3>1
    <3> QED
      BY <1>1, <1>2, <3>2
  <2>2. todo' \in [MetricThreads -> SUBSET {"sum", "count", "load", "swap"}]
    BY <1>2 DEF MetricsInv, RecordingTypes
  <2>3. \A s \in MetricThreads : todo'[s] # {} => todo[s] # {}
    BY <1>1, <1>3
  <2> QED
    BY <2>1, <2>2, <2>3 DEF MetricsInv, RecordingTypes
<1>7. \A s \in MetricThreads : "swap" \in todo'[s] => current_max'[s] < Us(s)'
  <2> SUFFICES ASSUME NEW s \in MetricThreads, "swap" \in todo'[s] PROVE current_max'[s] < Us(s)
    BY <1>3
  <2>1. CASE s # t
    BY <1>2, <1>3, <2>1 DEF MetricsInv, RecordingTypes
  <2>2. CASE s = t /\ Us(t) > duration_max_us
    BY <1>1, <1>2, <2>2 DEF MetricsInv, RecordingTypes
  <2>3. CASE s = t /\ Us(t) <= duration_max_us
    <3>1. left = todo[t] \ {access} /\ current_max'[t] = 0
      BY <1>1, <1>2, <2>3 DEF MetricsInv, RecordingTypes
    <3>2. current_max[t] < Us(t) /\ current_max[t] \in Nat
      BY <1>3, <2>3, <3>1 DEF MetricsInv, RecordingTypes
    <3> QED
      BY <1>1, <2>3, <3>1, <3>2
  <2> QED
    BY <1>1, <2>1, <2>2, <2>3
<1> QED
  BY <1>3, <1>5, <1>6, <1>7 DEF MetricsInv

(* The maximum is still the one that was loaded, and so below the duration. *)
LEMMA StoreKeeps ==
    ASSUME IsFiniteSet(MetricThreads), MetricsInv, NEW t \in MetricThreads,
           duration_max_us = current_max[t], Does(t, "swap"), duration_max_us' = Us(t),
           current_max' = [current_max EXCEPT ![t] = 0],
           UNCHANGED <<duration_sum_us, duration_count, recorded>>
    PROVE  MetricsInv'
<1> DEFINE left == todo[t] \ {"swap"}
<1>1. /\ todo[t] # {} /\ todo' = [todo EXCEPT ![t] = left]
      /\ left \in SUBSET {"sum", "count", "load", "swap"} /\ "swap" \in todo[t]
  BY DEF Does, MetricsInv, RecordingTypes
<1>2. /\ "sum" \in left <=> "sum" \in todo[t]
      /\ "count" \in left <=> "count" \in todo[t]
      /\ todo[t] \cap {"load", "swap"} # {} /\ "swap" \notin left
  BY <1>1
<1> HIDE DEF left
<1>3. /\ Newest(t) \in Begun /\ Duration(Newest(t)) = Us(t) /\ Us(t) \in Nat
      /\ duration_max_us \in Nat /\ duration_max_us < Us(t)
  BY <1>1, NewestBegan DEF MetricsInv, RecordingTypes
<1>4. /\ Begun' = Begun /\ \A r \in Begun : Duration(r)' = Duration(r)
      /\ \A s \in MetricThreads : Us(s)' = Us(s) /\ todo'[s] = IF s = t THEN left ELSE todo[s]
      /\ Summed' = Summed /\ Tallied' = Tallied /\ TotalUs(Summed)' = TotalUs(Summed')
  BY <1>1, <1>2, AccessMade
<1>5. Maxed' \subseteq Maxed \cup {Newest(t)}
  BY <1>1, <1>2, AccessMade
<1>6. \A r \in Maxed' : Duration(r)' <= duration_max_us'
  <2>1. Maxed \subseteq Begun
    BY DEF Maxed
  <2>2. \A r \in Maxed : Duration(r) <= duration_max_us /\ Duration(r) \in Nat
    BY <2>1, DurationsAreNumbers DEF MetricsInv
  <2> QED
    BY <1>3, <1>4, <1>5, <2>1, <2>2
<1>7. RecordingTypes'
  <2>1. current_max' \in [MetricThreads -> Nat]
    BY DEF MetricsInv, RecordingTypes
  <2>2. todo' \in [MetricThreads -> SUBSET {"sum", "count", "load", "swap"}]
    BY <1>1 DEF MetricsInv, RecordingTypes
  <2>3. \A s \in MetricThreads : todo'[s] # {} => todo[s] # {}
    BY <1>1, <1>4
  <2> QED
    BY <1>3, <2>1, <2>2, <2>3 DEF MetricsInv, RecordingTypes
<1>8. \A s \in MetricThreads : "swap" \in todo'[s] => current_max'[s] < Us(s)'
  BY <1>2, <1>4 DEF MetricsInv, RecordingTypes
<1>9. \E r \in Begun' : Duration(r)' = duration_max_us'
  BY <1>3, <1>4
<1> QED
  BY <1>4, <1>6, <1>7, <1>8, <1>9 DEF MetricsInv

LEMMA RecordingKeeps ==
    ASSUME IsFiniteSet(MetricThreads), MetricsInv, NEW t \in MetricThreads, Recording(t)
    PROVE  MetricsInv'
<1>1. CASE \E us \in Durations : RecordDuration(t, us)
  BY <1>1, RecordDurationKeeps
<1>2. CASE AddSum(t)
  BY <1>2, AddSumKeeps
<1>3. CASE AddCount(t)
  BY <1>3, AddCountKeeps
<1>4. CASE LoadMax(t)
  BY <1>4, SeesKeeps DEF LoadMax
<1>5. CASE SwapMax(t)
  BY <1>5, SeesKeeps, StoreKeeps DEF SwapMax
<1> QED
  BY <1>1, <1>2, <1>3, <1>4, <1>5 DEF Recording

LEMMA DurationsUntouched ==
    ASSUME MetricsInv, UNCHANGED durations
    PROVE  MetricsInv'
<1>1. /\ UNCHANGED <<Begun, Summed, Tallied, Maxed>> /\ RecordingTypes'
      /\ \A r : Duration(r)' = Duration(r) /\ \A t : Us(t)' = Us(t)
  BY DEF durations, MetricsInv, RecordingTypes, Begun, Summed, Tallied, Maxed, Newest, Duration, Us
<1>2. TotalUs(Summed)' = TotalUs(Summed)
  BY <1>1 DEF TotalUs
<1> QED
  BY <1>1, <1>2 DEF durations, MetricsInv

LEMMA MetricsInitially == MetricsInit => MetricsInv
<1> SUFFICES ASSUME MetricsInit PROVE MetricsInv
  OBVIOUS
<1>1. RecordingTypes
  BY MetricsAssumption DEF MetricsInit, RecordingTypes
<1>2. Begun = {}
  BY DEF MetricsInit, Begun
<1>3. Summed = {} /\ Tallied = {} /\ Maxed = {}
  BY <1>2 DEF Summed, Tallied, Maxed
<1>4. TotalUs(Summed) = 0 /\ Cardinality(Tallied) = 0
  BY <1>3, SumOfNone, FS_EmptySet DEF TotalUs
<1> QED
  BY <1>1, <1>3, <1>4 DEF MetricsInit, MetricsInv

(* record_duration (metrics.rs l.125-144): however many threads record what *)
(* durations at the same time, each complete recording is in the count, the *)
(* sum and the maximum, and nothing is that nobody has begun to record.     *)
THEOREM RecordingsAreAlwaysKept ==
    ASSUME IsFiniteSet(MetricThreads)
    PROVE  MetricsSpec => []RecordingsAreKept
<1>1. MetricsInv /\ [MetricsNext]_metricsVars => MetricsInv'
  <2> SUFFICES ASSUME MetricsInv, [MetricsNext]_metricsVars PROVE MetricsInv'
    OBVIOUS
  <2>1. ASSUME NEW t \in MetricThreads, Recording(t) PROVE MetricsInv'
    BY <2>1, RecordingKeeps
  <2>2. CASE UNCHANGED durations
    BY <2>2, DurationsUntouched
  <2> QED
    BY <2>1, <2>2 DEF MetricsNext, RecordRequest, RecordError, SetCpuUsage, LoadDivisor, LoadDividend,
                      metricsVars
<1>2. MetricsInv => RecordingsAreKept
  BY KeptByInv
<1> QED
  BY <1>1, <1>2, MetricsInitially, PTL DEF MetricsSpec

-----------------------------------------------------------------------------
(***************************************************************************)
(* The monitor: the samples it keeps are those it took last, in the order  *)
(* of their times, and no tick of the one process it samples is counted    *)
(* twice.                                                                  *)
(***************************************************************************)

\* The newest of the samples, as many as there are in h.
Recent(h, all) ==
    Len(h) <= Len(all) /\ \A i \in 1..Len(h) : h[i] = all[Len(all) - Len(h) + i]

Increasing(s) == \A i, j \in DOMAIN s : i < j => s[i].timestamp < s[j].timestamp

LEMMA RecentIsSubSeq ==
    ASSUME NEW S, NEW h \in Seq(S), NEW all \in Seq(S), Recent(h, all)
    PROVE  h = SubSeq(all, Len(all) - Len(h) + 1, Len(all))
<1> DEFINE m == Len(all) - Len(h) + 1
<1>1. m \in 1..(Len(all) + 1) /\ Len(h) \in Nat /\ Len(all) \in Nat
  BY DEF Recent
<1>2. SubSeq(all, m, Len(all)) \in Seq(S) /\ Len(SubSeq(all, m, Len(all))) = Len(h)
  BY <1>1
<1>3. \A i \in 1..Len(h) : SubSeq(all, m, Len(all))[i] = h[i]
  BY <1>1 DEF Recent
<1> QED
  BY <1>2, <1>3, SeqEqual

LEMMA RecentIsSuffix ==
    ASSUME NEW S, NEW h \in Seq(S), NEW all \in Seq(S), Recent(h, all)
    PROVE  IsSuffix(h, all)
<1>1. Len(h) \in Nat /\ Len(all) \in Nat /\ Len(h) <= Len(all)
  BY DEF Recent
<1>2. /\ Reverse(h) \in Seq(S) /\ Len(Reverse(h)) = Len(h)
      /\ Reverse(all) \in Seq(S) /\ Len(Reverse(all)) = Len(all)
  BY <1>1 DEF Reverse
<1>3. /\ SubSeq(Reverse(h), 1, Len(h)) \in Seq(S) /\ Len(SubSeq(Reverse(h), 1, Len(h))) = Len(h)
      /\ SubSeq(Reverse(all), 1, Len(h)) \in Seq(S) /\ Len(SubSeq(Reverse(all), 1, Len(h))) = Len(h)
  BY <1>1, <1>2
<1>4. ASSUME NEW i \in 1..Len(h)
      PROVE  SubSeq(Reverse(h), 1, Len(h))[i] = SubSeq(Reverse(all), 1, Len(h))[i]
  <2>1. /\ SubSeq(Reverse(h), 1, Len(h))[i] = Reverse(h)[i]
        /\ SubSeq(Reverse(all), 1, Len(h))[i] = Reverse(all)[i]
    BY <1>1, <1>2
  <2>2. Reverse(h)[i] = h[Len(h) - i + 1] /\ Reverse(all)[i] = all[Len(all) - i + 1]
    BY <1>1 DEF Reverse
  <2>3. Len(h) - i + 1 \in 1..Len(h)
        /\ Len(all) - Len(h) + (Len(h) - i + 1) = Len(all) - i + 1
    BY <1>1
  <2> QED
    BY <2>1, <2>2, <2>3 DEF Recent
<1>5. SubSeq(Reverse(h), 1, Len(h)) = SubSeq(Reverse(all), 1, Len(h))
  BY <1>3, <1>4, SeqEqual
<1> QED
  BY <1>1, <1>2, <1>5 DEF IsSuffix, IsPrefix

LEMMA RecentOfRecent ==
    ASSUME NEW S, NEW all \in Seq(S), NEW h \in Seq(S), Recent(h, all), NEW g \in Seq(S), Recent(g, h)
    PROVE  Recent(g, all)
<1>1. Len(g) \in Nat /\ Len(h) \in Nat /\ Len(all) \in Nat /\ Len(g) <= Len(h) /\ Len(h) <= Len(all)
  BY DEF Recent
<1>2. ASSUME NEW i \in 1..Len(g) PROVE g[i] = all[Len(all) - Len(g) + i]
  <2>1. Len(h) - Len(g) + i \in 1..Len(h)
    BY <1>1
  <2>2. h[Len(h) - Len(g) + i] = all[Len(all) - Len(h) + (Len(h) - Len(g) + i)]
    BY <2>1 DEF Recent
  <2> QED
    BY <1>1, <2>2 DEF Recent
<1> QED
  BY <1>1, <1>2 DEF Recent

(* history() filters its samples; of increasing times that leaves the last  *)
(* of them.                                                                 *)
Answers(h, cutoff, f) ==
    f = [i \in 0..Len(h) |-> IF i = 0 THEN <<>>
                             ELSE IF h[i].timestamp >= cutoff THEN Append(f[i - 1], h[i])
                             ELSE f[i - 1]]

LEMMA HistoryIs ==
    ASSUME NEW cutoff
    PROVE  History(cutoff) = (CHOOSE f : Answers(history, cutoff, f))[Len(history)]
BY DEF History, Answers

LEMMA FilteredIsRecent ==
    ASSUME NEW h \in Seq(DaemonSnapshot), Increasing(h), NEW cutoff \in Nat
    PROVE  LET a == (CHOOSE f : Answers(h, cutoff, f))[Len(h)]
           IN  a \in Seq(DaemonSnapshot) /\ Recent(a, h)
<1> DEFINE n == Len(h)
           Late == { i \in 1..(n + 1) : i = n + 1 \/ h[i].timestamp >= cutoff }
<1>1. n \in Nat /\ DOMAIN h = 1..n /\ \A i \in 1..n : h[i] \in DaemonSnapshot /\ h[i].timestamp \in Nat
  <2>1. n \in Nat /\ DOMAIN h = 1..n
    OBVIOUS
  <2>2. \A i \in 1..n : h[i] \in DaemonSnapshot
    BY ElementOfSeq
  <2> QED
    BY <2>1, <2>2 DEF DaemonSnapshot
<1>2. PICK k \in Late : \A i \in Late : k <= i
  <2>1. Late \in SUBSET Nat /\ n + 1 \in Late
    BY <1>1
  <2> QED
    BY <2>1, LeastNumber
<1>3. /\ k \in 1..(n + 1)
      /\ \A i \in 1..n : h[i].timestamp >= cutoff <=> k <= i
  <2>1. k \in 1..(n + 1)
    BY <1>2
  <2>2. ASSUME NEW i \in 1..n, h[i].timestamp >= cutoff PROVE k <= i
    <3>1. i \in Late
      BY <1>1, <2>2
    <3> QED
      BY <1>2, <3>1
  <2>3. ASSUME NEW i \in 1..n, k <= i PROVE h[i].timestamp >= cutoff
    <3>1. k \in 1..n /\ h[k].timestamp >= cutoff
      BY <1>1, <1>2, <2>3
    <3>2. h[k].timestamp <= h[i].timestamp
      BY <1>1, <2>3, <3>1 DEF Increasing
    <3> QED
      BY <1>1, <3>1, <3>2
  <2> QED
    BY <2>1, <2>2, <2>3
<1> HIDE DEF Late
<1> DEFINE Part(i) == [j \in 1..(i - k + 1) |-> h[j + k - 1]]
           g == [i \in 0..n |-> Part(i)]
<1>4. ASSUME NEW i \in 0..n, i < k PROVE Part(i) = <<>>
  BY <1>1, <1>3, <1>4
<1>5. ASSUME NEW i \in 1..n, k <= i PROVE Append(Part(i - 1), h[i]) = Part(i)
  <2>1. Part(i - 1) \in Seq(DaemonSnapshot) /\ Len(Part(i - 1)) = i - k
    <3>1. i - k \in Nat /\ (i - 1) - k + 1 = i - k
      BY <1>1, <1>3, <1>5
    <3>2. \A j \in 1..(i - k) : h[j + k - 1] \in DaemonSnapshot
      BY <1>1, <1>3, <1>5
    <3>3. Part(i - 1) = [j \in 1..(i - k) |-> h[j + k - 1]]
      BY <3>1
    <3> QED
      BY <3>1, <3>2, <3>3
  <2>2. Part(i) \in Seq(DaemonSnapshot) /\ Len(Part(i)) = i - k + 1
    BY <1>1, <1>3, <1>5
  <2>3. Append(Part(i - 1), h[i]) \in Seq(DaemonSnapshot) /\ Len(Append(Part(i - 1), h[i])) = i - k + 1
    <3>1. h[i] \in DaemonSnapshot
      BY <1>1
    <3>2. \A s \in Seq(DaemonSnapshot) :
              Append(s, h[i]) \in Seq(DaemonSnapshot) /\ Len(Append(s, h[i])) = Len(s) + 1
      BY <3>1
    <3> HIDE DEF Part
    <3> QED
      BY <2>1, <3>2
  <2>4. ASSUME NEW j \in 1..(i - k + 1) PROVE Append(Part(i - 1), h[i])[j] = Part(i)[j]
    <3>1. Part(i)[j] = h[j + k - 1]
      OBVIOUS
    <3>2. CASE j = i - k + 1
      BY <1>1, <1>3, <2>1, <3>1, <3>2
    <3>3. CASE j # i - k + 1
      BY <1>1, <1>3, <2>1, <3>1, <3>3
    <3> QED
      BY <3>2, <3>3
  <2> QED
    BY <2>2, <2>3, <2>4, SeqEqual
<1>6. \A i \in 0..n : g[i] = IF i = 0 THEN <<>>
                             ELSE IF h[i].timestamp >= cutoff THEN Append(g[i - 1], h[i])
                             ELSE g[i - 1]
  <2> SUFFICES ASSUME NEW i \in 0..n
               PROVE  g[i] = IF i = 0 THEN <<>>
                             ELSE IF h[i].timestamp >= cutoff THEN Append(g[i - 1], h[i])
                             ELSE g[i - 1]
    OBVIOUS
  <2>1. g[i] = Part(i) /\ (i # 0 => i \in 1..n /\ g[i - 1] = Part(i - 1) /\ i - 1 \in 0..n)
    BY <1>1
  <2> HIDE DEF g, Part
  <2>2. CASE i < k
    BY <1>1, <1>3, <1>4, <2>1, <2>2
  <2>3. CASE k <= i
    BY <1>1, <1>3, <1>5, <2>1, <2>3
  <2> QED
    BY <1>1, <1>3, <2>2, <2>3
<1>7. Answers(h, cutoff, g)
  BY <1>6 DEF Answers
<1>8. ASSUME NEW f, Answers(h, cutoff, f) PROVE f[n] = g[n]
  <2> DEFINE Wrong == { i \in 0..n : f[i] # g[i] }
  <2>1. ASSUME Wrong # {} PROVE FALSE
    <3>1. PICK i \in Wrong : \A j \in Wrong : i <= j
      <4>1. Wrong \in SUBSET Nat
        BY <1>1
      <4> HIDE DEF Wrong
      <4> QED
        BY <2>1, <4>1, LeastNumber
    <3>2. i \in 0..n /\ f[i] # g[i] /\ (i # 0 => i - 1 \in 0..n /\ f[i - 1] = g[i - 1])
      BY <1>1, <3>1
    <3>3. f[i] = IF i = 0 THEN <<>>
                 ELSE IF h[i].timestamp >= cutoff THEN Append(f[i - 1], h[i])
                 ELSE f[i - 1]
      BY <1>8, <3>2 DEF Answers
    <3> HIDE DEF g
    <3> QED
      BY <1>6, <3>2, <3>3
  <2>2. n \in 0..n
    BY <1>1
  <2> HIDE DEF g
  <2> QED
    BY <2>1, <2>2
<1>9. (CHOOSE f : Answers(h, cutoff, f))[n] = Part(n)
  <2>1. g[n] = Part(n)
    BY <1>1
  <2> HIDE DEF g, Part
  <2> QED
    BY <1>7, <1>8, <2>1
<1>10. Part(n) \in Seq(DaemonSnapshot) /\ Len(Part(n)) = n - k + 1
  BY <1>1, <1>3
<1>11. Recent(Part(n), h)
  BY <1>1, <1>3, <1>10 DEF Recent
<1> QED
  BY <1>9, <1>10, <1>11

RecentInv ==
    /\ MonitorTypeOK
    /\ Recent(history, taken)
    /\ Len(history) = IF Len(taken) < Kept THEN Len(taken) ELSE Kept
    /\ Increasing(taken)
    /\ \A i \in DOMAIN taken : /\ taken[i].timestamp < collects
                               /\ stat # None => taken[i].timestamp < stat.timestamp
    /\ stat # None => stat.timestamp < collects

LEMMA TypesOfStat ==
    ASSUME MonitorTypeOK, stat # None
    PROVE  stat \in DaemonSnapshot /\ stat.pid \in Pids /\ stat.timestamp \in Nat /\ stat.used \in Nat
BY DEF MonitorTypeOK, DaemonSnapshot

LEMMA TicksUsedType ==
    ASSUME NEW prev \in Nat \cup {Gone}, NEW now \in Nat \cup {Gone}
    PROVE  TicksUsed(prev, now) \in Nat
BY DEF TicksUsed, Gone

(* A collect that reads /proc/pid/stat.                                     *)
LEMMA CollectStatType ==
    ASSUME MonitorTypeOK, NEW p \in Pids, CollectStat(p)
    PROVE  MonitorTypeOK'
<1>1. TicksUsed(prev_cpu, ticks[p]) \in Nat /\ ticks[p] \in Nat \cup {Gone} /\ collects \in Nat
  BY TicksUsedType DEF MonitorTypeOK
<1>2. CASE ticks[p] = Gone
  BY <1>2 DEF CollectStat, ParseProcStat, MonitorTypeOK
<1>3. CASE ticks[p] # Gone
  <2>1. PICK used \in {0, TicksUsed(prev_cpu, ticks[p])} :
            stat' = [pid |-> p, timestamp |-> collects, used |-> used] /\ prev_cpu' = ticks[p]
    BY <1>3 DEF CollectStat, ParseProcStat
  <2>2. stat' \in DaemonSnapshot
    BY <1>1, <2>1 DEF DaemonSnapshot
  <2> QED
    BY <1>1, <2>1, <2>2 DEF CollectStat, MonitorTypeOK
<1> QED
  BY <1>2, <1>3

LEMMA PushedType ==
    ASSUME MonitorTypeOK, NEW s \in DaemonSnapshot
    PROVE  Pushed(history, s) \in Seq(DaemonSnapshot) /\ Append(taken, s) \in Seq(DaemonSnapshot)
BY DEF MonitorTypeOK, Pushed

LEMMA CollectStatmType ==
    ASSUME MonitorTypeOK, CollectStatm
    PROVE  MonitorTypeOK'
<1>1. stat \in DaemonSnapshot
  BY TypesOfStat DEF CollectStatm
<1> QED
  BY <1>1, PushedType DEF CollectStatm, MonitorTypeOK

LEMMA MonitorTypeStep ==
    ASSUME MonitorTypeOK, [MonitorNext]_monitorVars
    PROVE  MonitorTypeOK'
<1>1. ASSUME NEW p \in Pids, Runs(p) PROVE MonitorTypeOK'
  <2>1. ticks[p] \in Nat /\ burnt[p] \in Nat
    BY <1>1 DEF Runs, MonitorTypeOK
  <2> QED
    BY <1>1, <2>1 DEF Runs, MonitorTypeOK
<1>2. ASSUME NEW p \in Pids, ExitsOrStarts(p) PROVE MonitorTypeOK'
  BY <1>2 DEF ExitsOrStarts, MonitorTypeOK
<1>3. ASSUME NEW p \in Pids, CollectStat(p) PROVE MonitorTypeOK'
  BY <1>3, CollectStatType
<1>4. CASE CollectStatm
  BY <1>4, CollectStatmType
<1>5. CASE ClearHistory
  BY <1>5 DEF ClearHistory, MonitorTypeOK
<1>6. CASE UNCHANGED monitorVars
  BY <1>6 DEF monitorVars, MonitorTypeOK
<1> QED
  BY <1>1, <1>2, <1>3, <1>4, <1>5, <1>6 DEF MonitorNext

(* The ring buffer takes a sample: the oldest makes room for it.            *)
LEMMA PushKeeps ==
    ASSUME MonitorTypeOK, Recent(history, taken), NEW s \in DaemonSnapshot,
           Len(history) = IF Len(taken) < Kept THEN Len(taken) ELSE Kept
    PROVE  /\ Recent(Pushed(history, s), Append(taken, s))
           /\ Len(Pushed(history, s)) =
                  IF Len(Append(taken, s)) < Kept THEN Len(Append(taken, s)) ELSE Kept
<1> DEFINE n == Len(history)
           b == Len(taken)
           h == Pushed(history, s)
           all == Append(taken, s)
<1>1. /\ n \in Nat /\ b \in Nat /\ n <= b /\ Kept \in Nat \ {0}
      /\ history \in Seq(DaemonSnapshot) /\ taken \in Seq(DaemonSnapshot)
  BY MonitorAssumption DEF MonitorTypeOK, Kept, Recent
<1>2. all \in Seq(DaemonSnapshot) /\ Len(all) = b + 1 /\ all[b + 1] = s /\ \A i \in 1..b : all[i] = taken[i]
  BY <1>1
<1>3. CASE n >= MonitorCapacity /\ history # <<>>
  <2>1. n > 0 /\ n = Kept
    BY <1>1, <1>3, MonitorAssumption DEF Kept
  <2>2. /\ Tail(history) \in Seq(DaemonSnapshot) /\ Len(Tail(history)) = n - 1
        /\ \A i \in 1..(n - 1) : Tail(history)[i] = history[i + 1]
    BY <1>1, <1>3
  <2>3. h = Append(Tail(history), s)
    BY <1>3 DEF Pushed
  <2>4. Len(h) = n /\ h[n] = s /\ \A i \in 1..(n - 1) : h[i] = history[i + 1]
    BY <1>1, <2>1, <2>2, <2>3
  <2>5. \A i \in 1..(n - 1) : h[i] = taken[b - n + i + 1] /\ b - n + i + 1 \in 1..b
    <3> SUFFICES ASSUME NEW i \in 1..(n - 1)
                 PROVE  h[i] = taken[b - n + i + 1] /\ b - n + i + 1 \in 1..b
      OBVIOUS
    <3>1. i + 1 \in 1..n /\ b - n + (i + 1) = b - n + i + 1 /\ b - n + i + 1 \in 1..b
      BY <1>1
    <3>2. history[i + 1] = taken[b - n + (i + 1)]
      BY <3>1 DEF Recent
    <3> QED
      BY <2>4, <3>1, <3>2
  <2>6. \A i \in 1..n : h[i] = all[(b + 1) - n + i]
    <3> SUFFICES ASSUME NEW i \in 1..n PROVE h[i] = all[(b + 1) - n + i]
      OBVIOUS
    <3>1. CASE i = n
      BY <1>1, <1>2, <2>4, <3>1
    <3>2. CASE i # n
      <4>1. i \in 1..(n - 1) /\ (b + 1) - n + i = b - n + i + 1
        BY <1>1, <3>2
      <4> QED
        BY <1>2, <2>5, <4>1
    <3> QED
      BY <3>1, <3>2
  <2>7. Recent(h, all) /\ Len(h) = IF Len(all) < Kept THEN Len(all) ELSE Kept
    <3>1. \A i \in 1..Len(h) : h[i] = all[Len(all) - Len(h) + i]
      <4>1. 1..Len(h) = 1..n /\ Len(all) - Len(h) = (b + 1) - n
        BY <1>2, <2>4
      <4> HIDE DEF h, all, n, b
      <4> QED
        BY <2>6, <4>1
    <3> HIDE DEF h, all
    <3> QED
      BY <1>1, <1>2, <2>1, <2>4, <3>1 DEF Recent
  <2> QED
    BY <2>7
<1>4. CASE ~(n >= MonitorCapacity /\ history # <<>>)
  <2>1. h = Append(history, s)
    BY <1>4 DEF Pushed
  <2>2. n = b /\ n < Kept
    <3>1. history = <<>> => n = 0
      BY <1>1
    <3>2. n < Kept
      BY <1>1, <1>4, <3>1, MonitorAssumption DEF Kept
    <3> QED
      BY <1>1, <3>2
  <2>3. Len(h) = n + 1 /\ h[n + 1] = s /\ \A i \in 1..n : h[i] = history[i]
    BY <1>1, <2>1
  <2>4. \A i \in 1..n : history[i] = taken[i]
    <3> SUFFICES ASSUME NEW i \in 1..n PROVE history[i] = taken[i]
      OBVIOUS
    <3>1. history[i] = taken[b - n + i]
      BY DEF Recent
    <3>2. b - n + i = i
      BY <1>1, <2>2
    <3> QED
      BY <3>1, <3>2
  <2>5. \A i \in 1..(n + 1) : h[i] = all[i]
    BY <1>1, <1>2, <2>2, <2>3, <2>4
  <2>6. Recent(h, all) /\ Len(h) = IF Len(all) < Kept THEN Len(all) ELSE Kept
    <3> HIDE DEF h, all
    <3> QED
      BY <1>1, <1>2, <2>2, <2>3, <2>5 DEF Recent
  <2> QED
    BY <2>6
<1> QED
  BY <1>3, <1>4

LEMMA IncreasingFurther ==
    ASSUME NEW all \in Seq(DaemonSnapshot), Increasing(all), NEW s \in DaemonSnapshot,
           \A i \in DOMAIN all : all[i].timestamp < s.timestamp
    PROVE  /\ Increasing(Append(all, s))
           /\ \A i \in DOMAIN Append(all, s) :
                  (i \in DOMAIN all /\ Append(all, s)[i] = all[i]) \/ Append(all, s)[i] = s
<1>1. /\ Len(all) \in Nat /\ DOMAIN all = 1..Len(all) /\ DOMAIN Append(all, s) = 1..(Len(all) + 1)
      /\ Append(all, s)[Len(all) + 1] = s /\ \A i \in 1..Len(all) : Append(all, s)[i] = all[i]
  OBVIOUS
<1>2. \A i, j \in 1..(Len(all) + 1) : i < j => i \in 1..Len(all) /\ (j \in 1..Len(all) \/ j = Len(all) + 1)
  BY <1>1
<1>3. Increasing(Append(all, s))
  BY <1>1, <1>2 DEF Increasing
<1> QED
  BY <1>1, <1>3

LEMMA RecentStep ==
    ASSUME RecentInv, [MonitorNext]_monitorVars
    PROVE  RecentInv'
<1> USE DEF RecentInv
<1>0. MonitorTypeOK'
  BY MonitorTypeStep
<1>1. ASSUME NEW p \in Pids, Runs(p) \/ ExitsOrStarts(p) PROVE RecentInv'
  BY <1>0, <1>1 DEF Runs, ExitsOrStarts, Recent, Increasing
<1>2. ASSUME NEW p \in Pids, CollectStat(p) PROVE RecentInv'
  <2>1. collects \in Nat /\ collects' = collects + 1 /\ stat = None /\ UNCHANGED <<history, taken>>
    BY <1>2 DEF CollectStat, MonitorTypeOK
  <2>2. stat' = None \/ stat'.timestamp = collects
    BY <1>2, <2>1 DEF CollectStat
  <2>3. \A i \in DOMAIN taken : taken[i].timestamp \in Nat
    <3>1. taken \in Seq(DaemonSnapshot)
      BY DEF MonitorTypeOK
    <3> QED
      <4> SUFFICES ASSUME NEW i \in DOMAIN taken PROVE taken[i].timestamp \in Nat
        OBVIOUS
      <4>1. i \in 1..Len(taken)
        BY <3>1
      <4>2. taken[i] \in DaemonSnapshot
        BY <3>1, <4>1, ElementOfSeq
      <4> QED
        BY <4>2 DEF DaemonSnapshot
  <2> QED
    BY <1>0, <2>1, <2>2, <2>3 DEF Recent, Increasing
<1>3. CASE CollectStatm
  <2>1. stat \in DaemonSnapshot /\ stat # None /\ stat' = None /\ UNCHANGED collects
    BY <1>3, TypesOfStat DEF CollectStatm
  <2>2. CASE UNCHANGED <<history, taken>>
    BY <1>0, <2>1, <2>2 DEF Recent, Increasing
  <2>3. CASE history' = Pushed(history, stat) /\ taken' = Append(taken, stat)
    <3>1. taken \in Seq(DaemonSnapshot) /\ \A i \in DOMAIN taken : taken[i].timestamp < stat.timestamp
      BY <2>1 DEF MonitorTypeOK
    <3>2. Recent(history', taken') /\ Len(history') = IF Len(taken') < Kept THEN Len(taken') ELSE Kept
      BY <2>1, <2>3, PushKeeps
    <3>3. /\ Increasing(taken')
          /\ \A i \in DOMAIN taken' : (i \in DOMAIN taken /\ taken'[i] = taken[i]) \/ taken'[i] = stat
      BY <2>1, <2>3, <3>1, IncreasingFurther
    <3> QED
      BY <1>0, <2>1, <3>2, <3>3 DEF Recent, Increasing, Kept
  <2> QED
    BY <1>3, <2>2, <2>3 DEF CollectStatm
<1>4. CASE ClearHistory
  <2>1. history' = <<>> /\ taken' = <<>> /\ stat' = None
    BY <1>4 DEF ClearHistory
  <2>2. Kept \in Nat \ {0}
    BY MonitorAssumption DEF Kept
  <2> QED
    BY <1>0, <2>1, <2>2 DEF Recent, Increasing, Kept
<1>5. CASE UNCHANGED monitorVars
  BY <1>0, <1>5 DEF monitorVars, Recent, Increasing
<1> QED
  BY <1>1, <1>2, <1>3, <1>4, <1>5 DEF MonitorNext

LEMMA RecentInitially == MonitorInit => RecentInv
<1> SUFFICES ASSUME MonitorInit PROVE RecentInv
  OBVIOUS
<1>1. Kept \in Nat \ {0}
  BY MonitorAssumption DEF Kept
<1> QED
  BY <1>1 DEF MonitorInit, RecentInv, MonitorTypeOK, Recent, Increasing

LEMMA RecentHistory ==
    ASSUME RecentInv
    PROVE  HistoryIsRecent
<1>1. history \in Seq(DaemonSnapshot) /\ taken \in Seq(DaemonSnapshot) /\ Recent(history, taken)
  BY DEF RecentInv, MonitorTypeOK
<1>2. history = SubSeq(taken, Len(taken) - Len(history) + 1, Len(taken))
  BY <1>1, RecentIsSubSeq
<1>3. Increasing(history)
  <2>1. /\ Len(history) \in Nat /\ Len(taken) \in Nat /\ Len(history) <= Len(taken)
        /\ DOMAIN history = 1..Len(history) /\ DOMAIN taken = 1..Len(taken)
    BY <1>1 DEF Recent
  <2>2. ASSUME NEW i \in DOMAIN history, NEW j \in DOMAIN history, i < j
        PROVE  history[i].timestamp < history[j].timestamp
    <3> DEFINE d == Len(taken) - Len(history)
    <3>1. d + i \in DOMAIN taken /\ d + j \in DOMAIN taken /\ d + i < d + j
      BY <2>1, <2>2
    <3>2. history[i] = taken[d + i] /\ history[j] = taken[d + j]
      BY <1>1, <2>1 DEF Recent
    <3> HIDE DEF d
    <3> QED
      BY <3>1, <3>2 DEF RecentInv, Increasing
  <2> QED
    BY <2>2 DEF Increasing
<1>4. ASSUME NEW cutoff \in 0..collects PROVE IsSuffix(History(cutoff), taken)
  <2>1. cutoff \in Nat
    BY DEF RecentInv, MonitorTypeOK
  <2>2. History(cutoff) \in Seq(DaemonSnapshot) /\ Recent(History(cutoff), history)
    BY <1>1, <1>3, <2>1, HistoryIs, FilteredIsRecent
  <2>3. Recent(History(cutoff), taken)
    BY <1>1, <2>2, RecentOfRecent
  <2> QED
    BY <1>1, <2>2, <2>3, RecentIsSuffix
<1> QED
  BY <1>2, <1>4 DEF HistoryIsRecent, RecentInv

(***************************************************************************)
(* The ticks.  What a sample under way has counted, and what the next one  *)
(* would count, has been burnt too: a process that takes the pid begins    *)
(* below the previous measurement or stays within it.                      *)
(***************************************************************************)

LEMMA UsedTypes ==
    ASSUME NEW p \in Pids, taken \in Seq(DaemonSnapshot)
    PROVE  /\ IsFiniteSet(DOMAIN taken) /\ \A i \in DOMAIN taken : UsedIn(p, i) \in Nat
           /\ UsedBy(p) \in Int
<1> DEFINE f == [i \in DOMAIN taken |-> UsedIn(p, i)]
<1>1. DOMAIN taken = 1..Len(taken) /\ Len(taken) \in Nat
  OBVIOUS
<1>2. IsFiniteSet(DOMAIN taken)
  BY <1>1, FS_Interval
<1>3. \A i \in DOMAIN taken : taken[i] \in DaemonSnapshot
  BY <1>1, ElementOfSeq
<1>4. \A i \in DOMAIN taken : UsedIn(p, i) \in Nat
  BY <1>3 DEF UsedIn, DaemonSnapshot
<1>5. \A i \in DOMAIN taken : f[i] \in Int
  BY <1>4
<1>6. UsedBy(p) = SumFunctionOnSet(f, DOMAIN taken)
  BY DEF UsedBy
<1> HIDE DEF f
<1> QED
  BY <1>2, <1>4, <1>5, <1>6, SumIsInt

LEMMA UsedMore ==
    ASSUME NEW p \in Pids, taken \in Seq(DaemonSnapshot), stat \in DaemonSnapshot,
           taken' = Append(taken, stat)
    PROVE  UsedBy(p)' = UsedBy(p) + IF stat.pid = p THEN stat.used ELSE 0
<1> DEFINE D == DOMAIN taken
           E == DOMAIN taken'
           n == Len(taken) + 1
           f == [i \in D |-> UsedIn(p, i)]
           g == [i \in E |-> UsedIn(p, i)']
<1>1. /\ D = 1..Len(taken) /\ Len(taken) \in Nat /\ E = D \cup {n} /\ n \notin D
      /\ taken'[n] = stat /\ \A i \in D : taken'[i] = taken[i]
      /\ taken' \in Seq(DaemonSnapshot)
  OBVIOUS
<1>2. UsedBy(p) = SumFunctionOnSet(f, D) /\ UsedBy(p)' = SumFunctionOnSet(g, E)
  BY DEF UsedBy
<1>3. IsFiniteSet(D) /\ \A i \in D : f[i] \in Int
  BY UsedTypes
<1>4. \A i \in D : g[i] = f[i]
  BY <1>1 DEF UsedIn
<1>5. g[n] = IF stat.pid = p THEN stat.used ELSE 0
  BY <1>1 DEF UsedIn
<1>6. g[n] \in Int
  BY <1>5 DEF DaemonSnapshot
<1> HIDE DEF D, E, f, g, n
<1>7. SumFunctionOnSet(g, D) = SumFunctionOnSet(f, D)
  BY <1>3, <1>4, SumOfSame
<1>8. SumFunctionOnSet(g, D \cup {n}) = SumFunctionOnSet(g, D) + g[n]
  <2>1. \A x \in D \cup {n} : g[x] \in Int
    BY <1>3, <1>4, <1>6
  <2>2. n \notin D
    BY <1>1
  <2>3. IsFiniteSet(D)
    BY <1>3
  <2> QED
    BY ONLY <2>1, <2>2, <2>3, SumWithOneMore
<1> QED
  BY <1>1, <1>2, <1>5, <1>7, <1>8

Pending == IF stat = None THEN 0 ELSE stat.used

TicksInv(p) == MonitorTypeOK /\ UsedBy(p) + Pending + TicksUsed(prev_cpu, ticks[p]) <= burnt[p]

LEMMA TicksTypes ==
    ASSUME NEW p \in Pids, MonitorTypeOK
    PROVE  /\ UsedBy(p) \in Int /\ Pending \in Nat /\ TicksUsed(prev_cpu, ticks[p]) \in Nat
           /\ burnt[p] \in Nat /\ ticks[p] \in Nat \cup {Gone} /\ prev_cpu \in Nat \cup {Gone}
<1>1. taken \in Seq(DaemonSnapshot) /\ ticks[p] \in Nat \cup {Gone} /\ prev_cpu \in Nat \cup {Gone}
  BY DEF MonitorTypeOK
<1>2. Pending \in Nat
  BY TypesOfStat DEF Pending
<1> QED
  BY <1>1, <1>2, UsedTypes, TicksUsedType DEF MonitorTypeOK

LEMMA TicksStep ==
    ASSUME NEW p, Pids = {p}, TicksInv(p), [MonitorNext]_monitorVars
    PROVE  TicksInv(p)'
<1>0. MonitorTypeOK /\ MonitorTypeOK'
  BY MonitorTypeStep DEF TicksInv
<1>1. /\ p \in Pids /\ UsedBy(p) \in Int /\ Pending \in Nat /\ TicksUsed(prev_cpu, ticks[p]) \in Nat
      /\ burnt[p] \in Nat /\ ticks[p] \in Nat \cup {Gone} /\ prev_cpu \in Nat \cup {Gone}
      /\ UsedBy(p) + Pending + TicksUsed(prev_cpu, ticks[p]) <= burnt[p]
  BY <1>0, TicksTypes DEF TicksInv
<1>2. UNCHANGED taken => UsedBy(p)' = UsedBy(p)
  BY DEF UsedBy, UsedIn
<1>3. CASE Runs(p)
  <2>1. /\ ticks[p] # Gone /\ ticks'[p] = ticks[p] + 1 /\ burnt'[p] = burnt[p] + 1
        /\ UNCHANGED <<prev_cpu, stat, taken>>
    BY <1>0, <1>3 DEF Runs, MonitorTypeOK
  <2>2. TicksUsed(prev_cpu, ticks[p] + 1) <= TicksUsed(prev_cpu, ticks[p]) + 1
    BY <1>1, <2>1 DEF TicksUsed, Gone
  <2>3. ticks[p] + 1 \in Nat /\ TicksUsed(prev_cpu, ticks[p] + 1) \in Nat
    <3>1. ticks[p] + 1 \in Nat
      BY <1>1, <2>1
    <3> QED
      BY <1>1, <3>1, TicksUsedType
  <2>4. Pending' = Pending /\ TicksUsed(prev_cpu, ticks[p])' = TicksUsed(prev_cpu, ticks[p] + 1)
    BY <2>1 DEF Pending, TicksUsed
  <2> QED
    BY <1>0, <1>1, <1>2, <2>1, <2>2, <2>3, <2>4 DEF TicksInv
<1>4. CASE ExitsOrStarts(p)
  <2>1. ticks'[p] \in {0, Gone} /\ UNCHANGED <<burnt, prev_cpu, stat, taken>>
    BY <1>0, <1>4 DEF ExitsOrStarts, MonitorTypeOK
  <2>2. TicksUsed(prev_cpu, ticks[p])' = 0
    BY <1>1, <2>1 DEF TicksUsed, Gone
  <2>3. Pending' = Pending
    BY <2>1 DEF Pending
  <2> QED
    BY <1>0, <1>1, <1>2, <2>1, <2>2, <2>3 DEF TicksInv
<1>5. CASE CollectStat(p)
  <2>1. CASE ticks[p] = Gone
    <3>1. UNCHANGED <<ticks, burnt, prev_cpu, stat, taken>>
      BY <1>5, <2>1 DEF CollectStat, ParseProcStat
    <3> QED
      BY <1>0, <1>1, <1>2, <3>1 DEF TicksInv, Pending, TicksUsed
  <2>2. CASE ticks[p] # Gone
    <3>1. PICK used \in {0, TicksUsed(prev_cpu, ticks[p])} :
              stat' = [pid |-> p, timestamp |-> collects, used |-> used] /\ prev_cpu' = ticks[p]
      BY <1>5, <2>2 DEF CollectStat, ParseProcStat
    <3>2. stat = None /\ UNCHANGED <<ticks, burnt, taken>>
      BY <1>5 DEF CollectStat
    <3>3. Pending = 0 /\ Pending' \in {0, used}
      BY <3>1, <3>2 DEF Pending
    <3>4. TicksUsed(prev_cpu, ticks[p])' = 0
      BY <1>1, <3>1, <3>2 DEF TicksUsed
    <3> QED
      BY <1>0, <1>1, <1>2, <3>1, <3>2, <3>3, <3>4 DEF TicksInv
  <2> QED
    BY <2>1, <2>2
<1>6. CASE CollectStatm
  <2>1. /\ stat # None /\ stat' = None /\ UNCHANGED <<ticks, burnt, prev_cpu>>
        /\ stat \in DaemonSnapshot /\ stat.pid = p
    BY <1>0, <1>6, TypesOfStat DEF CollectStatm
  <2>2. Pending' = 0 /\ Pending = stat.used
    BY <2>1 DEF Pending
  <2>3. TicksUsed(prev_cpu, ticks[p])' = TicksUsed(prev_cpu, ticks[p])
    BY <2>1 DEF TicksUsed
  <2>4. CASE UNCHANGED taken
    BY <1>0, <1>1, <1>2, <2>1, <2>2, <2>3, <2>4 DEF TicksInv
  <2>5. CASE taken' = Append(taken, stat)
    <3>1. UsedBy(p)' = UsedBy(p) + stat.used
      BY <1>0, <1>1, <2>1, <2>5, UsedMore DEF MonitorTypeOK
    <3> QED
      BY <1>0, <1>1, <2>1, <2>2, <2>3, <3>1 DEF TicksInv
  <2> QED
    BY <1>6, <2>4, <2>5 DEF CollectStatm
<1>7. CASE ClearHistory
  <2>1. taken' = <<>> /\ stat' = None /\ prev_cpu' = Gone /\ UNCHANGED <<ticks, burnt>>
    BY <1>7 DEF ClearHistory
  <2>2. DOMAIN taken' = {}
    BY <2>1
  <2>3. UsedBy(p)' = 0
    BY <2>2, SumOfNone DEF UsedBy
  <2>4. Pending' = 0 /\ TicksUsed(prev_cpu, ticks[p])' = 0
    BY <2>1 DEF Pending, TicksUsed
  <2> QED
    BY <1>0, <1>1, <2>1, <2>3, <2>4 DEF TicksInv
<1>8. CASE UNCHANGED monitorVars
  BY <1>0, <1>1, <1>2, <1>8 DEF monitorVars, TicksInv, Pending, TicksUsed
<1> QED
  BY <1>1, <1>3, <1>4, <1>5, <1>6, <1>7, <1>8 DEF MonitorNext

LEMMA TicksInitially == ASSUME NEW p, Pids = {p} PROVE MonitorInit => TicksInv(p)
<1> SUFFICES ASSUME MonitorInit PROVE TicksInv(p)
  OBVIOUS
<1>1. DOMAIN taken = {} /\ stat = None /\ prev_cpu = Gone /\ burnt[p] = 0
  BY DEF MonitorInit
<1>2. UsedBy(p) = 0
  BY <1>1, SumOfNone DEF UsedBy
<1>3. MonitorTypeOK
  BY RecentInitially DEF RecentInv
<1> QED
  BY <1>1, <1>2, <1>3 DEF TicksInv, Pending, TicksUsed

(* DaemonMonitor (monitor.rs l.105-150): of the one process a monitor       *)
(* samples, whatever its capacity and however often it ends or starts, no   *)
(* sample is lost or repeated and no tick counted twice.                    *)
THEOREM SamplesAreAlwaysTrue ==
    ASSUME NEW p, Pids = {p}
    PROVE  MonitorSpec => []SamplesAreTrue
<1>1. RecentInv /\ TicksInv(p) /\ [MonitorNext]_monitorVars => RecentInv' /\ TicksInv(p)'
  BY RecentStep, TicksStep
<1>2. MonitorInit => RecentInv /\ TicksInv(p)
  BY RecentInitially, TicksInitially
<1>3. RecentInv /\ TicksInv(p) => SamplesAreTrue
  <2> SUFFICES ASSUME RecentInv, TicksInv(p) PROVE SamplesAreTrue
    OBVIOUS
  <2>1. UsedBy(p) <= burnt[p]
    BY TicksTypes DEF TicksInv
  <2> QED
    BY <2>1, RecentHistory DEF SamplesAreTrue, TicksCountedOnce
<1> QED
  BY <1>1, <1>2, <1>3, PTL DEF MonitorSpec

(* The history alone is true of any number of processes.                    *)
THEOREM HistoryIsAlwaysRecent == MonitorSpec => []HistoryIsRecent
<1>1. RecentInv /\ [MonitorNext]_monitorVars => RecentInv'
  BY RecentStep
<1>2. RecentInv => HistoryIsRecent
  BY RecentHistory
<1> QED
  BY <1>1, <1>2, RecentInitially, PTL DEF MonitorSpec

-----------------------------------------------------------------------------
(***************************************************************************)
(* The tracer: its counts are of the attached pid, and what it calls an    *)
(* anomaly is one whatever the counts.  Of N calls, n that are together as *)
(* far above the mean as n times the threshold A leave n A^2 others at     *)
(* least, by Cauchy's inequality for the n and for the rest: that is more  *)
(* than A^2 calls for one anomaly, and 6 (A^2 + 1) for a spike that is     *)
(* less frequent than five others.                                         *)
(***************************************************************************)

Squares(counts) == [s \in Syscalls |-> Square(counts[s])]

LEMMA SumsOfGroup ==
    ASSUME NEW counts \in [Syscalls -> Nat], NEW G \in SUBSET Kinds(counts),
           NEW K, K = Kinds(counts)
    PROVE  /\ IsFiniteSet(G) /\ IsFiniteSet(K \ G) /\ IsFiniteSet(K)
           /\ Cardinality(G) \in Nat /\ Cardinality(K \ G) \in Nat
           /\ Cardinality(K) = Cardinality(G) + Cardinality(K \ G)
           /\ CallsIn(counts, G) \in Int /\ CallsIn(counts, K \ G) \in Int
           /\ CallsIn(Squares(counts), G) \in Int /\ CallsIn(Squares(counts), K \ G) \in Int
           /\ Total(counts) = CallsIn(counts, G) + CallsIn(counts, K \ G)
           /\ CallsIn(Squares(counts), Syscalls)
                  = CallsIn(Squares(counts), G) + CallsIn(Squares(counts), K \ G)
<1>1. IsFiniteSet(Syscalls) /\ G \subseteq K /\ K \subseteq Syscalls
  BY TracerAssumption DEF Kinds
<1>2. /\ IsFiniteSet(G) /\ IsFiniteSet(K \ G) /\ IsFiniteSet(K) /\ IsFiniteSet(Syscalls \ K)
      /\ Cardinality(G) \in Nat /\ Cardinality(K \ G) \in Nat
  BY <1>1, FS_Subset, FS_CardinalityType
<1>3. Cardinality(K) = Cardinality(G) + Cardinality(K \ G)
  <2>1. G \cap (K \ G) = {} /\ G \cup (K \ G) = K
    BY <1>1
  <2>2. Cardinality(G \cup (K \ G))
          = Cardinality(G) + Cardinality(K \ G) - Cardinality(G \cap (K \ G))
    BY <1>2, FS_Union
  <2>3. Cardinality(G \cap (K \ G)) = 0
    BY <2>1, FS_EmptySet
  <2>4. Cardinality(G \cup (K \ G)) = Cardinality(K)
    BY <2>1
  <2> QED
    BY <1>2, <2>2, <2>3, <2>4
<1>4. ASSUME NEW f, \A s \in Syscalls : f[s] \in Int, \A s \in Syscalls \ K : f[s] = 0
      PROVE  /\ SumFunctionOnSet(f, G) \in Int /\ SumFunctionOnSet(f, K \ G) \in Int
             /\ SumFunctionOnSet(f, Syscalls) = SumFunctionOnSet(f, G) + SumFunctionOnSet(f, K \ G)
  <2>1. G \cap (K \ G) = {} /\ G \cup (K \ G) = K
    BY <1>1
  <2>2. K \cap (Syscalls \ K) = {} /\ K \cup (Syscalls \ K) = Syscalls
    BY <1>1
  <2>3. \A s \in G \cup (K \ G) : f[s] \in Int
    BY <1>1, <1>4
  <2>4. SumFunctionOnSet(f, G \cup (K \ G)) = SumFunctionOnSet(f, G) + SumFunctionOnSet(f, K \ G)
    BY <1>2, <2>1, <2>3, SumOfUnion
  <2>5. SumFunctionOnSet(f, K \cup (Syscalls \ K))
          = SumFunctionOnSet(f, K) + SumFunctionOnSet(f, Syscalls \ K)
    <3>1. \A s \in K \cup (Syscalls \ K) : f[s] \in Int
      BY <1>1, <1>4
    <3> QED
      BY <1>2, <2>2, <3>1, SumOfUnion
  <2>6. SumFunctionOnSet(f, Syscalls \ K) = 0
    BY <1>2, <1>4, SumOfZeros
  <2>7. /\ SumFunctionOnSet(f, G) \in Int /\ SumFunctionOnSet(f, K \ G) \in Int
        /\ SumFunctionOnSet(f, K) \in Int
    BY <1>1, <1>2, <1>4, SumIsInt
  <2>8. SumFunctionOnSet(f, G \cup (K \ G)) = SumFunctionOnSet(f, K)
    BY <2>1
  <2>9. SumFunctionOnSet(f, K \cup (Syscalls \ K)) = SumFunctionOnSet(f, Syscalls)
    BY <2>2
  <2> QED
    BY <2>4, <2>5, <2>6, <2>7, <2>8, <2>9
<1>5. \A s \in Syscalls : counts[s] \in Int
  OBVIOUS
<1>6. \A s \in Syscalls \ K : counts[s] = 0
  BY DEF Kinds
<1>7. \A s \in Syscalls : Squares(counts)[s] \in Int
  BY DEF Squares, Square
<1>8. \A s \in Syscalls \ K : Squares(counts)[s] = 0
  BY <1>6 DEF Squares, Square
<1>9. /\ CallsIn(counts, G) \in Int /\ CallsIn(counts, K \ G) \in Int
      /\ CallsIn(counts, Syscalls) = CallsIn(counts, G) + CallsIn(counts, K \ G)
  BY <1>4, <1>5, <1>6 DEF CallsIn
<1>10. /\ CallsIn(Squares(counts), G) \in Int /\ CallsIn(Squares(counts), K \ G) \in Int
       /\ CallsIn(Squares(counts), Syscalls)
              = CallsIn(Squares(counts), G) + CallsIn(Squares(counts), K \ G)
  BY <1>4, <1>7, <1>8 DEF CallsIn
<1> QED
  BY <1>2, <1>3, <1>9, <1>10 DEF Total

LEMMA GroupIdentity ==
    ASSUME NEW n \in Int, NEW m \in Int, NEW a \in Int, NEW b \in Int, NEW p \in Int, NEW q \in Int
    PROVE  (n * m) * ((n + m) * (p + q) - (a + b) * (a + b))
               - ((n + m) * a - n * (a + b)) * ((n + m) * a - n * (a + b))
             = (n + m) * (m * (n * p - a * a) + n * (m * q - b * b))
OBVIOUS

LEMMA NotNegative == ASSUME NEW x \in Int, NEW y \in Int, 0 <= x, 0 <= y PROVE x * y \in Int /\ 0 <= x * y
OBVIOUS

(* A group of the calls counted is not further from the mean, all of its    *)
(* calls taken together, than the spread allows to so many of them.         *)
LEMMA GroupsAreNear ==
    ASSUME NEW counts \in [Syscalls -> Nat], NEW G \in SUBSET Kinds(counts),
           NEW N, N = Cardinality(Kinds(counts)), NEW n, n = Cardinality(G),
           NEW far, far = N * CallsIn(counts, G) - n * Total(counts)
    PROVE  /\ N \in Nat /\ n \in Nat /\ n <= N /\ far \in Int /\ Spread(counts) \in Int
           /\ Square(far) <= (n * (N - n)) * Spread(counts)
<1> DEFINE K == Kinds(counts)
           m == Cardinality(K \ G)
           a == CallsIn(counts, G)
           b == CallsIn(counts, K \ G)
           p == CallsIn(Squares(counts), G)
           q == CallsIn(Squares(counts), K \ G)
<1>1. /\ n \in Nat /\ m \in Nat /\ N = n + m
      /\ a \in Int /\ b \in Int /\ p \in Int /\ q \in Int
      /\ Total(counts) = a + b /\ CallsIn(Squares(counts), Syscalls) = p + q
  BY SumsOfGroup
<1>2. Spread(counts) = (n + m) * (p + q) - (a + b) * (a + b)
  BY <1>1 DEF Spread, Square, Squares, CallsIn
<1>3. far = (n + m) * a - n * (a + b)
  BY <1>1
<1>4. a * a <= n * p /\ b * b <= m * q
  <2>1. IsFiniteSet(G) /\ IsFiniteSet(K \ G)
    BY SumsOfGroup
  <2>2. SquaresOf(counts, Squares(counts), G) /\ SquaresOf(counts, Squares(counts), K \ G)
    BY DEF SquaresOf, Squares, Square, Kinds
  <2> QED
    BY <2>1, <2>2, SquareOfSum DEF CallsIn
<1> HIDE DEF K, m, a, b, p, q
<1>5. 0 <= (n + m) * (m * (n * p - a * a) + n * (m * q - b * b))
  <2>1. n * p - a * a \in Int /\ 0 <= n * p - a * a /\ m * q - b * b \in Int /\ 0 <= m * q - b * b
    BY <1>1, <1>4
  <2> DEFINE u == m * (n * p - a * a)
             v == n * (m * q - b * b)
  <2>2. u \in Int /\ 0 <= u /\ v \in Int /\ 0 <= v
    BY <1>1, <2>1, NotNegative
  <2> HIDE DEF u, v
  <2>3. u + v \in Int /\ 0 <= u + v /\ n + m \in Int /\ 0 <= n + m
    BY <1>1, <2>2
  <2>4. 0 <= (n + m) * (u + v)
    BY <2>3, NotNegative
  <2> QED
    BY <2>4 DEF u, v
<1>6. far \in Int /\ Spread(counts) \in Int
  BY <1>1, <1>2, <1>3
<1>7. 0 <= (n * m) * Spread(counts) - far * far
  <2>1. (n * m) * Spread(counts) - far * far
          = (n + m) * (m * (n * p - a * a) + n * (m * q - b * b))
    BY <1>1, <1>2, <1>3, GroupIdentity
  <2> QED
    BY <1>5, <2>1
<1>8. N - n = m /\ N \in Nat /\ n <= N
  BY <1>1
<1>9. far * far \in Int /\ (n * m) * Spread(counts) \in Int
  BY <1>1, <1>6
<1>10. far * far <= (n * m) * Spread(counts)
  BY <1>7, <1>9
<1> QED
  BY <1>1, <1>6, <1>8, <1>10 DEF Square

(* The spread is not negative.                                              *)
LEMMA SpreadIsPositive == ASSUME NEW counts \in [Syscalls -> Nat] PROVE 0 <= Spread(counts)
<1> DEFINE K == Kinds(counts)
           N == Cardinality(K)
           a == CallsIn(counts, K)
           p == CallsIn(Squares(counts), K)
<1>1. /\ IsFiniteSet(K) /\ N \in Nat /\ a \in Int /\ p \in Int
      /\ Total(counts) = a /\ CallsIn(Squares(counts), Syscalls) = p
  <2>1. K \ K = {} /\ CallsIn(counts, {}) = 0 /\ CallsIn(Squares(counts), {}) = 0
    BY SumOfNone DEF CallsIn
  <2>2. /\ IsFiniteSet(K) /\ N \in Nat /\ a \in Int /\ p \in Int
        /\ Total(counts) = a + CallsIn(counts, K \ K)
        /\ CallsIn(Squares(counts), Syscalls) = p + CallsIn(Squares(counts), K \ K)
    BY SumsOfGroup
  <2> HIDE DEF K, a, p
  <2> QED
    BY <2>1, <2>2
<1>2. a * a <= N * p
  <2>1. SquaresOf(counts, Squares(counts), K)
    BY DEF SquaresOf, Squares, Square, Kinds
  <2> QED
    BY <1>1, <2>1, SquareOfSum DEF CallsIn
<1>3. Spread(counts) = N * p - a * a
  BY <1>1 DEF Spread, Square, Squares, CallsIn
<1> HIDE DEF K, N, a, p
<1>4. N * p \in Int /\ a * a \in Int
  BY <1>1
<1> QED
  BY <1>2, <1>3, <1>4

(* An anomaly scores at least the threshold.                                *)
LEMMA AnomalyIsFar ==
    ASSUME NEW counts, NEW samples, NEW s, NEW a \in Anomalies(counts, samples, s), a # "none"
    PROVE  /\ Spread(counts) # 0
           /\ ~(Square(Deviation(counts, s)) < Square(AnomalyThreshold) * Spread(counts))
           /\ a = "LatencySpike" => Deviation(counts, s) > 0
<1> DEFINE far == Square(Deviation(counts, s))
           bar == Square(AnomalyThreshold) * Spread(counts)
           is  == IF Deviation(counts, s) > 0 THEN "LatencySpike" ELSE "ResourceExhaustion"
<1>1. a \in IF samples < MinSamples \/ Spread(counts) = 0 \/ far < bar THEN {"none"}
            ELSE IF far > bar THEN {is} ELSE {"none", is}
  BY DEF Anomalies
<1> HIDE DEF far, bar
<1>2. ~(samples < MinSamples \/ Spread(counts) = 0 \/ far < bar) /\ a = is
  BY <1>1
<1>3. a = "LatencySpike" => Deviation(counts, s) > 0
  BY <1>2
<1> QED
  BY <1>2, <1>3 DEF far, bar

LEMMA ProductsAreOrdered ==
    ASSUME NEW x \in Int, NEW y \in Int, NEW z \in Int, 0 < z, x * z <= y * z
    PROVE  x <= y
<1>1. ASSUME y < x PROVE FALSE
  <2>1. x - y \in Int /\ 0 < x - y
    BY <1>1
  <2>2. 0 < (x - y) * z
    BY <2>1
  <2>3. (x - y) * z = x * z - y * z
    OBVIOUS
  <2>4. x * z \in Int /\ y * z \in Int
    OBVIOUS
  <2> QED
    BY <2>2, <2>3, <2>4
<1> QED
  BY <1>1

(* A group as far from the mean as the threshold, for each of its calls, is *)
(* one of a spread that is not 0 and of that many times more calls.         *)
LEMMA FarGroupsAreFew ==
    ASSUME NEW counts \in [Syscalls -> Nat], NEW G \in SUBSET Kinds(counts), G # {},
           NEW N, N = Cardinality(Kinds(counts)), NEW n, n = Cardinality(G),
           NEW dev \in Int, NEW A \in Nat, Spread(counts) # 0,
           ~(Square(dev) < Square(A) * Spread(counts)),
           NEW far, far = N * CallsIn(counts, G) - n * Total(counts),
           Square(n * dev) <= Square(far)
    PROVE  n \in Nat /\ N \in Nat /\ n * (Square(A) + 1) <= N
<1> DEFINE S == Spread(counts)
           d == Square(dev)
           c == Square(A)
<1>1. /\ N \in Nat /\ n \in Nat /\ n <= N /\ far \in Int /\ S \in Int
      /\ Square(far) <= (n * (N - n)) * S
  BY GroupsAreNear
<1>2. n # 0
  <2>1. IsFiniteSet(G)
    BY TracerAssumption, FS_Subset DEF Kinds
  <2> QED
    BY <2>1, FS_EmptySet
<1>3. d \in Int /\ 0 <= d /\ c \in Int /\ 0 <= c
  <2>1. \A x \in Int : x * x \in Int /\ 0 <= x * x
    OBVIOUS
  <2> QED
    BY <2>1 DEF Square
<1>4. Square(n * dev) = n * (n * d)
  <2>1. \A x, y \in Int : (x * y) * (x * y) = x * (x * (y * y))
    OBVIOUS
  <2> QED
    BY <1>1, <2>1 DEF Square
<1>5. S # 0 /\ c * S <= d
  BY <1>1, <1>3
<1> HIDE DEF S, d, c
<1>6. n * d <= (N - n) * S
  <2>1. Square(far) \in Int
    BY <1>1 DEF Square
  <2>2. n * (n * d) <= (n * (N - n)) * S
    <3>1. n * (n * d) \in Int /\ (n * (N - n)) * S \in Int
      BY <1>1, <1>3
    <3> QED
      BY <1>1, <1>4, <2>1, <3>1
  <2>3. n * (n * d) = (n * d) * n /\ (n * (N - n)) * S = ((N - n) * S) * n
    BY <1>1, <1>3
  <2>4. n * d \in Int /\ (N - n) * S \in Int /\ n \in Int /\ 0 < n
    BY <1>1, <1>2, <1>3
  <2> QED
    BY <2>2, <2>3, <2>4, ProductsAreOrdered
<1>7. 0 < S
  <2>1. 0 <= S
    BY SpreadIsPositive DEF S
  <2> QED
    BY <1>1, <1>5, <2>1
<1>8. n * c <= N - n
  <2>1. (n * c) * S <= (N - n) * S
    <3>1. n * (c * S) <= n * d
      <4>1. 0 <= n * (d - c * S)
        <5>1. d - c * S \in Int /\ 0 <= d - c * S /\ n \in Int /\ 0 <= n
          BY <1>1, <1>3, <1>5
        <5> QED
          BY <5>1, NotNegative
      <4>2. n * (d - c * S) = n * d - n * (c * S) /\ n * d \in Int /\ n * (c * S) \in Int
        BY <1>1, <1>3
      <4> QED
        BY <4>1, <4>2
    <3>2. n * (c * S) = (n * c) * S /\ n * (c * S) \in Int /\ n * d \in Int /\ (N - n) * S \in Int
      BY <1>1, <1>3
    <3> QED
      BY <1>6, <3>1, <3>2
  <2>2. n * c \in Int /\ N - n \in Int
    BY <1>1, <1>3
  <2> QED
    BY <1>1, <1>7, <2>1, <2>2, ProductsAreOrdered
<1>9. n * (c + 1) = n * c + n /\ n * c \in Int
  BY <1>1, <1>3
<1>10. n * (c + 1) <= N
  BY <1>1, <1>8, <1>9
<1> QED
  BY <1>1, <1>10 DEF c

LEMMA AnomaliesAreFew ==
    ASSUME NEW counts \in [Syscalls -> Nat], NEW samples, NEW s \in Kinds(counts),
           NEW a \in Anomalies(counts, samples, s), a # "none"
    PROVE  Cardinality(Kinds(counts)) > Square(AnomalyThreshold)
<1> DEFINE N == Cardinality(Kinds(counts))
           dev == Deviation(counts, s)
           far == N * CallsIn(counts, {s}) - 1 * Total(counts)
<1>1. CallsIn(counts, {s}) = counts[s] /\ counts[s] \in Nat /\ IsFiniteSet({s}) /\ Cardinality({s}) = 1
  <2>1. {} \cup {s} = {s} /\ s \in Syscalls /\ IsFiniteSet({}) /\ Cardinality({s}) = 1 /\ IsFiniteSet({s})
    BY FS_EmptySet, FS_Singleton DEF Kinds
  <2>2. SumFunctionOnSet(counts, {} \cup {s}) = SumFunctionOnSet(counts, {}) + counts[s]
    BY <2>1, SumWithOneMore
  <2> QED
    BY <2>1, <2>2, SumOfNone DEF CallsIn
<1>2. {s} \in SUBSET Kinds(counts) /\ {s} # {}
  OBVIOUS
<1>3. N \in Nat /\ Total(counts) \in Int
  <2>1. far \in Int /\ N \in Nat
    BY <1>1, <1>2, GroupsAreNear
  <2>2. IsFiniteSet(Syscalls)
    BY TracerAssumption
  <2>3. Total(counts) \in Int
    BY <2>2, SumIsInt DEF Total, CallsIn
  <2> QED
    BY <2>1, <2>3
<1>4. far = dev /\ dev \in Int /\ 1 * dev = dev
  BY <1>1, <1>3 DEF Deviation
<1>5. Square(AnomalyThreshold) \in Int /\ AnomalyThreshold \in Nat
  BY TracerAssumption DEF Square
<1>6. /\ Spread(counts) # 0
      /\ ~(Square(dev) < Square(AnomalyThreshold) * Spread(counts))
  BY AnomalyIsFar
<1>7. Square(1 * dev) <= Square(far)
  <2>1. Square(dev) \in Int
    BY <1>4 DEF Square
  <2> HIDE DEF dev, far
  <2> QED
    BY <1>4, <2>1
<1> HIDE DEF N, dev
<1>8. 1 * (Square(AnomalyThreshold) + 1) <= N
  BY <1>1, <1>2, <1>4, <1>5, <1>6, <1>7, FarGroupsAreFew DEF N
<1>9. N > Square(AnomalyThreshold)
  BY <1>3, <1>5, <1>8
<1> QED
  BY <1>9 DEF N

(* A spike that is not among the five most frequent calls is less frequent  *)
(* than all five, so that the six of them are far from the mean.            *)
LEMMA SpikesAreOnThePath ==
    ASSUME NEW counts \in [Syscalls -> Nat], NEW samples, NEW s \in Kinds(counts),
           "LatencySpike" \in Anomalies(counts, samples, s),
           NEW path \in CriticalPaths(counts), s \notin path
    PROVE  Cardinality(Kinds(counts)) >= 6 * (Square(AnomalyThreshold) + 1)
<1> DEFINE K == Kinds(counts)
           N == Cardinality(K)
           G == path \cup {s}
           dev == Deviation(counts, s)
           sum == CallsIn(counts, G)
           far == N * sum - 6 * Total(counts)
<1>1. /\ path \in SUBSET K /\ G \in SUBSET K /\ G # {} /\ s \in K /\ K \subseteq Syscalls
      /\ IsFiniteSet(K) /\ IsFiniteSet(path) /\ IsFiniteSet(G)
  <2>1. path \in SUBSET K /\ G \in SUBSET K /\ G # {} /\ s \in K /\ K \subseteq Syscalls
    BY DEF CriticalPaths, Kinds
  <2> HIDE DEF K, G
  <2> QED
    BY <2>1, TracerAssumption, FS_Subset
<1>2. N \in Nat /\ Cardinality(path) \in Nat
  BY <1>1, FS_CardinalityType
<1>3. Cardinality(path) = 5
  <2>1. Cardinality(path) = IF N < 5 THEN N ELSE 5
    BY DEF CriticalPaths
  <2>2. Cardinality(path) # N
    BY <1>1, FS_Subset
  <2> HIDE DEF N
  <2> QED
    BY <2>1, <2>2
<1>4. Cardinality(G) = 6
  <2>1. Cardinality(G) = Cardinality(path) + 1
    BY <1>1, FS_AddElement
  <2> QED
    BY <1>3, <2>1
<1>5. \A r \in G : counts[r] \in Int /\ counts[s] <= counts[r]
  <2>1. \A r \in K : counts[r] \in Nat
    BY <1>1
  <2>2. \A r \in path : counts[r] >= counts[s]
    BY <1>1 DEF CriticalPaths
  <2> HIDE DEF K
  <2> QED
    BY <1>1, <2>1, <2>2
<1>6. 6 * counts[s] <= sum /\ sum \in Int /\ counts[s] \in Nat
  <2>1. counts[s] \in Nat
    BY <1>1
  <2>2. Cardinality(G) * counts[s] <= SumFunctionOnSet(counts, G)
    BY <1>1, <1>5, <2>1, SumIsAtLeast
  <2>3. SumFunctionOnSet(counts, G) \in Int
    BY <1>1, <1>5, SumIsInt
  <2> QED
    BY <1>4, <2>1, <2>2, <2>3 DEF CallsIn
<1>7. Total(counts) \in Int
  BY TracerAssumption, SumIsInt DEF Total, CallsIn
<1>8. dev = N * counts[s] - Total(counts) /\ dev \in Int
  BY <1>2, <1>6, <1>7 DEF Deviation
<1>9. /\ Spread(counts) # 0 /\ dev > 0
      /\ ~(Square(dev) < Square(AnomalyThreshold) * Spread(counts))
  BY AnomalyIsFar
<1>10. Square(AnomalyThreshold) \in Int /\ AnomalyThreshold \in Nat
  BY TracerAssumption DEF Square
<1> HIDE DEF N, dev, sum, G, K
<1>11. 6 * dev <= far /\ far \in Int
  <2>1. 0 <= N * (sum - 6 * counts[s])
    <3>1. sum - 6 * counts[s] \in Int /\ 0 <= sum - 6 * counts[s] /\ N \in Int /\ 0 <= N
      BY <1>2, <1>6
    <3> QED
      BY <3>1, NotNegative
  <2>2. N * (sum - 6 * counts[s]) = far - 6 * dev
    BY <1>2, <1>6, <1>7, <1>8
  <2>3. far \in Int /\ 6 * dev \in Int
    BY <1>2, <1>6, <1>7, <1>8
  <2> QED
    BY <2>1, <2>2, <2>3
<1>12. Square(6 * dev) <= Square(far)
  <2>1. \A x, y \in Int : 0 < x /\ x <= y => x * x <= y * y
    <3> SUFFICES ASSUME NEW x \in Int, NEW y \in Int, 0 < x, x <= y PROVE x * x <= y * y
      OBVIOUS
    <3>1. 0 <= (y - x) * (y + x)
      BY NotNegative
    <3>2. (y - x) * (y + x) = y * y - x * x /\ x * x \in Int /\ y * y \in Int
      OBVIOUS
    <3> QED
      BY <3>1, <3>2
  <2>2. 6 * dev \in Int /\ 0 < 6 * dev
    BY <1>8, <1>9
  <2> HIDE DEF far
  <2> QED
    BY <1>11, <2>1, <2>2 DEF Square
<1>13. 6 * (Square(AnomalyThreshold) + 1) <= N
  BY <1>1, <1>4, <1>8, <1>9, <1>10, <1>12, FarGroupsAreFew DEF N, K, sum
<1>14. N >= 6 * (Square(AnomalyThreshold) + 1)
  BY <1>2, <1>10, <1>13
<1> QED
  BY <1>14 DEF N, K

-----------------------------------------------------------------------------
(* The inductive invariant: the types, and what the report of the counts    *)
(* there are now says of them.                                              *)
TracerInv == TracerTypeOK /\ ReportsAreFounded

LEMMA TracerInitially == TracerInit => TracerInv
<1> SUFFICES ASSUME TracerInit PROVE TracerInv
  OBVIOUS
<1>1. Total(syscall_counts) = 0
  <2>1. \A s \in Syscalls : syscall_counts[s] = 0
    BY DEF TracerInit
  <2> QED
    BY <2>1, TracerAssumption, SumOfZeros DEF Total, CallsIn
<1>2. TracerTypeOK
  BY TracerAssumption DEF TracerInit, TracerTypeOK, NoReport, Report
<1> QED
  BY <1>1, <1>2 DEF TracerInit, TracerInv, ReportsAreFounded, CountsAreOfAttached,
                    AnomaliesAreOutliers, NoReport

LEMMA ClearedIsFounded ==
    ASSUME TracerInv, Cleared, attached_pid' \in TracedPids \cup {Detached},
           process' \in [TracedPids -> 0..MaxProcesses]
    PROVE  TracerInv'
<1>1. Total(syscall_counts)' = 0
  <2>1. \A s \in Syscalls : syscall_counts'[s] = 0
    BY DEF Cleared
  <2> QED
    BY <2>1, TracerAssumption, SumOfZeros DEF Total, CallsIn
<1>2. TracerTypeOK'
  BY DEF Cleared, TracerTypeOK, NoReport, Report
<1>3. CountsAreOfAttached'
  BY <1>1 DEF Cleared, CountsAreOfAttached
<1>4. AnomaliesAreOutliers'
  BY DEF Cleared, AnomaliesAreOutliers, NoReport
<1> QED
  BY <1>2, <1>3, <1>4 DEF TracerInv, ReportsAreFounded

LEMMA CollectIsFounded ==
    ASSUME TracerInv, NEW s \in Syscalls, Collect(s) PROVE TracerInv'
<1>1. /\ syscall_counts \in [Syscalls -> Nat] /\ sample_count \in Nat /\ TracerTypeOK
      /\ CountsAreOfAttached
  BY DEF TracerInv, TracerTypeOK, ReportsAreFounded
<1>2. /\ syscall_counts' \in [Syscalls -> Nat] /\ sample_count' \in Nat
      /\ syscall_counts'[s] = syscall_counts[s] + 1
      /\ \A r \in Syscalls \ {s} : syscall_counts'[r] = syscall_counts[r]
      /\ sample_count' = sample_count + 1
  BY <1>1 DEF Collect
<1>3. Total(syscall_counts)' = Total(syscall_counts) + 1
  <2>1. SumFunctionOnSet(syscall_counts', Syscalls)
          = SumFunctionOnSet(syscall_counts, Syscalls) + (syscall_counts'[s] - syscall_counts[s])
    BY <1>1, <1>2, TracerAssumption, SumWithOneChanged
  <2>2. syscall_counts'[s] - syscall_counts[s] = 1
    BY <1>1, <1>2
  <2> QED
    BY <2>1, <2>2 DEF Total, CallsIn
<1>4. CountsAreOfAttached'
  <2>1. Total(syscall_counts)' = sample_count'
    BY <1>1, <1>2, <1>3 DEF CountsAreOfAttached
  <2>2. /\ sources' = sources \cup {<<attached_pid, process[attached_pid]>>}
        /\ attached_pid' = attached_pid
    BY DEF Collect
  <2>3. \A source \in sources' : source[1] = attached_pid'
    <3>1. \A source \in sources : source[1] = attached_pid
      BY <1>1 DEF CountsAreOfAttached
    <3>2. <<attached_pid, process[attached_pid]>>[1] = attached_pid
      OBVIOUS
    <3> QED
      BY <2>2, <3>1, <3>2
  <2> QED
    BY <2>1, <2>2, <2>3 DEF CountsAreOfAttached
<1>5. s \in Kinds(syscall_counts')
  BY <1>1, <1>2 DEF Kinds
<1>6. PICK a \in Anomalies(syscall_counts', sample_count', s), path \in CriticalPaths(syscall_counts') :
          report' = [anomaly |-> a, syscall |-> s, critical_path |-> path,
                     anti_patterns |-> AntiPatterns(syscall_counts')]
  BY DEF Collect
<1>7. a \in {"none", "LatencySpike", "ResourceExhaustion"} /\ path \in SUBSET Syscalls
  BY <1>2 DEF Anomalies, CriticalPaths, Kinds
<1>8. TracerTypeOK'
  <2>1. report' \in Report
    BY <1>6, <1>7 DEF Report, AntiPatterns
  <2>2. /\ process' \in [TracedPids -> 0..MaxProcesses]
        /\ attached_pid' \in TracedPids \cup {Detached}
    BY <1>1 DEF Collect, TracerTypeOK
  <2>3. sources' \subseteq TracedPids \X (1..MaxProcesses)
    <3>1. attached_pid \in TracedPids /\ process[attached_pid] \in 1..MaxProcesses
      BY <1>1, TracerAssumption DEF Collect, TracerTypeOK
    <3> QED
      BY <1>1, <3>1 DEF Collect, TracerTypeOK
  <2> QED
    BY <1>2, <2>1, <2>2, <2>3 DEF TracerTypeOK
<1>9. AnomaliesAreOutliers'
  <2> SUFFICES ASSUME report'.anomaly # "none"
               PROVE  /\ Cardinality(Kinds(syscall_counts')) > Square(AnomalyThreshold)
                      /\ \/ report'.anomaly # "LatencySpike"
                         \/ report'.syscall \in report'.critical_path
                         \/ Cardinality(Kinds(syscall_counts')) >= 6 * (Square(AnomalyThreshold) + 1)
    BY DEF AnomaliesAreOutliers
  <2>1. report'.anomaly = a /\ report'.syscall = s /\ report'.critical_path = path
    BY <1>6
  <2>2. Cardinality(Kinds(syscall_counts')) > Square(AnomalyThreshold)
    BY <1>2, <1>5, <2>1, AnomaliesAreFew
  <2>3. ASSUME a = "LatencySpike", s \notin path
        PROVE  Cardinality(Kinds(syscall_counts')) >= 6 * (Square(AnomalyThreshold) + 1)
    BY <1>2, <1>5, <2>3, SpikesAreOnThePath
  <2> QED
    BY <2>1, <2>2, <2>3
<1> QED
  BY <1>4, <1>8, <1>9 DEF TracerInv, ReportsAreFounded

LEMMA TracerStep == TracerInv /\ [TracerNext]_tracerVars => TracerInv'
<1> SUFFICES ASSUME TracerInv, [TracerNext]_tracerVars PROVE TracerInv'
  OBVIOUS
<1> USE DEF TracerInv, ReportsAreFounded
<1>1. ASSUME NEW p \in TracedPids, Exits(p) PROVE TracerInv'
  <2>1. process' \in [TracedPids -> 0..MaxProcesses]
    <3>1. process[p] \in 0..MaxProcesses /\ MaxProcesses \in Nat
      BY TracerAssumption DEF TracerTypeOK
    <3>2. (process[p] + 1) % (MaxProcesses + 1) \in 0..MaxProcesses
      BY <3>1
    <3> QED
      BY <1>1, <3>2 DEF Exits, TracerTypeOK
  <2> QED
    BY <1>1, <2>1 DEF Exits, TracerTypeOK, CountsAreOfAttached, AnomaliesAreOutliers
<1>2. ASSUME NEW p \in TracedPids, Attach(p) PROVE TracerInv'
  BY <1>2, ClearedIsFounded DEF Attach, TracerTypeOK
<1>3. CASE Detach
  BY <1>3, ClearedIsFounded DEF Detach, TracerTypeOK
<1>4. ASSUME NEW s \in Syscalls, Collect(s) PROVE TracerInv'
  BY <1>4, CollectIsFounded
<1>5. CASE CollectNothing
  <2>1. PICK path \in CriticalPaths(syscall_counts) :
            report' = [anomaly |-> "none", syscall |-> "none", critical_path |-> path,
                       anti_patterns |-> AntiPatterns(syscall_counts)]
    BY <1>5 DEF CollectNothing
  <2>2. report' \in Report /\ report'.anomaly = "none"
    BY <2>1 DEF Report, AntiPatterns, CriticalPaths, Kinds
  <2> QED
    BY <1>5, <2>2 DEF CollectNothing, TracerTypeOK, CountsAreOfAttached, AnomaliesAreOutliers
<1>6. CASE UNCHANGED tracerVars
  BY <1>6 DEF tracerVars, TracerTypeOK, CountsAreOfAttached, AnomaliesAreOutliers
<1> QED
  BY <1>1, <1>2, <1>3, <1>4, <1>5, <1>6 DEF TracerNext

(* DaemonTracer (tracer.rs l.130-200, 281-334, 400-409): whatever the       *)
(* processes do and however a tracer is attached, detached and asked, its   *)
(* reports are of the calls of the attached pid, one for each sample, and   *)
(* the anomalies among them are outliers.                                   *)
THEOREM ReportsAreAlwaysFounded == TracerSpec => []ReportsAreFounded
<1>1. TracerInv => ReportsAreFounded
  BY DEF TracerInv
<1> QED
  BY <1>1, TracerInitially, TracerStep, PTL DEF TracerSpec

=============================================================================
