-------------------------------- MODULE Metrics -----------------------------
(***************************************************************************)
(* duende-core/src/metrics.rs: the RED metrics of a daemon, atomics that   *)
(* the threads of the daemon update and any thread reads, all with Relaxed *)
(* ordering.  Every atomic access is a step.  The accesses of one call to  *)
(* different atomics may take effect in any order, except that a swap uses *)
(* the value loaded before it.                                             *)
(*                                                                         *)
(* recorded is a history variable: the durations each thread has recorded, *)
(* the one being recorded included.                                        *)
(***************************************************************************)
EXTENDS Integers, Sequences, FiniteSetsExt

CONSTANTS
    MetricThreads,
    Durations,      \* in microseconds
    Loads,          \* the percentages given to set_cpu_usage
    MaxRequests,    \* bound on the requests recorded
    MaxRecordings   \* bound on the durations recorded per thread

ASSUME MetricsAssumption ==
    /\ Durations \subseteq Nat /\ Loads \subseteq Nat
    /\ MaxRequests \in Nat /\ MaxRecordings \in Nat

VARIABLES
    requests_total, errors_total,
    duration_sum_us, duration_count, duration_max_us,
    cpu_usage_permille,
    serving,        \* threads between record_request and the request's outcome
    todo,           \* per thread, the accesses its record_duration still has to make
    current_max,    \* per thread about to swap, the maximum it has loaded (else 0)
    reading,        \* the first of the two loads of an error_rate or duration_avg
    answer,         \* what the last such call divides, by what
    recorded

durations   == <<duration_sum_us, duration_count, duration_max_us, todo, current_max, recorded>>
requests    == <<requests_total, errors_total, serving>>
reader      == <<reading, answer>>
metricsVars == <<durations, requests, reader, cpu_usage_permille>>

Divided == {"error_rate", "duration_avg"}

MetricsTypeOK ==
    /\ {requests_total, errors_total, duration_sum_us, duration_count, duration_max_us} \subseteq Nat
    /\ cpu_usage_permille \in Nat
    /\ serving \subseteq MetricThreads
    /\ todo \in [MetricThreads -> SUBSET {"sum", "count", "load", "swap"}]
    /\ current_max \in [MetricThreads -> Nat]
    /\ reading \in [of: {"nothing"}] \cup [of: Divided, by: Nat]
    /\ answer \in [of: {"nothing"}] \cup [of: Divided, what: Nat, by: Nat]
    /\ recorded \in [MetricThreads -> Seq(Durations)]

\* DaemonMetrics::new
MetricsInit ==
    /\ requests_total = 0 /\ errors_total = 0
    /\ duration_sum_us = 0 /\ duration_count = 0 /\ duration_max_us = 0
    /\ cpu_usage_permille = 0
    /\ serving = {}
    /\ todo = [t \in MetricThreads |-> {}]
    /\ current_max = [t \in MetricThreads |-> 0]
    /\ reading = [of |-> "nothing"] /\ answer = [of |-> "nothing"]
    /\ recorded = [t \in MetricThreads |-> <<>>]

-----------------------------------------------------------------------------

\* The caller records the request it begins to serve (a thread makes one call at a time).
RecordRequest(t) ==
    /\ todo[t] = {} /\ t \notin serving /\ requests_total < MaxRequests
    /\ requests_total' = requests_total + 1
    /\ serving' = serving \cup {t}
    /\ UNCHANGED <<errors_total, durations, reader, cpu_usage_permille>>

\* ... and then its error, if it fails.
RecordError(t) ==
    /\ todo[t] = {} /\ t \in serving
    /\ errors_total' \in {errors_total, errors_total + 1}
    /\ serving' = serving \ {t}
    /\ UNCHANGED <<requests_total, durations, reader, cpu_usage_permille>>

\* The fixed-point conversion of a percentage: permille is percent * 10.
SetCpuUsage(percent) ==
    /\ cpu_usage_permille' = percent * 10
    /\ UNCHANGED <<durations, requests, reader>>

-----------------------------------------------------------------------------

Us(t) == recorded[t][Len(recorded[t])]

RecordDuration(t, us) ==
    /\ todo[t] = {} /\ Len(recorded[t]) < MaxRecordings
    /\ recorded' = [recorded EXCEPT ![t] = Append(@, us)]
    /\ todo' = [todo EXCEPT ![t] = {"sum", "count", "load"}]
    /\ UNCHANGED <<duration_sum_us, duration_count, duration_max_us, current_max>>

Does(t, access) == access \in todo[t] /\ todo' = [todo EXCEPT ![t] = @ \ {access}]

AddSum(t) ==
    /\ Does(t, "sum")
    /\ duration_sum_us' = duration_sum_us + Us(t)
    /\ UNCHANGED <<duration_count, duration_max_us, current_max, recorded>>

AddCount(t) ==
    /\ Does(t, "count")
    /\ duration_count' = duration_count + 1
    /\ UNCHANGED <<duration_sum_us, duration_max_us, current_max, recorded>>

\* The while condition, on the maximum just seen: swap, or be done with it.
Sees(t, access) ==
    /\ access \in todo[t]
    /\ IF Us(t) > duration_max_us
       THEN /\ current_max' = [current_max EXCEPT ![t] = duration_max_us]
            /\ todo' = [todo EXCEPT ![t] = (@ \ {access}) \cup {"swap"}]
       ELSE /\ current_max' = [current_max EXCEPT ![t] = 0]
            /\ todo' = [todo EXCEPT ![t] = @ \ {access}]

LoadMax(t) ==
    /\ Sees(t, "load")
    /\ UNCHANGED <<duration_sum_us, duration_count, duration_max_us, recorded>>

\* A plain store of the larger value, decided on what was loaded before.
SwapMax_Store(t) ==
    /\ Does(t, "swap")
    /\ duration_max_us' = Us(t)
    /\ current_max' = [current_max EXCEPT ![t] = 0]
    /\ UNCHANGED <<duration_sum_us, duration_count, recorded>>

(* compare_exchange_weak: it stores if the maximum is still the one loaded, *)
(* else it returns the actual one.  (Failing spuriously changes nothing.)   *)
SwapMax(t) ==
    /\ \/ /\ duration_max_us = current_max[t]
          /\ Does(t, "swap")
          /\ duration_max_us' = Us(t)
          /\ current_max' = [current_max EXCEPT ![t] = 0]
       \/ /\ duration_max_us # current_max[t]
          /\ Sees(t, "swap")
          /\ UNCHANGED duration_max_us
    /\ UNCHANGED <<duration_sum_us, duration_count, recorded>>

-----------------------------------------------------------------------------

\* error_rate and duration_avg load their divisor first, and stop if it is 0.
LoadDivisor(of) ==
    LET by == IF of = "error_rate" THEN requests_total ELSE duration_count IN
    /\ reading.of = "nothing"
    /\ reading' = IF by > 0 THEN [of |-> of, by |-> by] ELSE reading
    /\ answer' = [of |-> "nothing"]
    /\ UNCHANGED <<durations, requests, cpu_usage_permille>>

LoadDividend ==
    /\ reading.of # "nothing"
    /\ reading' = [of |-> "nothing"]
    /\ answer' = [of |-> reading.of, by |-> reading.by,
                  what |-> IF reading.of = "error_rate" THEN errors_total ELSE duration_sum_us]
    /\ UNCHANGED <<durations, requests, cpu_usage_permille>>

-----------------------------------------------------------------------------

Recording(t) ==
    /\ \/ \E us \in Durations : RecordDuration(t, us)
       \/ AddSum(t) \/ AddCount(t) \/ LoadMax(t) \/ SwapMax(t)
    /\ UNCHANGED <<requests, reader, cpu_usage_permille>>

MetricsNext ==
    \/ \E t \in MetricThreads : RecordRequest(t) \/ RecordError(t) \/ Recording(t)
    \/ \E percent \in Loads : SetCpuUsage(percent)
    \/ \E of \in Divided : LoadDivisor(of)
    \/ LoadDividend

MetricsSpec == MetricsInit /\ [][MetricsNext]_metricsVars

-----------------------------------------------------------------------------

\* The recordings made, and those that are complete.
Begun    == { r \in MetricThreads \X (1..MaxRecordings) : r[2] \in DOMAIN recorded[r[1]] }
Complete == { r \in Begun : todo[r[1]] = {} \/ r[2] < Len(recorded[r[1]]) }

Duration(r) == recorded[r[1]][r[2]]
TotalUs(recs) == SumFunctionOnSet([r \in recs |-> Duration(r)], recs)

(* record_duration (l.125-144): whatever threads record at the same time,   *)
(* each complete recording is in the count, the sum and the maximum exactly *)
(* once, and nothing is there that no thread has begun to record.           *)
RecordingsAreKept ==
    /\ Cardinality(Complete) <= duration_count /\ duration_count <= Cardinality(Begun)
    /\ TotalUs(Complete) <= duration_sum_us /\ duration_sum_us <= TotalUs(Begun)
    /\ \A r \in Complete : Duration(r) <= duration_max_us
    /\ duration_max_us # 0 => \E r \in Begun : Duration(r) = duration_max_us

(* MetricsSnapshot l.298 "Error rate (0.0 to 1.0)": not of two loads with   *)
(* requests and errors recorded in between.                                 *)
ErrorRateIsARate == answer.of = "error_rate" => answer.what <= answer.by

(* MetricsSnapshot l.300 "Average duration": of no recordings is the        *)
(* average above the longest.                                               *)
AverageIsBounded ==
    answer.of = "duration_avg" =>
        \E r \in Begun : answer.what <= answer.by * Duration(r)

=============================================================================
