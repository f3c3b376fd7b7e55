------------------------------ MODULE LoadTester ----------------------------
(***************************************************************************)
(* duende-test/src/load.rs: concurrent users send requests to a handler    *)
(* and count into shared atomics; run() waits for all of them and reports. *)
(* Each counter is added to in a step of its own.  The handler (external)  *)
(* succeeds, fails or panics, which ends its user's task and nothing else. *)
(* chaos.rs: the dice a handler may throw.                                 *)
(***************************************************************************)
EXTENDS Integers, Sequences, FiniteSets, SequencesExt

CONSTANTS
    Users,              \* concurrent_users
    RequestsPerUser,    \* requests_per_user (a run without has a clock only)
    Latencies,          \* what a request may take
    RpsIsUsable         \* FALSE: a target_rps whose inverse is no Duration, as 0

ASSUME LoadAssumption ==
    /\ IsFiniteSet(Users) /\ RequestsPerUser \in Nat \ {0}
    /\ Latencies \subseteq Nat
    /\ RpsIsUsable \in BOOLEAN

VARIABLES
    user,       \* what each user's task is at
    request_id, \* the next request of each
    total_requests, successful, failed,
    latencies_us,
    time_up,    \* test_end has passed
    report

loadVars == <<user, request_id, total_requests, successful, failed, latencies_us, time_up, report>>

NoReport == [total_requests |-> -1]

Working == { [step |-> s] : s \in {"ramping", "looping", "over", "panicked", "failing"} }
      \cup [step: {"succeeding", "counted"}, latency: Latencies] \cup { [step |-> "failed"] }

LoadTypeOK ==
    /\ user \in [Users -> Working]
    /\ request_id \in [Users -> 0..RequestsPerUser]
    /\ total_requests \in Nat /\ successful \in Nat /\ failed \in Nat
    /\ latencies_us \in Seq(Latencies)
    /\ time_up \in BOOLEAN

\* LoadMetrics::default
LoadInit ==
    /\ user = [u \in Users |-> [step |-> "ramping"]]
    /\ request_id = [u \in Users |-> 0]
    /\ total_requests = 0 /\ successful = 0 /\ failed = 0
    /\ latencies_us = <<>>
    /\ time_up = FALSE /\ report = NoReport

Goes(u, to) == user' = [user EXCEPT ![u] = to]

-----------------------------------------------------------------------------

TimeIsUp ==
    /\ ~time_up /\ time_up' = TRUE
    /\ UNCHANGED <<user, request_id, total_requests, successful, failed, latencies_us, report>>

\* A user's turn in the ramp-up comes; the pause between its requests is worked out.
StartUser(u) ==
    /\ user[u].step = "ramping"
    /\ Goes(u, [step |-> IF RpsIsUsable THEN "looping" ELSE "panicked"])
    /\ UNCHANGED <<request_id, total_requests, successful, failed, latencies_us, time_up, report>>

LoopEnds(u) == time_up \/ request_id[u] >= RequestsPerUser

\* A turn of the loop: it ends, or the handler is called.
Turn(u) ==
    /\ user[u].step = "looping"
    /\ IF LoopEnds(u) THEN Goes(u, [step |-> "over"])
       ELSE \/ \E l \in Latencies : Goes(u, [step |-> "succeeding", latency |-> l])
            \/ Goes(u, [step |-> "failing"])
            \/ Goes(u, [step |-> "panicked"])
    /\ UNCHANGED <<request_id, total_requests, successful, failed, latencies_us, time_up, report>>

\* record_success and record_failure: the total,
CountRequest(u) ==
    /\ user[u].step \in {"succeeding", "failing"}
    /\ total_requests' = total_requests + 1
    /\ Goes(u, IF user[u].step = "failing" THEN [step |-> "failed"]
                                           ELSE [user[u] EXCEPT !.step = "counted"])
    /\ UNCHANGED <<request_id, successful, failed, latencies_us, time_up, report>>

NextRequest(u) ==
    /\ Goes(u, [step |-> "looping"])
    /\ request_id' = [request_id EXCEPT ![u] = @ + 1]
    /\ UNCHANGED <<total_requests, time_up, report>>

\* and what became of it; nothing reads them before the end.
CountFailure(u) ==
    /\ user[u].step = "failed" /\ NextRequest(u)
    /\ failed' = failed + 1
    /\ UNCHANGED <<successful, latencies_us>>

CountSuccess(u) ==
    /\ user[u].step = "counted" /\ NextRequest(u)
    /\ successful' = successful + 1
    /\ latencies_us' = Append(latencies_us, user[u].latency)
    /\ UNCHANGED failed

-----------------------------------------------------------------------------

\* sort_unstable: fewer than k latencies are below the k-th, and k are up to it.
Sorted(seq) ==
    [k \in DOMAIN seq |-> CHOOSE l \in ToSet(seq) :
                              /\ Cardinality({ i \in DOMAIN seq : seq[i] < l }) < k
                              /\ Cardinality({ i \in DOMAIN seq : seq[i] <= l }) >= k]

\* percentile
Percentile(sorted, p) ==
    IF sorted = <<>> THEN 0
    ELSE LET idx == (Len(sorted) * p) \div 100
         IN  sorted[(IF idx < Len(sorted) THEN idx ELSE Len(sorted) - 1) + 1]

Joined_First == \E u \in Users : user[u].step \in {"over", "panicked"}

\* Every handle was awaited; a panic is an answer too.
Joined == \A u \in Users : user[u].step \in {"over", "panicked"}

\* run, from the join on.  Rates are kept as the numbers they are the quotient of.
Report ==
    /\ Joined /\ report = NoReport
    /\ LET sorted == Sorted(latencies_us) IN
       report' = [total_requests |-> total_requests, successful |-> successful, failed |-> failed,
                  latency_p50_us |-> Percentile(sorted, 50),
                  latency_p95_us |-> Percentile(sorted, 95),
                  latency_p99_us |-> Percentile(sorted, 99)]
    /\ UNCHANGED <<user, request_id, total_requests, successful, failed, latencies_us, time_up>>

\* LoadTestReport::passed: an error rate below 1%, which is 0 where there was no request.
LoadPassed(r) == r.total_requests = 0 \/ r.failed * 100 < r.total_requests

LoadNext ==
    \/ TimeIsUp \/ Report
    \/ \E u \in Users : StartUser(u) \/ Turn(u) \/ CountRequest(u) \/ CountFailure(u) \/ CountSuccess(u)

LoadSpec == LoadInit /\ [][LoadNext]_loadVars

-----------------------------------------------------------------------------
(* chaos.rs: ChaosInjector.  A die is the nanoseconds of the clock over the *)
(* greatest u32; NanosPerSecond and U32Max are in units of 100 000 000.     *)

NanosPerSecond == 10
U32Max         == 42

\* rand_probability, p in hundredths
RandProbability(nanos, p) == nanos * 100 < p * U32Max

\* should_inject_error and maybe_inject_latency, between start and stop
Injects(active, injection, nanos) ==
    active /\ \E p \in injection : RandProbability(nanos, p)

-----------------------------------------------------------------------------

(* run (l.241-302): the report counts every request that was made, once,    *)
(* in whatever order its users counted, ended and panicked; its percentiles *)
(* are latencies of theirs and in order.                                    *)
ReportAddsUp ==
    report # NoReport =>
        /\ report.successful + report.failed = report.total_requests
        /\ report.total_requests = SumFunction(request_id)
        /\ report.successful = Len(latencies_us)
        /\ latencies_us # <<>> =>
               /\ {report.latency_p50_us, report.latency_p99_us} \subseteq ToSet(latencies_us)
               /\ report.latency_p50_us <= report.latency_p95_us
               /\ report.latency_p95_us <= report.latency_p99_us
               /\ 2 * Cardinality({ i \in DOMAIN latencies_us :
                                        latencies_us[i] <= report.latency_p50_us })
                      >= Len(latencies_us)

(* "Returns true if the test passed" (l.351): a test whose users all died   *)
(* in the handler did not.                                                  *)
PassedWasTested ==
    report # NoReport /\ LoadPassed(report) => report.successful > 0

(* "Probability" (chaos.rs l.19): a fault of probability p is injected in p  *)
(* of the cases.                                                            *)
ChaosIsAsRare ==
    \A p \in 0..100 :
        100 * Cardinality({ n \in 0..(NanosPerSecond - 1) : Injects(TRUE, {p}, n) })
            <= (p + 10) * NanosPerSecond

=============================================================================
