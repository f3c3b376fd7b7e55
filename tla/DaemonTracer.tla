----------------------------- MODULE DaemonTracer ---------------------------
(***************************************************************************)
(* duende-observe/src/tracer.rs: a tracer samples the system call a        *)
(* process is in, counts what it saw since it was attached, and reports    *)
(* calls whose count is far from the mean, anti-patterns and the most      *)
(* frequent calls.  The processes run, exit and are replaced meanwhile.    *)
(*                                                                         *)
(* sources is a history variable: the processes whose calls were counted.  *)
(***************************************************************************)
EXTENDS Integers, FiniteSets, FiniteSetsExt

CONSTANTS
    TracedPids,
    Syscalls,           \* the calls the processes make
    AnomalyThreshold,   \* anomaly_threshold, a whole number here
    MinSamples,         \* samples before anomalies are looked for
    MinCalls,           \* calls before an anti-pattern is
    MaxSamples,         \* bound on the samples since attaching
    MaxProcesses        \* bound on the processes a pid names in turn

VARIABLES
    process,        \* which process a pid names (the first is 1), 0: none
    attached_pid,
    syscall_counts, \* 0: no entry
    sample_count,
    report,         \* what the last collect returned
    sources

tracerVars == <<process, attached_pid, syscall_counts, sample_count, report, sources>>

\* syscall_name, and "running" for a process that is in no call.
SyscallNames ==
    {"running", "none", "read", "write", "open", "close", "stat", "fstat", "lstat", "poll", "lseek",
     "mmap", "mprotect", "munmap", "brk", "rt_sigaction", "rt_sigprocmask", "rt_sigreturn", "ioctl",
     "pread64", "pwrite64", "readv", "writev", "access", "pipe", "select", "sched_yield", "nanosleep",
     "clone", "fork", "execve", "exit", "wait4", "kill", "futex", "clock_gettime", "clock_nanosleep",
     "exit_group", "epoll_wait", "openat", "newfstatat", "pselect6", "epoll_pwait", "syscall_nr"}

ASSUME TracerAssumption ==
    /\ Syscalls \subseteq SyscallNames /\ IsFiniteSet(Syscalls)
    /\ {AnomalyThreshold, MinSamples, MinCalls, MaxSamples} \subseteq Nat /\ MaxProcesses \in Nat \ {0}

Detached == "detached"

Polls   == {"poll", "select", "epoll_wait", "epoll_pwait", "pselect6"} \cap Syscalls
Futexes == {"futex"} \cap Syscalls
Memory  == {"brk", "mmap", "munmap"} \cap Syscalls

Report == [anomaly: {"none", "LatencySpike", "ResourceExhaustion"}, syscall: Syscalls \cup {"none"},
           critical_path: SUBSET Syscalls,
           anti_patterns: SUBSET {"BusyPolling", "LockContention", "MemoryChurn"}]
NoReport == [anomaly |-> "none", syscall |-> "none", critical_path |-> {}, anti_patterns |-> {}]

TracerTypeOK ==
    /\ process \in [TracedPids -> 0..MaxProcesses]
    /\ attached_pid \in TracedPids \cup {Detached}
    /\ syscall_counts \in [Syscalls -> Nat]
    /\ sample_count \in Nat
    /\ report \in Report
    /\ sources \subseteq TracedPids \X (1..MaxProcesses)

TracerInit ==
    /\ process = [p \in TracedPids |-> 1]
    /\ attached_pid = Detached
    /\ syscall_counts = [s \in Syscalls |-> 0] /\ sample_count = 0
    /\ report = NoReport
    /\ sources = {}

(* The process exits and, but for the last one, another takes its pid.  All *)
(* the tracer sees of a process is the number.                              *)
Exits(p) ==
    /\ process[p] # 0
    /\ process' = [process EXCEPT ![p] = (@ + 1) % (MaxProcesses + 1)]
    /\ UNCHANGED <<attached_pid, syscall_counts, sample_count, report, sources>>

-----------------------------------------------------------------------------

Cleared ==
    /\ syscall_counts' = [s \in Syscalls |-> 0]
    /\ sample_count' = 0
    /\ report' = NoReport
    /\ sources' = {}

Attach_KeepsCounts(p) ==
    /\ process[p] # 0
    /\ attached_pid' = p
    /\ UNCHANGED <<process, syscall_counts, sample_count, report, sources>>

\* Of a pid that names no process it fails and leaves the tracer as it is.
Attach(p) ==
    /\ process[p] # 0
    /\ attached_pid' = p
    /\ Cleared
    /\ UNCHANGED process

Detach == attached_pid' = Detached /\ Cleared /\ UNCHANGED process

-----------------------------------------------------------------------------

CallsIn(counts, S) == SumFunctionOnSet(counts, S)
Total(counts) == CallsIn(counts, Syscalls)
Kinds(counts) == { s \in Syscalls : counts[s] > 0 }

Square(n) == n * n

(* detect_frequency_anomaly.  With N kinds of calls counted c_i, T in all,  *)
(* the score of s is z = (N c_s - T) / sqrt(N Sum c_i^2 - T^2): it is       *)
(* compared squared.  The program computes it in floating point, where a    *)
(* score exactly at the threshold may come out on either side of it.        *)
Deviation(counts, s) == Cardinality(Kinds(counts)) * counts[s] - Total(counts)
Spread(counts) ==
    Cardinality(Kinds(counts)) * SumFunctionOnSet([s \in Syscalls |-> Square(counts[s])], Syscalls)
        - Square(Total(counts))

Anomalies(counts, samples, s) ==
    LET far == Square(Deviation(counts, s))
        bar == Square(AnomalyThreshold) * Spread(counts)
        is  == IF Deviation(counts, s) > 0 THEN "LatencySpike" ELSE "ResourceExhaustion"
    IN  IF samples < MinSamples \/ Spread(counts) = 0 \/ far < bar THEN {"none"}
        ELSE IF far > bar THEN {is}
        ELSE {"none", is}

\* detect_anti_patterns: more than a share and more than a number of calls.
AntiPatterns(counts) ==
    LET exceeds(S, percent, min) ==
            CallsIn(counts, S) * 100 > percent * Total(counts) /\ CallsIn(counts, S) > min
    IN  { p \in {"BusyPolling"}    : exceeds(Polls, 50, MinCalls) }
   \cup { p \in {"LockContention"} : exceeds(Futexes, 30, MinCalls) }
   \cup { p \in {"MemoryChurn"}    : exceeds(Memory, 20, MinCalls \div 2) }

\* build_critical_path: the five most frequent calls, ties in any order.
CriticalPaths(counts) ==
    { S \in SUBSET Kinds(counts) :
        /\ Cardinality(S) = IF Cardinality(Kinds(counts)) < 5 THEN Cardinality(Kinds(counts)) ELSE 5
        /\ \A s \in S, r \in Kinds(counts) \ S : counts[s] >= counts[r] }

(* collect of a live process.  A process that is gone, or one whose         *)
(* /proc/pid/syscall cannot be read, adds no sample: CollectNothing.        *)
Collect(s) ==
    /\ attached_pid # Detached
    /\ process[attached_pid] # 0 /\ sample_count < MaxSamples
    /\ syscall_counts' = [syscall_counts EXCEPT ![s] = @ + 1]
    /\ sample_count' = sample_count + 1
    /\ sources' = sources \cup {<<attached_pid, process[attached_pid]>>}
    /\ \E a \in Anomalies(syscall_counts', sample_count', s), path \in CriticalPaths(syscall_counts') :
           report' = [anomaly |-> a, syscall |-> s, critical_path |-> path,
                      anti_patterns |-> AntiPatterns(syscall_counts')]
    /\ UNCHANGED <<process, attached_pid>>

CollectNothing ==
    /\ attached_pid # Detached
    /\ \E path \in CriticalPaths(syscall_counts) :
           report' = [anomaly |-> "none", syscall |-> "none", critical_path |-> path,
                      anti_patterns |-> AntiPatterns(syscall_counts)]
    /\ UNCHANGED <<process, attached_pid, syscall_counts, sample_count, sources>>

TracerNext ==
    \/ \E p \in TracedPids : Exits(p) \/ Attach(p)
    \/ Detach
    \/ \E s \in Syscalls : Collect(s)
    \/ CollectNothing

TracerSpec == TracerInit /\ [][TracerNext]_tracerVars

-----------------------------------------------------------------------------

(* attach, detach, collect: in whatever order they are called, with attach  *)
(* failing or not, the counts are of the pid attached now and of no other,  *)
(* one for each sample, and none are left without one.                      *)
CountsAreOfAttached ==
    /\ Total(syscall_counts) = sample_count
    /\ \A source \in sources : source[1] = attached_pid
    /\ sample_count > 0 => sources # {}

(* detect_frequency_anomaly, build_critical_path: no score can exceed a     *)
(* threshold of A before more than A^2 different calls have been counted    *)
(* (five for the default of 2), whatever their counts, so a process stuck   *)
(* in few calls is never anomalous.  And a spike is on the critical path of *)
(* its report, but for a process of so many calls that five may be more     *)
(* frequent than it and all six outliers.                                   *)
AnomaliesAreOutliers ==
    report.anomaly # "none" =>
        /\ Cardinality(Kinds(syscall_counts)) > Square(AnomalyThreshold)
        /\ \/ report.anomaly # "LatencySpike"
           \/ report.syscall \in report.critical_path
           \/ Cardinality(Kinds(syscall_counts)) >= 6 * (Square(AnomalyThreshold) + 1)

(* collect (l.130-200): what a report says is founded on the calls of the   *)
(* attached pid, and calls an outlier only what is one.                     *)
ReportsAreFounded == CountsAreOfAttached /\ AnomaliesAreOutliers

(* l.24 "Anomaly detection (frequency spikes)": a call counted for the      *)
(* first time is reported as resource exhaustion.                           *)
AnomaliesAreSpikes == report.anomaly # "ResourceExhaustion"

(* l.63 "Attaches tracer to a running daemon": to its number, which may be  *)
(* another process's by the time of a sample.                               *)
CountsAreOfOneProcess == Cardinality(sources) <= 1

=============================================================================
