---------------------------- MODULE DaemonMonitor ---------------------------
(***************************************************************************)
(* duende-observe/src/monitor.rs: the samples of processes a monitor keeps *)
(* in a ring buffer, and the CPU use it derives from two samples.  collect *)
(* reads /proc several times, and the process runs, exits or is replaced   *)
(* in between; the monitor itself has one caller at a time (&mut self).    *)
(*                                                                         *)
(* ticks, the CPU time of a process, counts clock ticks.  taken and burnt  *)
(* are history variables: the snapshots returned since the history was     *)
(* last cleared, and the ticks every process of a pid ever used.           *)
(***************************************************************************)
EXTENDS Integers, Sequences, SequencesExt

CONSTANTS
    Pids,
    MonitorCapacity,    \* the capacity of new
    MaxTicks,           \* bound on the ticks burnt per pid
    MaxCollects         \* bound on the calls of collect

ASSUME MonitorAssumption ==
    MonitorCapacity \in Nat /\ MaxTicks \in Nat /\ MaxCollects \in Nat

Gone == -1
None == [pid |-> "none"]

VARIABLES
    ticks,          \* utime + stime of the process of each pid, or Gone
    burnt,
    history,
    prev_cpu,       \* the ticks of the previous measurement, or Gone
    stat,           \* what a collect under way read of /proc/pid/stat
    collects,
    taken

monitorVars == <<ticks, burnt, history, prev_cpu, stat, collects, taken>>

DaemonSnapshot == [pid: Pids, timestamp: Nat, used: Nat]

MonitorTypeOK ==
    /\ ticks \in [Pids -> Nat \cup {Gone}] /\ burnt \in [Pids -> Nat]
    /\ history \in Seq(DaemonSnapshot) /\ taken \in Seq(DaemonSnapshot)
    /\ prev_cpu \in Nat \cup {Gone}
    /\ stat \in DaemonSnapshot \cup {None}
    /\ collects \in Nat

\* DaemonMonitor::new
MonitorInit ==
    /\ ticks = [p \in Pids |-> 0] /\ burnt = [p \in Pids |-> 0]
    /\ history = <<>> /\ prev_cpu = Gone
    /\ stat = None /\ collects = 0
    /\ taken = <<>>

-----------------------------------------------------------------------------

Runs(p) ==
    /\ ticks[p] # Gone /\ burnt[p] < MaxTicks
    /\ ticks' = [ticks EXCEPT ![p] = @ + 1]
    /\ burnt' = [burnt EXCEPT ![p] = @ + 1]
    /\ UNCHANGED <<history, prev_cpu, stat, collects, taken>>

\* The process exits, or a new one has its pid.
ExitsOrStarts(p) ==
    /\ ticks' = [ticks EXCEPT ![p] = IF @ = Gone THEN 0 ELSE Gone]
    /\ UNCHANGED <<burnt, history, prev_cpu, stat, collects, taken>>

-----------------------------------------------------------------------------

(* parse_proc_stat, parse_stat_content: utime + stime, or Gone where there  *)
(* is no such process.  (Its state and threads are not modelled.)           *)
ParseProcStat(p) == ticks[p]

\* parse_proc_statm: whether there is a resident size to read.
ParseProcStatm(p) == ticks[p] # Gone

(* calculate_cpu_percent: none without a previous measurement, none where   *)
(* the counter went backwards (a new process).                              *)
TicksUsed(prev, now) == IF prev = Gone \/ now < prev THEN 0 ELSE now - prev

CollectStat_KeepsPrevious(p) ==
    /\ stat = None /\ collects < MaxCollects
    /\ collects' = collects + 1
    /\ IF ticks[p] = Gone
       THEN UNCHANGED <<prev_cpu, stat>>
       ELSE \E used \in {0, TicksUsed(prev_cpu, ticks[p])} :
                /\ stat' = [pid |-> p, timestamp |-> collects, used |-> used]
                /\ prev_cpu' = IF prev_cpu = Gone THEN ticks[p] ELSE prev_cpu
    /\ UNCHANGED <<ticks, burnt, history, taken>>

(* The first half of collect, collect_linux and parse_proc_stat: an error   *)
(* if there is no such process.  An interval under a millisecond reports no *)
(* use; the previous measurement, of whatever process, is replaced anyhow.  *)
CollectStat(p) ==
    /\ stat = None /\ collects < MaxCollects
    /\ collects' = collects + 1
    /\ LET now == ParseProcStat(p) IN
       IF now = Gone
       THEN UNCHANGED <<prev_cpu, stat>>
       ELSE \E used \in {0, TicksUsed(prev_cpu, now)} :
                /\ stat' = [pid |-> p, timestamp |-> collects, used |-> used]
                /\ prev_cpu' = now
    /\ UNCHANGED <<ticks, burnt, history, taken>>

\* The ring buffer: a full one drops its oldest snapshot first.
Pushed(h, snapshot) ==
    Append(IF Len(h) >= MonitorCapacity /\ h # <<>> THEN Tail(h) ELSE h, snapshot)

(* The second half: parse_proc_statm fails if the process is gone by now.   *)
(* (/proc/pid/io may not: an error there reads as zeros.)                   *)
CollectStatm ==
    /\ stat # None
    /\ stat' = None
    /\ IF ParseProcStatm(stat.pid)
       THEN history' = Pushed(history, stat) /\ taken' = Append(taken, stat)
       ELSE UNCHANGED <<history, taken>>
    /\ UNCHANGED <<ticks, burnt, prev_cpu, collects>>

ClearHistory ==
    /\ stat = None
    /\ history' = <<>> /\ prev_cpu' = Gone
    /\ taken' = <<>>
    /\ UNCHANGED <<ticks, burnt, stat, collects>>

\* DaemonMonitor::history: the snapshots from the cutoff on.
History(cutoff) ==
    LET answer[i \in 0..Len(history)] ==
            IF i = 0 THEN <<>>
            ELSE IF history[i].timestamp >= cutoff THEN Append(answer[i - 1], history[i])
            ELSE answer[i - 1]
    IN  answer[Len(history)]

MonitorNext ==
    \/ \E p \in Pids : Runs(p) \/ ExitsOrStarts(p) \/ CollectStat(p)
    \/ CollectStatm \/ ClearHistory

MonitorSpec == MonitorInit /\ [][MonitorNext]_monitorVars

-----------------------------------------------------------------------------

Kept == IF MonitorCapacity = 0 THEN 1 ELSE MonitorCapacity

(* l.24 "Ring buffer capacity", l.317 "historical snapshots within the      *)
(* given duration": the history is the snapshots last returned, none lost   *)
(* or repeated, as many as the capacity (one, if it is 0), oldest first;    *)
(* and asked from a moment on it answers with those taken since then.       *)
HistoryIsRecent ==
    /\ history = SubSeq(taken, Len(taken) - Len(history) + 1, Len(taken))
    /\ Len(history) = IF Len(taken) < Kept THEN Len(taken) ELSE Kept
    /\ \A cutoff \in 0..collects : IsSuffix(History(cutoff), taken)

UsedIn(p, i) == IF taken[i].pid = p THEN taken[i].used ELSE 0
UsedBy(p)    == SumFunctionOnSet([i \in DOMAIN taken |-> UsedIn(p, i)], DOMAIN taken)

(* calculate_cpu_percent: a clock tick of the process is counted in one     *)
(* sample at most, whatever fails or restarts between the samples, as long  *)
(* as the monitor samples one pid.                                          *)
TicksCountedOnce == \A p \in Pids : UsedBy(p) <= burnt[p]

(* collect (l.105-150): a collect that fails half way, or a process that    *)
(* ends in between, loses no sample and repeats no sample and no tick.      *)
SamplesAreTrue == HistoryIsRecent /\ TicksCountedOnce

=============================================================================
