-------------------------------- MODULE Harness -----------------------------
(***************************************************************************)
(* duende-test/src/harness.rs over the NativeAdapter of duende-platform,   *)
(* which keeps nothing: a daemon is the number of its process.  The child  *)
(* that spawn() started is dropped at once, and tokio reaps it whenever it *)
(* ends; from then on the number may be anybody's.  Each kill(2) is a step *)
(* and tasks share a handle (its methods take &self).                      *)
(***************************************************************************)
EXTENDS Integers

CONSTANTS
    TestPids,   \* the processes the harness spawns, by their numbers
    TestTasks   \* the tasks that use their handles

VARIABLES
    life,       \* the process of each number, "other" when it is not the daemon
    at,         \* what each task is at
    told,       \* what its last call returned
    hit         \* history: numbers signalled when they were somebody else's

harnessVars == <<life, at, told, hit>>

Resting == [step |-> "resting"]

Untold == [op |-> "none"]

HarnessTypeOK ==
    /\ life \in [TestPids -> {"unborn", "running", "zombie", "gone", "other"}]
    /\ at \in [TestTasks -> {Resting}
                   \cup [step: {"polling", "killing", "verifying"}, pid: TestPids]
                   \cup [step: {"probing"}, pid: TestPids, running: BOOLEAN]]
    /\ told \in [TestTasks -> {Untold}
                   \cup [op: {"shutdown"}, pid: TestPids, res: {"ok", "failed"}]
                   \cup [op: {"health"}, pid: TestPids, healthy: BOOLEAN, proc: BOOLEAN]
                   \cup [op: {"trace"}, pid: TestPids, res: {"ok", "failed"}]]
    /\ hit \subseteq TestPids

HarnessInit ==
    /\ life = [p \in TestPids |-> "unborn"]
    /\ at = [t \in TestTasks |-> Resting]
    /\ told = [t \in TestTasks |-> Untold]
    /\ hit = {}

-----------------------------------------------------------------------------
(* The kernel and tokio (external): a process ends, by itself or of its     *)
(* Term, is reaped, and its number is given away and comes back.            *)

Becomes(p, was, is) ==
    /\ life[p] = was /\ life' = [life EXCEPT ![p] = is]
    /\ UNCHANGED <<at, told, hit>>

Passes(p) ==
    \/ Becomes(p, "running", "zombie")
    \/ Becomes(p, "zombie", "gone")
    \/ Becomes(p, "gone", "other")
    \/ Becomes(p, "other", "gone")

\* What kill(2) says of a number; somebody else's process may be another user's.
Errnos(p) ==
    CASE life[p] \in {"running", "zombie"} -> {"OK"}
      [] life[p] = "other"                 -> {"OK", "EPERM"}
      [] OTHER                             -> {"ESRCH"}

-----------------------------------------------------------------------------
(* NativeAdapter of duende-platform                                         *)

\* signal(): by the number alone.
SignalPid(p, sig, errno) ==
    /\ errno \in Errnos(p)
    /\ life' = IF sig = "Kill" /\ life[p] = "running" THEN [life EXCEPT ![p] = "zombie"] ELSE life
    /\ hit' = IF errno = "OK" /\ life[p] = "other" THEN hit \cup {p} ELSE hit

\* status(): a zombie is Running, as it answers to signal 0.
PidStatus(errno) ==
    CASE errno = "OK"    -> "Running"
      [] errno = "ESRCH" -> "Stopped"
      [] OTHER           -> "Err"

\* attach_tracer() makes a name for a process that is there.
AttachTracer(t, p) ==
    /\ at[t] = Resting /\ life[p] # "unborn"
    /\ \E errno \in Errnos(p) :
           told' = [told EXCEPT ![t] = [op |-> "trace", pid |-> p,
                                        res |-> IF errno = "OK" THEN "ok" ELSE "failed"]]
    /\ UNCHANGED <<life, at, hit>>

\* spawn(): a shell of its own, not the daemon it is given; the harness keeps the number.
SpawnShell(p) == Becomes(p, "unborn", "running")

-----------------------------------------------------------------------------
(* TestDaemonHandle                                                         *)

\* health_check(): the status,
HealthCheckStatus(t, p) ==
    /\ at[t] = Resting /\ life[p] # "unborn"
    /\ \E errno \in Errnos(p) :
           at' = [at EXCEPT ![t] = [step |-> "probing", pid |-> p,
                                    running |-> PidStatus(errno) = "Running"]]
    /\ UNCHANGED <<life, told, hit>>

\* and then /proc, which is told but does not count.
HealthCheckProc(t) ==
    /\ at[t].step = "probing"
    /\ told' = [told EXCEPT ![t] = [op |-> "health", pid |-> at[t].pid,
                                    healthy |-> at[t].running, proc |-> life[at[t].pid] # "gone"]]
    /\ at' = [at EXCEPT ![t] = Resting]
    /\ UNCHANGED <<life, hit>>

\* shutdown(): Term, whose failure is passed over,
ShutDown(t, p) ==
    /\ at[t] = Resting /\ life[p] # "unborn"
    /\ \E errno \in Errnos(p) : SignalPid(p, "Term", errno)
    /\ at' = [at EXCEPT ![t] = [step |-> "polling", pid |-> p]]
    /\ UNCHANGED told

ShutDownReturns(t, res) ==
    /\ at' = [at EXCEPT ![t] = Resting]
    /\ told' = [told EXCEPT ![t] = [op |-> "shutdown", pid |-> at[t].pid, res |-> res]]

ShutDownPolls_NoKill(t) ==
    /\ at[t].step = "polling"
    /\ ShutDownReturns(t, "ok")
    /\ UNCHANGED <<life, hit>>

ShutDownPolls_KeepsPolling(t) ==
    /\ at[t].step = "polling"
    /\ \E errno \in Errnos(at[t].pid) :
           IF PidStatus(errno) = "Running" THEN UNCHANGED <<at, told>> ELSE ShutDownReturns(t, "ok")
    /\ UNCHANGED <<life, hit>>

\* status() every 50 ms (which changes nothing) until it is not Running, or time is up,
ShutDownPolls(t) ==
    /\ at[t].step = "polling"
    /\ \E errno \in Errnos(at[t].pid) :
           IF PidStatus(errno) = "Running"
           THEN at' = [at EXCEPT ![t].step = "killing"] /\ UNCHANGED told
           ELSE ShutDownReturns(t, "ok")
    /\ UNCHANGED <<life, hit>>

\* then Kill: what cannot be signalled is down,
ShutDownKills(t) ==
    /\ at[t].step = "killing"
    /\ \E errno \in Errnos(at[t].pid) :
           /\ SignalPid(at[t].pid, "Kill", errno)
           /\ IF errno = "OK"
              THEN at' = [at EXCEPT ![t].step = "verifying"] /\ UNCHANGED told
              ELSE ShutDownReturns(t, "ok")

\* and a last status() 100 ms later.
ShutDownVerifies(t) ==
    /\ at[t].step = "verifying"
    /\ \E errno \in Errnos(at[t].pid) :
           ShutDownReturns(t, IF PidStatus(errno) = "Running" THEN "failed" ELSE "ok")
    /\ UNCHANGED <<life, hit>>

HarnessNext ==
    \/ \E p \in TestPids : SpawnShell(p) \/ Passes(p)
    \/ \E t \in TestTasks :
        \/ \E p \in TestPids : AttachTracer(t, p) \/ HealthCheckStatus(t, p) \/ ShutDown(t, p)
        \/ HealthCheckProc(t)
        \/ ShutDownPolls(t) \/ ShutDownKills(t) \/ ShutDownVerifies(t)

HarnessSpec == HarnessInit /\ [][HarnessNext]_harnessVars

(* The clock of a shutdown() advances, and its task runs.                   *)
HarnessFairness ==
    \A t \in TestTasks : WF_harnessVars(ShutDownPolls(t) \/ ShutDownKills(t) \/ ShutDownVerifies(t))

-----------------------------------------------------------------------------

(* shutdown (l.200-266): Ok means that the daemon is down, although a        *)
(* failing status or kill is taken for a daemon that ended, whoever else    *)
(* shuts it down and whoever has its number by then.                        *)
ShutdownMeansDown ==
    \A t \in TestTasks :
        told[t].op = "shutdown" /\ told[t].res = "ok" => life[told[t].pid] # "running"

(* shutdown (l.218-265) returns, although the daemon ignores Term and its   *)
(* number may be given to a process that never ends.                        *)
ShutdownEnds ==
    \A t \in TestTasks : at[t].step = "polling" ~> at[t].step = "resting"

(* "If still running, send SIGKILL" (l.195): it is the daemon that is       *)
(* signalled.                                                               *)
OnlyDaemonsSignalled == hit = {}

(* "daemon PID .. failed to terminate after SIGKILL" (l.258): a shutdown()  *)
(* that fails leaves a daemon that runs.                                    *)
ShutdownFailsOnlyIfUp ==
    [][\A t \in TestTasks :
           at[t].step = "verifying" /\ at'[t].step = "resting" /\ told'[t].res = "failed"
               => life[at[t].pid] = "running"]_harnessVars

(* "Process is running (via adapter status)" (l.121): a daemon told to be   *)
(* healthy was running when it was asked.                                   *)
HealthyIsRunning ==
    [][\A t \in TestTasks :
           at[t].step = "resting" /\ at'[t].step = "probing" /\ at'[t].running
               => life[at'[t].pid] = "running"]_harnessVars

=============================================================================
