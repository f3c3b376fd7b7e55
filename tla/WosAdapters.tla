------------------------------ MODULE WosAdapters ------------------------------
(***************************************************************************)
(* The two adapters of WOS.  That of duende-core (kind "core") drives a    *)
(* kernel through wos-ctl and keeps a process table of its own, which is   *)
(* all there is when wos-ctl is missing.  That of duende-platform (kind    *)
(* "simulation") is a process table and nothing else.                      *)
(*                                                                         *)
(* Each action is what a method does between two awaits: a command of      *)
(* wos-ctl, or a section under the lock of the table.  The core adapter    *)
(* looks for wos-ctl before every command; the two are one step here, as a *)
(* command that is gone again fails like any other.  Priorities, names and *)
(* memory limits, which no method reads again, are left out.               *)
(***************************************************************************)
EXTENDS Naturals

CONSTANTS
    Callers,
    Pids,           \* pids that NEXT_PID hands out (bound)
    Operations,     \* methods each caller uses
    Waits           \* TRUE: the kernel reports processes as waiting

ASSUME WosAssumption ==
    /\ Pids \subseteq Nat \ {0, 1}
    /\ Operations \in [Callers -> SUBSET {"spawn", "signal", "status", "stop"}]
    /\ Waits \in BOOLEAN

VARIABLES
    kind,       \* the adapter in use
    ctl,        \* wos-ctl answers
    inWos,      \* the environment is that of WOS
    kernel,     \* the processes of the kernel (external)
    table,      \* processes of the adapter
    nextPid,    \* NEXT_PID
    handles,    \* pids that some spawn returned a handle for
    method,     \* what each caller is at: its method,
    pc,         \* the section to run next,
    pid,        \* the process it is about,
    sig,        \* the signal to be sent
    answer      \* what the last method of each caller returned; "none" while one runs

external == <<ctl, inWos, kernel>>
adapter  == <<table, nextPid, handles>>
vars     == <<kind, ctl, inWos, kernel, table, nextPid, handles, method, pc, pid, sig, answer>>

Status     == {"Starting", "Running", "Paused", "Stopped", "Failed"}
NoPid      == 0
Signals    == {"Term", "Kill", "Stop", "Cont", "Hup"}
IsTerminal(st) == st \in {"Stopped", "Failed"}

\* "none": never created; "collected": the kernel does not know the pid any more.
KernelState  == {"none", "ready", "running", "waiting", "stopped", "exited", "failed", "collected"}
ProcessState == {"none", "running", "stopped", "exited", "killed"}
HasProcess(p) == kernel[p] \in {"ready", "running", "waiting", "stopped"}

TypeOK ==
    /\ kind \in {"core", "simulation"}
    /\ ctl \in BOOLEAN /\ inWos \in BOOLEAN
    /\ kernel \in [Pids -> KernelState]
    /\ table \in [Pids -> ProcessState]
    /\ nextPid \in Nat
    /\ handles \subseteq Pids
    /\ method \in [Callers -> {"none", "spawn", "signal", "status", "stop"}]
    /\ pc \in [Callers -> {"idle", "create", "insert", "send", "update", "reap", "query", "look"}]
    /\ pid \in [Callers -> Pids \cup {NoPid}]
    /\ sig \in [Callers -> Signals \cup {"none"}]
    /\ \A c \in Callers : /\ pid[c] \in Pids <=> pc[c] # "idle"
                          /\ pc[c] \in {"send", "update"} => sig[c] \in Signals
                          /\ pc[c] = "idle" <=> method[c] = "none"
    /\ answer \in [Callers -> Status \cup {"none", "ok", "error", "timeout"}]
    /\ kind = "simulation" => \A p \in Pids : kernel[p] = "none"

Init ==
    /\ kind \in {"core", "simulation"}
    /\ ctl \in BOOLEAN /\ inWos \in BOOLEAN
    /\ kernel = [p \in Pids |-> "none"]
    /\ table = [p \in Pids |-> "none"]
    /\ nextPid = 2
    /\ handles = {}
    /\ method = [c \in Callers |-> "none"]
    /\ pc = [c \in Callers |-> "idle"]
    /\ pid = [c \in Callers |-> NoPid]
    /\ sig = [c \in Callers |-> "none"]
    /\ answer = [c \in Callers |-> "none"]

-----------------------------------------------------------------------------
(* WOS (external) *)

Moves == [none      |-> {},
          ready     |-> {"running"},
          running   |-> {"ready", "waiting", "exited", "failed"},
          waiting   |-> {"ready"},
          stopped   |-> {},
          exited    |-> {"collected"},
          failed    |-> {"collected"},
          collected |-> {}]

Evolve(p) ==
    /\ \E k \in Moves[kernel[p]] \ (IF Waits THEN {} ELSE {"waiting"}) :
           kernel' = [kernel EXCEPT ![p] = k]
    /\ UNCHANGED <<kind, ctl, inWos, table, nextPid, handles, method, pc, pid, sig, answer>>

\* wos-ctl is installed, removed or breaks, between two looks for it.
Flip ==
    /\ kind = "core"
    /\ ctl' = ~ctl
    /\ UNCHANGED <<kind, inWos, kernel, table, nextPid, handles, method, pc, pid, sig, answer>>

\* What a signal makes of a process; one it handles or ignores does nothing at once.
KernelAfter(k, s) ==
    CASE s = "Kill" -> "failed"
      [] s = "Stop" -> "stopped"
      [] s = "Cont" /\ k = "stopped" -> "ready"
      [] OTHER -> k

-----------------------------------------------------------------------------

Begin(c, m, section, p, s) ==
    /\ m \in Operations[c]
    /\ pc[c] = "idle"
    /\ pc' = [pc EXCEPT ![c] = section]
    /\ method' = [method EXCEPT ![c] = m]
    /\ pid' = [pid EXCEPT ![c] = p]
    /\ sig' = [sig EXCEPT ![c] = s]
    /\ answer' = [answer EXCEPT ![c] = "none"]
    /\ UNCHANGED kind

Return(c, a) ==
    /\ pc' = [pc EXCEPT ![c] = "idle"]
    /\ method' = [method EXCEPT ![c] = "none"]
    /\ pid' = [pid EXCEPT ![c] = NoPid]
    /\ sig' = [sig EXCEPT ![c] = "none"]
    /\ answer' = [answer EXCEPT ![c] = a]
    /\ UNCHANGED kind

Goto(c, section) ==
    /\ pc' = [pc EXCEPT ![c] = section]
    /\ sig' = [sig EXCEPT ![c] = IF section \in {"send", "update"} THEN @ ELSE "none"]
    /\ UNCHANGED <<kind, method, pid, answer>>

\* A signal was dealt with: stop() polls next.
Signalled(c) == IF method[c] = "stop" THEN Goto(c, "query") ELSE Return(c, "ok")

\* A status was found: stop() judges by it and polls again.
Found(c, st) ==
    IF method[c] = "stop"
    THEN IF IsTerminal(st) THEN Return(c, "ok") ELSE Goto(c, "query")
    ELSE Return(c, st)

\* A command that cannot run, or a spawn or signal that is refused: the result of
\* the method, except that the polls of stop() ignore it.
Fail(c) ==
    /\ IF method[c] = "stop" /\ pc[c] = "query" THEN Goto(c, "query") ELSE Return(c, "error")
    /\ UNCHANGED <<external, adapter>>

(* spawn *)

\* In WOS or with wos-ctl, the core adapter takes a pid.
Spawn(c) ==
    /\ nextPid \in Pids
    /\ kind = "core" => inWos \/ ctl
    /\ Begin(c, "spawn", IF kind = "core" THEN "create" ELSE "insert", nextPid, "none")
    /\ nextPid' = nextPid + 1
    /\ UNCHANGED <<external, table, handles>>

\* Outside WOS and without wos-ctl.
RefuseSpawn(c) ==
    /\ pc[c] = "idle" /\ "spawn" \in Operations[c]
    /\ kind = "core" /\ ~inWos /\ ~ctl
    /\ Return(c, "error")
    /\ UNCHANGED <<external, adapter>>

CreateProcess_IgnoreFailure(c) ==
    /\ pc[c] = "create"
    /\ \/ UNCHANGED kernel
       \/ ctl /\ \E k \in {"ready", "running"} : kernel' = [kernel EXCEPT ![pid[c]] = k]
    /\ Goto(c, "insert")
    /\ UNCHANGED <<ctl, inWos, adapter>>

\* wos-ctl spawn, if there is a wos-ctl.
CreateProcess(c) ==
    /\ pc[c] = "create"
    /\ \/ ctl /\ Fail(c)
       \/ /\ ctl
          /\ \E k \in {"ready", "running"} : kernel' = [kernel EXCEPT ![pid[c]] = k]
          /\ Goto(c, "insert")
          /\ UNCHANGED <<ctl, inWos, adapter>>
       \/ ~ctl /\ Goto(c, "insert") /\ UNCHANGED <<external, adapter>>

InsertProcess(c) ==
    /\ pc[c] = "insert"
    /\ table' = [table EXCEPT ![pid[c]] = "running"]
    /\ handles' = handles \cup {pid[c]}
    /\ Return(c, "ok")
    /\ UNCHANGED <<external, nextPid>>

(* signal, and the Term of stop() *)

BeginSignal(c) ==
    /\ \E p \in handles, s \in Signals :
           Begin(c, "signal", IF kind = "core" THEN "send" ELSE "update", p, s)
    /\ UNCHANGED <<external, adapter>>

\* Only duende-core has a stop().
BeginStop(c) ==
    /\ kind = "core"
    /\ \E p \in handles : Begin(c, "stop", "send", p, "Term")
    /\ UNCHANGED <<external, adapter>>

\* wos-ctl signal, if there is a wos-ctl.
SendSignal(c) ==
    /\ pc[c] = "send"
    /\ \/ ctl /\ Fail(c)
       \/ /\ ctl /\ HasProcess(pid[c])
          /\ kernel' = [kernel EXCEPT ![pid[c]] = KernelAfter(kernel[pid[c]], sig[c])]
          /\ Goto(c, "update")
          /\ UNCHANGED <<ctl, inWos, adapter>>
       \/ ~ctl /\ Goto(c, "update") /\ UNCHANGED <<external, adapter>>

LocalAfter(state, s) ==
    CASE s = "Kill" -> "killed"
      [] s = "Term" -> "exited"
      [] s = "Stop" -> "stopped"
      [] s = "Cont" /\ state = "stopped" -> "running"
      [] OTHER -> state

UpdateState(c) ==
    /\ kind = "core" /\ pc[c] = "update"
    /\ table' = [table EXCEPT ![pid[c]] = IF @ = "none" THEN @ ELSE LocalAfter(@, sig[c])]
    /\ Signalled(c)
    /\ UNCHANGED <<external, nextPid, handles>>

\* apply_signal of the simulation, in which Blocked is what stopped is here.
SimulatedAfter(state, s) ==
    CASE s \in {"Kill", "Term"} -> "killed"
      [] s = "Stop" -> "stopped"
      [] s = "Cont" /\ state = "stopped" -> "running"
      [] OTHER -> state

\* Under the lock, which is dropped before the dead process is removed.
ApplySignal(c) ==
    /\ kind = "simulation" /\ pc[c] = "update"
    /\ IF table[pid[c]] = "none"
       THEN Fail(c)
       ELSE /\ table' = [table EXCEPT ![pid[c]] = SimulatedAfter(@, sig[c])]
            /\ IF table'[pid[c]] \in {"exited", "killed"} THEN Goto(c, "reap") ELSE Return(c, "ok")
            /\ UNCHANGED <<external, nextPid, handles>>

Reap_IfStillDead(c) ==
    /\ pc[c] = "reap"
    /\ table' = [table EXCEPT ![pid[c]] = IF @ = "killed" THEN "none" ELSE @]
    /\ Return(c, "ok")
    /\ UNCHANGED <<external, nextPid, handles>>

Reap(c) ==
    /\ pc[c] = "reap"
    /\ table' = [table EXCEPT ![pid[c]] = "none"]
    /\ Return(c, "ok")
    /\ UNCHANGED <<external, nextPid, handles>>

(* status, and the polls of stop() *)

BeginStatus(c) ==
    /\ \E p \in handles :
           Begin(c, "status", IF kind = "core" THEN "query" ELSE "look", p, "none")
    /\ UNCHANGED <<external, adapter>>

Named_StoppedEnds == [running |-> "Running", ready |-> "Starting", stopped |-> "Stopped",
                      exited |-> "Stopped", failed |-> "Failed"]

\* The words of wos-ctl status that the adapter looks for; "failed" is exited with
\* an exit code that is not 0.
Named == [running |-> "Running", ready |-> "Starting", stopped |-> "Paused",
          exited |-> "Stopped", failed |-> "Failed"]

\* wos-ctl status, if there is a wos-ctl; other words send it to the table.
QueryKernel(c) ==
    /\ pc[c] = "query"
    /\ \/ ctl /\ Fail(c)
       \/ /\ ctl
          /\ \/ kernel[pid[c]] \in {"none", "collected"} /\ Found(c, "Stopped")
             \/ kernel[pid[c]] \in DOMAIN Named /\ Found(c, Named[kernel[pid[c]]])
             \/ kernel[pid[c]] = "waiting" /\ Goto(c, "look")
          /\ UNCHANGED <<external, adapter>>
       \/ ~ctl /\ Goto(c, "look") /\ UNCHANGED <<external, adapter>>

LocalStatus == [none |-> "Stopped", running |-> "Running", stopped |-> "Paused",
                exited |-> "Stopped", killed |-> "Failed"]

SimulatedStatus == [LocalStatus EXCEPT !.stopped = "Running"]

LookUp(c) ==
    /\ pc[c] = "look"
    /\ Found(c, IF kind = "core" THEN LocalStatus[table[pid[c]]] ELSE SimulatedStatus[table[pid[c]]])
    /\ UNCHANGED <<external, adapter>>

StopExpires(c) ==
    /\ method[c] = "stop" /\ pc[c] = "query"
    /\ Return(c, "timeout")
    /\ UNCHANGED <<external, adapter>>

Next ==
    \/ \E c \in Callers :
           \/ Spawn(c) \/ RefuseSpawn(c) \/ CreateProcess(c) \/ InsertProcess(c)
           \/ BeginSignal(c) \/ BeginStop(c) \/ SendSignal(c) \/ UpdateState(c) \/ ApplySignal(c) \/ Reap(c)
           \/ BeginStatus(c) \/ QueryKernel(c) \/ LookUp(c) \/ StopExpires(c)
    \/ \E p \in Pids : Evolve(p)

Spec == Init /\ [][Next]_vars

(* In Spec, wos-ctl is there from the start or never.                       *)
FlipSpec == Init /\ [][Next \/ Flip]_vars

(* A task that waits for the lock of the table gets it.                     *)
FairSpec == Spec /\ \A c \in Callers : WF_vars(Reap(c))

-----------------------------------------------------------------------------

(* With wos-ctl at hand the kernel and the table of the core adapter        *)
(* (wos.rs l.237-272) know the same processes, but for one that a spawn is  *)
(* about to enter: neither a failed spawn nor another caller's leaves an    *)
(* entry without a process or a process without an entry.                   *)
TablesAgree ==
    kind = "core" /\ ctl =>
        \A p \in Pids :
            /\ table[p] # "none" => kernel[p] # "none"
            /\ kernel[p] # "none" => table[p] # "none" \/ \E c \in Callers : pc[c] = "insert" /\ pid[c] = p

(* No two spawns share a pid, and none takes that of a handle               *)
(* (wos.rs l.140-143, fetch_add).                                           *)
PidsAreOwn ==
    \A c \in Callers : pc[c] \in {"create", "insert"} =>
        /\ pid[c] \notin handles
        /\ \A d \in Callers \ {c} : pc[d] \in {"create", "insert"} => pid[d] # pid[c]

(* The default stop() (adapter.rs l.478-492) over wos-ctl returns Ok only   *)
(* when the kernel's process is dead, whatever the local table says.        *)
StopMeansDown ==
    [][\A c \in Callers : ctl /\ method[c] = "stop" /\ pc'[c] = "idle" /\ answer'[c] = "ok" =>
           ~HasProcess(pid[c])]_vars

(* The simulation's signal() drops the lock between the death of a process  *)
(* and its removal (duende-platform wos.rs l.326-333): a dead process in    *)
(* the table has a caller on its way to remove it.                          *)
NoZombies ==
    kind = "simulation" =>
        \A p \in Pids : table[p] = "killed" => \E c \in Callers : pc[c] = "reap" /\ pid[c] = p

(* And is removed, even if another caller's signal changes it meanwhile.    *)
KilledIsReaped ==
    \A p \in Pids : kind = "simulation" /\ table[p] = "killed" ~> table[p] = "none"

(* "All state transitions are verified before execution" (duende-platform   *)
(* wos.rs l.22): a process that was killed or exited does not run again.    *)
DeadStaysDead ==
    [][\A p \in Pids : table[p] \in {"exited", "killed"} => table'[p] \in {"exited", "killed", "none"}]_vars

=============================================================================
