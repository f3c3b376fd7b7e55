---------------------------- MODULE CommandAdapters ----------------------------
(***************************************************************************)
(* The adapters that drive a platform through its command line tool:       *)
(* systemd, container, launchd and pepita of duende-core, and linux, macos,*)
(* oci (container.rs) and vm (pepita.rs) of duende-platform.  They keep no *)
(* state that they read again: every method runs one or a few commands and *)
(* interprets what these print, while the services start, end and restart  *)
(* by themselves.  A run of the model is about one kind of adapter; the    *)
(* container adapter is "container" over docker or podman and "containerd" *)
(* over ctr, and oci's nerdctl is as its docker.                           *)
(*                                                                         *)
(* Each command is one step, since another caller or the service may act   *)
(* between two of them; any of them may fail to run at all.  Output is the *)
(* words the adapter looks for in it.  Signals other than Term and Kill    *)
(* differ only in name here.  The map of VMs of pepita.rs, written but     *)
(* never read, is left out.                                                *)
(***************************************************************************)
EXTENDS Naturals

CONSTANTS
    Callers,
    Services,       \* daemon names: units, containers, labels, VMs
    Kinds,          \* adapters to choose from
    Lives,          \* the states each kind's tool has a word for
    Operations,     \* methods each caller uses
    Respawn,        \* TRUE: any name may be spawned while it is in use
    Refusals,       \* commands that may exit with an error for no reason of their own
    Contains        \* pairs <<s, t>>: the label of t contains that of s

ContainerKinds == {"container", "containerd"}
CoreKinds == ContainerKinds \cup {"systemd", "launchd", "pepita"}
FileKinds == {"launchd", "linux", "macos"}
Life == {"absent", "starting", "running", "paused", "stopping", "restarting", "exited", "failed"}

ASSUME CommandAssumption ==
    /\ Kinds \subseteq CoreKinds \cup {"linux", "macos", "oci", "vm"}
    /\ Lives \in [Kinds -> SUBSET Life]
    /\ \A k \in Kinds : {"absent", "running", "exited", "failed"} \subseteq Lives[k]
    /\ Respawn \in BOOLEAN
    /\ Refusals \subseteq {"status", "remove"}
    /\ Contains \subseteq Services \X Services

VARIABLES
    kind,       \* the adapter in use
    compact,    \* its tool prints JSON without blanks
    life,       \* each service, as its tool knows it (external)
    file,       \* services whose plist or unit file is on disk
    handles,    \* services some spawn returned a handle for
    pc,         \* the command each caller runs next
    target,     \* and the service it is about
    answer      \* what the last method of each caller returned

vars == <<kind, compact, life, file, handles, pc, target, answer>>

Status == {"Created", "Starting", "Running", "Paused", "Stopping", "Stopped", "Failed"}
IsTerminal(st) == st \in {"Stopped", "Failed"}

HasProcess(s) == life[s] \in {"starting", "running", "paused", "stopping"}
Known(s)      == life[s] # "absent"

TypeOK ==
    /\ kind \in Kinds /\ compact \in BOOLEAN
    /\ life \in [Services -> Life]
    /\ \A s \in Services : life[s] \in Lives[kind]
    /\ file \subseteq Services
    /\ file # {} => kind \in FileKinds
    /\ handles \subseteq Services
    /\ pc \in [Callers -> {"idle", "prepare", "reload", "launch", "signal", "kill", "status",
                           "trace", "term", "poll", "remove", "unlink"}]
    /\ target \in [Callers -> Services]
    /\ answer \in [Callers -> Status \cup {"none", "ok", "error", "timeout"}]
    /\ \A c \in Callers : pc[c] \in {"term", "poll"} => kind \in CoreKinds

Init ==
    /\ kind \in Kinds
    /\ compact \in BOOLEAN /\ (compact => kind \in {"container", "pepita"})
    /\ life = [s \in Services |-> "absent"]
    /\ file = {} /\ handles = {}
    /\ pc = [c \in Callers |-> "idle"]
    /\ target \in [Callers -> Services]
    /\ answer = [c \in Callers |-> "none"]

-----------------------------------------------------------------------------
(* The platform (external)                                                  *)

\* The states whose words the adapter looks for, or for which its default is right.
KnownStates(k) ==
    CASE k \in {"systemd", "linux"} -> Life \ {"paused"}
      [] k = "container"            -> Life \ {"starting", "stopping"}
      [] k = "containerd"           -> Life \ {"starting", "stopping", "restarting"}
      [] k \in {"launchd", "macos"} -> Life \ {"starting", "paused", "stopping"}
      [] k = "pepita"               -> Life \ {"starting", "stopping", "restarting"}
      [] k = "oci"                  -> Life
      [] k = "vm"                   -> Life \ {"paused", "restarting"}

Moves == [absent     |-> {},
          starting   |-> {"running", "exited", "failed"},
          running    |-> {"paused", "stopping", "exited", "failed", "restarting"},
          paused     |-> {"running", "stopping", "failed"},
          stopping   |-> {"exited", "failed"},
          restarting |-> {"starting", "running", "failed"},
          exited     |-> {"absent"},
          failed     |-> {"absent"}]

\* A service handles a signal, ends, is restarted or collected.
Evolve(s) ==
    /\ \E l \in Moves[life[s]] \cap Lives[kind] : life' = [life EXCEPT ![s] = l]
    /\ UNCHANGED <<kind, compact, file, handles, pc, target, answer>>

Launched == IF "starting" \in Lives[kind] THEN {"starting", "running"} ELSE {"running"}
Killed   == {"failed", "restarting"} \cap Lives[kind]

\* What the tools print of a service in a state: the words looked for.
SystemctlStatus ==
    [absent     |-> {[code |-> 4, active |-> "none"]},
     starting   |-> {[code |-> 0, active |-> "activating"]},
     running    |-> {[code |-> 0, active |-> "active (running)"]},
     stopping   |-> {[code |-> 3, active |-> "deactivating"]},
     restarting |-> {[code |-> 0, active |-> "activating"]},
     exited     |-> {[code |-> 0, active |-> "active (exited)"], [code |-> 3, active |-> "inactive"]},
     failed     |-> {[code |-> 3, active |-> "failed"]}]

InspectFlags ==
    [running    |-> {{"Running"}},
     paused     |-> {{"Paused"}, {"Running", "Paused"}},
     restarting |-> {{"Restarting", "ExitCode"}, {"Running", "Restarting", "ExitCode"}},
     exited     |-> {{}},
     failed     |-> {{"ExitCode"}}]

InspectWord ==
    [starting   |-> {"created", "starting"},
     running    |-> {"running"},
     paused     |-> {"paused"},
     stopping   |-> {"removing"},
     restarting |-> {"restarting"},
     exited     |-> {"exited 0"},
     failed     |-> {"exited 1", "dead"}]

LaunchctlLine ==
    [running    |-> [pid |-> TRUE,  code |-> 0],
     restarting |-> [pid |-> FALSE, code |-> 1],
     exited     |-> [pid |-> FALSE, code |-> 0],
     failed     |-> [pid |-> FALSE, code |-> 1]]

ShowActiveState ==
    [absent |-> "inactive", starting |-> "activating", running |-> "active",
     stopping |-> "deactivating", restarting |-> "activating", exited |-> "inactive",
     failed |-> "failed"]

PepitaWord ==
    [starting |-> {"booting", "starting"}, running |-> {"running"}, paused |-> {"paused"},
     stopping |-> {"stopping"}, exited |-> {"stopped", "shutdown"}, failed |-> {"failed"}]

\* Whether there is a main process to name; a unit that starts or stops may have none.
HasMainPid ==
    [absent |-> {FALSE}, starting |-> BOOLEAN, running |-> {TRUE}, paused |-> {TRUE},
     stopping |-> BOOLEAN, restarting |-> {FALSE}, exited |-> {FALSE}, failed |-> {FALSE}]

-----------------------------------------------------------------------------
(* From output to DaemonStatus                                              *)

ParseSystemd_AnyActive(out) ==
    CASE out.code = 0 -> "Running"
      [] out.code # 0 /\ out.active = "deactivating" -> "Stopping"
      [] out.code # 0 /\ out.active = "failed" -> "Failed"
      [] OTHER -> "Stopped"

ParseSystemd(out) ==
    CASE out.code = 0 /\ out.active = "active (running)" -> "Running"
      [] out.code = 0 /\ out.active = "activating" -> "Starting"
      [] out.active = "deactivating" -> "Stopping"
      [] out.active = "failed" -> "Failed"
      [] OTHER -> "Stopped"

\* The flags are looked for with a blank after the colon, the exit code with and without.
ParseContainer(printed) ==
    LET out == IF compact THEN printed \cap {"ExitCode"} ELSE printed IN
    IF "Running" \in out THEN "Running"
    ELSE IF "Restarting" \in out THEN "Starting"
    ELSE IF "Paused" \in out THEN "Paused"
    ELSE IF "ExitCode" \in out THEN "Failed" ELSE "Stopped"

ParseLaunchd(line) ==
    CASE line.pid -> "Running"
      [] ~line.pid /\ line.code # 0 -> "Failed"
      [] OTHER -> "Stopped"

\* Only "running" is looked for without a blank as well.
ParsePepita(word) ==
    IF word \in (IF compact THEN {"running"} ELSE {"running", "paused", "failed"})
    THEN [running |-> "Running", paused |-> "Paused", failed |-> "Failed"][word]
    ELSE "Stopped"

ParseLinux(state) ==
    [active |-> "Running", inactive |-> "Stopped", failed |-> "Failed",
     activating |-> "Starting", deactivating |-> "Stopping"][state]

ParseOci(word) ==
    CASE word = "running" -> "Running"
      [] word = "exited 0" -> "Stopped"
      [] word \in {"exited 1", "dead"} -> "Failed"
      [] word = "created" -> "Created"
      [] word \in {"restarting", "starting"} -> "Starting"
      [] word \in {"paused", "removing"} -> "Stopping"

ParseVm(word) ==
    CASE word = "running" -> "Running"
      [] word \in {"stopped", "shutdown"} -> "Stopped"
      [] word = "failed" -> "Failed"
      [] word \in {"booting", "starting"} -> "Starting"
      [] word = "stopping" -> "Stopping"
      [] OTHER -> "Created"

-----------------------------------------------------------------------------
(* status(): what it may return for s.  Where the tool exits with an error  *)
(* for a service it does not know, the adapters take that for Stopped.      *)

SystemdStatus(s)   == { ParseSystemd(out) : out \in SystemctlStatus[life[s]] }
ContainerStatus(s) == IF Known(s) THEN { ParseContainer(out) : out \in InspectFlags[life[s]] }
                                  ELSE {"Stopped"}
ContainerdStatus   == { ParseContainer({}) }  \* the table of "ctr task list" has no flags
PepitaStatus(s)    == IF Known(s) THEN { ParsePepita(word) : word \in PepitaWord[life[s]] }
                                  ELSE {"Stopped"}
LinuxStatus(s)     == { ParseLinux(ShowActiveState[life[s]]) }
OciStatus(s)       == IF Known(s) THEN { ParseOci(word) : word \in InspectWord[life[s]] }
                                  ELSE {"Stopped"}
VmStatus(s)        == IF Known(s) THEN { ParseVm(word) : word \in PepitaWord[life[s]] }
                                  ELSE {"Stopped"}

\* The first line that contains the label, in the tool's order.
LaunchdStatus(s) ==
    LET lines == { t \in Services : Known(t) /\ (t = s \/ <<s, t>> \in Contains) } IN
    IF lines = {} THEN {"Stopped"} ELSE { ParseLaunchd(LaunchctlLine[life[t]]) : t \in lines }

\* The line whose label is that of s.
MacosStatus(s) ==
    IF Known(s) THEN { ParseLaunchd(LaunchctlLine[life[s]]) } ELSE {"Created"}

StatusOf(s) ==
    CASE kind = "systemd"   -> SystemdStatus(s)
      [] kind = "container" -> ContainerStatus(s)
      [] kind = "containerd" -> ContainerdStatus
      [] kind = "launchd"   -> LaunchdStatus(s)
      [] kind = "pepita"    -> PepitaStatus(s)
      [] kind = "linux"     -> LinuxStatus(s)
      [] kind = "macos"     -> MacosStatus(s)
      [] kind = "oci"       -> OciStatus(s)
      [] kind = "vm"        -> VmStatus(s)

\* An exit with an error is not told from a service that is not there.
WhenRefused == IF kind \in {"linux", "macos"} THEN "Created" ELSE "Stopped"

Statuses(s) == StatusOf(s) \cup (IF "status" \in Refusals THEN {WhenRefused} ELSE {})

-----------------------------------------------------------------------------
(* Methods *)

Return(c, a) ==
    /\ pc' = [pc EXCEPT ![c] = "idle"]
    /\ answer' = [answer EXCEPT ![c] = a]
    /\ UNCHANGED <<kind, compact, target>>

Goto(c, step) ==
    /\ pc' = [pc EXCEPT ![c] = step]
    /\ UNCHANGED <<kind, compact, target, answer>>

\* Any command may fail to run.
Fail(c) == Return(c, "error") /\ UNCHANGED <<life, file, handles>>

FirstStep(op) ==
    CASE op = "spawn" -> IF kind \in FileKinds \cup {"oci"} THEN "prepare" ELSE "launch"
      [] op = "stop"  -> "term"
      [] OTHER        -> op

\* systemctl start, launchctl load and the container's rm -f take a name in use.
MaySpawn(s) == Respawn \/ ~Known(s) \/ kind \in {"linux", "macos", "oci"}

\* duende-platform has no stop() and no way to remove a service.
Begin(c, op, s) ==
    /\ pc[c] = "idle" /\ op \in Operations[c]
    /\ IF op = "spawn" THEN MaySpawn(s) ELSE s \in handles
    /\ op \in {"stop", "remove"} => kind \in CoreKinds
    /\ target' = [target EXCEPT ![c] = s]
    /\ pc' = [pc EXCEPT ![c] = FirstStep(op)]
    /\ UNCHANGED <<kind, compact, life, file, handles, answer>>

(* spawn *)

WriteFile(c) ==
    /\ pc[c] = "prepare"
    /\ \/ Fail(c)
       \/ /\ file' = file \cup {target[c]}
          /\ Goto(c, IF kind = "linux" THEN "reload" ELSE "launch")
          /\ UNCHANGED <<life, handles>>

DaemonReload(c) ==
    /\ pc[c] = "reload"
    /\ \/ Fail(c)
       \/ Goto(c, "launch") /\ UNCHANGED <<life, file, handles>>

\* rm -f of a container of that name; its failure is ignored.  Handles carry the
\* container's id, those of the old one are of no use any more.
RemoveExisting(c) ==
    /\ pc[c] = "prepare"
    /\ \/ /\ life' = [life EXCEPT ![target[c]] = "absent"]
          /\ handles' = handles \ {target[c]}
       \/ UNCHANGED <<life, handles>>
    /\ Goto(c, "launch")
    /\ UNCHANGED file

\* The tool starts the service; a name in use is an error unless the tool takes it for done.
Start(c) ==
    LET s == target[c] IN
    /\ \/ ~Known(s) /\ \E l \in Launched : life' = [life EXCEPT ![s] = l]
       \/ /\ kind \in {"linux", "macos"} /\ Known(s)
          /\ IF HasProcess(s) THEN UNCHANGED life
             ELSE \E l \in Launched : life' = [life EXCEPT ![s] = l]
    /\ handles' = handles \cup {s}
    /\ Return(c, "ok")

\* systemd-run, docker run, pepita run, systemctl start, launchctl load.
Launch(c) ==
    /\ pc[c] = "launch"
    /\ \/ Fail(c)
       \/ Start(c) /\ UNCHANGED file

Bootstrap_Untidy(c) ==
    /\ pc[c] = "launch"
    /\ \/ Fail(c)
       \/ Start(c) /\ file' = file \ {target[c]}

\* A refused bootstrap removes the plist again, one that cannot run does not.
Bootstrap(c) ==
    /\ pc[c] = "launch"
    /\ \/ Fail(c)
       \/ Start(c) /\ UNCHANGED file
       \/ /\ file' = file \ {target[c]}
          /\ Return(c, "error")
          /\ UNCHANGED <<life, handles>>

SystemdSpawn(c)   == kind = "systemd"   /\ Launch(c)
ContainerSpawn(c) == kind \in ContainerKinds /\ Launch(c)
PepitaSpawn(c)    == kind = "pepita"    /\ Launch(c)
VmSpawn(c)        == kind = "vm"        /\ Launch(c)
LaunchdSpawn(c)   == kind = "launchd"   /\ (WriteFile(c) \/ Bootstrap(c))
LinuxSpawn(c)     == kind = "linux"     /\ (WriteFile(c) \/ DaemonReload(c) \/ Launch(c))
MacosSpawn(c)     == kind = "macos"     /\ (WriteFile(c) \/ Launch(c))
OciSpawn(c)       == kind = "oci"       /\ (RemoveExisting(c) \/ Launch(c))

Spawn(c) ==
    \/ SystemdSpawn(c) \/ ContainerSpawn(c) \/ PepitaSpawn(c) \/ VmSpawn(c)
    \/ LaunchdSpawn(c) \/ LinuxSpawn(c) \/ MacosSpawn(c) \/ OciSpawn(c)

(* signal *)

\* A Kill ends the process; what a Term does is up to the service.
Deliver(c, sig, next) ==
    /\ HasProcess(target[c])
    /\ IF sig = "Kill"
       THEN \E l \in Killed : life' = [life EXCEPT ![target[c]] = l]
       ELSE UNCHANGED life
    /\ next
    /\ UNCHANGED <<file, handles>>

SendSignal(c) ==
    /\ pc[c] = "signal"
    /\ Fail(c) \/ \E sig \in {"Term", "Kill"} : Deliver(c, sig, Return(c, "ok"))

\* macos.rs asks launchctl for the pid and then runs kill.
FindPid(c) ==
    /\ pc[c] = "signal"
    /\ \/ Fail(c)
       \/ HasProcess(target[c]) /\ Goto(c, "kill") /\ UNCHANGED <<life, file, handles>>

\* The process found may have ended since: the signal is lost or somebody else's.
KillPid(c) ==
    /\ pc[c] = "kill"
    /\ \/ Fail(c)
       \/ Return(c, "ok") /\ UNCHANGED <<life, file, handles>>
       \/ Deliver(c, "Kill", Return(c, "ok"))

SystemdSignal(c)   == kind = "systemd"   /\ SendSignal(c)
ContainerSignal(c) == kind \in ContainerKinds /\ SendSignal(c)
LaunchdSignal(c)   == kind = "launchd"   /\ SendSignal(c)
PepitaSignal(c)    == kind = "pepita"    /\ SendSignal(c)
LinuxSignal(c)     == kind = "linux"     /\ SendSignal(c)
OciSignal(c)       == kind = "oci"       /\ SendSignal(c)
VmSignal(c)        == kind = "vm"        /\ SendSignal(c)
MacosSignal(c)     == kind = "macos"     /\ (FindPid(c) \/ KillPid(c))

Signal(c) ==
    \/ SystemdSignal(c) \/ ContainerSignal(c) \/ LaunchdSignal(c) \/ PepitaSignal(c)
    \/ LinuxSignal(c) \/ OciSignal(c) \/ VmSignal(c) \/ MacosSignal(c)

(* status and the default stop() of the trait *)

QueryStatus(c) ==
    /\ pc[c] = "status"
    /\ \/ Fail(c)
       \/ \E st \in Statuses(target[c]) : Return(c, st)
    /\ UNCHANGED <<life, file, handles>>

StopTerm(c) ==
    /\ pc[c] = "term"
    /\ Fail(c) \/ Deliver(c, "Term", Goto(c, "poll"))

StopPoll_Impatient(c) ==
    /\ pc[c] = "poll"
    /\ \E st \in Statuses(target[c]) : st # "Running" /\ Return(c, "ok")
    /\ UNCHANGED <<life, file, handles>>

\* A poll that finds a terminal status; one that fails or finds another changes nothing.
StopPoll(c) ==
    /\ pc[c] = "poll"
    /\ \E st \in Statuses(target[c]) : IsTerminal(st) /\ Return(c, "ok")
    /\ UNCHANGED <<life, file, handles>>

StopExpires(c) ==
    /\ pc[c] = "poll"
    /\ Return(c, "timeout")
    /\ UNCHANGED <<life, file, handles>>

(* attach_tracer: a handle if the pid is found to be a number other than 0 *)

Attaches(c, found) ==
    /\ pc[c] = "trace"
    /\ Fail(c) \/ (TRUE \in found /\ Return(c, "ok") /\ UNCHANGED <<life, file, handles>>)

SystemdTrace(c)   == kind = "systemd"   /\ Attaches(c, HasMainPid[life[target[c]]])
ContainerTrace(c) == kind = "container" /\ Attaches(c, HasMainPid[life[target[c]]])
LinuxTrace(c)     == kind = "linux"     /\ Attaches(c, HasMainPid[life[target[c]]])
MacosTrace(c)     == kind = "macos"     /\ Attaches(c, HasMainPid[life[target[c]]])
OciTrace(c)       == kind = "oci"       /\ Attaches(c, HasMainPid[life[target[c]]])

\* ctr is not asked.
ContainerdTrace(c) == kind = "containerd" /\ Attaches(c, {})

\* The last word of launchctl's line is the pid with a semicolon, which is no number.
LaunchdTrace(c)   == kind = "launchd"   /\ Attaches(c, {})

\* pepita.rs of duende-core asks the handle only, the other one whether there is a VM.
PepitaTrace(c)    == kind = "pepita"    /\ Attaches(c, {TRUE})
VmTrace(c)        == kind = "vm"        /\ Attaches(c, {Known(target[c])})

AttachTracer(c) ==
    \/ SystemdTrace(c) \/ ContainerTrace(c) \/ ContainerdTrace(c) \/ LaunchdTrace(c) \/ PepitaTrace(c)
    \/ LinuxTrace(c) \/ MacosTrace(c) \/ OciTrace(c) \/ VmTrace(c)

(* Stopping or removing a service for good *)

Gone(c) == life' = [life EXCEPT ![target[c]] = "absent"]

\* The command succeeds, or its failure is the result.
RemoveOne(c) ==
    /\ pc[c] = "remove"
    /\ \/ Fail(c)
       \/ Gone(c) /\ Return(c, "ok") /\ UNCHANGED <<file, handles>>

SystemdStop(c)     == kind = "systemd"   /\ RemoveOne(c)
ContainerRemove(c) == kind \in ContainerKinds /\ RemoveOne(c)

\* A refused destroy is taken for a VM that is already gone.
PepitaDestroy(c) ==
    /\ kind = "pepita"
    /\ \/ RemoveOne(c)
       \/ /\ pc[c] = "remove" /\ "remove" \in Refusals
          /\ Return(c, "ok") /\ UNCHANGED <<life, file, handles>>

\* As is a refused bootout.
Bootout(c) ==
    /\ pc[c] = "remove"
    /\ \/ Fail(c)
       \/ /\ Gone(c) \/ ("remove" \in Refusals /\ UNCHANGED life)
          /\ Goto(c, "unlink")
          /\ UNCHANGED <<file, handles>>

Unlink(c) ==
    /\ pc[c] = "unlink"
    /\ file' = file \ {target[c]}
    /\ Return(c, "ok")
    /\ UNCHANGED <<life, handles>>

StopAndUnload(c) == kind = "launchd" /\ (Bootout(c) \/ Unlink(c))

Step(c) ==
    \/ Spawn(c) \/ Signal(c) \/ QueryStatus(c) \/ AttachTracer(c)
    \/ StopTerm(c) \/ StopPoll(c) \/ StopExpires(c)
    \/ SystemdStop(c) \/ ContainerRemove(c) \/ PepitaDestroy(c) \/ StopAndUnload(c)

Next ==
    \/ \E c \in Callers :
           \/ \E op \in {"spawn", "signal", "status", "trace", "stop", "remove"}, s \in Services : Begin(c, op, s)
           \/ Step(c)
    \/ \E s \in Services : Evolve(s)

Spec == Init /\ [][Next]_vars

-----------------------------------------------------------------------------

\* The adapter looks for what its tool prints: not for the table of ctr, nor for JSON without
\* blanks, which is how {{json .State}} is printed.
Readable == kind # "containerd" /\ ~compact

(* status() (systemd.rs l.248-264 and its likes) tells the truth about the  *)
(* service at the moment of the query, whatever it did before: Running of   *)
(* one that runs or is being restarted, Failed of one without a process, as *)
(* Stopped if the output is read at all, and one of these two of every      *)
(* service that has ended.                                                  *)
StatusIsTrue ==
    [][\A c \in Callers : QueryStatus(c) /\ answer'[c] \in Status =>
           LET s == target[c] IN
           /\ answer'[c] = "Running" => HasProcess(s) \/ life[s] = "restarting"
           /\ IsTerminal(answer'[c]) /\ (answer'[c] = "Failed" \/ Readable) => ~HasProcess(s)
           /\ life[s] \in {"exited", "failed"} => IsTerminal(answer'[c])]_vars

StopSucceeds(c) == pc[c] = "poll" /\ pc'[c] = "idle" /\ answer'[c] = "ok"

(* The default stop() (adapter.rs l.478-492) returns Ok only over a service *)
(* without a process, where the adapter reads what its tool prints.         *)
StopMeansDown ==
    [][\A c \in Callers : StopSucceeds(c) /\ Readable => ~HasProcess(target[c])]_vars

(* "Sends SIGTERM and waits for termination" (adapter.rs l.474) is said of  *)
(* every tool: the same where the adapter does not.                         *)
UnreadStopMeansDown ==
    [][\A c \in Callers : StopSucceeds(c) /\ ~Readable => ~HasProcess(target[c])]_vars

(* "Attaches a tracer to a running daemon" (adapter.rs l.466): what a       *)
(* tracer is attached to is running.                                        *)
TracedIsRunning ==
    [][\A c \in Callers : pc[c] = "trace" /\ pc'[c] = "idle" /\ answer'[c] = "ok" =>
           HasProcess(target[c])]_vars

(* A service launchd has loaded has its plist on disk (launchd.rs           *)
(* l.219-263, l.345-366), so that it is there after the next boot: neither  *)
(* a failed spawn nor the order of unloading leaves one without the other.  *)
LoadedHasPlist == kind = "launchd" => \A s \in Services : Known(s) => s \in file

=============================================================================
