------------------------- MODULE CommandAdaptersProofs ------------------------
(***************************************************************************)
(* Proofs about CommandAdapters, for any number of callers and services,   *)
(* as long as the tools answer in the words that the adapters know: types, *)
(* that status() tells the truth, that the default stop() of the trait,    *)
(* where the adapter reads the answers, succeeds only over a service       *)
(* without a process, and that launchd's plists stay with their services.  *)
(***************************************************************************)
EXTENDS CommandAdapters, TLAPS

(* What the code takes for granted of the tools: a status command fails     *)
(* only for a service that is not there, no label contains another, and     *)
(* every state has a word that is looked for.                               *)
ToolsAreKnown ==
    /\ "status" \notin Refusals
    /\ Contains = {}
    /\ \A k \in Kinds : Lives[k] \subseteq KnownStates(k)

(* What an adapter takes for the end of a service with a process is never   *)
(* printed of it, and what it takes for a failure not even where it does    *)
(* not read the output: the tables of words against the parsers.            *)
LEMMA TerminalIsDown ==
    ASSUME ToolsAreKnown, TypeOK, NEW s \in Services, NEW st \in Statuses(s), IsTerminal(st),
           st = "Failed" \/ Readable
    PROVE  ~HasProcess(s)
<1> SUFFICES ASSUME HasProcess(s) PROVE FALSE
    OBVIOUS
<1>1. st \in StatusOf(s)
    BY DEF Statuses, ToolsAreKnown
<1>2. life[s] \in KnownStates(kind)
    BY DEF TypeOK, ToolsAreKnown
<1>3. st \in {"Stopped", "Failed"}
    BY DEF IsTerminal
<1>4. life[s] \in {"starting", "running", "paused", "stopping"}
    BY DEF HasProcess
<1>5. Known(s)
    BY <1>4 DEF Known
<1>6. CASE kind = "systemd"
  <2>1. st \in SystemdStatus(s)
      BY <1>1, <1>6 DEF StatusOf
  <2>2. life[s] \in {"starting", "running", "stopping"}
      BY <1>2, <1>4, <1>6 DEF KnownStates
  <2>3. /\ SystemctlStatus["starting"] = {[code |-> 0, active |-> "activating"]}
        /\ SystemctlStatus["running"]  = {[code |-> 0, active |-> "active (running)"]}
        /\ SystemctlStatus["stopping"] = {[code |-> 3, active |-> "deactivating"]}
      BY DEF SystemctlStatus
  <2>4. PICK out \in SystemctlStatus[life[s]] : st = ParseSystemd(out)
      BY <2>1 DEF SystemdStatus
  <2>5. out \in {[code |-> 0, active |-> "activating"], [code |-> 0, active |-> "active (running)"],
                 [code |-> 3, active |-> "deactivating"]}
      BY <2>2, <2>3, <2>4
  <2>6. ParseSystemd(out) \in {"Running", "Starting", "Stopping"}
    <3>1. CASE out = [code |-> 0, active |-> "activating"]
        BY <3>1 DEF ParseSystemd
    <3>2. CASE out = [code |-> 0, active |-> "active (running)"]
        BY <3>2 DEF ParseSystemd
    <3>3. CASE out = [code |-> 3, active |-> "deactivating"]
        BY <3>3 DEF ParseSystemd
    <3> QED
        BY <2>5, <3>1, <3>2, <3>3
  <2> QED
      BY <1>3, <2>4, <2>6
<1>7. CASE kind = "container"
  <2>1. st \in ContainerStatus(s)
      BY <1>1, <1>7 DEF StatusOf
  <2>2. life[s] \in {"running", "paused"}
      BY <1>2, <1>4, <1>7 DEF KnownStates
  <2> QED
      BY <1>3, <1>5, <2>1, <2>2 DEF ContainerStatus, InspectFlags, ParseContainer, Readable
<1>14. CASE kind = "containerd"
  <2>1. st = "Stopped"
      BY <1>1, <1>14 DEF StatusOf, ContainerdStatus, ParseContainer
  <2> QED
      BY <1>14, <2>1 DEF Readable
<1>8. CASE kind = "launchd"
  <2>1. st \in LaunchdStatus(s)
      BY <1>1, <1>8 DEF StatusOf
  <2>2. life[s] = "running"
      BY <1>2, <1>4, <1>8 DEF KnownStates
  <2>3. { t \in Services : Known(t) /\ (t = s \/ <<s, t>> \in Contains) } = {s}
      BY <1>5 DEF ToolsAreKnown
  <2>4. st = ParseLaunchd(LaunchctlLine[life[s]])
      BY <2>1, <2>3 DEF LaunchdStatus
  <2> QED
      BY <1>3, <2>2, <2>4 DEF LaunchctlLine, ParseLaunchd
<1>9. CASE kind = "pepita"
  <2>1. st \in PepitaStatus(s)
      BY <1>1, <1>9 DEF StatusOf
  <2>2. life[s] \in {"running", "paused"}
      BY <1>2, <1>4, <1>9 DEF KnownStates
  <2> QED
      BY <1>3, <1>5, <2>1, <2>2 DEF PepitaStatus, PepitaWord, ParsePepita, Readable
<1>10. CASE kind = "linux"
  <2>1. st \in LinuxStatus(s)
      BY <1>1, <1>10 DEF StatusOf
  <2>2. life[s] \in {"starting", "running", "stopping"}
      BY <1>2, <1>4, <1>10 DEF KnownStates
  <2> QED
      BY <1>3, <2>1, <2>2 DEF LinuxStatus, ShowActiveState, ParseLinux
<1>11. CASE kind = "macos"
  <2>1. st \in MacosStatus(s)
      BY <1>1, <1>11 DEF StatusOf
  <2>2. life[s] = "running"
      BY <1>2, <1>4, <1>11 DEF KnownStates
  <2> QED
      BY <1>3, <1>5, <2>1, <2>2 DEF MacosStatus, LaunchctlLine, ParseLaunchd
<1>12. CASE kind = "oci"
  <2>1. st \in OciStatus(s)
      BY <1>1, <1>12 DEF StatusOf
  <2>2. PICK word \in InspectWord[life[s]] : st = ParseOci(word)
      BY <1>5, <2>1 DEF OciStatus
  <2>3. /\ InspectWord["starting"] = {"created", "starting"}
        /\ InspectWord["running"]  = {"running"}
        /\ InspectWord["paused"]   = {"paused"}
        /\ InspectWord["stopping"] = {"removing"}
      BY DEF InspectWord
  <2>4. word \in {"created", "starting", "running", "paused", "removing"}
      BY <1>4, <2>2, <2>3
  <2>5. ParseOci(word) \in {"Running", "Created", "Starting", "Stopping"}
    <3>1. word = "created" => ParseOci(word) = "Created"      BY DEF ParseOci
    <3>2. word = "starting" => ParseOci(word) = "Starting"    BY DEF ParseOci
    <3>3. word = "running" => ParseOci(word) = "Running"      BY DEF ParseOci
    <3>4. word \in {"paused", "removing"} => ParseOci(word) = "Stopping"
        BY DEF ParseOci
    <3> QED
        BY <2>4, <3>1, <3>2, <3>3, <3>4
  <2> QED
      BY <1>3, <2>2, <2>5
<1>13. CASE kind = "vm"
  <2>1. st \in VmStatus(s)
      BY <1>1, <1>13 DEF StatusOf
  <2>2. life[s] \in {"starting", "running", "stopping"}
      BY <1>2, <1>4, <1>13 DEF KnownStates
  <2> QED
      BY <1>3, <1>5, <2>1, <2>2 DEF VmStatus, PepitaWord, ParseVm
<1> QED
    BY <1>6, <1>7, <1>8, <1>9, <1>10, <1>11, <1>12, <1>13, <1>14, CommandAssumption
       DEF TypeOK, CoreKinds, ContainerKinds

-----------------------------------------------------------------------------
(* Whatever a service does, what status() makes of it is a DaemonStatus: no *)
(* state of a known tool falls between the arms of a parser.                *)
LEMMA StatusIsTyped ==
    ASSUME ToolsAreKnown, TypeOK, NEW s \in Services
    PROVE  Statuses(s) \subseteq Status
<1>1. life[s] \in KnownStates(kind) /\ life[s] \in Life
    BY DEF TypeOK, ToolsAreKnown
<1>2. Statuses(s) = StatusOf(s)
    BY DEF Statuses, ToolsAreKnown
<1>3. \A line : ParseLaunchd(line) \in Status
    BY DEF ParseLaunchd, Status
<1>4. CASE kind = "systemd"
  <2>1. \A out : ParseSystemd(out) \in Status
      BY DEF ParseSystemd, Status
  <2> QED
      BY <1>2, <1>4, <2>1 DEF StatusOf, SystemdStatus
<1>5. CASE kind = "container"
  <2>1. \A out : ParseContainer(out) \in Status
      BY DEF ParseContainer, Status
  <2> QED
      BY <1>2, <1>5, <2>1 DEF StatusOf, ContainerStatus, Status
<1>12. CASE kind = "containerd"
    BY <1>2, <1>12 DEF StatusOf, ContainerdStatus, ParseContainer, Status
<1>6. CASE kind = "launchd"
    BY <1>2, <1>3, <1>6 DEF StatusOf, LaunchdStatus, Status
<1>7. CASE kind = "pepita"
  <2>1. \A word : ParsePepita(word) \in Status
      BY DEF ParsePepita, Status
  <2> QED
      BY <1>2, <1>7, <2>1 DEF StatusOf, PepitaStatus, Status
<1>8. CASE kind = "linux"
  <2>1. life[s] \in {"absent", "starting", "running", "stopping", "restarting", "exited", "failed"}
      BY <1>1, <1>8 DEF KnownStates, Life
  <2>2. ParseLinux(ShowActiveState[life[s]]) \in Status
      BY <2>1 DEF ParseLinux, ShowActiveState, Status
  <2> QED
      BY <1>2, <1>8, <2>2 DEF StatusOf, LinuxStatus
<1>9. CASE kind = "macos"
    BY <1>2, <1>3, <1>9 DEF StatusOf, MacosStatus, Status
<1>10. CASE kind = "oci"
  <2> SUFFICES ASSUME Known(s), NEW word \in InspectWord[life[s]]
               PROVE  ParseOci(word) \in Status
      BY <1>2, <1>10 DEF StatusOf, OciStatus, Status
  <2>1. /\ InspectWord["starting"]   = {"created", "starting"}
        /\ InspectWord["running"]    = {"running"}
        /\ InspectWord["paused"]     = {"paused"}
        /\ InspectWord["stopping"]   = {"removing"}
        /\ InspectWord["restarting"] = {"restarting"}
        /\ InspectWord["exited"]     = {"exited 0"}
        /\ InspectWord["failed"]     = {"exited 1", "dead"}
      BY DEF InspectWord
  <2>2. word \in {"created", "starting", "running", "paused", "removing", "restarting",
                  "exited 0", "exited 1", "dead"}
      BY <1>1, <2>1 DEF Known, Life
  <2>3. CASE word \in {"running", "exited 0", "exited 1", "dead"}
      BY <2>3 DEF ParseOci, Status
  <2>4. CASE word \in {"created", "restarting", "starting", "paused", "removing"}
      BY <2>4 DEF ParseOci, Status
  <2> QED
      BY <2>2, <2>3, <2>4
<1>11. CASE kind = "vm"
  <2>1. \A word : ParseVm(word) \in Status
      BY DEF ParseVm, Status
  <2> QED
      BY <1>2, <1>11, <2>1 DEF StatusOf, VmStatus, Status
<1> QED
    BY <1>4, <1>5, <1>6, <1>7, <1>8, <1>9, <1>10, <1>11, <1>12, CommandAssumption
       DEF TypeOK, CoreKinds, ContainerKinds

(* A step of a method concerns its caller only, and ends it or leads to the *)
(* next command.                                                            *)
Steps == {"idle", "prepare", "reload", "launch", "signal", "kill", "status", "trace",
          "term", "poll", "remove", "unlink"}

\* The default stop() polls after its Term only.
Moved(c) ==
    /\ \E p \in Steps \ {"term"} :
          pc' = [pc EXCEPT ![c] = p] /\ (p = "poll" => pc[c] = "term")
    /\ UNCHANGED <<kind, compact, target>>

LEMMA StepMovesOne ==
    ASSUME NEW c \in Callers, Step(c)
    PROVE  Moved(c)
<1>1. ASSUME Spawn(c)
      PROVE  Moved(c)
    BY <1>1 DEF Spawn, SystemdSpawn, ContainerSpawn, PepitaSpawn, VmSpawn, LaunchdSpawn, LinuxSpawn,
        MacosSpawn, OciSpawn, WriteFile, DaemonReload, RemoveExisting, Launch, Bootstrap, Start,
        Fail, Return, Goto, Moved, Steps
<1>2. ASSUME Signal(c)
      PROVE  Moved(c)
    BY <1>2 DEF Signal, SystemdSignal, ContainerSignal, LaunchdSignal, PepitaSignal, LinuxSignal,
        OciSignal, VmSignal, MacosSignal, SendSignal, FindPid, KillPid, Deliver,
        Fail, Return, Goto, Moved, Steps
<1>3. ASSUME QueryStatus(c) \/ StopTerm(c) \/ StopPoll(c) \/ StopExpires(c)
      PROVE  Moved(c)
    BY <1>3 DEF QueryStatus, StopTerm, StopPoll, StopExpires, Deliver, Fail, Return, Goto, Moved, Steps
<1>4. ASSUME SystemdStop(c) \/ ContainerRemove(c) \/ PepitaDestroy(c) \/ StopAndUnload(c)
      PROVE  Moved(c)
    BY <1>4 DEF SystemdStop, ContainerRemove, PepitaDestroy, StopAndUnload, RemoveOne, Bootout,
        Unlink, Fail, Return, Goto, Moved, Steps
<1>5. ASSUME AttachTracer(c)
      PROVE  Moved(c)
    BY <1>5 DEF AttachTracer, SystemdTrace, ContainerTrace, ContainerdTrace, LaunchdTrace,
        PepitaTrace, LinuxTrace, MacosTrace, OciTrace, VmTrace, Attaches, Fail, Return, Moved, Steps
<1> QED
    BY <1>1, <1>2, <1>3, <1>4, <1>5 DEF Step

-----------------------------------------------------------------------------
(* A service enters only states that its tool has a word for.               *)

\* The part of TypeOK that is not about the callers.
PlatformOK ==
    /\ kind \in Kinds /\ compact \in BOOLEAN
    /\ life \in [Services -> Life]
    /\ \A s \in Services : life[s] \in Lives[kind]
    /\ file \subseteq Services
    /\ file # {} => kind \in FileKinds
    /\ handles \subseteq Services

LEMMA LaunchedIsKnown ==
    ASSUME PlatformOK
    PROVE  Launched \cup Killed \cup {"absent"} \subseteq Lives[kind] \cap Life
<1>1. Lives[kind] \subseteq Life /\ {"absent", "running", "failed"} \subseteq Lives[kind]
    BY CommandAssumption DEF PlatformOK
<1> QED
    BY <1>1 DEF Launched, Killed

LEMMA LifeStaysTyped ==
    ASSUME PlatformOK, NEW s \in Services, NEW l \in Lives[kind] \cap Life,
           life' = [life EXCEPT ![s] = l], kind' = kind
    PROVE  life' \in [Services -> Life] /\ \A t \in Services : life'[t] \in Lives[kind']
    BY DEF PlatformOK

LEMMA StepKeepsPlatform ==
    ASSUME PlatformOK, NEW c \in Callers, target[c] \in Services, Step(c)
    PROVE  PlatformOK'
<1> DEFINE s == target[c]
<1>1. s \in Services /\ kind' = kind /\ compact' = compact
    BY StepMovesOne DEF Moved
<1>2. ASSUME NEW l \in Launched \cup Killed \cup {"absent"}, life' = [life EXCEPT ![s] = l]
      PROVE  life' \in [Services -> Life] /\ \A t \in Services : life'[t] \in Lives[kind']
    BY <1>1, <1>2, LaunchedIsKnown, LifeStaysTyped
<1>3. \/ life' = life
      \/ \E l \in Launched \cup Killed \cup {"absent"} : life' = [life EXCEPT ![s] = l]
  <2>1. CASE Spawn(c)
      BY <2>1 DEF Spawn, SystemdSpawn, ContainerSpawn, PepitaSpawn, VmSpawn, LaunchdSpawn, LinuxSpawn,
          MacosSpawn, OciSpawn, WriteFile, DaemonReload, RemoveExisting, Launch, Bootstrap, Start, Fail
  <2>2. CASE Signal(c)
      BY <2>2 DEF Signal, SystemdSignal, ContainerSignal, LaunchdSignal, PepitaSignal, LinuxSignal,
          OciSignal, VmSignal, MacosSignal, SendSignal, FindPid, KillPid, Deliver, Fail
  <2>3. CASE QueryStatus(c) \/ StopTerm(c) \/ StopPoll(c) \/ StopExpires(c)
      BY <2>3 DEF QueryStatus, StopTerm, StopPoll, StopExpires, Deliver, Fail
  <2>4. CASE SystemdStop(c) \/ ContainerRemove(c) \/ PepitaDestroy(c) \/ StopAndUnload(c)
      BY <2>4 DEF SystemdStop, ContainerRemove, PepitaDestroy, StopAndUnload, RemoveOne, Gone,
          Bootout, Unlink, Fail
  <2>5. CASE AttachTracer(c)
      BY <2>5 DEF AttachTracer, SystemdTrace, ContainerTrace, ContainerdTrace, LaunchdTrace,
          PepitaTrace, LinuxTrace, MacosTrace, OciTrace, VmTrace, Attaches, Fail
  <2> QED
      BY <2>1, <2>2, <2>3, <2>4, <2>5 DEF Step
<1>4. /\ file' \subseteq file \cup {s} /\ handles' \subseteq handles \cup {s}
      /\ file' \subseteq file \/ kind \in FileKinds
  <2>1. CASE Spawn(c)
      BY <2>1 DEF Spawn, SystemdSpawn, ContainerSpawn, PepitaSpawn, VmSpawn, LaunchdSpawn, LinuxSpawn,
          MacosSpawn, OciSpawn, WriteFile, DaemonReload, RemoveExisting, Launch, Bootstrap, Start,
          Fail, FileKinds
  <2>2. CASE Signal(c)
      BY <2>2 DEF Signal, SystemdSignal, ContainerSignal, LaunchdSignal, PepitaSignal, LinuxSignal,
          OciSignal, VmSignal, MacosSignal, SendSignal, FindPid, KillPid, Deliver, Fail
  <2>3. CASE QueryStatus(c) \/ StopTerm(c) \/ StopPoll(c) \/ StopExpires(c)
      BY <2>3 DEF QueryStatus, StopTerm, StopPoll, StopExpires, Deliver, Fail
  <2>4. CASE SystemdStop(c) \/ ContainerRemove(c) \/ PepitaDestroy(c) \/ StopAndUnload(c)
      BY <2>4 DEF SystemdStop, ContainerRemove, PepitaDestroy, StopAndUnload, RemoveOne,
          Bootout, Unlink, Fail
  <2>5. CASE AttachTracer(c)
      BY <2>5 DEF AttachTracer, SystemdTrace, ContainerTrace, ContainerdTrace, LaunchdTrace,
          PepitaTrace, LinuxTrace, MacosTrace, OciTrace, VmTrace, Attaches, Fail
  <2> QED
      BY <2>1, <2>2, <2>3, <2>4, <2>5 DEF Step
<1> QED
    BY <1>1, <1>2, <1>3, <1>4 DEF PlatformOK

LEMMA EvolvingKeepsPlatform ==
    ASSUME PlatformOK, NEW s \in Services, Evolve(s)
    PROVE  PlatformOK'
<1>1. PICK l \in Moves[life[s]] \cap Lives[kind] : life' = [life EXCEPT ![s] = l]
    BY DEF Evolve
<1>2. Lives[kind] \subseteq Life
    BY CommandAssumption DEF PlatformOK
<1>3. life' \in [Services -> Life] /\ \A t \in Services : life'[t] \in Lives[kind']
    BY <1>1, <1>2, LifeStaysTyped DEF Evolve
<1>4. UNCHANGED <<kind, compact, file, handles>>
    BY DEF Evolve
<1> QED
    BY <1>3, <1>4 DEF PlatformOK

LEMMA StepKeepsAnswers ==
    ASSUME ToolsAreKnown, TypeOK, NEW c \in Callers, Step(c)
    PROVE  answer' \in [Callers -> Status \cup {"none", "ok", "error", "timeout"}]
<1>1. \A a : a \in Status \cup {"none", "ok", "error", "timeout"} =>
         [answer EXCEPT ![c] = a] \in [Callers -> Status \cup {"none", "ok", "error", "timeout"}]
    BY DEF TypeOK
<1>2. Statuses(target[c]) \subseteq Status
    BY StatusIsTyped DEF TypeOK
<1>3. answer' = answer \/ \E a \in Status \cup {"ok", "error", "timeout"} : answer' = [answer EXCEPT ![c] = a]
  <2>1. CASE Spawn(c)
      BY <2>1 DEF Spawn, SystemdSpawn, ContainerSpawn, PepitaSpawn, VmSpawn, LaunchdSpawn, LinuxSpawn,
          MacosSpawn, OciSpawn, WriteFile, DaemonReload, RemoveExisting, Launch, Bootstrap, Start,
          Fail, Return, Goto
  <2>2. CASE Signal(c)
      BY <2>2 DEF Signal, SystemdSignal, ContainerSignal, LaunchdSignal, PepitaSignal, LinuxSignal,
          OciSignal, VmSignal, MacosSignal, SendSignal, FindPid, KillPid, Deliver, Fail, Return, Goto
  <2>3. CASE QueryStatus(c) \/ StopTerm(c) \/ StopPoll(c) \/ StopExpires(c)
      BY <2>3, <1>2 DEF QueryStatus, StopTerm, StopPoll, StopExpires, Deliver, Fail, Return, Goto
  <2>4. CASE SystemdStop(c) \/ ContainerRemove(c) \/ PepitaDestroy(c) \/ StopAndUnload(c)
      BY <2>4 DEF SystemdStop, ContainerRemove, PepitaDestroy, StopAndUnload, RemoveOne,
          Bootout, Unlink, Fail, Return, Goto
  <2>5. CASE AttachTracer(c)
      BY <2>5 DEF AttachTracer, SystemdTrace, ContainerTrace, ContainerdTrace, LaunchdTrace,
          PepitaTrace, LinuxTrace, MacosTrace, OciTrace, VmTrace, Attaches, Fail, Return
  <2> QED
      BY <2>1, <2>2, <2>3, <2>4, <2>5 DEF Step
<1> QED
    BY <1>1, <1>3 DEF TypeOK

(* Types of CommandAdapters (every method of the eight adapters): a service *)
(* stays in states of its tool, methods return statuses or results, only    *)
(* adapters that keep files leave some, and stop() is that of duende-core.  *)
THEOREM CommandTypeCorrect == ASSUME ToolsAreKnown PROVE Spec => []TypeOK
<1>1. Init => TypeOK
    BY CommandAssumption DEF Init, TypeOK
<1>2. TypeOK /\ [Next]_vars => TypeOK'
  <2> SUFFICES ASSUME TypeOK, [Next]_vars PROVE TypeOK'
      OBVIOUS
  <2>1. CASE UNCHANGED vars
      BY <2>1 DEF vars, TypeOK
  <2>2. ASSUME NEW c \in Callers, NEW op \in {"spawn", "signal", "status", "trace", "stop", "remove"},
               NEW s \in Services, Begin(c, op, s)
        PROVE  TypeOK'
    <3>1. FirstStep(op) \in {"prepare", "launch", "term", "signal", "status", "trace", "remove"}
        BY DEF FirstStep
    <3>2. FirstStep(op) = "term" => kind \in CoreKinds
        BY <2>2 DEF FirstStep, Begin
    <3> QED
        BY <2>2, <3>1, <3>2 DEF Begin, TypeOK
  <2>3. ASSUME NEW c \in Callers, Step(c)
        PROVE  TypeOK'
    <3>1. PICK p \in Steps \ {"term"} :
             pc' = [pc EXCEPT ![c] = p] /\ (p = "poll" => pc[c] = "term")
        BY <2>3, StepMovesOne DEF Moved
    <3>2. kind' = kind /\ target' = target
        BY <2>3, StepMovesOne DEF Moved
    <3> QED
        BY <2>3, <3>1, <3>2, StepKeepsPlatform, StepKeepsAnswers DEF TypeOK, PlatformOK, Steps
  <2>4. ASSUME NEW s \in Services, Evolve(s)
        PROVE  TypeOK'
    <3>1. PlatformOK'
        BY <2>4, EvolvingKeepsPlatform DEF TypeOK, PlatformOK
    <3> QED
        BY <2>4, <3>1 DEF Evolve, TypeOK, PlatformOK
  <2> QED
      BY <2>1, <2>2, <2>3, <2>4 DEF Next
<1> QED
    BY <1>1, <1>2, PTL DEF Spec

(* Of all steps only a poll of the caller itself ends its stop() with Ok.   *)
LEMMA OnlyPollsSucceed ==
    ASSUME TypeOK, Next, NEW c \in Callers,
           pc[c] = "poll", pc'[c] = "idle", answer'[c] = "ok"
    PROVE  StopPoll(c)
<1>1. ASSUME NEW s \in Services, Evolve(s)
      PROVE  FALSE
    BY <1>1 DEF Evolve
<1>2. ASSUME NEW d \in Callers, NEW op, NEW s \in Services, Begin(d, op, s)
      PROVE  FALSE
  <2>1. pc'[c] = pc[c]
      BY <1>2 DEF Begin, TypeOK
  <2> QED
      BY <2>1
<1>3. PICK d \in Callers : Step(d)
    BY <1>1, <1>2 DEF Next
<1>4. d = c
    BY <1>3, StepMovesOne DEF Moved, TypeOK
<1>5. ~Spawn(c)
    BY DEF Spawn, SystemdSpawn, ContainerSpawn, PepitaSpawn, VmSpawn, LaunchdSpawn, LinuxSpawn,
        MacosSpawn, OciSpawn, WriteFile, DaemonReload, RemoveExisting, Launch, Bootstrap
<1>6. ~Signal(c)
    BY DEF Signal, SystemdSignal, ContainerSignal, LaunchdSignal, PepitaSignal, LinuxSignal,
        OciSignal, VmSignal, MacosSignal, SendSignal, FindPid, KillPid
<1>7. ~SystemdStop(c) /\ ~ContainerRemove(c) /\ ~PepitaDestroy(c) /\ ~StopAndUnload(c)
    BY DEF SystemdStop, ContainerRemove, PepitaDestroy, StopAndUnload, RemoveOne, Bootout, Unlink
<1>8. ~StopExpires(c)
    BY DEF StopExpires, Return, TypeOK
<1>9. ~QueryStatus(c) /\ ~StopTerm(c) /\ ~AttachTracer(c)
    BY DEF QueryStatus, StopTerm, AttachTracer, SystemdTrace, ContainerTrace, ContainerdTrace, LaunchdTrace,
        PepitaTrace, LinuxTrace, MacosTrace, OciTrace, VmTrace, Attaches
<1> QED
    BY <1>3, <1>4, <1>5, <1>6, <1>7, <1>8, <1>9 DEF Step

(* The default stop() (adapter.rs l.478-492) returns Ok only over a service *)
(* without a process, for any number of callers and services, if the tools  *)
(* answer in known words and the adapter reads them.                        *)
THEOREM CommandStopMeansDown == ASSUME ToolsAreKnown PROVE Spec => StopMeansDown
<1>1. TypeOK /\ [Next]_vars =>
         [\A c \in Callers : StopSucceeds(c) /\ Readable => ~HasProcess(target[c])]_vars
  <2> SUFFICES ASSUME TypeOK, Next, NEW c \in Callers, StopSucceeds(c), Readable
               PROVE  ~HasProcess(target[c])
      OBVIOUS
  <2>1. PICK st \in Statuses(target[c]) : IsTerminal(st)
      BY OnlyPollsSucceed DEF StopPoll, StopSucceeds
  <2> QED
      BY <2>1, TerminalIsDown DEF TypeOK
<1>2. Spec => []TypeOK
    BY CommandTypeCorrect
<1> QED
    BY <1>1, <1>2, PTL DEF StopMeansDown, Spec

-----------------------------------------------------------------------------
(* What a status says, not only of a service with a process.                *)

SaysTrue(s, st) ==
    /\ st = "Running" => HasProcess(s) \/ life[s] = "restarting"
    /\ life[s] \in {"exited", "failed"} => IsTerminal(st)

(* One adapter at a time: each parser over the words of each state.         *)
LEMMA SystemdSaysTrue ==
    ASSUME TypeOK, NEW s \in Services, life[s] \in KnownStates("systemd"), NEW st \in SystemdStatus(s)
    PROVE  SaysTrue(s, st)
<1>1. life[s] \in {"absent", "starting", "running", "stopping", "restarting", "exited", "failed"}
    BY DEF KnownStates, Life
<1>2. PICK out \in SystemctlStatus[life[s]] : st = ParseSystemd(out)
    BY DEF SystemdStatus
<1>3. /\ SystemctlStatus["absent"]     = {[code |-> 4, active |-> "none"]}
      /\ SystemctlStatus["restarting"] = {[code |-> 0, active |-> "activating"]}
      /\ SystemctlStatus["exited"]     = {[code |-> 0, active |-> "active (exited)"],
                                          [code |-> 3, active |-> "inactive"]}
      /\ SystemctlStatus["failed"]     = {[code |-> 3, active |-> "failed"]}
    BY DEF SystemctlStatus
<1>4. CASE life[s] \in {"starting", "running", "stopping", "restarting"}
    BY <1>4 DEF SaysTrue, HasProcess
<1>5. CASE life[s] = "absent"
  <2>1. out = [code |-> 4, active |-> "none"]
      BY <1>2, <1>3, <1>5
  <2>2. st = "Stopped"
      BY <1>2, <2>1 DEF ParseSystemd
  <2> QED
      BY <1>5, <2>2 DEF SaysTrue
<1>6. CASE life[s] \in {"exited", "failed"}
  <2>1. \/ out = [code |-> 0, active |-> "active (exited)"]
        \/ out = [code |-> 3, active |-> "inactive"]
        \/ out = [code |-> 3, active |-> "failed"]
      BY <1>2, <1>3, <1>6
  <2>2. CASE out = [code |-> 0, active |-> "active (exited)"]
      BY <1>2, <1>6, <2>2 DEF ParseSystemd, SaysTrue, IsTerminal
  <2>3. CASE out = [code |-> 3, active |-> "inactive"]
      BY <1>2, <1>6, <2>3 DEF ParseSystemd, SaysTrue, IsTerminal
  <2>4. CASE out = [code |-> 3, active |-> "failed"]
      BY <1>2, <1>6, <2>4 DEF ParseSystemd, SaysTrue, IsTerminal
  <2> QED
      BY <2>1, <2>2, <2>3, <2>4
<1> QED
    BY <1>1, <1>4, <1>5, <1>6

LEMMA ContainerSaysTrue ==
    ASSUME TypeOK, NEW s \in Services, life[s] \in KnownStates("container"), NEW st \in ContainerStatus(s)
    PROVE  SaysTrue(s, st)
<1>1. life[s] \in {"absent", "running", "paused", "restarting", "exited", "failed"}
    BY DEF KnownStates, Life
<1>2. CASE Known(s)
    BY <1>1, <1>2 DEF ContainerStatus, InspectFlags, ParseContainer, Known, SaysTrue, HasProcess, IsTerminal
<1>3. CASE ~Known(s)
    BY <1>3 DEF ContainerStatus, Known, SaysTrue
<1> QED
    BY <1>2, <1>3

LEMMA ContainerdSaysTrue ==
    ASSUME NEW s \in Services, NEW st \in ContainerdStatus
    PROVE  SaysTrue(s, st)
BY DEF ContainerdStatus, ParseContainer, SaysTrue, IsTerminal

(* The line of launchctl, which launchd.rs and macos.rs read alike.         *)
LEMMA LineSaysTrue ==
    ASSUME NEW s, life[s] \in {"running", "restarting", "exited", "failed"}
    PROVE  SaysTrue(s, ParseLaunchd(LaunchctlLine[life[s]]))
<1>1. /\ LaunchctlLine["running"]    = [pid |-> TRUE,  code |-> 0]
      /\ LaunchctlLine["restarting"] = [pid |-> FALSE, code |-> 1]
      /\ LaunchctlLine["exited"]     = [pid |-> FALSE, code |-> 0]
      /\ LaunchctlLine["failed"]     = [pid |-> FALSE, code |-> 1]
    BY DEF LaunchctlLine
<1>2. CASE life[s] = "running"
    BY <1>1, <1>2 DEF SaysTrue, HasProcess
<1>3. CASE life[s] # "running"
    BY <1>1, <1>3 DEF SaysTrue, ParseLaunchd, IsTerminal
<1> QED
    BY <1>2, <1>3

LEMMA LaunchdSaysTrue ==
    ASSUME TypeOK, Contains = {}, NEW s \in Services, life[s] \in KnownStates("launchd"),
           NEW st \in LaunchdStatus(s) \cup MacosStatus(s)
    PROVE  SaysTrue(s, st)
<1>1. CASE Known(s)
  <2>1. life[s] \in {"running", "restarting", "exited", "failed"}
      BY <1>1 DEF KnownStates, Life, Known
  <2>2. { t \in Services : Known(t) /\ (t = s \/ <<s, t>> \in Contains) } = {s}
      BY <1>1
  <2>3. st = ParseLaunchd(LaunchctlLine[life[s]])
      BY <1>1, <2>2 DEF LaunchdStatus, MacosStatus
  <2> QED
      BY <2>1, <2>3, LineSaysTrue
<1>2. CASE ~Known(s)
  <2>1. { t \in Services : Known(t) /\ (t = s \/ <<s, t>> \in Contains) } = {}
      BY <1>2
  <2> QED
      BY <1>2, <2>1 DEF LaunchdStatus, MacosStatus, Known, SaysTrue
<1> QED
    BY <1>1, <1>2

LEMMA PepitaSaysTrue ==
    ASSUME TypeOK, NEW s \in Services, life[s] \in KnownStates("pepita"), NEW st \in PepitaStatus(s)
    PROVE  SaysTrue(s, st)
<1>1. life[s] \in {"absent", "running", "paused", "exited", "failed"}
    BY DEF KnownStates, Life
<1>2. CASE Known(s)
    BY <1>1, <1>2 DEF PepitaStatus, PepitaWord, ParsePepita, Known, SaysTrue, HasProcess, IsTerminal
<1>3. CASE ~Known(s)
    BY <1>3 DEF PepitaStatus, Known, SaysTrue
<1> QED
    BY <1>2, <1>3

LEMMA LinuxSaysTrue ==
    ASSUME TypeOK, NEW s \in Services, life[s] \in KnownStates("linux"), NEW st \in LinuxStatus(s)
    PROVE  SaysTrue(s, st)
<1>1. life[s] \in {"absent", "starting", "running", "stopping", "restarting", "exited", "failed"}
    BY DEF KnownStates, Life
<1> QED
    BY <1>1 DEF LinuxStatus, ParseLinux, ShowActiveState, SaysTrue, HasProcess, IsTerminal

LEMMA OciSaysTrue ==
    ASSUME TypeOK, NEW s \in Services, NEW st \in OciStatus(s)
    PROVE  SaysTrue(s, st)
<1>1. CASE ~Known(s)
    BY <1>1 DEF OciStatus, Known, SaysTrue
<1>2. CASE Known(s)
  <2>1. PICK word \in InspectWord[life[s]] : st = ParseOci(word)
      BY <1>2 DEF OciStatus
  <2>2. life[s] \in Life \ {"absent"}
      BY <1>2 DEF TypeOK, Known
  <2>3. CASE life[s] \in {"running", "starting", "paused", "stopping"}
      BY <2>3 DEF SaysTrue, HasProcess
  <2>4. CASE life[s] \in {"restarting", "exited", "failed"}
    <3>1. /\ InspectWord["restarting"] = {"restarting"}
          /\ InspectWord["exited"]     = {"exited 0"}
          /\ InspectWord["failed"]     = {"exited 1", "dead"}
        BY DEF InspectWord
    <3>2. life[s] = "exited" => st = "Stopped"
        BY <2>1, <3>1 DEF ParseOci
    <3>3. life[s] = "failed" => st = "Failed"
        BY <2>1, <3>1 DEF ParseOci
    <3> QED
        BY <2>4, <3>2, <3>3 DEF SaysTrue, IsTerminal
  <2> QED
      BY <2>2, <2>3, <2>4 DEF Life
<1> QED
    BY <1>1, <1>2

LEMMA VmSaysTrue ==
    ASSUME TypeOK, NEW s \in Services, life[s] \in KnownStates("vm"), NEW st \in VmStatus(s)
    PROVE  SaysTrue(s, st)
<1>1. CASE ~Known(s)
    BY <1>1 DEF VmStatus, Known, SaysTrue
<1>2. CASE Known(s)
  <2>1. PICK word \in PepitaWord[life[s]] : st = ParseVm(word)
      BY <1>2 DEF VmStatus
  <2>2. life[s] \in {"starting", "running", "stopping", "exited", "failed"}
      BY <1>2 DEF KnownStates, Life, Known
  <2>3. CASE life[s] \in {"running", "starting", "stopping"}
      BY <2>3 DEF SaysTrue, HasProcess
  <2>4. CASE life[s] = "exited"
      BY <2>1, <2>4 DEF PepitaWord, ParseVm, SaysTrue, IsTerminal
  <2>5. CASE life[s] = "failed"
      BY <2>1, <2>5 DEF PepitaWord, ParseVm, SaysTrue, IsTerminal
  <2> QED
      BY <2>2, <2>3, <2>4, <2>5
<1> QED
    BY <1>1, <1>2

LEMMA StatusesSayTrue ==
    ASSUME ToolsAreKnown, TypeOK, NEW s \in Services, NEW st \in Statuses(s)
    PROVE  SaysTrue(s, st)
<1>1. st \in StatusOf(s) /\ life[s] \in KnownStates(kind)
    BY DEF Statuses, ToolsAreKnown, TypeOK
<1>2. KnownStates("macos") = KnownStates("launchd")
    BY DEF KnownStates
<1>3. kind \in CoreKinds \cup {"linux", "macos", "oci", "vm"}
    BY CommandAssumption DEF TypeOK
<1> QED
    BY <1>1, <1>2, <1>3, SystemdSaysTrue, ContainerSaysTrue, ContainerdSaysTrue, LaunchdSaysTrue, PepitaSaysTrue,
       LinuxSaysTrue, OciSaysTrue, VmSaysTrue DEF StatusOf, CoreKinds, ContainerKinds, ToolsAreKnown

(* status() of all eight adapters (systemd.rs l.248-264 and its likes)      *)
(* tells the truth about the service at the moment of the query, for any    *)
(* services and callers, if the tools answer in words the adapter knows: a  *)
(* false Stopped comes only of output it does not read.                     *)
THEOREM StatusesAreTrue == ASSUME ToolsAreKnown PROVE Spec => StatusIsTrue
<1>1. TypeOK /\ [Next]_vars =>
         [\A c \in Callers : QueryStatus(c) /\ answer'[c] \in Status =>
             LET s == target[c] IN
             /\ answer'[c] = "Running" => HasProcess(s) \/ life[s] = "restarting"
             /\ IsTerminal(answer'[c]) /\ (answer'[c] = "Failed" \/ Readable) => ~HasProcess(s)
             /\ life[s] \in {"exited", "failed"} => IsTerminal(answer'[c])]_vars
  <2> SUFFICES ASSUME TypeOK, NEW c \in Callers, QueryStatus(c), answer'[c] \in Status
               PROVE  /\ SaysTrue(target[c], answer'[c])
                      /\ IsTerminal(answer'[c]) /\ (answer'[c] = "Failed" \/ Readable)
                            => ~HasProcess(target[c])
      BY DEF SaysTrue
  <2>1. answer'[c] \in Statuses(target[c])
      BY DEF QueryStatus, Fail, Return, TypeOK, Status
  <2> QED
      BY <2>1, StatusesSayTrue, TerminalIsDown DEF TypeOK
<1> QED
    BY <1>1, CommandTypeCorrect, PTL DEF StatusIsTrue, Spec

-----------------------------------------------------------------------------
(* launchd's files.                                                         *)

(* What keeps file and service together: one caller spawns and removes, no  *)
(* name is spawned while in use, and a bootout fails only by not running.   *)
OneOwner ==
    /\ ~Respawn
    /\ "remove" \notin Refusals
    /\ \A c, d \in Callers : /\ {"spawn", "remove"} \cap Operations[c] # {}
                             /\ {"spawn", "remove"} \cap Operations[d] # {}
                             => c = d

\* Between the commands of a spawn, or of a removal, its service stays unknown.
Underway(c) ==
    /\ pc[c] \in {"prepare", "launch"} => "spawn" \in Operations[c] /\ ~Known(target[c])
    /\ pc[c] = "launch" => target[c] \in file
    /\ pc[c] \in {"remove", "unlink"} => "remove" \in Operations[c]
    /\ pc[c] = "unlink" => ~Known(target[c])

PlistTypes == PlatformOK /\ pc \in [Callers -> Steps] /\ target \in [Callers -> Services]

PlistInv ==
    /\ PlistTypes
    /\ kind = "launchd" => LoadedHasPlist /\ \A c \in Callers : Underway(c)

LEMMA PlistTypesStep == PlistTypes /\ [Next]_vars => PlistTypes'
<1> SUFFICES ASSUME PlistTypes, [Next]_vars PROVE PlistTypes'
    OBVIOUS
<1>1. CASE UNCHANGED vars
    BY <1>1 DEF vars, PlistTypes, PlatformOK
<1>2. ASSUME NEW c \in Callers, NEW op \in {"spawn", "signal", "status", "trace", "stop", "remove"},
             NEW s \in Services, Begin(c, op, s)
      PROVE  PlistTypes'
    BY <1>2 DEF Begin, FirstStep, PlistTypes, PlatformOK, Steps
<1>3. ASSUME NEW c \in Callers, Step(c)
      PROVE  PlistTypes'
    BY <1>3, StepMovesOne, StepKeepsPlatform DEF Moved, PlistTypes, Steps
<1>4. ASSUME NEW s \in Services, Evolve(s)
      PROVE  PlistTypes'
    BY <1>4, EvolvingKeepsPlatform DEF Evolve, PlistTypes
<1> QED
    BY <1>1, <1>2, <1>3, <1>4 DEF Next

(* What another caller's step, or the service itself, may do meanwhile.     *)
LEMMA UnderwayStays ==
    ASSUME NEW c, Underway(c), pc'[c] = pc[c], target'[c] = target[c],
           Known(target[c])' => Known(target[c]), target[c] \in file => target[c] \in file'
    PROVE  Underway(c)'
    BY DEF Underway

(* A step that touches neither a plist nor a name not in use.               *)
LEMMA HarmlessKeepsPlists ==
    ASSUME PlistInv, kind = "launchd", NEW c \in Callers, file' = file, target' = target,
           \A s \in Services : Known(s)' => Known(s),
           NEW p, pc' = [pc EXCEPT ![c] = p], p \notin {"prepare", "launch", "remove", "unlink"}
    PROVE  LoadedHasPlist' /\ \A d \in Callers : Underway(d)'
<1>1. LoadedHasPlist'
    BY DEF PlistInv, LoadedHasPlist
<1>2. Underway(c)'
    BY DEF PlistInv, PlistTypes, Underway
<1>3. ASSUME NEW d \in Callers, d # c PROVE Underway(d)'
    BY <1>3, UnderwayStays DEF PlistInv, PlistTypes
<1> QED
    BY <1>1, <1>2, <1>3

(* A step of the owner, the only one with a spawn or removal under way.     *)
LEMMA OwnersStepKeepsPlists ==
    ASSUME OneOwner, PlistInv, kind = "launchd", NEW c \in Callers,
           {"spawn", "remove"} \cap Operations[c] # {}, UNCHANGED target,
           NEW p, pc' = [pc EXCEPT ![c] = p], LoadedHasPlist', Underway(c)'
    PROVE  \A d \in Callers : Underway(d)'
<1> SUFFICES ASSUME NEW d \in Callers, d # c PROVE Underway(d)'
    OBVIOUS
<1>1. pc[d] \notin {"prepare", "launch", "remove", "unlink"}
    BY DEF OneOwner, PlistInv, Underway
<1>2. pc'[d] = pc[d]
    BY DEF PlistInv, PlistTypes
<1> QED
    BY <1>1, <1>2 DEF Underway

LEMMA PlistStep == ASSUME OneOwner PROVE PlistInv /\ [Next]_vars => PlistInv'
<1> SUFFICES ASSUME PlistInv, [Next]_vars, kind' = "launchd"
             PROVE  LoadedHasPlist' /\ \A c \in Callers : Underway(c)'
    BY PlistTypesStep DEF PlistInv
<1>0. /\ PlatformOK /\ pc \in [Callers -> Steps] /\ target \in [Callers -> Services]
      /\ life \in [Services -> Life]
    BY DEF PlistInv, PlistTypes, PlatformOK
<1>1. kind = "launchd"
  <2>1. ASSUME NEW c \in Callers, Step(c) PROVE kind' = kind
      BY <2>1, StepMovesOne DEF Moved
  <2> QED
      BY <2>1 DEF Next, Begin, Evolve, vars
<1>2. LoadedHasPlist /\ \A c \in Callers : Underway(c)
    BY <1>1 DEF PlistInv
<1>3. CASE UNCHANGED vars
    BY <1>2, <1>3 DEF vars, LoadedHasPlist, Underway, Known
<1>4. ASSUME NEW c \in Callers, NEW op \in {"spawn", "signal", "status", "trace", "stop", "remove"},
             NEW s \in Services, Begin(c, op, s)
      PROVE  LoadedHasPlist' /\ \A d \in Callers : Underway(d)'
  <2>1. LoadedHasPlist'
      BY <1>2, <1>4 DEF Begin, LoadedHasPlist, Known
  <2>2. Underway(c)'
    <3>1. target'[c] = s /\ pc'[c] = FirstStep(op) /\ life' = life /\ op \in Operations[c]
        BY <1>0, <1>4 DEF Begin
    <3>2. op = "spawn" => FirstStep(op) = "prepare" /\ ~Known(s)
        BY <1>1, <1>4 DEF FirstStep, FileKinds, Begin, MaySpawn, OneOwner
    <3>3. op # "spawn" => FirstStep(op) \in {"term", "signal", "status", "trace", "remove"}
        BY DEF FirstStep
    <3>4. FirstStep(op) = "remove" => op = "remove"
        BY DEF FirstStep
    <3> QED
        BY <3>1, <3>2, <3>3, <3>4 DEF Underway, Known
  <2>3. ASSUME NEW d \in Callers, d # c PROVE Underway(d)'
      BY <1>0, <1>2, <1>4, <2>3, UnderwayStays DEF Begin, Known
  <2> QED
      BY <2>1, <2>2, <2>3
<1>5. ASSUME NEW c \in Callers, WriteFile(c)
      PROVE  LoadedHasPlist' /\ \A d \in Callers : Underway(d)'
  <2>1. pc[c] = "prepare" /\ "spawn" \in Operations[c] /\ ~Known(target[c]) /\ target'= target /\ life' = life
      BY <1>2, <1>5 DEF WriteFile, Underway, Fail, Return, Goto
  <2>2. file \subseteq file'
      BY <1>5 DEF WriteFile, Fail
  <2>3. LoadedHasPlist'
      BY <1>1, <1>2, <2>1, <2>2 DEF LoadedHasPlist, Known
  <2>4. CASE Fail(c)
      BY <1>0, <1>1, <2>1, <2>4, HarmlessKeepsPlists DEF Fail, Return, Known
  <2>5. CASE ~Fail(c)
    <3>1. file' = file \cup {target[c]} /\ pc' = [pc EXCEPT ![c] = "launch"]
        BY <1>1, <1>5, <2>5 DEF WriteFile, Goto
    <3>2. Underway(c)'
        BY <1>0, <2>1, <3>1 DEF Underway, Known
    <3> QED
        BY <1>1, <2>1, <2>3, <3>1, <3>2, OwnersStepKeepsPlists
  <2> QED
      BY <2>4, <2>5
<1>6. ASSUME NEW c \in Callers, Bootstrap(c)
      PROVE  LoadedHasPlist' /\ \A d \in Callers : Underway(d)'
  <2>1. /\ pc[c] = "launch" /\ "spawn" \in Operations[c] /\ ~Known(target[c]) /\ target[c] \in file
        /\ pc' = [pc EXCEPT ![c] = "idle"] /\ target' = target
      BY <1>2, <1>6 DEF Bootstrap, Underway, Fail, Return, Start
  <2>2. Underway(c)'
      BY <1>0, <2>1 DEF Underway
  <2>3. \/ life' = life /\ file' \in {file, file \ {target[c]}}
        \/ file' = file /\ \E l : life' = [life EXCEPT ![target[c]] = l]
      BY <1>1, <1>6 DEF Bootstrap, Fail, Start
  <2>4. LoadedHasPlist'
      BY <1>0, <1>1, <1>2, <2>1, <2>3 DEF LoadedHasPlist, Known
  <2> QED
      BY <1>1, <2>1, <2>2, <2>4, OwnersStepKeepsPlists
<1>7. ASSUME NEW c \in Callers, Bootout(c)
      PROVE  LoadedHasPlist' /\ \A d \in Callers : Underway(d)'
  <2>1. pc[c] = "remove" /\ "remove" \in Operations[c] /\ target' = target /\ file' = file
      BY <1>2, <1>7 DEF Bootout, Underway, Fail, Return, Goto
  <2>2. CASE Fail(c)
      BY <1>0, <1>1, <2>1, <2>2, HarmlessKeepsPlists DEF Fail, Return, Known
  <2>3. CASE ~Fail(c)
    <3>1. life' = [life EXCEPT ![target[c]] = "absent"] /\ pc' = [pc EXCEPT ![c] = "unlink"]
        BY <1>7, <2>3 DEF Bootout, Gone, Goto, OneOwner
    <3>2. LoadedHasPlist'
        BY <1>0, <1>1, <1>2, <2>1, <3>1 DEF LoadedHasPlist, Known
    <3>3. Underway(c)'
        BY <1>0, <2>1, <3>1 DEF Underway, Known
    <3> QED
        BY <1>1, <2>1, <3>1, <3>2, <3>3, OwnersStepKeepsPlists
  <2> QED
      BY <2>2, <2>3
<1>8. ASSUME NEW c \in Callers, Unlink(c)
      PROVE  LoadedHasPlist' /\ \A d \in Callers : Underway(d)'
  <2>1. /\ pc[c] = "unlink" /\ "remove" \in Operations[c] /\ ~Known(target[c])
        /\ target' = target /\ life' = life /\ file' = file \ {target[c]} /\ pc' = [pc EXCEPT ![c] = "idle"]
      BY <1>2, <1>8 DEF Unlink, Underway, Return
  <2>2. LoadedHasPlist'
      BY <1>1, <1>2, <2>1 DEF LoadedHasPlist, Known
  <2>3. Underway(c)'
      BY <1>0, <2>1 DEF Underway
  <2> QED
      BY <1>1, <2>1, <2>2, <2>3, OwnersStepKeepsPlists
<1>9. ASSUME NEW c \in Callers,
             Signal(c) \/ QueryStatus(c) \/ AttachTracer(c) \/ StopTerm(c) \/ StopPoll(c) \/ StopExpires(c)
      PROVE  LoadedHasPlist' /\ \A d \in Callers : Underway(d)'
  <2>1. /\ file' = file /\ target' = target
        /\ \E p \in {"idle", "poll"} : pc' = [pc EXCEPT ![c] = p]
        /\ life' = life \/ (HasProcess(target[c]) /\ \E l : life' = [life EXCEPT ![target[c]] = l])
      BY <1>1, <1>9 DEF Signal, SystemdSignal, ContainerSignal, LaunchdSignal, PepitaSignal, LinuxSignal,
          OciSignal, VmSignal, MacosSignal, SendSignal, QueryStatus, AttachTracer, SystemdTrace, ContainerTrace,
          ContainerdTrace, LaunchdTrace, PepitaTrace, LinuxTrace, MacosTrace, OciTrace, VmTrace, Attaches,
          StopTerm, StopPoll, StopExpires, Deliver, Fail, Return, Goto
  <2>2. \A s \in Services : Known(s)' => Known(s)
      BY <1>0, <2>1 DEF Known, HasProcess
  <2> QED
      BY <1>1, <2>1, <2>2, HarmlessKeepsPlists
<1>10. ASSUME NEW s \in Services, Evolve(s)
       PROVE  LoadedHasPlist' /\ \A d \in Callers : Underway(d)'
  <2>1. /\ UNCHANGED <<kind, file, pc, target>>
        /\ \E l \in Moves[life[s]] : life' = [life EXCEPT ![s] = l]
      BY <1>10 DEF Evolve
  <2>2. life[s] # "absent"
      BY <2>1 DEF Moves
  <2>3. \A t \in Services : Known(t)' => Known(t)
      BY <1>0, <2>1, <2>2 DEF Known
  <2>4. LoadedHasPlist'
      BY <1>2, <2>1, <2>3 DEF LoadedHasPlist
  <2>5. ASSUME NEW d \in Callers PROVE Underway(d)'
      BY <1>0, <1>2, <2>1, <2>3, UnderwayStays
  <2> QED
      BY <2>4, <2>5
<1> QED
    BY <1>1, <1>3, <1>4, <1>5, <1>6, <1>7, <1>8, <1>9, <1>10
       DEF Next, Step, Spawn, SystemdSpawn, ContainerSpawn, PepitaSpawn, VmSpawn, LaunchdSpawn, LinuxSpawn,
           MacosSpawn, OciSpawn, SystemdStop, ContainerRemove, PepitaDestroy, StopAndUnload, ContainerKinds

(* A service launchd has loaded has its plist on disk (launchd.rs           *)
(* l.219-263, l.345-366), through every failed spawn and half of a removal, *)
(* while one caller spawns and removes.                                     *)
THEOREM PlistsAreKept == ASSUME OneOwner PROVE Spec => []LoadedHasPlist
<1>1. Init => PlistInv
    BY CommandAssumption DEF Init, PlistInv, PlistTypes, PlatformOK, Steps, LoadedHasPlist, Known, Underway, Life
<1>2. PlistInv => LoadedHasPlist
    BY DEF PlistInv, LoadedHasPlist
<1> QED
    BY <1>1, <1>2, PlistStep, PTL DEF Spec

=============================================================================
