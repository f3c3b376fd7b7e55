--------------------------- MODULE WosAdaptersProofs ---------------------------
(***************************************************************************)
(* Proofs about WosAdapters, for any number of callers and any set of pids:*)
(* types, that spawns do not share pids, that the two tables of the core   *)
(* adapter agree, and that the simulation leaves no zombie.                *)
(***************************************************************************)
EXTENDS WosAdapters, TLAPS

\* A pid that was handed out is never handed out again.
PidsAreTaken ==
    /\ \A p \in handles : p < nextPid
    /\ \A c \in Callers : pc[c] \in {"create", "insert"} => pid[c] < nextPid

\* Commands are those of the core adapter, removals those of the simulation; the
\* table is looked at only where the kernel has no answer.
SectionsFit ==
    \A c \in Callers :
        /\ pc[c] \in {"create", "send", "query"} \/ method[c] = "stop" => kind = "core"
        /\ pc[c] = "reap" => kind = "simulation"
        /\ pc[c] = "look" => kind = "simulation" \/ ~ctl \/ Waits
        /\ pc[c] \in {"create", "insert"} => method[c] = "spawn"

\* With wos-ctl, an entry is made for a process of the kernel only.
CreatedFirst ==
    kind = "core" /\ ctl => \A c \in Callers : pc[c] = "insert" => kernel[pid[c]] # "none"

\* No process waits where the kernel has no such word.
NoneWaits == ~Waits => \A p \in Pids : kernel[p] # "waiting"

IInv ==
    /\ TypeOK /\ PidsAreTaken /\ SectionsFit /\ PidsAreOwn
    /\ CreatedFirst /\ TablesAgree /\ NoZombies /\ NoneWaits

USE DEF NoPid, KernelState, ProcessState, Signals, Status

LEMMA InitHolds == Init => IInv
BY WosAssumption DEF Init, IInv, TypeOK, PidsAreTaken, SectionsFit, PidsAreOwn, CreatedFirst,
    TablesAgree, NoZombies, NoneWaits

-----------------------------------------------------------------------------
(* What a step does to its caller: nobody else is moved.                    *)
CallersOK ==
    /\ method \in [Callers -> {"none", "spawn", "signal", "status", "stop"}]
    /\ pc \in [Callers -> {"idle", "create", "insert", "send", "update", "reap", "query", "look"}]
    /\ pid \in [Callers -> Pids \cup {NoPid}]
    /\ sig \in [Callers -> Signals \cup {"none"}]
    /\ \A d \in Callers : /\ pid[d] \in Pids <=> pc[d] # "idle"
                          /\ pc[d] \in {"send", "update"} => sig[d] \in Signals
                          /\ pc[d] = "idle" <=> method[d] = "none"
    /\ answer \in [Callers -> Status \cup {"none", "ok", "error", "timeout"}]

LEMMA BeginMoves ==
    ASSUME TypeOK, NEW c \in Callers, NEW m \in {"spawn", "signal", "status", "stop"},
           NEW section \in {"create", "insert", "send", "update", "query", "look"},
           NEW p \in Pids, NEW s \in Signals \cup {"none"},
           section \in {"send", "update"} => s # "none",
           Begin(c, m, section, p, s)
    PROVE  /\ CallersOK' /\ kind' = kind /\ pc[c] = "idle"
           /\ pc' = [pc EXCEPT ![c] = section] /\ method' = [method EXCEPT ![c] = m]
           /\ pid' = [pid EXCEPT ![c] = p]
BY WosAssumption DEF Begin, TypeOK, CallersOK

LEMMA ReturnMoves ==
    ASSUME TypeOK, NEW c \in Callers, NEW a \in Status \cup {"ok", "error", "timeout"}, Return(c, a)
    PROVE  /\ CallersOK' /\ kind' = kind
           /\ pc' = [pc EXCEPT ![c] = "idle"] /\ method' = [method EXCEPT ![c] = "none"]
           /\ pid' = [pid EXCEPT ![c] = NoPid]
<1>1. NoPid \notin Pids
    BY WosAssumption
<1> QED
    BY <1>1 DEF Return, TypeOK, CallersOK

LEMMA GotoMoves ==
    ASSUME TypeOK, NEW c \in Callers, pc[c] # "idle", NEW section, Goto(c, section),
           \/ section \in {"insert", "reap", "query", "look"}
           \/ section = "update" /\ pc[c] \in {"send", "update"}
    PROVE  /\ CallersOK' /\ kind' = kind
           /\ pc' = [pc EXCEPT ![c] = section] /\ method' = method /\ pid' = pid
BY DEF Goto, TypeOK, CallersOK

\* What is left of IInv when CallersOK is known.
TablesOK ==
    /\ kind \in {"core", "simulation"}
    /\ ctl \in BOOLEAN /\ inWos \in BOOLEAN
    /\ kernel \in [Pids -> KernelState]
    /\ table \in [Pids -> ProcessState]
    /\ nextPid \in Nat
    /\ handles \subseteq Pids
    /\ kind = "simulation" => \A p \in Pids : kernel[p] = "none"

(* The invariant under each method.                                         *)
LEMMA SpawnKeeps ==
    ASSUME IInv, NEW c \in Callers, Spawn(c)
    PROVE  IInv'
<1> DEFINE section == IF kind = "core" THEN "create" ELSE "insert"
<1>1. /\ CallersOK' /\ kind' = kind /\ pc[c] = "idle"
      /\ pc' = [pc EXCEPT ![c] = section] /\ method' = [method EXCEPT ![c] = "spawn"]
      /\ pid' = [pid EXCEPT ![c] = nextPid]
    BY BeginMoves DEF Spawn, IInv
<1>2. /\ ctl' = ctl /\ kernel' = kernel /\ table' = table /\ handles' = handles
      /\ inWos' = inWos /\ nextPid' = nextPid + 1 /\ nextPid \in Pids
    BY DEF Spawn, external
<1>3. TypeOK'
  <2>1. TablesOK'
      BY <1>1, <1>2 DEF IInv, TablesOK, TypeOK
  <2> QED
      BY <1>1, <2>1 DEF CallersOK, TablesOK, TypeOK
<1>4. PidsAreTaken'
  <2>1. nextPid \in Nat /\ Pids \subseteq Nat
      BY <1>2, WosAssumption
  <2>2. ASSUME NEW d \in Callers, pc'[d] \in {"create", "insert"}
        PROVE  pid'[d] < nextPid'
    <3>1. CASE d = c
        BY <1>1, <1>2, <2>1, <3>1 DEF IInv, TypeOK
    <3>2. CASE d # c
      <4>1. pc[d] \in {"create", "insert"} /\ pid'[d] = pid[d]
          BY <1>1, <2>2, <3>2 DEF IInv, TypeOK
      <4>2. pid[d] \in Pids /\ pid[d] < nextPid
          BY <4>1 DEF IInv, PidsAreTaken, TypeOK
      <4>3. pid[d] \in Nat
          BY <2>1, <4>2
      <4>4. pid[d] < nextPid + 1
          BY <2>1, <4>2, <4>3
      <4> QED
          BY <1>2, <4>1, <4>4
    <3> QED
        BY <3>1, <3>2
  <2>3. \A p \in handles' : p < nextPid'
      BY <1>2, <2>1 DEF IInv, PidsAreTaken, TypeOK
  <2> QED
      BY <2>2, <2>3 DEF PidsAreTaken
<1>5. SectionsFit'
    BY <1>1, <1>2 DEF IInv, SectionsFit, TypeOK
<1>6. PidsAreOwn'
    BY <1>1, <1>2, WosAssumption DEF IInv, PidsAreOwn, PidsAreTaken, TypeOK
<1>7. CreatedFirst' /\ TablesAgree' /\ NoZombies' /\ NoneWaits'
    BY <1>1, <1>2 DEF IInv, CreatedFirst, TablesAgree, NoZombies, NoneWaits, TypeOK
<1> QED
    BY <1>3, <1>4, <1>5, <1>6, <1>7 DEF IInv

(* A step that leaves the tables alone and moves its caller somewhere that  *)
(* asks for nothing, from somewhere that promises nothing.                  *)
LEMMA QuietStepKeeps ==
    ASSUME IInv, NEW c \in Callers,
           UNCHANGED <<external, adapter>>, CallersOK', kind' = kind,
           NEW section, NEW m, NEW p,
           pc' = [pc EXCEPT ![c] = section],
           method' = [method EXCEPT ![c] = m], pid' = [pid EXCEPT ![c] = p],
           pc[c] \notin {"insert", "reap"}, section \notin {"create", "insert", "reap"},
           section \in {"send", "query"} \/ m = "stop" => kind = "core",
           section = "look" => kind = "simulation" \/ ~ctl \/ Waits
    PROVE  IInv'
<1>1. /\ ctl' = ctl /\ kernel' = kernel /\ table' = table /\ handles' = handles
      /\ inWos' = inWos /\ nextPid' = nextPid
    BY DEF external, adapter
<1>2. TypeOK'
  <2>1. TablesOK'
      BY <1>1 DEF IInv, TablesOK, TypeOK
  <2> QED
      BY <2>1 DEF CallersOK, TablesOK, TypeOK
<1>3. PidsAreTaken' /\ SectionsFit' /\ PidsAreOwn'
    BY <1>1 DEF IInv, PidsAreTaken, SectionsFit, PidsAreOwn, TypeOK
<1>4. CreatedFirst' /\ TablesAgree' /\ NoZombies' /\ NoneWaits'
    BY <1>1 DEF IInv, CreatedFirst, TablesAgree, NoZombies, NoneWaits, TypeOK
<1> QED
    BY <1>2, <1>3, <1>4 DEF IInv

LEMMA FailKeeps ==
    ASSUME IInv, NEW c \in Callers, pc[c] \in {"create", "send", "update", "query"}, Fail(c)
    PROVE  IInv'
<1>1. CASE method[c] = "stop" /\ pc[c] = "query"
  <2>1. Goto(c, "query") /\ UNCHANGED <<external, adapter>>
      BY <1>1 DEF Fail
  <2>2. /\ CallersOK' /\ kind' = kind
        /\ pc' = [pc EXCEPT ![c] = "query"] /\ method' = method /\ pid' = pid
      BY <1>1, <2>1, GotoMoves DEF IInv
  <2>3. method' = [method EXCEPT ![c] = method[c]] /\ pid' = [pid EXCEPT ![c] = pid[c]]
      BY <2>2 DEF IInv, TypeOK
  <2> QED
      BY <1>1, <2>1, <2>2, <2>3, QuietStepKeeps DEF IInv, SectionsFit
<1>2. CASE ~(method[c] = "stop" /\ pc[c] = "query")
  <2>1. Return(c, "error") /\ UNCHANGED <<external, adapter>>
      BY <1>2 DEF Fail
  <2>2. /\ CallersOK' /\ kind' = kind
        /\ pc' = [pc EXCEPT ![c] = "idle"] /\ method' = [method EXCEPT ![c] = "none"]
        /\ pid' = [pid EXCEPT ![c] = NoPid]
      BY <2>1, ReturnMoves DEF IInv
  <2> QED
      BY <2>1, <2>2, QuietStepKeeps
<1> QED
    BY <1>1, <1>2

(* A call returns, or goes where nothing is asked for, and leaves the       *)
(* tables alone.                                                            *)
LEMMA QuietReturnKeeps ==
    ASSUME IInv, NEW c \in Callers, NEW a \in Status \cup {"ok", "error", "timeout"},
           Return(c, a), UNCHANGED <<external, adapter>>, pc[c] \notin {"insert", "reap"}
    PROVE  IInv'
<1>1. /\ CallersOK' /\ kind' = kind
      /\ pc' = [pc EXCEPT ![c] = "idle"] /\ method' = [method EXCEPT ![c] = "none"]
      /\ pid' = [pid EXCEPT ![c] = NoPid]
    BY ReturnMoves DEF IInv
<1> QED
    BY <1>1, QuietStepKeeps

LEMMA QuietGotoKeeps ==
    ASSUME IInv, NEW c \in Callers, NEW section \in {"update", "query", "look"},
           Goto(c, section), UNCHANGED <<external, adapter>>, pc[c] \notin {"idle", "insert", "reap"},
           section = "update" => pc[c] = "send",
           section = "query" => kind = "core",
           section = "look" => ~ctl \/ Waits
    PROVE  IInv'
<1>1. /\ CallersOK' /\ kind' = kind
      /\ pc' = [pc EXCEPT ![c] = section] /\ method' = method /\ pid' = pid
    BY GotoMoves DEF IInv
<1>2. method' = [method EXCEPT ![c] = method[c]] /\ pid' = [pid EXCEPT ![c] = pid[c]]
    BY <1>1 DEF IInv, TypeOK
<1>3. section \in {"send", "query"} \/ method[c] = "stop" => kind = "core"
    BY DEF IInv, SectionsFit
<1>4. section \notin {"create", "insert", "reap"}
    OBVIOUS
<1> QED
    BY <1>1, <1>2, <1>3, <1>4, QuietStepKeeps

LEMMA FoundKeeps ==
    ASSUME IInv, NEW c \in Callers, NEW st \in Status, Found(c, st),
           UNCHANGED <<external, adapter>>, pc[c] \in {"query", "look"}
    PROVE  IInv'
<1>1. CASE method[c] = "stop" /\ ~IsTerminal(st)
    BY <1>1, QuietGotoKeeps DEF Found, IInv, SectionsFit
<1>2. CASE method[c] = "stop" /\ IsTerminal(st)
    BY <1>2, QuietReturnKeeps DEF Found
<1>3. CASE method[c] # "stop"
    BY <1>3, QuietReturnKeeps DEF Found
<1> QED
    BY <1>1, <1>2, <1>3

LEMMA CreateKeeps ==
    ASSUME IInv, NEW c \in Callers, CreateProcess(c)
    PROVE  IInv'
<1>1. CASE Fail(c)
    BY <1>1, FailKeeps DEF CreateProcess
<1>2. ASSUME Goto(c, "insert"), UNCHANGED <<ctl, inWos, adapter>>,
             \/ ~ctl /\ kernel' = kernel
             \/ \E k \in {"ready", "running"} : kernel' = [kernel EXCEPT ![pid[c]] = k]
      PROVE  IInv'
  <2>1. pc[c] = "create" /\ kind = "core" /\ pid[c] \in Pids
      BY DEF CreateProcess, IInv, SectionsFit, TypeOK
  <2>2. /\ CallersOK' /\ kind' = kind
        /\ pc' = [pc EXCEPT ![c] = "insert"] /\ method' = method /\ pid' = pid
      BY <1>2, <2>1, GotoMoves DEF IInv
  <2>3. /\ ctl' = ctl /\ inWos' = inWos /\ table' = table /\ nextPid' = nextPid /\ handles' = handles
      BY <1>2 DEF adapter
  <2>4. PICK k \in KernelState :
           /\ kernel' = [kernel EXCEPT ![pid[c]] = k]
           /\ k \in {"ready", "running"} \/ (~ctl /\ k = kernel[pid[c]])
      BY <1>2, <2>1 DEF IInv, TypeOK
  <2>5. TypeOK'
    <3>1. TablesOK'
        BY <2>1, <2>2, <2>3, <2>4 DEF IInv, TablesOK, TypeOK
    <3> QED
        BY <2>2, <3>1 DEF CallersOK, TablesOK, TypeOK
  <2>6. PidsAreTaken' /\ SectionsFit' /\ PidsAreOwn'
      BY <2>1, <2>2, <2>3 DEF IInv, PidsAreTaken, SectionsFit, PidsAreOwn, TypeOK
  <2>7. CreatedFirst' /\ NoZombies' /\ NoneWaits'
      BY <2>1, <2>2, <2>3, <2>4 DEF IInv, CreatedFirst, NoZombies, NoneWaits, TypeOK
  <2>8. TablesAgree'
      BY <2>1, <2>2, <2>3, <2>4 DEF IInv, TablesAgree, TypeOK
  <2> QED
      BY <2>5, <2>6, <2>7, <2>8 DEF IInv
<1> QED
    BY <1>1, <1>2 DEF CreateProcess, external

LEMMA InsertKeeps ==
    ASSUME IInv, NEW c \in Callers, InsertProcess(c)
    PROVE  IInv'
<1>1. pc[c] = "insert" /\ pid[c] \in Pids
    BY DEF InsertProcess, IInv, TypeOK
<1>2. /\ CallersOK' /\ kind' = kind
      /\ pc' = [pc EXCEPT ![c] = "idle"] /\ method' = [method EXCEPT ![c] = "none"]
      /\ pid' = [pid EXCEPT ![c] = NoPid]
    BY ReturnMoves DEF InsertProcess, IInv
<1>3. /\ ctl' = ctl /\ inWos' = inWos /\ kernel' = kernel /\ nextPid' = nextPid
      /\ table' = [table EXCEPT ![pid[c]] = "running"] /\ handles' = handles \cup {pid[c]}
    BY DEF InsertProcess, external
<1>4. TypeOK'
  <2>1. TablesOK'
      BY <1>1, <1>2, <1>3 DEF IInv, TablesOK, TypeOK
  <2> QED
      BY <1>2, <2>1 DEF CallersOK, TablesOK, TypeOK
<1>5. PidsAreTaken' /\ SectionsFit'
    BY <1>1, <1>2, <1>3 DEF IInv, PidsAreTaken, SectionsFit, TypeOK
<1>6. PidsAreOwn'
    BY <1>1, <1>2, <1>3 DEF IInv, PidsAreOwn, TypeOK
<1>7. CreatedFirst' /\ NoZombies' /\ NoneWaits'
    BY <1>1, <1>2, <1>3 DEF IInv, CreatedFirst, NoZombies, NoneWaits, TypeOK
<1>8. TablesAgree'
    BY <1>1, <1>2, <1>3 DEF IInv, TablesAgree, CreatedFirst, TypeOK
<1> QED
    BY <1>4, <1>5, <1>6, <1>7, <1>8 DEF IInv

(* The kernel moves on, or takes a signal: what exists goes on existing.    *)
LEMMA KernelKeeps ==
    ASSUME IInv, NEW p \in Pids, NEW k \in KernelState, kernel[p] # "none", k # "none",
           kernel' = [kernel EXCEPT ![p] = k], UNCHANGED <<kind, ctl, inWos, adapter>>,
           ~Waits => k # "waiting"
    PROVE  /\ TablesOK'
           /\ kernel' \in [Pids -> KernelState]
           /\ \A q \in Pids : kernel'[q] # "none" <=> kernel[q] # "none"
           /\ NoneWaits'
BY DEF IInv, TablesOK, NoneWaits, TypeOK, adapter

LEMMA EvolveKeeps ==
    ASSUME IInv, NEW p \in Pids, Evolve(p)
    PROVE  IInv'
<1>1. \A k \in Moves[kernel[p]] : kernel[p] # "none" /\ k \in KernelState /\ k # "none"
  <2>1. /\ Moves["none"] = {} /\ Moves["stopped"] = {} /\ Moves["collected"] = {}
        /\ Moves["ready"] = {"running"} /\ Moves["waiting"] = {"ready"}
        /\ Moves["running"] = {"ready", "waiting", "exited", "failed"}
        /\ Moves["exited"] = {"collected"} /\ Moves["failed"] = {"collected"}
      BY DEF Moves
  <2>2. kernel[p] \in KernelState
      BY DEF IInv, TypeOK
  <2> QED
      BY <2>1, <2>2
<1>2. PICK k \in KernelState : /\ kernel[p] # "none" /\ k # "none"
                               /\ kernel' = [kernel EXCEPT ![p] = k]
                               /\ ~Waits => k # "waiting"
    BY <1>1 DEF Evolve
<1>3. /\ UNCHANGED <<kind, ctl, inWos, adapter>>
      /\ UNCHANGED <<method, pc, pid, sig, answer>>
    BY DEF Evolve, adapter
<1>4. /\ TablesOK' /\ NoneWaits'
      /\ \A q \in Pids : kernel'[q] # "none" <=> kernel[q] # "none"
    BY <1>2, <1>3, KernelKeeps
<1>5. TypeOK'
  <2>1. CallersOK'
      BY <1>3 DEF CallersOK, IInv, TypeOK
  <2> QED
      BY <1>4, <2>1 DEF CallersOK, TablesOK, TypeOK
<1>6. PidsAreTaken' /\ SectionsFit' /\ PidsAreOwn' /\ NoZombies'
    BY <1>3 DEF IInv, PidsAreTaken, SectionsFit, PidsAreOwn, NoZombies, adapter
<1>7. CreatedFirst' /\ TablesAgree'
    BY <1>3, <1>4 DEF IInv, CreatedFirst, TablesAgree, TypeOK, adapter
<1> QED
    BY <1>4, <1>5, <1>6, <1>7 DEF IInv

LEMMA SendKeeps ==
    ASSUME IInv, NEW c \in Callers, SendSignal(c)
    PROVE  IInv'
<1>1. pc[c] = "send" /\ pid[c] \in Pids /\ kind = "core"
    BY DEF SendSignal, IInv, TypeOK, SectionsFit
<1>2. CASE Fail(c)
    BY <1>1, <1>2, FailKeeps
<1>3. CASE Goto(c, "update") /\ UNCHANGED <<external, adapter>>
    BY <1>1, <1>3, QuietGotoKeeps
<1>4. ASSUME HasProcess(pid[c]), Goto(c, "update"), UNCHANGED <<ctl, inWos, adapter>>,
             kernel' = [kernel EXCEPT ![pid[c]] = KernelAfter(kernel[pid[c]], sig[c])]
      PROVE  IInv'
  <2>1. PICK k \in KernelState : k = KernelAfter(kernel[pid[c]], sig[c])
      BY <1>1, <1>4 DEF KernelAfter, HasProcess
  <2>2. /\ k # "none" /\ kernel[pid[c]] # "none"
        /\ ~Waits => k # "waiting"
      BY <1>1, <1>4, <2>1 DEF KernelAfter, HasProcess, IInv, NoneWaits
  <2>3. /\ CallersOK' /\ kind' = kind
        /\ pc' = [pc EXCEPT ![c] = "update"] /\ method' = method /\ pid' = pid
      BY <1>1, <1>4, GotoMoves DEF IInv
  <2>4. /\ TablesOK' /\ NoneWaits'
        /\ \A q \in Pids : kernel'[q] # "none" <=> kernel[q] # "none"
      BY <1>1, <1>4, <2>1, <2>2, <2>3, KernelKeeps
  <2>5. TypeOK'
      BY <2>3, <2>4 DEF CallersOK, TablesOK, TypeOK
  <2>6. PidsAreTaken' /\ SectionsFit' /\ PidsAreOwn' /\ NoZombies'
      BY <1>1, <1>4, <2>3 DEF IInv, PidsAreTaken, SectionsFit, PidsAreOwn, NoZombies, TypeOK, adapter
  <2>7. CreatedFirst' /\ TablesAgree'
      BY <1>1, <1>4, <2>3, <2>4 DEF IInv, CreatedFirst, TablesAgree, TypeOK, adapter
  <2> QED
      BY <2>4, <2>5, <2>6, <2>7 DEF IInv
<1> QED
    BY <1>2, <1>3, <1>4 DEF SendSignal

(* An entry changes but stays an entry, and is dead only if its caller is   *)
(* about to remove it.                                                      *)
LEMMA EntryKeeps ==
    ASSUME IInv, NEW c \in Callers, pc[c] = "update", CallersOK', kind' = kind,
           \A d \in Callers \ {c} : pc'[d] = pc[d] /\ method'[d] = method[d] /\ pid'[d] = pid[d],
           pc'[c] \in {"idle", "query", "reap"},
           pc'[c] = "query" \/ method'[c] = "stop" => kind = "core",
           pc'[c] = "reap" => kind = "simulation" /\ pid'[c] = pid[c],
           NEW state \in ProcessState, table' = [table EXCEPT ![pid[c]] = state],
           state = "none" <=> table[pid[c]] = "none",
           kind = "simulation" /\ state = "killed" => pc'[c] = "reap",
           UNCHANGED <<external, nextPid, handles>>
    PROVE  IInv'
<1>1. pid[c] \in Pids
    BY DEF IInv, TypeOK
<1>2. ctl' = ctl /\ inWos' = inWos /\ kernel' = kernel
    BY DEF external
<1>3. TypeOK'
  <2>1. TablesOK'
      BY <1>1, <1>2 DEF IInv, TablesOK, TypeOK
  <2> QED
      BY <2>1 DEF CallersOK, TablesOK, TypeOK
<1>4. PidsAreTaken' /\ SectionsFit' /\ PidsAreOwn'
    BY <1>1, <1>2 DEF IInv, PidsAreTaken, SectionsFit, PidsAreOwn, TypeOK
<1>5. CreatedFirst' /\ TablesAgree' /\ NoneWaits'
    BY <1>1, <1>2 DEF IInv, CreatedFirst, TablesAgree, NoneWaits, TypeOK
<1>6. NoZombies'
    BY <1>1, <1>2 DEF IInv, NoZombies, TypeOK
<1> QED
    BY <1>3, <1>4, <1>5, <1>6 DEF IInv

LEMMA UpdateKeeps ==
    ASSUME IInv, NEW c \in Callers, UpdateState(c)
    PROVE  IInv'
<1> DEFINE state == IF table[pid[c]] = "none" THEN "none" ELSE LocalAfter(table[pid[c]], sig[c])
<1>1. /\ pc[c] = "update" /\ kind = "core" /\ pid[c] \in Pids
      /\ table[pid[c]] \in ProcessState
    BY DEF UpdateState, IInv, TypeOK
<1>2. state \in ProcessState /\ (state = "none" <=> table[pid[c]] = "none")
    BY <1>1 DEF LocalAfter
<1>3. table' = [table EXCEPT ![pid[c]] = state] /\ UNCHANGED <<external, nextPid, handles>>
    BY <1>1 DEF UpdateState, IInv, TypeOK
<1>4. CASE method[c] = "stop"
  <2>1. /\ CallersOK' /\ kind' = kind
        /\ pc' = [pc EXCEPT ![c] = "query"] /\ method' = method /\ pid' = pid
      BY <1>1, <1>4, GotoMoves DEF UpdateState, Signalled, IInv
  <2>2. /\ pc'[c] = "query"
        /\ \A d \in Callers \ {c} : pc'[d] = pc[d] /\ method'[d] = method[d] /\ pid'[d] = pid[d]
      BY <2>1 DEF IInv, TypeOK
  <2> HIDE DEF state
  <2> QED
      BY <1>1, <1>2, <1>3, <2>1, <2>2, EntryKeeps
<1>5. CASE method[c] # "stop"
  <2>1. /\ CallersOK' /\ kind' = kind
        /\ pc' = [pc EXCEPT ![c] = "idle"] /\ method' = [method EXCEPT ![c] = "none"]
        /\ pid' = [pid EXCEPT ![c] = NoPid]
      BY <1>5, ReturnMoves DEF UpdateState, Signalled, IInv
  <2>2. /\ pc'[c] = "idle" /\ method'[c] = "none"
        /\ \A d \in Callers \ {c} : pc'[d] = pc[d] /\ method'[d] = method[d] /\ pid'[d] = pid[d]
      BY <2>1 DEF IInv, TypeOK
  <2> HIDE DEF state
  <2> QED
      BY <1>1, <1>2, <1>3, <2>1, <2>2, EntryKeeps
<1> QED
    BY <1>4, <1>5

LEMMA ApplyKeeps ==
    ASSUME IInv, NEW c \in Callers, ApplySignal(c)
    PROVE  IInv'
<1> DEFINE state == SimulatedAfter(table[pid[c]], sig[c])
<1>1. /\ pc[c] = "update" /\ kind = "simulation" /\ pid[c] \in Pids
      /\ table[pid[c]] \in ProcessState /\ method[c] # "stop"
    BY DEF ApplySignal, IInv, TypeOK, SectionsFit
<1>2. CASE table[pid[c]] = "none"
    BY <1>1, <1>2, FailKeeps DEF ApplySignal
<1>3. CASE table[pid[c]] # "none"
  <2>1. state \in ProcessState /\ state # "none"
      BY <1>1, <1>3 DEF SimulatedAfter
  <2>2. /\ table' = [table EXCEPT ![pid[c]] = state] /\ table'[pid[c]] = state
        /\ UNCHANGED <<external, nextPid, handles>>
      BY <1>1, <1>3 DEF ApplySignal, IInv, TypeOK
  <2>3. CASE state \in {"exited", "killed"}
    <3>1. Goto(c, "reap")
        BY <1>3, <2>2, <2>3 DEF ApplySignal
    <3>2. /\ CallersOK' /\ kind' = kind
          /\ pc' = [pc EXCEPT ![c] = "reap"] /\ method' = method /\ pid' = pid
        BY <1>1, <3>1, GotoMoves DEF IInv
    <3>3. /\ pc'[c] = "reap" /\ method'[c] # "stop" /\ pid'[c] = pid[c]
          /\ \A d \in Callers \ {c} : pc'[d] = pc[d] /\ method'[d] = method[d] /\ pid'[d] = pid[d]
        BY <1>1, <3>2 DEF IInv, TypeOK
    <3> HIDE DEF state
    <3> QED
        BY <1>1, <1>3, <2>1, <2>2, <3>2, <3>3, EntryKeeps
  <2>4. CASE state \notin {"exited", "killed"}
    <3>1. Return(c, "ok")
        BY <1>3, <2>2, <2>4 DEF ApplySignal
    <3>2. /\ CallersOK' /\ kind' = kind
          /\ pc' = [pc EXCEPT ![c] = "idle"] /\ method' = [method EXCEPT ![c] = "none"]
          /\ pid' = [pid EXCEPT ![c] = NoPid]
        BY <3>1, ReturnMoves DEF IInv
    <3>3. /\ pc'[c] = "idle" /\ method'[c] = "none"
          /\ \A d \in Callers \ {c} : pc'[d] = pc[d] /\ method'[d] = method[d] /\ pid'[d] = pid[d]
        BY <3>2 DEF IInv, TypeOK
    <3> HIDE DEF state
    <3> QED
        BY <1>1, <1>3, <2>1, <2>2, <2>4, <3>2, <3>3, EntryKeeps
  <2> QED
      BY <2>3, <2>4
<1> QED
    BY <1>2, <1>3

LEMMA ReapKeeps ==
    ASSUME IInv, NEW c \in Callers, Reap(c)
    PROVE  IInv'
<1>1. pc[c] = "reap" /\ kind = "simulation" /\ pid[c] \in Pids
    BY DEF Reap, IInv, TypeOK, SectionsFit
<1>2. /\ CallersOK' /\ kind' = kind
      /\ pc' = [pc EXCEPT ![c] = "idle"] /\ method' = [method EXCEPT ![c] = "none"]
      /\ pid' = [pid EXCEPT ![c] = NoPid]
    BY ReturnMoves DEF Reap, IInv
<1>3. /\ ctl' = ctl /\ inWos' = inWos /\ kernel' = kernel /\ nextPid' = nextPid /\ handles' = handles
      /\ table' = [table EXCEPT ![pid[c]] = "none"]
    BY DEF Reap, external
<1>4. TypeOK'
  <2>1. TablesOK'
      BY <1>1, <1>2, <1>3 DEF IInv, TablesOK, TypeOK
  <2> QED
      BY <1>2, <2>1 DEF CallersOK, TablesOK, TypeOK
<1>5. PidsAreTaken' /\ SectionsFit' /\ PidsAreOwn'
    BY <1>1, <1>2, <1>3 DEF IInv, PidsAreTaken, SectionsFit, PidsAreOwn, TypeOK
<1>6. CreatedFirst' /\ TablesAgree' /\ NoneWaits' /\ NoZombies'
    BY <1>1, <1>2, <1>3 DEF IInv, CreatedFirst, TablesAgree, NoneWaits, NoZombies, TypeOK
<1> QED
    BY <1>4, <1>5, <1>6 DEF IInv

LEMMA QueryKeeps ==
    ASSUME IInv, NEW c \in Callers, QueryKernel(c)
    PROVE  IInv'
<1>1. pc[c] = "query" /\ kind = "core"
    BY DEF QueryKernel, IInv, SectionsFit
<1>2. CASE Fail(c)
    BY <1>1, <1>2, FailKeeps
<1>3. ASSUME NEW st \in Status, Found(c, st), UNCHANGED <<external, adapter>>
      PROVE  IInv'
    BY <1>1, <1>3, FoundKeeps
<1>4. CASE Goto(c, "look") /\ UNCHANGED <<external, adapter>> /\ (~ctl \/ kernel[pid[c]] = "waiting")
  <2>1. ~ctl \/ Waits
      BY <1>1, <1>4 DEF IInv, NoneWaits, TypeOK
  <2> QED
      BY <1>1, <1>4, <2>1, QuietGotoKeeps
<1>5. \A k \in DOMAIN Named : Named[k] \in Status
    BY DEF Named
<1> QED
    BY <1>2, <1>3, <1>4, <1>5 DEF QueryKernel

LEMMA BeginsKeep ==
    ASSUME IInv, NEW c \in Callers, BeginSignal(c) \/ BeginStop(c) \/ BeginStatus(c)
    PROVE  IInv'
<1>1. ASSUME NEW m \in {"signal", "stop", "status"}, NEW section \in {"send", "update", "query", "look"},
             NEW p \in handles, NEW s \in Signals \cup {"none"},
             section \in {"send", "update"} => s # "none",
             section \in {"send", "query"} \/ m = "stop" => kind = "core",
             section = "look" => kind = "simulation",
             Begin(c, m, section, p, s), UNCHANGED <<external, adapter>>
      PROVE  IInv'
  <2>1. p \in Pids
      BY DEF IInv, TypeOK
  <2>2. /\ CallersOK' /\ kind' = kind /\ pc[c] = "idle"
        /\ pc' = [pc EXCEPT ![c] = section] /\ method' = [method EXCEPT ![c] = m]
        /\ pid' = [pid EXCEPT ![c] = p]
      BY <1>1, <2>1, BeginMoves DEF IInv
  <2> QED
      BY <1>1, <2>2, QuietStepKeeps
<1>2. CASE BeginSignal(c)
  <2>1. CASE kind = "core"
      BY <1>1, <1>2, <2>1 DEF BeginSignal
  <2>2. CASE kind # "core"
      BY <1>1, <1>2, <2>2 DEF BeginSignal
  <2> QED
      BY <2>1, <2>2
<1>3. CASE BeginStop(c)
    BY <1>1, <1>3 DEF BeginStop
<1>4. CASE BeginStatus(c)
  <2>1. CASE kind = "core"
      BY <1>1, <1>4, <2>1 DEF BeginStatus
  <2>2. CASE kind = "simulation"
      BY <1>1, <1>4, <2>2 DEF BeginStatus
  <2> QED
      BY <2>1, <2>2 DEF IInv, TypeOK
<1> QED
    BY <1>2, <1>3, <1>4

LEMMA LookKeeps ==
    ASSUME IInv, NEW c \in Callers, LookUp(c)
    PROVE  IInv'
<1>1. pc[c] = "look" /\ pid[c] \in Pids /\ table[pid[c]] \in ProcessState
    BY DEF LookUp, IInv, TypeOK
<1>2. \A state \in ProcessState : LocalStatus[state] \in Status /\ SimulatedStatus[state] \in Status
    BY DEF LocalStatus, SimulatedStatus
<1>3. PICK st \in Status : Found(c, st)
    BY <1>1, <1>2 DEF LookUp
<1> QED
    BY <1>1, <1>3, FoundKeeps DEF LookUp

LEMMA NextKeeps == IInv /\ [Next]_vars => IInv'
<1> SUFFICES ASSUME IInv, [Next]_vars PROVE IInv'
    OBVIOUS
<1>1. CASE UNCHANGED vars
    BY <1>1 DEF vars, IInv, TypeOK, PidsAreTaken, SectionsFit, PidsAreOwn, CreatedFirst,
        TablesAgree, NoZombies, NoneWaits
<1>2. ASSUME NEW p \in Pids, Evolve(p)
      PROVE  IInv'
    BY <1>2, EvolveKeeps
<1>3. ASSUME NEW c \in Callers, RefuseSpawn(c)
      PROVE  IInv'
    BY <1>3, QuietReturnKeeps DEF RefuseSpawn
<1>4. ASSUME NEW c \in Callers, StopExpires(c)
      PROVE  IInv'
    BY <1>4, QuietReturnKeeps DEF StopExpires
<1>5. ASSUME NEW c \in Callers,
             \/ Spawn(c) \/ CreateProcess(c) \/ InsertProcess(c)
             \/ BeginSignal(c) \/ BeginStop(c) \/ SendSignal(c) \/ UpdateState(c)
             \/ ApplySignal(c) \/ Reap(c) \/ BeginStatus(c) \/ QueryKernel(c) \/ LookUp(c)
      PROVE  IInv'
    BY <1>5, SpawnKeeps, CreateKeeps, InsertKeeps, BeginsKeep, SendKeeps, UpdateKeeps, ApplyKeeps,
        ReapKeeps, QueryKeeps, LookKeeps
<1> QED
    BY <1>1, <1>2, <1>3, <1>4, <1>5 DEF Next

-----------------------------------------------------------------------------
(* The inductive invariant of both adapters (wos.rs of duende-core and of   *)
(* duende-platform), with every method and signal.                          *)
THEOREM WosInvariant == Spec => []IInv
BY InitHolds, NextKeeps, PTL DEF Spec

(* Types: methods of the core adapter run commands, those of the simulation *)
(* do not, and the simulation's kernel stays empty.                         *)
THEOREM WosTypeCorrect == Spec => []TypeOK
<1>1. IInv => TypeOK
    BY DEF IInv
<1> QED
    BY <1>1, WosInvariant, PTL

(* fetch_add gives each spawn a pid of its own, however many run at once.   *)
THEOREM PidsStayOwn == Spec => []PidsAreOwn
<1>1. IInv => PidsAreOwn
    BY DEF IInv
<1> QED
    BY <1>1, WosInvariant, PTL

(* The kernel and the table of the core adapter know the same processes.    *)
THEOREM TablesStayAgreed == Spec => []TablesAgree
<1>1. IInv => TablesAgree
    BY DEF IInv
<1> QED
    BY <1>1, WosInvariant, PTL

(* Every dead process of the simulation has a caller that will remove it.   *)
THEOREM ZombiesAreReaped == Spec => []NoZombies
<1>1. IInv => NoZombies
    BY DEF IInv
<1> QED
    BY <1>1, WosInvariant, PTL

(* With wos-ctl and known words, only an answer of the kernel ends a stop() *)
(* with Ok.                                                                 *)
LEMMA OnlyQueriesSucceed ==
    ASSUME ~Waits, IInv, Next, NEW c \in Callers,
           ctl, method[c] = "stop", pc'[c] = "idle", answer'[c] = "ok"
    PROVE  QueryKernel(c)
<1>1. pc[c] \in {"send", "update", "query"} /\ kind = "core"
    BY DEF IInv, TypeOK, SectionsFit
<1>2. ASSUME NEW p \in Pids, Evolve(p)
      PROVE  FALSE
    BY <1>1, <1>2 DEF Evolve
<1>3. ASSUME NEW d \in Callers, NEW section, pc' = [pc EXCEPT ![d] = section], d # c
      PROVE  FALSE
    BY <1>1, <1>3 DEF IInv, TypeOK
<1>4. ASSUME NEW a \in {"error", "timeout"}, Return(c, a)
      PROVE  FALSE
    BY <1>4 DEF Return, IInv, TypeOK
<1>5. ASSUME NEW section \in {"query", "update", "insert", "reap"}, Goto(c, section)
      PROVE  FALSE
    BY <1>5 DEF Goto, IInv, TypeOK
<1>6. ASSUME NEW d \in Callers,
             Spawn(d) \/ RefuseSpawn(d) \/ BeginSignal(d) \/ BeginStop(d) \/ BeginStatus(d)
      PROVE  FALSE
  <2>1. pc[d] = "idle" /\ \E section : pc' = [pc EXCEPT ![d] = section]
      BY <1>6 DEF Spawn, RefuseSpawn, BeginSignal, BeginStop, BeginStatus, Begin, Return
  <2> QED
      BY <1>1, <1>3, <2>1
<1>7. ASSUME NEW d \in Callers,
             \/ CreateProcess(d) \/ InsertProcess(d) \/ SendSignal(d) \/ UpdateState(d)
             \/ ApplySignal(d) \/ Reap(d) \/ QueryKernel(d) \/ LookUp(d) \/ StopExpires(d)
      PROVE  d = c
  <2>1. \E section : pc' = [pc EXCEPT ![d] = section]
    <3>1. CASE CreateProcess(d) \/ InsertProcess(d) \/ SendSignal(d)
        BY <3>1 DEF CreateProcess, InsertProcess, SendSignal, Fail, Goto, Return
    <3>2. CASE UpdateState(d) \/ ApplySignal(d) \/ Reap(d)
        BY <3>2 DEF UpdateState, ApplySignal, Reap, Signalled, Fail, Goto, Return
    <3>3. CASE QueryKernel(d) \/ LookUp(d) \/ StopExpires(d)
        BY <3>3 DEF QueryKernel, LookUp, StopExpires, Found, Fail, Goto, Return
    <3> QED
        BY <1>7, <3>1, <3>2, <3>3
  <2> QED
      BY <1>3, <2>1
<1>8. ~CreateProcess(c) /\ ~InsertProcess(c) /\ ~Reap(c) /\ ~LookUp(c) /\ ~ApplySignal(c)
    BY <1>1 DEF CreateProcess, InsertProcess, Reap, LookUp, ApplySignal
<1>9. ~Fail(c)
    BY <1>4, <1>5 DEF Fail
<1>10. ~SendSignal(c) /\ ~UpdateState(c) /\ ~StopExpires(c)
    BY <1>4, <1>5, <1>9 DEF SendSignal, UpdateState, Signalled, StopExpires
<1> QED
    BY <1>2, <1>6, <1>7, <1>8, <1>10 DEF Next

(* stop() over wos-ctl returns Ok only over a dead process, as long as the  *)
(* kernel uses no word the adapter does not know.                           *)
THEOREM WosStopMeansDown == ASSUME ~Waits PROVE Spec => StopMeansDown
<1>1. IInv /\ [Next]_vars =>
         [\A c \in Callers : ctl /\ method[c] = "stop" /\ pc'[c] = "idle" /\ answer'[c] = "ok" =>
             ~HasProcess(pid[c])]_vars
  <2> SUFFICES ASSUME IInv, Next, NEW c \in Callers,
                      ctl, method[c] = "stop", pc'[c] = "idle", answer'[c] = "ok"
               PROVE  ~HasProcess(pid[c])
      OBVIOUS
  <2>1. QueryKernel(c)
      BY OnlyQueriesSucceed
  <2>2. pc[c] = "query" /\ pid[c] \in Pids /\ pc'[c] # "look" /\ pc[c] # "idle"
      BY <2>1 DEF QueryKernel, IInv, TypeOK
  <2>3. ~Fail(c)
      BY <2>2 DEF Fail, Goto, Return, IInv, TypeOK
  <2>4. CASE kernel[pid[c]] \in {"none", "collected"}
      BY <2>4 DEF HasProcess
  <2>5. ASSUME kernel[pid[c]] \in DOMAIN Named, Found(c, Named[kernel[pid[c]]])
        PROVE  ~HasProcess(pid[c])
    <3>1. IsTerminal(Named[kernel[pid[c]]])
      <4>1. ~Goto(c, "query")
          BY <2>2 DEF Goto, IInv, TypeOK
      <4> QED
          BY <2>5, <4>1 DEF Found
    <3> QED
        BY <2>5, <3>1 DEF IsTerminal, Named, HasProcess
  <2>6. ~Goto(c, "look")
      BY <2>2 DEF Goto, IInv, TypeOK
  <2> QED
      BY <2>1, <2>3, <2>4, <2>5, <2>6 DEF QueryKernel
<1>2. Spec => []IInv
    BY WosInvariant
<1> QED
    BY <1>1, <1>2, PTL DEF StopMeansDown, Spec
=============================================================================
