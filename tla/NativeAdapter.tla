---------------------------- MODULE NativeAdapter ---------------------------
(***************************************************************************)
(* duende-core/src/adapters/native.rs: daemons as child processes.  The    *)
(* map from daemon ids to children is behind one tokio Mutex; signal() and *)
(* status() hold it from the lookup to the last change with no await in    *)
(* between and are one step each; spawn() forks before it takes the lock   *)
(* and stop() is a loop of signal() and status().  The lookups go by the   *)
(* daemon's id, the kill by the pid the handle carries.                    *)
(*                                                                         *)
(* A pid is one process of this adapter: once it is gone the system may    *)
(* give the number to somebody else.                                       *)
(***************************************************************************)
EXTENDS Naturals

CONSTANTS
    Ids,        \* daemon ids
    Pids,       \* processes that can be forked
    Callers,    \* tasks that use the adapter
    Respawn,    \* TRUE: a daemon may be spawned again under the same id
    None

ASSUME NativeAssumption ==
    /\ Respawn \in BOOLEAN
    /\ None \notin Ids \cup Pids

VARIABLES
    processes,  \* the map: the child of each id, or None
    proc,       \* kernel: the life of each process
    success,    \* kernel: processes that exited with code 0
    handles,    \* handles given out
    call,       \* the handle each spawn or stop under way is about
    pc,
    reply,      \* what the last call of each caller returned
    strays      \* history: pids signalled after their process was gone

system == <<proc, success>>
client == <<handles, call, pc, reply>>
vars   == <<processes, system, client, strays>>

Handle  == [id: Ids, pid: Pids]
NoReply == [op |-> "none", pid |-> None, res |-> "none"]

Live(p) == proc[p] \in {"running", "paused"}

TypeOK ==
    /\ processes \in [Ids -> Pids \cup {None}]
    /\ proc \in [Pids -> {"unborn", "running", "paused", "zombie", "gone"}]
    /\ success \subseteq Pids
    /\ handles \subseteq Handle
    /\ call \in [Callers -> Handle \cup {None}]
    /\ pc \in [Callers -> {"idle", "insert", "stopping"}]
    /\ reply \in [Callers -> [op: {"signal", "status", "stop"}, pid: Pids,
                              res: {"ok", "not_found", "failed", "Running", "Stopped", "Failed"}]
                            \cup {NoReply}]
    /\ strays \subseteq Pids
    /\ \A d \in Ids : processes[d] # None => proc[processes[d]] \in {"running", "paused", "zombie"}

Init ==
    /\ processes = [d \in Ids |-> None]
    /\ proc = [p \in Pids |-> "unborn"] /\ success = {}
    /\ handles = {}
    /\ call = [c \in Callers |-> None] /\ pc = [c \in Callers |-> "idle"]
    /\ reply = [c \in Callers |-> NoReply]
    /\ strays = {}

-----------------------------------------------------------------------------
(* The kernel (external)                                                    *)

\* A process exits with its code, or dies of a signal it was sent.
Die(p) ==
    /\ proc[p] = "running"
    /\ proc' = [proc EXCEPT ![p] = "zombie"]
    /\ success' \in {success, success \cup {p}}
    /\ UNCHANGED <<processes, client, strays>>

\* tokio reaps a child that was dropped, in its own time.
ReapDropped(p) ==
    /\ proc[p] = "zombie"
    /\ \A d \in Ids : processes[d] # p
    /\ \A c \in Callers : pc[c] = "insert" => call[c].pid # p
    /\ proc' = [proc EXCEPT ![p] = "gone"]
    /\ UNCHANGED <<processes, success, client, strays>>

\* kill(2); the default action of the signals but for Kill, Stop and Cont is Die.
Kill(p, sig) ==
    /\ proc' = CASE sig = "Kill" /\ Live(p)              -> [proc EXCEPT ![p] = "zombie"]
                 [] sig = "Stop" /\ proc[p] = "running"  -> [proc EXCEPT ![p] = "paused"]
                 [] sig = "Cont" /\ proc[p] = "paused"   -> [proc EXCEPT ![p] = "running"]
                 [] OTHER                                -> proc
    /\ strays' = IF proc[p] = "gone" THEN strays \cup {p} ELSE strays

-----------------------------------------------------------------------------
(* The adapter's methods *)

\* A spawn of d returned, or is under way.
Spawned(d) ==
    \/ \E h \in handles : h.id = d
    \/ \E c \in Callers : pc[c] = "insert" /\ call[c].id = d

Fork(c, d, p) ==
    /\ pc[c] = "idle" /\ proc[p] = "unborn"
    /\ Respawn \/ ~Spawned(d)
    /\ proc' = [proc EXCEPT ![p] = "running"]
    /\ call' = [call EXCEPT ![c] = [id |-> d, pid |-> p]]
    /\ pc' = [pc EXCEPT ![c] = "insert"]
    /\ UNCHANGED <<processes, success, handles, reply, strays>>

\* HashMap::insert drops a child that was there; a dropped child runs on.
Insert(c) ==
    /\ pc[c] = "insert"
    /\ processes' = [processes EXCEPT ![call[c].id] = call[c].pid]
    /\ handles' = handles \cup {call[c]}
    /\ call' = [call EXCEPT ![c] = None]
    /\ pc' = [pc EXCEPT ![c] = "idle"]
    /\ UNCHANGED <<system, reply, strays>>

Managed(h) == processes[h.id] # None

\* The outcome of signal(): the lookup fails, kill(2) may fail, or "ok".
SignalResult(h) ==
    IF ~Managed(h) THEN {"not_found"}
    ELSE {"ok"} \cup (IF proc[h.pid] = "gone" THEN {"failed"} ELSE {})

\* Effects of signal().  After a Kill the child that is in the map is killed and dropped.
Deliver_Unmanaged(h, sig, res) ==
    /\ Kill(h.pid, sig)
    /\ processes' = IF sig = "Kill" THEN [processes EXCEPT ![h.id] = None] ELSE processes
    /\ UNCHANGED success

Deliver_DropsOnTerm(h, sig, res) ==
    IF res = "not_found" THEN UNCHANGED <<processes, system, strays>>
    ELSE /\ Kill(h.pid, sig)
         /\ processes' = [processes EXCEPT ![h.id] = None]
         /\ UNCHANGED success

Deliver(h, sig, res) ==
    CASE res = "not_found" -> UNCHANGED <<processes, system, strays>>
      [] res # "not_found" /\ sig = "Kill" /\ res = "ok" ->
            /\ proc' = [p \in Pids |->
                           IF p \in {h.pid, processes[h.id]} /\ Live(p) THEN "zombie" ELSE proc[p]]
            /\ strays' = IF proc[h.pid] = "gone" THEN strays \cup {h.pid} ELSE strays
            /\ processes' = [processes EXCEPT ![h.id] = None]
            /\ UNCHANGED success
      [] OTHER -> Kill(h.pid, sig) /\ UNCHANGED <<processes, success>>

Answer(c, op, h, res) == reply' = [reply EXCEPT ![c] = [op |-> op, pid |-> h.pid, res |-> res]]

Signal(c, h, sig) ==
    /\ pc[c] = "idle" /\ h \in handles
    /\ \E res \in SignalResult(h) :
           Deliver(h, sig, res) /\ Answer(c, "signal", h, res)
    /\ UNCHANGED <<handles, call, pc>>

\* What status() says: the child in the map, or Stopped for want of one.
StatusResult(h) ==
    LET p == processes[h.id] IN
    CASE p = None                          -> "Stopped"
      [] p # None /\ Live(p)               -> "Running"
      [] p # None /\ ~Live(p) /\ p \in success -> "Stopped"
      [] OTHER                             -> "Failed"

\* try_wait reaps a child that has ended, and it leaves the map.
Observe(h) ==
    /\ LET p == processes[h.id] IN
       IF p # None /\ proc[p] = "zombie"
       THEN proc' = [proc EXCEPT ![p] = "gone"] /\ processes' = [processes EXCEPT ![h.id] = None]
       ELSE UNCHANGED <<proc, processes>>
    /\ UNCHANGED <<success, strays>>

Status(c, h) ==
    /\ pc[c] = "idle" /\ h \in handles
    /\ Observe(h)
    /\ Answer(c, "status", h, StatusResult(h))
    /\ UNCHANGED <<handles, call, pc>>

\* stop(): Term,
Stop(c, h) ==
    /\ pc[c] = "idle" /\ h \in handles
    /\ \E res \in SignalResult(h) :
           /\ Deliver(h, "Term", res)
           /\ IF res = "ok"
              THEN /\ pc' = [pc EXCEPT ![c] = "stopping"]
                   /\ call' = [call EXCEPT ![c] = h]
                   /\ UNCHANGED reply
              ELSE Answer(c, "stop", h, res) /\ UNCHANGED <<pc, call>>
    /\ UNCHANGED handles

StopReturns(c, res) ==
    /\ pc' = [pc EXCEPT ![c] = "idle"]
    /\ call' = [call EXCEPT ![c] = None]
    /\ Answer(c, "stop", call[c], res)

StopPolls_Impatient(c) ==
    /\ pc[c] = "stopping"
    /\ Observe(call[c])
    /\ StopReturns(c, "ok")
    /\ UNCHANGED handles

\* status() every 50 ms until it says that the daemon has ended,
StopPolls(c) ==
    /\ pc[c] = "stopping"
    /\ Observe(call[c])
    /\ IF StatusResult(call[c]) = "Running" THEN UNCHANGED <<pc, call, reply>>
                                            ELSE StopReturns(c, "ok")
    /\ UNCHANGED handles

StopExpires_KeepsPolling(c) ==
    /\ pc[c] = "stopping"
    /\ \E res \in SignalResult(call[c]) : Deliver(call[c], "Kill", res)
    /\ UNCHANGED client

\* and Kill when the timeout has passed.
StopExpires(c) ==
    /\ pc[c] = "stopping"
    /\ \E res \in SignalResult(call[c]) :
           Deliver(call[c], "Kill", res) /\ StopReturns(c, res)
    /\ UNCHANGED handles

Next ==
    \/ \E c \in Callers :
           \/ \E d \in Ids, p \in Pids : Fork(c, d, p)
           \/ Insert(c)
           \/ \E h \in handles :
                  \/ \E sig \in {"Term", "Kill", "Stop", "Cont"} : Signal(c, h, sig)
                  \/ Status(c, h)
                  \/ Stop(c, h)
           \/ StopPolls(c) \/ StopExpires(c)
    \/ \E p \in Pids : Die(p) \/ ReapDropped(p)

Spec == Init /\ [][Next]_vars

(* The clock of a stop() advances.                                          *)
FairSpec == Spec /\ \A c \in Callers : WF_vars(StopExpires(c))

-----------------------------------------------------------------------------

(* kill(2) (l.143) never goes to the pid of a process that was reaped, which*)
(* may be anybody's: the lookup (l.117) guards it, as an entry leaves the   *)
(* map when its child is reaped (l.201).                                    *)
NoStraySignals == strays = {}

(* A stop() that reports success (l.240, l.247) leaves the process of its   *)
(* handle dead, whoever else signals, kills or polls the daemon meanwhile.  *)
StopMeansDead ==
    \A c \in Callers :
        reply[c].op = "stop" /\ reply[c].res = "ok" => ~Live(reply[c].pid)

Spawning(p) == \E c \in Callers : pc[c] = "insert" /\ call[c].pid = p

(* "Running processes indexed by daemon ID" (l.25): a live process that is  *)
(* not just being spawned is in the map, where it can be signalled.         *)
NoneLost == \A p \in Pids : Live(p) => Spawning(p) \/ \E d \in Ids : processes[d] = p

(* A stop() ends although the daemon ignores Term or is paused (l.245).     *)
StopEnds == \A c \in Callers : pc[c] = "stopping" ~> pc[c] = "idle"

(* Stopped is "Daemon has stopped normally" (types.rs l.68): status() says  *)
(* it only of a process that exited with code 0.                            *)
StoppedIsNormal ==
    \A c \in Callers :
        reply[c].op = "status" /\ reply[c].res = "Stopped" => reply[c].pid \in success

(* "Returns an error if the daemon cannot be stopped" (adapter.rs l.477): a *)
(* stop() that sent its Term fails only if the daemon is still up.          *)
StopFailsOnlyIfUp ==
    [][\A c \in Callers :
           pc[c] = "stopping" /\ pc'[c] = "idle" /\ reply'[c].res # "ok" => Live(call[c].pid)]_vars

=============================================================================
