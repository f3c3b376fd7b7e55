---------------------------- MODULE DaemonManager ---------------------------
(***************************************************************************)
(* duende-core/src/manager.rs with the contexts of daemon.rs: callers of a *)
(* DaemonManager, the two levels of locks they go through, the bounded     *)
(* signal channel of each DaemonContext and the run loop at its other end. *)
(*                                                                         *)
(* Every method takes the RwLock of the map and, unless it only needs the  *)
(* map, the Mutex of one entry, and holds both until it returns: signal()  *)
(* even while it waits for room in the channel.  Both tokio locks are      *)
(* first-in first-out, so each is the queue of its holders and waiters:    *)
(* the entry's Mutex belongs to the head, the map to a writer at the head  *)
(* or to the readers ahead of the first writer.  What a method does        *)
(* between two awaits is one step.                                         *)
(*                                                                         *)
(* Not modelled: restart_count, restart_policy, last_health and            *)
(* last_started, which no other method reads (their getters are "status").*)
(***************************************************************************)
EXTENDS Naturals, Sequences, SequencesExt

CONSTANTS
    Callers,        \* tasks that call the manager
    Daemons,        \* daemon ids
    Contexts,       \* DaemonContexts that can be created, each once
    Capacity,       \* of the signal channel (16 in the code)
    StatusInputs,   \* statuses the callers pass to update_status
    Signals,        \* signals the callers pass to signal
    Operations,     \* methods each caller uses, "cancel" for giving one up
    None

DaemonStatus == {"Created", "Starting", "Running", "Paused", "Stopping", "Stopped", "Failed"}

Signal == {"Term", "Int", "Quit", "Hup", "Usr1", "Usr2", "Kill", "Stop", "Cont"}

ASSUME ManagerAssumption ==
    /\ Capacity \in Nat \ {0}
    /\ StatusInputs \subseteq DaemonStatus
    /\ Signals \subseteq Signal
    /\ None \notin Daemons \cup Contexts \cup DaemonStatus \cup Signal
    /\ \A listed \in SUBSET Daemons : listed # None

VARIABLES
    registered,     \* keys of the map
    status,         \* status of each entry
    handle,         \* context_handle of each entry: the context it sends to, or None
    map_queue,      \* holders and waiters of the map's RwLock
    mutex_queue,    \* holder and waiters of each entry's Mutex
    call,           \* the method each caller is in, with its arguments
    pc,             \* what that method waits for
    sweep,          \* daemons shutdown_all has still to signal; None outside of it
    context,        \* life of each DaemonContext
    chan,           \* its signal channel
    shutdown        \* its shutdown flag

entries == <<registered, status, handle>>
locks   == <<map_queue, mutex_queue>>
methods == <<call, pc, sweep>>
runtime == <<context, chan, shutdown>>
vars    == <<entries, locks, methods, runtime>>

IsActive(s)  == s \in {"Running", "Paused"}
CanSignal(s) == s \in {"Running", "Paused", "Stopping"}

NoCall == [op |-> None, id |-> None, arg |-> None]

Requests ==
         [op: {"register", "unregister", "status"}, id: Daemons, arg: {None}]
    \cup [op: {"update_status"},      id: Daemons, arg: StatusInputs]
    \cup [op: {"signal"},             id: Daemons, arg: Signals]
    \cup [op: {"set_context_handle"}, id: Daemons, arg: Contexts]

\* What a method is turned into inside shutdown_all.
Listing  == [op |-> "list", id |-> None, arg |-> None]
Counting == [op |-> "count", id |-> None, arg |-> None]
Terminate(d) == [op |-> "signal", id |-> d, arg |-> "Term"]

TypeOK ==
    /\ registered \subseteq Daemons
    /\ status \in [Daemons -> DaemonStatus]
    /\ handle \in [Daemons -> Contexts \cup {None}]
    /\ map_queue \in Seq(Callers)
    /\ mutex_queue \in [Daemons -> Seq(Callers)]
    /\ call \in [Callers -> Requests \cup {NoCall, Listing, Counting}
                                     \cup { Terminate(d) : d \in Daemons }]
    /\ pc \in [Callers -> {"idle", "map", "entry", "send", "next"}]
    /\ sweep \in [Callers -> (SUBSET Daemons) \cup {None}]
    /\ context \in [Contexts -> {"new", "live", "dropped"}]
    /\ chan \in [Contexts -> Seq(Signal)]
    /\ \A x \in Contexts : Len(chan[x]) <= Capacity
    /\ shutdown \in [Contexts -> BOOLEAN]

Init ==
    /\ registered = {}
    /\ status = [d \in Daemons |-> "Created"]
    /\ handle = [d \in Daemons |-> None]
    /\ map_queue = <<>>
    /\ mutex_queue = [d \in Daemons |-> <<>>]
    /\ call = [c \in Callers |-> NoCall]
    /\ pc = [c \in Callers |-> "idle"]
    /\ sweep = [c \in Callers |-> None]
    /\ context = [x \in Contexts |-> "new"]
    /\ chan = [x \in Contexts |-> <<>>]
    /\ shutdown = [x \in Contexts |-> FALSE]

-----------------------------------------------------------------------------
(* Locks *)

\* A future has at most one place in a lock's queue.
Without(queue, c) == RemoveFirst(queue, c)

\* daemons.write().await rather than daemons.read().await.
WritesMap(c) == call[c].op \in {"register", "unregister"}

HasMap(c) ==
    \E i \in DOMAIN map_queue :
        /\ map_queue[i] = c
        /\ IF WritesMap(c) THEN i = 1 ELSE \A j \in 1..i : ~WritesMap(map_queue[j])

HasEntry(c) == Head(mutex_queue[call[c].id]) = c

\* c queues for the map in order to run request r.
Enter(c, r) ==
    /\ call' = [call EXCEPT ![c] = r]
    /\ pc' = [pc EXCEPT ![c] = "map"]
    /\ map_queue' = Append(map_queue, c)
    /\ UNCHANGED mutex_queue

\* c drops its guards and its place in every queue.
Release(c) ==
    /\ map_queue' = Without(map_queue, c)
    /\ mutex_queue' = [d \in Daemons |-> Without(mutex_queue[d], c)]
    /\ call' = [call EXCEPT ![c] = NoCall]

\* The method of c returns, to shutdown_all if that is what called it.
Return(c) ==
    /\ Release(c)
    /\ pc' = [pc EXCEPT ![c] = IF sweep[c] = None THEN "idle" ELSE "next"]
    /\ UNCHANGED sweep

-----------------------------------------------------------------------------
(* Methods *)

\* A context handed to set_context_handle comes from DaemonContext::new just before.
Begin(c, r) ==
    /\ pc[c] = "idle" /\ r.op \in Operations[c]
    /\ IF r.op = "set_context_handle"
       THEN context[r.arg] = "new" /\ context' = [context EXCEPT ![r.arg] = "live"]
       ELSE UNCHANGED context
    /\ Enter(c, r)
    /\ UNCHANGED <<entries, sweep, chan, shutdown>>

Register(c) ==
    /\ pc[c] = "map" /\ HasMap(c) /\ call[c].op = "register"
    /\ LET d == call[c].id IN
       IF d \in registered
       THEN UNCHANGED entries
       ELSE /\ registered' = registered \cup {d}
            /\ status' = [status EXCEPT ![d] = "Created"]
            /\ handle' = [handle EXCEPT ![d] = None]
    /\ Return(c)
    /\ UNCHANGED runtime

\* The other methods on one daemon: NotFound, or on to the entry's Mutex.
Lookup(c) ==
    /\ pc[c] = "map" /\ HasMap(c)
    /\ call[c].op \notin {"register", "list", "count"}
    /\ LET d == call[c].id IN
       IF d \in registered
       THEN /\ mutex_queue' = [mutex_queue EXCEPT ![d] = Append(@, c)]
            /\ pc' = [pc EXCEPT ![c] = "entry"]
            /\ UNCHANGED <<map_queue, call, sweep>>
       ELSE Return(c)
    /\ UNCHANGED <<entries, runtime>>

Locked(c, op) == pc[c] = "entry" /\ HasEntry(c) /\ call[c].op = op

Unregister_Unchecked(c) ==
    /\ Locked(c, "unregister")
    /\ LET d == call[c].id IN
       /\ registered' = registered \ {d}
       /\ status' = [status EXCEPT ![d] = "Created"]
       /\ handle' = [handle EXCEPT ![d] = None]
    /\ Return(c)
    /\ UNCHANGED runtime

\* A removed entry is dropped: its fields go back to the initial ones.
Unregister(c) ==
    /\ Locked(c, "unregister")
    /\ LET d == call[c].id IN
       IF IsActive(status[d])
       THEN UNCHANGED entries
       ELSE /\ registered' = registered \ {d}
            /\ status' = [status EXCEPT ![d] = "Created"]
            /\ handle' = [handle EXCEPT ![d] = None]
    /\ Return(c)
    /\ UNCHANGED runtime

\* status() and the getters.
ReadEntry(c) ==
    /\ Locked(c, "status")
    /\ Return(c)
    /\ UNCHANGED <<entries, runtime>>

UpdateStatus(c) ==
    /\ Locked(c, "update_status")
    /\ status' = [status EXCEPT ![call[c].id] = call[c].arg]
    /\ Return(c)
    /\ UNCHANGED <<registered, handle, runtime>>

SetContextHandle(c) ==
    /\ Locked(c, "set_context_handle")
    /\ handle' = [handle EXCEPT ![call[c].id] = call[c].arg]
    /\ Return(c)
    /\ UNCHANGED <<registered, status, runtime>>

SignalEntry_DropsGuard(c) ==
    /\ Locked(c, "signal")
    /\ LET d == call[c].id IN
       IF CanSignal(status[d]) /\ handle[d] # None
       THEN /\ pc' = [pc EXCEPT ![c] = "send"]
            /\ mutex_queue' = [mutex_queue EXCEPT ![d] = Without(@, c)]
            /\ UNCHANGED <<map_queue, call, sweep>>
       ELSE Return(c)
    /\ UNCHANGED <<entries, runtime>>

\* signal(): refused by the state or for want of a handle, else on to the channel.
SignalEntry(c) ==
    /\ Locked(c, "signal")
    /\ LET d == call[c].id IN
       IF CanSignal(status[d]) /\ handle[d] # None
       THEN pc' = [pc EXCEPT ![c] = "send"] /\ UNCHANGED <<locks, call, sweep>>
       ELSE Return(c)
    /\ UNCHANGED <<entries, runtime>>

Send_Deaf(c) ==
    /\ pc[c] = "send"
    /\ LET x == handle[call[c].id] IN
       /\ context[x] = "live" /\ Len(chan[x]) < Capacity
       /\ chan' = [chan EXCEPT ![x] = Append(@, call[c].arg)]
    /\ Return(c)
    /\ UNCHANGED <<entries, context, shutdown>>

\* send_signal().await: waits while the channel is full, fails once the context is dropped.
Send(c) ==
    /\ pc[c] = "send"
    /\ LET x == handle[call[c].id] IN
       \/ context[x] = "dropped" /\ UNCHANGED chan
       \/ /\ context[x] = "live" /\ Len(chan[x]) < Capacity
          /\ chan' = [chan EXCEPT ![x] = Append(@, call[c].arg)]
    /\ Return(c)
    /\ UNCHANGED <<entries, context, shutdown>>

-----------------------------------------------------------------------------
(* shutdown_all: list(), then signal(id, Term) one by one with every error   *)
(* only logged, then count().                                               *)

ShutdownAll(c) ==
    /\ pc[c] = "idle" /\ "shutdown_all" \in Operations[c]
    /\ Enter(c, Listing)
    /\ UNCHANGED <<entries, sweep, runtime>>

List(c) ==
    /\ pc[c] = "map" /\ HasMap(c) /\ call[c].op = "list"
    /\ Release(c)
    /\ sweep' = [sweep EXCEPT ![c] = registered]
    /\ pc' = [pc EXCEPT ![c] = "next"]
    /\ UNCHANGED <<entries, runtime>>

SignalNext_Once(c) ==
    /\ pc[c] = "next"
    /\ \E d \in sweep[c] :
           Enter(c, Terminate(d)) /\ sweep' = [sweep EXCEPT ![c] = {}]
    /\ UNCHANGED <<entries, runtime>>

\* The order of the ids is that of the HashMap.
SignalNext(c) ==
    /\ pc[c] = "next"
    /\ \E d \in sweep[c] :
           Enter(c, Terminate(d)) /\ sweep' = [sweep EXCEPT ![c] = @ \ {d}]
    /\ UNCHANGED <<entries, runtime>>

AllSignalled(c) ==
    /\ pc[c] = "next" /\ sweep[c] = {}
    /\ Enter(c, Counting)
    /\ sweep' = [sweep EXCEPT ![c] = None]
    /\ UNCHANGED <<entries, runtime>>

Count(c) ==
    /\ pc[c] = "map" /\ HasMap(c) /\ call[c].op = "count"
    /\ Return(c)
    /\ UNCHANGED <<entries, runtime>>

\* The caller drops the future of its method (a timeout, a select).
Cancel(c) ==
    /\ pc[c] # "idle" /\ "cancel" \in Operations[c]
    /\ Release(c)
    /\ pc' = [pc EXCEPT ![c] = "idle"]
    /\ sweep' = [sweep EXCEPT ![c] = None]
    /\ UNCHANGED <<entries, runtime>>

-----------------------------------------------------------------------------
(* The daemon's side *)

Receive_NoQuit(x) ==
    /\ context[x] = "live" /\ chan[x] # <<>>
    /\ chan' = [chan EXCEPT ![x] = Tail(@)]
    /\ shutdown' = [shutdown EXCEPT ![x] = Head(chan[x]) \in {"Term", "Int", "Quit"}]
    /\ UNCHANGED <<entries, locks, methods, context>>

\* try_recv_signal, and recv_signal once there is a signal.
Receive(x) ==
    /\ context[x] = "live" /\ chan[x] # <<>>
    /\ chan' = [chan EXCEPT ![x] = Tail(@)]
    /\ shutdown' = [shutdown EXCEPT ![x] = @ \/ Head(chan[x]) \in {"Term", "Int", "Quit"}]
    /\ UNCHANGED <<entries, locks, methods, context>>

\* run() returns and the context is dropped: a shutdown, an error, the end of the work.
Exit(x) ==
    /\ context[x] = "live"
    /\ context' = [context EXCEPT ![x] = "dropped"]
    /\ chan' = [chan EXCEPT ![x] = <<>>]
    /\ UNCHANGED <<entries, locks, methods, shutdown>>

Step(c) ==
    \/ Register(c) \/ Lookup(c) \/ Unregister(c) \/ ReadEntry(c)
    \/ UpdateStatus(c) \/ SetContextHandle(c) \/ SignalEntry(c) \/ Send(c)
    \/ List(c) \/ SignalNext(c) \/ AllSignalled(c) \/ Count(c)

Next ==
    \/ \E c \in Callers :
           \/ \E r \in Requests : Begin(c, r)
           \/ ShutdownAll(c) \/ Step(c) \/ Cancel(c)
    \/ \E x \in Contexts : Receive(x) \/ Exit(x)

Spec == Init /\ [][Next]_vars

(* A caller that can go on is scheduled.                                    *)
CallersRun == \A c \in Callers : WF_vars(Step(c))

(* The contract of Daemon::run (daemon.rs l.105-109): it handles signals    *)
(* and returns once should_shutdown.                                        *)
DaemonsRun ==
    \A x \in Contexts : WF_vars(Receive(x)) /\ WF_vars(shutdown[x] /\ Exit(x))

FairSpec == Spec /\ CallersRun /\ DaemonsRun

\* The callers run, a daemon may be busy or hung.
HungSpec == Spec /\ CallersRun

-----------------------------------------------------------------------------

(* unregister (l.278-298) never removes an active daemon, although it waits *)
(* for the entry between looking it up and checking it.                     *)
ActiveStaysRegistered ==
    [][\A d \in registered : IsActive(status[d]) => d \in registered']_vars

(* What signal() checked (l.338-345) still holds when its wait for room in  *)
(* the channel (l.346) is over, however long it was: the entry is there, in *)
(* a state that takes signals, and has a handle.                            *)
SendingStillValid ==
    \A c \in Callers : pc[c] = "send" =>
        LET d == call[c].id IN
        d \in registered /\ CanSignal(status[d]) /\ handle[d] # None

(* With daemons that keep to the contract of run(), every method returns:   *)
(* no wait on the map, on an entry or on a channel is for ever.             *)
CallsReturn == \A c \in Callers : pc[c] # "idle" ~> pc[c] = "idle"

Holds(x, signal) == \E i \in DOMAIN chan[x] : chan[x][i] = signal

(* A Term that the channel took (l.346) ends the daemon's run, whatever is  *)
(* queued before or after it (daemon.rs l.216-225).                         *)
TermEndsRun == \A x \in Contexts : Holds(x, "Term") ~> context[x] = "dropped"

(* shutdown_all (l.483-490) reaches every daemon it listed: one that takes  *)
(* signals ends its run, or has another context by then.                    *)
ListedEndsRun ==
    \A c \in Callers, d \in Daemons, x \in Contexts :
        sweep[c] # None /\ d \in sweep[c] /\ CanSignal(status[d]) /\ handle[d] = x
            ~> context[x] = "dropped" \/ handle[d] # x

(* shutdown_all (l.482): "Returns an error if any daemon fails to shut down *)
(* within the timeout", so once it returns Ok the daemons are down.         *)
ShutdownAllCompletes ==
    [][\A c \in Callers : call[c] = Counting /\ Count(c) =>
           \A d \in registered : handle[d] # None => context[handle[d]] = "dropped"]_vars

(* shutdown_all (l.482) returns at all when a daemon does not shut down.    *)
ShutdownAllReturns == \A c \in Callers : sweep[c] # None ~> pc[c] = "idle"

=============================================================================
