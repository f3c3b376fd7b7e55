------------------------- MODULE NativeAdapterProofs ------------------------
(***************************************************************************)
(* What starts and stops processes on this machine: the native adapter's   *)
(* safety, for every set of daemons, processes and callers; then a test's  *)
(* shutdown and locked memory, for any processes, tasks, pages and limits; *)
(* and the load test against a daemon, for any users and latencies.        *)
(*                                                                         *)
(* The properties speak of pids while the map is looked up by daemon ids,  *)
(* so the invariant says how the two fit: every entry is a handle that was *)
(* given out (Slots), no two handles or spawns share a pid (OnePid) nor,   *)
(* as long as nothing is spawned again, an id (OneId).                     *)
(***************************************************************************)
EXTENDS NativeAdapter, Harness, MemoryLock, LoadTester, Sums, SequenceTheorems,
        FiniteSetTheorems, TLAPS

\* Lives of a process that has not been reaped.
Kept == {"running", "paused", "zombie"}

Slots == \A d \in Ids : processes[d] # None => [id |-> d, pid |-> processes[d]] \in handles

Calls ==
    \A c \in Callers :
        /\ pc[c] = "stopping" => call[c] \in handles
        /\ pc[c] = "insert" => call[c] \in Handle /\ proc[call[c].pid] \in Kept

Born == \A h \in handles : proc[h.pid] # "unborn"

OnePid ==
    /\ \A h, k \in handles : h.pid = k.pid => h = k
    /\ \A c \in Callers : pc[c] = "insert" => \A h \in handles : call[c].pid # h.pid
    /\ \A c, e \in Callers :
           pc[c] = "insert" /\ pc[e] = "insert" /\ call[c].pid = call[e].pid => c = e

OneId ==
    /\ \A h, k \in handles : h.id = k.id => h = k
    /\ \A c \in Callers : pc[c] = "insert" => \A h \in handles : call[c].id # h.id
    /\ \A c, e \in Callers :
           pc[c] = "insert" /\ pc[e] = "insert" /\ call[c].id = call[e].id => c = e

\* A stop() that succeeded: its process ended, and stays so.
StopDone ==
    \A c \in Callers :
        reply[c].op = "stop" /\ reply[c].res = "ok" => proc[reply[c].pid] \in {"zombie", "gone"}

Inv == TypeOK /\ Slots /\ Calls /\ Born /\ OnePid

\* What holds besides where no daemon is spawned twice.
OnceInv == OneId /\ NoneLost /\ NoStraySignals /\ StopDone

(***************************************************************************)
(* All steps but Fork and Insert only let processes end and entries go.    *)
(***************************************************************************)

Settles ==
    /\ processes' \in [Ids -> Pids \cup {None}]
    /\ \A d \in Ids : processes'[d] \in {processes[d], None}
    /\ proc' \in [Pids -> {"unborn", "running", "paused", "zombie", "gone"}]
    /\ success' \subseteq Pids /\ strays' \subseteq Pids
    /\ \A p \in Pids :
           /\ proc'[p] = "unborn" <=> proc[p] = "unborn"
           /\ proc[p] \in {"zombie", "gone"} => proc'[p] \in {"zombie", "gone"}
           /\ proc[p] \in Kept /\ proc'[p] \notin Kept =>
                  /\ \A d \in Ids : processes'[d] # p
                  /\ ~Spawning(p)

ClientKept ==
    /\ handles' = handles
    /\ call' \in [Callers -> Handle \cup {None}]
    /\ pc' \in [Callers -> {"idle", "insert", "stopping"}]
    /\ reply' \in [Callers -> [op: {"signal", "status", "stop"}, pid: Pids,
                               res: {"ok", "not_found", "failed", "Running", "Stopped", "Failed"}]
                             \cup {NoReply}]
    /\ \A c \in Callers :
           /\ pc'[c] = "insert" <=> pc[c] = "insert"
           /\ pc[c] = "insert" => call'[c] = call[c]
           /\ pc'[c] = "stopping" => call'[c] \in handles

LEMMA SettlingKeepsInv == Inv /\ Settles /\ ClientKept => Inv'
<1> SUFFICES ASSUME Inv, Settles, ClientKept PROVE Inv'
  OBVIOUS
<1> USE NativeAssumption
<1>1. TypeOK'
  <2>1. \A d \in Ids : processes'[d] # None => proc'[processes'[d]] \in Kept
    <3> SUFFICES ASSUME NEW d \in Ids, processes'[d] # None
                 PROVE  proc'[processes'[d]] \in Kept
      OBVIOUS
    <3>1. processes'[d] = processes[d] /\ processes[d] \in Pids
      BY DEF Settles, Inv, TypeOK
    <3>2. proc[processes[d]] \in Kept
      BY <3>1 DEF Inv, TypeOK, Kept
    <3> QED
      BY <3>1, <3>2 DEF Settles
  <2> QED
    BY <2>1 DEF Settles, ClientKept, Inv, TypeOK, Kept
<1>2. Slots'
  BY DEF Slots, Settles, ClientKept, Inv
<1>3. Calls'
  <2> SUFFICES ASSUME NEW c \in Callers, pc[c] = "insert"
               PROVE  call[c] \in Handle /\ proc'[call[c].pid] \in Kept
    BY DEF Calls, ClientKept
  <2>1. call[c] \in Handle /\ call[c].pid \in Pids /\ proc[call[c].pid] \in Kept
    BY DEF Inv, Calls, Handle
  <2>2. Spawning(call[c].pid)
    BY DEF Spawning
  <2> QED
    BY <2>1, <2>2 DEF Settles
<1>4. Born'
  BY DEF Born, Settles, ClientKept, Inv, TypeOK, Handle
<1>5. OnePid'
  BY DEF OnePid, ClientKept, Inv
<1> QED
  BY <1>1, <1>2, <1>3, <1>4, <1>5 DEF Inv


LEMMA DeliverSettles ==
    ASSUME Inv, NEW h \in handles, NEW sig, NEW res, Deliver(h, sig, res)
    PROVE  Settles
<1>a. h.id \in Ids /\ h.pid \in Pids
  BY DEF Inv, TypeOK, Handle
<1> USE NativeAssumption
<1>1. CASE res = "not_found"
  BY <1>1 DEF Deliver, Settles, Inv, TypeOK, system
<1>2. CASE res # "not_found" /\ sig = "Kill" /\ res = "ok"
  BY <1>a, <1>2 DEF Deliver, Settles, Inv, TypeOK, Kept, Live
<1>3. CASE res # "not_found" /\ ~(sig = "Kill" /\ res = "ok")
  <2>1. Kill(h.pid, sig) /\ UNCHANGED <<processes, success>>
    BY <1>3 DEF Deliver
  <2> QED
    BY <1>a, <2>1 DEF Kill, Settles, Inv, TypeOK, Kept, Live
<1> QED
  BY <1>1, <1>2, <1>3

LEMMA ObserveSettles ==
    ASSUME Inv, NEW h \in handles, Observe(h)
    PROVE  Settles
<1> DEFINE p == processes[h.id]
<1>a. h.id \in Ids /\ p \in Pids \cup {None}
  BY DEF Inv, TypeOK, Handle
<1>1. CASE p # None /\ proc[p] = "zombie"
  <2>1. /\ proc' = [proc EXCEPT ![p] = "gone"]
        /\ processes' = [processes EXCEPT ![h.id] = None]
        /\ UNCHANGED <<success, strays>>
    BY <1>1 DEF Observe
  <2>2. [id |-> h.id, pid |-> p] \in handles
    BY <1>a, <1>1 DEF Inv, Slots
  <2>3. ~Spawning(p)
    BY <2>2 DEF Inv, OnePid, Spawning
  <2>4. \A d \in Ids : processes'[d] # p
    <3> SUFFICES ASSUME NEW d \in Ids, d # h.id, processes[d] = p PROVE FALSE
      BY <1>a, <1>1, <2>1 DEF Inv, TypeOK
    <3>1. [id |-> d, pid |-> p] \in handles
      BY <1>1 DEF Inv, Slots
    <3> QED
      BY <2>2, <3>1 DEF Inv, OnePid
  <2> QED
    BY <1>a, <1>1, <2>1, <2>3, <2>4 DEF Settles, Inv, TypeOK, Kept
<1>2. CASE ~(p # None /\ proc[p] = "zombie")
  BY <1>2 DEF Observe, Settles, Inv, TypeOK, Kept
<1> QED
  BY <1>1, <1>2

\* The result of a signal() and of a status() fit the type of reply.
LEMMA AnswersAreResults ==
    ASSUME NEW h
    PROVE  /\ SignalResult(h) \subseteq {"ok", "not_found", "failed"}
           /\ StatusResult(h) \in {"Running", "Stopped", "Failed"}
BY DEF SignalResult, StatusResult

LEMMA InvStep == Inv /\ [Next]_vars => Inv'
<1> SUFFICES ASSUME Inv, [Next]_vars PROVE Inv'
  OBVIOUS
<1> USE NativeAssumption
<1>a. \A h \in handles : h \in Handle /\ h.id \in Ids /\ h.pid \in Pids
  BY DEF Inv, TypeOK, Handle
<1>1. ASSUME NEW c \in Callers, NEW d \in Ids, NEW p \in Pids, Fork(c, d, p) PROVE Inv'
  <2>a. [id |-> d, pid |-> p] \in Handle
    BY DEF Handle
  <2>b. /\ proc' = [proc EXCEPT ![p] = "running"]
        /\ call' = [call EXCEPT ![c] = [id |-> d, pid |-> p]]
        /\ pc' = [pc EXCEPT ![c] = "insert"]
        /\ UNCHANGED <<processes, success, handles, reply, strays>>
        /\ pc[c] = "idle" /\ proc[p] = "unborn"
    BY <1>1 DEF Fork
  <2>c. \A h \in handles : h.pid # p
    BY <2>b DEF Inv, Born
  <2>d. \A e \in Callers : pc[e] = "insert" => call[e].pid # p /\ e # c
    BY <2>b DEF Inv, Calls, Kept
  <2>1. TypeOK'
    <3>1. \A e \in Ids : processes[e] # None => processes[e] # p
      BY <2>b DEF Inv, TypeOK
    <3> QED
      BY <2>a, <2>b, <3>1 DEF Inv, TypeOK
  <2>2. Slots'
    BY <2>b DEF Inv, Slots
  <2>3. Calls'
    BY <2>a, <2>b, <2>d DEF Inv, TypeOK, Calls, Kept, Handle
  <2>4. Born'
    BY <1>a, <2>b, <2>c DEF Inv, TypeOK, Born
  <2>5. OnePid'
    <3>1. \A e \in Callers : pc'[e] = "insert" =>
              (e = c /\ call'[e].pid = p) \/ (e # c /\ pc[e] = "insert" /\ call'[e] = call[e])
      BY <2>b DEF Inv, TypeOK
    <3> QED
      BY <2>b, <2>c, <2>d, <3>1 DEF Inv, OnePid
  <2> QED
    BY <2>1, <2>2, <2>3, <2>4, <2>5 DEF Inv
<1>2. ASSUME NEW c \in Callers, Insert(c) PROVE Inv'
  <2>a. /\ pc[c] = "insert"
        /\ processes' = [processes EXCEPT ![call[c].id] = call[c].pid]
        /\ handles' = handles \cup {call[c]}
        /\ call' = [call EXCEPT ![c] = None]
        /\ pc' = [pc EXCEPT ![c] = "idle"]
        /\ UNCHANGED <<proc, success, reply, strays>>
    BY <1>2 DEF Insert, system
  <2>b. /\ call[c] \in Handle /\ proc[call[c].pid] \in Kept
        /\ call[c].id \in Ids /\ call[c].pid \in Pids
        /\ call[c] = [id |-> call[c].id, pid |-> call[c].pid]
    BY <2>a DEF Inv, Calls, Handle
  <2>1. TypeOK'
    BY <2>a, <2>b DEF Inv, TypeOK, Kept
  <2>2. Slots'
    BY <2>a, <2>b DEF Inv, TypeOK, Slots
  <2>3. Calls'
    BY <2>a DEF Inv, TypeOK, Calls
  <2>4. Born'
    BY <2>a, <2>b DEF Inv, Born, Kept
  <2>5. OnePid'
    <3>1. \A e \in Callers : pc'[e] = "insert" => e # c /\ pc[e] = "insert" /\ call'[e] = call[e]
      BY <2>a DEF Inv, TypeOK
    <3>2. \A h \in handles : call[c].pid # h.pid
      BY <2>a DEF Inv, OnePid
    <3>3. \A e \in Callers : pc'[e] = "insert" => call'[e].pid # call[c].pid
      BY <2>a, <3>1 DEF Inv, OnePid
    <3> QED
      BY <2>a, <3>1, <3>2, <3>3 DEF Inv, OnePid
  <2> QED
    BY <2>1, <2>2, <2>3, <2>4, <2>5 DEF Inv
<1>3. ASSUME NEW c \in Callers, NEW h \in handles, NEW sig, Signal(c, h, sig) PROVE Inv'
  <2>1. PICK res \in SignalResult(h) : Deliver(h, sig, res) /\ Answer(c, "signal", h, res)
    BY <1>3 DEF Signal
  <2>2. ClientKept
    BY <1>a, <1>3, <2>1, AnswersAreResults DEF Signal, Answer, ClientKept, Inv, TypeOK, Calls
  <2> QED
    BY <2>1, <2>2, DeliverSettles, SettlingKeepsInv
<1>4. ASSUME NEW c \in Callers, NEW h \in handles, Status(c, h) PROVE Inv'
  <2>1. Observe(h)
    BY <1>4 DEF Status
  <2>2. ClientKept
    BY <1>a, <1>4, AnswersAreResults DEF Status, Answer, ClientKept, Inv, TypeOK, Calls
  <2> QED
    BY <2>1, <2>2, ObserveSettles, SettlingKeepsInv
<1>5. ASSUME NEW c \in Callers, NEW h \in handles, Stop(c, h) PROVE Inv'
  <2>1. PICK res \in SignalResult(h) :
            /\ Deliver(h, "Term", res)
            /\ IF res = "ok"
               THEN /\ pc' = [pc EXCEPT ![c] = "stopping"]
                    /\ call' = [call EXCEPT ![c] = h]
                    /\ UNCHANGED reply
               ELSE Answer(c, "stop", h, res) /\ UNCHANGED <<pc, call>>
    BY <1>5 DEF Stop
  <2>2. ClientKept
    <3>1. pc[c] = "idle" /\ handles' = handles
      BY <1>5 DEF Stop
    <3> QED
      BY <1>a, <2>1, <3>1, AnswersAreResults DEF Answer, ClientKept, Inv, TypeOK, Calls
  <2> QED
    BY <2>1, <2>2, DeliverSettles, SettlingKeepsInv
<1>6. ASSUME NEW c \in Callers, StopPolls(c) PROVE Inv'
  <2>1. call[c] \in handles /\ Observe(call[c])
    BY <1>6 DEF StopPolls, Inv, Calls
  <2>2. ClientKept
    BY <1>a, <1>6, <2>1 DEF StopPolls, StopReturns, Answer, ClientKept, Inv, TypeOK, Calls
  <2> QED
    BY <2>1, <2>2, ObserveSettles, SettlingKeepsInv
<1>7. ASSUME NEW c \in Callers, StopExpires(c) PROVE Inv'
  <2>1. call[c] \in handles
    BY <1>7 DEF StopExpires, Inv, Calls
  <2>2. PICK res \in SignalResult(call[c]) : Deliver(call[c], "Kill", res) /\ StopReturns(c, res)
    BY <1>7 DEF StopExpires
  <2>3. ClientKept
    BY <1>a, <1>7, <2>1, <2>2, AnswersAreResults
       DEF StopExpires, StopReturns, Answer, ClientKept, Inv, TypeOK, Calls
  <2> QED
    BY <2>1, <2>2, <2>3, DeliverSettles, SettlingKeepsInv
<1>8. ASSUME NEW p \in Pids, Die(p) \/ ReapDropped(p) PROVE Inv'
  <2>1. Settles
    BY <1>8 DEF Die, ReapDropped, Settles, Inv, TypeOK, Kept, Spawning
  <2>2. ClientKept
    BY <1>8 DEF Die, ReapDropped, client, ClientKept, Inv, TypeOK, Calls
  <2> QED
    BY <2>1, <2>2, SettlingKeepsInv
<1>9. CASE UNCHANGED vars
  BY <1>9 DEF vars, system, client, Inv, TypeOK, Slots, Calls, Born, OnePid
<1> QED
  BY <1>1, <1>2, <1>3, <1>4, <1>5, <1>6, <1>7, <1>8, <1>9 DEF Next

LEMMA InvAlways == Spec => []Inv
<1>1. Init => Inv
  BY NativeAssumption DEF Init, Inv, TypeOK, Slots, Calls, Born, OnePid, NoReply
<1> QED
  BY <1>1, InvStep, PTL DEF Spec

(* Type correctness of the adapter; in particular no child in the map was   *)
(* reaped already (native.rs l.201), also where daemons are spawned again.  *)
THEOREM NativeTypeCorrect == Spec => []TypeOK
<1>1. Inv => TypeOK
  BY DEF Inv
<1> QED
  BY <1>1, InvAlways, PTL


-----------------------------------------------------------------------------
(***************************************************************************)
(* A daemon spawned once                                                   *)
(***************************************************************************)

\* What the steps but Fork and Insert leave alone besides.
OnceKept ==
    /\ \A p \in Pids : Live(p)' => Live(p)
    /\ \A d \in Ids : processes[d] # None /\ processes'[d] = None =>
           proc'[processes[d]] \in {"zombie", "gone"}
    /\ strays' = strays

LEMMA EntryIsHandle ==
    ASSUME Inv, OneId, NEW h \in handles, processes[h.id] # None
    PROVE  processes[h.id] = h.pid
<1>1. h.id \in Ids
  BY DEF Inv, TypeOK, Handle
<1>2. [id |-> h.id, pid |-> processes[h.id]] \in handles
  BY <1>1 DEF Inv, Slots
<1> QED
  BY <1>2 DEF OneId

LEMMA DeliverOnce ==
    ASSUME Inv, OnceInv, NEW h \in handles, NEW sig, NEW res \in SignalResult(h),
           Deliver(h, sig, res)
    PROVE  /\ OnceKept
           /\ sig = "Kill" /\ res = "ok" => proc'[h.pid] \in {"zombie", "gone"}
<1>a. h.id \in Ids /\ h.pid \in Pids /\ proc[h.pid] # "unborn"
  BY DEF Inv, TypeOK, Handle, Born
<1> USE NativeAssumption
<1>1. CASE res = "not_found"
  BY <1>1 DEF Deliver, OnceKept, Inv, TypeOK, system, Live
<1>2. CASE res # "not_found"
  <2>1. processes[h.id] # None
    <3> SUFFICES ASSUME ~Managed(h) PROVE FALSE
      BY DEF Managed
    <3>1. SignalResult(h) = {"not_found"}
      BY DEF SignalResult
    <3> QED
      BY <1>2, <3>1
  <2>2. processes[h.id] = h.pid /\ proc[h.pid] \in Kept
    BY <1>a, <2>1, EntryIsHandle DEF OnceInv, Inv, TypeOK, Kept
  <2>3. CASE sig = "Kill" /\ res = "ok"
    BY <1>a, <1>2, <2>2, <2>3 DEF Deliver, OnceKept, Inv, TypeOK, Kept, Live
  <2>4. CASE ~(sig = "Kill" /\ res = "ok")
    <3>1. Kill(h.pid, sig) /\ UNCHANGED <<processes, success>>
      BY <1>2, <2>4 DEF Deliver
    <3> QED
      BY <1>a, <2>2, <2>4, <3>1 DEF Kill, OnceKept, Inv, TypeOK, Kept, Live
  <2> QED
    BY <2>3, <2>4
<1> QED
  BY <1>1, <1>2

LEMMA ObserveOnce ==
    ASSUME Inv, OnceInv, NEW h \in handles, Observe(h)
    PROVE  /\ OnceKept
           /\ StatusResult(h) # "Running" => proc'[h.pid] \in {"zombie", "gone"}
<1>a. h.id \in Ids /\ h.pid \in Pids /\ proc[h.pid] # "unborn"
  BY DEF Inv, TypeOK, Handle, Born
<1> USE NativeAssumption
<1>1. OnceKept
  BY <1>a DEF Observe, OnceKept, Inv, TypeOK, Live
<1>2. ASSUME StatusResult(h) # "Running" PROVE ~Live(h.pid)
  <2>1. CASE processes[h.id] = None
    <3> SUFFICES ASSUME Live(h.pid) PROVE FALSE
      OBVIOUS
    <3>1. ~Spawning(h.pid)
      BY DEF Inv, OnePid, Spawning
    <3>2. PICK d \in Ids : processes[d] = h.pid
      BY <1>a, <3>1 DEF OnceInv, NoneLost
    <3>3. [id |-> d, pid |-> h.pid] \in handles
      BY <1>a, <3>2 DEF Inv, Slots
    <3>4. [id |-> d, pid |-> h.pid] = h
      BY <3>3 DEF Inv, OnePid
    <3> QED
      BY <1>a, <2>1, <3>2, <3>4
  <2>2. CASE processes[h.id] # None
    <3>1. processes[h.id] = h.pid
      BY <2>2, EntryIsHandle DEF OnceInv
    <3> QED
      BY <1>2, <2>2, <3>1 DEF StatusResult
  <2> QED
    BY <2>1, <2>2
<1>3. Live(h.pid)' => Live(h.pid)
  BY <1>a, <1>1 DEF OnceKept
<1>4. proc'[h.pid] # "unborn" /\ proc' \in [Pids -> {"unborn", "running", "paused", "zombie", "gone"}]
  BY <1>a, ObserveSettles DEF Settles
<1> QED
  BY <1>a, <1>1, <1>2, <1>3, <1>4 DEF Live

LEMMA SettlingKeepsOnce ==
    Inv /\ OnceInv /\ Settles /\ OnceKept /\ ClientKept /\ StopDone' => OnceInv'
<1> SUFFICES ASSUME Inv, OnceInv, Settles, OnceKept, ClientKept PROVE OneId' /\ NoneLost' /\ NoStraySignals'
  BY DEF OnceInv
<1> USE NativeAssumption
<1>1. OneId'
  BY DEF OneId, ClientKept, OnceInv
<1>2. NoneLost'
  <2> SUFFICES ASSUME NEW p \in Pids, Live(p)'
               PROVE  Spawning(p)' \/ \E d \in Ids : processes'[d] = p
    BY DEF NoneLost
  <2>1. Live(p)
    BY DEF OnceKept
  <2>2. CASE Spawning(p)
    BY <2>2 DEF Spawning, ClientKept
  <2>3. ASSUME NEW d \in Ids, processes[d] = p PROVE processes'[d] = p
    BY <2>3 DEF OnceKept, Settles, Live
  <2> QED
    BY <2>1, <2>2, <2>3 DEF OnceInv, NoneLost
<1>3. NoStraySignals'
  BY DEF NoStraySignals, OnceKept, OnceInv
<1> QED
  BY <1>1, <1>2, <1>3

\* A process that ended stays so, and so does what the old replies said of it.
LEMMA OldReplies ==
    ASSUME Inv, StopDone, Settles, NEW c \in Callers,
           reply'[c] = reply[c] \/ reply'[c].op # "stop" \/ reply'[c].res # "ok"
    PROVE  reply'[c].op = "stop" /\ reply'[c].res = "ok"
               => proc'[reply'[c].pid] \in {"zombie", "gone"}
BY DEF Inv, TypeOK, StopDone, Settles, NoReply


LEMMA OnceStep == ~Respawn /\ Inv /\ OnceInv /\ [Next]_vars => OnceInv'
<1> SUFFICES ASSUME ~Respawn, Inv, OnceInv, [Next]_vars PROVE OnceInv'
  OBVIOUS
<1> USE NativeAssumption
<1>a. \A h \in handles : h \in Handle /\ h.id \in Ids /\ h.pid \in Pids
  BY DEF Inv, TypeOK, Handle
<1>b. Settles /\ ClientKept => \A c \in Callers :
          (reply'[c] = reply[c] \/ reply'[c].op # "stop" \/ reply'[c].res # "ok")
              => (reply'[c].op = "stop" /\ reply'[c].res = "ok"
                      => proc'[reply'[c].pid] \in {"zombie", "gone"})
  BY OldReplies DEF OnceInv
<1>1. ASSUME NEW c \in Callers, NEW d \in Ids, NEW p \in Pids, Fork(c, d, p) PROVE OnceInv'
  <2>a. /\ proc' = [proc EXCEPT ![p] = "running"]
        /\ call' = [call EXCEPT ![c] = [id |-> d, pid |-> p]]
        /\ pc' = [pc EXCEPT ![c] = "insert"]
        /\ UNCHANGED <<processes, success, handles, reply, strays>>
        /\ pc[c] = "idle" /\ proc[p] = "unborn" /\ ~Spawned(d)
    BY <1>1 DEF Fork
  <2>b. \A e \in Callers : pc'[e] = "insert" =>
              \/ e = c /\ call'[e].id = d /\ call'[e].pid = p
              \/ e # c /\ pc[e] = "insert" /\ call'[e] = call[e]
    BY <2>a DEF Inv, TypeOK
  <2>1. OneId'
    BY <2>a, <2>b DEF OnceInv, OneId, Spawned
  <2>2. NoneLost'
    <3> SUFFICES ASSUME NEW q \in Pids, Live(q)'
                 PROVE  Spawning(q)' \/ \E e \in Ids : processes'[e] = q
      BY DEF NoneLost
    <3>1. CASE q = p
      BY <2>a, <3>1 DEF Spawning, Inv, TypeOK
    <3>2. CASE q # p
      <4>1. Live(q)
        BY <2>a, <3>2 DEF Live, Inv, TypeOK
      <4>2. Spawning(q) => Spawning(q)'
        BY <2>a DEF Spawning, Inv, TypeOK
      <4> QED
        BY <2>a, <4>1, <4>2 DEF OnceInv, NoneLost
    <3> QED
      BY <3>1, <3>2
  <2>3. NoStraySignals'
    BY <2>a DEF NoStraySignals, OnceInv
  <2>4. StopDone'
    BY <2>a DEF StopDone, OnceInv, Inv, TypeOK, NoReply
  <2> QED
    BY <2>1, <2>2, <2>3, <2>4 DEF OnceInv
<1>2. ASSUME NEW c \in Callers, Insert(c) PROVE OnceInv'
  <2>a. /\ pc[c] = "insert"
        /\ processes' = [processes EXCEPT ![call[c].id] = call[c].pid]
        /\ handles' = handles \cup {call[c]}
        /\ call' = [call EXCEPT ![c] = None]
        /\ pc' = [pc EXCEPT ![c] = "idle"]
        /\ UNCHANGED <<proc, success, reply, strays>>
    BY <1>2 DEF Insert, system
  <2>b. call[c].id \in Ids /\ call[c].pid \in Pids
    BY <2>a DEF Inv, Calls, Handle
  <2>c. \A e \in Callers : pc'[e] = "insert" => e # c /\ pc[e] = "insert" /\ call'[e] = call[e]
    BY <2>a DEF Inv, TypeOK
  <2>1. OneId'
    <3>1. \A h \in handles : call[c].id # h.id
      BY <2>a DEF OnceInv, OneId
    <3>2. \A e \in Callers : pc'[e] = "insert" => call'[e].id # call[c].id
      BY <2>a, <2>c DEF OnceInv, OneId
    <3> QED
      BY <2>a, <2>c, <3>1, <3>2 DEF OnceInv, OneId
  <2>2. processes[call[c].id] = None
    <3> SUFFICES ASSUME processes[call[c].id] # None PROVE FALSE
      OBVIOUS
    <3>1. [id |-> call[c].id, pid |-> processes[call[c].id]] \in handles
      BY <2>b DEF Inv, Slots
    <3> QED
      BY <2>a, <3>1 DEF OnceInv, OneId
  <2>3. NoneLost'
    <3> SUFFICES ASSUME NEW q \in Pids, Live(q)'
                 PROVE  Spawning(q)' \/ \E e \in Ids : processes'[e] = q
      BY DEF NoneLost
    <3>1. Live(q)
      BY <2>a DEF Live
    <3>2. CASE Spawning(q)
      <4>1. PICK e \in Callers : pc[e] = "insert" /\ call[e].pid = q
        BY <3>2 DEF Spawning
      <4>2. CASE e = c
        BY <2>a, <2>b, <4>1, <4>2 DEF Inv, TypeOK
      <4>3. CASE e # c
        BY <2>a, <4>1, <4>3 DEF Spawning, Inv, TypeOK
      <4> QED
        BY <4>2, <4>3
    <3>3. ASSUME NEW e \in Ids, processes[e] = q PROVE processes'[e] = q
      BY <2>a, <2>b, <2>2, <3>3 DEF Inv, TypeOK
    <3> QED
      BY <3>1, <3>2, <3>3 DEF OnceInv, NoneLost
  <2>4. NoStraySignals' /\ StopDone'
    BY <2>a DEF NoStraySignals, StopDone, OnceInv
  <2> QED
    BY <2>1, <2>3, <2>4 DEF OnceInv
<1>3. ASSUME NEW c \in Callers, NEW h \in handles, NEW sig, Signal(c, h, sig) PROVE OnceInv'
  <2>1. PICK res \in SignalResult(h) : Deliver(h, sig, res) /\ Answer(c, "signal", h, res)
    BY <1>3 DEF Signal
  <2>2. ClientKept
    BY <1>a, <1>3, <2>1, AnswersAreResults DEF Signal, Answer, ClientKept, Inv, TypeOK, Calls
  <2>3. StopDone'
    BY <1>b, <2>1, <2>2, DeliverSettles DEF Answer, StopDone, Inv, TypeOK
  <2> QED
    BY <2>1, <2>2, <2>3, DeliverSettles, DeliverOnce, SettlingKeepsOnce
<1>4. ASSUME NEW c \in Callers, NEW h \in handles, Status(c, h) PROVE OnceInv'
  <2>1. Observe(h) /\ Answer(c, "status", h, StatusResult(h))
    BY <1>4 DEF Status
  <2>2. ClientKept
    BY <1>a, <1>4, AnswersAreResults DEF Status, Answer, ClientKept, Inv, TypeOK, Calls
  <2>3. StopDone'
    BY <1>b, <2>1, <2>2, ObserveSettles DEF Answer, StopDone, Inv, TypeOK
  <2> QED
    BY <2>1, <2>2, <2>3, ObserveSettles, ObserveOnce, SettlingKeepsOnce
<1>5. ASSUME NEW c \in Callers, NEW h \in handles, Stop(c, h) PROVE OnceInv'
  <2>1. PICK res \in SignalResult(h) :
            /\ Deliver(h, "Term", res)
            /\ IF res = "ok"
               THEN /\ pc' = [pc EXCEPT ![c] = "stopping"]
                    /\ call' = [call EXCEPT ![c] = h]
                    /\ UNCHANGED reply
               ELSE Answer(c, "stop", h, res) /\ UNCHANGED <<pc, call>>
    BY <1>5 DEF Stop
  <2>2. ClientKept
    <3>1. pc[c] = "idle" /\ handles' = handles
      BY <1>5 DEF Stop
    <3> QED
      BY <1>a, <2>1, <3>1, AnswersAreResults DEF Answer, ClientKept, Inv, TypeOK, Calls
  <2>3. StopDone'
    BY <1>b, <2>1, <2>2, DeliverSettles DEF Answer, StopDone, Inv, TypeOK
  <2> QED
    BY <2>1, <2>2, <2>3, DeliverSettles, DeliverOnce, SettlingKeepsOnce
<1>6. ASSUME NEW c \in Callers, StopPolls(c) PROVE OnceInv'
  <2>1. call[c] \in handles /\ Observe(call[c])
    BY <1>6 DEF StopPolls, Inv, Calls
  <2>2. ClientKept
    BY <1>a, <1>6, <2>1 DEF StopPolls, StopReturns, Answer, ClientKept, Inv, TypeOK, Calls
  <2>3. StopDone'
    <3>1. CASE StatusResult(call[c]) = "Running"
      BY <1>b, <1>6, <2>1, <2>2, <3>1, ObserveSettles DEF StopPolls, StopDone
    <3>2. CASE StatusResult(call[c]) # "Running"
      <4>1. Answer(c, "stop", call[c], "ok")
        BY <1>6, <3>2 DEF StopPolls, StopReturns
      <4>2. proc'[call[c].pid] \in {"zombie", "gone"}
        BY <2>1, <3>2, ObserveOnce
      <4> QED
        BY <1>b, <2>1, <2>2, <4>1, <4>2, ObserveSettles DEF Answer, StopDone, Inv, TypeOK
    <3> QED
      BY <3>1, <3>2
  <2> QED
    BY <2>1, <2>2, <2>3, ObserveSettles, ObserveOnce, SettlingKeepsOnce
<1>7. ASSUME NEW c \in Callers, StopExpires(c) PROVE OnceInv'
  <2>1. call[c] \in handles
    BY <1>7 DEF StopExpires, Inv, Calls
  <2>2. PICK res \in SignalResult(call[c]) : Deliver(call[c], "Kill", res) /\ StopReturns(c, res)
    BY <1>7 DEF StopExpires
  <2>3. ClientKept
    BY <1>a, <1>7, <2>1, <2>2, AnswersAreResults
       DEF StopExpires, StopReturns, Answer, ClientKept, Inv, TypeOK, Calls
  <2>4. res = "ok" => proc'[call[c].pid] \in {"zombie", "gone"}
    BY <2>1, <2>2, DeliverOnce
  <2>5. StopDone'
    BY <1>b, <2>1, <2>2, <2>3, <2>4, DeliverSettles DEF StopReturns, Answer, StopDone, Inv, TypeOK
  <2> QED
    BY <2>1, <2>2, <2>3, <2>5, DeliverSettles, DeliverOnce, SettlingKeepsOnce
<1>8. ASSUME NEW p \in Pids, Die(p) \/ ReapDropped(p) PROVE OnceInv'
  <2>1. Settles
    BY <1>8 DEF Die, ReapDropped, Settles, Inv, TypeOK, Kept, Spawning
  <2>2. ClientKept
    BY <1>8 DEF Die, ReapDropped, client, ClientKept, Inv, TypeOK, Calls
  <2>3. OnceKept
    BY <1>8 DEF Die, ReapDropped, OnceKept, Inv, TypeOK, Live
  <2>4. StopDone'
    BY <1>8, <1>b, <2>1, <2>2 DEF Die, ReapDropped, client, StopDone
  <2> QED
    BY <2>1, <2>2, <2>3, <2>4, SettlingKeepsOnce
<1>9. CASE UNCHANGED vars
  BY <1>9 DEF vars, system, client, OnceInv, OneId, NoneLost, NoStraySignals, StopDone, Live, Spawning
<1> QED
  BY <1>1, <1>2, <1>3, <1>4, <1>5, <1>6, <1>7, <1>8, <1>9 DEF Next

LEMMA OnceAlways == ASSUME ~Respawn PROVE Spec => []OnceInv
<1>1. Init => OnceInv
  BY NativeAssumption
     DEF Init, OnceInv, OneId, NoneLost, NoStraySignals, StopDone, NoReply, Live
<1>2. Inv /\ OnceInv /\ [Next]_vars => OnceInv'
  BY OnceStep
<1> QED
  BY <1>1, <1>2, InvAlways, PTL DEF Spec

(* A daemon spawned once: kill(2) (native.rs l.143) never goes to a pid     *)
(* whose process was reaped.                                                *)
THEOREM SignalsStayHome == ASSUME ~Respawn PROVE Spec => []NoStraySignals
<1>1. OnceInv => NoStraySignals
  BY DEF OnceInv
<1> QED
  BY <1>1, OnceAlways, PTL

(* A daemon spawned once: its process is in the map (l.25) while it lives.  *)
THEOREM NoneIsLost == ASSUME ~Respawn PROVE Spec => []NoneLost
<1>1. OnceInv => NoneLost
  BY DEF OnceInv
<1> QED
  BY <1>1, OnceAlways, PTL

(* A daemon spawned once: after a stop() that succeeds (l.232) its process  *)
(* is dead, whatever other callers did meanwhile.                           *)
THEOREM StoppedIsDead == ASSUME ~Respawn PROVE Spec => []StopMeansDead
<1>1. OnceInv => StopMeansDead
  BY DEF OnceInv, StopDone, StopMeansDead, Live
<1> QED
  BY <1>1, OnceAlways, PTL

-----------------------------------------------------------------------------
(* TestDaemonHandle *)

\* What the tasks know of the processes whose numbers they hold.
HandlesAreOfBorn ==
    \A t \in TestTasks :
        /\ at[t].step \in {"polling", "killing", "verifying", "probing"} => life[at[t].pid] # "unborn"
        /\ told[t].op = "shutdown" /\ told[t].res = "ok" => life[told[t].pid] # "unborn"

HarnessInv == HarnessTypeOK /\ HandlesAreOfBorn /\ ShutdownMeansDown

(* A task that is at a step of a method holds a number.                     *)
LEMMA StepsHavePids ==
    ASSUME HarnessTypeOK, NEW t \in TestTasks, at[t].step \in {"polling", "killing", "verifying", "probing"}
    PROVE  at[t].pid \in TestPids
BY DEF HarnessTypeOK, Resting

(* A number that is not OK to signal is not that of a running process.      *)
LEMMA NotRunningIsDown ==
    ASSUME NEW p \in TestPids, NEW errno \in Errnos(p), errno # "OK"
    PROVE  life[p] # "running"
BY DEF Errnos

(* Only a spawn makes a process run, and none is ever unborn again.         *)
LifeGoesOn == \A p \in TestPids : /\ life'[p] = "running" => life[p] \in {"running", "unborn"}
                                  /\ life'[p] = "unborn" => life[p] = "unborn"

(* What is left to show of a step.                                          *)
LEMMA StepKeepsInv ==
    ASSUME HarnessInv, HarnessTypeOK', LifeGoesOn,
           \A t \in TestTasks : \/ at'[t] \in {at[t], Resting}
                                \/ at'[t].pid \in TestPids /\ life[at'[t].pid] # "unborn",
           \A t \in TestTasks : \/ told'[t] = told[t] \/ told'[t].op # "shutdown" \/ told'[t].res # "ok"
                                \/ told'[t].pid \in TestPids /\ life'[told'[t].pid] \notin {"unborn", "running"}
    PROVE  HarnessInv'
<1>1. ASSUME NEW t \in TestTasks, at'[t].step \in {"polling", "killing", "verifying", "probing"}
      PROVE  life'[at'[t].pid] # "unborn"
  <2>1. CASE at'[t] = at[t]
    BY <1>1, <2>1, StepsHavePids DEF HarnessInv, HandlesAreOfBorn, LifeGoesOn
  <2>2. CASE at'[t] = Resting
    BY <1>1, <2>2 DEF Resting
  <2>3. CASE at'[t].pid \in TestPids /\ life[at'[t].pid] # "unborn"
    BY <2>3 DEF LifeGoesOn
  <2> QED BY <2>1, <2>2, <2>3
<1>2. ASSUME NEW t \in TestTasks, told'[t].op = "shutdown", told'[t].res = "ok"
      PROVE  life'[told'[t].pid] \notin {"unborn", "running"}
  <2>1. CASE told'[t] = told[t]
    <3>1. told[t].pid \in TestPids
      BY <1>2, <2>1 DEF HarnessInv, HarnessTypeOK, Untold
    <3> QED BY <1>2, <2>1, <3>1 DEF HarnessInv, HandlesAreOfBorn, ShutdownMeansDown, LifeGoesOn
  <2> QED BY <1>2, <2>1
<1> QED BY <1>1, <1>2 DEF HarnessInv, HandlesAreOfBorn, ShutdownMeansDown

LEMMA PassingKeepsInv ==
    ASSUME HarnessInv, NEW p \in TestPids, SpawnShell(p) \/ Passes(p)
    PROVE  HarnessInv'
<1>1. HarnessTypeOK' /\ LifeGoesOn
  BY DEF HarnessInv, HarnessTypeOK, LifeGoesOn, SpawnShell, Passes, Becomes
<1>2. at' = at /\ told' = told
  BY DEF SpawnShell, Passes, Becomes
<1> QED BY <1>1, <1>2, StepKeepsInv

LEMMA SignalsKeepTypes ==
    ASSUME HarnessTypeOK, NEW p \in TestPids, NEW sig, NEW errno, SignalPid(p, sig, errno)
    PROVE  /\ life' \in [TestPids -> {"unborn", "running", "zombie", "gone", "other"}]
           /\ hit' \subseteq TestPids /\ LifeGoesOn
BY DEF HarnessTypeOK, SignalPid, LifeGoesOn

LEMMA ReturningKeepsTypes ==
    ASSUME HarnessTypeOK, NEW t \in TestTasks, at[t].pid \in TestPids,
           NEW res \in {"ok", "failed"}, ShutDownReturns(t, res)
    PROVE  /\ at' = [at EXCEPT ![t] = Resting]
           /\ told' = [told EXCEPT ![t] = [op |-> "shutdown", pid |-> at[t].pid, res |-> res]]
           /\ at' \in [TestTasks -> {Resting}
                   \cup [step: {"polling", "killing", "verifying"}, pid: TestPids]
                   \cup [step: {"probing"}, pid: TestPids, running: BOOLEAN]]
           /\ told' \in [TestTasks -> {Untold}
                   \cup [op: {"shutdown"}, pid: TestPids, res: {"ok", "failed"}]
                   \cup [op: {"health"}, pid: TestPids, healthy: BOOLEAN, proc: BOOLEAN]
                   \cup [op: {"trace"}, pid: TestPids, res: {"ok", "failed"}]]
BY DEF HarnessTypeOK, ShutDownReturns

LEMMA AskingKeepsInv ==
    ASSUME HarnessInv, NEW t \in TestTasks, NEW p \in TestPids,
           AttachTracer(t, p) \/ HealthCheckStatus(t, p) \/ HealthCheckProc(t)
    PROVE  HarnessInv'
<1>1. CASE AttachTracer(t, p)
  <2>1. HarnessTypeOK' /\ LifeGoesOn
    BY <1>1 DEF HarnessInv, HarnessTypeOK, LifeGoesOn, AttachTracer
  <2>2. \A u \in TestTasks : told'[u] = told[u] \/ told'[u].op # "shutdown"
    BY <1>1 DEF HarnessInv, HarnessTypeOK, AttachTracer
  <2>3. at' = at
    BY <1>1 DEF AttachTracer
  <2> QED BY <2>1, <2>2, <2>3, StepKeepsInv
<1>2. CASE HealthCheckStatus(t, p)
  <2>1. PICK running \in BOOLEAN : at' = [at EXCEPT ![t] = [step |-> "probing", pid |-> p, running |-> running]]
    BY <1>2 DEF HealthCheckStatus
  <2>2. UNCHANGED <<life, told, hit>> /\ life[p] # "unborn"
    BY <1>2 DEF HealthCheckStatus
  <2>3. HarnessTypeOK' /\ LifeGoesOn
    BY <2>1, <2>2 DEF HarnessInv, HarnessTypeOK, LifeGoesOn
  <2>4. \A u \in TestTasks : at'[u] = at[u] \/ (at'[u].pid = p)
    BY <2>1 DEF HarnessInv, HarnessTypeOK
  <2> QED BY <2>2, <2>3, <2>4, StepKeepsInv
<1>3. CASE HealthCheckProc(t)
  <2>1. at[t].pid \in TestPids /\ at[t].running \in BOOLEAN
    BY <1>3 DEF HarnessInv, HarnessTypeOK, HealthCheckProc, Resting
  <2>2. HarnessTypeOK' /\ LifeGoesOn
    BY <1>3, <2>1 DEF HarnessInv, HarnessTypeOK, LifeGoesOn, HealthCheckProc
  <2>3. \A u \in TestTasks : at'[u] \in {at[u], Resting} /\ (told'[u] = told[u] \/ told'[u].op # "shutdown")
    BY <1>3 DEF HarnessInv, HarnessTypeOK, HealthCheckProc
  <2> QED BY <2>2, <2>3, StepKeepsInv
<1> QED BY <1>1, <1>2, <1>3

(* A task that returns from a shutdown tells of a process that is down.     *)
LEMMA ReturningKeepsInv ==
    ASSUME HarnessInv, NEW t \in TestTasks, at[t].step \in {"polling", "killing", "verifying"},
           NEW res \in {"ok", "failed"}, ShutDownReturns(t, res),
           res = "ok" => life[at[t].pid] # "running",
           LifeGoesOn, life' \in [TestPids -> {"unborn", "running", "zombie", "gone", "other"}],
           hit' \subseteq TestPids
    PROVE  HarnessInv'
<1>1. at[t].pid \in TestPids /\ life[at[t].pid] # "unborn"
  BY StepsHavePids DEF HarnessInv, HandlesAreOfBorn
<1>2. /\ at' = [at EXCEPT ![t] = Resting]
      /\ told' = [told EXCEPT ![t] = [op |-> "shutdown", pid |-> at[t].pid, res |-> res]]
      /\ HarnessTypeOK'
  BY <1>1, ReturningKeepsTypes DEF HarnessInv, HarnessTypeOK
<1>3. \A u \in TestTasks : at'[u] \in {at[u], Resting}
  BY <1>2 DEF HarnessInv, HarnessTypeOK
<1>4. res = "ok" => life'[at[t].pid] \notin {"unborn", "running"}
  BY <1>1 DEF LifeGoesOn
<1>5. \A u \in TestTasks : \/ told'[u] = told[u] \/ told'[u].res # "ok"
                           \/ told'[u].pid \in TestPids /\ life'[told'[u].pid] \notin {"unborn", "running"}
  BY <1>1, <1>2, <1>4 DEF HarnessInv, HarnessTypeOK
<1> QED BY <1>2, <1>3, <1>5, StepKeepsInv

(* A task that goes on to the next step of a shutdown keeps its number.     *)
LEMMA MovingKeepsInv ==
    ASSUME HarnessInv, NEW t \in TestTasks, NEW p \in TestPids, life[p] # "unborn",
           NEW step \in {"polling", "killing", "verifying"},
           at' = [at EXCEPT ![t] = [step |-> step, pid |-> p]], UNCHANGED told,
           LifeGoesOn, life' \in [TestPids -> {"unborn", "running", "zombie", "gone", "other"}],
           hit' \subseteq TestPids
    PROVE  HarnessInv'
<1>1. HarnessTypeOK'
  BY DEF HarnessInv, HarnessTypeOK
<1>2. \A u \in TestTasks : at'[u] = at[u] \/ at'[u].pid = p
  BY DEF HarnessInv, HarnessTypeOK
<1> QED BY <1>1, <1>2, StepKeepsInv

(* The record of a task in a shutdown is its step and its number.           *)
LEMMA NextStep ==
    ASSUME HarnessTypeOK, NEW t \in TestTasks, at[t].step \in {"polling", "killing"}, NEW step,
           at' = [at EXCEPT ![t].step = step]
    PROVE  at' = [at EXCEPT ![t] = [step |-> step, pid |-> at[t].pid]]
<1>1. at[t] \in [step: {"polling", "killing", "verifying"}, pid: TestPids]
  BY DEF HarnessTypeOK, Resting
<1>2. [at[t] EXCEPT !.step = step] = [step |-> step, pid |-> at[t].pid]
  BY <1>1
<1> QED BY <1>2 DEF HarnessTypeOK

LEMMA ShuttingDownKeepsInv ==
    ASSUME HarnessInv, NEW t \in TestTasks,
           \/ \E p \in TestPids : ShutDown(t, p)
           \/ ShutDownPolls(t) \/ ShutDownKills(t) \/ ShutDownVerifies(t)
    PROVE  HarnessInv'
<1> DEFINE pid == at[t].pid
<1>a. /\ HarnessTypeOK
      /\ life \in [TestPids -> {"unborn", "running", "zombie", "gone", "other"}] /\ hit \subseteq TestPids
  BY DEF HarnessInv, HarnessTypeOK
<1>b. at[t].step \in {"polling", "killing", "verifying"} => pid \in TestPids /\ life[pid] # "unborn"
  BY StepsHavePids DEF HarnessInv, HandlesAreOfBorn
<1>c. life' = life => LifeGoesOn
  BY DEF LifeGoesOn
<1>1. ASSUME NEW p \in TestPids, ShutDown(t, p)
      PROVE  HarnessInv'
  <2>1. PICK errno \in Errnos(p) : SignalPid(p, "Term", errno)
    BY <1>1 DEF ShutDown
  <2>2. LifeGoesOn /\ life' \in [TestPids -> {"unborn", "running", "zombie", "gone", "other"}]
        /\ hit' \subseteq TestPids
    BY <1>a, <2>1, SignalsKeepTypes
  <2> QED BY <1>1, <2>2, MovingKeepsInv DEF ShutDown
<1>2. CASE ShutDownPolls(t)
  <2>1. PICK errno \in Errnos(pid) :
           IF PidStatus(errno) = "Running"
           THEN at' = [at EXCEPT ![t].step = "killing"] /\ UNCHANGED told
           ELSE ShutDownReturns(t, "ok")
    BY <1>2 DEF ShutDownPolls
  <2>2. at[t].step = "polling" /\ UNCHANGED <<life, hit>>
    BY <1>2 DEF ShutDownPolls
  <2>3. CASE PidStatus(errno) = "Running"
    <3>1. at' = [at EXCEPT ![t] = [step |-> "killing", pid |-> pid]] /\ UNCHANGED told
      BY <1>a, <2>1, <2>2, <2>3, NextStep
    <3> QED BY <1>a, <1>b, <1>c, <2>2, <3>1, MovingKeepsInv
  <2>4. CASE PidStatus(errno) # "Running"
    <3>1. errno # "OK"
      BY <2>4 DEF PidStatus
    <3>2. life[pid] # "running"
      BY <1>b, <2>2, <3>1, NotRunningIsDown
    <3> QED BY <1>a, <1>c, <2>1, <2>2, <2>4, <3>2, ReturningKeepsInv
  <2> QED BY <2>3, <2>4
<1>3. CASE ShutDownKills(t)
  <2>1. PICK errno \in Errnos(pid) :
           /\ SignalPid(pid, "Kill", errno)
           /\ IF errno = "OK"
              THEN at' = [at EXCEPT ![t].step = "verifying"] /\ UNCHANGED told
              ELSE ShutDownReturns(t, "ok")
    BY <1>3 DEF ShutDownKills
  <2>2. at[t].step = "killing"
    BY <1>3 DEF ShutDownKills
  <2>3. LifeGoesOn /\ life' \in [TestPids -> {"unborn", "running", "zombie", "gone", "other"}]
        /\ hit' \subseteq TestPids
    BY <1>a, <1>b, <2>1, <2>2, SignalsKeepTypes
  <2>4. CASE errno = "OK"
    <3>1. at' = [at EXCEPT ![t] = [step |-> "verifying", pid |-> pid]] /\ UNCHANGED told
      BY <1>a, <2>1, <2>2, <2>4, NextStep
    <3> QED BY <1>b, <2>2, <2>3, <3>1, MovingKeepsInv
  <2>5. CASE errno # "OK"
    <3>1. life[pid] # "running"
      BY <1>b, <2>2, <2>5, NotRunningIsDown
    <3> QED BY <2>1, <2>2, <2>3, <2>5, <3>1, ReturningKeepsInv
  <2> QED BY <2>4, <2>5
<1>4. CASE ShutDownVerifies(t)
  <2>1. PICK errno \in Errnos(pid) :
           ShutDownReturns(t, IF PidStatus(errno) = "Running" THEN "failed" ELSE "ok")
    BY <1>4 DEF ShutDownVerifies
  <2>2. at[t].step = "verifying" /\ UNCHANGED <<life, hit>>
    BY <1>4 DEF ShutDownVerifies
  <2>3. PidStatus(errno) # "Running" => life[pid] # "running"
    <3>1. errno = "OK" => PidStatus(errno) = "Running"
      BY DEF PidStatus
    <3> QED BY <1>b, <2>2, <3>1, NotRunningIsDown
  <2>4. CASE PidStatus(errno) = "Running"
    BY <1>a, <1>c, <2>1, <2>2, <2>4, ReturningKeepsInv
  <2>5. CASE PidStatus(errno) # "Running"
    BY <1>a, <1>c, <2>1, <2>2, <2>3, <2>5, ReturningKeepsInv
  <2> QED BY <2>4, <2>5
<1> QED BY <1>1, <1>2, <1>3, <1>4

LEMMA HarnessInvariant == HarnessSpec => []HarnessInv
<1>1. HarnessInit => HarnessInv
  BY DEF HarnessInit, HarnessInv, HarnessTypeOK, HandlesAreOfBorn, ShutdownMeansDown, Resting, Untold
<1>2. HarnessInv /\ [HarnessNext]_harnessVars => HarnessInv'
  <2> SUFFICES ASSUME HarnessInv, [HarnessNext]_harnessVars PROVE HarnessInv'
    OBVIOUS
  <2>1. ASSUME NEW p \in TestPids, SpawnShell(p) \/ Passes(p) PROVE HarnessInv'
    BY <2>1, PassingKeepsInv
  <2>2. ASSUME NEW t \in TestTasks, NEW p \in TestPids, AttachTracer(t, p) \/ HealthCheckStatus(t, p)
        PROVE  HarnessInv'
    BY <2>2, AskingKeepsInv
  <2>3. ASSUME NEW t \in TestTasks, HealthCheckProc(t) PROVE HarnessInv'
    <3>1. at[t].pid \in TestPids
      BY <2>3, StepsHavePids DEF HarnessInv, HealthCheckProc
    <3> QED BY <2>3, <3>1, AskingKeepsInv
  <2>4. ASSUME NEW t \in TestTasks,
               \/ \E p \in TestPids : ShutDown(t, p)
               \/ ShutDownPolls(t) \/ ShutDownKills(t) \/ ShutDownVerifies(t)
        PROVE  HarnessInv'
    BY <2>4, ShuttingDownKeepsInv
  <2>5. CASE UNCHANGED harnessVars
    BY <2>5 DEF harnessVars, HarnessInv, HarnessTypeOK, HandlesAreOfBorn, ShutdownMeansDown
  <2> QED BY <2>1, <2>2, <2>3, <2>4, <2>5 DEF HarnessNext
<1> QED BY <1>1, <1>2, PTL DEF HarnessSpec

(* However many tasks share the handle of a process and whoever has its     *)
(* number by then, shutdown (harness.rs l.200-266) returns Ok only over a   *)
(* process that is down.                                                    *)
THEOREM ShutdownIsDown == HarnessSpec => []ShutdownMeansDown
BY HarnessInvariant, PTL DEF HarnessInv

-----------------------------------------------------------------------------
(* The memory of a daemon *)

LockInv ==
    /\ LockTypeOK /\ mapped # {}
    /\ secured => locked = mapped /\ future

LEMMA PlainResult ==
    ASSUME NEW status \in {"Locked", "Unsupported", "Disabled", "Unlocked", "none"}
    PROVE  [ok |-> TRUE, status |-> status] \in Results
BY DEF Results

(* A refused call leaves everything as it was, an accepted one locks what   *)
(* it is told to.                                                           *)
LEMMA LocksKeepInv ==
    ASSUME LockInv, NEW flags \in SUBSET {"MCL_CURRENT", "MCL_FUTURE", "MCL_ONFAULT"},
           NEW required \in BOOLEAN, Locks(flags, required)
    PROVE  LockInv'
<1>1. CASE Mlockall(flags) /\ result' = [ok |-> TRUE, status |-> "Locked"]
  <2>1. result' \in Results /\ (secured' <=> Forever \subseteq flags) /\ secured' \in BOOLEAN
    BY <1>1 DEF Locks, Results, Forever
  <2>2. /\ mapped' = mapped /\ limit' = limit /\ os' = os
        /\ locked' = IF "MCL_CURRENT" \in flags THEN mapped ELSE locked
        /\ future' = ("MCL_FUTURE" \in flags)
    BY <1>1 DEF Locks, Mlockall
  <2>3. Forever \subseteq flags => "MCL_CURRENT" \in flags /\ "MCL_FUTURE" \in flags
    BY DEF Forever
  <2> QED BY <2>1, <2>2, <2>3 DEF LockInv, LockTypeOK
<1>2. ASSUME NEW errno \in Refusals(flags) \cup Whims(flags), result' = Refused(required, errno),
             UNCHANGED <<locked, future>>
      PROVE  LockInv'
  <2>1. errno \in Errno
    BY DEF Refusals, Whims, Errno
  <2>2. result' \in Results /\ ~(result'.ok /\ result'.status = "Locked")
    BY <1>2, <2>1 DEF Refused, Results
  <2>3. UNCHANGED <<os, mapped, locked, future, limit, secured>>
    BY <1>2, <2>2 DEF Locks
  <2> QED BY <2>2, <2>3 DEF LockInv, LockTypeOK
<1> QED BY <1>1, <1>2 DEF Locks

LEMMA LeavesKeepInv ==
    ASSUME LockInv, NEW answer \in Results, Leaves(answer)
    PROVE  LockInv'
BY DEF Leaves, LockInv, LockTypeOK

LEMMA AnswersKeepInv ==
    ASSUME LockInv, NEW status \in {"Locked", "Unsupported", "Disabled", "Unlocked", "none"}, Answers(status)
    PROVE  LockInv'
BY PlainResult, LeavesKeepInv DEF Answers

LEMMA UnlocksKeepInv ==
    ASSUME LockInv, Unlocks
    PROVE  LockInv'
<1>1. CASE /\ locked' = {} /\ future' = FALSE /\ secured' = FALSE
           /\ result' = [ok |-> TRUE, status |-> "Unlocked"] /\ UNCHANGED <<os, mapped, limit>>
  <2>1. result' \in Results
    BY <1>1, PlainResult
  <2> QED BY <1>1, <2>1 DEF LockInv, LockTypeOK
<1>2. ASSUME NEW errno \in Whims({}), Leaves([ok |-> FALSE, errno |-> errno])
      PROVE  LockInv'
  <2>1. [ok |-> FALSE, errno |-> errno] \in Results
    BY DEF Whims, Errno, Results
  <2> QED BY <1>2, <2>1, LeavesKeepInv
<1> QED BY <1>1, <1>2 DEF Unlocks

LEMMA LockInvariant == LockSpec => []LockInv
<1>1. LockInit => LockInv
  BY PlainResult DEF LockInit, LockInv, LockTypeOK
<1>2. LockInv /\ [LockNext]_lockVars => LockInv'
  <2> SUFFICES ASSUME LockInv, [LockNext]_lockVars PROVE LockInv'
    OBVIOUS
  <2>1. ASSUME NEW p \in Pages, MapPage(p) PROVE LockInv'
    BY <2>1 DEF MapPage, LockInv, LockTypeOK
  <2>2. ASSUME NEW p \in Pages, UnmapPage(p) PROVE LockInv'
    BY <2>2 DEF UnmapPage, LockInv, LockTypeOK
  <2>3. ASSUME NEW c \in MlockConfig, LockWithConfig(c) PROVE LockInv'
    <3>1. AsFlags(c) \in SUBSET {"MCL_CURRENT", "MCL_FUTURE", "MCL_ONFAULT"} /\ c.required \in BOOLEAN
      BY <2>3 DEF AsFlags, MlockConfig
    <3>2. [ok |-> FALSE, errno |-> "EINVAL"] \in Results
      BY DEF Errno, Results
    <3> QED BY <2>3, <3>1, <3>2, LocksKeepInv, LeavesKeepInv, AnswersKeepInv DEF LockWithConfig
  <2>4. ASSUME NEW lock_memory \in BOOLEAN, NEW required \in BOOLEAN,
               ApplyMemoryConfig(lock_memory, required)
        PROVE  LockInv'
    <3>1. DaemonFlags \in SUBSET {"MCL_CURRENT", "MCL_FUTURE", "MCL_ONFAULT"}
      BY DEF DaemonFlags, Forever
    <3> QED BY <2>4, <3>1, LocksKeepInv, AnswersKeepInv DEF ApplyMemoryConfig
  <2>5. CASE UnlockAll \/ UnlockDaemonMemory
    BY <2>5, UnlocksKeepInv, AnswersKeepInv DEF UnlockAll, UnlockDaemonMemory
  <2>6. CASE UNCHANGED lockVars
    BY <2>6 DEF lockVars, LockInv, LockTypeOK
  <2> QED BY <2>1, <2>2, <2>3, <2>4, <2>5, <2>6 DEF LockNext
<1> QED BY <1>1, <1>2, PTL DEF LockSpec

(* For every address space, limit and platform: memory locked for good      *)
(* stays locked through every failed lock and every page that comes or goes *)
(* (memory.rs l.46-75).                                                     *)
THEOREM LocksAreKept == LockSpec => []LockHolds
<1>1. LockInv => LockHolds
  BY DEF LockInv, LockHolds
<1> QED BY <1>1, LockInvariant, PTL

-----------------------------------------------------------------------------
(***************************************************************************)
(* The load test.  A request is counted in two steps, the total before     *)
(* what became of it: the total is ahead by the users between the two.     *)
(***************************************************************************)

Between == { u \in Users : user[u].step \in {"counted", "failed"} }

Counting ==
    /\ total_requests = SumFunctionOnSet(request_id, Users) + Cardinality(Between)
    /\ total_requests = successful + failed + Cardinality(Between)
    /\ successful = Len(latencies_us)

\* A user whose request is being made has not made all of them.
Asking ==
    \A u \in Users : user[u].step \in {"failing", "succeeding", "counted", "failed"} =>
                         request_id[u] < RequestsPerUser

LoadInv == LoadTypeOK /\ Counting /\ Asking /\ ReportAddsUp /\ (report # NoReport => Joined)

-----------------------------------------------------------------------------
(* The latencies in order.                                                  *)

Below(seq, l) == { i \in DOMAIN seq : seq[i] < l }
UpTo(seq, l)  == { i \in DOMAIN seq : seq[i] <= l }

\* The latency l is the k-th.
IsAt(seq, k, l) == Cardinality(Below(seq, l)) < k /\ Cardinality(UpTo(seq, l)) >= k

LEMMA NumbersInPlaces ==
    ASSUME NEW S \in SUBSET Nat, NEW seq \in Seq(S)
    PROVE  /\ DOMAIN seq = 1..Len(seq) /\ Len(seq) \in Nat
           /\ \A i \in DOMAIN seq : seq[i] \in Nat /\ seq[i] \in ToSet(seq)
           /\ \A l \in ToSet(seq) : l \in Nat /\ \E i \in DOMAIN seq : seq[i] = l
<1>1. DOMAIN seq = 1..Len(seq) /\ Len(seq) \in Nat /\ \A i \in 1..Len(seq) : seq[i] \in S
  OBVIOUS
<1> QED
  BY <1>1 DEF ToSet

LEMMA PlacesAreFinite ==
    ASSUME NEW S \in SUBSET Nat, NEW seq \in Seq(S), NEW R \in SUBSET DOMAIN seq
    PROVE  /\ IsFiniteSet(R) /\ Cardinality(R) \in Nat /\ Cardinality(R) <= Len(seq)
           /\ \A Q \in SUBSET R : Cardinality(Q) \in Nat /\ Cardinality(Q) <= Cardinality(R)
<1>1. IsFiniteSet(1..Len(seq)) /\ Cardinality(1..Len(seq)) = Len(seq) /\ Len(seq) \in Nat
      /\ DOMAIN seq = 1..Len(seq)
  BY FS_Interval
<1>2. IsFiniteSet(R) /\ Cardinality(R) <= Len(seq)
  BY <1>1, FS_Subset
<1>3. Cardinality(R) \in Nat
  BY <1>2, FS_CardinalityType
<1>4. \A Q \in SUBSET R : Cardinality(Q) \in Nat /\ Cardinality(Q) <= Cardinality(R)
  BY <1>2, FS_Subset, FS_CardinalityType
<1> QED
  BY <1>2, <1>3, <1>4

(* Every place in the order has its latency: the least of those with so     *)
(* many up to it.                                                           *)
LEMMA PlacesAreTaken ==
    ASSUME NEW S \in SUBSET Nat, NEW seq \in Seq(S), NEW k \in DOMAIN seq
    PROVE  \E l \in ToSet(seq) : IsAt(seq, k, l)
<1> DEFINE T == { l \in ToSet(seq) : Cardinality(UpTo(seq, l)) >= k }
<1>1. /\ DOMAIN seq = 1..Len(seq) /\ Len(seq) \in Nat /\ k \in Nat /\ 0 < k /\ k <= Len(seq)
      /\ \A i \in DOMAIN seq : seq[i] \in Nat /\ seq[i] \in ToSet(seq)
      /\ \A l \in ToSet(seq) : l \in Nat /\ \E i \in DOMAIN seq : seq[i] = l
  BY NumbersInPlaces
<1>2. ASSUME NEW R \in SUBSET DOMAIN seq, R # {} PROVE \E i \in R : \A j \in R : seq[j] <= seq[i]
  <2> DEFINE Bound(b) == \A j \in R : seq[j] <= b
             B == { b \in Nat : Bound(b) }
             P == { Q \in SUBSET R : Q = {} \/ \E i \in Q : \A j \in Q : seq[j] <= seq[i] }
  <2>1. {} \in P
    OBVIOUS
  <2>2. ASSUME NEW Q \in P, NEW y \in R \ Q PROVE Q \cup {y} \in P
    <3>1. CASE Q = {}
      BY <1>1, <3>1
    <3>2. CASE Q # {}
      <4>1. PICK i \in Q : \A j \in Q : seq[j] <= seq[i]
        BY <3>2
      <4>2. seq[i] \in Nat /\ seq[y] \in Nat /\ \A j \in Q : seq[j] \in Nat
        BY <1>1
      <4>3. CASE seq[y] <= seq[i]
        BY <4>1, <4>2, <4>3
      <4>4. CASE ~(seq[y] <= seq[i])
        <5>1. \A j \in Q \cup {y} : seq[j] <= seq[y]
          BY <4>1, <4>2, <4>4
        <5> QED
          BY <5>1
      <4> QED
        BY <4>3, <4>4
    <3> QED
      BY <3>1, <3>2
  <2>3. IsFiniteSet(R) /\ P \in SUBSET SUBSET R
    BY PlacesAreFinite
  <2>4. R \in P
    <3> HIDE DEF P
    <3> QED
      BY <2>1, <2>2, <2>3, SubsetInduction
  <2> QED
    BY <1>2, <2>4
<1>3. T # {}
  <2>1. PICK i \in DOMAIN seq : \A j \in DOMAIN seq : seq[j] <= seq[i]
    <3>1. DOMAIN seq # {}
      OBVIOUS
    <3> QED
      BY <1>2, <3>1
  <2>2. UpTo(seq, seq[i]) = 1..Len(seq)
    BY <1>1, <2>1 DEF UpTo
  <2>3. Cardinality(UpTo(seq, seq[i])) = Len(seq)
    <3>1. Cardinality(1..Len(seq)) = IF 1 > Len(seq) THEN 0 ELSE Len(seq) - 1 + 1
      BY <1>1, FS_Interval
    <3>2. Cardinality(1..Len(seq)) = Len(seq)
      BY <1>1, <3>1
    <3> QED
      BY <2>2, <3>2
  <2>4. seq[i] \in T
    BY <1>1, <2>3
  <2> QED
    BY <2>4
<1>4. PICK l \in T : \A m \in T : l <= m
  <2>1. T \in SUBSET Nat
    BY <1>1
  <2> HIDE DEF T
  <2> QED
    BY <1>3, <2>1, LeastNumber
<1>5. Cardinality(Below(seq, l)) < k
  <2>1. Below(seq, l) \in SUBSET DOMAIN seq /\ Cardinality(Below(seq, l)) \in Nat
    BY PlacesAreFinite DEF Below
  <2>2. ASSUME Cardinality(Below(seq, l)) >= k PROVE FALSE
    <3>1. Below(seq, l) # {}
      <4>1. Cardinality({}) = 0
        BY FS_EmptySet
      <4>2. Cardinality(Below(seq, l)) # 0
        BY <1>1, <2>1, <2>2
      <4> QED
        BY <4>1, <4>2
    <3>2. PICK i \in Below(seq, l) : \A j \in Below(seq, l) : seq[j] <= seq[i]
      BY <1>2, <2>1, <3>1
    <3>3. /\ i \in DOMAIN seq /\ seq[i] \in Nat /\ seq[i] < l /\ l \in Nat
          /\ Below(seq, l) \in SUBSET UpTo(seq, seq[i]) /\ UpTo(seq, seq[i]) \in SUBSET DOMAIN seq
      BY <1>1, <3>2 DEF Below, UpTo
    <3>4. /\ Cardinality(UpTo(seq, seq[i])) \in Nat
          /\ Cardinality(Below(seq, l)) <= Cardinality(UpTo(seq, seq[i]))
      BY <3>3, PlacesAreFinite
    <3>5. seq[i] \in T
      BY <1>1, <2>1, <2>2, <3>3, <3>4
    <3> HIDE DEF T
    <3> QED
      BY <1>4, <3>3, <3>5
  <2> QED
    BY <1>1, <2>1, <2>2
<1> QED
  BY <1>5 DEF IsAt

LEMMA SortedIsInOrder ==
    ASSUME NEW S \in SUBSET Nat, NEW seq \in Seq(S)
    PROVE  /\ Len(Sorted(seq)) = Len(seq) /\ DOMAIN Sorted(seq) = 1..Len(seq) /\ Len(seq) \in Nat
           /\ \A k \in 1..Len(seq) : /\ Sorted(seq)[k] \in ToSet(seq) /\ Sorted(seq)[k] \in Nat
                                     /\ IsAt(seq, k, Sorted(seq)[k])
           /\ \A j, k \in 1..Len(seq) : j <= k => Sorted(seq)[j] <= Sorted(seq)[k]
<1> DEFINE s == Sorted(seq)
<1>1. DOMAIN seq = 1..Len(seq) /\ Len(seq) \in Nat /\ ToSet(seq) \subseteq Nat
  BY NumbersInPlaces
<1>2. ASSUME NEW k \in DOMAIN seq PROVE s[k] \in ToSet(seq) /\ IsAt(seq, k, s[k])
  <2>1. s[k] = CHOOSE l \in ToSet(seq) : IsAt(seq, k, l)
    BY DEF Sorted, IsAt, Below, UpTo
  <2> QED
    BY <2>1, PlacesAreTaken
<1>3. DOMAIN s = 1..Len(seq)
  BY <1>1 DEF Sorted
<1>4. Len(s) = Len(seq)
  <2>1. s \in [1..Len(seq) -> Nat]
    BY <1>1, <1>2, <1>3 DEF Sorted
  <2> HIDE DEF s
  <2> QED
    BY <1>1, <2>1
<1> HIDE DEF s
<1>5. ASSUME NEW j \in 1..Len(seq), NEW k \in 1..Len(seq), j <= k, ~(s[j] <= s[k]) PROVE FALSE
  <2>1. s[j] \in Nat /\ s[k] \in Nat /\ IsAt(seq, j, s[j]) /\ IsAt(seq, k, s[k])
    BY <1>1, <1>2
  <2>2. /\ Below(seq, s[j]) \in SUBSET DOMAIN seq /\ UpTo(seq, s[k]) \in SUBSET Below(seq, s[j])
    <3>1. \A i \in DOMAIN seq : seq[i] \in Nat
      BY NumbersInPlaces
    <3> QED
      BY <1>5, <2>1, <3>1 DEF Below, UpTo
  <2>3. /\ Cardinality(Below(seq, s[j])) \in Nat /\ Cardinality(UpTo(seq, s[k])) \in Nat
        /\ Cardinality(UpTo(seq, s[k])) <= Cardinality(Below(seq, s[j]))
    BY <2>2, PlacesAreFinite
  <2> QED
    BY <1>5, <2>1, <2>3 DEF IsAt
<1> QED
  BY <1>1, <1>2, <1>3, <1>4, <1>5 DEF s

\* Where percentile looks, from 1.
Place(n, p) == (IF (n * p) \div 100 < n THEN (n * p) \div 100 ELSE n - 1) + 1

LEMMA PlacesAreInOrder ==
    ASSUME NEW n \in Nat \ {0}
    PROVE  /\ Place(n, 50) \in 1..n /\ Place(n, 95) \in 1..n /\ Place(n, 99) \in 1..n
           /\ Place(n, 50) <= Place(n, 95) /\ Place(n, 95) <= Place(n, 99)
           /\ 2 * Place(n, 50) >= n
BY DEF Place

LEMMA PercentilesAreLatencies ==
    ASSUME NEW S \in SUBSET Nat, NEW seq \in Seq(S), seq # <<>>,
           NEW sorted, sorted = Sorted(seq)
    PROVE  /\ {Percentile(sorted, 50), Percentile(sorted, 99)} \subseteq ToSet(seq)
           /\ Percentile(sorted, 50) <= Percentile(sorted, 95)
           /\ Percentile(sorted, 95) <= Percentile(sorted, 99)
           /\ 2 * Cardinality({ i \in DOMAIN seq : seq[i] <= Percentile(sorted, 50) }) >= Len(seq)
<1> DEFINE n == Len(seq)
<1>1. n \in Nat \ {0}
  BY EmptySeq
<1>2. /\ Len(sorted) = n /\ DOMAIN sorted = 1..n
      /\ \A k \in 1..n : sorted[k] \in ToSet(seq) /\ sorted[k] \in Nat /\ IsAt(seq, k, sorted[k])
      /\ \A j, k \in 1..n : j <= k => sorted[j] <= sorted[k]
  BY SortedIsInOrder
<1>3. sorted # <<>>
  BY <1>1, <1>2
<1>4. \A p : Percentile(sorted, p) = sorted[Place(n, p)]
  BY <1>2, <1>3 DEF Percentile, Place
<1> HIDE DEF n
<1>5. /\ Place(n, 50) \in 1..n /\ Place(n, 95) \in 1..n /\ Place(n, 99) \in 1..n
      /\ Place(n, 50) <= Place(n, 95) /\ Place(n, 95) <= Place(n, 99)
      /\ 2 * Place(n, 50) >= n
  BY <1>1, PlacesAreInOrder
<1>6. 2 * Cardinality({ i \in DOMAIN seq : seq[i] <= Percentile(sorted, 50) }) >= n
  <2> DEFINE c == Cardinality(UpTo(seq, Percentile(sorted, 50)))
  <2>1. c >= Place(n, 50) /\ c \in Nat
    <3>1. UpTo(seq, Percentile(sorted, 50)) \in SUBSET DOMAIN seq
      BY DEF UpTo
    <3> QED
      BY <1>2, <1>4, <1>5, <3>1, PlacesAreFinite DEF IsAt
  <2>2. 2 * c >= n
    BY <1>1, <1>5, <2>1
  <2> QED
    BY <2>2 DEF UpTo
<1> QED
  BY <1>2, <1>4, <1>5, <1>6 DEF n

-----------------------------------------------------------------------------

LEMMA LoadInitially == LoadInit => LoadInv
<1> SUFFICES ASSUME LoadInit PROVE LoadInv
  OBVIOUS
<1>1. Between = {}
  BY DEF LoadInit, Between
<1>2. SumFunctionOnSet(request_id, Users) = 0 /\ Cardinality(Between) = 0
  BY <1>1, LoadAssumption, SumOfZeros, FS_EmptySet DEF LoadInit
<1>3. LoadTypeOK
  <2>1. 0 \in 0..RequestsPerUser /\ <<>> \in Seq(Latencies) /\ [step |-> "ramping"] \in Working
    BY LoadAssumption DEF Working
  <2> QED
    BY <2>1 DEF LoadInit, LoadTypeOK
<1>4. Counting
  BY <1>2 DEF LoadInit, Counting
<1> QED
  BY <1>3, <1>4 DEF LoadInit, LoadInv, ReportAddsUp, Asking

(* No user acts once the report is there.                                   *)
LEMMA UsersAct ==
    ASSUME LoadInv, NEW u \in Users, user[u].step \notin {"over", "panicked"}, report' = report,
           LoadTypeOK', Counting', Asking'
    PROVE  LoadInv'
<1>1. report = NoReport
  BY DEF LoadInv, Joined
<1> QED
  BY <1>1 DEF LoadInv, ReportAddsUp

LEMMA StillBetween ==
    ASSUME NEW u \in Users, user \in [Users -> Working], NEW to, Goes(u, to),
           user[u].step \in {"counted", "failed"} <=> to.step \in {"counted", "failed"}
    PROVE  Between' = Between
<1>1. \A v \in Users : user'[v] = IF v = u THEN to ELSE user[v]
  BY DEF Goes
<1> QED
  BY <1>1 DEF Between

LEMMA BetweenIsFinite ==
    /\ IsFiniteSet(Between) /\ Cardinality(Between) \in Nat
    /\ \A u \in Between : Cardinality(Between \ {u}) = Cardinality(Between) - 1
    /\ \A u \in Users \ Between : Cardinality(Between \cup {u}) = Cardinality(Between) + 1
<1>1. IsFiniteSet(Between)
  BY LoadAssumption, FS_Subset DEF Between
<1> QED
  BY <1>1, FS_CardinalityType, FS_RemoveElement, FS_AddElement

LEMMA WorkingIs ==
    \A w \in Working : /\ w.step \in {"ramping", "looping", "over", "panicked", "failing",
                                      "succeeding", "counted", "failed"}
                       /\ w.step \in {"succeeding", "counted"} => w.latency \in Latencies
BY DEF Working

LEMMA StartCounts == ASSUME LoadInv, NEW u \in Users, StartUser(u) PROVE LoadInv'
<1>1. LoadTypeOK /\ Counting /\ user \in [Users -> Working]
  BY DEF LoadInv, LoadTypeOK
<1>2. LoadTypeOK'
  BY <1>1 DEF StartUser, Goes, LoadTypeOK, Working
<1>3. Between' = Between
  BY <1>1, StillBetween DEF StartUser
<1>4. Counting'
  BY <1>1, <1>3 DEF StartUser, Counting
<1>5. Asking'
  BY <1>1 DEF StartUser, Goes, LoadInv, Asking
<1> QED
  BY <1>2, <1>4, <1>5, UsersAct DEF StartUser

LEMMA TurnCounts == ASSUME LoadInv, NEW u \in Users, Turn(u) PROVE LoadInv'
<1>1. LoadTypeOK /\ Counting /\ user \in [Users -> Working]
  BY DEF LoadInv, LoadTypeOK
<1>2. PICK to \in Working : Goes(u, to) /\ to.step \notin {"counted", "failed"}
  <2>1. ASSUME NEW l \in Latencies PROVE [step |-> "succeeding", latency |-> l] \in Working
    BY DEF Working
  <2>2. {[step |-> "over"], [step |-> "failing"], [step |-> "panicked"]} \subseteq Working
    BY DEF Working
  <2>3. CASE LoopEnds(u)
    BY <2>2, <2>3 DEF Turn
  <2>4. CASE ~LoopEnds(u)
    <3>1. CASE \E l \in Latencies : Goes(u, [step |-> "succeeding", latency |-> l])
      BY <2>1, <3>1
    <3> QED
      BY <2>2, <2>4, <3>1 DEF Turn
  <2> QED
    BY <2>3, <2>4
<1>3. LoadTypeOK'
  BY <1>1, <1>2 DEF Turn, Goes, LoadTypeOK
<1>4. Between' = Between
  BY <1>1, <1>2, StillBetween DEF Turn
<1>5. Counting'
  BY <1>1, <1>4 DEF Turn, Counting
<1>6. Asking'
  <2>1. \A v \in Users : user'[v] = IF v = u THEN to ELSE user[v]
    BY <1>1, <1>2 DEF Goes
  <2>2. CASE LoopEnds(u)
    <3>1. to.step = "over"
      BY <1>1, <2>1, <2>2 DEF Turn, Goes
    <3> QED
      BY <2>1, <3>1 DEF Turn, LoadInv, Asking
  <2>3. CASE ~LoopEnds(u)
    <3>1. request_id[u] < RequestsPerUser
      BY <1>1, <2>3, LoadAssumption DEF LoopEnds, LoadTypeOK
    <3> QED
      BY <2>1, <3>1 DEF Turn, LoadInv, Asking
  <2> QED
    BY <2>2, <2>3
<1> QED
  BY <1>3, <1>5, <1>6, UsersAct DEF Turn

LEMMA RequestCounts == ASSUME LoadInv, NEW u \in Users, CountRequest(u) PROVE LoadInv'
<1>1. LoadTypeOK /\ Counting /\ user \in [Users -> Working]
  BY DEF LoadInv, LoadTypeOK
<1>2. PICK to \in Working : Goes(u, to) /\ to.step \in {"counted", "failed"}
  <2>1. CASE user[u].step = "failing"
    BY <2>1 DEF CountRequest, Working
  <2>2. CASE user[u].step = "succeeding"
    <3>1. user[u] \in [step: {"succeeding", "counted"}, latency: Latencies]
      BY <1>1, <2>2 DEF Working
    <3>2. [user[u] EXCEPT !.step = "counted"] \in [step: {"succeeding", "counted"}, latency: Latencies]
      BY <3>1
    <3>3. [user[u] EXCEPT !.step = "counted"].step = "counted"
      BY <3>1
    <3> QED
      BY <2>2, <3>2, <3>3 DEF CountRequest, Working
  <2> QED
    BY <2>1, <2>2 DEF CountRequest
<1>3. LoadTypeOK'
  <2>1. user' \in [Users -> Working]
    BY <1>1, <1>2 DEF Goes
  <2>2. total_requests' \in Nat
    BY <1>1 DEF CountRequest, LoadTypeOK
  <2> QED
    BY <1>1, <2>1, <2>2 DEF CountRequest, LoadTypeOK
<1>4. Between' = Between \cup {u} /\ u \notin Between
  <2>1. \A v \in Users : user'[v] = IF v = u THEN to ELSE user[v]
    BY <1>1, <1>2 DEF Goes
  <2> QED
    BY <1>2, <2>1 DEF Between, CountRequest
<1>5. Cardinality(Between') = Cardinality(Between) + 1 /\ Cardinality(Between) \in Nat
  BY <1>4, BetweenIsFinite
<1>6. SumFunctionOnSet(request_id, Users) \in Int
  BY LoadAssumption, SumIsInt DEF LoadInv, LoadTypeOK
<1>7. Counting'
  BY <1>1, <1>5, <1>6 DEF CountRequest, Counting, LoadTypeOK
<1>8. Asking'
  <2>1. \A v \in Users : user'[v] = IF v = u THEN to ELSE user[v]
    BY <1>1, <1>2 DEF Goes
  <2> QED
    BY <2>1 DEF CountRequest, LoadInv, Asking
<1> QED
  BY <1>3, <1>7, <1>8, UsersAct DEF CountRequest

LEMMA NextRequestCounts ==
    ASSUME LoadInv, NEW u \in Users, user[u].step \in {"counted", "failed"}, NextRequest(u)
    PROVE  /\ Asking' /\ user' \in [Users -> Working] /\ request_id' \in [Users -> 0..RequestsPerUser]
           /\ SumFunctionOnSet(request_id', Users) = SumFunctionOnSet(request_id, Users) + 1
           /\ SumFunctionOnSet(request_id, Users) \in Int
           /\ Cardinality(Between') = Cardinality(Between) - 1 /\ Cardinality(Between) \in Nat
<1>1. user \in [Users -> Working] /\ request_id \in [Users -> 0..RequestsPerUser]
      /\ RequestsPerUser \in Nat /\ request_id[u] < RequestsPerUser
  BY LoadAssumption DEF LoadInv, LoadTypeOK, Asking
<1>2. user' \in [Users -> Working] /\ request_id' \in [Users -> 0..RequestsPerUser]
  <2>1. [step |-> "looping"] \in Working
    BY DEF Working
  <2>2. request_id[u] + 1 \in 0..RequestsPerUser
    BY <1>1
  <2> QED
    BY <1>1, <2>1, <2>2 DEF NextRequest, Goes
<1>3. \A v \in Users : request_id'[v] = IF v = u THEN request_id[u] + 1 ELSE request_id[v]
  BY <1>1 DEF NextRequest
<1>4. SumFunctionOnSet(request_id', Users)
        = SumFunctionOnSet(request_id, Users) + (request_id'[u] - request_id[u])
  BY <1>1, <1>2, <1>3, LoadAssumption, SumWithOneChanged
<1>5. SumFunctionOnSet(request_id, Users) \in Int
  BY <1>1, LoadAssumption, SumIsInt
<1>6. request_id'[u] - request_id[u] = 1
  BY <1>1, <1>3
<1>7. Between' = Between \ {u} /\ u \in Between
  <2>1. \A v \in Users : user'[v] = IF v = u THEN [step |-> "looping"] ELSE user[v]
    BY <1>1 DEF NextRequest, Goes
  <2> QED
    BY <2>1 DEF Between
<1>8. Cardinality(Between') = Cardinality(Between) - 1 /\ Cardinality(Between) \in Nat
  BY <1>7, BetweenIsFinite
<1>9. Asking'
  <2>1. \A v \in Users : user'[v] = IF v = u THEN [step |-> "looping"] ELSE user[v]
    BY <1>1 DEF NextRequest, Goes
  <2> QED
    BY <1>3, <2>1 DEF LoadInv, Asking
<1> QED
  BY <1>2, <1>4, <1>5, <1>6, <1>8, <1>9

LEMMA FailureCounts == ASSUME LoadInv, NEW u \in Users, CountFailure(u) PROVE LoadInv'
<1>1. LoadTypeOK /\ Counting
  BY DEF LoadInv
<1>2. /\ Asking' /\ user' \in [Users -> Working] /\ request_id' \in [Users -> 0..RequestsPerUser]
      /\ SumFunctionOnSet(request_id', Users) = SumFunctionOnSet(request_id, Users) + 1
      /\ SumFunctionOnSet(request_id, Users) \in Int
      /\ Cardinality(Between') = Cardinality(Between) - 1 /\ Cardinality(Between) \in Nat
  BY NextRequestCounts DEF CountFailure
<1>3. LoadTypeOK'
  BY <1>1, <1>2 DEF CountFailure, NextRequest, LoadTypeOK
<1>4. Counting'
  BY <1>1, <1>2 DEF CountFailure, NextRequest, Counting, LoadTypeOK
<1> QED
  BY <1>2, <1>3, <1>4, UsersAct DEF CountFailure, NextRequest, Joined, LoadInv

LEMMA SuccessCounts == ASSUME LoadInv, NEW u \in Users, CountSuccess(u) PROVE LoadInv'
<1>1. LoadTypeOK /\ Counting
  BY DEF LoadInv
<1>2. /\ Asking' /\ user' \in [Users -> Working] /\ request_id' \in [Users -> 0..RequestsPerUser]
      /\ SumFunctionOnSet(request_id', Users) = SumFunctionOnSet(request_id, Users) + 1
      /\ SumFunctionOnSet(request_id, Users) \in Int
      /\ Cardinality(Between') = Cardinality(Between) - 1 /\ Cardinality(Between) \in Nat
  BY NextRequestCounts DEF CountSuccess
<1>3. latencies_us' \in Seq(Latencies) /\ Len(latencies_us') = Len(latencies_us) + 1
  <2>1. user[u] \in Working
    BY <1>1 DEF LoadTypeOK
  <2>2. user[u].latency \in Latencies
    BY <2>1, WorkingIs DEF CountSuccess
  <2> QED
    BY <1>1, <2>2 DEF CountSuccess, LoadTypeOK
<1>4. LoadTypeOK'
  BY <1>1, <1>2, <1>3 DEF CountSuccess, NextRequest, LoadTypeOK
<1>5. Counting'
  BY <1>1, <1>2, <1>3 DEF CountSuccess, NextRequest, Counting, LoadTypeOK
<1> QED
  BY <1>2, <1>4, <1>5, UsersAct DEF CountSuccess, NextRequest

LEMMA ReportCounts == ASSUME LoadInv, Report PROVE LoadInv'
<1>1. LoadTypeOK /\ Counting /\ Asking /\ Joined
  BY DEF LoadInv, Report
<1>2. LoadTypeOK' /\ Counting' /\ Asking' /\ Joined'
  BY <1>1 DEF Report, LoadTypeOK, Counting, Between, Asking, Joined
<1>3. Cardinality(Between) = 0
  <2>1. Between = {}
    BY <1>1 DEF Joined, Between
  <2> QED
    BY <2>1, FS_EmptySet
<1>4. SumFunction(request_id) = SumFunctionOnSet(request_id, Users)
  BY <1>1 DEF SumFunction, LoadTypeOK
<1>5. SumFunctionOnSet(request_id, Users) \in Int
  BY <1>1, LoadAssumption, SumIsInt DEF LoadTypeOK
<1> DEFINE sorted == Sorted(latencies_us)
<1>6. /\ report'.total_requests = total_requests /\ report'.successful = successful
      /\ report'.failed = failed
      /\ report'.latency_p50_us = Percentile(sorted, 50)
      /\ report'.latency_p95_us = Percentile(sorted, 95)
      /\ report'.latency_p99_us = Percentile(sorted, 99)
      /\ latencies_us' = latencies_us /\ request_id' = request_id
  BY DEF Report
<1>7. latencies_us # <<>> =>
          /\ {Percentile(sorted, 50), Percentile(sorted, 99)} \subseteq ToSet(latencies_us)
          /\ Percentile(sorted, 50) <= Percentile(sorted, 95)
          /\ Percentile(sorted, 95) <= Percentile(sorted, 99)
          /\ 2 * Cardinality({ i \in DOMAIN latencies_us :
                                   latencies_us[i] <= Percentile(sorted, 50) }) >= Len(latencies_us)
  BY <1>1, LoadAssumption, PercentilesAreLatencies DEF LoadTypeOK
<1>8. /\ successful + failed = total_requests
      /\ total_requests = SumFunction(request_id)
      /\ successful = Len(latencies_us)
  BY <1>1, <1>3, <1>4, <1>5 DEF Counting, LoadTypeOK
<1> HIDE DEF sorted
<1>9. ReportAddsUp'
  BY <1>6, <1>7, <1>8 DEF ReportAddsUp
<1> QED
  BY <1>2, <1>9 DEF LoadInv

LEMMA LoadStep == LoadInv /\ [LoadNext]_loadVars => LoadInv'
<1> SUFFICES ASSUME LoadInv, [LoadNext]_loadVars PROVE LoadInv'
  OBVIOUS
<1>1. CASE TimeIsUp
  BY <1>1 DEF TimeIsUp, LoadInv, LoadTypeOK, Counting, Between, Asking, Joined, ReportAddsUp
<1>2. CASE Report
  BY <1>2, ReportCounts
<1>3. ASSUME NEW u \in Users,
             StartUser(u) \/ Turn(u) \/ CountRequest(u) \/ CountFailure(u) \/ CountSuccess(u)
      PROVE  LoadInv'
  BY <1>3, StartCounts, TurnCounts, RequestCounts, FailureCounts, SuccessCounts
<1>4. CASE UNCHANGED loadVars
  BY <1>4 DEF loadVars, LoadInv, LoadTypeOK, Counting, Between, Asking, Joined, ReportAddsUp
<1> QED
  BY <1>1, <1>2, <1>3, <1>4 DEF LoadNext

(* LoadTester::run (load.rs l.241-302): for any number of users, requests   *)
(* and latencies, in whatever order the users count, end and panic, the     *)
(* report counts every request once, and its percentiles are latencies, in  *)
(* order, with half of them up to the median.                               *)
THEOREM ReportsAddUp == LoadSpec => []ReportAddsUp
<1>1. LoadInv => ReportAddsUp
  BY DEF LoadInv
<1> QED
  BY <1>1, LoadInitially, LoadStep, PTL DEF LoadSpec

=============================================================================
