------------------------- MODULE DaemonManagerProofs ------------------------
(***************************************************************************)
(* Proofs about DaemonManager: its types, who may touch an entry, and that *)
(* what signal() checks before it waits for room in the channel still      *)
(* holds when it sends.                                                    *)
(*                                                                         *)
(* The inductive invariant has two halves.  QueuesInv is about the locks   *)
(* alone: a caller is in a queue once, in the queues its method takes and  *)
(* in no other, and keeps what it was granted.  UsersInv is about the      *)
(* entries: nobody waits for or holds an entry that is not in the map, and *)
(* SendingStillValid.  The second half needs the first because unregister  *)
(* is kept out by the map's write lock and update_status by the Mutex.     *)
(***************************************************************************)
EXTENDS DaemonManager, SequenceTheorems, TLAPS

-----------------------------------------------------------------------------
(* Queues *)

Waits(c, queue) == \E i \in DOMAIN queue : queue[i] = c

Once(queue) == \A i, j \in DOMAIN queue : queue[i] = queue[j] => i = j

(* What does not wait in a queue is not missed there.                       *)
LEMMA WithoutMissing ==
    ASSUME NEW queue \in Seq(Callers), NEW c, ~Waits(c, queue)
    PROVE  Without(queue, c) = queue
  BY DEF Waits, Without, RemoveFirst

(* A caller that gives up its only place leaves the others in their order.  *)
LEMMA WithoutPresent ==
    ASSUME NEW queue \in Seq(Callers), Once(queue), NEW n \in 1..Len(queue)
    PROVE  LET rest == Without(queue, queue[n]) IN
           /\ rest \in Seq(Callers)
           /\ Len(rest) = Len(queue) - 1
           /\ \A i \in 1..Len(rest) : rest[i] = IF i < n THEN queue[i] ELSE queue[i + 1]
<1> DEFINE front == SubSeq(queue, 1, n - 1)
           back  == SubSeq(queue, n + 1, Len(queue))
<1>1. { i \in 1..Len(queue) : queue[i] = queue[n] } = {n}
  BY DEF Once
<1>2. SelectInSeq(queue, LAMBDA e : e = queue[n]) = n
  BY <1>1 DEF SelectInSeq, Min
<1>3. Without(queue, queue[n]) = front \o back
  BY <1>2 DEF Without, RemoveFirst, RemoveAt
<1>4. /\ front \in Seq(Callers) /\ Len(front) = n - 1
      /\ \A i \in 1..(n - 1) : front[i] = queue[i]
  OBVIOUS
<1>5. /\ back \in Seq(Callers) /\ Len(back) = Len(queue) - n
      /\ \A i \in 1..(Len(queue) - n) : back[i] = queue[n + i]
  OBVIOUS
<1> HIDE DEF front, back
<1>6. /\ front \o back \in Seq(Callers)
      /\ Len(front \o back) = Len(front) + Len(back)
      /\ \A i \in 1..(Len(front) + Len(back)) :
             (front \o back)[i] = IF i <= Len(front) THEN front[i] ELSE back[i - Len(front)]
  BY <1>4, <1>5, ConcatProperties
<1>7. Len(front \o back) = Len(queue) - 1
  BY <1>4, <1>5, <1>6
<1>8. ASSUME NEW i \in 1..(Len(queue) - 1)
      PROVE  (front \o back)[i] = IF i < n THEN queue[i] ELSE queue[i + 1]
  <2>1. CASE i < n
    BY <2>1, <1>4, <1>5, <1>6
  <2>2. CASE i >= n
    <3>1. (front \o back)[i] = back[i - (n - 1)]
      BY <2>2, <1>4, <1>5, <1>6
    <3>2. back[i - (n - 1)] = queue[n + (i - (n - 1))]
      BY <2>2, <1>5
    <3>. QED
      BY <3>1, <3>2, <2>2
  <2>3. i < n \/ i >= n
    OBVIOUS
  <2>. QED
    BY <2>1, <2>2, <2>3
<1>. QED
  BY <1>3, <1>6, <1>7, <1>8

(* Leaving a queue: the others stay, each at its place or one closer to the *)
(* head and behind nobody new.                                              *)
LEMMA WithoutKeepsOrder ==
    ASSUME NEW queue \in Seq(Callers), Once(queue), NEW c
    PROVE  LET rest == Without(queue, c) IN
           /\ rest \in Seq(Callers)
           /\ Once(rest)
           /\ ~Waits(c, rest)
           /\ \A e : Waits(e, rest) => Waits(e, queue)
           /\ \A n \in DOMAIN queue : queue[n] # c =>
                  \E m \in DOMAIN rest :
                      /\ m <= n /\ rest[m] = queue[n]
                      /\ \A j \in 1..m : \E k \in 1..n : rest[j] = queue[k]
<1>1. CASE ~Waits(c, queue)
  BY <1>1, WithoutMissing DEF Waits
<1>2. CASE Waits(c, queue)
  <2> DEFINE rest == Without(queue, c)
             old(i, n) == IF i < n THEN i ELSE i + 1
  <2>1. PICK n \in 1..Len(queue) : queue[n] = c
    BY <1>2 DEF Waits
  <2>2. /\ rest \in Seq(Callers) /\ Len(rest) = Len(queue) - 1
        /\ \A i \in 1..Len(rest) : rest[i] = queue[old(i, n)]
    BY <2>1, WithoutPresent
  <2> HIDE DEF rest
  <2>3. \A i \in 1..Len(rest) : old(i, n) \in 1..Len(queue) /\ old(i, n) # n
    BY <2>2
  <2>4. Once(rest)
    <3> SUFFICES ASSUME NEW i \in 1..Len(rest), NEW j \in 1..Len(rest), rest[i] = rest[j]
                 PROVE  i = j
      BY <2>2 DEF Once
    <3>1. old(i, n) = old(j, n)
      <4>1. queue[old(i, n)] = queue[old(j, n)]
        BY <2>2
      <4> HIDE DEF old
      <4>. QED
        BY <4>1, <2>3 DEF Once
    <3>. QED
      BY <3>1, <2>2
  <2>5. ~Waits(c, rest)
    BY <2>1, <2>2, <2>3 DEF Waits, Once
  <2>6. ASSUME NEW e, Waits(e, rest)
        PROVE  Waits(e, queue)
    <3>1. PICK i \in 1..Len(rest) : rest[i] = e
      BY <2>2, <2>6 DEF Waits
    <3>2. old(i, n) \in DOMAIN queue /\ queue[old(i, n)] = e
      BY <3>1, <2>2, <2>3
    <3>. QED
      BY <3>2 DEF Waits
  <2>7. ASSUME NEW p \in 1..Len(queue), queue[p] # c
        PROVE  \E m \in 1..Len(rest) :
                   /\ m <= p /\ rest[m] = queue[p]
                   /\ \A j \in 1..m : \E k \in 1..p : rest[j] = queue[k]
    <3>1. p # n
      BY <2>1, <2>7
    <3>2. CASE p < n
      <4>1. p \in 1..Len(rest) /\ rest[p] = queue[p] /\ \A j \in 1..p : rest[j] = queue[j]
        BY <3>2, <2>2
      <4>. QED
        BY <4>1
    <3>3. CASE p > n
      <4>1. p - 1 \in 1..Len(rest) /\ rest[p - 1] = queue[p]
        BY <3>3, <2>2
      <4>2. \A j \in 1..(p - 1) : old(j, n) \in 1..p /\ rest[j] = queue[old(j, n)]
        BY <3>3, <2>2, <4>1
      <4> HIDE DEF old
      <4>3. \A j \in 1..(p - 1) : \E k \in 1..p : rest[j] = queue[k]
        BY <4>2
      <4>4. p - 1 <= p
        OBVIOUS
      <4>. QED
        BY <4>1, <4>3, <4>4
    <3>. QED
      BY <3>1, <3>2, <3>3
  <2>. QED
    BY <2>2, <2>4, <2>5, <2>6, <2>7, LenProperties DEF rest
<1>. QED
  BY <1>1, <1>2

(* Joining a queue: at its end, behind those that wait there.               *)
LEMMA AppendKeepsOrder ==
    ASSUME NEW queue \in Seq(Callers), Once(queue), NEW c \in Callers, ~Waits(c, queue)
    PROVE  LET more == Append(queue, c) IN
           /\ more \in Seq(Callers)
           /\ Once(more)
           /\ \A e : Waits(e, more) <=> Waits(e, queue) \/ e = c
           /\ Len(more) = Len(queue) + 1
           /\ \A n \in DOMAIN queue : n \in DOMAIN more /\ more[n] = queue[n]
<1> DEFINE more == Append(queue, c)
<1>1. /\ more \in Seq(Callers) /\ Len(more) = Len(queue) + 1
      /\ more[Len(queue) + 1] = c
      /\ \A n \in 1..Len(queue) : more[n] = queue[n]
  BY AppendProperties
<1>2. DOMAIN queue = 1..Len(queue) /\ DOMAIN more = 1..Len(more) /\ Len(queue) \in Nat
  BY <1>1, LenProperties
<1> HIDE DEF more
<1>3. \A n \in DOMAIN more : n \in DOMAIN queue \/ n = Len(queue) + 1
  BY <1>1, <1>2
<1>4. Once(more)
  BY <1>1, <1>2, <1>3 DEF Waits, Once
<1>5. \A e : Waits(e, more) <=> Waits(e, queue) \/ e = c
  BY <1>1, <1>2, <1>3 DEF Waits
<1>. QED
  BY <1>1, <1>2, <1>4, <1>5 DEF more

-----------------------------------------------------------------------------
(* The invariant *)

\* What a caller can be in the middle of.
Calls == Requests \cup {Listing, Counting} \cup { Terminate(d) : d \in Daemons }

\* The methods that go on from the map to an entry.
UsesEntry(c) == call[c].op \notin {"register", "list", "count"}

AtEntry(c) == pc[c] \in {"entry", "send"}

PlacesInv ==
    /\ Once(map_queue) /\ \A d \in Daemons : Once(mutex_queue[d])
    /\ \A c \in Callers : pc[c] \in {"idle", "next"} => ~Waits(c, map_queue)
    /\ \A c \in Callers, d \in Daemons :
           Waits(c, mutex_queue[d]) => AtEntry(c) /\ d = call[c].id

CallsInv ==
    /\ \A c \in Callers : pc[c] \in {"map", "entry", "send"} => call[c] \in Calls
    /\ \A c \in Callers : pc[c] = "next" => sweep[c] # None

GrantsInv ==
    \A c \in Callers :
        /\ AtEntry(c) => HasMap(c) /\ UsesEntry(c) /\ Waits(c, mutex_queue[call[c].id])
        /\ pc[c] = "send" => call[c].op = "signal" /\ HasEntry(c)

QueuesInv == PlacesInv /\ CallsInv /\ GrantsInv

UsersInv == \A c \in Callers : AtEntry(c) => call[c].id \in registered

MInv == TypeOK /\ QueuesInv /\ UsersInv /\ SendingStillValid

LEMMA EntryCallsHaveDaemon ==
    ASSUME NEW c, call[c] \in Calls, UsesEntry(c)
    PROVE  call[c].id \in Daemons
  BY DEF Calls, Requests, Listing, Counting, Terminate, UsesEntry

(* A guard of the map outlasts the departure of another caller.             *)
LEMMA MapOutlastsLeaving ==
    ASSUME map_queue \in Seq(Callers), Once(map_queue),
           NEW c \in Callers, NEW e \in Callers, e # c, HasMap(e),
           map_queue' = Without(map_queue, c),
           \A x \in Callers : x # c => call'[x] = call[x]
    PROVE  HasMap(e)'
<1>1. PICK n \in DOMAIN map_queue :
          /\ map_queue[n] = e
          /\ IF WritesMap(e) THEN n = 1 ELSE \A j \in 1..n : ~WritesMap(map_queue[j])
  BY DEF HasMap
<1>2. /\ map_queue' \in Seq(Callers) /\ ~Waits(c, map_queue')
      /\ \E m \in DOMAIN map_queue' :
             /\ m <= n /\ map_queue'[m] = e
             /\ \A j \in 1..m : \E k \in 1..n : map_queue'[j] = map_queue[k]
  BY <1>1, WithoutKeepsOrder
<1>3. PICK m \in DOMAIN map_queue' :
          /\ m <= n /\ map_queue'[m] = e
          /\ \A j \in 1..m : \E k \in 1..n : map_queue'[j] = map_queue[k]
  BY <1>2
<1>4. n \in Nat /\ m \in Nat \ {0} /\ \A j \in 1..m : j \in DOMAIN map_queue'
  BY <1>1, <1>2, <1>3, LenProperties
<1>5. call'[e] = call[e]
  OBVIOUS
<1>6. CASE WritesMap(e)
  BY <1>1, <1>3, <1>4, <1>5, <1>6 DEF HasMap, WritesMap
<1>7. CASE ~WritesMap(e)
  <2>1. ASSUME NEW j \in 1..m
        PROVE  call'[map_queue'[j]].op \notin {"register", "unregister"}
    <3>1. PICK k \in 1..n : map_queue'[j] = map_queue[k]
      BY <1>3
    <3>2. map_queue'[j] # c /\ map_queue'[j] \in Callers
      BY <1>2, <1>4, ElementOfSeq, LenProperties DEF Waits
    <3>3. call'[map_queue'[j]] = call[map_queue[k]]
      BY <3>1, <3>2
    <3>. QED
      BY <3>1, <3>3, <1>1, <1>7 DEF WritesMap
  <2>. QED
    BY <2>1, <1>3, <1>5, <1>7 DEF HasMap, WritesMap
<1>. QED
  BY <1>6, <1>7

(* ... and the arrival of another one.                                      *)
LEMMA MapOutlastsJoining ==
    ASSUME map_queue \in Seq(Callers), Once(map_queue),
           NEW c \in Callers, NEW e \in Callers, e # c, HasMap(e),
           ~Waits(c, map_queue), map_queue' = Append(map_queue, c),
           \A x \in Callers : x # c => call'[x] = call[x]
    PROVE  HasMap(e)'
<1>1. PICK n \in DOMAIN map_queue :
          /\ map_queue[n] = e
          /\ IF WritesMap(e) THEN n = 1 ELSE \A j \in 1..n : ~WritesMap(map_queue[j])
  BY DEF HasMap
<1>2. \A k \in DOMAIN map_queue : k \in DOMAIN map_queue' /\ map_queue'[k] = map_queue[k]
  BY AppendKeepsOrder
<1>3. \A j \in 1..n : j \in DOMAIN map_queue /\ map_queue[j] \in Callers
  BY <1>1, LenProperties, ElementOfSeq
<1>4. \A j \in DOMAIN map_queue : map_queue[j] # c
  BY DEF Waits
<1>5. \A j \in 1..n : call'[map_queue'[j]] = call[map_queue[j]]
  BY <1>2, <1>3, <1>4
<1>. QED
  BY <1>1, <1>2, <1>5 DEF HasMap, WritesMap

(* The holder of a Mutex is not moved by what others do in its queue.       *)
LEMMA HeadOutlastsLeaving ==
    ASSUME NEW queue \in Seq(Callers), Once(queue), NEW c, NEW e, e # c, Waits(e, queue)
    PROVE  /\ Waits(e, Without(queue, c))
           /\ Head(queue) = e => Head(Without(queue, c)) = e
<1> DEFINE rest == Without(queue, c)
<1>1. /\ rest \in Seq(Callers)
      /\ \A n \in DOMAIN queue : queue[n] # c =>
             \E m \in DOMAIN rest : m <= n /\ rest[m] = queue[n]
  BY WithoutKeepsOrder
<1> HIDE DEF rest
<1>2. PICK n \in DOMAIN queue : queue[n] = e
  BY DEF Waits
<1>3. Waits(e, rest)
  BY <1>1, <1>2 DEF Waits
<1>4. ASSUME Head(queue) = e
      PROVE  Head(rest) = e
  <2>1. 1 \in DOMAIN queue /\ queue[1] = e
    BY <1>2, <1>4, LenProperties
  <2>2. PICK m \in DOMAIN rest : m <= 1 /\ rest[m] = e
    BY <2>1, <1>1
  <2>3. m = 1
    BY <2>2, <1>1, LenProperties
  <2>. QED
    BY <2>2, <2>3, <1>1, LenProperties
<1>. QED
  BY <1>3, <1>4 DEF rest

-----------------------------------------------------------------------------
(* Each way of moving in the queues keeps QueuesInv *)

LEMMA EnteringKeepsQueues ==
    ASSUME TypeOK, QueuesInv, NEW c \in Callers, pc[c] \in {"idle", "next"},
           NEW r \in Calls, Enter(c, r),
           \A e \in Callers : e # c => sweep'[e] = sweep[e]
    PROVE  QueuesInv'
<1> USE DEF QueuesInv
<1>1. /\ map_queue \in Seq(Callers) /\ Once(map_queue) /\ ~Waits(c, map_queue)
      /\ map_queue' = Append(map_queue, c) /\ mutex_queue' = mutex_queue
  BY DEF TypeOK, PlacesInv, Enter
<1>2. /\ call'[c] = r /\ pc'[c] = "map"
      /\ \A e \in Callers : e # c => call'[e] = call[e] /\ pc'[e] = pc[e]
  BY DEF TypeOK, Enter
<1>3. \A d \in Daemons : ~Waits(c, mutex_queue[d])
  BY DEF PlacesInv, AtEntry
<1>4. Once(map_queue') /\ \A e : Waits(e, map_queue') <=> Waits(e, map_queue) \/ e = c
  BY <1>1, AppendKeepsOrder
<1>5. PlacesInv'
  BY <1>1, <1>2, <1>3, <1>4 DEF PlacesInv, AtEntry
<1>6. CallsInv'
  BY <1>2 DEF CallsInv
<1>7. GrantsInv'
  <2> SUFFICES ASSUME NEW e \in Callers, AtEntry(e)'
               PROVE  /\ HasMap(e)' /\ UsesEntry(e)' /\ Waits(e, mutex_queue[call[e].id])'
                      /\ (pc[e] = "send" => call[e].op = "signal" /\ HasEntry(e))'
    BY DEF GrantsInv, AtEntry
  <2>1. e # c /\ AtEntry(e)
    BY <1>2 DEF AtEntry
  <2>2. HasMap(e)'
    BY <1>1, <1>2, <2>1, MapOutlastsJoining DEF GrantsInv
  <2>. QED
    BY <1>1, <1>2, <2>1, <2>2 DEF GrantsInv, UsesEntry, HasEntry
<1>. QED
  BY <1>5, <1>6, <1>7

LEMMA LeavingKeepsQueues ==
    ASSUME TypeOK, QueuesInv, NEW c \in Callers, Release(c),
           NEW p \in {"idle", "next"}, pc' = [pc EXCEPT ![c] = p],
           p = "next" => sweep'[c] # None,
           \A e \in Callers : e # c => sweep'[e] = sweep[e]
    PROVE  QueuesInv'
<1> USE DEF QueuesInv
<1>1. /\ map_queue \in Seq(Callers) /\ Once(map_queue)
      /\ map_queue' = Without(map_queue, c)
  BY DEF TypeOK, PlacesInv, Release
<1>2. \A d \in Daemons :
          /\ mutex_queue[d] \in Seq(Callers) /\ Once(mutex_queue[d])
          /\ mutex_queue'[d] = Without(mutex_queue[d], c)
  BY DEF TypeOK, PlacesInv, Release
<1>3. /\ pc'[c] = p
      /\ \A e \in Callers : e # c => call'[e] = call[e] /\ pc'[e] = pc[e]
  BY DEF TypeOK, Release
<1>4. /\ Once(map_queue') /\ ~Waits(c, map_queue')
      /\ \A e : Waits(e, map_queue') => Waits(e, map_queue)
  BY <1>1, WithoutKeepsOrder
<1>5. \A d \in Daemons :
          /\ Once(mutex_queue'[d]) /\ ~Waits(c, mutex_queue'[d])
          /\ \A e : Waits(e, mutex_queue'[d]) => Waits(e, mutex_queue[d])
  BY <1>2, WithoutKeepsOrder
<1>6. PlacesInv'
  <2>1. \A e \in Callers : pc'[e] \in {"idle", "next"} => ~Waits(e, map_queue')
    BY <1>3, <1>4 DEF PlacesInv
  <2>2. ASSUME NEW e \in Callers, NEW d \in Daemons, Waits(e, mutex_queue'[d])
        PROVE  AtEntry(e)' /\ d = call'[e].id
    <3>1. e # c /\ Waits(e, mutex_queue[d])
      BY <2>2, <1>5
    <3>. QED
      BY <3>1, <1>3 DEF PlacesInv, AtEntry
  <2>. QED
    BY <1>4, <1>5, <2>1, <2>2 DEF PlacesInv
<1>7. CallsInv'
  BY <1>3 DEF CallsInv
<1>8. GrantsInv'
  <2> SUFFICES ASSUME NEW e \in Callers, AtEntry(e)'
               PROVE  /\ HasMap(e)' /\ UsesEntry(e)' /\ Waits(e, mutex_queue[call[e].id])'
                      /\ (pc[e] = "send" => call[e].op = "signal" /\ HasEntry(e))'
    BY DEF GrantsInv, AtEntry
  <2>1. e # c /\ AtEntry(e)
    BY <1>3 DEF AtEntry
  <2>2. HasMap(e)'
    BY <1>1, <1>3, <2>1, MapOutlastsLeaving DEF GrantsInv
  <2> DEFINE d == call[e].id
  <2>3. UsesEntry(e) /\ Waits(e, mutex_queue[d]) /\ call'[e] = call[e]
    BY <1>3, <2>1 DEF GrantsInv
  <2>4. d \in Daemons
    BY <2>1, <2>3, EntryCallsHaveDaemon DEF CallsInv, AtEntry
  <2>5. /\ Waits(e, mutex_queue'[d])
        /\ Head(mutex_queue[d]) = e => Head(mutex_queue'[d]) = e
    <3> DEFINE queue == mutex_queue[d]
    <3>1. queue \in Seq(Callers) /\ Once(queue) /\ Waits(e, queue)
      BY <1>2, <2>3, <2>4
    <3>2. mutex_queue'[d] = Without(queue, c)
      BY <1>2, <2>4
    <3> HIDE DEF queue
    <3>3. /\ Waits(e, Without(queue, c))
          /\ Head(queue) = e => Head(Without(queue, c)) = e
      BY <2>1, <3>1, HeadOutlastsLeaving
    <3>. QED
      BY <3>2, <3>3 DEF queue
  <2>. QED
    BY <1>3, <2>1, <2>2, <2>3, <2>5 DEF GrantsInv, UsesEntry, HasEntry
<1>. QED
  BY <1>6, <1>7, <1>8

LEMMA LookupKeepsQueues ==
    ASSUME TypeOK, QueuesInv, NEW c \in Callers, pc[c] = "map", HasMap(c), UsesEntry(c),
           mutex_queue' = [mutex_queue EXCEPT ![call[c].id] = Append(@, c)],
           pc' = [pc EXCEPT ![c] = "entry"], UNCHANGED <<map_queue, call, sweep>>
    PROVE  QueuesInv'
<1> USE DEF QueuesInv
<1> DEFINE d == call[c].id
<1>1. d \in Daemons
  BY EntryCallsHaveDaemon DEF CallsInv
<1>2. \A x \in Daemons :
          /\ mutex_queue[x] \in Seq(Callers) /\ Once(mutex_queue[x])
          /\ ~Waits(c, mutex_queue[x])
          /\ mutex_queue'[x] = IF x = d THEN Append(mutex_queue[d], c) ELSE mutex_queue[x]
  BY <1>1 DEF TypeOK, PlacesInv, AtEntry
<1> HIDE DEF d
<1>3. /\ Once(mutex_queue'[d])
      /\ \A e : Waits(e, mutex_queue'[d]) <=> Waits(e, mutex_queue[d]) \/ e = c
      /\ \A n \in DOMAIN mutex_queue[d] :
             n \in DOMAIN mutex_queue'[d] /\ mutex_queue'[d][n] = mutex_queue[d][n]
  BY <1>1, <1>2, AppendKeepsOrder
<1>4. /\ pc'[c] = "entry" /\ \A e \in Callers : e # c => pc'[e] = pc[e]
      /\ map_queue' = map_queue /\ call' = call /\ sweep' = sweep
  BY DEF TypeOK
<1>5. PlacesInv'
  <2>1. \A x \in Daemons : Once(mutex_queue'[x])
    BY <1>2, <1>3
  <2>2. ASSUME NEW e \in Callers, NEW x \in Daemons, Waits(e, mutex_queue'[x])
        PROVE  AtEntry(e)' /\ x = call'[e].id
    <3>1. CASE e = c
      BY <3>1, <2>2, <1>2, <1>4 DEF AtEntry, d
    <3>2. CASE e # c
      BY <3>2, <2>2, <1>2, <1>3, <1>4 DEF PlacesInv, AtEntry
    <3>. QED
      BY <3>1, <3>2
  <2>. QED
    BY <1>4, <2>1, <2>2 DEF PlacesInv
<1>6. CallsInv'
  BY <1>4 DEF CallsInv
<1>7. GrantsInv'
  <2> SUFFICES ASSUME NEW e \in Callers, AtEntry(e)'
               PROVE  /\ HasMap(e) /\ UsesEntry(e) /\ Waits(e, mutex_queue'[call[e].id])
                      /\ pc'[e] = "send" => /\ call[e].op = "signal"
                                            /\ Head(mutex_queue'[call[e].id]) = e
    BY <1>4 DEF GrantsInv, AtEntry, HasMap, WritesMap, UsesEntry, HasEntry
  <2>1. CASE e = c
    BY <2>1, <1>1, <1>3, <1>4 DEF d
  <2>2. CASE e # c
    <3>1. /\ HasMap(e) /\ UsesEntry(e) /\ Waits(e, mutex_queue[call[e].id])
          /\ pc'[e] = "send" => call[e].op = "signal" /\ Head(mutex_queue[call[e].id]) = e
          /\ call[e].id \in Daemons
      BY <2>2, <1>4, EntryCallsHaveDaemon DEF GrantsInv, CallsInv, AtEntry, HasEntry
    <3>2. CASE call[e].id # d
      BY <3>1, <3>2, <1>2
    <3>3. CASE call[e].id = d
      <4>1. 1 \in DOMAIN mutex_queue[d]
        BY <3>1, <3>3, <1>1, <1>2, LenProperties DEF Waits
      <4>2. mutex_queue'[d][1] = mutex_queue[d][1]
        BY <4>1, <1>3
      <4>. QED
        BY <3>1, <3>3, <4>2, <1>3
    <3>. QED
      BY <3>2, <3>3
  <2>. QED
    BY <2>1, <2>2
<1>. QED
  BY <1>5, <1>6, <1>7

(* Steps that leave the locks and the methods alone, and the step of        *)
(* signal() from its checks to the channel.                                 *)
LEMMA StayingKeepsQueues ==
    ASSUME TypeOK, QueuesInv, UNCHANGED <<locks, call, sweep>>,
           \/ pc' = pc
           \/ \E c \in Callers : Locked(c, "signal") /\ pc' = [pc EXCEPT ![c] = "send"]
    PROVE  QueuesInv'
<1> USE DEF QueuesInv
<1>1. map_queue' = map_queue /\ mutex_queue' = mutex_queue /\ call' = call /\ sweep' = sweep
  BY DEF locks
<1>2. \A e \in Callers :
          \/ pc'[e] = pc[e]
          \/ pc[e] = "entry" /\ HasEntry(e) /\ call[e].op = "signal" /\ pc'[e] = "send"
  BY DEF TypeOK, Locked
<1>3. PlacesInv'
  BY <1>1, <1>2 DEF PlacesInv, AtEntry
<1>4. CallsInv'
  BY <1>1, <1>2 DEF CallsInv
<1>5. GrantsInv'
  BY <1>1, <1>2 DEF GrantsInv, AtEntry, HasMap, WritesMap, UsesEntry, HasEntry
<1>. QED
  BY <1>3, <1>4, <1>5

-----------------------------------------------------------------------------
(* Types *)

LEMMA EnterTypes ==
    ASSUME TypeOK, NEW c \in Callers, NEW r \in Calls, Enter(c, r)
    PROVE  /\ map_queue' \in Seq(Callers)
           /\ mutex_queue' \in [Daemons -> Seq(Callers)]
           /\ call' \in [Callers -> Calls \cup {NoCall}]
           /\ pc' \in [Callers -> {"idle", "map", "entry", "send", "next"}]
  BY DEF TypeOK, Enter, Calls

LEMMA ReleaseTypes ==
    ASSUME TypeOK, PlacesInv, NEW c \in Callers, Release(c)
    PROVE  /\ map_queue' \in Seq(Callers)
           /\ mutex_queue' \in [Daemons -> Seq(Callers)]
           /\ call' \in [Callers -> Calls \cup {NoCall}]
<1>1. map_queue' \in Seq(Callers)
  BY WithoutKeepsOrder DEF TypeOK, PlacesInv, Release
<1>2. \A d \in Daemons : Without(mutex_queue[d], c) \in Seq(Callers)
  BY WithoutKeepsOrder DEF TypeOK, PlacesInv
<1>3. mutex_queue' \in [Daemons -> Seq(Callers)]
  BY <1>2 DEF Release
<1>. QED
  BY <1>1, <1>3 DEF TypeOK, Release, Calls

(* What a method returns to.                                                *)
LEMMA ReturnTypes ==
    ASSUME TypeOK, PlacesInv, NEW c \in Callers, Return(c)
    PROVE  /\ map_queue' \in Seq(Callers)
           /\ mutex_queue' \in [Daemons -> Seq(Callers)]
           /\ call' \in [Callers -> Calls \cup {NoCall}]
           /\ pc' \in [Callers -> {"idle", "map", "entry", "send", "next"}]
           /\ sweep' = sweep
<1>1. Release(c)
  BY DEF Return
<1>. QED
  BY <1>1, ReleaseTypes DEF Return, TypeOK

\* The part of TypeOK that is about the methods in progress.
MethodTypes ==
    /\ map_queue \in Seq(Callers)
    /\ mutex_queue \in [Daemons -> Seq(Callers)]
    /\ call \in [Callers -> Calls \cup {NoCall}]
    /\ pc \in [Callers -> {"idle", "map", "entry", "send", "next"}]
    /\ sweep \in [Callers -> (SUBSET Daemons) \cup {None}]

\* ... and the part about the entries and the daemons.
DaemonTypes ==
    /\ registered \subseteq Daemons
    /\ status \in [Daemons -> DaemonStatus]
    /\ handle \in [Daemons -> Contexts \cup {None}]
    /\ context \in [Contexts -> {"new", "live", "dropped"}]
    /\ chan \in [Contexts -> Seq(Signal)]
    /\ \A x \in Contexts : Len(chan[x]) <= Capacity
    /\ shutdown \in [Contexts -> BOOLEAN]

LEMMA TypesSplit == TypeOK <=> MethodTypes /\ DaemonTypes
  BY DEF TypeOK, MethodTypes, DaemonTypes, Calls

LEMMA MethodTypesStep ==
    ASSUME TypeOK, QueuesInv, [Next]_vars
    PROVE  MethodTypes'
<1> USE DEF QueuesInv
<1>1. ASSUME NEW c \in Callers, NEW r \in Requests, Begin(c, r)
      PROVE  MethodTypes'
  BY <1>1, EnterTypes DEF Begin, MethodTypes, TypeOK, Calls
<1>2. ASSUME NEW c \in Callers, ShutdownAll(c)
      PROVE  MethodTypes'
  BY <1>2, EnterTypes DEF ShutdownAll, MethodTypes, TypeOK, Calls
<1>3. ASSUME NEW c \in Callers,
             \/ Register(c) \/ Unregister(c) \/ ReadEntry(c) \/ UpdateStatus(c)
             \/ SetContextHandle(c) \/ Send(c) \/ Count(c)
      PROVE  MethodTypes'
  <2>1. Return(c)
    BY <1>3 DEF Register, Unregister, ReadEntry, UpdateStatus, SetContextHandle, Send, Count
  <2>. QED
    BY <2>1, ReturnTypes DEF MethodTypes, TypeOK
<1>4. ASSUME NEW c \in Callers, Lookup(c)
      PROVE  MethodTypes'
  <2>1. CASE Return(c)
    BY <2>1, ReturnTypes DEF MethodTypes, TypeOK
  <2>2. CASE ~Return(c)
    <3>1. call[c].id \in Daemons
      BY <1>4, EntryCallsHaveDaemon DEF Lookup, CallsInv, UsesEntry
    <3>2. /\ mutex_queue' = [mutex_queue EXCEPT ![call[c].id] = Append(@, c)]
          /\ pc' = [pc EXCEPT ![c] = "entry"] /\ UNCHANGED <<map_queue, call, sweep>>
      BY <1>4, <2>2 DEF Lookup
    <3>3. mutex_queue' \in [Daemons -> Seq(Callers)]
      BY <3>1, <3>2, AppendProperties DEF TypeOK
    <3>. QED
      BY <3>2, <3>3 DEF MethodTypes, TypeOK, Calls
  <2>. QED
    BY <2>1, <2>2
<1>5. ASSUME NEW c \in Callers, SignalEntry(c)
      PROVE  MethodTypes'
  <2>1. CASE Return(c)
    BY <2>1, ReturnTypes DEF MethodTypes, TypeOK
  <2>2. CASE ~Return(c)
    BY <1>5, <2>2 DEF SignalEntry, locks, MethodTypes, TypeOK, Calls
  <2>. QED
    BY <2>1, <2>2
<1>6. ASSUME NEW c \in Callers, List(c)
      PROVE  MethodTypes'
  <2>1. Release(c)
    BY <1>6 DEF List
  <2>. QED
    BY <1>6, <2>1, ReleaseTypes DEF List, MethodTypes, TypeOK
<1>7. ASSUME NEW c \in Callers, SignalNext(c)
      PROVE  MethodTypes'
  <2>1. PICK d \in sweep[c] : Enter(c, Terminate(d)) /\ sweep' = [sweep EXCEPT ![c] = @ \ {d}]
    BY <1>7 DEF SignalNext
  <2>2. sweep[c] \in SUBSET Daemons
    <3>1. pc[c] = "next"
      BY <1>7 DEF SignalNext
    <3>2. sweep[c] # None
      BY <3>1 DEF CallsInv
    <3>. QED
      BY <3>2 DEF TypeOK
  <2>3. Terminate(d) \in Calls
    BY <2>1, <2>2 DEF Calls
  <2>. QED
    BY <2>1, <2>2, <2>3, EnterTypes DEF MethodTypes, TypeOK
<1>8. ASSUME NEW c \in Callers, AllSignalled(c)
      PROVE  MethodTypes'
  <2>1. Enter(c, Counting) /\ sweep' = [sweep EXCEPT ![c] = None] /\ Counting \in Calls
    BY <1>8 DEF AllSignalled, Calls
  <2>2. sweep' \in [Callers -> (SUBSET Daemons) \cup {None}]
    BY <2>1 DEF TypeOK
  <2>. QED
    BY <2>1, <2>2, EnterTypes DEF MethodTypes
<1>9. ASSUME NEW c \in Callers, Cancel(c)
      PROVE  MethodTypes'
  <2>1. Release(c)
    BY <1>9 DEF Cancel
  <2>. QED
    <3>1. pc' = [pc EXCEPT ![c] = "idle"] /\ sweep' = [sweep EXCEPT ![c] = None]
      BY <1>9 DEF Cancel
    <3>2. /\ pc' \in [Callers -> {"idle", "map", "entry", "send", "next"}]
          /\ sweep' \in [Callers -> (SUBSET Daemons) \cup {None}]
      BY <3>1 DEF TypeOK
    <3>. QED
      BY <2>1, <3>2, ReleaseTypes DEF MethodTypes
<1>10. ASSUME UNCHANGED <<locks, methods>>
       PROVE  MethodTypes'
  BY <1>10 DEF locks, methods, MethodTypes, TypeOK, Calls
<1>11. ASSUME NEW x \in Contexts, Receive(x) \/ Exit(x)
       PROVE  MethodTypes'
  BY <1>10, <1>11 DEF Receive, Exit
<1>12. CASE UNCHANGED vars
  BY <1>10, <1>12 DEF vars
<1>. QED
  BY <1>1, <1>2, <1>3, <1>4, <1>5, <1>6, <1>7, <1>8, <1>9, <1>11, <1>12 DEF Next, Step

(* What a caller hands to the entry or to the channel.                      *)
LEMMA ArgumentTypes ==
    ASSUME NEW c, call[c] \in Calls
    PROVE  /\ call[c].op \in {"register", "unregister", "update_status", "signal",
                              "set_context_handle"} => call[c].id \in Daemons
           /\ call[c].op = "update_status" => call[c].arg \in DaemonStatus
           /\ call[c].op = "signal" => call[c].arg \in Signal
           /\ call[c].op = "set_context_handle" => call[c].arg \in Contexts
<1>1. StatusInputs \subseteq DaemonStatus /\ Signals \subseteq Signal
  BY ManagerAssumption
<1>2. "Term" \in Signal
  BY DEF Signal
<1>. QED
  BY <1>1, <1>2 DEF Calls, Requests, Listing, Counting, Terminate

LEMMA DaemonTypesStep ==
    ASSUME MInv, [Next]_vars
    PROVE  DaemonTypes'
<1> USE DEF MInv, QueuesInv
<1>1. DaemonTypes
  BY TypesSplit
<1>2. ASSUME UNCHANGED <<entries, runtime>>
      PROVE  DaemonTypes'
  BY <1>1, <1>2 DEF entries, runtime, DaemonTypes
<1>3. ASSUME NEW c \in Callers, NEW r \in Requests, Begin(c, r)
      PROVE  DaemonTypes'
  BY <1>1, <1>3 DEF Begin, entries, DaemonTypes
<1>4. ASSUME NEW c \in Callers,
             \/ ShutdownAll(c) \/ Cancel(c) \/ Lookup(c) \/ ReadEntry(c) \/ SignalEntry(c)
             \/ List(c) \/ SignalNext(c) \/ AllSignalled(c) \/ Count(c)
      PROVE  DaemonTypes'
  BY <1>2, <1>4 DEF ShutdownAll, Cancel, Lookup, ReadEntry, SignalEntry, List, SignalNext,
                    AllSignalled, Count, entries, runtime
<1>5. ASSUME NEW c \in Callers, Register(c) \/ Unregister(c)
      PROVE  DaemonTypes'
  <2>1. UNCHANGED runtime /\ call[c] \in Calls /\ call[c].op \in {"register", "unregister"}
    BY <1>5 DEF Register, Unregister, Locked, CallsInv
  <2>2. call[c].id \in Daemons
    BY <2>1, ArgumentTypes
  <2>3. \/ UNCHANGED entries
        \/ /\ registered' \in {registered \cup {call[c].id}, registered \ {call[c].id}}
           /\ status' = [status EXCEPT ![call[c].id] = "Created"]
           /\ handle' = [handle EXCEPT ![call[c].id] = None]
    BY <1>5 DEF Register, Unregister
  <2>. QED
    BY <1>1, <2>1, <2>2, <2>3 DEF entries, runtime, DaemonTypes, DaemonStatus
<1>6. ASSUME NEW c \in Callers, UpdateStatus(c)
      PROVE  DaemonTypes'
  <2>1. call[c] \in Calls /\ call[c].op = "update_status"
    BY <1>6 DEF UpdateStatus, Locked, CallsInv
  <2>. QED
    BY <1>1, <1>6, <2>1, ArgumentTypes DEF UpdateStatus, runtime, DaemonTypes
<1>7. ASSUME NEW c \in Callers, SetContextHandle(c)
      PROVE  DaemonTypes'
  <2>1. call[c] \in Calls /\ call[c].op = "set_context_handle"
    BY <1>7 DEF SetContextHandle, Locked, CallsInv
  <2>. QED
    BY <1>1, <1>7, <2>1, ArgumentTypes DEF SetContextHandle, runtime, DaemonTypes
<1>8. ASSUME NEW c \in Callers, Send(c)
      PROVE  DaemonTypes'
  <2> DEFINE x == handle[call[c].id]
  <2>1. call[c] \in Calls /\ call[c].op = "signal" /\ x # None
    BY <1>8 DEF Send, CallsInv, GrantsInv, SendingStillValid
  <2>2. x \in Contexts /\ call[c].arg \in Signal
    BY <2>1, <1>1, ArgumentTypes DEF DaemonTypes
  <2>3. /\ UNCHANGED <<entries, context, shutdown>>
        /\ \/ UNCHANGED chan
           \/ Len(chan[x]) < Capacity /\ chan' = [chan EXCEPT ![x] = Append(@, call[c].arg)]
    BY <1>8 DEF Send
  <2> HIDE DEF x
  <2>4. CASE UNCHANGED chan
    BY <1>1, <2>3, <2>4 DEF entries, DaemonTypes
  <2>5. CASE /\ Len(chan[x]) < Capacity
             /\ chan' = [chan EXCEPT ![x] = Append(@, call[c].arg)]
    <3>1. /\ Append(chan[x], call[c].arg) \in Seq(Signal)
          /\ Len(Append(chan[x], call[c].arg)) <= Capacity
      BY <1>1, <2>2, <2>5, AppendProperties, ManagerAssumption, LenProperties DEF DaemonTypes
    <3>. QED
      BY <1>1, <2>2, <2>3, <2>5, <3>1 DEF entries, DaemonTypes
  <2>. QED
    BY <2>3, <2>4, <2>5
<1>9. ASSUME NEW x \in Contexts, Receive(x)
      PROVE  DaemonTypes'
  <2>1. chan[x] \in Seq(Signal) /\ chan[x] # <<>> /\ Len(chan[x]) <= Capacity
    BY <1>1, <1>9 DEF Receive, DaemonTypes
  <2>2. /\ Tail(chan[x]) \in Seq(Signal) /\ Len(Tail(chan[x])) <= Capacity
    BY <2>1, HeadTailProperties, LenProperties, ManagerAssumption
  <2>3. /\ chan' = [chan EXCEPT ![x] = Tail(@)]
        /\ shutdown' = [shutdown EXCEPT ![x] = @ \/ Head(chan[x]) \in {"Term", "Int", "Quit"}]
        /\ UNCHANGED <<entries, context>>
    BY <1>9 DEF Receive
  <2>4. shutdown' \in [Contexts -> BOOLEAN]
    BY <1>1, <2>3 DEF DaemonTypes
  <2>. QED
    BY <1>1, <2>2, <2>3, <2>4 DEF entries, DaemonTypes
<1>10. ASSUME NEW x \in Contexts, Exit(x)
       PROVE  DaemonTypes'
  <2>1. <<>> \in Seq(Signal) /\ Len(<<>>) <= Capacity
    BY ManagerAssumption
  <2>. QED
    BY <1>1, <1>10, <2>1 DEF Exit, entries, DaemonTypes
<1>11. CASE UNCHANGED vars
  BY <1>2, <1>11 DEF vars
<1>. QED
  BY <1>3, <1>4, <1>5, <1>6, <1>7, <1>8, <1>9, <1>10, <1>11 DEF Next, Step

-----------------------------------------------------------------------------
(* Every step keeps the invariant *)

LEMMA QueuesStep ==
    ASSUME MInv, [Next]_vars
    PROVE  QueuesInv'
<1> USE DEF MInv
<1>1. ASSUME NEW c \in Callers, NEW r \in Requests, Begin(c, r)
      PROVE  QueuesInv'
  BY <1>1, EnteringKeepsQueues DEF Begin, Calls
<1>2. ASSUME NEW c \in Callers, ShutdownAll(c)
      PROVE  QueuesInv'
  BY <1>2, EnteringKeepsQueues DEF ShutdownAll, Calls
<1>3. ASSUME NEW c \in Callers, Return(c)
      PROVE  QueuesInv'
  <2> DEFINE p == IF sweep[c] = None THEN "idle" ELSE "next"
  <2>1. Release(c) /\ pc' = [pc EXCEPT ![c] = p] /\ sweep' = sweep
    BY <1>3 DEF Return
  <2>2. p \in {"idle", "next"} /\ (p = "next" => sweep'[c] # None)
    BY <2>1
  <2> HIDE DEF p
  <2>. QED
    BY <2>1, <2>2, LeavingKeepsQueues
<1>4. ASSUME NEW c \in Callers,
             \/ Register(c) \/ Unregister(c) \/ ReadEntry(c) \/ UpdateStatus(c)
             \/ SetContextHandle(c) \/ Send(c) \/ Count(c)
      PROVE  QueuesInv'
  BY <1>3, <1>4 DEF Register, Unregister, ReadEntry, UpdateStatus, SetContextHandle, Send, Count
<1>5. ASSUME NEW c \in Callers, Lookup(c)
      PROVE  QueuesInv'
  <2>1. CASE Return(c)
    BY <2>1, <1>3
  <2>2. CASE ~Return(c)
    BY <1>5, <2>2, LookupKeepsQueues DEF Lookup, UsesEntry
  <2>. QED
    BY <2>1, <2>2
<1>6. ASSUME NEW c \in Callers, SignalEntry(c)
      PROVE  QueuesInv'
  <2>1. CASE Return(c)
    BY <2>1, <1>3
  <2>2. CASE ~Return(c)
    BY <1>6, <2>2, StayingKeepsQueues DEF SignalEntry
  <2>. QED
    BY <2>1, <2>2
<1>7. ASSUME NEW c \in Callers, List(c)
      PROVE  QueuesInv'
  <2>1. /\ Release(c) /\ pc' = [pc EXCEPT ![c] = "next"]
        /\ sweep' = [sweep EXCEPT ![c] = registered]
    BY <1>7 DEF List
  <2>2. registered # None
    BY ManagerAssumption DEF TypeOK
  <2>. QED
    BY <2>1, <2>2, LeavingKeepsQueues DEF TypeOK
<1>8. ASSUME NEW c \in Callers, SignalNext(c)
      PROVE  QueuesInv'
  <2>1. PICK d \in sweep[c] : Enter(c, Terminate(d)) /\ sweep' = [sweep EXCEPT ![c] = @ \ {d}]
    BY <1>8 DEF SignalNext
  <2>2. pc[c] = "next"
    BY <1>8 DEF SignalNext
  <2>3. sweep[c] # None
    BY <2>2 DEF QueuesInv, CallsInv
  <2>4. Terminate(d) \in Calls
    BY <2>1, <2>3 DEF Calls, TypeOK
  <2>. QED
    BY <2>1, <2>2, <2>4, EnteringKeepsQueues DEF TypeOK
<1>9. ASSUME NEW c \in Callers, AllSignalled(c)
      PROVE  QueuesInv'
  BY <1>9, EnteringKeepsQueues DEF AllSignalled, Calls, TypeOK
<1>10. ASSUME NEW c \in Callers, Cancel(c)
       PROVE  QueuesInv'
  BY <1>10, LeavingKeepsQueues DEF Cancel, TypeOK
<1>11. ASSUME UNCHANGED <<locks, methods>>
       PROVE  QueuesInv'
  BY <1>11, StayingKeepsQueues DEF methods
<1>12. ASSUME NEW x \in Contexts, Receive(x) \/ Exit(x)
       PROVE  QueuesInv'
  BY <1>11, <1>12 DEF Receive, Exit
<1>13. CASE UNCHANGED vars
  BY <1>11, <1>13 DEF vars
<1>. QED
  BY <1>1, <1>2, <1>4, <1>5, <1>6, <1>7, <1>8, <1>9, <1>10, <1>12, <1>13 DEF Next, Step

(* While a caller holds the map's write lock nobody else holds it.          *)
LEMMA WriterIsAlone ==
    ASSUME MInv, NEW c \in Callers, NEW e \in Callers, AtEntry(c), AtEntry(e), WritesMap(c)
    PROVE  e = c
<1>1. HasMap(c) /\ HasMap(e)
  BY DEF MInv, QueuesInv, GrantsInv
<1>2. PICK n \in DOMAIN map_queue :
          /\ map_queue[n] = e
          /\ IF WritesMap(e) THEN n = 1 ELSE \A j \in 1..n : ~WritesMap(map_queue[j])
  BY <1>1 DEF HasMap
<1>3. map_queue[1] = c /\ n \in Nat \ {0}
  BY <1>1, <1>2, LenProperties DEF HasMap, MInv, TypeOK
<1>4. CASE WritesMap(e)
  BY <1>2, <1>3, <1>4
<1>5. CASE ~WritesMap(e)
  <2>1. 1 \in 1..n
    BY <1>3
  <2>. QED
    BY <1>2, <1>3, <1>5, <2>1
<1>. QED
  BY <1>4, <1>5

\* What the entry's users rely on.
UsersSafe == UsersInv /\ SendingStillValid

(* A step of c that keeps c off the entries, and leaves to the other        *)
(* callers the entries they use, keeps all users safe.                      *)
LEMMA OthersStaySafe ==
    ASSUME MInv, NEW c \in Callers, pc'[c] \notin {"entry", "send"},
           \A e \in Callers : e # c => call'[e] = call[e] /\ pc'[e] = pc[e],
           \A e \in Callers : e # c /\ AtEntry(e) =>
               LET d == call[e].id IN
               /\ d \in registered'
               /\ pc[e] = "send" => status'[d] = status[d] /\ handle'[d] = handle[d]
    PROVE  UsersSafe'
  BY DEF MInv, UsersSafe, UsersInv, SendingStillValid, AtEntry

LEMMA UsersStep ==
    ASSUME MInv, [Next]_vars
    PROVE  UsersSafe'
<1> USE DEF MInv
<1>1. ASSUME NEW c \in Callers, UNCHANGED entries, pc'[c] \notin {"entry", "send"},
             \A e \in Callers : e # c => call'[e] = call[e] /\ pc'[e] = pc[e]
      PROVE  UsersSafe'
  BY <1>1, OthersStaySafe DEF entries, UsersInv
<1>2. ASSUME NEW c \in Callers, NEW r, Enter(c, r)
      PROVE  /\ pc'[c] = "map"
             /\ \A e \in Callers : e # c => call'[e] = call[e] /\ pc'[e] = pc[e]
  BY <1>2 DEF Enter, TypeOK
<1>3. ASSUME NEW c \in Callers, Return(c)
      PROVE  /\ pc'[c] \in {"idle", "next"}
             /\ \A e \in Callers : e # c => call'[e] = call[e] /\ pc'[e] = pc[e]
  BY <1>3 DEF Return, Release, TypeOK
<1>4. ASSUME NEW c \in Callers,
             \/ \E r \in Requests : Begin(c, r)
             \/ ShutdownAll(c) \/ SignalNext(c) \/ AllSignalled(c)
      PROVE  UsersSafe'
  <2>1. UNCHANGED entries /\ \E r : Enter(c, r)
    BY <1>4 DEF Begin, ShutdownAll, SignalNext, AllSignalled
  <2>2. /\ pc'[c] = "map"
        /\ \A e \in Callers : e # c => call'[e] = call[e] /\ pc'[e] = pc[e]
    BY <1>2, <2>1
  <2>. QED
    BY <1>1, <2>1, <2>2
<1>5. ASSUME NEW c \in Callers, ReadEntry(c) \/ Send(c) \/ Count(c)
      PROVE  UsersSafe'
  <2>1. UNCHANGED entries /\ Return(c)
    BY <1>5 DEF ReadEntry, Send, Count
  <2>. QED
    BY <1>1, <1>3, <2>1
<1>6. ASSUME NEW c \in Callers, List(c) \/ Cancel(c)
      PROVE  UsersSafe'
  <2>1. /\ UNCHANGED entries /\ pc'[c] \in {"idle", "next"}
        /\ \A e \in Callers : e # c => call'[e] = call[e] /\ pc'[e] = pc[e]
    BY <1>6 DEF List, Cancel, Release, TypeOK
  <2>. QED
    BY <1>1, <2>1
<1>7. ASSUME NEW c \in Callers, Register(c)
      PROVE  UsersSafe'
  <2>1. Return(c)
    BY <1>7 DEF Register
  <2>2. \/ UNCHANGED entries
        \/ /\ call[c].id \notin registered
           /\ registered' = registered \cup {call[c].id}
           /\ status' = [status EXCEPT ![call[c].id] = "Created"]
           /\ handle' = [handle EXCEPT ![call[c].id] = None]
    BY <1>7 DEF Register
  <2>3. ASSUME NEW e \in Callers, e # c, AtEntry(e)
        PROVE  LET d == call[e].id IN
               d \in registered' /\ status'[d] = status[d] /\ handle'[d] = handle[d]
    <3>1. call[e].id \in registered /\ call[e].id \in Daemons
      BY <2>3 DEF UsersInv, TypeOK
    <3>. QED
      BY <2>2, <3>1 DEF entries, TypeOK
  <2>. QED
    BY <1>3, <2>1, <2>3, OthersStaySafe
<1>8. ASSUME NEW c \in Callers, Unregister(c)
      PROVE  UsersSafe'
  <2>1. Return(c) /\ AtEntry(c) /\ WritesMap(c)
    BY <1>8 DEF Unregister, Locked, AtEntry, WritesMap
  <2>2. \A e \in Callers : AtEntry(e) => e = c
    BY <2>1, WriterIsAlone
  <2>. QED
    BY <1>3, <2>1, <2>2, OthersStaySafe
<1>9. ASSUME NEW c \in Callers, UpdateStatus(c) \/ SetContextHandle(c)
      PROVE  UsersSafe'
  <2>1. Return(c) /\ HasEntry(c) /\ pc[c] = "entry"
    BY <1>9 DEF UpdateStatus, SetContextHandle, Locked
  <2>2. /\ registered' = registered
        /\ \A d \in Daemons : d # call[c].id => status'[d] = status[d] /\ handle'[d] = handle[d]
    BY <1>9 DEF UpdateStatus, SetContextHandle, TypeOK
  <2>3. ASSUME NEW e \in Callers, e # c, AtEntry(e)
        PROVE  LET d == call[e].id IN
               /\ d \in registered'
               /\ pc[e] = "send" => status'[d] = status[d] /\ handle'[d] = handle[d]
    <3>1. call[e].id \in registered /\ call[e].id \in Daemons
      BY <2>3 DEF UsersInv, TypeOK
    <3>2. pc[e] = "send" => call[e].id # call[c].id
      BY <2>1, <2>3 DEF QueuesInv, GrantsInv, HasEntry
    <3>. QED
      BY <2>2, <3>1, <3>2
  <2>. QED
    BY <1>3, <2>1, <2>3, OthersStaySafe
<1>10. ASSUME NEW c \in Callers, Lookup(c)
       PROVE  UsersSafe'
  <2>1. CASE Return(c)
    BY <1>1, <1>3, <1>10, <2>1 DEF Lookup
  <2>2. CASE ~Return(c)
    <3>1. /\ call[c].id \in registered /\ pc' = [pc EXCEPT ![c] = "entry"]
          /\ call' = call /\ UNCHANGED entries
      BY <1>10, <2>2 DEF Lookup
    <3>. QED
      BY <3>1 DEF entries, UsersSafe, UsersInv, SendingStillValid, AtEntry, TypeOK
  <2>. QED
    BY <2>1, <2>2
<1>11. ASSUME NEW c \in Callers, SignalEntry(c)
       PROVE  UsersSafe'
  <2>1. CASE Return(c)
    BY <1>1, <1>3, <1>11, <2>1 DEF SignalEntry
  <2>2. CASE ~Return(c)
    <3>1. /\ AtEntry(c) /\ CanSignal(status[call[c].id]) /\ handle[call[c].id] # None
          /\ pc' = [pc EXCEPT ![c] = "send"] /\ call' = call /\ UNCHANGED entries
      BY <1>11, <2>2 DEF SignalEntry, Locked, AtEntry
    <3>. QED
      BY <3>1 DEF entries, UsersSafe, UsersInv, SendingStillValid, AtEntry, TypeOK
  <2>. QED
    BY <2>1, <2>2
<1>12. ASSUME UNCHANGED <<entries, methods>>
       PROVE  UsersSafe'
  BY <1>12 DEF entries, methods, UsersSafe, UsersInv, SendingStillValid, AtEntry
<1>13. ASSUME NEW x \in Contexts, Receive(x) \/ Exit(x)
       PROVE  UsersSafe'
  BY <1>12, <1>13 DEF Receive, Exit
<1>14. CASE UNCHANGED vars
  BY <1>12, <1>14 DEF vars
<1>. QED
  BY <1>4, <1>5, <1>6, <1>7, <1>8, <1>9, <1>10, <1>11, <1>13, <1>14 DEF Next, Step

-----------------------------------------------------------------------------

LEMMA Invariance == Spec => []MInv
<1>1. Init => MInv
  <2> SUFFICES ASSUME Init PROVE MInv
    OBVIOUS
  <2>1. DaemonTypes
    BY ManagerAssumption DEF Init, DaemonTypes, DaemonStatus
  <2>2. MethodTypes
    BY DEF Init, MethodTypes
  <2>3. QueuesInv
    BY DEF Init, QueuesInv, PlacesInv, CallsInv, GrantsInv, Once, Waits, AtEntry
  <2>. QED
    BY <2>1, <2>2, <2>3, TypesSplit
       DEF Init, MInv, UsersInv, SendingStillValid, AtEntry
<1>2. MInv /\ [Next]_vars => MInv'
  <2> SUFFICES ASSUME MInv, [Next]_vars PROVE MInv'
    OBVIOUS
  <2>1. MethodTypes' /\ DaemonTypes'
    BY MethodTypesStep, DaemonTypesStep DEF MInv
  <2>2. TypeOK'
    BY <2>1 DEF TypeOK, MethodTypes, DaemonTypes, Calls
  <2>. QED
    BY <2>2, QueuesStep, UsersStep DEF MInv, UsersSafe
<1>. QED
  BY <1>1, <1>2, PTL DEF Spec

(* The variables of the manager, its callers and the contexts keep their    *)
(* types; no signal channel holds more than its capacity (manager.rs l.346, *)
(* daemon.rs l.142).                                                        *)
THEOREM ManagerTypeCorrect == Spec => []TypeOK
<1>1. MInv => TypeOK
  BY DEF MInv
<1>. QED
  BY <1>1, Invariance, PTL

(* unregister waits for the map's write lock (l.279), so a method that      *)
(* waits for an entry or works on it (l.338-346) works on one that is still *)
(* in the map.                                                              *)
THEOREM UsersHaveEntries == Spec => []UsersInv
<1>1. MInv => UsersInv
  BY DEF MInv
<1>. QED
  BY <1>1, Invariance, PTL

(* However many callers and daemons: when signal() has waited for room in   *)
(* the channel (l.346), the daemon is still in the map, takes signals and   *)
(* has the handle it is sent through.                                       *)
THEOREM SendsStayValid == Spec => []SendingStillValid
<1>1. MInv => SendingStillValid
  BY DEF MInv
<1>. QED
  BY <1>1, Invariance, PTL

(* No step of any caller takes an active daemon out of the map (unregister, *)
(* l.278-298).                                                              *)
THEOREM ActiveStayRegistered == Spec => ActiveStaysRegistered
<1>1. MInv /\ [Next]_vars =>
          [\A d \in registered : IsActive(status[d]) => d \in registered']_vars
  <2> SUFFICES ASSUME MInv, [Next]_vars, NEW d \in registered, IsActive(status[d])
               PROVE  d \in registered'
    OBVIOUS
  <2>1. ASSUME NEW c \in Callers, Unregister(c)
        PROVE  d \in registered'
    BY <2>1 DEF Unregister, entries
  <2>2. ASSUME NEW c \in Callers, Register(c)
        PROVE  d \in registered'
    BY <2>2 DEF Register, entries
  <2>3. CASE registered' = registered
    BY <2>3
  <2>4. \/ registered' = registered
        \/ \E c \in Callers : Register(c) \/ Unregister(c)
    BY DEF Next, Step, vars, entries, Begin, ShutdownAll, Cancel, Lookup, ReadEntry,
           UpdateStatus, SetContextHandle, SignalEntry, Send, List, SignalNext, AllSignalled,
           Count, Receive, Exit
  <2>. QED
    BY <2>1, <2>2, <2>3, <2>4
<1>. QED
  BY <1>1, Invariance, PTL DEF Spec, ActiveStaysRegistered

=============================================================================
