----------------------------- MODULE UblkProofs -----------------------------
(***************************************************************************)
(* The ublk control ring and the orphan cleanup that runs over it, for     *)
(* every set of devices and command tags.                                  *)
(***************************************************************************)
EXTENDS UblkCleanup, FiniteSetTheorems, TLAPS

Waiting == pc \in {"check", "elapsed", "block"}

LEMMA CommandIn ==
    ASSUME NEW tag \in Tags, NEW op \in {"STOP", "DEL", "INFO"}, NEW d \in Devices
    PROVE  [tag |-> tag, op |-> op, dev |-> d] \in Commands
BY DEF Commands

LEMMA ResultIn == ASSUME NEW c PROVE Result(c) \in {"ok", "ENOENT", "EBUSY"}
BY DEF Result

LEMMA FreeTagsAreTags == FreeTags \subseteq Tags
BY DEF FreeTags

(* What each method does first: send a command for d and wait for it.       *)
LEMMA Starts ==
    ASSUME TypeOK, NEW d \in Devices,
           DeleteDevice(d) \/ StopDevice(d) \/ ForceDelete(d) \/ GetDeviceInfo(d)
    PROVE  /\ pc = "idle" /\ pc' \in {"check", "block"}
           /\ cmd' \in Commands /\ inflight' = inflight \cup {cmd'}
           /\ method' \in Method
           /\ answer' = None /\ UNCHANGED <<device, cq>>
BY FreeTagsAreTags, CommandIn DEF Method, DeleteDevice, StopDevice, ForceDelete, GetDeviceInfo, Call, Submit

LEMMA StartsAgain ==
    ASSUME TypeOK, ForceDeleteNext
    PROVE  /\ pc = "delete_next" /\ pc' = "check"
           /\ cmd' \in Commands /\ inflight' = inflight \cup {cmd'}
           /\ UNCHANGED <<device, cq, method, answer>>
<1>1. pc = "delete_next" /\ method.dev \in Devices /\ UNCHANGED <<device, cq, method, answer>>
  BY DEF ForceDeleteNext, TypeOK, Method
<1> QED
  BY <1>1, FreeTagsAreTags, CommandIn DEF ForceDeleteNext, Submit

(* What taking a completion, or giving up on it, does to the caller.        *)
LEMMA Proceeds ==
    ASSUME TypeOK, Waiting, Proceed
    PROVE  /\ cmd' = None
           /\ \/ pc' = "delete_next" /\ method' = method
              \/ pc' = "idle" /\ method' = None
BY DEF Proceed

LEMMA Consumes ==
    ASSUME TypeOK, Waiting, Consume
    PROVE  /\ cq # <<>> /\ Head(cq) \in Completions
           /\ cq' = Tail(cq) /\ cq' \in Seq(Completions)
           /\ answer' = [asked |-> cmd, got |-> Head(cq)]
           /\ answer' \in [asked: Commands, got: Completions]
           /\ Proceed /\ UNCHANGED kernel
BY DEF Consume, TypeOK, Waiting

LEMMA Completes ==
    ASSUME TypeOK, NEW c \in inflight, Complete(c)
    PROVE  /\ c \in Commands /\ inflight' = inflight \ {c}
           /\ [cmd |-> c, res |-> Result(c)] \in Completions
           /\ cq' = Append(cq, [cmd |-> c, res |-> Result(c)])
           /\ cq' \in Seq(Completions)
           /\ device' \in [Devices -> DeviceState]
           /\ UNCHANGED caller
<1>1. c \in Commands /\ c.dev \in Devices
  BY DEF TypeOK, Commands
<1>2. [cmd |-> c, res |-> Result(c)] \in Completions
  BY <1>1, ResultIn DEF Completions
<1>3. device' \in [Devices -> DeviceState]
  BY <1>1 DEF Complete, TypeOK, DeviceState
<1> QED
  BY <1>1, <1>2, <1>3 DEF Complete, TypeOK

LEMMA TypeStep == TypeOK /\ [Next]_vars => TypeOK'
<1> SUFFICES ASSUME TypeOK, [Next]_vars PROVE TypeOK'
  OBVIOUS
<1>1. ASSUME NEW d \in Devices,
             DeleteDevice(d) \/ StopDevice(d) \/ ForceDelete(d) \/ GetDeviceInfo(d)
      PROVE  TypeOK'
  BY <1>1, Starts, NoneAssumption DEF TypeOK
<1>2. CASE ForceDeleteNext
  BY <1>2, StartsAgain, NoneAssumption DEF TypeOK
<1>3. CASE Waiting /\ Consume
  BY <1>3, Consumes, Proceeds DEF TypeOK, kernel, Waiting
<1>4. CASE CheckCompletion /\ ~Consume
  BY <1>4 DEF CheckCompletion, TypeOK, kernel
<1>5. CASE LookAgain
  BY <1>5 DEF LookAgain, TypeOK, kernel
<1>6. CASE GiveUp
  <2>1. Waiting /\ Proceed /\ UNCHANGED <<kernel, cq, answer>>
    BY <1>6 DEF GiveUp, Waiting
  <2> QED
    BY <2>1, Proceeds DEF TypeOK, kernel, Waiting
<1>7. ASSUME NEW c \in inflight, Complete(c) PROVE TypeOK'
  BY <1>7, Completes DEF TypeOK, caller
<1>8. ASSUME NEW d \in Devices, Daemon(d) PROVE TypeOK'
  BY <1>8 DEF Daemon, DaemonMoves, TypeOK, DeviceState, caller
<1>9. CASE UNCHANGED vars
  BY <1>9 DEF vars, kernel, caller, TypeOK
<1> QED
  BY <1>1, <1>2, <1>3, <1>4, <1>5, <1>6, <1>7, <1>8, <1>9
     DEF Next, Continue, CheckCompletion, TakeInfo, Waiting

(* Type correctness of the ring and its caller (control.rs l.32-38).        *)
THEOREM UblkTypeCorrect == Spec => []TypeOK
<1>1. Init => TypeOK
  BY DEF Init, TypeOK
<1> QED
  BY <1>1, TypeStep, PTL DEF Spec

-----------------------------------------------------------------------------
(* A method never waits for nothing.                                        *)

LEMMA WaitersStep == TypeOK /\ WaitersAreAnswered /\ [Next]_vars => WaitersAreAnswered'
<1> SUFFICES ASSUME TypeOK, WaitersAreAnswered, [Next]_vars PROVE WaitersAreAnswered'
  OBVIOUS
<1>1. ASSUME NEW d \in Devices,
             DeleteDevice(d) \/ StopDevice(d) \/ ForceDelete(d) \/ GetDeviceInfo(d)
      PROVE  WaitersAreAnswered'
  BY <1>1, Starts DEF WaitersAreAnswered
<1>2. CASE ForceDeleteNext
  BY <1>2, StartsAgain DEF WaitersAreAnswered
<1>3. CASE Waiting /\ Consume
  BY <1>3, Consumes, Proceeds DEF WaitersAreAnswered
<1>4. CASE CheckCompletion /\ ~Consume
  BY <1>4 DEF CheckCompletion, WaitersAreAnswered, kernel
<1>5. CASE LookAgain
  BY <1>5 DEF LookAgain, WaitersAreAnswered, kernel
<1>6. CASE GiveUp
  BY <1>6, Proceeds DEF GiveUp, Waiting, WaitersAreAnswered
<1>7. ASSUME NEW c \in inflight, Complete(c) PROVE WaitersAreAnswered'
  <2>1. /\ cq \in Seq(Completions) /\ [cmd |-> c, res |-> Result(c)] \in Completions
        /\ cq' = Append(cq, [cmd |-> c, res |-> Result(c)])
    BY <1>7, Completes DEF TypeOK
  <2>2. Len(cq') = Len(cq) + 1 /\ Len(cq) \in Nat
    BY <2>1
  <2>3. cq' # <<>>
    BY <2>2
  <2> QED
    BY <2>3 DEF WaitersAreAnswered
<1>8. ASSUME NEW d \in Devices, Daemon(d) PROVE WaitersAreAnswered'
  BY <1>8 DEF Daemon, DaemonMoves, WaitersAreAnswered, caller
<1>9. CASE UNCHANGED vars
  BY <1>9 DEF vars, kernel, caller, WaitersAreAnswered
<1> QED
  BY <1>1, <1>2, <1>3, <1>4, <1>5, <1>6, <1>7, <1>8, <1>9
     DEF Next, Continue, CheckCompletion, TakeInfo, Waiting

(* Whatever earlier timeouts left behind, the wait without a timeout of     *)
(* get_device_info (control.rs l.131), like every other wait, has a         *)
(* completion to come or one already there.                                 *)
THEOREM WaitsAreAnswered == Spec => []WaitersAreAnswered
<1>1. Init => WaitersAreAnswered
  BY DEF Init, WaitersAreAnswered
<1> QED
  BY <1>1, WaitersStep, UblkTypeCorrect, PTL DEF Spec

-----------------------------------------------------------------------------
(* While no command times out, the ring holds the command of the method     *)
(* that waits, or its completion, and nothing else.                         *)

AnsweredBy(c) == \E r \in {"ok", "ENOENT", "EBUSY"} : cq = <<[cmd |-> c, res |-> r]>>

OneAtATime ==
    IF Waiting THEN \/ inflight = {cmd} /\ cq = <<>>
                    \/ inflight = {} /\ AnsweredBy(cmd)
               ELSE inflight = {} /\ cq = <<>>

OwnInv == TypeOK /\ OneAtATime /\ AnswerIsOwn

LEMMA OwnStep == ASSUME ~KernelMayStall PROVE OwnInv /\ [Next]_vars => OwnInv'
<1> SUFFICES ASSUME OwnInv, [Next]_vars PROVE OneAtATime' /\ AnswerIsOwn'
  BY TypeStep DEF OwnInv
<1>1. ASSUME NEW d \in Devices,
             DeleteDevice(d) \/ StopDevice(d) \/ ForceDelete(d) \/ GetDeviceInfo(d)
      PROVE  OneAtATime' /\ AnswerIsOwn'
  <2>1. ~Waiting /\ Waiting' /\ cq' = <<>> /\ inflight' = {cmd'} /\ answer' = None
    BY <1>1, Starts DEF OwnInv, OneAtATime, Waiting
  <2> QED
    BY <2>1 DEF OneAtATime, AnswerIsOwn
<1>2. CASE ForceDeleteNext
  <2>1. ~Waiting /\ Waiting' /\ cq' = <<>> /\ inflight' = {cmd'} /\ answer' = answer
    BY <1>2, StartsAgain DEF OwnInv, OneAtATime, Waiting
  <2> QED
    BY <2>1 DEF OneAtATime, AnswerIsOwn, OwnInv
<1>3. CASE Waiting /\ Consume
  <2>1. /\ cq # <<>> /\ cq' = Tail(cq) /\ answer' = [asked |-> cmd, got |-> Head(cq)]
        /\ inflight' = inflight /\ ~Waiting'
    BY <1>3, Consumes, Proceeds DEF OwnInv, Waiting, kernel
  <2>2. inflight = {} /\ AnsweredBy(cmd)
    BY <1>3, <2>1 DEF OwnInv, OneAtATime
  <2>3. cq' = <<>> /\ answer'.got.cmd = answer'.asked
    BY <2>1, <2>2 DEF AnsweredBy
  <2> QED
    BY <2>1, <2>2, <2>3 DEF OneAtATime, AnswerIsOwn
<1>4. CASE (CheckCompletion /\ ~Consume) \/ LookAgain
  <2>1. Waiting /\ Waiting' /\ UNCHANGED <<inflight, cq, cmd, answer>>
    BY <1>4 DEF CheckCompletion, LookAgain, Waiting, kernel
  <2> QED
    BY <2>1 DEF OwnInv, OneAtATime, AnsweredBy, AnswerIsOwn
<1>5. CASE GiveUp
  BY <1>5 DEF GiveUp
<1>6. ASSUME NEW c \in inflight, Complete(c) PROVE OneAtATime' /\ AnswerIsOwn'
  <2>1. /\ inflight' = inflight \ {c} /\ cq' = Append(cq, [cmd |-> c, res |-> Result(c)])
        /\ UNCHANGED <<cmd, pc, answer>>
    BY <1>6, Completes DEF OwnInv, caller
  <2>2. Waiting /\ inflight = {cmd} /\ cq = <<>> /\ c = cmd
    BY <1>6 DEF OwnInv, OneAtATime
  <2>3. inflight' = {} /\ cq' = <<[cmd |-> cmd', res |-> Result(c)]>>
    BY <2>1, <2>2
  <2> QED
    BY <2>1, <2>2, <2>3, ResultIn DEF OneAtATime, AnsweredBy, Waiting, OwnInv, AnswerIsOwn
<1>7. CASE (\E d \in Devices : Daemon(d)) \/ UNCHANGED vars
  <2>1. UNCHANGED <<inflight, cq, cmd, pc, answer>>
    BY <1>7 DEF Daemon, DaemonMoves, vars, kernel, caller
  <2> QED
    BY <2>1 DEF OwnInv, OneAtATime, AnsweredBy, AnswerIsOwn, Waiting
<1> QED
  BY <1>1, <1>2, <1>3, <1>4, <1>5, <1>6, <1>7
     DEF Next, Continue, CheckCompletion, TakeInfo, Waiting

(* Taking the first completion (control.rs l.133, l.180) is right as long   *)
(* as every earlier command was waited for: a method gets its own answer.   *)
THEOREM AnswersAreOwn == ASSUME ~KernelMayStall PROVE Spec => []AnswerIsOwn
<1>1. Init => OwnInv
  BY DEF Init, OwnInv, TypeOK, OneAtATime, AnswerIsOwn, Waiting
<1>2. OwnInv => AnswerIsOwn
  BY DEF OwnInv
<1> QED
  BY <1>1, <1>2, OwnStep, PTL DEF Spec

(* Hence, still without timeouts, "Ok(true) if command succeeded"           *)
(* (control.rs l.403) is true of delete_device and force_delete.            *)
THEOREM DeletedIsGone == ASSUME ~KernelMayStall PROVE Spec => []DeletedMeansGone
<1>1. OwnInv => DeletedMeansGone
  BY DEF OwnInv, AnswerIsOwn, DeletedMeansGone
<1>2. Init => OwnInv
  BY DEF Init, OwnInv, TypeOK, OneAtATime, AnswerIsOwn, Waiting
<1> QED
  BY <1>1, <1>2, OwnStep, PTL DEF Spec

-----------------------------------------------------------------------------
(* The cleanup.  Its steps are steps of the ring, so that, while the kernel *)
(* answers in time, the ring holds only the command it waits for.  What it  *)
(* owes is kept in three relations, between the kernel's devices and the    *)
(* list of devices still to be deleted.                                     *)

\* force_delete is the only method the cleanup uses.
ForcesDeletes ==
    /\ method # None => method.name = "force_delete" /\ pc \in {"check", "elapsed", "delete_next"}
    /\ cmd # None => cmd.op \in {"STOP", "DEL"} /\ cmd.dev = method.dev
    /\ phase \in {"scan", "done"} => method = None

\* The force_delete under way has yet to delete d,
ToDelete(d) ==
    /\ method # None /\ method.dev = d
    /\ cmd # None => cmd.op = "STOP" \/ cmd \in inflight

\* or it is on the list, or the scan has yet to put it there.
Pending(d) == \/ phase = "scan" /\ d \in unscanned
              \/ phase # "done" /\ (d \in todo \/ ToDelete(d))

OrphansPending == \A d \in orphaned : device[d] = "dead" /\ (d \in Reached => Pending(d))

\* Only the fallback range lists a device that has been live all along.
SteadyUntouched ==
    \A d \in steady : /\ device[d] = "live"
                      /\ phase # "range" => d \notin todo
                      /\ method # None => method.dev # d

\* The successful DEL_DEV the cleanup has not looked at yet.
Unseen == cq # <<>> /\ Head(cq).cmd.op = "DEL" /\ Head(cq).res = "ok"

AllCounted == deleted = IF Unseen THEN cleaned + 1 ELSE cleaned

CTypes ==
    /\ phase \in {"scan", "orphans", "range", "done"}
    /\ unscanned \subseteq Devices /\ todo \subseteq Devices
    /\ cleaned \in Nat /\ deleted \in Nat /\ scanned \in BOOLEAN
    /\ orphaned \subseteq Devices /\ steady \subseteq Devices
    /\ phase = "done" => todo = {}
    /\ phase # "scan" => unscanned = {}

CleanupInv ==
    OwnInv /\ CTypes /\ ForcesDeletes /\ OrphansPending /\ SteadyUntouched /\ AllCounted

(* A step of the cleanup is a step of the ring, or leaves it alone.         *)
LEMMA CleanupStepsAreRings == [CNext]_cvars => [Next]_vars
BY DEF CNext, Cleanup, Scan, ScanFails, ScanEnds, CleanNext, RangeNext, CleanupEnds, CContinue, CComplete, CDaemon,
       Next, cvars

(* What a completion does to the device of its command, and to no other.    *)
LEMMA CompletionActs ==
    ASSUME TypeOK, NEW c \in inflight, Complete(c)
    PROVE  /\ \A d \in Devices : d # c.dev => device'[d] = device[d]
           /\ c.op = "DEL" /\ Result(c) = "ok" => device[c.dev] # "live"
           /\ device[c.dev] = "dead" =>
                 /\ Result(c) = "ok"
                 /\ c.op # "DEL" => device'[c.dev] = "dead"
           /\ c.dev \in Devices
<1>1. c.dev \in Devices /\ device \in [Devices -> DeviceState] /\ c.op \in {"STOP", "DEL", "INFO"}
  BY DEF TypeOK, Commands
<1> QED
  BY <1>1 DEF Complete, Result

(* While the kernel answers in time, the ring of a waiting cleanup holds    *)
(* one command or one completion.                                           *)
LEMMA RingHolds ==
    ASSUME OwnInv
    PROVE  /\ ~Waiting => inflight = {} /\ cq = <<>>
           /\ inflight # {} => Waiting /\ inflight = {cmd} /\ cq = <<>>
           /\ cq # <<>> => /\ Waiting /\ inflight = {} /\ Tail(cq) = <<>>
                           /\ Head(cq).cmd = cmd /\ Head(cq) \in Completions
<1>1. cq # <<>> => Waiting /\ inflight = {} /\ AnsweredBy(cmd) /\ cq \in Seq(Completions)
  BY DEF OwnInv, OneAtATime, TypeOK
<1>2. AnsweredBy(cmd) => Tail(cq) = <<>> /\ Head(cq).cmd = cmd
  BY DEF AnsweredBy
<1>3. cq # <<>> => Head(cq) \in Completions
  BY <1>1
<1> QED
  BY <1>1, <1>2, <1>3 DEF OwnInv, OneAtATime

-----------------------------------------------------------------------------

(* The cleanup's next force_delete, from the list or from the range.        *)
LEMMA CleaningKeeps ==
    ASSUME CleanupInv, NEW d \in Devices, d \in todo, phase \in {"orphans", "range"},
           ForceDelete(d), d \notin steady, todo' = todo \ {d},
           UNCHANGED <<phase, unscanned, cleaned, history>>
    PROVE  CTypes' /\ ForcesDeletes' /\ OrphansPending' /\ SteadyUntouched' /\ AllCounted'
<1>1. /\ pc = "idle" /\ method = None /\ pc' = "check" /\ inflight' = inflight \cup {cmd'}
      /\ cmd' # None /\ cmd'.op = "STOP" /\ cmd'.dev = d /\ UNCHANGED <<device, cq>>
      /\ method' # None /\ method'.name = "force_delete" /\ method'.dev = d
  <2>1. pc = "idle" /\ method' = [name |-> "force_delete", dev |-> d] /\ pc' = "check"
    BY DEF ForceDelete, Call, Submit
  <2>2. cmd' \in Commands /\ inflight' = inflight \cup {cmd'} /\ method' \in Method /\ UNCHANGED <<device, cq>>
    BY Starts DEF CleanupInv, OwnInv
  <2>3. cmd'.op = "STOP" /\ cmd'.dev = d
    BY DEF ForceDelete, Submit
  <2> QED
    BY <2>1, <2>2, <2>3, NoneAssumption DEF CleanupInv, OwnInv, TypeOK
<1>2. CTypes'
  BY DEF CleanupInv, CTypes, history
<1>3. ForcesDeletes'
  BY <1>1 DEF CleanupInv, ForcesDeletes
<1>4. OrphansPending'
  <2> SUFFICES ASSUME NEW o \in orphaned' PROVE device'[o] = "dead" /\ (o \in Reached' => Pending(o)')
    BY DEF OrphansPending
  <2>1. o \in orphaned /\ device[o] = "dead" /\ Reached' = Reached
    BY <1>1 DEF CleanupInv, OrphansPending, Reached, history
  <2>2. o \in Reached => o \in todo
    BY <1>1, <2>1 DEF CleanupInv, OrphansPending, Pending, ToDelete
  <2> QED
    BY <1>1, <2>1, <2>2 DEF Pending, ToDelete
<1>5. SteadyUntouched'
  BY <1>1 DEF CleanupInv, SteadyUntouched, history
<1>6. AllCounted'
  BY <1>1 DEF CleanupInv, AllCounted, Unseen, history
<1> QED
  BY <1>2, <1>3, <1>4, <1>5, <1>6

(* The second half of force_delete, the looks at the ring, and the answer.  *)
LEMMA ContinuingKeeps ==
    ASSUME ~KernelMayStall, CleanupInv, CContinue
    PROVE  CTypes' /\ ForcesDeletes' /\ OrphansPending' /\ SteadyUntouched' /\ AllCounted'
<1>0. TypeOK /\ OwnInv /\ Continue /\ UNCHANGED <<progress, history>>
  BY DEF CContinue, CleanupInv, OwnInv
<1>1. CASE ForceDeleteNext
  <2>1. /\ pc = "delete_next" /\ pc' = "check" /\ inflight' = inflight \cup {cmd'}
        /\ cmd' # None /\ cmd'.op = "DEL" /\ cmd'.dev = method.dev /\ cmd' \in inflight'
        /\ method # None /\ UNCHANGED <<device, cq, method>>
    BY <1>0, <1>1, StartsAgain, NoneAssumption DEF ForceDeleteNext, Submit, TypeOK
  <2>2. cleaned' = cleaned
    BY <2>1 DEF CContinue, Counts
  <2> QED
    BY <1>0, <2>1, <2>2 DEF CleanupInv, CTypes, ForcesDeletes, OrphansPending, Reached, Pending, ToDelete,
       SteadyUntouched, AllCounted, Unseen, progress, history
<1>2. CASE Waiting /\ Consume
  <2>1. /\ cq # <<>> /\ cq' = Tail(cq) /\ answer' = [asked |-> cmd, got |-> Head(cq)]
        /\ Proceed /\ UNCHANGED kernel
    BY <1>0, <1>2, Consumes
  <2>2. /\ inflight = {} /\ Tail(cq) = <<>> /\ Head(cq).cmd = cmd /\ Head(cq) \in Completions
    BY <1>0, <2>1, RingHolds
  <2>3. /\ method # None /\ method.name = "force_delete" /\ cmd # None /\ cmd.op \in {"STOP", "DEL"}
        /\ phase \notin {"scan", "done"}
    BY <1>0, <1>2 DEF CleanupInv, ForcesDeletes, TypeOK, Waiting
  <2>4. IF cmd.op = "STOP" THEN pc' = "delete_next" /\ cmd' = None /\ method' = method
                           ELSE pc' = "idle" /\ cmd' = None /\ method' = None
    BY <2>1, <2>3 DEF Proceed
  <2>5. cmd.op = "DEL" => \A o \in Devices : ~ToDelete(o)
    BY <2>2, <2>3 DEF ToDelete
  <2>6. Counts <=> Unseen
    <3>1. cq' # cq
      BY <2>1, <2>2
    <3>2. answer'.got.res = Head(cq).res
      BY <2>1
    <3>3. pc' = "idle" <=> cmd.op = "DEL"
      BY <2>3, <2>4
    <3> QED
      BY <2>1, <2>2, <3>1, <3>2, <3>3 DEF Counts, Unseen
  <2>7. ~Unseen'
    BY <2>1, <2>2 DEF Unseen
  <2>8. CTypes' /\ AllCounted'
    BY <1>0, <2>6, <2>7 DEF CContinue, CleanupInv, CTypes, AllCounted, progress, history
  <2>9. ForcesDeletes' /\ SteadyUntouched'
    BY <1>0, <2>1, <2>3, <2>4 DEF CleanupInv, ForcesDeletes, SteadyUntouched, progress, history, kernel
  <2>10. OrphansPending'
    <3> SUFFICES ASSUME NEW o \in orphaned' PROVE device'[o] = "dead" /\ (o \in Reached' => Pending(o)')
      BY DEF OrphansPending
    <3>1. o \in orphaned /\ o \in Devices /\ device'[o] = "dead" /\ Reached' = Reached
      BY <1>0, <2>1 DEF CleanupInv, CTypes, OrphansPending, Reached, history, kernel
    <3>2. o \in Reached => o \in todo \/ ToDelete(o)
      BY <2>3, <3>1 DEF CleanupInv, OrphansPending, Pending
    <3>3. CASE o \in todo
      BY <1>0, <2>3, <3>1, <3>3 DEF Pending, progress
    <3>4. CASE ToDelete(o)
      BY <1>0, <2>1, <2>3, <2>4, <2>5, <3>1, <3>4 DEF Pending, ToDelete, progress, kernel
    <3> QED
      BY <3>1, <3>2, <3>3, <3>4
  <2> QED
    BY <2>8, <2>9, <2>10
<1>3. CASE (CheckCompletion /\ ~Consume) \/ LookAgain
  <2>1. Waiting /\ pc' \in {"check", "elapsed"} /\ UNCHANGED <<kernel, cq, method, cmd>>
    BY <1>3 DEF CheckCompletion, LookAgain, Waiting
  <2>2. cleaned' = cleaned
    BY <2>1 DEF CContinue, Counts
  <2> QED
    BY <1>0, <2>1, <2>2 DEF CleanupInv, CTypes, ForcesDeletes, OrphansPending, Reached, Pending, ToDelete,
       SteadyUntouched, AllCounted, Unseen, progress, history, kernel
<1>4. CASE GiveUp
  BY <1>4 DEF GiveUp
<1> QED
  BY <1>0, <1>1, <1>2, <1>3, <1>4 DEF Continue, CheckCompletion, TakeInfo, Waiting

(* A command takes effect.                                                  *)
LEMMA CompletingKeeps ==
    ASSUME CleanupInv, NEW c \in inflight, CComplete(c)
    PROVE  CTypes' /\ ForcesDeletes' /\ OrphansPending' /\ SteadyUntouched' /\ AllCounted'
<1>0. TypeOK /\ OwnInv /\ Complete(c) /\ UNCHANGED <<progress, cleaned, steady>>
  BY DEF CComplete, CleanupInv, OwnInv
<1>1. /\ c \in Commands /\ cq \in Seq(Completions) /\ UNCHANGED caller
      /\ cq' = Append(cq, [cmd |-> c, res |-> Result(c)])
  BY <1>0, Completes DEF TypeOK
<1>2. /\ Waiting /\ inflight = {cmd} /\ cq = <<>> /\ c = cmd /\ cmd # None
  BY <1>0, RingHolds, NoneAssumption, <1>1
<1>3. /\ method # None /\ phase \notin {"scan", "done"} /\ c.dev = method.dev /\ c.op \in {"STOP", "DEL"}
  BY <1>0, <1>2 DEF CleanupInv, ForcesDeletes, TypeOK, Waiting
<1>4. Head(cq') = [cmd |-> c, res |-> Result(c)] /\ cq' # <<>>
  BY <1>1, <1>2
<1>5. Unseen' <=> c.op = "DEL" /\ Result(c) = "ok"
  BY <1>4 DEF Unseen
<1>6. ~Unseen
  BY <1>2 DEF Unseen
<1>7. CTypes'
  BY <1>0 DEF CleanupInv, CTypes, CComplete, progress
<1>8. ForcesDeletes'
  BY <1>0, <1>1 DEF CleanupInv, ForcesDeletes, caller, progress
<1>9. AllCounted'
  BY <1>0, <1>5, <1>6 DEF CComplete, CleanupInv, AllCounted
<1>10. SteadyUntouched'
  <2> SUFFICES ASSUME NEW s \in steady
               PROVE  device'[s] = "live" /\ (phase # "range" => s \notin todo) /\ method.dev # s
    BY <1>0, <1>1 DEF SteadyUntouched, progress, caller
  <2>1. s \in Devices /\ device[s] = "live" /\ s # c.dev /\ (phase # "range" => s \notin todo)
    BY <1>3 DEF CleanupInv, CTypes, SteadyUntouched
  <2> QED
    BY <1>0, <1>3, <2>1, CompletionActs
<1>11. OrphansPending'
  <2> SUFFICES ASSUME NEW o \in orphaned' PROVE device'[o] = "dead" /\ (o \in Reached' => Pending(o)')
    BY DEF OrphansPending
  <2>1. /\ o \in orphaned /\ o \in Devices /\ device[o] = "dead" /\ Reached' = Reached
        /\ c.op = "DEL" /\ Result(c) = "ok" => o # c.dev
    BY DEF CComplete, CleanupInv, CTypes, OrphansPending, Reached
  <2>2. device'[o] = "dead" /\ (o = c.dev => c.op = "STOP")
    BY <1>0, <1>3, <2>1, CompletionActs
  <2>3. ToDelete(o) => o = c.dev
    BY <1>3 DEF ToDelete
  <2>4. o \in Reached => o \in todo \/ ToDelete(o)
    BY <1>3, <2>1 DEF CleanupInv, OrphansPending, Pending
  <2>5. o \in Reached => Pending(o)'
    BY <1>0, <1>1, <1>2, <1>3, <2>2, <2>3, <2>4 DEF Pending, ToDelete, progress, caller
  <2> QED
    BY <2>1, <2>2, <2>5
<1> QED
  BY <1>7, <1>8, <1>9, <1>10, <1>11

(* A daemon moves: it no longer keeps its device steady, and it moves no    *)
(* dead device.                                                             *)
LEMMA DaemonKeeps ==
    ASSUME CleanupInv, NEW d \in Devices, CDaemon(d)
    PROVE  CTypes' /\ ForcesDeletes' /\ OrphansPending' /\ SteadyUntouched' /\ AllCounted'
<1>1. /\ UNCHANGED <<inflight, cq, caller, progress, cleaned, deleted, scanned, orphaned>>
      /\ steady' = steady \ {d} /\ device[d] # "dead"
      /\ \A e \in Devices : e # d => device'[e] = device[e]
  BY DEF CDaemon, Daemon, DaemonMoves, CleanupInv, OwnInv, TypeOK
<1>2. CTypes' /\ ForcesDeletes' /\ AllCounted'
  BY <1>1 DEF CleanupInv, CTypes, ForcesDeletes, AllCounted, Unseen, caller, progress
<1>3. SteadyUntouched'
  BY <1>1 DEF CleanupInv, CTypes, SteadyUntouched, caller, progress
<1>4. OrphansPending'
  <2> SUFFICES ASSUME NEW o \in orphaned' PROVE device'[o] = "dead" /\ (o \in Reached' => Pending(o)')
    BY DEF OrphansPending
  <2>1. o \in orphaned /\ o \in Devices /\ device[o] = "dead" /\ Reached' = Reached
    BY <1>1 DEF CleanupInv, CTypes, OrphansPending, Reached
  <2>2. device'[o] = "dead"
    BY <1>1, <2>1
  <2>3. Pending(o) => Pending(o)'
    BY <1>1 DEF Pending, ToDelete, caller, progress
  <2> QED
    BY <2>1, <2>2, <2>3 DEF CleanupInv, OrphansPending
<1> QED
  BY <1>2, <1>3, <1>4

LEMMA CleanupStep == ASSUME ~KernelMayStall PROVE CleanupInv /\ [CNext]_cvars => CleanupInv'
<1> SUFFICES ASSUME CleanupInv, [CNext]_cvars
             PROVE  CTypes' /\ ForcesDeletes' /\ OrphansPending' /\ SteadyUntouched' /\ AllCounted'
  BY CleanupStepsAreRings, OwnStep DEF CleanupInv
<1>1. ASSUME NEW d \in Devices, Scan(d)
      PROVE  CTypes' /\ ForcesDeletes' /\ OrphansPending' /\ SteadyUntouched' /\ AllCounted'
  BY <1>1 DEF Scan, Orphan, HasCharDevice, HasBlockDevice, CleanupInv, CTypes, ForcesDeletes,
     OrphansPending, Reached, Pending, ToDelete, SteadyUntouched, AllCounted, Unseen, vars, kernel, caller, history
<1>2. CASE ScanEnds
  <2>1. CTypes' /\ ForcesDeletes' /\ AllCounted'
    BY <1>2, RangeAssumption
       DEF ScanEnds, CleanupInv, CTypes, ForcesDeletes, AllCounted, Unseen, vars, caller, history
  <2>2. OrphansPending' /\ SteadyUntouched'
    BY <1>2 DEF ScanEnds, CleanupInv, CTypes, ForcesDeletes, OrphansPending, Reached, Pending, ToDelete,
       SteadyUntouched, vars, kernel, caller, history
  <2> QED
    BY <2>1, <2>2
<1>7. CASE ScanFails
  <2>1. CTypes' /\ ForcesDeletes' /\ AllCounted'
    BY <1>7, RangeAssumption DEF ScanFails, CleanupInv, CTypes, ForcesDeletes, AllCounted, Unseen, vars, caller
  <2>2. OrphansPending' /\ SteadyUntouched'
    BY <1>7 DEF ScanFails, CleanupInv, OrphansPending, Reached, Pending, SteadyUntouched, vars, kernel, caller
  <2> QED
    BY <2>1, <2>2
<1>3. ASSUME NEW d \in Devices, CleanNext(d)
      PROVE  CTypes' /\ ForcesDeletes' /\ OrphansPending' /\ SteadyUntouched' /\ AllCounted'
  <2>1. d \notin steady
    BY <1>3 DEF CleanNext, CleanupInv, SteadyUntouched
  <2> QED
    BY <1>3, <2>1, CleaningKeeps DEF CleanNext
<1>4. ASSUME NEW d \in Devices, RangeNext(d)
      PROVE  CTypes' /\ ForcesDeletes' /\ OrphansPending' /\ SteadyUntouched' /\ AllCounted'
  <2>1. CASE HasBlockDevice(d)
    <3>1. device[d] = "live" /\ todo' = todo \ {d} /\ UNCHANGED <<vars, phase, unscanned, cleaned, history>>
      BY <1>4, <2>1 DEF RangeNext, HasBlockDevice
    <3> QED
      BY <3>1 DEF CleanupInv, CTypes, ForcesDeletes, OrphansPending, Reached, Pending, ToDelete,
         SteadyUntouched, AllCounted, Unseen, vars, kernel, caller, history
  <2>2. CASE ~HasBlockDevice(d)
    <3>1. d \notin steady
      BY <2>2 DEF HasBlockDevice, CleanupInv, SteadyUntouched
    <3> QED
      BY <1>4, <2>2, <3>1, CleaningKeeps DEF RangeNext
  <2> QED
    BY <2>1, <2>2
<1>5. CASE CleanupEnds
  BY <1>5 DEF CleanupEnds, CleanupInv, OwnInv, TypeOK, CTypes, ForcesDeletes, OrphansPending, Reached, Pending, ToDelete,
     SteadyUntouched, AllCounted, Unseen, vars, kernel, caller, history
<1>6. CASE UNCHANGED cvars
  BY <1>6 DEF CleanupInv, CTypes, ForcesDeletes, OrphansPending, Reached, Pending, ToDelete,
     SteadyUntouched, AllCounted, Unseen, cvars, vars, kernel, caller, progress, history
<1> QED
  BY <1>1, <1>2, <1>3, <1>4, <1>5, <1>6, <1>7, ContinuingKeeps, CompletingKeeps, DaemonKeeps DEF CNext, Cleanup

LEMMA CleanupInvariant == ASSUME ~KernelMayStall PROVE CSpec => []CleanupInv
<1>1. CInit => CleanupInv
  BY DEF CInit, Init, CleanupInv, OwnInv, TypeOK, OneAtATime, AnswerIsOwn, Waiting, CTypes, ForcesDeletes,
     OrphansPending, Reached, Pending, SteadyUntouched, AllCounted, Unseen
<1> QED
  BY <1>1, CleanupStep, PTL DEF CSpec

(* A device that its daemon keeps live throughout is never touched, by the  *)
(* scan (control.rs l.257), by the range (l.323) or by a force_delete that  *)
(* was already on its way.                                                  *)
THEOREM SteadySurvive == ASSUME ~KernelMayStall PROVE CSpec => []SteadyDevicesSurvive
<1>1. CleanupInv => SteadyDevicesSurvive
  BY DEF CleanupInv, SteadyUntouched, SteadyDevicesSurvive
<1> QED
  BY <1>1, CleanupInvariant, PTL

(* Every device that was an orphan when the cleanup began (control.rs       *)
(* l.267-270) is deleted when it ends, the errors of single devices         *)
(* notwithstanding; where the scan failed, and with it all that it had      *)
(* found (l.282), every one with an id of the range (l.287).                *)
THEOREM OrphansGo == ASSUME ~KernelMayStall PROVE CSpec => []OrphansAreGone
<1>1. CleanupInv => OrphansAreGone
  BY DEF CleanupInv, OrphansPending, Reached, Pending, OrphansAreGone
<1> QED
  BY <1>1, CleanupInvariant, PTL

(* "The number of devices successfully cleaned up" (control.rs l.274) is    *)
(* the number of DEL_DEV commands that succeeded.                           *)
THEOREM CleanedAreDeleted == ASSUME ~KernelMayStall PROVE CSpec => []CleanedIsDeleted
<1>1. CleanupInv => CleanedIsDeleted
  <2> SUFFICES ASSUME CleanupInv, phase = "done" PROVE cleaned = deleted
    BY DEF CleanedIsDeleted
  <2>1. ~Waiting /\ OwnInv
    BY DEF CleanupInv, ForcesDeletes, OwnInv, TypeOK, Waiting
  <2> QED
    BY <2>1, RingHolds DEF CleanupInv, AllCounted, Unseen
<1> QED
  BY <1>1, CleanupInvariant, PTL

-----------------------------------------------------------------------------
(* The count cannot exceed the devices: each is force-deleted once.         *)

Room == phase # "scan" => cleaned + Cardinality(todo) + (IF method = None THEN 0 ELSE 1) <= Cardinality(Devices)

BeforeScan == phase = "scan" => cleaned = 0

CountInv == CleanupInv /\ Room /\ BeforeScan

LEMMA TodoCounts ==
    ASSUME IsFiniteSet(Devices), todo \subseteq Devices
    PROVE  /\ Cardinality(Devices) \in Nat /\ Cardinality(todo) \in Nat
           /\ Cardinality(todo) <= Cardinality(Devices)
           /\ \A d \in todo : Cardinality(todo \ {d}) = Cardinality(todo) - 1
<1>1. IsFiniteSet(todo)
  BY FS_Subset
<1> QED
  BY <1>1, FS_CardinalityType, FS_Subset, FS_RemoveElement

LEMMA CountStep ==
    ASSUME ~KernelMayStall, IsFiniteSet(Devices) PROVE CountInv /\ [CNext]_cvars => CountInv'
<1> SUFFICES ASSUME CountInv, [CNext]_cvars PROVE Room' /\ BeforeScan'
  BY CleanupStep DEF CountInv
<1>0. /\ CleanupInv' /\ todo \subseteq Devices /\ todo' \subseteq Devices
      /\ cleaned \in Nat /\ cleaned' \in Nat /\ TypeOK
      /\ Cardinality(Devices) \in Nat /\ Cardinality(todo) \in Nat /\ Cardinality(todo') \in Nat
      /\ Cardinality(todo) <= Cardinality(Devices) /\ Cardinality(todo') <= Cardinality(Devices)
  <2>1. CleanupInv' /\ todo \subseteq Devices /\ todo' \subseteq Devices
        /\ cleaned \in Nat /\ cleaned' \in Nat /\ TypeOK
    BY CleanupStep DEF CountInv, CleanupInv, CTypes, OwnInv
  <2>2. ASSUME NEW S \in SUBSET Devices PROVE Cardinality(S) \in Nat /\ Cardinality(S) <= Cardinality(Devices)
    BY FS_CardinalityType, FS_Subset
  <2> QED
    BY <2>1, <2>2, FS_CardinalityType
<1>1. ASSUME NEW d \in Devices, Scan(d) PROVE Room' /\ BeforeScan'
  BY <1>1 DEF Scan, CountInv, BeforeScan, Room
<1>2. CASE ScanEnds
  <2>1. method' = None /\ cleaned' = 0 /\ phase' # "scan"
    BY <1>2 DEF ScanEnds, CountInv, BeforeScan, CleanupInv, ForcesDeletes, vars, caller
  <2> QED
    BY <1>0, <2>1 DEF Room, BeforeScan
<1>8. CASE ScanFails
  <2>1. method' = None /\ cleaned' = 0 /\ phase' # "scan"
    BY <1>8 DEF ScanFails, CountInv, BeforeScan, CleanupInv, ForcesDeletes, vars, caller
  <2> QED
    BY <1>0, <2>1 DEF Room, BeforeScan
<1>3. ASSUME NEW d \in todo, phase # "scan", method = None, UNCHANGED <<phase, cleaned>>, todo' = todo \ {d}
      PROVE  Room' /\ BeforeScan'
  <2>1. Cardinality(todo') = Cardinality(todo) - 1
    BY <1>0, <1>3, TodoCounts
  <2> QED
    BY <1>0, <1>3, <2>1 DEF CountInv, Room, BeforeScan
<1>4. ASSUME NEW d \in Devices, CleanNext(d) \/ RangeNext(d) PROVE Room' /\ BeforeScan'
  <2>1. d \in todo /\ phase # "scan" /\ UNCHANGED <<phase, cleaned>> /\ todo' = todo \ {d} /\ pc = "idle"
    BY <1>4 DEF CleanNext, RangeNext, ForceDelete, Call
  <2> QED
    BY <1>0, <1>3, <2>1 DEF TypeOK
<1>5. CASE CContinue
  <2>1. UNCHANGED <<phase, todo>> /\ cleaned' = IF Counts THEN cleaned + 1 ELSE cleaned
    BY <1>5 DEF CContinue, progress
  <2>2. phase # "scan"
    BY <1>5 DEF CContinue, Continue, ForceDeleteNext, CheckCompletion, LookAgain, GiveUp, TakeInfo,
       CountInv, CleanupInv, OwnInv, TypeOK, ForcesDeletes
  <2>3. method # None /\ (method' = None \/ method' = method)
    BY <1>0, <1>5, Consumes, Proceeds DEF CContinue, Continue, ForceDeleteNext, CheckCompletion, LookAgain, GiveUp,
       TakeInfo, TypeOK, Waiting
  <2>4. Counts => method' = None
    BY <1>0 DEF Counts, CleanupInv, OwnInv, TypeOK
  <2> QED
    BY <1>0, <2>1, <2>2, <2>3, <2>4 DEF CountInv, Room, BeforeScan
<1>6. CASE CleanupEnds
  BY <1>6 DEF CleanupEnds, CountInv, Room, BeforeScan, vars, caller
<1>7. CASE (\E c \in inflight : CComplete(c)) \/ (\E d \in Devices : CDaemon(d)) \/ UNCHANGED cvars
  <2>1. UNCHANGED <<phase, todo, cleaned, method>>
    BY <1>7 DEF CComplete, Complete, CDaemon, Daemon, DaemonMoves, cvars, vars, caller, progress
  <2> QED
    BY <2>1 DEF CountInv, Room, BeforeScan
<1> QED
  BY <1>1, <1>2, <1>4, <1>5, <1>6, <1>7, <1>8 DEF CNext, Cleanup

(* Type correctness of the cleanup (control.rs l.280-300); its count is one *)
(* of the devices there are.                                                *)
THEOREM CleanupTypeCorrect ==
    ASSUME ~KernelMayStall, IsFiniteSet(Devices) PROVE CSpec => []CTypeOK
<1>1. CInit => CountInv
  <2> SUFFICES ASSUME CInit PROVE CleanupInv /\ phase = "scan" /\ cleaned = 0
    BY DEF CountInv, Room, BeforeScan
  <2> QED
    BY DEF CInit, Init, CleanupInv, OwnInv, TypeOK, OneAtATime, AnswerIsOwn, Waiting, CTypes, ForcesDeletes,
       OrphansPending, Reached, Pending, SteadyUntouched, AllCounted, Unseen
<1>2. CountInv => CTypeOK
  <2> SUFFICES ASSUME CountInv PROVE CTypeOK
    OBVIOUS
  <2>1. TypeOK /\ CTypes
    BY DEF CountInv, CleanupInv, OwnInv
  <2>2. cleaned \in 0..Cardinality(Devices)
    BY <2>1, TodoCounts DEF CountInv, Room, BeforeScan, CTypes
  <2> QED
    BY <2>1, <2>2 DEF CTypeOK, CTypes
<1> QED
  BY <1>1, <1>2, CountStep, PTL DEF CSpec

=============================================================================
