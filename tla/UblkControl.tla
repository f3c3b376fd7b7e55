----------------------------- MODULE UblkControl ----------------------------
(***************************************************************************)
(* duende-ublk/src/control.rs: one UblkControl and the io_uring it talks   *)
(* to the kernel through.  Its methods take &mut self, so there is one     *)
(* caller; the concurrency is with the kernel, which completes commands in *)
(* its own time, and with the daemons that own the devices.                *)
(*                                                                         *)
(* All commands carry user_data 1 (l.122, l.164): a completion does not    *)
(* say which command it answers.  The tag of a command here is the model's,*)
(* for the properties; no action of the code reads it.                     *)
(***************************************************************************)
EXTENDS Naturals, Sequences

CONSTANTS
    Devices,        \* device ids
    Tags,           \* bound on the commands outstanding, as names for them
    Methods,        \* methods the caller uses
    KernelMayStall, \* TRUE: a command may take longer than the 5 s timeout
    None

ASSUME UblkAssumption ==
    /\ Methods \subseteq {"delete", "stop", "force_delete", "info"}
    /\ KernelMayStall \in BOOLEAN

VARIABLES
    device,     \* kernel: each device
    inflight,   \* kernel: commands submitted and not completed
    cq,         \* ring: completions not yet consumed, oldest first
    method,     \* the method under way, or None
    cmd,        \* the command it waits for, or None
    pc,         \* where it waits
    answer      \* the last completion consumed and what the method made of it

kernel == <<device, inflight>>
caller == <<method, cmd, pc, answer>>
vars   == <<kernel, cq, caller>>

\* starting: character device only, its daemon is at work; live: block device too;
\* dead: the daemon is gone or was stopped and the character device is left.
DeviceState == {"absent", "starting", "live", "dead"}

HasCharDevice(d)  == device[d] # "absent"
HasBlockDevice(d) == device[d] = "live"

Commands == [tag: Tags, op: {"STOP", "DEL", "INFO"}, dev: Devices]

Method == [name: {"delete", "stop", "force_delete", "info"}, dev: Devices]

ASSUME NoneAssumption == None \notin Commands \cup Method

\* A result of the kernel: 0, or one of the errors the code tells apart.
Completions == [cmd: Commands, res: {"ok", "ENOENT", "EBUSY"}]

TypeOK ==
    /\ device \in [Devices -> DeviceState]
    /\ inflight \subseteq Commands
    /\ cq \in Seq(Completions)
    /\ method \in Method \cup {None}
    /\ cmd \in Commands \cup {None}
    /\ pc \in {"idle", "check", "elapsed", "delete_next", "block"}
    /\ answer \in [asked: Commands, got: Completions] \cup {None}
    /\ pc = "idle" <=> method = None
    /\ pc \in {"idle", "delete_next"} <=> cmd = None

Init ==
    /\ device \in [Devices -> DeviceState]
    /\ inflight = {} /\ cq = <<>>
    /\ method = None /\ cmd = None /\ pc = "idle" /\ answer = None

-----------------------------------------------------------------------------
(* The kernel and the daemons (external)                                    *)

Result(c) ==
    CASE device[c.dev] = "absent"                -> "ENOENT"
      [] device[c.dev] = "live" /\ c.op = "DEL"  -> "EBUSY"
      [] OTHER                                   -> "ok"

\* A command takes effect when it completes; completions may overtake each other.
Complete(c) ==
    /\ c \in inflight
    /\ inflight' = inflight \ {c}
    /\ cq' = Append(cq, [cmd |-> c, res |-> Result(c)])
    /\ device' = CASE Result(c) = "ok" /\ c.op = "DEL"  -> [device EXCEPT ![c.dev] = "absent"]
                   [] Result(c) = "ok" /\ c.op = "STOP" -> [device EXCEPT ![c.dev] = "dead"]
                   [] OTHER                             -> device
    /\ UNCHANGED caller

DaemonMoves(d, from, to) ==
    /\ device[d] = from
    /\ device' = [device EXCEPT ![d] = to]
    /\ UNCHANGED <<inflight, cq, caller>>

\* ADD_DEV and START_DEV by a daemon, and its death.
Daemon(d) ==
    \/ DaemonMoves(d, "absent", "starting")
    \/ DaemonMoves(d, "starting", "live")
    \/ DaemonMoves(d, "starting", "dead")
    \/ DaemonMoves(d, "live", "dead")

-----------------------------------------------------------------------------
(* The methods *)

FreeTags == Tags \ { c.tag : c \in inflight \cup { cq[i].cmd : i \in DOMAIN cq } }

Submit_PushOnly(op, d, next) ==
    \E tag \in FreeTags :
        /\ cmd' = [tag |-> tag, op |-> op, dev |-> d]
        /\ UNCHANGED inflight
        /\ pc' = next

\* Push one entry and submit it: each method leaves the submission queue empty.
Submit(op, d, next) ==
    \E tag \in FreeTags :
        /\ cmd' = [tag |-> tag, op |-> op, dev |-> d]
        /\ inflight' = inflight \cup {cmd'}
        /\ pc' = next

\* A method starts only while two more commands fit the bound.
Call(name, d) ==
    /\ pc = "idle" /\ name \in Methods
    /\ \E s, t \in FreeTags : s # t
    /\ method' = [name |-> name, dev |-> d]

DeleteDevice(d) ==
    /\ Call("delete", d) /\ Submit("DEL", d, "check")
    /\ answer' = None /\ UNCHANGED <<device, cq>>

StopDevice(d) ==
    /\ Call("stop", d) /\ Submit("STOP", d, "check")
    /\ answer' = None /\ UNCHANGED <<device, cq>>

ForceDelete_NoWait(d) ==
    /\ Call("force_delete", d) /\ Submit("STOP", d, "delete_next")
    /\ answer' = None /\ UNCHANGED <<device, cq>>

\* force_delete: stop_device, its result ignored, then delete_device.
ForceDelete(d) ==
    /\ Call("force_delete", d) /\ Submit("STOP", d, "check")
    /\ answer' = None /\ UNCHANGED <<device, cq>>

ForceDeleteNext ==
    /\ pc = "delete_next" /\ Submit("DEL", method.dev, "check")
    /\ UNCHANGED <<device, cq, method, answer>>

GetDeviceInfo(d) ==
    /\ Call("info", d) /\ Submit("INFO", d, "block")
    /\ answer' = None /\ UNCHANGED <<device, cq>>

\* What follows a command: the second half of force_delete, or the return.
Proceed ==
    IF method.name = "force_delete" /\ cmd.op = "STOP"
    THEN pc' = "delete_next" /\ cmd' = None /\ UNCHANGED method
    ELSE pc' = "idle" /\ cmd' = None /\ method' = None

Consume ==
    /\ cq # <<>>
    /\ cq' = Tail(cq)
    /\ answer' = [asked |-> cmd, got |-> Head(cq)]
    /\ Proceed
    /\ UNCHANGED kernel

\* The polling loop of send_command_timeout: look for a completion,
CheckCompletion ==
    /\ pc = "check"
    /\ \/ Consume
       \/ cq = <<>> /\ pc' = "elapsed" /\ UNCHANGED <<kernel, cq, method, cmd, answer>>

\* then sleep and look again,
LookAgain ==
    /\ pc = "elapsed" /\ pc' = "check"
    /\ UNCHANGED <<kernel, cq, method, cmd, answer>>

GiveUp_Never ==
    /\ pc = "elapsed" /\ KernelMayStall /\ pc' = "check"
    /\ UNCHANGED <<kernel, cq, method, cmd, answer>>

\* or fail with Timeout, the command left in the ring.
GiveUp ==
    /\ pc = "elapsed" /\ KernelMayStall
    /\ Proceed
    /\ UNCHANGED <<kernel, cq, answer>>

\* submit_and_wait(1) of get_device_info.
TakeInfo == pc = "block" /\ Consume

Continue == ForceDeleteNext \/ CheckCompletion \/ LookAgain \/ GiveUp \/ TakeInfo

Next ==
    \/ \E d \in Devices : DeleteDevice(d) \/ StopDevice(d) \/ ForceDelete(d) \/ GetDeviceInfo(d)
    \/ Continue
    \/ \E c \in inflight : Complete(c)
    \/ \E d \in Devices : Daemon(d)

Spec == Init /\ [][Next]_vars

(* The polling thread runs and its clock advances: LookAgain cannot go on   *)
(* for ever instead of GiveUp.  Nothing is asked of the kernel.             *)
CallerRuns == WF_vars(Continue) /\ SF_vars(GiveUp)

FairSpec == Spec /\ CallerRuns

-----------------------------------------------------------------------------

(* While the kernel answers in time, a method gets the answer to its own    *)
(* command (l.180, l.133 take the first completion, whatever it is).        *)
AnswerIsOwn == answer # None => answer.got.cmd = answer.asked

(* A method that waits has a completion to wait for (l.131 waits without a  *)
(* timeout), however many completions earlier timeouts left in the ring.    *)
WaitersAreAnswered == pc \in {"check", "elapsed", "block"} => inflight # {} \/ cq # <<>>

(* The commands without a data buffer return whatever the kernel does:      *)
(* l.176-205, the timeout of send_command_timeout.                          *)
CallReturns == pc \notin {"idle", "block"} ~> pc = "idle"

(* "Ok(true) if command succeeded" (l.403; l.78-80 for delete_device): a    *)
(* delete that reports success had a DEL_DEV of its device succeed.         *)
DeletedMeansGone ==
    answer # None /\ answer.asked.op = "DEL" /\ answer.got.res = "ok"
        => answer.got.cmd.op = "DEL" /\ answer.got.cmd.dev = answer.asked.dev

=============================================================================
