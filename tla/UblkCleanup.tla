----------------------------- MODULE UblkCleanup ----------------------------
(***************************************************************************)
(* cleanup_orphaned_devices (control.rs l.225-336): scan /dev for devices  *)
(* with a character device and no block device and force-delete them; if   *)
(* there are none, or the scan fails, force-delete every id from 0 to 7    *)
(* that has no block device.  One cleanup with the control device open,    *)
(* composed with the ring and the kernel of UblkControl and with daemons   *)
(* that come and go meanwhile.                                             *)
(***************************************************************************)
EXTENDS UblkControl, FiniteSets

CONSTANT RangeIds   \* the devices with ids 0 to 7 (l.287)

ASSUME RangeAssumption == RangeIds \subseteq Devices

VARIABLES
    phase,      \* "scan", "orphans", "range" or "done"
    unscanned,  \* devices the scan has not come to
    todo,       \* devices still to be force-deleted
    cleaned,    \* the result
    deleted,    \* history: DEL_DEV commands that succeeded
    scanned,    \* history: the scan has not failed
    orphaned,   \* history: devices dead since before the cleanup
    steady      \* history: devices their daemon has kept live since before the cleanup

progress == <<phase, unscanned, todo>>
history  == <<deleted, scanned, orphaned, steady>>
cvars    == <<vars, progress, cleaned, history>>

CTypeOK ==
    /\ TypeOK
    /\ phase \in {"scan", "orphans", "range", "done"}
    /\ unscanned \subseteq Devices /\ todo \subseteq Devices
    /\ cleaned \in 0..Cardinality(Devices) /\ deleted \in Nat
    /\ scanned \in BOOLEAN
    /\ orphaned \subseteq Devices /\ steady \subseteq Devices

CInit ==
    /\ Init
    /\ phase = "scan" /\ unscanned = Devices /\ todo = {} /\ cleaned = 0
    /\ deleted = 0 /\ scanned = TRUE
    /\ orphaned = { d \in Devices : device[d] = "dead" }
    /\ steady = { d \in Devices : device[d] = "live" }

Orphan(d) == HasCharDevice(d) /\ ~HasBlockDevice(d)

\* detect_orphaned_devices, one directory entry at a time.
Scan(d) ==
    /\ phase = "scan" /\ d \in unscanned
    /\ unscanned' = unscanned \ {d}
    /\ todo' = IF Orphan(d) THEN todo \cup {d} ELSE todo
    /\ UNCHANGED <<vars, phase, cleaned, history>>

\* read_dir or one of its entries fails: unwrap_or_default (l.282) drops the
\* orphans found so far with the error, and the range is tried instead.
ScanFails ==
    /\ phase = "scan"
    /\ unscanned' = {} /\ todo' = RangeIds /\ phase' = "range"
    /\ scanned' = FALSE
    /\ UNCHANGED <<vars, cleaned, deleted, orphaned, steady>>

\* No orphan: fall back to the range.
ScanEnds ==
    /\ phase = "scan" /\ unscanned = {}
    /\ IF todo = {} THEN phase' = "range" /\ todo' = RangeIds
                    ELSE phase' = "orphans" /\ UNCHANGED todo
    /\ UNCHANGED <<vars, unscanned, cleaned, history>>

CleanNext_First(d) ==
    /\ phase = "orphans" /\ d \in todo
    /\ ForceDelete(d)
    /\ todo' = {}
    /\ UNCHANGED <<phase, unscanned, cleaned, history>>

CleanNext_Retry(d) ==
    /\ phase = "orphans" /\ d \in todo
    /\ ForceDelete(d)
    /\ UNCHANGED <<todo, phase, unscanned, cleaned, history>>

CleanNext(d) ==
    /\ phase = "orphans" /\ d \in todo
    /\ ForceDelete(d)
    /\ todo' = todo \ {d}
    /\ UNCHANGED <<phase, unscanned, cleaned, history>>

RangeNext_Unchecked(d) ==
    /\ phase = "range" /\ d \in todo /\ pc = "idle"
    /\ todo' = todo \ {d}
    /\ ForceDelete(d)
    /\ UNCHANGED <<phase, unscanned, cleaned, history>>

\* cleanup_device_range leaves devices with a block device alone.
RangeNext(d) ==
    /\ phase = "range" /\ d \in todo /\ pc = "idle"
    /\ todo' = todo \ {d}
    /\ IF HasBlockDevice(d) THEN UNCHANGED vars ELSE ForceDelete(d)
    /\ UNCHANGED <<phase, unscanned, cleaned, history>>

CleanupEnds ==
    /\ phase \in {"orphans", "range"} /\ todo = {} /\ pc = "idle"
    /\ phase' = "done"
    /\ UNCHANGED <<vars, unscanned, todo, cleaned, history>>

Counts_Any == pc' = "idle" /\ cq' # cq

\* force_delete returns Ok(true): only a completion without error does.
Counts == pc' = "idle" /\ cq' # cq /\ answer'.got.res = "ok"

CContinue ==
    /\ Continue
    /\ cleaned' = IF Counts THEN cleaned + 1 ELSE cleaned
    /\ UNCHANGED <<progress, history>>

CComplete(c) ==
    /\ Complete(c)
    /\ LET gone == c.op = "DEL" /\ Result(c) = "ok" IN
       /\ deleted' = IF gone THEN deleted + 1 ELSE deleted
       /\ orphaned' = IF gone THEN orphaned \ {c.dev} ELSE orphaned
    /\ UNCHANGED <<progress, cleaned, scanned, steady>>

CDaemon(d) ==
    /\ Daemon(d)
    /\ steady' = steady \ {d}
    /\ UNCHANGED <<progress, cleaned, deleted, scanned, orphaned>>

Cleanup == (\E d \in Devices : Scan(d) \/ CleanNext(d) \/ RangeNext(d))
           \/ ScanFails \/ ScanEnds \/ CleanupEnds \/ CContinue

CNext ==
    \/ Cleanup
    \/ \E c \in inflight : CComplete(c)
    \/ \E d \in Devices : CDaemon(d)

CSpec == CInit /\ [][CNext]_cvars

(* The cleanup runs and the kernel completes the commands given to it.      *)
CFairSpec ==
    /\ CSpec
    /\ WF_cvars(Cleanup)
    /\ \A c \in Commands : WF_cvars(CComplete(c))

-----------------------------------------------------------------------------

(* l.274 "The number of devices successfully cleaned up": with a kernel     *)
(* that answers in time, exactly the devices that were deleted.             *)
CleanedIsDeleted == phase = "done" => cleaned = deleted

\* The devices that the cleanup looks at whatever it finds.
Reached == IF scanned THEN Devices ELSE RangeIds

(* l.267-270: a device that was an orphan when the cleanup began has been   *)
(* deleted when it ends, although errors of single devices are ignored; of  *)
(* a scan that failed, only the ids of the range (l.282, l.287).            *)
OrphansAreGone == phase = "done" => orphaned \cap Reached = {}

(* A device whose daemon keeps it live throughout is never touched, by the  *)
(* scan (l.257), the range (l.323) or a command that comes late.            *)
SteadyDevicesSurvive == \A d \in steady : device[d] = "live"

(* The cleanup ends, whatever the devices do meanwhile.                     *)
CleanupTerminates == <>(phase = "done")

(* l.267 "Clean up all orphaned ublk devices": whatever the scan met.        *)
EveryOrphanIsGone == phase = "done" => orphaned = {}

(* l.227-228: a device without a block device indicates that "the daemon    *)
(* crashed", so that deleting it takes it from nobody.                      *)
StartingIsLeftAlone ==
    [][\A d \in Devices : device[d] = "starting" /\ device'[d] # "starting" => CDaemon(d)]_cvars

=============================================================================
