------------------------------ MODULE MemoryLock ----------------------------
(***************************************************************************)
(* Keeping a daemon that serves swap out of swap: duende-mlock, and        *)
(* memory.rs of duende-platform, which makes the same system calls.  A     *)
(* process maps and unmaps pages while any part of it locks and unlocks.   *)
(*                                                                         *)
(* The kernel (external): mlockall(2) replaces what it was told before     *)
(* about future pages, refuses more than the limit, and refuses to lock    *)
(* nothing; a page that cannot be locked is not mapped.  Outside Linux it  *)
(* may refuse for reasons of its own.                                      *)
(***************************************************************************)
EXTENDS Naturals, FiniteSets

CONSTANTS
    Pages,          \* of the address space
    LockLimits      \* RLIMIT_MEMLOCK, in pages

ASSUME LockAssumption == IsFiniteSet(Pages) /\ LockLimits \subseteq Nat

VARIABLES
    os,             \* the target_os; "unix" is one of the others, "other" is none
    mapped, locked, \* pages, and those in locked areas
    future,         \* what is mapped will be locked
    limit,          \* or Unbounded, for root and CAP_IPC_LOCK
    result,         \* of the last call
    secured         \* history: the pages were locked for good, and nobody asked for less since

lockVars == <<os, mapped, locked, future, limit, result, secured>>

Unbounded == Cardinality(Pages) + 1

MlockConfig == [current: BOOLEAN, future: BOOLEAN, required: BOOLEAN, onfault: BOOLEAN]

Errno == {"EPERM", "ENOMEM", "EINVAL", "EAGAIN", "ENOSYS"}

\* MlockStatus or MlockError, MlockResult or PlatformError
Results == [ok: {TRUE}, status: {"Locked", "Unsupported", "Disabled", "Unlocked", "none"}]
      \cup [ok: {TRUE}, status: {"Failed"}, errno: Errno] \cup [ok: {FALSE}, errno: Errno]

LockTypeOK ==
    /\ os \in {"linux", "macos", "unix", "other"}
    /\ mapped \subseteq Pages /\ locked \subseteq mapped /\ future \in BOOLEAN
    /\ limit \in LockLimits \cup {Unbounded}
    /\ result \in Results /\ secured \in BOOLEAN

LockInit ==
    /\ os \in {"linux", "macos", "unix", "other"}
    /\ mapped \in SUBSET Pages /\ mapped # {} /\ locked = {} /\ future = FALSE
    /\ limit \in LockLimits \cup {Unbounded}
    /\ result = [ok |-> TRUE, status |-> "none"] /\ secured = FALSE

-----------------------------------------------------------------------------

MapPage(p) ==
    /\ p \notin mapped
    /\ future => Cardinality(locked) < limit
    /\ mapped' = mapped \cup {p}
    /\ locked' = IF future THEN locked \cup {p} ELSE locked
    /\ UNCHANGED <<os, future, limit, result, secured>>

UnmapPage(p) ==
    /\ p \in mapped /\ mapped # {p}
    /\ mapped' = mapped \ {p} /\ locked' = locked \ {p}
    /\ UNCHANGED <<os, future, limit, result, secured>>

\* Why the kernel has to refuse to lock,
Refusals(flags) ==
         { e \in {"EINVAL"} : flags \subseteq {"MCL_ONFAULT"} }
    \cup { e \in {"EPERM"}  : limit = 0 }
    \cup { e \in {"ENOMEM"} : "MCL_CURRENT" \in flags /\ Cardinality(mapped) > limit }

\* and why it may: a Linux before 4.4 does not know MCL_ONFAULT.
Whims(flags) ==
         { e \in {"EINVAL"} : "MCL_ONFAULT" \in flags }
    \cup { e \in {"EPERM", "EAGAIN", "ENOSYS"} : os # "linux" }

Mlockall(flags) ==
    /\ locked' = IF "MCL_CURRENT" \in flags THEN mapped ELSE locked
    /\ future' = ("MCL_FUTURE" \in flags)

-----------------------------------------------------------------------------

\* MlockConfig::as_flags; MCL_ONFAULT is there on Linux only.
AsFlags(c) ==
         { f \in {"MCL_CURRENT"} : c.current }
    \cup { f \in {"MCL_FUTURE"}  : c.future }
    \cup { f \in {"MCL_ONFAULT"} : c.onfault /\ os = "linux" }

Refused_Ignored(required, errno) == [ok |-> TRUE, status |-> "Locked"]

\* A failure is an error where the lock is required.
Refused(required, errno) ==
    IF required THEN [ok |-> FALSE, errno |-> errno]
                ELSE [ok |-> TRUE, status |-> "Failed", errno |-> errno]

Forever == {"MCL_CURRENT", "MCL_FUTURE"}

\* mlockall and what becomes of its return value, in either crate.
Locks(flags, required) ==
    /\ \/ Refusals(flags) = {} /\ Mlockall(flags) /\ result' = [ok |-> TRUE, status |-> "Locked"]
       \/ /\ \E errno \in Refusals(flags) \cup Whims(flags) : result' = Refused(required, errno)
          /\ UNCHANGED <<locked, future>>
    /\ secured' = IF result'.ok /\ result'.status = "Locked" THEN Forever \subseteq flags ELSE secured
    /\ UNCHANGED <<os, mapped, limit>>

\* A call that leaves the locks alone.
Leaves(answer) ==
    /\ result' = answer
    /\ UNCHANGED <<os, mapped, locked, future, limit, secured>>

Answers(status) == Leaves([ok |-> TRUE, status |-> status])

\* lock_with_config, and lock_all, which is the default config: no flags, no call.
LockWithConfig(c) ==
    IF os = "other"
    THEN IF c.required THEN Leaves([ok |-> FALSE, errno |-> "EINVAL"]) ELSE Answers("Unsupported")
    ELSE IF AsFlags(c) = {} THEN Answers("Locked")
    ELSE Locks(AsFlags(c), c.required)

\* The flags of lock_daemon_memory
DaemonFlags == Forever

\* apply_memory_config: lock_daemon_memory if the daemon wants its memory locked.
ApplyMemoryConfig(lock_memory, lock_memory_required) ==
    IF ~lock_memory THEN Answers("none")
    ELSE IF os \notin {"linux", "macos"} THEN Answers("Disabled")
    ELSE Locks(DaemonFlags, lock_memory_required)

\* munlockall and its return value
Unlocks ==
    \/ /\ locked' = {} /\ future' = FALSE
       /\ result' = [ok |-> TRUE, status |-> "Unlocked"] /\ secured' = FALSE
       /\ UNCHANGED <<os, mapped, limit>>
    \/ \E errno \in Whims({}) : Leaves([ok |-> FALSE, errno |-> errno])

\* unlock_all
UnlockAll == IF os = "other" THEN Answers("Unlocked") ELSE Unlocks

\* unlock_daemon_memory
UnlockDaemonMemory == IF os \in {"linux", "macos"} THEN Unlocks ELSE Answers("Unlocked")

\* What locked_bytes may answer.  On Linux it is the VmLck of /proc/self/status, which may
\* leave out pages that are not resident (memory.rs l.340), or 0 where that cannot be read.
LockedBytes == IF os = "linux" THEN 0..Cardinality(locked) ELSE {0}

\* What is_locked, and is_memory_locked of duende-platform, may answer.
IsLocked       == { n > 0 : n \in LockedBytes }
IsMemoryLocked == IF os = "linux" THEN IsLocked ELSE {FALSE}

LockNext ==
    \/ \E p \in Pages : MapPage(p) \/ UnmapPage(p)
    \/ \E c \in MlockConfig : LockWithConfig(c)
    \/ \E lock_memory, required \in BOOLEAN : ApplyMemoryConfig(lock_memory, required)
    \/ UnlockAll \/ UnlockDaemonMemory

LockSpec == LockInit /\ [][LockNext]_lockVars

-----------------------------------------------------------------------------

(* memory.rs l.46-75, lib.rs l.90-98 (DT-007): once the memory of a daemon  *)
(* was locked, no page of it can be swapped out, those mapped later         *)
(* included, whatever locks fail and pages go meanwhile, until somebody     *)
(* unlocks or locks with a weaker config.                                   *)
LockHolds == secured => locked = mapped /\ future

(* "lock_all()?; assert!(is_locked());" (lib.rs l.199-201), and the same of *)
(* is_memory_locked.                                                        *)
LockIsSeen == secured => IsLocked = {TRUE} /\ IsMemoryLocked = {TRUE}

(* "Check if memory is currently locked" (status.rs l.40): a status that    *)
(* says Locked was got with pages locked.                                   *)
LockedIsLocked == result.ok /\ result.status = "Locked" => locked # {}

(* "Daemon fails to start if mlock() fails" (config.rs l.204): with a       *)
(* required lock, apply_memory_config is Ok only over locked memory.        *)
RequiredIsLocked == [][ApplyMemoryConfig(TRUE, TRUE) /\ result'.ok => locked' = mapped']_lockVars

(* lib.rs l.90 "Lock all current and future memory allocations": no other   *)
(* lock undoes it, only an unlock.                                          *)
LocksOnlyGrow == [][future /\ ~future' => result'.ok /\ result'.status = "Unlocked"]_lockVars

=============================================================================
