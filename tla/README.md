# Verification of duende

Duende runs, watches and stops daemons behind one API: a manager with a registry,
platform adapters that create and stop processes, policies (circuit breaker,
restart, resource limits, quality gates), health monitoring and tracing, and a
controller for ublk block devices.  This directory holds TLA+ models of the parts
with concurrency, time and failure, the TLC runs that check them on small
instances, and TLAPS proofs of the properties that matter most.

Paths below are relative to `src/crates/`.

    tlc -workers 2 -config NativeStop.cfg MCNative        # a run: see PROJECT.json
    tlapm NativeAdapterProofs.tla                         # a proof module

## 1. Inventory

| Component | State | Operations | What is hard |
|---|---|---|---|
| `CircuitBreaker` (duende-policy/src/circuit_breaker.rs) | `state` and `opened_at`, each behind its own RwLock; two atomic counters | `allow`, `state`, `record_success`, `record_failure`, `reset`, and the private `open`, `close`, `maybe_transition` | every method is a sequence of separately locked steps, so calls of several threads interleave inside it |
| `DaemonManager` (duende-core/src/manager.rs), `DaemonContext` (daemon.rs), `DaemonStatus` (types.rs) | RwLock of a map of Mutexes of entries; per context an mpsc channel of 16 signals and a shutdown flag | `register`, `unregister`, `signal`, `update_status`, `set_context_handle`, getters, `list`, `count`, `shutdown_all`; `try_recv_signal`, `recv_signal` | two levels of FIFO locks held across a wait for channel room; cancellation at any await; slow, hung and dead daemons |
| `HealthMonitor` (duende-observe/src/health.rs) | map of `DaemonHealthState` behind one RwLock; a broadcast channel | `register`, `unregister`, `record_check`, `record_timeout` | long mixtures of outcomes; thresholds and their edges; events that must match the transitions |
| `UblkControl` (duende-ublk/src/control.rs) | an io_uring; submissions and completions not told apart | `delete_device`, `stop_device`, `get_device_info`, `force_delete` | the kernel answers late, out of order, or never |
| Orphan cleanup (same file, l.225-336) | none between calls | `detect_orphaned_devices`, `cleanup_orphaned_devices` | daemons start and die between the scan and the delete; the scan may fail half way |
| `NativeAdapter` (duende-core/src/adapters/native.rs) | map from daemon id to `Child` behind a Mutex | `spawn`, `signal`, `status`, `stop`, `attach_tracer` | child exit, reaping by several callers, recycled pids, a stop that races with others |
| `PlatformAdapter` defaults (duende-core/src/adapter.rs) | none | `stop`, `kill`, `pause`, `resume` | polls with a timeout |
| Systemd, container, launchd, pepita adapters (duende-core/src/adapters/) | none that is read again; launchd: the plist files | `spawn`, `signal`, `status`; `stop`, `remove`, `destroy`, `stop_and_unload` | services that change between two commands; commands that fail half way; meaning read out of text |
| linux, macos, container, pepita adapters (duende-platform/src/) | unit and plist files | `spawn`, `signal`, `status` | as above, a second set with other rules |
| `WosAdapter` (duende-core/src/adapters/wos.rs and duende-platform/src/wos.rs) | a kernel behind `wos-ctl` and a local table; a simulated process table | `spawn`, `signal`, `status`, `set_priority` | two tables that disagree; statuses that signals may resurrect; a tool looked for again on every call |
| Restart policy, backoff (manager.rs l.25-142) | policy and restart count of an entry | `should_restart`, `restart_delay`, `increment_restart_count` | integer casts; reading, deciding, sleeping and counting are separate calls |
| Metrics (duende-core/src/metrics.rs) | atomics | `record_*`, `error_rate`, `duration_avg`, snapshots | CAS loop; rates from two loads |
| `ResourceLimiter` (duende-policy/src/limiter.rs) | cgroup directories and files | `apply`, `remove` | a sequence of writes, any of which may fail, over processes that fork and exit |
| `JidokaGate`, `QualityGate` (duende-policy/src), `DaemonConfig` (duende-core/src/config.rs) | none | `check`, `recommend`, `analyze`, `validate` | two ways through the same checks; NaN; one config translated for four platforms |
| `DaemonTracer` (duende-observe/src/tracer.rs) | attached pid, call counts | `attach`, `detach`, `collect` | order of calls; processes that end and are replaced; statistics of few samples |
| `ResourceCollector` (duende-observe/src/monitor.rs) | previous CPU sample, a ring buffer | `collect`, `history`, `clear_history` | a collection that fails half way; a pid that is another process |
| Memory locking (duende-mlock, duende-platform/src/memory.rs) | the kernel's locks on the address space | `lock_all`, `lock_with_config`, `apply_memory_config`, `unlock_*`, `is_locked` | locks that fail when others hold; memory mapped later |
| Platform detection and selection (duende-core/src/platform.rs, adapters/mod.rs, duende-platform/src/detect.rs) | none; handles that outlive the program | `detect_platform`, `select_adapter`, the accessors of a handle | an environment that changes between two runs of the program |
| duende-test: harness, load test, chaos | number of the child; counters | `shutdown`, `health_check`; `run`; `should_inject_error` | numbers that are used again; users that panic |
| Error types, ublk structure layouts | - | - | formatting and layout |

How they interact: a manager hands a daemon's context to its run loop and keeps the
sending end of the signal channel; the adapters are used by the embedding
program, with the statuses they report going to `update_status`; the breaker,
the monitor and the ublk controller are objects of the embedding program, shared
between its threads (the breaker, the monitor) or owned by one (the controller,
whose methods take `&mut self`).

What makes each modelled component correct:

* breaker: no trip and no recovery is lost between interleaved calls; a closed
  circuit is never tested; used by one thread it is the indivisible machine of
  its documentation; an open circuit is tested again;
* manager: what `signal` checked holds while it waits, active daemons are never
  removed, every call returns, an accepted Term ends the run, `shutdown_all`
  reaches everyone;
* monitor: the health flag is the hysteresis of the outcomes defined by the two
  thresholds; each recovery is announced exactly once;
* ublk: a method gets the answer to its own command and never waits for nothing;
  the cleanup deletes every orphan it can reach, no device in use, and counts right;
* native adapter: signals reach only its own children, no running child is out of
  reach, `stop` succeeds only over a dead child, and ends;
* command line adapters: a status is true of the service at the moment it is read,
  `stop` succeeds only over a service without a process; what launchd has loaded is
  on disk;
* WOS adapters: pids are unique, kernel and table know the same processes, `stop` succeeds
  only over a dead process, and a process killed in the simulation leaves its table;
* policies: a daemon is restarted for the reasons and as often as its policy allows, after
  delays within their cap, which grow unless the multiplier is below 1; no process runs in a cgroup that lacks a limit; the
  gates agree with each other and the platforms with the config;
* observation: no sample or recording is lost or counted twice, and no clock tick twice; a report is founded on the
  calls of the attached pid;
* memory: what was locked for good stays locked until somebody asks for less;
* selection: the adapter that is selected can spawn here and takes its own handles only;
* harness and load test: a shutdown that succeeds leaves no daemon and ends; a report counts every
  request once.

Section 5 lists where the code departs from what it says of itself.

## 2. Modules and the code

**CircuitBreaker** has one action per locked section or atomic access, named after the
private method and what the section touches (`OpenState`, `OpenInstant`, ...), and a
program counter per thread for the position in `open`, `close` and
`maybe_transition`.  `opened_at` is the elapsed time since the instant, cut off at
`RecoveryTimeout`, beyond which the code cannot tell ages apart.
**BreakerHistory** adds two history variables (time since the circuit opened, failures
since it closed) and the refinement mapping to **AbstractBreaker**, the machine
of the type's documentation in which each call is one step.

**DaemonManager** keeps the queue of each tokio lock: its holders and waiters in order,
as tokio's locks are fair.  A caller's `pc` says which await it is at: the map, the
entry's Mutex, room in the channel, the next daemon of a sweep.  What a method does
between two awaits is one action.  `Cancel` drops a call at any await, `Receive`
and `Exit` are the daemon's side.  An entry's health, metrics, restart count and
policy are left out: no other method's control reads them (the last two are in RestartPolicy).  **LifecycleCallers**
restricts it to callers that ask for the status before they change it, and
each module says which caller uses which methods (**MCDaemonManager**, `AskAndMove`).

**HealthMonitor**: all methods hold one lock throughout, so each is one action.
The `u64` subtraction of l.313 is kept as an integer whose negative values are the
overflow; with `OverflowChecks` the method stops there, as a panicking build
does.  `Statistics` is the method of that name.  `results` is a history variable.

**UblkControl** models the caller (one, as the methods take `&mut self`), the ring and
the kernel.  Commands carry a tag in the model to state which completion answers
which command; the code has no such tag (all commands carry user_data 1) and no
action reads it.  Kernel and daemons are external: a command takes effect when it
completes, completions may overtake each other.  **UblkCleanup** extends it with the
scan of /dev and the two delete loops, in which every step of the ring model
is a step of the cleanup.  The scan may fail at any entry (`ScanFails`): the code then
drops the orphans it had found and tries ids 0 to 7 (`RangeIds`), so that only those are
sure to go (`Reached`).  That the control device can be opened is assumed: otherwise the
cleanup returns at once.

**NativeAdapter** models `signal` and `status` as one action each (they hold the map's
Mutex from the lookup to the last change without an await), `spawn` as fork and
insert, and `stop` as its Term, its polls and its closing Kill.  The process table
below it is external: exits, kill(2), reaping by `try_wait` or, for a dropped
child, by tokio.  A pid of the model is one process; once that is reaped a
signal to the number is recorded in `strays`, because it may be anybody's.

**CommandAdapters** models eight adapters at once; `kind` says which one a behaviour is
about.  Each command a method runs is one step, between two of which the services
and the other callers act, and each may fail to run at all.  What a tool prints is
a table from the state of the service to the words the adapter looks for
(`SystemctlStatus`, `InspectFlags`, ...; external), and each `Parse...` operator maps
these to a `DaemonStatus` by the tests of the code in their order.  `stop` is the
trait's default, a Term and polls of `status`; the adapters' own ways to take a
service down (`SystemdStop`, `ContainerRemove`, `PepitaDestroy`, `StopAndUnload`) are
actions as well, and so is `attach_tracer`, which asks for the pid.  Constants say how well the tools behave: whether commands
are refused (`Refusals`), labels contain each
other (`Contains`), names are used again (`Respawn`).  The container adapter is the kind `container` over docker
or podman and `containerd` over ctr, which prints a table; `compact` says that the tool prints JSON without
blanks, as `{{json .State}}` does.  `Readable` excludes both: there the flags are not found, and a running service reads as Stopped.  Left out: pepita's map of VMs,
which is written and never read, and `reset_failed`, which changes nothing here.
**MCCommandAdapters** has the callers' methods and the states of each tool.

**WosAdapters** models the two adapters of WOS.  The core adapter's `spawn`, `signal` and `status` are
a command of `wos-ctl` followed by a section under the lock of its table; without
`wos-ctl` the second part is all.  The simulation of duende-platform is one table; its `signal`
kills under the lock and removes the dead process under a second one (`ApplySignal`, `Reap`).
The kernel is external.  `FlipSpec` lets `wos-ctl` come and go, `Waits` lets the kernel report
waiting processes.  Priorities, names and memory limits are left out, as no method reads them again.
**MCWosAdapters** gives one caller everything and the other all but `stop`.

**RestartPolicy** keeps the policies and delays as operators (`ShouldRestart`, `DelayFor`, with the cast of
the count to i32 at a width of `CountBits`) and the program around the manager as
supervisors (external) that read and decide (`Decide`), sleep, and count (`Restart`).  The
cast turns negative, and the delay to nothing, only past 2^31 restarts, beyond the
bound `MaxRestarts`.  A multiplier is any f64 in the code and a fraction here (`Multipliers`), 0 and those below 1
included; infinite ones and NaN act as one too large, as the minimum with the maximum absorbs both, and negative ones,
for which `delay_for` panics, are left out.

**ResourceLimiter** has one action per access to the cgroup file system.  Each may fail, which ends
an `apply` and is passed over by a `remove`; the kernel's side (groups that are not empty
stay, children are born in their parent's group) is external.  A limit is set or not; its number
is left to the kernel.

**Gates** holds what decides in one step: `Check` and `Recommend` of jidoka.rs, `Analyze` of gate.rs, the
validation of a config, and what linux.rs, macos.rs, container.rs and pepita.rs of duende-platform make
of a config for their platforms (`UnitFile`, `Plist`, `RunArgs`, `VmArgs`: the limits and the restart setting
in the words of each).  What a restart setting means to systemd and docker is external.  (The adapters' `spawn`
passes a default config to these methods and not the daemon's: linux.rs l.187, macos.rs l.235,
container.rs l.253, pepita.rs l.231; wos.rs l.271 does the same.)

**Platforms** has both `detect_platform` functions over the set of markers an environment shows, `select_adapter`, the
stubs, the accessors of handles and which of them each adapter asks for.  A program spawns,
keeps its handles and is started again elsewhere.

**Metrics** has one action per atomic access; the accesses of one call to different atomics
take effect in any order, as they are Relaxed.  **DaemonMonitor** splits `collect` at its
reads of /proc, each of which may fail because the process ended or was replaced; the ring buffer and the
CPU rate, in ticks, are kept.  **DaemonTracer** samples the call a process is in and keeps the
counts, the score test (squared, so that it stays in whole numbers), the anti-patterns and the critical path.

**Harness** models duende-test/src/harness.rs with the native adapter of duende-platform below it, which keeps
no child but its number: each kill(2) is a step, and the number may be another process by then.
**LoadTester** has the users of a load test with each counter added to in a step, handlers that
panic, and the dice of chaos.rs.  **MemoryLock** models duende-mlock and memory.rs over a kernel with a limit
and a process that maps and unmaps pages, on Linux, macOS, another unix and elsewhere (`os`, fixed by the
initial state): the crates differ in where they lock at all, and only on Linux can the locks be asked for.
`secured` is a history variable.

**MCPolicies**, **MCObserve** and **MCNative** put components that share no state into one
state space each: a behaviour exercises one of them, so that the spaces add and do not multiply.

The proofs are in modules of their own, which extend the modules they are about: **PolicyProofs**
(breaker, limiter, restart policy, gates, selection), **DaemonManagerProofs**, **ObserveProofs** (health,
metrics, samples, tracer), **UblkProofs** (ring, cleanup), **NativeAdapterProofs** (adapter, harness, memory,
load test), **CommandAdaptersProofs**, **WosAdaptersProofs**, and **Sums** with what they need of sums over
finite sets.  `PROJECT.json` maps every definition to its lines of code.

## 3. Runs

| Run | Instance | Shows |
|---|---|---|
| policies | breaker: 3 threads, threshold 2, timeout 1; limiter: 2 callers, 2 pids, 3 limits; every restart policy with four multipliers, 1 supervisor; gates of up to 3 checks; 6 markers, 4 systems | `NoLostTrip`, `NoLostRecovery`, `ClosedNeverHalfOpens` under every interleaving; `ConfinedAreLimited` whatever fails half way; `RestartsFollowPolicy`; `GatesAgree`; `SelectedFits` |
| breaker_one_thread | 1 thread, threshold 4, timeout 3 | refinement of AbstractBreaker; an open circuit is left (`OpenRecovers`) |
| manager_one | 2 callers of everything, 1 daemon, 2 contexts, channel of 1 | `SendingStillValid`, `ActiveStaysRegistered` |
| manager_shutdown | 2 daemons, channel of 2; one caller unregisters and shuts down, the other registers, starts, signals, and gives up | every call returns, an accepted Term ends the run, the sweep reaches everyone |
| observe_all | health: thresholds 2 and 3, arithmetic that wraps, 9 outcomes; ring buffer of 2, 5 collects; 6 calls, 10 samples; 2 threads that record 2 durations each | `HealthIsDebounced`, `RecoveryIsTold`; `SamplesAreTrue`; `ReportsAreFounded`; `RecordingsAreKept` |
| ublk_timeouts | 1 device, 3 commands outstanding, kernel may stall | calls return, waits have an answer |
| ublk_cleanup | 2 devices, one of them in the fallback range, kernel in time, the scan may fail | `AnswerIsOwn`; the cleanup's promises |
| native_stop | adapter: 2 callers, 2 daemons, 2 processes; harness: 1 daemon, 2 tasks; load: 2 users of 2 requests; memory: 3 pages, every limit | the adapter's safety and `StopEnds`; `ShutdownMeansDown`, `ShutdownEnds`; `ReportAddsUp`; `LockHolds` |
| command_adapters | 8 adapters, 1 service; one caller spawns, stops and removes, the other signals, asks and stops | `StatusIsTrue`, `StopMeansDown`, `LoadedHasPlist` |
| wos_adapters | both adapters, 2 pids, 2 callers, with and without wos-ctl | `TablesAgree`, `KilledIsReaped`, `StopMeansDown` |

The two runs that expect a violation are in section 5.

Bounds.  Three breaker threads with a threshold of 2 let one thread sit in `close`
while another trips and a third probes, which is what the properties are about; larger
thresholds only lengthen the way there, and the proofs cover them.  One daemon with
two successive contexts and two callers is the smallest instance in which a caller
waits for room while the other unregisters, registers and hands over a new
context; a channel of one or two signals fills as sixteen do, only sooner.  Nine
outcomes with thresholds of 2 failures and 3 successes contain a failure, a recovery whose subtraction wraps, and a relapse;
the properties relate the state to the last run of equal outcomes only.
Three tags (`Tags`) let two late completions be outstanding when a third command is
sent.  Two processes and two daemons let a caller's stop of one overlap with
everything the other can do to it.  One service suffices for the command line adapters,
whose commands name one service each (the exception, labels that contain each
other, is CommandOutput.cfg), and two pids for WOS, so that two spawns overlap; two callers let each step of a method meet each
change the other or the service can make.  Two pids and two callers let the limiter's `apply` for a
child land in the group that another `remove` is emptying.  Six kinds of calls are one more than
the score of an outlier needs (its square exceeds 4 only with more than four others), ten samples are
`MinSamples`.  Two durations and two threads make the compare-and-swap of the maximum fail
both ways.  Three pages and limits from 0 to all of them let a lock be refused for each reason.  Markers
stand for the ways each platform is told by; the ones left out are read by the same
test as one that is there.  The bounds in guards are `MaxChecks` (HealthMonitor), `MaxCollects` and `MaxTicks`
(DaemonMonitor), `MaxSamples` and `MaxProcesses` (DaemonTracer), `MaxRequests` and `MaxRecordings` (Metrics),
`MaxRestarts` (RestartPolicy), `MaxGateChecks` (Gates), `RequestsPerUser`, which is the code's own (LoadTester),
`Tags` (UblkControl: a method starts only while two tags are free), `Contexts`
and `Pids` (each created once).

Deadlock checking is off where the bound on outstanding commands stops the
caller (`UblkTimeouts.cfg`), where the cleanup ends (`UblkCleanup.cfg`), where failed
spawns have used up the pids (`WosAdapters.cfg`), and in the runs that put components together, some of
which end: the bounds on outcomes, samples and recordings (`ObserveAll.cfg`), on restarts and checks
(`Policies.cfg`), and a load test that has reported (`NativeStop.cfg`).

## 4. Fairness

* breaker: weak on the clock and on the steps of a call that began (threads are
  scheduled), strong on `Poll`, which says that clients keep asking; without
  clients nothing moves the circuit, as the code has no timer;
* manager: weak on each caller's next step.  `DaemonsRun` is the contract of
  `Daemon::run` (daemon.rs l.105-109): it reads its signals and returns on
  `should_shutdown`.  `HungSpec` drops it;
* ublk: the polling thread runs and its clock advances, so that it cannot look again for ever
  (strong on `GiveUp`); nothing is asked of the kernel.  The cleanup also
  assumes a kernel that completes commands;
* native adapter: the clock of a `stop` advances (weak on `StopExpires`); nothing is asked of the
  child, the other callers or the scheduler;
* command line adapters: none, all properties are of safety; that `stop` ends is plain, as its
  expiry depends on the clock alone;
* harness: the clock of a `shutdown` advances and its task runs (weak on its own steps, `HarnessFairness`); nothing is asked of
  the daemon or of tokio's reaping;
* policies, observation: none, all their properties are of safety;
* WOS adapters: a task that waits for the table's lock gets it (weak on `Reap`).

## 5. Where the code and its documentation part

Each property below is violated when it is checked alone under its configuration; TLC stops
at the first, so a configuration with several is read by leaving all but one out.  The first two are
runs, each with a finding that quotes the line in question.

| Configuration (module) | Property | What happens |
|---|---|---|
| BreakerStuckOpen (CircuitBreaker; run breaker_stuck_open) | `OpenIsTimed` | `close` clears the instant of a later `open`: Open for ever, until `reset` |
| UblkLateAnswer (UblkControl; run ublk_late_answer) | `DeletedMeansGone` | the late completion of STOP_DEV is taken for that of DEL_DEV |
| ManagerShutdownHangs (MCDaemonManager) | `ShutdownAllReturns` | `shutdown_all` waits without a timeout for a daemon that does not read its signals |
| ManagerShutdownOk (MCDaemonManager) | `ShutdownAllCompletes` | `shutdown_all` returns Ok with daemons still running |
| LifecycleCallers (LifecycleCallers) | `StrictLifecycle` | callers that check before they update still leave the lifecycle diagram |
| BreakerRaces (BreakerHistory) | `TimeoutHonoured` | `open` writes state and instant separately: a probe on another thread uses the old instant and half-opens at once |
| | `ThresholdHonoured` | a failure decided before a `close` opens the circuit after it |
| UblkStartingDevice (UblkCleanup) | `StartingIsLeftAlone` | a device between ADD_DEV and START_DEV is deleted as an orphan |
| | `EveryOrphanIsGone` | a scan that fails loses the orphans it had found, and the range that is tried instead ends at id 7 |
| ObserveClaims (MCObserve) | `UnhealthyIsUnhealthy`, `UnhealthyIsTold` | `Unhealthy` is broadcast for a daemon that is healthy, and not for one made unhealthy by timeouts |
| | `ThresholdsDecide` | with more successes needed than failures the subtraction of health.rs l.313 overflows; with overflow checks the daemon never recovers |
| | `RecoveredCountsFailures` | the failure count of a recovery is short |
| | `TicksCountedOnce` | one monitor that samples two pids in turn takes the ticks of one from those of the other |
| | `CountsAreOfOneProcess` | the tracer stays attached to a number that is another process by now |
| | `AnomaliesAreSpikes` | a call that is seen for the first time is reported as resource exhaustion |
| | `ErrorRateIsARate`, `AverageIsBounded` | two loads with a recording in between: a rate above 1, an average above the longest |
| PolicyClaims (MCPolicies) | `ConfinedAreLimited` | `remove` and `apply` for one pid overlap: a process in a group made anew without limits |
| | `OthersStayConfined` | `remove` frees a process that has left its group for another one by then |
| | `AppliedAreLimited` | a limit whose controller is not enabled is passed over, and `apply` returns Ok |
| | `RestartsFollowPolicy` | two supervisors restart a daemon more often than its policy allows |
| | `DelaysNeverShrink` | no one checks the multiplier: one below 1 makes each delay of an "exponential backoff" (manager.rs l.139) shorter than the last |
| | `PassedIsWithin`, `LoadedIsPositive` | NaN passes the quality gate, and the validation of the CPU quota |
| | `RestartsAreAsTold` | launchd restarts a daemon of `on-failure` after a clean end too, and systemd does not know `unless-stopped` |
| | `MemoryIsLimited` | launchd is told of no bound on memory but what may be locked |
| | `HandlesOpenOwnDoor` | the wos adapter takes any handle with a pid |
| | `DetectionsAgree` | the two crates look at different markers of a container |
| NativeClaims (MCNative) | `NoneLost` | a second spawn of a daemon leaves the first process out of reach |
| | `StoppedIsNormal` | after one report of a failure, `status` says Stopped |
| | `StopFailsOnlyIfUp` | `stop` fails for a daemon that is down |
| | `OnlyDaemonsSignalled` | the harness signals a number that is another process by now |
| | `ShutdownFailsOnlyIfUp`, `HealthyIsRunning` | a zombie, or another process under the number, counts as the running daemon |
| | `PassedWasTested` | a load test all of whose users panicked has no failed request, and passes |
| | `ChaosIsAsRare` | the dice are the nanoseconds of the clock, below 10^9, over 2^32 - 1: a probability of a quarter always comes true |
| | `LockIsSeen` | `is_locked` and `is_memory_locked` are false outside Linux, and where /proc cannot be read, after any lock |
| | `LockedIsLocked` | a lock without flags says Locked |
| | `RequiredIsLocked` | `apply_memory_config` with a required lock is Ok on platforms other than Linux and macOS, with nothing locked |
| | `LocksOnlyGrow` | a lock of current pages only ends the locking of future ones |
| CommandClaims (MCCommandAdapters) | `StatusIsTrue`, `StopMeansDown` | a status command that fails over a running service reads as Stopped, and `stop` returns Ok |
| | `TracedIsRunning` | pepita's `attach_tracer` asks the handle only and makes a tracer for a VM that does not run |
| CommandOutput (MCCommandAdapters) | `StopMeansDown` | the line of a label that contains the one asked for is taken for it, and `stop` returns Ok |
| | `UnreadStopMeansDown` | ctr's table (container.rs l.338-340) has none of the flags that `parse_status` looks for, nor has JSON without blanks any but the exit code, which is how `{{json .State}}` is printed (the tests of the parser have blanks, l.543, that of the exit code has both, l.561): a running container reads as Stopped, and `stop` returns Ok |
| | `LoadedHasPlist` | a second launchd spawn of a loaded service is refused and removes its plist |
| WosClaims (MCWosAdapters) | `StopMeansDown` | a word of the kernel that the adapter does not know sends `status` to the local table, where the Term of `stop` counts as an exit |
| | `TablesAgree` | `wos-ctl` fails the second look of `spawn` for it: an entry and a handle without a process |
| | `DeadStaysDead` | Stop and Cont make a killed process Running again, in the table without `wos-ctl` and, before its removal, in the simulation |

## 6. Proofs

Every safety invariant and every action property that a run checks is stated by a theorem below, for all
values of the constants that the second column admits.

| Theorem | Assumes | Argument |
|---|---|---|
| **PolicyProofs** | | |
| `TypeCorrect` | the constants' types | inductive as it stands |
| `TripsAreKept`, `RecoveriesAreKept` | - | the properties speak of quiescent states only.  `TripPending` (`RecoveryPending`) says what holds in between: a closed circuit at its threshold has a thread that is about to open it or to clear the count.  Preserved because a thread is moved off such a step only by the step itself, which settles the matter |
| `ClosedStaysOffHalfOpen` | - | only `ProbeState` writes HalfOpen, and it reads the state again under the lock |
| `OneThreadImplementsAbstract` | `Threads = {t}` | the refinement of AbstractBreaker, step by step.  `RefInv` says what the thread may rely on between two steps of a call; the step that writes the state maps to the abstract transition, with the count that decided it, and the rest of a call stutters.  For more threads it is false (BreakerRaces) |
| `ConfinedStayLimited` | `~Overlap` | `ApplyHolds`: an `apply` that is at its n-th file has set those before it that are offered, in a group that is still there; kept because no `remove` of the same pid runs (`OneAtATime`) and groups are removed only when empty.  With `Overlap` it is false (PolicyClaims) |
| `SelectedAlwaysFits` | - | `PlacesInv`; by cases on the target and on what each adapter asks of a handle |
| `PlatformsAreToldTheSame` | - | `ConfigInv`: a config that was loaded has been validated; by cases on its restart setting and limits |
| `GatesAlwaysAgree` | - | `VerdictsInv`: for any sequence of verdicts the two ways through the checks agree.  The loops of `check` and `recommend` are recursive functions, which are shown to exist (`Iterates`) and to be what the loop computes (`Induct`, `ViolationsAre`, `RecommendSays`) |
| `RestartsAlwaysFollowPolicy` | `OneSupervisor`, `PowersMultiply` | `RestartInv`: the count and the last delay belong to the decision under way, delays of a count, rounded down, grow with it if the multiplier is no fraction below 1 (`ScaledGrows`; `^` is known to the provers by the equations that define it, `PowersMultiply`).  `OneSupervisor` also says that the daemon is not registered again and that the count is no negative i32; without the first it is false (PolicyClaims) |
| **DaemonManagerProofs** | | |
| `ManagerTypeCorrect` | the constants' types | with the next three conjunct of `MInv` |
| `UsersHaveEntries` | - | the lock discipline.  `QueuesInv`: a caller is in exactly the queues its `pc` says (`PlacesInv`, `CallsInv`), and only the head of a queue, or readers with no writer before them, has the lock (`GrantsInv`).  So `unregister`, which waits to write the map, waits for whoever waits for an entry |
| `SendsStayValid`, `ActiveStayRegistered` | - | from the discipline: nobody else is past an entry's Mutex while `signal` holds it across its wait for room, and the status `unregister` checks is read under the lock it removes under |
| **ObserveProofs** | | |
| `HealthTypeCorrect` | the thresholds' types | inductive |
| `ThresholdsAreKept` | `NeverPanics` | inductive with the types (`DecidedInv`).  `NeverPanics`: arithmetic wraps, or a recovery takes no more successes than becoming unhealthy took failures.  Otherwise it is false (ObserveClaims) |
| `RecoveriesAreTold` | - | from `DecidedInv` where nothing panics (`ToldInv`): a daemon that is unhealthy has failed as often as its threshold says, and recovers with exactly the successes it takes, so that the number told falls short of zero by the difference at most; where a step may panic, the one that tells did not |
| `HealthIsOfOutcomes` | `NeverPanics` | `OfOutcomes`: counts and flag of a daemon are those of the fold over its outcomes; the fold of one more outcome is one step more, by induction over the sequence |
| `RecordingsAreAlwaysKept` | `IsFiniteSet(MetricThreads)` | `MetricsInv`: the sum (count) is the sum over the recordings that have added to it, and the maximum is at least every one whose swap is over.  A swap that fails has seen a larger value or tries again |
| `SamplesAreAlwaysTrue` | `Pids = {p}` | `TicksInv`: the ticks of all samples add up to those up to the previous one, which are no more than the process used; `RecentInv` for the ring buffer.  With two pids it is false (ObserveClaims) |
| `HistoryIsAlwaysRecent` | - | its second part, for any pids |
| `ReportsAreAlwaysFounded` | the constants' types | `TracerInv` is the property with the types.  That an anomaly is one among more than A^2 kinds of calls, A the threshold, follows from Cauchy's inequality (`SquareOfSum`), for one call and for a group of them (`FarGroupsAreFew`) |
| **UblkProofs** | | |
| `UblkTypeCorrect` | `None` is no command and no method | inductive with the lemmas on the pieces of the methods |
| `WaitsAreAnswered` | - | inductive: a submission precedes each wait, a completion moves from one side of the disjunction to the other |
| `AnswersAreOwn`, `DeletedIsGone` | `~KernelMayStall` | `OneAtATime`: the ring holds the command waited for, or its completion, and nothing else.  With timeouts both are false (UblkLateAnswer) |
| `SteadySurvive`, `OrphansGo`, `CleanedAreDeleted` | `~KernelMayStall` | `CleanupInv`: with the ring's invariant, a device that was an orphan is deleted or still to come in the scan, the list or the range, unless the scan failed and the range does not hold it (`OrphansPending`); no command is ever about a steady device that finds it deletable (`SteadyUntouched`); and the count is of the deletes that succeeded, with the one under way (`AllCounted`) |
| `CleanupTypeCorrect` | also `IsFiniteSet(Devices)` | `CountInv`: what was counted and what is still to be looked at are together no more than the devices |
| **NativeAdapterProofs** | | |
| `NativeTypeCorrect` | - | includes that an entry's child has not been reaped.  Needs `Slots`, `Calls`, `Born`, `OnePid`: entries are handles that were given out and no two handles share a pid |
| `SignalsStayHome`, `NoneIsLost`, `StoppedIsDead` | `~Respawn` | `OneId`: ids are unique among handles and spawns, so the child found under the id is the process of the pid that is signalled.  With `Respawn` the second is false (NativeClaims) |
| `ShutdownIsDown` | - | a daemon that has left `running` never comes back (`LifeGoesOn`), and each return of Ok follows an answer that a running daemon does not give (`HandlesAreOfBorn` keeps unborn ones out) |
| `LocksAreKept` | the constants' types | `secured` implies that all mapped pages are locked and future ones will be; a lock that is refused changes neither |
| `ReportsAddUp` | finitely many users | `LoadInv`: each counter is the sum over the users of what they have counted, where a user between two counters is one short in the second (`Counting`); and once all have joined nobody is between.  Percentiles are order statistics of the sorted latencies |
| **CommandAdaptersProofs** | | |
| `CommandTypeCorrect` | `ToolsAreKnown` | inductive; `StatusIsTyped`: no state with a known word falls between the arms of a parser |
| `CommandStopMeansDown` | `ToolsAreKnown`; the statement is of `Readable` tools | only a poll of the caller itself ends its `stop` with Ok (`OnlyPollsSucceed`), and a terminal status is never parsed from what is printed of a service with a process (`TerminalIsDown`, by cases on the adapter and the state) |
| `StatusesAreTrue` | `ToolsAreKnown` | one lemma for each adapter's tool and parser (`SystemdSaysTrue`, ...) |
| `PlistsAreKept` | `OneOwner` | `PlistInv`: between the commands of a spawn, and of a removal, its service is not loaded (`Underway`).  `OneOwner`: one caller spawns and removes, names are not used again, a bootout is not refused.  With reuse it is false (CommandOutput) |
| **WosAdaptersProofs** | | |
| `WosTypeCorrect`, `PidsStayOwn`, `TablesStayAgreed`, `ZombiesAreReaped` | the constants' types | conjuncts of the inductive `IInv`, which adds that pids in use are below the counter (`PidsAreTaken`), that an entry is made only of a process the kernel has (`CreatedFirst`), and which adapter is at which section (`SectionsFit`) |
| `WosStopMeansDown` | `~Waits` | with `wos-ctl` the table is never asked, so that only an answer of the kernel ends a `stop` with Ok (`OnlyQueriesSucceed`) |

The constants' assumptions are the named ASSUMEs of the modules.  `ToolsAreKnown` is what the code takes for
granted of the tools: status commands fail only for services that are not there, labels do not contain each other, each state has a
word that is looked for.  The run command_adapters has it; where it does not hold the property is false
(CommandClaims, CommandOutput).  `Readable` is in the statements: over ctr, and where JSON has no blanks, a
Stopped says nothing, which leaves of `StopMeansDown` for the docker of the day what CommandOutput shows to fail.

Sums and sequences.  The library's induction theorems take the statement to be proved as an operator, which
the installed provers cannot instantiate.  An induction here is over a set instead: the numbers (or, in
`SubsetInduction` of **Sums**, the subsets of a finite set) for which a statement holds, or the least number
for which it fails.  That gives what the folds of the health monitor and the recursive functions of the gates compute, and
for every finite set what its sums are, which the library defines with a CHOOSE for the next element:
adding an element, joining two sets, comparing, and Cauchy's inequality.

What the proofs changed.  `AnomaliesAreOutliers` said that a spike is on the critical path, the five calls that
are made most often.  TLC agrees for six kinds of calls, and the proof failed: six that tie far above
the rest leave one off the path.  That takes at least 6 (A^2 + 1) kinds (`SpikesAreOnThePath`),
30 with the threshold of 2, and the property says so now.  `ThresholdsAreKept` was stated of wrapping arithmetic only, and holds with
overflow checks too for thresholds like the default ones.

Only model-checked: what is temporal under fairness (`OpenRecovers`, `CallsReturn`, `TermEndsRun`, `ListedEndsRun`,
`CallReturns`, `CleanupTerminates`, `StopEnds`, `ShutdownEnds`, `KilledIsReaped`), which is out of the prover's
reach.

## 7. Not modelled

Left out of the modelled components: an entry's health and metrics in the manager, which it stores and hands out;
the gauges of the metrics other than CPU, single stores that nothing is derived from; `set_priority`
and `list_processes` of WOS and pepita's map of VMs, which no other method reads; the tracer's wait
channels; memory and I/O numbers of a sample, which are copied.

launchd.rs `attach_tracer` looks for `"PID" = n;` in what `launchctl list` prints and parses the rest of the line with the
semicolon, so that it never finds a number there; the model has it fail in that case as the code does.

Not planned: error types and formatting, reading TOML, and the layout of the ublk structures, which
have no behaviour over time; the delays and the CPU load of chaos.rs, which only take time.

What would come next: an abstract manager (one step per call) refined by **DaemonManager**; with reuse of names, which
of the adapters' promises survive; the range of threshold settings for which the tracer's score can
be reached at all by the number of system calls there are.
