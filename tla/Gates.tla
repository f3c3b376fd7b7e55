--------------------------------- MODULE Gates ------------------------------
(***************************************************************************)
(* The two gates of duende-policy, and the one every configuration passes. *)
(* jidoka.rs: checks run in the order they were added, all of them or up   *)
(* to the first violation, and a recommendation put together from the      *)
(* violations.  gate.rs: four measures against their thresholds, two of    *)
(* them floating point numbers.  config.rs of duende-core: what a config   *)
(* must be to be loaded; and what linux.rs, macos.rs, container.rs and     *)
(* pepita.rs of duende-platform tell their platforms of a config.  What a  *)
(* check makes of the evidence is external: its verdict.                   *)
(***************************************************************************)
EXTENDS Integers, Sequences, SequencesExt

CONSTANTS
    MaxGateChecks,  \* bound on the checks of a gate
    Measures        \* the values of measures and thresholds

ASSUME GatesAssumption == MaxGateChecks \in Nat /\ Measures \subseteq Nat

ViolationKind == {"Invariant", "Precondition", "Postcondition", "ResourceLeak", "Timeout"}
Passes == "passes"
NaN    == -1

GateConfig == [max_complexity: Measures, satd_tolerance: Measures,
               dead_code_max_percent: Measures, min_quality_score: Measures]
QualityAnalysis == [max_complexity: Measures, satd_count: Measures,
                    dead_code_percent: Measures \cup {NaN}, quality_score: Measures \cup {NaN}]

-----------------------------------------------------------------------------

\* recommend: a sentence per violation; dedup drops one that repeats the one before it.
Recommend(violations) ==
    LET said[i \in 0..Len(violations)] ==
            IF i = 0 THEN <<>>
            ELSE IF said[i - 1] # <<>> /\ Last(said[i - 1]) = violations[i] THEN said[i - 1]
            ELSE Append(said[i - 1], violations[i])
    IN  said[Len(violations)]

\* The violations of the checks in order; what the checks after a stop would say is not asked.
Violations_StopsLate(verdicts, stop_on_first) ==
    LET found[i \in 0..Len(verdicts)] ==
            IF i = 0 THEN <<>>
            ELSE IF verdicts[i] = Passes \/ (stop_on_first /\ Len(found[i - 1]) > 1) THEN found[i - 1]
            ELSE Append(found[i - 1], verdicts[i])
    IN  found[Len(verdicts)]

Violations(verdicts, stop_on_first) ==
    LET found[i \in 0..Len(verdicts)] ==
            IF i = 0 THEN <<>>
            ELSE IF verdicts[i] = Passes \/ (stop_on_first /\ found[i - 1] # <<>>) THEN found[i - 1]
            ELSE Append(found[i - 1], verdicts[i])
    IN  found[Len(verdicts)]

\* JidokaGate::check
Check(verdicts, stop_on_first) ==
    LET violations == Violations(verdicts, stop_on_first)
    IN  [violations |-> violations, recommendation |-> Recommend(violations)]

\* JidokaResult::passed
Passed(r) == r.violations = <<>>

\* No comparison with a NaN is true.
Exceeds(x, y) == x # NaN /\ y # NaN /\ x > y

\* QualityGate::analyze
Analyze(c, a) ==
         { v \in {"Complexity"}    : a.max_complexity > c.max_complexity }
    \cup { v \in {"TechnicalDebt"} : a.satd_count > c.satd_tolerance }
    \cup { v \in {"DeadCode"}      : Exceeds(a.dead_code_percent, c.dead_code_max_percent) }
    \cup { v \in {"QualityScore"}  : Exceeds(c.min_quality_score, a.quality_score) }

\* The parts of a DaemonConfig that validate and the platforms look at; a name is "",
\* or of letters, digits, hyphens and underscores, or not.
WholeCpu       == 100
Mebi           == 2     \* bytes in a MiB, of which some limits are not a multiple
ResourceConfig == [memory_bytes: Measures, cpu_quota_percent: Measures \cup {NaN, WholeCpu},
                   pids_max: Measures]
Restarting     == {"never", "on-failure", "always", "unless-stopped"}
DaemonConfig   == [name: {"", "plain", "odd"}, binary_path: {"", "path"},
                   resources: ResourceConfig, restart: Restarting]

\* ResourceConfig::validate: none may be 0, but cpu_quota_percent <= 0.0 is false of a NaN.
ValidateResources(r) ==
    /\ r.memory_bytes # 0
    /\ ~(r.cpu_quota_percent # NaN /\ r.cpu_quota_percent <= 0)
    /\ r.pids_max # 0

\* DaemonConfig::validate
Validate(c) == c.name = "plain" /\ c.binary_path # "" /\ ValidateResources(c.resources)

(* What the platforms are told of a config: the limits, 0 for none, and     *)
(* after which ends of the service they will restart it.                    *)

ServiceEnds == {"clean", "failed"}

\* What a Restart= directive makes systemd do: it ignores the line "unless-stopped".
SystemdRestarts(directive) ==
    { e \in ServiceEnds : directive = "always" \/ (directive = "on-failure" /\ e = "failed") }

\* What --restart makes docker do.
DockerRestarts(policy) ==
    { e \in ServiceEnds : policy \in {"always", "unless-stopped"} \/ (policy = "on-failure" /\ e = "failed") }

\* A quota of a whole CPU or more, or that is no number, is not set.
CpuQuota(r) == IF r.cpu_quota_percent \in 1..(WholeCpu - 1) THEN r.cpu_quota_percent ELSE 0

\* LinuxAdapter::generate_unit_file
UnitFile(c) ==
    [memory   |-> c.resources.memory_bytes,
     cpu      |-> CpuQuota(c.resources),
     pids     |-> c.resources.pids_max,
     restarts |-> SystemdRestarts(c.restart)]

\* launchd restarts a service with KeepAlive after every end.
KeepAlive(c) == c.restart # "never"

\* MacOSAdapter::generate_plist; its MemoryLock bounds what is locked only.
Plist(c) ==
    [memory |-> 0, cpu |-> 0, pids |-> 0, restarts |-> { e \in ServiceEnds : KeepAlive(c) }]

\* ContainerAdapter::build_run_args
RunArgs(c) ==
    [memory   |-> c.resources.memory_bytes,
     cpu      |-> CpuQuota(c.resources),
     pids     |-> c.resources.pids_max,
     restarts |-> DockerRestarts(c.restart)]

\* PepitaAdapter::build_run_args: memory in whole MiB, one CPU for each begun hundred
\* percent; nothing limits processes, nothing is restarted.
VmArgs(c) ==
    [memory   |-> (c.resources.memory_bytes \div Mebi) * Mebi,
     cpu      |-> WholeCpu,
     pids     |-> 0,
     restarts |-> {}]

Told(c) == [linux |-> UnitFile(c), macos |-> Plist(c), container |-> RunArgs(c), pepita |-> VmArgs(c)]

-----------------------------------------------------------------------------

VARIABLES
    checks,     \* how many checks the gate has
    last        \* the last call and what it returned

gateVars == <<checks, last>>

Nothing == [gate |-> "none"]

\* JidokaGate::new
GateInit == checks = 0 /\ last = Nothing

AddCheck == checks < MaxGateChecks /\ checks' = checks + 1 /\ last' = Nothing

\* A gate keeps nothing of a call: one per set of checks will do.
\* The same evidence to a gate that stops on the first violation and to one that does not.
CheckEvidence ==
    /\ last = Nothing
    /\ \E verdicts \in [1..checks -> ViolationKind \cup {Passes}] :
           last' = [gate |-> "jidoka", verdicts |-> verdicts,
                    first |-> Check(verdicts, TRUE), all |-> Check(verdicts, FALSE)]
    /\ UNCHANGED checks

AnalyzeQuality ==
    /\ last = Nothing
    /\ \E c \in GateConfig, a \in QualityAnalysis :
           last' = [gate |-> "quality", config |-> c, analysis |-> a, violations |-> Analyze(c, a)]
    /\ UNCHANGED checks

\* DaemonConfig::load: a file that cannot be read or parsed is an error too.
LoadConfig ==
    /\ last = Nothing
    /\ \E c \in DaemonConfig, legible \in BOOLEAN :
           last' = [gate |-> "config", config |-> c, loaded |-> legible /\ Validate(c)]
    /\ UNCHANGED checks

GateNext == AddCheck \/ CheckEvidence \/ AnalyzeQuality \/ LoadConfig

GateSpec == GateInit /\ [][GateNext]_gateVars

-----------------------------------------------------------------------------

(* check (l.34-61): for every evidence the two kinds of gate agree whether  *)
(* to stop, the one that stops on the first violation says what the other   *)
(* says first, and every kind of violation has its recommendation, none of  *)
(* them twice in a row.                                                     *)
VerdictsAgree ==
    last.gate = "jidoka" =>
        /\ Passed(last.first) <=> Passed(last.all)
        /\ IsPrefix(last.first.violations, last.all.violations)
        /\ IsPrefix(last.first.recommendation, last.all.recommendation)
        /\ Len(last.first.violations) <= 1
        /\ ToSet(last.all.recommendation) = ToSet(last.verdicts) \ {Passes}
        /\ \A i \in 1..(Len(last.all.recommendation) - 1) :
               last.all.recommendation[i] # last.all.recommendation[i + 1]

\* After which ends a daemon of a restart setting is to run again (config.rs l.321-334).
Wanted(restart) ==
    { e \in ServiceEnds : restart \in {"always", "unless-stopped"} \/ (restart = "on-failure" /\ e = "failed") }

(* Where two platforms limit the same resource of a config that was loaded, *)
(* they limit it to the same, in whole units; systemd and docker bound the  *)
(* memory and the processes of all of them; no platform restarts a daemon   *)
(* that is never to be, and all but the VMs restart one that failed and is  *)
(* to be restarted on failure or always.                                    *)
PlatformsAgree ==
    last.gate = "config" /\ last.loaded =>
        LET c == last.config  told == Told(c) IN
        /\ \A k, l \in DOMAIN told :
               /\ told[k].memory > 0 /\ told[l].memory > 0 => told[k].memory \div Mebi = told[l].memory \div Mebi
               /\ told[k].cpu \in 1..(WholeCpu - 1) /\ told[l].cpu > 0 => told[k].cpu <= told[l].cpu
               /\ told[k].pids > 0 /\ told[l].pids > 0 => told[k].pids = told[l].pids
        /\ \A k \in {"linux", "container"} : told[k].memory > 0 /\ told[k].pids > 0
        /\ c.restart = "never" => \A k \in DOMAIN told : told[k].restarts = {}
        /\ c.restart \in {"on-failure", "always"} =>
               \A k \in {"linux", "macos", "container"} : "failed" \in told[k].restarts

(* A gate, a config and the platforms do not contradict each other.         *)
GatesAgree == VerdictsAgree /\ PlatformsAgree

(* RestartPolicy l.321-334: "Restart on failure only.", "Restart unless     *)
(* stopped manually.": what a platform that restarts is told is what the    *)
(* config says.                                                             *)
RestartsAreAsTold ==
    last.gate = "config" /\ last.loaded =>
        \A k \in {"linux", "macos", "container"} :
            Told(last.config)[k].restarts = Wanted(last.config.restart)

(* "Memory limit in bytes." (config.rs l.153): the memory of a daemon is    *)
(* bounded on every platform.                                               *)
MemoryIsLimited ==
    last.gate = "config" /\ last.loaded =>
        \A k \in DOMAIN Told(last.config) : Told(last.config)[k].memory > 0

(* GateConfig l.13-20: a gate that passes keeps every measure within its    *)
(* threshold, a measure that is not a number included.                      *)
PassedIsWithin ==
    last.gate = "quality" /\ last.violations = {} =>
        /\ last.analysis.dead_code_percent \in 0..last.config.dead_code_max_percent
        /\ last.analysis.quality_score >= last.config.min_quality_score

(* "cpu_quota_percent must be positive" (config.rs l.253), of every config  *)
(* that was loaded.                                                         *)
LoadedIsPositive ==
    last.gate = "config" /\ last.loaded => last.config.resources.cpu_quota_percent > 0

=============================================================================
