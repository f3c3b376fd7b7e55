---------------------------- MODULE RestartPolicy ---------------------------
(***************************************************************************)
(* duende-core/src/manager.rs: the restart policy and the restart count of *)
(* a manager's entry.  The manager restarts nothing itself: the program    *)
(* around it asks for policy and count, decides with should_restart, waits *)
(* for restart_delay and counts with increment_restart_count, each a call  *)
(* under the entry's lock.  That program is external: supervisors, of      *)
(* which the code allows any number.  A multiplier that is infinite or no  *)
(* number is as one too large, as min with the maximum absorbs both; one   *)
(* below 0, with which delay_for panics, is left out.                      *)
(*                                                                         *)
(* restarts is a history variable: the reason and the delay of each        *)
(* restart since the daemon was registered.                                *)
(***************************************************************************)
EXTENDS Integers, Sequences

CONSTANTS
    Supervisors,
    InitialDelay, MaxDelay, \* of BackoffConfig
    Multipliers,    \* of BackoffConfig as fractions, below 1 as well: the code takes any
    MaxRetries,     \* the limits of MaxRetries and BackoffConfig
    CountBits,      \* the width of restart_count (32 in the code)
    Reregisters,    \* TRUE: a daemon may be registered anew under a supervisor that waits
    MaxRestarts     \* bound on the restarts of a registration

ASSUME RestartAssumption ==
    /\ InitialDelay \in Nat /\ MaxDelay \in Nat
    /\ Multipliers \subseteq [num: Nat, den: Nat \ {0}]
    /\ MaxRetries \subseteq Nat
    /\ CountBits \in Nat \ {0} /\ MaxRestarts \in 0..(2 ^ CountBits - 1)
    /\ Reregisters \in BOOLEAN

ExitReason == {"Graceful", "Signal", "Error", "ResourceExhausted", "PolicyViolation"}
Failure    == {"Error", "ResourceExhausted"}

Policy == [kind: {"Never", "Always", "OnFailure"}]
     \cup [kind: {"MaxRetries"}, max_retries: MaxRetries]
     \cup [kind: {"WithBackoff"}, max_retries: MaxRetries, multiplier: Multipliers]

-----------------------------------------------------------------------------

ShouldRestart_OffByOne(policy, reason, count) ==
    \/ policy.kind = "Always"
    \/ policy.kind = "OnFailure" /\ reason \in Failure
    \/ policy.kind = "MaxRetries" /\ count <= policy.max_retries
    \/ policy.kind = "WithBackoff" /\ count <= policy.max_retries /\ reason \in Failure

\* RestartPolicy::should_restart
ShouldRestart(policy, reason, count) ==
    \/ policy.kind = "Always"
    \/ policy.kind = "OnFailure" /\ reason \in Failure
    \/ policy.kind = "MaxRetries" /\ count < policy.max_retries
    \/ policy.kind = "WithBackoff" /\ count < policy.max_retries /\ reason \in Failure

\* restart_count as i32
AsI32(count) == IF count < 2 ^ (CountBits - 1) THEN count ELSE count - 2 ^ CountBits

Power(b, n) == IF n = 0 THEN 1 ELSE b ^ n

\* The initial delay times a power of a fraction, rounded down to whole units.
Scaled(num, den, n) == (InitialDelay * Power(num, n)) \div Power(den, n)

\* BackoffConfig::delay_for.  A negative power of 0 is infinite.
DelayFor(m, count) ==
    LET n   == AsI32(count)
        exp == IF n >= 0 THEN Scaled(m.num, m.den, n)
               ELSE IF m.num = 0 THEN MaxDelay ELSE Scaled(m.den, m.num, -n)
    IN  IF exp < MaxDelay THEN exp ELSE MaxDelay

\* RestartPolicy::restart_delay: a second where there is no backoff.
RestartDelay(policy, count) ==
    IF policy.kind = "WithBackoff" THEN DelayFor(policy.multiplier, count) ELSE 1

-----------------------------------------------------------------------------

VARIABLES
    restart_policy, restart_count,  \* of the entry
    running, exit_reason,           \* of the daemon
    waiting,                        \* per supervisor, the delay it sleeps, or Awake
    restarts

restartVars == <<restart_policy, restart_count, running, exit_reason, waiting, restarts>>

Awake == -1

RestartTypeOK ==
    /\ restart_policy \in Policy /\ restart_count \in 0..(2 ^ CountBits - 1)
    /\ running \in BOOLEAN /\ exit_reason \in ExitReason
    /\ waiting \in [Supervisors -> Nat \cup {Awake}]
    /\ restarts \in Seq([reason: ExitReason, delay: Nat])

\* ManagedDaemon::new and with_restart_policy: an entry as register makes it.
NewEntry(policy, count, log) == policy \in Policy /\ count = 0 /\ log = <<>>

RestartInit ==
    /\ NewEntry(restart_policy, restart_count, restarts)
    /\ running = TRUE /\ exit_reason = "Graceful"
    /\ waiting = [s \in Supervisors |-> Awake]

\* The daemon's run ends.
Ends(reason) ==
    /\ running
    /\ running' = FALSE /\ exit_reason' = reason
    /\ UNCHANGED <<restart_policy, restart_count, waiting, restarts>>

\* unregister, which an active daemon refuses, and register, with whatever policy.
Reregister ==
    /\ ~running /\ (Reregisters \/ \A s \in Supervisors : waiting[s] = Awake)
    /\ NewEntry(restart_policy', restart_count', restarts')
    /\ running' = TRUE
    /\ UNCHANGED <<exit_reason, waiting>>

\* get_restart_policy, get_restart_count and should_restart over a daemon that ended.
Decide(s) ==
    /\ waiting[s] = Awake /\ ~running
    /\ Len(restarts) < MaxRestarts
    /\ ShouldRestart(restart_policy, exit_reason, restart_count)
    /\ waiting' = [waiting EXCEPT ![s] = RestartDelay(restart_policy, restart_count)]
    /\ UNCHANGED <<restart_policy, restart_count, running, exit_reason, restarts>>

\* increment_restart_count, and the next run.
Restart(s) ==
    /\ waiting[s] # Awake /\ restart_count < 2 ^ CountBits - 1
    /\ restart_count' = restart_count + 1
    /\ running' = TRUE
    /\ restarts' = Append(restarts, [reason |-> exit_reason, delay |-> waiting[s]])
    /\ waiting' = [waiting EXCEPT ![s] = Awake]
    /\ UNCHANGED <<restart_policy, exit_reason>>

RestartNext ==
    \/ \E reason \in ExitReason : Ends(reason)
    \/ Reregister
    \/ \E s \in Supervisors : Decide(s) \/ Restart(s)

RestartSpec == RestartInit /\ [][RestartNext]_restartVars

-----------------------------------------------------------------------------

Backs == restart_policy.kind = "WithBackoff"
Grows == Backs => restart_policy.multiplier.num >= restart_policy.multiplier.den

(* RestartPolicy l.29-42, BackoffConfig l.78-86: a daemon with one          *)
(* supervisor is restarted for the reasons its policy names, as often as it *)
(* allows, after delays that never exceed the maximum, whatever the         *)
(* multiplier, and never shrink unless it is below 1.                       *)
RestartsFollowPolicy ==
    /\ restart_policy.kind = "Never" => restarts = <<>>
    /\ restart_policy.kind \in {"OnFailure", "WithBackoff"} =>
           \A i \in DOMAIN restarts : restarts[i].reason \in Failure
    /\ restart_policy.kind \in {"MaxRetries", "WithBackoff"} =>
           Len(restarts) <= restart_policy.max_retries
    /\ Grows => \A i, j \in DOMAIN restarts : i < j => restarts[i].delay <= restarts[j].delay
    /\ Backs => \A i \in DOMAIN restarts : restarts[i].delay <= MaxDelay

(* "exponential backoff" (manager.rs l.139) of a multiplier that no one     *)
(* checks (l.122): delays shrink if it is below 1.                          *)
DelaysNeverShrink ==
    \A i, j \in DOMAIN restarts : i < j => restarts[i].delay <= restarts[j].delay

=============================================================================
