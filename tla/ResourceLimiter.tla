--------------------------- MODULE ResourceLimiter --------------------------
(***************************************************************************)
(* duende-policy/src/limiter.rs: a process gets a cgroup named after its   *)
(* pid, whose limits are files written one after the other before the      *)
(* process is moved into it.  Each access to the file system is a step and *)
(* may fail; the processes fork, exit and have their pids used again, and  *)
(* other callers (the methods take &self) work on the same groups.         *)
(*                                                                         *)
(* The kernel (external): a new group has no limit, a child is born in its *)
(* parent's group, a group with processes cannot be removed.               *)
(***************************************************************************)
EXTENDS Integers, Sequences

CONSTANTS
    GroupPids,
    LimitCallers,
    LimitsWanted,   \* the files of the limits that are not 0 (unlimited)
    LimitsOffered,  \* the files a group has: its controllers are enabled
    Overlap         \* TRUE: one pid's apply and remove may run at the same time

\* The files of apply, in its order.
LimitFiles == <<"memory.max", "memory.swap.max", "cpu.max", "pids.max">>

\* Where a process is that is in no group of ours, and one that does not run.
Root == 0
Gone == -1
Idle == [op |-> "idle"]

ASSUME LimiterAssumption ==
    /\ Overlap \in BOOLEAN
    /\ LimitsWanted \subseteq {"memory.max", "memory.swap.max", "cpu.max", "pids.max"}
    /\ GroupPids \subseteq Nat \ {0}

VARIABLES
    groups,     \* the cgroups <prefix>-<pid> there are, by pid
    set,        \* the limits that are set in each
    member,     \* the cgroup each process is in
    call        \* what each caller is at

limiterVars == <<groups, set, member, call>>

Calls == {Idle}
    \cup [op: {"apply"}, pid: GroupPids, at: 1..(Len(LimitFiles) + 1)]
    \cup [op: {"remove"}, pid: GroupPids, left: SUBSET GroupPids]

LimiterTypeOK ==
    /\ groups \subseteq GroupPids
    /\ set \in [GroupPids -> SUBSET LimitsWanted]
    /\ member \in [GroupPids -> groups \cup {Root, Gone}]
    /\ call \in [LimitCallers -> Calls]

LimiterInit ==
    /\ groups = {} /\ set = [g \in GroupPids |-> {}]
    /\ member \in [GroupPids -> {Root, Gone}]
    /\ call = [c \in LimitCallers |-> Idle]

-----------------------------------------------------------------------------

\* A process starts, outside or as a child of another one.
Fork(p) ==
    /\ member[p] = Gone
    /\ \E g \in { member[q] : q \in GroupPids } \cup {Root} :
           g # Gone /\ member' = [member EXCEPT ![p] = g]
    /\ UNCHANGED <<groups, set, call>>

Exit(p) ==
    /\ member[p] # Gone
    /\ member' = [member EXCEPT ![p] = Gone]
    /\ UNCHANGED <<groups, set, call>>

Apart(op, p) == Overlap \/ \A c \in LimitCallers : call[c].op = op => call[c].pid # p

Returns(c) == call' = [call EXCEPT ![c] = Idle]

-----------------------------------------------------------------------------

\* create_dir_all, unless the directory is there; or it fails.
Apply(c, p) ==
    /\ call[c] = Idle /\ Apart("remove", p)
    /\ \/ /\ groups' = groups \cup {p}
          /\ call' = [call EXCEPT ![c] = [op |-> "apply", pid |-> p, at |-> 1]]
       \/ p \notin groups /\ UNCHANGED <<groups, call>>
    /\ UNCHANGED <<set, member>>

Applying(c) == call[c].op = "apply"

Written(c) == LimitFiles[call[c].at]

\* A limit of 0 is none; a file that is not there is passed over.
WriteLimit(c) ==
    /\ Applying(c) /\ call[c].at <= Len(LimitFiles)
    /\ \/ /\ call' = [call EXCEPT ![c].at = @ + 1]
          /\ set' = IF call[c].pid \in groups /\ Written(c) \in LimitsWanted \cap LimitsOffered
                    THEN [set EXCEPT ![call[c].pid] = @ \cup {Written(c)}]
                    ELSE set
       \/ /\ Written(c) \in LimitsWanted
          /\ Returns(c) /\ UNCHANGED set
    /\ UNCHANGED <<groups, member>>

Move_Early(c) ==
    /\ Applying(c) /\ call[c].at >= Len(LimitFiles)
    /\ Returns(c)
    /\ \/ /\ call[c].pid \in groups /\ member[call[c].pid] # Gone
          /\ member' = [member EXCEPT ![call[c].pid] = call[c].pid]
       \/ UNCHANGED member
    /\ UNCHANGED <<groups, set>>

\* cgroup.procs: Ok with the process in its group, or an error and it is where it was.
Move(c) ==
    /\ Applying(c) /\ call[c].at = Len(LimitFiles) + 1
    /\ Returns(c)
    /\ \/ /\ call[c].pid \in groups /\ member[call[c].pid] # Gone
          /\ member' = [member EXCEPT ![call[c].pid] = call[c].pid]
       \/ UNCHANGED member
    /\ UNCHANGED <<groups, set>>

-----------------------------------------------------------------------------

\* Nothing to remove is Ok at once; processes that cannot be read are none.
RemoveGroup(c, p) ==
    /\ call[c] = Idle /\ Apart("apply", p) /\ p \in groups
    /\ \E procs \in {{}, { q \in GroupPids : member[q] = p }} :
           call' = [call EXCEPT ![c] = [op |-> "remove", pid |-> p, left |-> procs]]
    /\ UNCHANGED <<groups, set, member>>

Removing(c) == call[c].op = "remove"

\* By its number, wherever the process of that number is now; errors are ignored.
MoveToRoot(c) ==
    /\ Removing(c)
    /\ \E q \in call[c].left :
           /\ call' = [call EXCEPT ![c].left = @ \ {q}]
           /\ \/ member[q] # Gone /\ member' = [member EXCEPT ![q] = Root]
              \/ UNCHANGED member
    /\ UNCHANGED <<groups, set>>

\* What the kernel asks of a group to be removed.
Emptied(g) == \A q \in GroupPids : member[q] # g

RemoveDir(c) ==
    /\ Removing(c) /\ call[c].left = {}
    /\ Returns(c)
    /\ \/ /\ call[c].pid \in groups /\ Emptied(call[c].pid)
          /\ groups' = groups \ {call[c].pid}
          /\ set' = [set EXCEPT ![call[c].pid] = {}]
       \/ UNCHANGED <<groups, set>>
    /\ UNCHANGED member

LimiterNext ==
    \/ \E p \in GroupPids : Fork(p) \/ Exit(p)
    \/ \E c \in LimitCallers :
        \/ \E p \in GroupPids : Apply(c, p) \/ RemoveGroup(c, p)
        \/ WriteLimit(c) \/ Move(c) \/ MoveToRoot(c) \/ RemoveDir(c)

LimiterSpec == LimiterInit /\ [][LimiterNext]_limiterVars

-----------------------------------------------------------------------------

(* apply (l.132-223): whatever fails half way and whoever else is at work,  *)
(* no process runs in a group that lacks a limit the kernel offers for it.  *)
ConfinedAreLimited ==
    \A p \in GroupPids :
        member[p] \notin {Root, Gone} => LimitsWanted \cap LimitsOffered \subseteq set[member[p]]

(* remove (l.248): it frees the processes of its own group only.            *)
OthersStayConfined ==
    [][\A p \in GroupPids :
           member[p] \notin {Root, Gone} /\ member'[p] = Root =>
               \E c \in LimitCallers : Removing(c) /\ call[c].pid = member[p]]_limiterVars

(* ResourceLimits l.26-37: a limit that was asked for is set once apply     *)
(* succeeds (memory.max included where its controller is not enabled).      *)
AppliedAreLimited ==
    \A p \in GroupPids : member[p] = p => LimitsWanted \subseteq set[p]

=============================================================================
