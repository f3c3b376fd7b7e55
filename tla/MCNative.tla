------------------------------- MODULE MCNative -----------------------------
(***************************************************************************)
(* Processes as children: the native adapter of duende-core, the harness   *)
(* over the one of duende-platform, the load test that is run against a    *)
(* daemon, and the locks on a daemon's memory.  They share nothing: a      *)
(* behaviour exercises one of them.                                        *)
(***************************************************************************)
EXTENDS NativeAdapter, Harness, LoadTester, MemoryLock

VARIABLE testing

NativeInit ==
    /\ testing \in {"adapter", "harness", "load", "memory"}
    /\ Init /\ HarnessInit /\ LoadInit /\ LockInit
    /\ testing # "memory" => os = "linux" /\ mapped = Pages /\ limit = Unbounded

NativeNext ==
    /\ UNCHANGED testing
    /\ \/ testing = "adapter" /\ Next
          /\ UNCHANGED <<harnessVars, loadVars, lockVars>>
       \/ testing = "harness" /\ HarnessNext
          /\ UNCHANGED <<vars, loadVars, lockVars>>
       \/ testing = "load" /\ LoadNext
          /\ UNCHANGED <<vars, harnessVars, lockVars>>
       \/ testing = "memory" /\ LockNext
          /\ UNCHANGED <<vars, harnessVars, loadVars>>

NativeVars == <<testing, vars, harnessVars, loadVars, lockVars>>

NativeSpec == NativeInit /\ [][NativeNext]_NativeVars /\ HarnessFairness
              /\ \A c \in Callers : WF_vars(StopExpires(c))

=============================================================================
