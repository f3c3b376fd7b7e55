------------------------------- MODULE MCObserve ----------------------------
(***************************************************************************)
(* What duende keeps about a daemon it watches: its health, its samples,   *)
(* its calls, its metrics.  The four share nothing: a behaviour exercises  *)
(* one of them, so that their state spaces add and do not multiply.        *)
(***************************************************************************)
EXTENDS HealthMonitor, DaemonMonitor, DaemonTracer, Metrics

VARIABLE watching

ObserveInit ==
    /\ watching \in {"health", "samples", "calls", "metrics"}
    /\ Init /\ MonitorInit /\ TracerInit /\ MetricsInit

ObserveNext ==
    /\ UNCHANGED watching
    /\ \/ watching = "health" /\ Next
          /\ UNCHANGED <<monitorVars, tracerVars, metricsVars>>
       \/ watching = "samples" /\ MonitorNext
          /\ UNCHANGED <<vars, tracerVars, metricsVars>>
       \/ watching = "calls" /\ TracerNext
          /\ UNCHANGED <<vars, monitorVars, metricsVars>>
       \/ watching = "metrics" /\ MetricsNext
          /\ UNCHANGED <<vars, monitorVars, tracerVars>>

ObserveSpec == ObserveInit /\ [][ObserveNext]_<<watching, vars, monitorVars, tracerVars, metricsVars>>

=============================================================================
