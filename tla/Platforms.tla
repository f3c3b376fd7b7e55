------------------------------- MODULE Platforms ----------------------------
(***************************************************************************)
(* Which adapter a daemon gets and whose handles it takes: the two         *)
(* detect_platform functions, select_adapter with its stubs, the handles   *)
(* and their accessors.  Handles of duende-core are serializable: they     *)
(* outlive the program that made them, and the next one may be started     *)
(* where the markers of the environment are others.                        *)
(***************************************************************************)
EXTENDS Naturals

CONSTANT Markers    \* the environment variables and files that may be there

CgroupWords == {"cgroup docker", "cgroup containerd", "cgroup kubepods", "cgroup lxc"}

ASSUME MarkersAssumption ==
    Markers \subseteq CgroupWords \cup
        {"WOS_KERNEL", "PEPITA_VM", "/dev/virtio-ports", "/.dockerenv", "container",
         "KUBERNETES_SERVICE_HOST", "/run/systemd/system"}

Target == {"linux", "macos", "wasm32", "windows"}

Adapter == {"systemd", "launchd", "container", "pepita", "wos", "native"}

-----------------------------------------------------------------------------

\* is_pepita_vm of duende-core; the other crate asks the same.
IsPepitaVm(env) == env \cap {"PEPITA_VM", "/dev/virtio-ports"} # {}

\* is_container of duende-core, and of duende-platform
IsContainer(env) ==
    env \cap (CgroupWords \cup {"/.dockerenv", "KUBERNETES_SERVICE_HOST"}) # {}

PlatformIsContainer(env) ==
    env \cap ((CgroupWords \ {"cgroup kubepods"}) \cup {"/.dockerenv", "container"}) # {}

\* The order of both detect_platform functions: the first that fits.
Detect(target, env, is_container) ==
    IF target = "wasm32" \/ "WOS_KERNEL" \in env THEN "Wos"
    ELSE IF IsPepitaVm(env) THEN "PepitaMicroVM"
    ELSE IF is_container THEN "Container"
    ELSE IF target = "linux" /\ "/run/systemd/system" \in env THEN "Linux"
    ELSE IF target = "macos" THEN "MacOS" ELSE "Native"

\* detect_platform of duende-core, and of duende-platform
DetectPlatform(target, env)         == Detect(target, env, IsContainer(env))
PlatformDetectPlatform(target, env) == Detect(target, env, PlatformIsContainer(env))

\* select_adapter; each adapter's handles carry the platform it is selected for.
SelectAdapter ==
    [Linux |-> "systemd", MacOS |-> "launchd", Container |-> "container",
     PepitaMicroVM |-> "pepita", Wos |-> "wos", Native |-> "native"]

\* systemd_stub: all its methods return NotSupported; launchd_stub
SystemdStub(target) == target # "linux"
LaunchdStub(target) == target # "macos"

IsStub(adapter, target) ==
    \/ adapter = "systemd" /\ SystemdStub(target)
    \/ adapter = "launchd" /\ LaunchdStub(target)

Accessors_Loose(kind) ==
    { a \in {"systemd_unit"}  : kind = "systemd" } \cup { a \in {"launchd_label"} : kind = "launchd" }
    \cup { a \in {"container_id"} : kind \in {"container", "pepita"} }
    \cup { a \in {"pid"} : kind \in {"wos", "native"} }
    \cup { a \in {"pepita_vm_id", "vsock_cid"} : kind = "pepita" }

\* The accessors of DaemonHandle that are not None.
Accessors(kind) ==
    { a \in {"systemd_unit"}  : kind = "systemd" } \cup { a \in {"launchd_label"} : kind = "launchd" }
    \cup { a \in {"container_id"} : kind = "container" }
    \cup { a \in {"pid"} : kind \in {"wos", "native"} }
    \cup { a \in {"pepita_vm_id", "vsock_cid"} : kind = "pepita" }

\* What signal() and status() ask of the handle they are given.  The native adapter looks
\* its daemons up by their ids and so knows its own.
Asks(adapter, op) ==
    CASE adapter = "systemd"   -> {"systemd_unit"}
      [] adapter = "launchd"   -> {"launchd_label"}
      [] adapter = "container" -> {"container_id"}
      [] adapter = "pepita"    -> IF op = "signal" THEN {"pepita_vm_id", "vsock_cid"}
                                                   ELSE {"pepita_vm_id"}
      [] adapter \in {"wos", "native"} -> {"pid"}

Takes(adapter, op, kind) ==
    Asks(adapter, op) \subseteq Accessors(kind) /\ (adapter = "native" => kind = "native")

\* The adapters of duende-platform compare the handle's platform with theirs, but for
\* the native one, to which a number is a process.
PlatformTakes(adapter, kind) ==
    IF adapter = "native" THEN "pid" \in Accessors(kind) ELSE kind = adapter

-----------------------------------------------------------------------------

VARIABLES
    target, env,    \* where the program runs
    kept,           \* the kinds of the handles that were kept
    asked           \* the last call of an adapter and what came of it

placeVars == <<target, env, kept, asked>>

PlacesInit ==
    /\ target \in Target /\ env \in SUBSET Markers
    /\ kept = {} /\ asked = [op |-> "none"]

Selected == SelectAdapter[DetectPlatform(target, env)]

Asked(op, crate, adapter, kind, res) ==
    asked' = [op |-> op, crate |-> crate, adapter |-> adapter, kind |-> kind, res |-> res]

\* select_adapter_auto, and spawn
SpawnAuto ==
    /\ IF IsStub(Selected, target)
       THEN Asked("spawn", "core", Selected, Selected, "not_supported") /\ UNCHANGED kept
       ELSE /\ Asked("spawn", "core", Selected, Selected, "ok")
            /\ kept' = kept \cup {Selected}
    /\ UNCHANGED <<target, env>>

\* The program ends and is started where a marker is there that was not, or the reverse.
StartElsewhere ==
    /\ \E m \in Markers : env' = IF m \in env THEN env \ {m} ELSE env \cup {m}
    /\ asked' = [op |-> "none"]
    /\ UNCHANGED <<target, kept>>

\* signal, status: the adapter that is selected now and a handle from whenever.
UseAuto(op, kind) ==
    /\ kind \in kept
    /\ Asked(op, "core", Selected, kind,
             IF IsStub(Selected, target) THEN "not_supported"
             ELSE IF Takes(Selected, op, kind) THEN "acts" ELSE "refused")
    /\ UNCHANGED <<target, env, kept>>

\* duende-platform's are chosen by hand.
UsePlatform(adapter, kind) ==
    /\ kind \in kept
    /\ Asked("signal", "platform", adapter, kind,
             IF PlatformTakes(adapter, kind) THEN "acts" ELSE "refused")
    /\ UNCHANGED <<target, env, kept>>

PlacesNext ==
    \/ SpawnAuto \/ StartElsewhere
    \/ \E kind \in Adapter :
        \/ \E op \in {"signal", "status"} : UseAuto(op, kind)
        \/ \E adapter \in Adapter : UsePlatform(adapter, kind)

PlacesSpec == PlacesInit /\ [][PlacesNext]_placeVars

-----------------------------------------------------------------------------

(* select_adapter_auto (adapters/mod.rs l.233): whatever the environment    *)
(* says, the adapter it selects is one that can spawn here, takes its own   *)
(* handles, and, the wos adapter aside, acts on no handle that another      *)
(* adapter made before the environment changed.                             *)
SelectedFits ==
    asked.op # "none" /\ asked.crate = "core" =>
        /\ asked.res # "not_supported"
        /\ asked.kind = asked.adapter => asked.res # "refused"
        /\ asked.res = "acts" /\ asked.adapter # "wos" => asked.kind = asked.adapter

(* "predictable daemon behavior" (adapter.rs l.4): no adapter acts on a     *)
(* handle another one made.                                                 *)
HandlesOpenOwnDoor ==
    asked.op # "none" /\ asked.res = "acts" => asked.kind = asked.adapter

(* "Auto-detect current platform" (detect.rs l.4): the two crates agree.    *)
DetectionsAgree == DetectPlatform(target, env) = PlatformDetectPlatform(target, env)

=============================================================================
