----------------------------- MODULE Sandboxer -----------------------------
(***************************************************************************)
(* What the three sandboxers (pod.go, kubevirt.go, dvp.go) have in common, *)
(* as pure operators: which workload a template spec asks for, which disks *)
(* each sandboxer owns, which feature gate it needs, and how it reads the  *)
(* phase of its workload.  A spec keeps of a SandboxTemplateSpec the kinds *)
(* of workload it sets and the volumes it lists; a volume is its name and  *)
(* the class of object that backs it.                                      *)
(***************************************************************************)
EXTENDS Naturals

Types == {"Pod", "KubevirtVMI", "DVPVM"}
NoType == ""
Gated == Types \ {"Pod"}                 \* a feature gate is named by its type
Classes == {"PVC", "DV", "VD"}           \* PersistentVolumeClaim, DataVolume, VirtualDisk
Absent == "absent"

NoSpec == [kinds |-> {}, disks |-> {}]

DetectSandboxType(spec) ==
    CASE "Pod" \in spec.kinds         -> "Pod"
      [] "Pod" \notin spec.kinds /\ "KubevirtVMI" \in spec.kinds -> "KubevirtVMI"
      [] spec.kinds = {"DVPVM"}       -> "DVPVM"
      [] OTHER                        -> NoType

OwnedClasses == [Pod |-> {"PVC"}, KubevirtVMI |-> {"DV", "PVC"}, DVPVM |-> {"VD"}]

OwnedDisks(type, ds) == {d \in ds : d.class \in OwnedClasses[type]}

\* The disks listed, made and deleted first; the KubeVirt sandboxer then turns to
\* its claims, which it lists only when it is done with its DataVolumes.
FirstClass == [Pod |-> "PVC", KubevirtVMI |-> "DV", DVPVM |-> "VD"]

GateOpen(type, gates) == type \in gates \cup {"Pod"}

FailedPhases ==
    [Pod         |-> {"Failed", "Succeeded", "Unknown"},
     KubevirtVMI |-> {"Failed", "Succeeded", "Unknown"},
     DVPVM       |-> {"Terminating", "Stopped", "Stopping", "Pause", "Degraded"}]

\* Mutant: the map is read without asking whether it has the phase.
ReasonOrZero(type, phase) ==
    CASE phase = "Running"                -> "Ready"
      [] phase \in FailedPhases[type]     -> "Failed"
      [] OTHER                            -> ""
\* A phase the maps of the sandboxers do not list reads as Pending.
ReasonOf(type, phase) ==
    CASE phase = "Running"                -> "Ready"
      [] phase \in FailedPhases[type]     -> "Failed"
      [] OTHER                            -> "Pending"
=============================================================================
