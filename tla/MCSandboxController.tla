------------------------ MODULE MCSandboxController ------------------------
(* Small instances of the sandbox controller for TLC. *)
EXTENDS SandboxProperties, TLC

PodDisk == [name |-> "data", class |-> "PVC"]
VMDisk  == [name |-> "root", class |-> "DV"]

PodSpec     == [kinds |-> {"Pod"}, disks |-> {}]
VMISpec     == [kinds |-> {"KubevirtVMI"}, disks |-> {}]
VMIDiskSpec == [kinds |-> {"KubevirtVMI"}, disks |-> {PodDisk, VMDisk}]

None == {}
First == {1}
OnlyPod == {PodSpec}
PodOrVMI == {PodSpec, VMISpec}
OnlyVMI == {VMIDiskSpec}
NoGates == {{}}
KubevirtOn == {{"KubevirtVMI"}}
KubevirtMaybe == {{}, {"KubevirtVMI"}}
RunningOrFailed == {"Running", "Failed"}
RunningOnly == {"Running"}
=============================================================================
