------------------------ MODULE MCTemplateLifecycle ------------------------
(* Small instances of the life of a template for TLC. *)
EXTENDS TemplateLifecycle

Vol(name, classes) == [name |-> <<name>>, classes |-> classes]
Ref(slot, class, target) == [slot |-> <<slot>>, class |-> class, target |-> <<target>>]
Using(refs, mounts) == [refs |-> refs, mounts |-> {<<m>> : m \in mounts}]
Just(kind, body, volumes) ==
    [kinds |-> {kind}, body |-> [NothingSet.body EXCEPT ![kind] = body], volumes |-> volumes]

\* A Pod with a claim, a disk of its user's own and one of some sandbox, whose full name
\* the user has seen; a VMI with a DataVolume, a DVP machine.
SeenDisk == FullName("PVC", CHOOSE n \in Names : TRUE, <<"data">>)
PodBody ==
    Using({Ref("vol", "PVC", "data"), Ref("own", "PVC", "mine"),
           [Ref("seen", "PVC", "data") EXCEPT !.target = SeenDisk]}, {"vol", "own"})
PodDisk == Just("Pod", PodBody, <<Vol("data", {"PVC"})>>)
VMIDisk == Just("KubevirtVMI", Using({Ref("disk", "DV", "root")}, {"disk"}), <<Vol("root", {"DV"})>>)
DVPDisk == Just("DVPVM", Using({Ref("root", "VD", "root")}, {}), <<Vol("root", {"VD"})>>)

\* Two kinds, which the rules admit; all three, and a name used twice, which they do not.
TwoKinds == [DVPDisk EXCEPT !.kinds = {"KubevirtVMI", "DVPVM"}, !.volumes = <<Vol("root", {"VD"})>>]
TwoBackings == [VMIDisk EXCEPT !.volumes = <<Vol("root", {"DV", "VD"})>>]
AllKinds == [PodDisk EXCEPT !.kinds = Types]
SameName == [PodDisk EXCEPT !.volumes = <<Vol("data", {"PVC"}), Vol("data", {"PVC"})>>]

\* A Pod whose volume has the name of the claim it declares.
PodSameName == Just("Pod", Using({Ref("data", "PVC", "data")}, {"data"}), <<Vol("data", {"PVC"})>>)

Submitted == {PodDisk, VMIDisk, DVPDisk, TwoKinds, TwoBackings, AllKinds, SameName}
InlinePod == {PodDisk, SameName}
OnlySameName == {PodSameName}
None == {}
NoneOrAnHour == {0, 1}
AnHour == {1}
AllGates == SUBSET Gated
NoGates == {{}}
=============================================================================
