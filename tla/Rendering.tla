----------------------------- MODULE Rendering -----------------------------
(***************************************************************************)
(* How a sandboxer turns the body of a template into the workload of one   *)
(* sandbox: the volumes a spec declares become disks whose names carry the *)
(* sandbox's UID, and references to them inside the body are renamed.      *)
(*                                                                         *)
(* A body is a set of refs (the volumes of a Pod or VMI, the block devices *)
(* of a DVP machine): slot, the name the volume has inside the workload,   *)
(* class and target, the object it stands for; and the names its mounts    *)
(* use (volumeMounts of a Pod, disks of a VMI).  A name is a sequence of   *)
(* parts.                                                                  *)
(***************************************************************************)
EXTENDS Admission

\* A name made from the prefix of the class, the UID and a declared name.
FullName(class, uid, name) == <<class, uid>> \o name

Declared(spec, class) == {v.name : v \in {x \in Volumes(spec) : class \in x.classes}}

\* The objects to create, of the classes a sandboxer deals with.
DisksOf(type, spec, uid) ==
    UNION {{FullName(c, uid, m) : m \in Declared(spec, c)} : c \in OwnedClasses[type]}

Renamed(name, class, uid, made) ==
    IF FullName(class, uid, name) \in made THEN FullName(class, uid, name) ELSE name

\* Targets of one class are renamed.
Retargeted(refs, class, uid, made) ==
    {[r EXCEPT !.target = IF r.class = class THEN Renamed(@, class, uid, made) ELSE @] : r \in refs}

\* Mutant: the names of the volumes are changed instead of the claims.
MutatePodSlots(body, uid, made) ==
    [refs   |-> {[r EXCEPT !.slot = Renamed(@, "PVC", uid, made)] : r \in body.refs},
     mounts |-> {Renamed(m, "PVC", uid, made) : m \in body.mounts}]
\* Claims are renamed, and mounts by their own name; the name of a volume is not.
MutatePod(body, uid, made) ==
    [refs   |-> Retargeted(body.refs, "PVC", uid, made),
     mounts |-> {Renamed(m, "PVC", uid, made) : m \in body.mounts}]

\* DataVolumes are renamed; the new name of a claim is computed and not written.
MutateVMI(body, uid, made) ==
    [refs   |-> Retargeted(body.refs, "DV", uid, made),
     mounts |-> {IF FullName("PVC", uid, m) \in made
                 THEN FullName("PVC", uid, m) ELSE Renamed(m, "DV", uid, made) : m \in body.mounts}]

MutateVM(body, uid, made) ==
    [refs |-> Retargeted(body.refs, "VD", uid, made), mounts |-> body.mounts]

Rendered(type, body, uid, made) ==
    CASE type = "Pod"         -> MutatePod(body, uid, made)
      [] type = "KubevirtVMI" -> MutateVMI(body, uid, made)
      [] OTHER                -> MutateVM(body, uid, made)

\* The clusters' own validation: a mount names a volume of the workload.
MountsResolve(body) == body.mounts \subseteq {r.slot : r \in body.refs}
=============================================================================
