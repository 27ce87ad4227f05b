----------------------------- MODULE Admission -----------------------------
(***************************************************************************)
(* What the API server asks before it stores a Sandbox or SandboxTemplate: *)
(* the CEL rules of the API types, the defaulter and the validators of the *)
(* controller's webhooks; and the create command, whose requests meet them.*)
(*                                                                         *)
(* A spec keeps of a SandboxTemplateSpec the kinds it sets, the workload   *)
(* body of each kind (see Rendering) and its volumes: a sequence of names, *)
(* each with the classes of object that are set for it.                    *)
(***************************************************************************)
EXTENDS Sandboxer, Sequences

CONSTANTS
    NoTemplate,   \* the empty template name
    Unset         \* the template field is absent from the request

NoBody == [refs |-> {}, mounts |-> {}]
NothingSet == [kinds |-> {}, body |-> [k \in Types |-> NoBody], volumes |-> <<>>]

Volumes(spec) == {spec.volumes[i] : i \in DOMAIN spec.volumes}

-----------------------------------------------------------------------------
(* CEL, as the API server evaluates it: a field that is absent is an error, *)
(* which an operand that decides the result hides.                          *)

CelOr(a, b) ==
    CASE "true" \in {a, b}                          -> "true"
      [] "true" \notin {a, b} /\ "error" \in {a, b} -> "error"
      [] OTHER                                      -> "false"
CelNot(a) == CASE a = "true" -> "false" [] a = "false" -> "true" [] OTHER -> "error"
CelAnd(a, b) == CelNot(CelOr(CelNot(a), CelNot(b)))
Cel(b) == IF b THEN "true" ELSE "false"

\* At least one, and not all three.
NotAll(set, all) == set # {} /\ set # all
SpecRules(spec) ==
    /\ NotAll(spec.kinds, Types)
    /\ \A v \in Volumes(spec) : NotAll(v.classes, Classes)

\* size(self.template) != 0
TemplateNamed(req) ==
    IF req.template = Unset THEN "error" ELSE Cel(req.template # NoTemplate)
SandboxRules(req) ==
    LET inline == Cel(req.inline # NothingSet) IN
    /\ CelOr(TemplateNamed(req), inline) = "true"
    /\ CelNot(CelAnd(TemplateNamed(req), inline)) = "true"
    /\ req.inline # NothingSet => SpecRules(req.inline)

-----------------------------------------------------------------------------
(* The webhooks *)

\* Mutant: nothing is defaulted.
StoredTTL(ttl) == ttl
DefaultTTL == 1   \* an hour
Default(ttl) == IF ttl = 0 THEN DefaultTTL ELSE ttl

VolumesValidator(spec, gates) ==
    \A i, j \in DOMAIN spec.volumes :
        i # j => spec.volumes[i].name # spec.volumes[j].name

\* Each switch stops at the first case that is set, so only its gate is asked for.
\* Mutant: the DVP case comes first.
KindGateSwapped(kinds, gates) ==
    /\ "DVPVM" \in kinds => "DVPVM" \in gates
    /\ "KubevirtVMI" \in kinds /\ "DVPVM" \notin kinds => "KubevirtVMI" \in gates
KindGate(kinds, gates) ==
    /\ "KubevirtVMI" \in kinds => "KubevirtVMI" \in gates
    /\ "DVPVM" \in kinds /\ "KubevirtVMI" \notin kinds => "DVPVM" \in gates
VolumeGate(classes, gates) ==
    /\ "DV" \in classes => "KubevirtVMI" \in gates
    /\ "VD" \in classes /\ "DV" \notin classes => "DVPVM" \in gates
TypeValidator(spec, gates) ==
    KindGate(spec.kinds, gates) /\ \A v \in Volumes(spec) : VolumeGate(v.classes, gates)

\* Validator[T] with the validators registered for an operation: creates of both
\* types have two, updates and deletes none, and then whatever comes is admitted.
Registered(operation) == IF operation = "create" THEN {"volumes", "type"} ELSE {}
Holds(validator, spec, gates) ==
    IF validator = "volumes" THEN VolumesValidator(spec, gates) ELSE TypeValidator(spec, gates)
Validated(operation, spec, gates) ==
    \A v \in Registered(operation) : Holds(v, spec, gates)

\* A sandbox without an inline spec is not looked at further.
SandboxValidated(req, gates) ==
    req.inline # NothingSet => Validated("create", req.inline, gates)

TemplateAdmitted(spec, gates) == SpecRules(spec) /\ Validated("create", spec, gates)
SandboxAdmitted(req, gates) == SandboxRules(req) /\ SandboxValidated(req, gates)

\* What the create command sends: a template by name, never an inline spec.
CommandRequest(template, ttl) ==
    [template |-> template, inline |-> NothingSet, ttl |-> ttl]
=============================================================================
