------------------------- MODULE TemplateLifecycle -------------------------
(***************************************************************************)
(* A SandboxTemplate from its admission to the workloads made from it.     *)
(* Composed are: the API server with the webhooks of the controller; the   *)
(* SandboxTemplate controller, which reports type and condition; and, in   *)
(* coarser steps than in SandboxController, the sandbox controller, which  *)
(* reads a template from the shared cache, protects it and renders it.     *)
(*                                                                         *)
(* A get from the cache hands out a deep copy.  What the generated deep    *)
(* copy would leave out, the copy and the cached object would share, and   *)
(* the renaming of disks inside a body would reach the cache.              *)
(***************************************************************************)
EXTENDS Rendering, FiniteSets

CONSTANTS
    Names,          \* sandboxes; each is made once, so a name stands for its UID
    Templates,
    NoName,
    TemplateSpecs,  \* the specs users submit as templates
    InlineSpecs,    \* and as inline specs of a sandbox
    TTLs,           \* the TTLs they ask for, 0 for none
    GateSets,
    MaxTemplates,   \* bound: how often the name of a template is used
    MaxRestarts     \* bound: how often the controller is replaced

Specs == TemplateSpecs \cup InlineSpecs \cup {NothingSet}
Kinds == Types \cup {NoType}

ASSUME ConstantsAssumption ==
    /\ NoName \notin Names
    /\ NoTemplate \notin Templates /\ Unset \notin Templates /\ Unset # NoTemplate
    /\ GateSets \subseteq SUBSET Gated /\ GateSets # {}
    /\ MaxTemplates \in Nat /\ MaxRestarts \in Nat /\ TTLs \subseteq Nat

\* A name is a sequence of these; the full name of a disk is one, too, and a spec may
\* refer to it.
Parts == STRING \cup Names
\* What the schema of the API types asks of a spec.
ASSUME SpecsAssumption ==
    \A s \in Specs :
        /\ s.kinds \subseteq Types
        /\ \A v \in Volumes(s) : v.name \in Seq(STRING)
        /\ \A t \in Types :
             s.body[t].refs \subseteq [slot : Seq(STRING), class : Classes, target : Seq(Parts)]

VARIABLES
    templates, cTemplates,   \* the API server and the informer's cache
    tQueue,                  \* templates waiting for their controller
    tw,                      \* its worker
    late,                    \* a status update that a replaced controller has sent
    used,                    \* template -> incarnations so far
    sandboxes, workloads, disks,
    sw,                      \* the worker of the sandbox controller
    gates, restarts

tVars == <<templates, cTemplates, tQueue, tw, late, used>>
sVars == <<sandboxes, workloads, disks, sw>>
world == <<gates, restarts>>
vars  == <<tVars, sVars, world>>

NoTemplateObj == [uid |-> 0, spec |-> NothingSet, prot |-> FALSE, del |-> FALSE,
                  type |-> NoType, cond |-> "none"]
NoWorkload == [type |-> NoType, body |-> NoBody, spec |-> NothingSet]
NoSandbox == [phase |-> "none", template |-> NoTemplate, inline |-> NothingSet,
              ttl |-> 0, prot |-> FALSE, cond |-> "none"]
IdleT == [pc |-> "idle", name |-> NoTemplate, old |-> NoTemplateObj,
          new |-> [type |-> NoType, cond |-> "none"]]
IdleS == [pc |-> "idle", name |-> NoName, tmpl |-> NoTemplateObj, spec |-> NothingSet]

Init ==
    /\ templates = [t \in Templates |-> NoTemplateObj] /\ cTemplates = templates
    /\ tQueue = {} /\ tw = IdleT /\ late = IdleT /\ used = [t \in Templates |-> 0]
    /\ sandboxes = [n \in Names |-> NoSandbox]
    /\ workloads = [n \in Names |-> NoWorkload] /\ disks = [n \in Names |-> {}]
    /\ sw = IdleS /\ gates \in GateSets /\ restarts = 0

-----------------------------------------------------------------------------
(* Users; nothing is stored that is not admitted *)

CreateTemplate(t) ==
    /\ templates[t].uid = 0 /\ used[t] < MaxTemplates
    /\ \E s \in TemplateSpecs :
         /\ TemplateAdmitted(s, gates)
         /\ templates' = [templates EXCEPT ![t] = [NoTemplateObj EXCEPT !.uid = used[t] + 1, !.spec = s]]
    /\ used' = [used EXCEPT ![t] = @ + 1]
    /\ UNCHANGED <<cTemplates, tQueue, tw, late, sVars, world>>

DeleteTemplate(t) ==
    /\ templates[t].uid # 0 /\ ~templates[t].del
    /\ templates' = [templates EXCEPT ![t] =
                       IF @.prot THEN [@ EXCEPT !.del = TRUE] ELSE NoTemplateObj]
    /\ UNCHANGED <<cTemplates, tQueue, tw, late, used, sVars, world>>

\* From the command line or as a manifest.
Requests ==
    {CommandRequest(t, l) : t \in Templates, l \in TTLs}
    \cup [template : Templates \cup {NoTemplate, Unset}, inline : InlineSpecs \cup {NothingSet}, ttl : TTLs]

CreateSandbox(n) ==
    /\ sandboxes[n].phase = "none"
    /\ \E r \in Requests :
         /\ SandboxAdmitted(r, gates)
         /\ sandboxes' = [sandboxes EXCEPT ![n] = [NoSandbox EXCEPT
               !.phase = "there", !.template = r.template, !.inline = r.inline, !.ttl = Default(r.ttl)]]
    /\ UNCHANGED <<tVars, workloads, disks, sw, world>>

DeleteSandbox(n) ==
    /\ sandboxes[n].phase = "there"
    /\ sandboxes' = [sandboxes EXCEPT ![n].phase = IF sandboxes[n].prot THEN "deleting" ELSE "gone"]
    /\ UNCHANGED <<tVars, workloads, disks, sw, world>>

\* Children without their owner are collected.
CollectOrphans(n) ==
    /\ sandboxes[n].phase = "gone" /\ (workloads[n] # NoWorkload \/ disks[n] # {})
    /\ workloads' = [workloads EXCEPT ![n] = NoWorkload]
    /\ disks' = [disks EXCEPT ![n] = {}]
    /\ UNCHANGED <<tVars, sandboxes, sw, world>>

-----------------------------------------------------------------------------
(* The cache and the SandboxTemplate controller *)

\* Mutants: the body of a Pod, or the conditions, are not copied but shared.
SharedPod == (Types \ {"Pod"}) \cup {"volumes", "conditions"}
SharedConditions == Types \cup {"volumes"}
\* What the deep copy of a SandboxTemplate copies.
Copied == Types \cup {"volumes", "conditions"}

SyncTemplate(t) ==
    /\ cTemplates[t] # templates[t]
    /\ cTemplates' = [cTemplates EXCEPT ![t] = templates[t]]
    /\ tQueue' = tQueue \cup {t}
    /\ UNCHANGED <<templates, tw, late, used, sVars, world>>

Report(copy) ==
    [type |-> DetectSandboxType(copy.spec),
     cond |-> IF copy.del THEN "Terminating" ELSE "Ready"]
\* A condition that is there already is changed in place, in every copy that shares it.
Before(copy) ==
    [type |-> copy.type,
     cond |-> IF copy.cond # "none" /\ "conditions" \notin Copied
              THEN Report(copy).cond ELSE copy.cond]

Reconcile(t) ==
    LET copy == cTemplates[t] IN
    /\ tw.pc = "idle" /\ t \in tQueue
    /\ tQueue' = tQueue \ {t}
    /\ tw' = IF copy.uid = 0 \/ Report(copy) = Before(copy) THEN IdleT
             ELSE [pc |-> "update", name |-> t, old |-> copy, new |-> Report(copy)]
    /\ UNCHANGED <<templates, cTemplates, late, used, sVars, world>>

\* Mutant: whatever version was read, the status is written.
StatusForced(obj, read) == obj.uid # read.uid
\* Equal contents are the same version here: a template that was protected, released
\* and protected again gives the same report.
StatusConflict(obj, read) == obj # read

\* A refused update queues the template again.
Written(x) ==
    IF StatusConflict(templates[x.name], x.old) THEN templates
    ELSE [templates EXCEPT ![x.name].type = x.new.type, ![x.name].cond = x.new.cond]

UpdateStatus ==
    /\ tw.pc = "update"
    /\ tw' = IdleT
    /\ templates' = Written(tw)
    /\ tQueue' = IF StatusConflict(templates[tw.name], tw.old) THEN tQueue \cup {tw.name} ELSE tQueue
    /\ UNCHANGED <<cTemplates, late, used, sVars, world>>

\* Another controller takes the lease, or the process is started anew: the caches
\* are listed afresh, and an update that was on its way arrives all the same.
Replace ==
    /\ restarts < MaxRestarts /\ restarts' = restarts + 1
    /\ late' = IF tw.pc = "update" THEN tw ELSE late
    /\ tw' = IdleT /\ sw' = IdleS
    /\ cTemplates' = templates /\ tQueue' = {t \in Templates : templates[t].uid # 0}
    /\ UNCHANGED <<templates, used, sandboxes, workloads, disks, gates>>

LateUpdate ==
    /\ late.pc = "update"
    /\ late' = IdleT
    /\ templates' = Written(late)
    /\ UNCHANGED <<cTemplates, tQueue, tw, used, sVars, world>>

-----------------------------------------------------------------------------
(* The sandbox controller *)

SpecRead(n) ==
    IF sandboxes[n].inline # NothingSet THEN sandboxes[n].inline
    ELSE cTemplates[sandboxes[n].template].spec
Usable(n) ==
    sandboxes[n].inline = NothingSet =>
        /\ cTemplates[sandboxes[n].template].uid # 0
        /\ ~cTemplates[sandboxes[n].template].del

BeginSandbox(n) ==
    LET inline == sandboxes[n].inline # NothingSet
        tmpl == IF inline THEN NoTemplateObj ELSE cTemplates[sandboxes[n].template] IN
    /\ sw.pc = "idle" /\ sandboxes[n].phase = "there" /\ workloads[n] = NoWorkload
    /\ Usable(n)
    /\ sw' = [pc   |-> IF inline \/ tmpl.prot THEN "create" ELSE "protect",
              name |-> n, tmpl |-> tmpl, spec |-> SpecRead(n)]
    /\ UNCHANGED <<tVars, sandboxes, workloads, disks, world>>

\* The patch tests the finalizers that were read, and a template that is being
\* deleted takes no new one; when it is refused the pass ends with an error.
Protect ==
    LET t == sandboxes[sw.name].template
        accepted == templates[t].uid # 0 /\ ~templates[t].prot IN
    /\ sw.pc = "protect"
    /\ templates' = IF accepted THEN [templates EXCEPT ![t].prot = TRUE] ELSE templates
    /\ sw' = IF accepted THEN [sw EXCEPT !.pc = "create"] ELSE IdleS
    /\ UNCHANGED <<cTemplates, tQueue, tw, late, used, sandboxes, workloads, disks, world>>

\* The disks a spec names twice; the second create of one fails, unless an earlier
\* pass has made it.
Twice(type, spec, uid) ==
    {d \in DisksOf(type, spec, uid) :
       \E i, j \in DOMAIN spec.volumes :
          /\ i # j /\ spec.volumes[i].name = spec.volumes[j].name
          /\ \E c \in spec.volumes[i].classes \cap spec.volumes[j].classes :
                d = FullName(c, uid, spec.volumes[i].name)}

\* How Sandboxer.Create ends.
Outcome(n, type, spec, body) ==
    CASE ~GateOpen(type, gates)                                 -> "GateClosed"
      [] GateOpen(type, gates) /\ ~(Twice(type, spec, n) \subseteq disks[n]) -> "DiskExists"
      [] GateOpen(type, gates) /\ Twice(type, spec, n) \subseteq disks[n]
         /\ ~MountsResolve(body)                                -> "BadMounts"
      [] OTHER                                                  -> "Pending"

\* The body in the cache changes with the copy if they share it.
WrittenThrough(n, type, body) ==
    LET t == sandboxes[n].template IN
    IF type \in Copied \/ sandboxes[n].inline # NothingSet \/ cTemplates[t].uid # sw.tmpl.uid
    THEN cTemplates
    ELSE [cTemplates EXCEPT ![t].spec.body[type] = body]

\* Sandboxer.Create, and the finalizer and condition that the pass leaves on a
\* sandbox that is still there.
Create ==
    LET n == sw.name
        type == DetectSandboxType(sw.spec)
        made == DisksOf(type, sw.spec, n)
        body == Rendered(type, sw.spec.body[type], n, made)
        outcome == Outcome(n, type, sw.spec, body) IN
    /\ sw.pc = "create" /\ sw' = IdleS
    /\ sandboxes' = IF sandboxes[n].phase = "there"
                    THEN [sandboxes EXCEPT ![n].prot = TRUE, ![n].cond = outcome] ELSE sandboxes
    /\ disks' = [disks EXCEPT ![n] =
                   CASE outcome = "GateClosed" -> @
                     [] outcome = "DiskExists" -> @ \cup Twice(type, sw.spec, n)
                     [] OTHER                  -> made]
    /\ workloads' = IF outcome = "Pending"
                    THEN [workloads EXCEPT ![n] = [type |-> type, body |-> body, spec |-> sw.spec]]
                    ELSE workloads
    /\ cTemplates' = IF outcome \in {"Pending", "BadMounts"}
                     THEN WrittenThrough(n, type, body) ELSE cTemplates
    /\ UNCHANGED <<templates, tQueue, tw, late, used, world>>

\* handleTerminating: the children go, and the template is released if it was read
\* with its finalizer; a patch that is refused is tried again.
Terminate(n) ==
    LET t == sandboxes[n].template
        releases == /\ sandboxes[n].inline = NothingSet
                    /\ cTemplates[t].uid # 0 /\ cTemplates[t].prot
        refused == releases /\ ~(templates[t].uid # 0 /\ templates[t].prot) IN
    /\ sw.pc = "idle" /\ sandboxes[n].phase = "deleting"
    /\ workloads' = [workloads EXCEPT ![n] = NoWorkload]
    /\ disks' = [disks EXCEPT ![n] = {}]
    /\ sandboxes' = IF refused THEN sandboxes ELSE [sandboxes EXCEPT ![n].phase = "gone"]
    /\ templates' = IF releases /\ ~refused
                    THEN [templates EXCEPT ![t] = IF @.del THEN NoTemplateObj ELSE [@ EXCEPT !.prot = FALSE]]
                    ELSE templates
    /\ UNCHANGED <<cTemplates, tQueue, tw, late, used, sw, world>>

Next ==
    \/ \E t \in Templates : CreateTemplate(t) \/ DeleteTemplate(t) \/ SyncTemplate(t) \/ Reconcile(t)
    \/ \E n \in Names : CreateSandbox(n) \/ DeleteSandbox(n) \/ CollectOrphans(n)
                        \/ BeginSandbox(n) \/ Terminate(n)
    \/ UpdateStatus \/ Replace \/ LateUpdate \/ Protect \/ Create

Spec == Init /\ [][Next]_vars

-----------------------------------------------------------------------------
TemplateConds == {"none", "Ready", "Terminating"}
TemplateType ==
    [uid: 0..MaxTemplates, spec: Specs, prot: BOOLEAN, del: BOOLEAN, type: Kinds, cond: TemplateConds]

TemplateWorker ==
    [pc: {"idle", "update"}, name: Templates \cup {NoTemplate}, old: TemplateType,
     new: [type: Kinds, cond: TemplateConds]]

SandboxType ==
    [phase: {"none", "there", "deleting", "gone"}, template: Templates \cup {NoTemplate, Unset},
     inline: InlineSpecs \cup {NothingSet}, ttl: Nat, prot: BOOLEAN,
     cond: {"none", "Pending", "GateClosed", "DiskExists", "BadMounts"}]

\* Every variable has its type; what is stored has been through the webhooks, so no
\* sandbox is without a TTL, and the cache holds specs as they were submitted.
TypeOK ==
    /\ templates \in [Templates -> TemplateType] /\ cTemplates \in [Templates -> TemplateType]
    /\ tQueue \subseteq Templates /\ used \in [Templates -> 0..MaxTemplates]
    /\ {tw, late} \subseteq TemplateWorker
    /\ sandboxes \in [Names -> SandboxType]
    /\ \A n \in Names : sandboxes[n].phase # "none" => sandboxes[n].ttl # 0
    /\ sw \in [pc: {"idle", "protect", "create"}, name: Names \cup {NoName}, tmpl: TemplateType,
              spec: Specs]
    /\ gates \in GateSets /\ restarts \in 0..MaxRestarts

\* Nothing is left to do for either controller, and the cache is up to date.
Quiescent ==
    /\ tQueue = {} /\ tw.pc = "idle" /\ late.pc = "idle" /\ sw.pc = "idle"
    /\ cTemplates = templates

\* At rest, a template's status says what it is: the type its spec has and whether
\* it is being deleted; no event that the report depends on is lost, and none is
\* taken for old because two copies share their conditions (SandboxTemplate
\* reconciler, statusUpdater, the generated deep copy).
TemplateReportSettles ==
    Quiescent => \A t \in Templates : templates[t].uid # 0 =>
        Report(templates[t]) = [type |-> templates[t].type, cond |-> templates[t].cond]

\* A template that has been reported as terminating is never reported as ready
\* again, whatever copy the worker holds: the status goes under the version read.
TerminatingNeverUndone ==
    [][\A t \in Templates :
         templates[t].cond = "Terminating" /\ templates'[t].uid = templates[t].uid
         => templates'[t].cond = "Terminating"]_vars

\* Every reference of a workload is as some user wrote it, who may name whatever disk
\* is known, or renamed to a disk of its own sandbox that is there: a sandboxer gives it
\* the disks of no other, although it renames disks inside a spec read from a cache
\* that all sandboxes share (mutatePodPVCs).
OwnDisksOnly ==
    \A n \in Names : \A x \in workloads[n].body.refs :
        \E s \in Specs : \E r \in s.body[workloads[n].type].refs :
           /\ x.slot = r.slot
           /\ \/ x.target = r.target
              \/ x.target = FullName(r.class, n, r.target) /\ x.target \in disks[n]

\* What a workload uses of the volumes its spec declares is there, under the name
\* it uses: for Pods, DVP machines and DataVolumes; a claim of a VMI is not renamed
\* (mutatePodPVCs, mutateDVPVMVolumes, mutateKubevirtVMIVolumes).
ReferencesResolve ==
    \A n \in Names :
        LET wl == workloads[n] IN
        sandboxes[n].phase = "there" /\ wl # NoWorkload =>
          \A r \in wl.spec.body[wl.type].refs :
             /\ r.class \in OwnedClasses[wl.type] /\ ~(wl.type = "KubevirtVMI" /\ r.class = "PVC")
             /\ r.target \in Declared(wl.spec, r.class)
             => \E x \in wl.body.refs : x.slot = r.slot /\ x.target \in disks[n]

\* What has been admitted can be made: the validators let nothing through whose
\* sandboxer has its gate closed or that names a disk twice, although they look at
\* one kind of a spec with several and DetectSandboxType at another
\* (TypeValidator, VolumesValidator, DetectSandboxType).
AdmittedSpecsRun == \A n \in Names : sandboxes[n].cond \notin {"GateClosed", "DiskExists"}

\* Volumes are created and mounted (the comment of SandboxTemplateSpec.Volumes): a
\* spec whose mounts name its volumes gives a workload whose mounts do.
VolumesAreMounted ==
    \A n \in Names :
        LET spec == sandboxes[n].inline IN
        spec # NothingSet /\ MountsResolve(spec.body[DetectSandboxType(spec)])
        => sandboxes[n].cond # "BadMounts"
=============================================================================
