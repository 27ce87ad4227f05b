---------------------- MODULE TemplateLifecycle_proofs ----------------------
(***************************************************************************)
(* Proofs about the life of a template for any specs, names, gates and     *)
(* restarts: what is admitted can be made, workloads keep to their own     *)
(* disks, and the report on a template settles and is not taken back.      *)
(***************************************************************************)
EXTENDS TemplateLifecycle, TLAPS

USE ConstantsAssumption, SpecsAssumption

Admitted(s) == s \in Specs /\ TemplateAdmitted(s, gates)

\* What is stored, cached and worked with has been admitted, and a sandbox without an
\* inline spec names a template.
AdmissionInv ==
    /\ \A t \in Templates :
         /\ templates[t].uid # 0 => Admitted(templates[t].spec)
         /\ cTemplates[t].uid # 0 => Admitted(cTemplates[t].spec)
    /\ \A n \in Names :
         /\ sandboxes[n].inline # NothingSet => Admitted(sandboxes[n].inline)
         /\ sandboxes[n].phase # "none" /\ sandboxes[n].inline = NothingSet
            => sandboxes[n].template \in Templates
    /\ sw.pc # "idle" => sw.name \in Names /\ Admitted(sw.spec)
    /\ workloads = [n \in Names |-> workloads[n]] /\ disks = [n \in Names |-> disks[n]]

\* What a report depends on and consists of.
Gist(obj) == <<obj.uid, obj.spec, obj.del, obj.type, obj.cond>>
Settled(obj) == Report(obj) = [type |-> obj.type, cond |-> obj.cond]
Pending(x, t) == x.pc = "update" /\ x.name = t

WorkerInv(x) ==
    x.pc = "update" => x.name \in Templates /\ x.new = Report(x.old) /\ x.old.uid # 0

\* A template whose report is out of date is queued, being worked on, or not in the
\* cache yet; the cache is never ahead of the server.
ReportInv ==
    /\ WorkerInv(tw) /\ WorkerInv(late)
    /\ \A t \in Templates :
         /\ templates[t].uid <= used[t] /\ cTemplates[t].uid <= used[t]
         /\ templates[t].cond = "Terminating" => templates[t].del /\ templates[t].uid # 0
         /\ templates[t].uid = cTemplates[t].uid /\ cTemplates[t].uid # 0 /\ cTemplates[t].del
            => templates[t].del
         /\ templates[t].uid # 0 /\ ~Settled(templates[t])
            => \/ t \in tQueue \/ Pending(tw, t)
               \/ Gist(cTemplates[t]) # Gist(templates[t])

\* A workload is its spec rendered for the disks that are there, and those are the
\* disks its spec declares; no second one is made before the first has gone.
RenderedFor(n) ==
    \E s \in Specs, type \in Types :
        /\ disks[n] = DisksOf(type, s, n)
        /\ workloads[n] = [type |-> type, spec |-> s,
                           body |-> Rendered(type, s.body[type], n, DisksOf(type, s, n))]
RenderedInv ==
    /\ \A n \in Names : workloads[n] # NoWorkload => RenderedFor(n)
    /\ sw.pc # "idle" => workloads[sw.name] = NoWorkload

TInv == TypeOK /\ AdmissionInv /\ ReportInv /\ RenderedInv /\ AdmittedSpecsRun

-----------------------------------------------------------------------------
(* Operators *)

\* A spec that passes the rules and the validators has a kind, the gate of that kind
\* is open, and no disk is named twice.
LEMMA AdmittedCanBeMade ==
    ASSUME NEW s \in Specs, NEW g, TemplateAdmitted(s, g)
    PROVE  /\ DetectSandboxType(s) \in Types /\ GateOpen(DetectSandboxType(s), g)
           /\ \A n : Twice(DetectSandboxType(s), s, n) = {}
<1>1. s.kinds # {} /\ s.kinds \subseteq Types
  BY SpecsAssumption DEF TemplateAdmitted, SpecRules, NotAll
<1>2. VolumesValidator(s, g) /\ KindGate(s.kinds, g)
  BY DEF TemplateAdmitted, Validated, Registered, Holds, TypeValidator
<1>3. DetectSandboxType(s) \in Types /\ GateOpen(DetectSandboxType(s), g)
  <2>1. CASE "Pod" \in s.kinds
    BY <2>1 DEF DetectSandboxType, Types, GateOpen
  <2>2. CASE "Pod" \notin s.kinds /\ "KubevirtVMI" \in s.kinds
    BY <1>2, <2>2 DEF DetectSandboxType, Types, GateOpen, KindGate
  <2>3. CASE "Pod" \notin s.kinds /\ "KubevirtVMI" \notin s.kinds
    <3>1. s.kinds = {"DVPVM"}
      BY <1>1, <2>3 DEF Types
    <3>2. QED BY <1>2, <2>3, <3>1 DEF DetectSandboxType, Types, GateOpen, KindGate
  <2>4. QED BY <2>1, <2>2, <2>3
<1>4. \A n : Twice(DetectSandboxType(s), s, n) = {}
  BY <1>2 DEF VolumesValidator, Twice
<1>5. QED BY <1>3, <1>4

\* What a rendered body refers to is as the body has it, or one of the disks made.
LEMMA RenderedRefs ==
    ASSUME NEW type, NEW body, NEW uid, NEW made,
           body.refs \subseteq [slot : Seq(STRING), class : Classes, target : Seq(Parts)],
           NEW x \in Rendered(type, body, uid, made).refs
    PROVE  \E r \in body.refs :
              /\ x.slot = r.slot
              /\ \/ x.target = r.target
                 \/ x.target = FullName(r.class, uid, r.target) /\ x.target \in made
<1>1. PICK class \in Classes : x \in Retargeted(body.refs, class, uid, made)
  BY DEF Rendered, MutatePod, MutateVMI, MutateVM, Classes
<1>2. PICK r \in body.refs :
        x = [r EXCEPT !.target = IF r.class = class THEN Renamed(@, class, uid, made) ELSE @]
  BY <1>1 DEF Retargeted
<1>3. x.slot = r.slot
      /\ x.target = IF r.class = class THEN Renamed(r.target, class, uid, made) ELSE r.target
  BY <1>2
<1>4. QED BY <1>3 DEF Renamed

\* What a body uses of the volumes a spec declares is in the rendered body as one of
\* the disks of the sandbox, in the same place; but for the claims of a VMI.
LEMMA RenderedResolves ==
    ASSUME NEW s, NEW type \in Types, NEW uid, NEW r \in s.body[type].refs,
           s.body[type].refs \subseteq [slot : Seq(STRING), class : Classes, target : Seq(Parts)],
           r.class \in OwnedClasses[type], ~(type = "KubevirtVMI" /\ r.class = "PVC"),
           r.target \in Declared(s, r.class)
    PROVE  LET made == DisksOf(type, s, uid) IN
           \E x \in Rendered(type, s.body[type], uid, made).refs :
              x.slot = r.slot /\ x.target \in made
<1> DEFINE made == DisksOf(type, s, uid)
           body == s.body[type]
           x == [r EXCEPT !.target = FullName(r.class, uid, r.target)]
<1>1. FullName(r.class, uid, r.target) \in made
  BY DEF DisksOf
<1> HIDE DEF made
<1>2. x.slot = r.slot /\ x.target = FullName(r.class, uid, r.target)
  OBVIOUS
<1>3. x = [r EXCEPT !.target = Renamed(r.target, r.class, uid, made)]
  BY <1>1 DEF Renamed
<1> HIDE DEF x
<1>4. x \in Retargeted(body.refs, r.class, uid, made)
  BY <1>3 DEF Retargeted
<1>5. /\ type = "Pod" => r.class = "PVC"
      /\ type = "KubevirtVMI" => r.class = "DV"
      /\ type = "DVPVM" => r.class = "VD"
  BY DEF OwnedClasses
<1>6. Rendered(type, body, uid, made).refs = Retargeted(body.refs, r.class, uid, made)
  BY <1>5 DEF Rendered, MutatePod, MutateVMI, MutateVM, Types
<1>7. QED BY <1>1, <1>2, <1>4, <1>6 DEF made

\* A report is made of a kind and a condition.
LEMMA Reports ==
    ASSUME NEW copy
    PROVE  /\ Report(copy) \in [type : Kinds, cond : TemplateConds]
           /\ Report(copy).cond = "Terminating" <=> copy.del = TRUE
           /\ Before(copy) = [type |-> copy.type, cond |-> copy.cond]
BY DEF Report, Before, DetectSandboxType, Kinds, Types, TemplateConds, Copied

-----------------------------------------------------------------------------
(* Types *)

\* The records of the model are typed.
LEMMA RecordsTyped ==
    /\ NoTemplateObj \in TemplateType /\ IdleT \in TemplateWorker /\ IdleT.pc = "idle"
    /\ NoSandbox \in SandboxType /\ NoSandbox.phase = "none"
    /\ NothingSet \in Specs
    /\ IdleS.pc = "idle"
    /\ IdleS \in [pc : {"idle", "protect", "create"}, name : Names \cup {NoName}, tmpl : TemplateType,
                 spec : Specs]
BY DEF NoTemplateObj, TemplateType, IdleT, IdleS, TemplateWorker, NoSandbox, SandboxType, Specs, Kinds,
   TemplateConds

\* Users keep the types of what is stored.
LEMMA UsersTyped ==
    ASSUME TypeOK,
           \/ \E t \in Templates : CreateTemplate(t) \/ DeleteTemplate(t)
           \/ \E n \in Names : CreateSandbox(n) \/ DeleteSandbox(n) \/ CollectOrphans(n)
    PROVE  TypeOK'
<1> USE DEF TypeOK, sVars, tVars, world
<1>1. ASSUME NEW t \in Templates, CreateTemplate(t) PROVE TypeOK'
  <2>1. PICK s \in TemplateSpecs :
          templates' = [templates EXCEPT ![t] = [NoTemplateObj EXCEPT !.uid = used[t] + 1, !.spec = s]]
    BY <1>1 DEF CreateTemplate
  <2>2. used[t] + 1 \in 0..MaxTemplates
    <3>1. used[t] \in 0..MaxTemplates /\ used[t] < MaxTemplates /\ MaxTemplates \in Nat
      BY <1>1 DEF CreateTemplate, ConstantsAssumption
    <3>2. QED BY <3>1
  <2>3. [NoTemplateObj EXCEPT !.uid = used[t] + 1, !.spec = s] \in TemplateType
    BY <2>2, RecordsTyped DEF TemplateType, Specs
  <2>4. templates' \in [Templates -> TemplateType] /\ used' \in [Templates -> 0..MaxTemplates]
    BY <1>1, <2>1, <2>2, <2>3 DEF CreateTemplate
  <2>5. QED BY <1>1, <2>4 DEF CreateTemplate
<1>2. ASSUME NEW t \in Templates, DeleteTemplate(t) PROVE TypeOK'
  <2>1. \A obj \in TemplateType : [obj EXCEPT !.del = TRUE] \in TemplateType
    BY DEF TemplateType
  <2>2. templates' = [templates EXCEPT ![t] = IF templates[t].prot
                        THEN [templates[t] EXCEPT !.del = TRUE] ELSE NoTemplateObj]
    BY <1>2 DEF DeleteTemplate
  <2>3. templates' \in [Templates -> TemplateType]
    BY <2>1, <2>2, RecordsTyped
  <2>4. QED BY <1>2, <2>3 DEF DeleteTemplate
<1>3. ASSUME NEW n \in Names, CreateSandbox(n) PROVE TypeOK'
  <2> DEFINE made(r) == [NoSandbox EXCEPT !.phase = "there", !.template = r.template,
                                          !.inline = r.inline, !.ttl = Default(r.ttl)]
  <2>1. PICK r \in Requests : sandboxes' = [sandboxes EXCEPT ![n] = made(r)]
    BY <1>3 DEF CreateSandbox
  <2>2. /\ r.template \in Templates \cup {NoTemplate, Unset}
        /\ r.inline \in InlineSpecs \cup {NothingSet} /\ r.ttl \in Nat
    <3>1. CASE \E t \in Templates, l \in TTLs : r = CommandRequest(t, l)
      <4>1. PICK t \in Templates, l \in TTLs : r = CommandRequest(t, l)
        BY <3>1
      <4>2. r.template = t /\ r.inline = NothingSet /\ r.ttl = l
        BY <4>1 DEF CommandRequest
      <4>3. QED BY <4>2, ConstantsAssumption
    <3>2. CASE r \in [template : Templates \cup {NoTemplate, Unset},
                     inline : InlineSpecs \cup {NothingSet}, ttl : TTLs]
      BY <3>2, ConstantsAssumption
    <3>3. QED BY <3>1, <3>2 DEF Requests
  <2>3. Default(r.ttl) \in Nat \ {0}
    BY <2>2 DEF Default, DefaultTTL
  <2>4. made(r) \in SandboxType /\ made(r).ttl # 0
    BY <2>2, <2>3, RecordsTyped DEF SandboxType, NoSandbox
  <2> HIDE DEF made
  <2>5. QED BY <1>3, <2>1, <2>4 DEF CreateSandbox
<1>4. ASSUME NEW n \in Names, DeleteSandbox(n) PROVE TypeOK'
  <2> DEFINE phase == IF sandboxes[n].prot THEN "deleting" ELSE "gone"
  <2>1. sandboxes' = [sandboxes EXCEPT ![n] = [sandboxes[n] EXCEPT !.phase = phase]]
    BY <1>4 DEF DeleteSandbox
  <2>2. \A obj \in SandboxType : /\ [obj EXCEPT !.phase = phase] \in SandboxType
                                 /\ [obj EXCEPT !.phase = phase].ttl = obj.ttl
    BY DEF SandboxType
  <2>3. sandboxes[n].ttl # 0
    BY <1>4 DEF DeleteSandbox
  <2> HIDE DEF phase
  <2>4. sandboxes' \in [Names -> SandboxType]
        /\ \A m \in Names : sandboxes'[m].phase # "none" => sandboxes'[m].ttl # 0
    BY <2>1, <2>2, <2>3
  <2>5. QED BY <1>4, <2>4 DEF DeleteSandbox
<1>5. ASSUME NEW n \in Names, CollectOrphans(n) PROVE TypeOK'
  BY <1>5 DEF CollectOrphans
<1>6. QED BY <1>1, <1>2, <1>3, <1>4, <1>5

\* A status update leaves typed templates, whatever it is refused for.
LEMMA WrittenTyped ==
    ASSUME TypeOK, NEW x \in TemplateWorker, x.name \in Templates
    PROVE  Written(x) \in [Templates -> TemplateType]
<1>1. \A obj \in TemplateType : \A new \in [type : Kinds, cond : TemplateConds] :
        [[obj EXCEPT !.type = new.type] EXCEPT !.cond = new.cond] \in TemplateType
  BY DEF TemplateType
<1>2. templates \in [Templates -> TemplateType] /\ x.new \in [type : Kinds, cond : TemplateConds]
  BY DEF TypeOK, TemplateWorker
<1>3. \/ Written(x) = templates
      \/ Written(x) = [templates EXCEPT ![x.name] =
                         [[templates[x.name] EXCEPT !.type = x.new.type] EXCEPT !.cond = x.new.cond]]
  BY <1>2 DEF Written
<1> DEFINE y == [[templates[x.name] EXCEPT !.type = x.new.type] EXCEPT !.cond = x.new.cond]
<1>4. y \in TemplateType
  BY <1>1, <1>2
<1> HIDE DEF y
<1>5. [templates EXCEPT ![x.name] = y] \in [Templates -> TemplateType]
  BY <1>2, <1>4
<1>6. QED BY <1>2, <1>3, <1>5 DEF y

\* The cache, the SandboxTemplate controller and its replacement keep the types.
LEMMA ReporterTyped ==
    ASSUME TypeOK, WorkerInv(tw), WorkerInv(late),
           \/ \E t \in Templates : SyncTemplate(t) \/ Reconcile(t)
           \/ UpdateStatus \/ Replace \/ LateUpdate
    PROVE  TypeOK'
<1> USE DEF TypeOK, sVars, world
<1>1. ASSUME NEW t \in Templates, SyncTemplate(t) PROVE TypeOK'
  BY <1>1 DEF SyncTemplate
<1>2. ASSUME NEW t \in Templates, Reconcile(t) PROVE TypeOK'
  <2> DEFINE copy == cTemplates[t]
             x == [pc |-> "update", name |-> t, old |-> copy, new |-> Report(copy)]
  <2>1. x \in TemplateWorker
    BY Reports DEF TemplateWorker
  <2>2. tw' \in {IdleT, x}
    BY <1>2 DEF Reconcile
  <2> HIDE DEF x
  <2>3. QED BY <1>2, <2>1, <2>2, RecordsTyped DEF Reconcile
<1>3. CASE UpdateStatus
  <2> tw.name \in Templates
    BY <1>3 DEF UpdateStatus, WorkerInv
  <2>1. templates' = Written(tw) /\ tw' = IdleT /\ UNCHANGED <<cTemplates, late, used, sVars, world>>
    BY <1>3 DEF UpdateStatus
  <2>2. tQueue' \subseteq Templates
    <3>1. tQueue' = tQueue \/ (tQueue' = tQueue \cup {tw.name} /\ StatusConflict(templates[tw.name], tw.old))
      BY <1>3 DEF UpdateStatus
    <3>2. QED BY <3>1
  <2>3. QED BY <2>1, <2>2, RecordsTyped, WrittenTyped
<1>4. CASE Replace
  <2>1. restarts + 1 \in 0..MaxRestarts
    <3>1. restarts \in 0..MaxRestarts /\ restarts < MaxRestarts /\ MaxRestarts \in Nat
      BY <1>4 DEF Replace, ConstantsAssumption
    <3>2. QED BY <3>1
  <2>2. QED BY <1>4, <2>1, RecordsTyped DEF Replace
<1>5. CASE LateUpdate
  BY <1>5, RecordsTyped, WrittenTyped DEF LateUpdate, WorkerInv
<1>6. QED BY <1>1, <1>2, <1>3, <1>4, <1>5

\* What a create finds and leaves: the spec was admitted, so it ends with a workload or
\* with a refusal of its mounts, and the cache is not written through.
LEMMA Creates ==
    ASSUME TInv, Create
    PROVE  LET n == sw.name  type == DetectSandboxType(sw.spec)
               body == Rendered(type, sw.spec.body[type], n, DisksOf(type, sw.spec, n)) IN
           /\ n \in Names /\ sw.spec \in Specs /\ type \in Types
           /\ \E outcome \in {"Pending", "BadMounts"} :
                sandboxes' = IF sandboxes[n].phase = "there"
                             THEN [sandboxes EXCEPT ![n] = [[@ EXCEPT !.prot = TRUE] EXCEPT !.cond = outcome]]
                             ELSE sandboxes
           /\ workloads' \in {workloads,
                [workloads EXCEPT ![n] = [type |-> type, body |-> body, spec |-> sw.spec]]}
           /\ sw' = IdleS /\ UNCHANGED <<tVars, world>>
           /\ disks' = [disks EXCEPT ![n] = DisksOf(type, sw.spec, n)]
<1> DEFINE n == sw.name
           type == DetectSandboxType(sw.spec)
           body == Rendered(type, sw.spec.body[type], n, DisksOf(type, sw.spec, n))
           outcome == Outcome(n, type, sw.spec, body)
<1>1. n \in Names /\ sw.spec \in Specs /\ TemplateAdmitted(sw.spec, gates)
  BY DEF Create, TInv, AdmissionInv, Admitted
<1>2. type \in Types /\ GateOpen(type, gates) /\ Twice(type, sw.spec, n) = {}
  BY <1>1, AdmittedCanBeMade
<1>3. outcome \in {"Pending", "BadMounts"}
  BY <1>2 DEF Outcome
<1>4. WrittenThrough(n, type, body) = cTemplates
  BY <1>2 DEF WrittenThrough, Copied
<1> HIDE DEF body, outcome, type
<1>5. /\ sw' = IdleS /\ UNCHANGED <<templates, tQueue, tw, late, used, world>>
      /\ sandboxes' = IF sandboxes[n].phase = "there"
                      THEN [sandboxes EXCEPT ![n].prot = TRUE, ![n].cond = outcome] ELSE sandboxes
      /\ workloads' = IF outcome = "Pending"
                      THEN [workloads EXCEPT ![n] = [type |-> type, body |-> body, spec |-> sw.spec]]
                      ELSE workloads
      /\ cTemplates' = IF outcome \in {"Pending", "BadMounts"}
                       THEN WrittenThrough(n, type, body) ELSE cTemplates
      /\ disks' = [disks EXCEPT ![n] =
                      CASE outcome = "GateClosed" -> @
                        [] outcome = "DiskExists" -> @ \cup Twice(type, sw.spec, n)
                        [] OTHER                  -> DisksOf(type, sw.spec, n)]
  BY DEF Create, type, body, outcome
<1>6. disks' = [disks EXCEPT ![n] = DisksOf(type, sw.spec, n)]
  BY <1>3, <1>5
<1>7. QED BY <1>1, <1>2, <1>3, <1>4, <1>5, <1>6 DEF tVars, type, body

\* The sandbox controller keeps the types.
LEMMA ControllerTyped ==
    ASSUME TInv, \/ Protect \/ Create
                 \/ \E n \in Names : BeginSandbox(n) \/ Terminate(n)
    PROVE  TypeOK'
<1> USE DEF TypeOK
<1>1. \A obj \in TemplateType : \A b \in BOOLEAN : [obj EXCEPT !.prot = b] \in TemplateType
  BY DEF TemplateType
<1>2. templates \in [Templates -> TemplateType] /\ sandboxes \in [Names -> SandboxType]
  BY DEF TInv
<1>3. ASSUME NEW n \in Names, BeginSandbox(n) PROVE TypeOK'
  <2> DEFINE inline == sandboxes[n].inline # NothingSet
             tmpl == IF inline THEN NoTemplateObj ELSE cTemplates[sandboxes[n].template]
             pc == IF inline \/ tmpl.prot THEN "create" ELSE "protect"
             spec == SpecRead(n)
  <2>1. ~inline => cTemplates[sandboxes[n].template] \in TemplateType
    BY <1>3 DEF BeginSandbox, TInv, AdmissionInv
  <2>2. tmpl \in TemplateType /\ spec \in Specs
    BY <1>2, <2>1, RecordsTyped DEF SpecRead, SandboxType, TemplateType, Specs
  <2>3. pc \in {"protect", "create"}
    OBVIOUS
  <2>4. sw' = [pc |-> pc, name |-> n, tmpl |-> tmpl, spec |-> spec]
    BY <1>3 DEF BeginSandbox
  <2> HIDE DEF pc, tmpl, spec, inline
  <2>5. QED BY <1>3, <2>2, <2>3, <2>4 DEF BeginSandbox, TInv, tVars, world
<1>4. CASE Protect
  <2> DEFINE t == sandboxes[sw.name].template
  <2>1. templates' = templates \/ templates' = [templates EXCEPT ![t] = [@ EXCEPT !.prot = TRUE]]
    BY <1>4 DEF Protect
  <2>2. templates' \in [Templates -> TemplateType]
    <3> HIDE DEF t
    <3>1. t \in Templates => [templates[t] EXCEPT !.prot = TRUE] \in TemplateType
      BY <1>1, <1>2
    <3>2. QED BY <1>2, <2>1, <3>1
  <2>3. sw' = [sw EXCEPT !.pc = "create"] \/ sw' = IdleS
    BY <1>4 DEF Protect
  <2>4. QED BY <1>4, <2>2, <2>3, RecordsTyped DEF Protect, TInv, world
<1>5. CASE Create
  <2>1. PICK outcome \in {"Pending", "BadMounts"} :
          sandboxes' = IF sandboxes[sw.name].phase = "there"
                       THEN [sandboxes EXCEPT ![sw.name] = [[@ EXCEPT !.prot = TRUE] EXCEPT !.cond = outcome]]
                       ELSE sandboxes
    BY <1>5, Creates
  <2>2. \A obj \in SandboxType :
          /\ [[obj EXCEPT !.prot = TRUE] EXCEPT !.cond = outcome] \in SandboxType
          /\ [[obj EXCEPT !.prot = TRUE] EXCEPT !.cond = outcome].ttl = obj.ttl
          /\ [[obj EXCEPT !.prot = TRUE] EXCEPT !.cond = outcome].phase = obj.phase
    BY DEF SandboxType
  <2>3. sandboxes' \in [Names -> SandboxType]
        /\ \A m \in Names : sandboxes'[m].phase # "none" => sandboxes'[m].ttl # 0
    BY <1>2, <2>1, <2>2 DEF TInv
  <2>4. sw' = IdleS /\ UNCHANGED <<tVars, world>>
    BY <1>5, Creates
  <2>5. QED BY <2>3, <2>4, RecordsTyped DEF tVars, world, TInv
<1>6. ASSUME NEW n \in Names, Terminate(n) PROVE TypeOK'
  <2> DEFINE t == sandboxes[n].template
  <2>1. templates' = templates \/ templates' = [templates EXCEPT ![t] =
                        IF templates[t].del THEN NoTemplateObj ELSE [templates[t] EXCEPT !.prot = FALSE]]
    BY <1>6 DEF Terminate
  <2>2. templates' \in [Templates -> TemplateType]
    <3> HIDE DEF t
    <3>1. t \in Templates => [templates[t] EXCEPT !.prot = FALSE] \in TemplateType
      BY <1>1, <1>2
    <3>2. QED BY <1>2, <2>1, <3>1, RecordsTyped
  <2>3. sandboxes' = sandboxes \/ sandboxes' = [sandboxes EXCEPT ![n] = [sandboxes[n] EXCEPT !.phase = "gone"]]
    BY <1>6 DEF Terminate
  <2>4. \A obj \in SandboxType : /\ [obj EXCEPT !.phase = "gone"] \in SandboxType
                                 /\ [obj EXCEPT !.phase = "gone"].ttl = obj.ttl
    BY DEF SandboxType
  <2>5. sandboxes[n].ttl # 0
    BY <1>6 DEF Terminate, TInv
  <2>6. sandboxes' \in [Names -> SandboxType]
        /\ \A m \in Names : sandboxes'[m].phase # "none" => sandboxes'[m].ttl # 0
    BY <1>2, <2>3, <2>4, <2>5 DEF TInv
  <2>7. QED BY <1>6, <2>2, <2>6 DEF Terminate, TInv, world
<1>7. QED BY <1>3, <1>4, <1>5, <1>6

-----------------------------------------------------------------------------
(* Templates *)

\* Marks and reports leave the fields they are not about.
LEMMA Edits ==
    ASSUME NEW obj \in TemplateType
    PROVE  /\ \A b \in BOOLEAN : Gist([obj EXCEPT !.prot = b]) = Gist(obj)
           /\ LET o == [obj EXCEPT !.del = TRUE] IN
                /\ o.uid = obj.uid /\ o.spec = obj.spec /\ o.type = obj.type /\ o.cond = obj.cond
                /\ o.del = TRUE
           /\ \A ty, cond : LET o == [[obj EXCEPT !.type = ty] EXCEPT !.cond = cond] IN
                /\ o.uid = obj.uid /\ o.spec = obj.spec /\ o.del = obj.del
                /\ o.type = ty /\ o.cond = cond
BY DEF TemplateType, Gist

\* What can happen to a template: it goes, is made, is left but for its finalizer, is
\* marked as deleted, or gets a report that is true of it.
Fate(t) ==
    \/ templates'[t] = NoTemplateObj
    \/ /\ templates'[t].uid = used[t] + 1 /\ used'[t] = used[t] + 1
       /\ templates'[t].cond = "none" /\ Admitted(templates'[t].spec)
    \/ Gist(templates'[t]) = Gist(templates[t])
    \/ /\ templates'[t].uid = templates[t].uid /\ templates'[t].spec = templates[t].spec
       /\ templates'[t].cond = templates[t].cond /\ templates[t].uid # 0
       /\ ~templates[t].del /\ templates'[t].del /\ UNCHANGED cTemplates
    \/ /\ templates'[t].uid = templates[t].uid /\ templates'[t].spec = templates[t].spec
       /\ templates[t].uid # 0 /\ templates'[t].del = templates[t].del /\ Settled(templates'[t])

LEMMA WrittenFate ==
    ASSUME TInv, NEW x \in TemplateWorker, WorkerInv(x), x.pc = "update", templates' = Written(x),
           NEW t \in Templates
    PROVE  /\ Fate(t)
           /\ x.name = t /\ ~StatusConflict(templates[t], x.old) => Settled(templates'[t])
<1>1. templates \in [Templates -> TemplateType] /\ x.name \in Templates /\ x.new = Report(x.old)
  BY DEF TInv, TypeOK, WorkerInv
<1>2. CASE x.name # t \/ StatusConflict(templates[x.name], x.old)
  <2>1. templates'[t] = templates[t]
    BY <1>1, <1>2 DEF Written
  <2>2. QED BY <1>2, <2>1 DEF Fate
<1>3. CASE x.name = t /\ ~StatusConflict(templates[t], x.old)
  <2> DEFINE o == [[templates[t] EXCEPT !.type = x.new.type] EXCEPT !.cond = x.new.cond]
  <2>1. templates'[t] = o
    BY <1>1, <1>3 DEF Written
  <2>2. /\ o.uid = templates[t].uid /\ o.spec = templates[t].spec /\ o.del = templates[t].del
        /\ o.type = Report(templates[t]).type /\ o.cond = Report(templates[t]).cond
    <3>1. x.old = templates[t]
      BY <1>3 DEF StatusConflict
    <3>2. QED BY <1>1, <3>1, Edits
  <2> HIDE DEF o
  <2>3. Settled(o)
    BY <2>2 DEF Settled, Report
  <2>4. templates[t].uid # 0
    BY <1>3 DEF WorkerInv, StatusConflict
  <2>5. QED BY <2>1, <2>2, <2>3, <2>4 DEF Fate
<1>4. QED BY <1>2, <1>3, <1>1

LEMMA TemplateFate ==
    ASSUME TInv, Next, NEW t \in Templates
    PROVE  Fate(t)
<1>1. templates \in [Templates -> TemplateType] /\ used \in [Templates -> 0..MaxTemplates]
      /\ tw \in TemplateWorker /\ late \in TemplateWorker /\ WorkerInv(tw) /\ WorkerInv(late)
  BY DEF TInv, TypeOK, ReportInv
<1>2. ASSUME templates'[t] = templates[t] PROVE Fate(t)
  BY <1>2 DEF Fate
<1>3. ASSUME NEW m \in Templates, CreateTemplate(m) PROVE Fate(t)
  <2>1. PICK s \in TemplateSpecs :
          /\ TemplateAdmitted(s, gates)
          /\ templates' = [templates EXCEPT ![m] = [NoTemplateObj EXCEPT !.uid = used[m] + 1, !.spec = s]]
    BY <1>3 DEF CreateTemplate
  <2> DEFINE o == [NoTemplateObj EXCEPT !.uid = used[m] + 1, !.spec = s]
  <2>2. o.spec = s /\ o.uid = used[m] + 1 /\ o.cond = "none"
    BY DEF NoTemplateObj
  <2>3. used' = [used EXCEPT ![m] = used[m] + 1] /\ Admitted(s)
    BY <1>3, <2>1 DEF CreateTemplate, Admitted, Specs
  <2>4. templates' = [templates EXCEPT ![m] = o]
    BY <2>1
  <2> HIDE DEF o
  <2>5. CASE t = m
    BY <1>1, <2>2, <2>3, <2>4, <2>5 DEF Fate
  <2>6. QED BY <1>1, <1>2, <2>4, <2>5
<1>4. ASSUME NEW m \in Templates, DeleteTemplate(m) PROVE Fate(t)
  <2>1. /\ templates' = [templates EXCEPT ![m] = IF templates[m].prot
                           THEN [templates[m] EXCEPT !.del = TRUE] ELSE NoTemplateObj]
        /\ templates[m].uid # 0 /\ ~templates[m].del /\ UNCHANGED cTemplates
    BY <1>4 DEF DeleteTemplate
  <2>2. CASE t = m
    <3>1. templates'[t] = NoTemplateObj \/ templates'[t] = [templates[t] EXCEPT !.del = TRUE]
      BY <1>1, <2>1, <2>2
    <3>2. CASE templates'[t] = [templates[t] EXCEPT !.del = TRUE]
      <4> DEFINE o == [templates[t] EXCEPT !.del = TRUE]
      <4>1. /\ o.uid = templates[t].uid /\ o.spec = templates[t].spec /\ o.cond = templates[t].cond
            /\ o.del = TRUE
        BY <1>1, Edits
      <4>2. templates'[t] = o
        BY <3>2
      <4> HIDE DEF o
      <4>3. QED BY <2>1, <2>2, <4>1, <4>2 DEF Fate
    <3>3. QED BY <3>1, <3>2 DEF Fate
  <2>3. QED BY <1>1, <1>2, <2>1, <2>2
<1>5. CASE UpdateStatus
  BY <1>1, <1>5, WrittenFate DEF UpdateStatus
<1>6. CASE LateUpdate
  BY <1>1, <1>6, WrittenFate DEF LateUpdate
<1>7. CASE Protect
  <2> DEFINE m == sandboxes[sw.name].template
  <2>1. templates' = templates \/ templates' = [templates EXCEPT ![m] = [@ EXCEPT !.prot = TRUE]]
    BY <1>7 DEF Protect
  <2> HIDE DEF m
  <2>2. templates'[t] = templates[t] \/ templates'[t] = [templates[t] EXCEPT !.prot = TRUE]
    BY <1>1, <2>1
  <2>3. QED BY <1>1, <2>2, Edits DEF Fate
<1>8. ASSUME NEW n \in Names, Terminate(n) PROVE Fate(t)
  <2> DEFINE m == sandboxes[n].template
  <2>1. templates' = templates \/ templates' = [templates EXCEPT ![m] =
                        IF templates[m].del THEN NoTemplateObj ELSE [templates[m] EXCEPT !.prot = FALSE]]
    BY <1>8 DEF Terminate
  <2> HIDE DEF m
  <2>2. \/ templates'[t] = templates[t] \/ templates'[t] = NoTemplateObj
        \/ templates'[t] = [templates[t] EXCEPT !.prot = FALSE]
    BY <1>1, <2>1
  <2>3. QED BY <1>1, <2>2, Edits DEF Fate
<1>9. CASE \/ \E m \in Templates : SyncTemplate(m) \/ Reconcile(m)
           \/ \E n \in Names : CreateSandbox(n) \/ DeleteSandbox(n) \/ CollectOrphans(n) \/ BeginSandbox(n)
           \/ Replace \/ Create
  <2>1. UNCHANGED templates
    BY <1>9, Creates DEF SyncTemplate, Reconcile, CreateSandbox, DeleteSandbox, CollectOrphans,
       BeginSandbox, Replace, tVars
  <2>2. QED BY <1>2, <2>1
<1>10. QED BY <1>3, <1>4, <1>5, <1>6, <1>7, <1>8, <1>9 DEF Next

\* Only the informer changes the cache, and takes what the server has.
LEMMA CacheFollows ==
    ASSUME TInv, Next
    PROVE  /\ UNCHANGED gates
           /\ \A t \in Templates : cTemplates'[t] \in {cTemplates[t], templates[t]}
<1>1. cTemplates \in [Templates -> TemplateType]
  BY DEF TInv, TypeOK
<1>2. CASE Create
  <2>1. UNCHANGED <<cTemplates, gates>>
    BY <1>2, Creates DEF tVars, world
  <2>2. QED BY <2>1
<1>3. ASSUME NEW m \in Templates, SyncTemplate(m)
      PROVE  UNCHANGED gates /\ \A t \in Templates : cTemplates'[t] \in {cTemplates[t], templates[t]}
  BY <1>1, <1>3 DEF SyncTemplate, world
<1>4. CASE Replace
  BY <1>4 DEF Replace
<1>5. CASE ~Create /\ ~Replace /\ ~\E m \in Templates : SyncTemplate(m)
  <2>1. UNCHANGED <<cTemplates, gates>>
    BY <1>5 DEF Next, CreateTemplate, DeleteTemplate, Reconcile, CreateSandbox, DeleteSandbox,
       CollectOrphans, BeginSandbox, Terminate, UpdateStatus, LateUpdate, Protect, tVars, world
  <2>2. QED BY <2>1
<1>6. QED BY <1>2, <1>3, <1>4, <1>5

\* How often a name has been used only grows.
LEMMA UsedGrows ==
    ASSUME TInv, Next, NEW t \in Templates
    PROVE  used[t] \in Nat /\ used'[t] \in {used[t], used[t] + 1}
<1>1. used \in [Templates -> 0..MaxTemplates] /\ used[t] \in Nat
  <2>1. used \in [Templates -> 0..MaxTemplates]
    BY DEF TInv, TypeOK
  <2>2. used[t] \in 0..MaxTemplates
    BY <2>1
  <2>3. QED BY <2>1, <2>2
<1>2. ASSUME NEW m \in Templates, CreateTemplate(m) PROVE used'[t] \in {used[t], used[t] + 1}
  BY <1>1, <1>2 DEF CreateTemplate
<1>3. CASE ~\E m \in Templates : CreateTemplate(m)
  <2>1. CASE Create
    <3>1. UNCHANGED used
      BY <2>1, Creates DEF tVars
    <3>2. QED BY <1>1, <3>1
  <2>2. CASE ~Create
    <3>1. UNCHANGED used
      BY <1>3, <2>2 DEF Next, DeleteTemplate, SyncTemplate, Reconcile, CreateSandbox, DeleteSandbox,
         CollectOrphans, BeginSandbox, Terminate, UpdateStatus, Replace, LateUpdate, Protect, tVars
    <3>2. QED BY <1>1, <3>1
  <2>3. QED BY <2>1, <2>2
<1>4. QED BY <1>1, <1>2, <1>3

-----------------------------------------------------------------------------
(* Admission *)

\* A sandbox keeps what it was admitted with, or is admitted.
LEMMA SandboxFate ==
    ASSUME TInv, Next, NEW n \in Names
    PROVE  \/ /\ sandboxes'[n].inline = sandboxes[n].inline
              /\ sandboxes'[n].template = sandboxes[n].template
              /\ sandboxes[n].phase = "none" => sandboxes'[n].phase = "none"
              /\ sandboxes'[n].cond \in {sandboxes[n].cond, "Pending", "BadMounts"}
           \/ /\ sandboxes'[n].inline # NothingSet => Admitted(sandboxes'[n].inline)
              /\ sandboxes'[n].inline = NothingSet => sandboxes'[n].template \in Templates
              /\ sandboxes'[n].cond = "none"
<1>1. sandboxes \in [Names -> SandboxType]
  BY DEF TInv, TypeOK
<1> DEFINE Kept == /\ sandboxes'[n].inline = sandboxes[n].inline
                   /\ sandboxes'[n].template = sandboxes[n].template
                   /\ sandboxes[n].phase = "none" => sandboxes'[n].phase = "none"
                   /\ sandboxes'[n].cond \in {sandboxes[n].cond, "Pending", "BadMounts"}
<1>2. ASSUME sandboxes'[n] = sandboxes[n] PROVE Kept
  BY <1>2
<1>3. ASSUME NEW m \in Names, CreateSandbox(m)
      PROVE  \/ Kept
             \/ /\ sandboxes'[n].inline # NothingSet => Admitted(sandboxes'[n].inline)
                /\ sandboxes'[n].inline = NothingSet => sandboxes'[n].template \in Templates
                /\ sandboxes'[n].cond = "none"
  <2> DEFINE made(r) == [NoSandbox EXCEPT !.phase = "there", !.template = r.template,
                                          !.inline = r.inline, !.ttl = Default(r.ttl)]
  <2>1. PICK r \in Requests : sandboxes' = [sandboxes EXCEPT ![m] = made(r)] /\ SandboxAdmitted(r, gates)
    BY <1>3 DEF CreateSandbox
  <2>2. made(r).template = r.template /\ made(r).inline = r.inline /\ made(r).cond = "none"
    BY DEF NoSandbox
  <2>3. /\ r.template \in Templates \cup {NoTemplate, Unset}
        /\ r.inline \in InlineSpecs \cup {NothingSet}
    BY DEF Requests, CommandRequest
  <2>4. r.inline # NothingSet => Admitted(r.inline)
    BY <2>1, <2>3 DEF SandboxAdmitted, SandboxRules, SandboxValidated, Admitted, TemplateAdmitted, Specs
  <2>5. r.inline = NothingSet => r.template \in Templates
    <3>1. ASSUME r.inline = NothingSet PROVE TemplateNamed(r) = "true"
      <4>1. CelOr(TemplateNamed(r), "false") = "true"
        BY <2>1, <3>1 DEF SandboxAdmitted, SandboxRules, Cel
      <4>2. QED BY <4>1 DEF CelOr
    <3>2. TemplateNamed(r) = "true" => r.template \notin {NoTemplate, Unset}
      BY DEF TemplateNamed, Cel
    <3>3. QED BY <2>3, <3>1, <3>2
  <2> HIDE DEF made, Kept
  <2>6. CASE n = m
    BY <1>1, <2>1, <2>2, <2>4, <2>5, <2>6
  <2>7. CASE n # m
    BY <1>1, <1>2, <2>1, <2>7
  <2>8. QED BY <2>6, <2>7
<1>4. ASSUME NEW m \in Names, NEW phase \in {"deleting", "gone"}, sandboxes[m].phase # "none",
             sandboxes' = [sandboxes EXCEPT ![m].phase = phase]
      PROVE  Kept
  <2>1. \A obj \in SandboxType : LET o == [obj EXCEPT !.phase = phase] IN
          o.inline = obj.inline /\ o.template = obj.template /\ o.cond = obj.cond /\ o.phase = phase
    BY DEF SandboxType
  <2>2. QED BY <1>1, <1>4, <2>1
<1>5. ASSUME NEW m \in Names, DeleteSandbox(m) PROVE Kept
  <2>1. sandboxes[m].phase # "none" /\ \E phase \in {"deleting", "gone"} :
           sandboxes' = [sandboxes EXCEPT ![m].phase = phase]
    BY <1>5 DEF DeleteSandbox
  <2>2. QED BY <1>4, <2>1
<1>6. ASSUME NEW m \in Names, Terminate(m) PROVE Kept
  <2>1. /\ sandboxes[m].phase # "none"
        /\ sandboxes' = sandboxes \/ sandboxes' = [sandboxes EXCEPT ![m].phase = "gone"]
    BY <1>6 DEF Terminate
  <2>2. QED BY <1>2, <1>4, <2>1
<1>7. CASE Create
  <2>1. PICK outcome \in {"Pending", "BadMounts"} :
          sandboxes' = IF sandboxes[sw.name].phase = "there"
                       THEN [sandboxes EXCEPT ![sw.name] = [[@ EXCEPT !.prot = TRUE] EXCEPT !.cond = outcome]]
                       ELSE sandboxes
    BY <1>7, Creates
  <2>2. \A obj \in SandboxType : LET o == [[obj EXCEPT !.prot = TRUE] EXCEPT !.cond = outcome] IN
          o.inline = obj.inline /\ o.template = obj.template /\ o.cond = outcome /\ o.phase = obj.phase
    BY DEF SandboxType
  <2>3. QED BY <1>1, <1>2, <2>1, <2>2
<1>8. CASE \/ \E t \in Templates : CreateTemplate(t) \/ DeleteTemplate(t) \/ SyncTemplate(t) \/ Reconcile(t)
           \/ \E m \in Names : CollectOrphans(m) \/ BeginSandbox(m)
           \/ UpdateStatus \/ Replace \/ LateUpdate \/ Protect
  <2>1. UNCHANGED sandboxes
    BY <1>8 DEF CreateTemplate, DeleteTemplate, SyncTemplate, Reconcile, CollectOrphans, BeginSandbox,
       UpdateStatus, Replace, LateUpdate, Protect, sVars
  <2>2. QED BY <1>2, <2>1
<1> HIDE DEF Kept
<1>9. QED BY <1>3, <1>5, <1>6, <1>7, <1>8 DEF Next, Kept

\* What the sandbox controller works with has been admitted.
LEMMA WorkAdmitted ==
    ASSUME TInv, Next
    PROVE  sw'.pc # "idle" => sw'.name \in Names /\ Admitted(sw'.spec)
<1>1. sw.pc # "idle" => sw.name \in Names /\ Admitted(sw.spec)
  BY DEF TInv, AdmissionInv
<1>2. ASSUME NEW n \in Names, BeginSandbox(n)
      PROVE  sw'.name \in Names /\ Admitted(sw'.spec)
  <2>1. sw'.name = n /\ sw'.spec = SpecRead(n) /\ Usable(n) /\ sandboxes[n].phase # "none"
    BY <1>2 DEF BeginSandbox
  <2>2. Admitted(SpecRead(n))
    BY <2>1 DEF SpecRead, Usable, TInv, AdmissionInv
  <2>3. QED BY <2>1, <2>2
<1>3. IdleS.pc = "idle"
  BY DEF IdleS
<1>4. CASE Protect
  <2>1. sw' = [sw EXCEPT !.pc = "create"] \/ sw' = IdleS
    BY <1>4 DEF Protect
  <2>2. sw.pc # "idle" /\ sw.pc = "protect"
    BY <1>4 DEF Protect
  <2>3. [sw EXCEPT !.pc = "create"].name = sw.name /\ [sw EXCEPT !.pc = "create"].spec = sw.spec
    BY DEF TInv, TypeOK
  <2>4. QED BY <1>1, <1>3, <2>1, <2>2, <2>3
<1>5. CASE Create
  BY <1>3, <1>5, Creates
<1>6. CASE Replace
  BY <1>3, <1>6 DEF Replace
<1>7. CASE \/ \E t \in Templates : CreateTemplate(t) \/ DeleteTemplate(t) \/ SyncTemplate(t) \/ Reconcile(t)
           \/ \E m \in Names : CollectOrphans(m) \/ Terminate(m) \/ CreateSandbox(m) \/ DeleteSandbox(m)
           \/ UpdateStatus \/ LateUpdate
  <2>1. UNCHANGED sw
    BY <1>7 DEF CreateTemplate, DeleteTemplate, SyncTemplate, Reconcile, CollectOrphans, Terminate,
       UpdateStatus, LateUpdate, CreateSandbox, DeleteSandbox, sVars
  <2>2. QED BY <1>1, <2>1
<1>8. UNCHANGED gates
  BY CacheFollows
<1>9. QED BY <1>2, <1>4, <1>5, <1>6, <1>7, <1>8 DEF Next, Admitted

LEMMA AdmissionKept ==
    ASSUME TInv, Next
    PROVE  AdmissionInv'
<1>1. gates' = gates /\ NoTemplateObj.uid = 0
  BY CacheFollows DEF NoTemplateObj
<1>2. ASSUME NEW t \in Templates
      PROVE  /\ templates'[t].uid # 0 => Admitted(templates'[t].spec)
             /\ cTemplates'[t].uid # 0 => Admitted(cTemplates'[t].spec)
  <2>1. templates[t].uid # 0 => Admitted(templates[t].spec)
    BY DEF TInv, AdmissionInv
  <2>2. templates'[t].uid # 0 => Admitted(templates'[t].spec)
    <3>1. Fate(t)
      BY TemplateFate
    <3>2. QED BY <1>1, <2>1, <3>1 DEF Fate, Gist
  <2>3. cTemplates'[t] \in {cTemplates[t], templates[t]}
    BY CacheFollows
  <2>4. QED BY <2>1, <2>2, <2>3 DEF TInv, AdmissionInv
<1>3. ASSUME NEW n \in Names
      PROVE  /\ sandboxes'[n].inline # NothingSet => Admitted(sandboxes'[n].inline)
             /\ sandboxes'[n].phase # "none" /\ sandboxes'[n].inline = NothingSet
                => sandboxes'[n].template \in Templates
  BY SandboxFate DEF TInv, AdmissionInv
<1>4. sw'.pc # "idle" => sw'.name \in Names /\ Admitted(sw'.spec)
  BY WorkAdmitted
<1>5. workloads' = [n \in Names |-> workloads'[n]] /\ disks' = [n \in Names |-> disks'[n]]
  <2>1. workloads = [n \in Names |-> workloads[n]] /\ disks = [n \in Names |-> disks[n]]
    BY DEF TInv, AdmissionInv
  <2>2. CASE Create
    <3> DEFINE n == sw.name
               type == DetectSandboxType(sw.spec)
               body == Rendered(type, sw.spec.body[type], n, DisksOf(type, sw.spec, n))
               w == [type |-> type, body |-> body, spec |-> sw.spec]
    <3>1. workloads' = workloads \/ workloads' = [workloads EXCEPT ![n] = w]
      BY <2>2, Creates
    <3>2. disks' = [disks EXCEPT ![n] = DisksOf(type, sw.spec, n)]
      BY <2>2, Creates
    <3> HIDE DEF n, w
    <3>3. workloads' = [m \in Names |-> workloads'[m]]
      BY <2>1, <3>1
    <3>4. disks' = [m \in Names |-> disks'[m]]
      BY <2>1, <3>2
    <3>5. QED BY <3>3, <3>4
  <2>3. ASSUME NEW n \in Names, CollectOrphans(n) \/ Terminate(n)
        PROVE  workloads' = [m \in Names |-> workloads'[m]] /\ disks' = [m \in Names |-> disks'[m]]
    <3>1. workloads' = [workloads EXCEPT ![n] = NoWorkload] /\ disks' = [disks EXCEPT ![n] = {}]
      BY <2>3 DEF CollectOrphans, Terminate
    <3>2. QED BY <2>1, <3>1
  <2>4. CASE ~Create /\ ~\E n \in Names : CollectOrphans(n) \/ Terminate(n)
    <3>1. UNCHANGED <<workloads, disks>>
      BY <2>4 DEF Next, CreateTemplate, DeleteTemplate, SyncTemplate, Reconcile, CreateSandbox,
         DeleteSandbox, BeginSandbox, UpdateStatus, Replace, LateUpdate, Protect, sVars
    <3>2. QED BY <2>1, <3>1
  <2>5. QED BY <2>2, <2>3, <2>4
<1>6. QED BY <1>1, <1>2, <1>3, <1>4, <1>5 DEF AdmissionInv, Admitted

-----------------------------------------------------------------------------
(* Reports *)

LEMMA WorkersKept ==
    ASSUME TInv, Next
    PROVE  WorkerInv(tw') /\ WorkerInv(late')
<1>1. WorkerInv(tw) /\ WorkerInv(late) /\ WorkerInv(IdleT)
  BY DEF TInv, ReportInv, WorkerInv, IdleT
<1>2. ASSUME NEW t \in Templates, Reconcile(t) PROVE WorkerInv(tw') /\ late' = late
  BY <1>1, <1>2 DEF Reconcile, WorkerInv
<1>3. CASE Create
  BY <1>1, <1>3, Creates DEF tVars
<1>4. CASE UpdateStatus \/ LateUpdate \/ Replace
  BY <1>1, <1>4 DEF UpdateStatus, LateUpdate, Replace
<1>5. CASE ~Create /\ ~UpdateStatus /\ ~LateUpdate /\ ~Replace /\ ~\E t \in Templates : Reconcile(t)
  <2>1. UNCHANGED <<tw, late>>
    BY <1>5 DEF Next, CreateTemplate, DeleteTemplate, SyncTemplate, CreateSandbox, DeleteSandbox,
       CollectOrphans, BeginSandbox, Terminate, Protect, tVars
  <2>2. QED BY <1>1, <2>1
<1>6. QED BY <1>1, <1>2, <1>3, <1>4, <1>5

\* A report that is due stays due until it is made: queued, in the works, or to come
\* with the cache.
Due(t) == t \in tQueue \/ Pending(tw, t) \/ Gist(cTemplates[t]) # Gist(templates[t])

LEMMA DueKept ==
    ASSUME TInv, Next, NEW t \in Templates, Due(t), templates'[t].uid # 0,
           Gist(templates'[t]) = Gist(templates[t]), ~Settled(templates'[t])
    PROVE  Due(t)'
<1>1. /\ cTemplates \in [Templates -> TemplateType] /\ templates[t].uid # 0 /\ ~Settled(templates[t])
      /\ tw \in TemplateWorker
  BY DEF TInv, TypeOK, Gist, Settled, Report
<1>2. ASSUME NEW m \in Templates, SyncTemplate(m) PROVE Due(t)'
  <2>1. tQueue' = tQueue \cup {m} /\ tw' = tw /\ cTemplates' = [cTemplates EXCEPT ![m] = templates[m]]
    BY <1>2 DEF SyncTemplate
  <2>2. CASE m = t
    BY <2>1, <2>2 DEF Due
  <2>3. CASE m # t
    BY <1>1, <2>1, <2>3 DEF Due, Pending
  <2>4. QED BY <2>2, <2>3
<1>3. ASSUME NEW m \in Templates, Reconcile(m) PROVE Due(t)'
  <2>1. /\ tw.pc = "idle" /\ tQueue' = tQueue \ {m} /\ UNCHANGED <<templates, cTemplates>>
        /\ tw' = IF cTemplates[m].uid = 0 \/ Report(cTemplates[m]) = Before(cTemplates[m]) THEN IdleT
                 ELSE [pc |-> "update", name |-> m, old |-> cTemplates[m], new |-> Report(cTemplates[m])]
    BY <1>3 DEF Reconcile
  <2>2. CASE m = t /\ ~(cTemplates[t].uid = 0 \/ Report(cTemplates[t]) = Before(cTemplates[t]))
    BY <2>1, <2>2 DEF Due, Pending
  <2>3. CASE m = t /\ (cTemplates[t].uid = 0 \/ Report(cTemplates[t]) = Before(cTemplates[t]))
    <3>1. cTemplates[t].uid = 0 \/ Settled(cTemplates[t])
      BY <2>3, Reports DEF Settled
    <3>2. Gist(cTemplates[t]) # Gist(templates[t])
      BY <1>1, <3>1 DEF Gist, Settled, Report
    <3>3. QED BY <2>1, <3>2 DEF Due
  <2>4. CASE m # t
    BY <2>1, <2>4 DEF Due, Pending
  <2>5. QED BY <2>1, <2>2, <2>3, <2>4
<1>4. CASE UpdateStatus
  <2>1. /\ templates' = Written(tw) /\ UNCHANGED cTemplates /\ tw.pc = "update"
        /\ tQueue' = IF StatusConflict(templates[tw.name], tw.old) THEN tQueue \cup {tw.name} ELSE tQueue
    BY <1>4 DEF UpdateStatus
  <2>2. tw.name = t => StatusConflict(templates[t], tw.old)
    BY <1>1, <2>1, WrittenFate DEF TInv, ReportInv
  <2>3. CASE tw.name = t
    BY <2>1, <2>2, <2>3 DEF Due
  <2>4. CASE tw.name # t
    BY <2>1, <2>4 DEF Due, Pending
  <2>5. QED BY <2>3, <2>4
<1>5. CASE Replace
  <2>1. t \in tQueue'
    BY <1>1, <1>5 DEF Replace
  <2>2. QED BY <2>1 DEF Due
<1>6. CASE ~UpdateStatus /\ ~Replace /\ ~\E m \in Templates : SyncTemplate(m) \/ Reconcile(m)
  <2>1. UNCHANGED <<tQueue, tw, cTemplates>>
    <3>1. CASE Create
      BY <3>1, Creates DEF tVars
    <3>2. CASE ~Create
      BY <1>6, <3>2 DEF Next, CreateTemplate, DeleteTemplate, CreateSandbox, DeleteSandbox,
         CollectOrphans, BeginSandbox, Terminate, LateUpdate, Protect, tVars
    <3>3. QED BY <3>1, <3>2
  <2>2. QED BY <2>1 DEF Due, Pending
<1>7. QED BY <1>2, <1>3, <1>4, <1>5, <1>6

LEMMA ReportKept ==
    ASSUME TInv, Next
    PROVE  ReportInv'
<1>1. WorkerInv(tw)' /\ WorkerInv(late)'
  BY WorkersKept DEF WorkerInv, Report, DetectSandboxType
<1>2. ASSUME NEW t \in Templates
      PROVE  (/\ templates[t].uid <= used[t] /\ cTemplates[t].uid <= used[t]
              /\ templates[t].cond = "Terminating" => templates[t].del /\ templates[t].uid # 0
              /\ templates[t].uid = cTemplates[t].uid /\ cTemplates[t].uid # 0 /\ cTemplates[t].del
                 => templates[t].del
              /\ templates[t].uid # 0 /\ ~Settled(templates[t]) => Due(t))'
  <2> DEFINE o == templates[t]  p == templates'[t]  c == cTemplates[t]  d == cTemplates'[t]
  <2>1. /\ o.uid <= used[t] /\ c.uid <= used[t] /\ (o.cond = "Terminating" => o.del /\ o.uid # 0)
        /\ (o.uid = c.uid /\ c.uid # 0 /\ c.del => o.del)
        /\ (o.uid # 0 /\ ~Settled(o) => Due(t))
    BY DEF TInv, ReportInv, Due
  <2>2. o \in TemplateType /\ c \in TemplateType /\ p \in TemplateType /\ d \in TemplateType
    <3>1. TypeOK'
      BY UsersTyped, ReporterTyped, ControllerTyped DEF Next, TInv, ReportInv
    <3>2. QED BY <3>1 DEF TypeOK, TInv
  <2>3. o.uid \in Nat /\ c.uid \in Nat /\ p.uid \in Nat /\ d.uid \in Nat
    BY <2>2 DEF TemplateType
  <2>4. Fate(t) /\ d \in {c, o} /\ used[t] \in Nat /\ used'[t] \in {used[t], used[t] + 1}
    BY TemplateFate, CacheFollows, UsedGrows
  <2>5. NoTemplateObj.uid = 0 /\ NoTemplateObj.cond = "none"
    BY DEF NoTemplateObj
  <2>6. Settled(p) => (p.cond = "Terminating" => p.del)
    BY <2>2 DEF Settled, Report, TemplateType
  <2>7. p.uid <= used'[t] /\ d.uid <= used'[t]
    BY <2>1, <2>3, <2>4, <2>5 DEF Fate, Gist
  <2>8. p.cond = "Terminating" => p.del /\ p.uid # 0
    <3>1. used[t] + 1 # 0
      BY <2>4
    <3>2. QED BY <2>1, <2>2, <2>4, <2>5, <2>6, <3>1 DEF Fate, Gist, TemplateType
  <2>9. p.uid = d.uid /\ d.uid # 0 /\ d.del => p.del
    <3>1. p.uid = o.uid /\ o.uid # 0 /\ o.del => p.del
      <4>1. o.del \in BOOLEAN /\ p.del \in BOOLEAN
        BY <2>2 DEF TemplateType
      <4>2. Gist(p) = Gist(o) => p.del = o.del
        BY DEF Gist
      <4>3. ASSUME p.uid = o.uid, o.uid # 0, o.del = TRUE PROVE p.del = TRUE
        <5>1. p.uid # used[t] + 1 /\ p # NoTemplateObj
          BY <2>1, <2>3, <2>4, <2>5, <4>3
        <5>2. Gist(p) = Gist(o) \/ p.del = TRUE \/ p.del = o.del
          BY <2>4, <4>1, <5>1 DEF Fate
        <5>3. QED BY <4>2, <4>3, <5>2
      <4>4. QED BY <4>1, <4>3
    <3>2. p.uid = d.uid /\ d.uid # 0 => p.uid = o.uid
      BY <2>1, <2>3, <2>4, <2>5 DEF Fate, Gist
    <3>3. QED BY <2>1, <2>4, <3>1, <3>2
  <2>10. p.uid # 0 /\ ~Settled(p) => Due(t)'
    <3> SUFFICES ASSUME p.uid # 0, ~Settled(p) PROVE Due(t)'
      OBVIOUS
    <3>1. CASE Gist(p) = Gist(o)
      <4>1. o.uid # 0 /\ ~Settled(o)
        BY <3>1 DEF Gist, Settled, Report
      <4>2. QED BY <2>1, <3>1, <4>1, DueKept
    <3>2. CASE p.uid = used[t] + 1
      <4>1. d.uid # p.uid
        BY <2>1, <2>3, <2>4, <3>2
      <4>2. QED BY <4>1 DEF Due, Gist
    <3>3. CASE p.uid = o.uid /\ o.uid # 0 /\ ~o.del /\ p.del /\ UNCHANGED cTemplates
      <4>1. d.uid # p.uid \/ ~d.del
        BY <2>1, <3>3
      <4>2. QED BY <3>3, <4>1 DEF Due, Gist
    <3>4. QED BY <2>4, <2>5, <3>1, <3>2, <3>3 DEF Fate
  <2>11. QED BY <2>7, <2>8, <2>9, <2>10 DEF Settled, Report, DetectSandboxType
<1>3. QED BY <1>1, <1>2 DEF ReportInv, Due

-----------------------------------------------------------------------------
(* Workloads *)

\* The controller begins with a sandbox that has no workload, and brings none before it
\* is done.
LEMMA WorkAlone ==
    ASSUME TInv, Next
    PROVE  sw'.pc # "idle" => workloads'[sw'.name] = NoWorkload
<1>1. workloads = [m \in Names |-> workloads[m]]
      /\ (sw.pc # "idle" => workloads[sw.name] = NoWorkload /\ sw.name \in Names)
  BY DEF TInv, AdmissionInv, RenderedInv
<1>2. IdleS.pc = "idle"
  BY DEF IdleS
<1>3. ASSUME NEW n \in Names, BeginSandbox(n) PROVE workloads'[sw'.name] = NoWorkload
  BY <1>3 DEF BeginSandbox
<1>4. CASE Protect
  <2>1. sw' = [sw EXCEPT !.pc = "create"] \/ sw' = IdleS
    BY <1>4 DEF Protect
  <2>2. sw.pc # "idle" /\ UNCHANGED workloads /\ [sw EXCEPT !.pc = "create"].name = sw.name
    BY <1>4 DEF Protect, TInv, TypeOK
  <2>3. QED BY <1>1, <1>2, <2>1, <2>2
<1>5. CASE Create
  BY <1>2, <1>5, Creates
<1>6. CASE Replace
  BY <1>2, <1>6 DEF Replace
<1>7. ASSUME NEW n \in Names, CollectOrphans(n) \/ Terminate(n)
      PROVE  sw'.pc # "idle" => workloads'[sw'.name] = NoWorkload
  <2>1. UNCHANGED sw /\ workloads' = [workloads EXCEPT ![n] = NoWorkload]
    BY <1>7 DEF CollectOrphans, Terminate, sVars
  <2>2. QED BY <1>1, <2>1
<1>8. CASE \/ \E t \in Templates : CreateTemplate(t) \/ DeleteTemplate(t) \/ SyncTemplate(t) \/ Reconcile(t)
           \/ \E m \in Names : CreateSandbox(m) \/ DeleteSandbox(m)
           \/ UpdateStatus \/ LateUpdate
  <2>1. UNCHANGED <<sw, workloads>>
    BY <1>8 DEF CreateTemplate, DeleteTemplate, SyncTemplate, Reconcile, UpdateStatus, LateUpdate,
       CreateSandbox, DeleteSandbox, sVars
  <2>2. QED BY <1>1, <2>1
<1>9. QED BY <1>3, <1>4, <1>5, <1>6, <1>7, <1>8 DEF Next

\* A create leaves workload and disks that belong together; whatever takes the one away
\* takes the other, and nothing else touches them.
LEMMA RenderedKept ==
    ASSUME TInv, Next
    PROVE  RenderedInv'
<1>1. /\ workloads = [m \in Names |-> workloads[m]] /\ disks = [m \in Names |-> disks[m]]
      /\ \A m \in Names : workloads[m] # NoWorkload => RenderedFor(m)
  BY DEF TInv, AdmissionInv, RenderedInv
<1>2. SUFFICES ASSUME NEW n \in Names, workloads'[n] # NoWorkload PROVE RenderedFor(n)'
  BY WorkAlone DEF RenderedInv
<1>3. ASSUME workloads'[n] = workloads[n], disks'[n] = disks[n] PROVE RenderedFor(n)'
  <2>1. RenderedFor(n)
    BY <1>1, <1>2, <1>3
  <2>2. PICK s \in Specs, type \in Types :
          /\ disks[n] = DisksOf(type, s, n)
          /\ workloads[n] = [type |-> type, spec |-> s,
                             body |-> Rendered(type, s.body[type], n, DisksOf(type, s, n))]
    BY <2>1 DEF RenderedFor
  <2>3. /\ disks'[n] = DisksOf(type, s, n)
        /\ workloads'[n] = [type |-> type, spec |-> s,
                            body |-> Rendered(type, s.body[type], n, DisksOf(type, s, n))]
    BY <1>3, <2>2
  <2>4. QED BY <2>3 DEF RenderedFor
<1>4. CASE Create
  <2> DEFINE s == sw.spec
             type == DetectSandboxType(s)
             made == DisksOf(type, s, sw.name)
             body == Rendered(type, s.body[type], sw.name, made)
             x == [type |-> type, spec |-> s, body |-> body]
  <2>1. /\ s \in Specs /\ type \in Types /\ sw.name \in Names
        /\ workloads' = workloads \/ workloads' = [workloads EXCEPT ![sw.name] = x]
        /\ disks' = [disks EXCEPT ![sw.name] = made]
    BY <1>4, Creates
  <2>2. workloads[sw.name] = NoWorkload
    BY <1>4 DEF Create, TInv, RenderedInv
  <2> HIDE DEF x
  <2>3. CASE n # sw.name
    BY <1>1, <1>3, <2>1, <2>3
  <2>4. CASE n = sw.name
    <3>1. workloads'[n] = x /\ disks'[n] = DisksOf(type, s, n)
      BY <1>1, <1>2, <2>1, <2>2, <2>4
    <3>2. x = [type |-> type, spec |-> s, body |-> Rendered(type, s.body[type], n, DisksOf(type, s, n))]
      BY <2>4 DEF x
    <3> HIDE DEF type, s
    <3>3. QED BY <2>1, <3>1, <3>2 DEF RenderedFor
  <2>5. QED BY <2>3, <2>4
<1>5. ASSUME NEW m \in Names, CollectOrphans(m) \/ Terminate(m) PROVE RenderedFor(n)'
  <2>1. workloads' = [workloads EXCEPT ![m] = NoWorkload] /\ disks' = [disks EXCEPT ![m] = {}]
    BY <1>5 DEF CollectOrphans, Terminate
  <2>2. n # m
    BY <1>1, <1>2, <2>1
  <2>3. QED BY <1>1, <1>3, <2>1, <2>2
<1>6. CASE ~Create /\ ~\E m \in Names : CollectOrphans(m) \/ Terminate(m)
  <2>1. UNCHANGED <<workloads, disks>>
    BY <1>6 DEF Next, CreateTemplate, DeleteTemplate, SyncTemplate, Reconcile, CreateSandbox,
       DeleteSandbox, BeginSandbox, UpdateStatus, Replace, LateUpdate, Protect, sVars
  <2>2. QED BY <1>3, <2>1
<1>7. QED BY <1>4, <1>5, <1>6

-----------------------------------------------------------------------------
(* The theorems *)

LEMMA InitHolds == Init => TInv
<1> SUFFICES ASSUME Init PROVE TInv
  OBVIOUS
<1> USE DEF Init
<1>1. 0 \in 0..MaxTemplates /\ 0 \in 0..MaxRestarts
  BY ConstantsAssumption
<1>2. TypeOK
  BY <1>1, RecordsTyped DEF TypeOK
<1>3. AdmissionInv
  BY RecordsTyped DEF AdmissionInv, NoTemplateObj, NoSandbox
<1>4. ReportInv
  <2>1. WorkerInv(IdleT)
    BY DEF WorkerInv, IdleT
  <2>2. NoTemplateObj.uid = 0 /\ NoTemplateObj.cond = "none" /\ 0 <= 0
    BY DEF NoTemplateObj
  <2>3. QED BY <2>1, <2>2 DEF ReportInv
<1>5. AdmittedSpecsRun
  BY DEF AdmittedSpecsRun, NoSandbox
<1>6. RenderedInv
  BY RecordsTyped DEF RenderedInv
<1>7. QED BY <1>2, <1>3, <1>4, <1>5, <1>6 DEF TInv

LEMMA StepHolds ==
    ASSUME TInv, [Next]_vars
    PROVE  TInv'
<1>1. CASE Next
  <2>1. TypeOK'
    BY <1>1, UsersTyped, ReporterTyped, ControllerTyped DEF Next, TInv, ReportInv
  <2>2. AdmissionInv' /\ ReportInv' /\ RenderedInv'
    BY <1>1, AdmissionKept, ReportKept, RenderedKept
  <2>3. AdmittedSpecsRun'
    BY <1>1, SandboxFate DEF AdmittedSpecsRun, TInv
  <2>4. QED BY <2>1, <2>2, <2>3 DEF TInv
<1>2. CASE UNCHANGED vars
  <2>1. TypeOK' /\ AdmittedSpecsRun'
    BY <1>2 DEF TInv, vars, tVars, sVars, world, TypeOK, AdmittedSpecsRun
  <2>2. AdmissionInv'
    BY <1>2 DEF TInv, vars, tVars, sVars, world, AdmissionInv, Admitted
  <2>3. ReportInv'
    BY <1>2 DEF TInv, vars, tVars, sVars, world, ReportInv, WorkerInv, Settled, Pending, Gist
  <2>4. RenderedInv'
    BY <1>2 DEF TInv, vars, sVars, RenderedInv, RenderedFor
  <2>5. QED BY <2>1, <2>2, <2>3, <2>4 DEF TInv
<1>3. QED BY <1>1, <1>2

LEMMA TInvInductive == Spec => []TInv
BY InitHolds, StepHolds, PTL DEF Spec

\* Every variable keeps its type, and what is stored has been through the webhooks.
THEOREM TypeCorrect == Spec => []TypeOK
<1>1. TInv => TypeOK
  BY DEF TInv
<1>2. QED BY <1>1, TInvInductive, PTL

\* Whatever specs are submitted under whatever gates: no create finds its gate closed
\* or a disk of its own name there already (TypeValidator, VolumesValidator).
THEOREM AdmittedCanRun == Spec => []AdmittedSpecsRun
<1>1. TInv => AdmittedSpecsRun
  BY DEF TInv
<1>2. QED BY <1>1, TInvInductive, PTL

\* Whatever users refer to in the bodies they write, the full names of other sandboxes'
\* disks included, no reference of a workload comes from anywhere else but the renaming
\* to its own disks (mutatePodPVCs, mutateKubevirtVMIVolumes, mutateDVPVMVolumes,
\* DeepCopyInto).
THEOREM OwnDisks == Spec => []OwnDisksOnly
<1>1. TInv => OwnDisksOnly
  <2> SUFFICES ASSUME TInv, NEW n \in Names, NEW x \in workloads[n].body.refs
               PROVE  \E s \in Specs : \E r \in s.body[workloads[n].type].refs :
                         /\ x.slot = r.slot
                         /\ \/ x.target = r.target
                            \/ x.target = FullName(r.class, n, r.target) /\ x.target \in disks[n]
    BY DEF OwnDisksOnly
  <2>1. workloads[n] # NoWorkload
    BY DEF NoWorkload, NoBody
  <2>2. PICK s \in Specs, type \in Types :
          /\ disks[n] = DisksOf(type, s, n)
          /\ workloads[n] = [type |-> type, spec |-> s,
                             body |-> Rendered(type, s.body[type], n, DisksOf(type, s, n))]
    BY <2>1 DEF TInv, RenderedInv, RenderedFor
  <2>3. /\ x \in Rendered(type, s.body[type], n, disks[n]).refs /\ workloads[n].type = type
        /\ s.body[type].refs \subseteq [slot : Seq(STRING), class : Classes, target : Seq(Parts)]
    BY <2>2, SpecsAssumption
  <2>4. QED BY <2>3, RenderedRefs
<1>2. QED BY <1>1, TInvInductive, PTL

\* Whatever a spec declares and its body uses of it, the workload of a sandbox that is
\* there uses under the disk's full name, and the disk exists (mutatePodPVCs,
\* mutateDVPVMVolumes, mutateKubevirtVMIVolumes).
THEOREM ReferencesAreMet == Spec => []ReferencesResolve
<1>1. TInv => ReferencesResolve
  <2> SUFFICES ASSUME TInv, NEW n \in Names, workloads[n] # NoWorkload,
                      NEW r \in workloads[n].spec.body[workloads[n].type].refs,
                      r.class \in OwnedClasses[workloads[n].type],
                      ~(workloads[n].type = "KubevirtVMI" /\ r.class = "PVC"),
                      r.target \in Declared(workloads[n].spec, r.class)
               PROVE  \E x \in workloads[n].body.refs : x.slot = r.slot /\ x.target \in disks[n]
    BY DEF ReferencesResolve
  <2>1. PICK s \in Specs, type \in Types :
          /\ disks[n] = DisksOf(type, s, n)
          /\ workloads[n] = [type |-> type, spec |-> s,
                             body |-> Rendered(type, s.body[type], n, DisksOf(type, s, n))]
    BY DEF TInv, RenderedInv, RenderedFor
  <2>2. s.body[type].refs \subseteq [slot : Seq(STRING), class : Classes, target : Seq(Parts)]
    BY SpecsAssumption
  <2>3. workloads[n].type = type /\ workloads[n].spec = s
        /\ workloads[n].body = Rendered(type, s.body[type], n, DisksOf(type, s, n))
    BY <2>1
  <2>4. QED BY <2>1, <2>2, <2>3, RenderedResolves
<1>2. QED BY <1>1, TInvInductive, PTL

\* However often the controller is replaced and however late its updates arrive: once
\* nothing is left to do, every template reports what it is.
THEOREM ReportsSettle == Spec => []TemplateReportSettles
<1>1. TInv => TemplateReportSettles
  <2> SUFFICES ASSUME TInv, Quiescent, NEW t \in Templates, templates[t].uid # 0
               PROVE  Settled(templates[t])
    BY DEF TemplateReportSettles, Settled
  <2>1. ~(t \in tQueue) /\ ~Pending(tw, t) /\ Gist(cTemplates[t]) = Gist(templates[t])
    BY DEF Quiescent, Pending
  <2>2. QED BY <2>1 DEF TInv, ReportInv
<1>2. QED BY <1>1, TInvInductive, PTL

\* No step, of no worker and no replaced one, takes back that a template terminates.
THEOREM TerminatingStays == Spec => TerminatingNeverUndone
<1>1. ASSUME TInv, [Next]_vars
      PROVE  [\A t \in Templates :
                templates[t].cond = "Terminating" /\ templates'[t].uid = templates[t].uid
                => templates'[t].cond = "Terminating"]_vars
  <2> SUFFICES ASSUME TInv, Next, NEW t \in Templates, templates[t].cond = "Terminating",
                      templates'[t].uid = templates[t].uid
               PROVE  templates'[t].cond = "Terminating"
    BY <1>1
  <2>1. templates[t].uid # 0 /\ templates[t].uid <= used[t] /\ templates[t].del
    BY DEF TInv, ReportInv
  <2>2. templates[t] \in TemplateType /\ templates'[t] \in TemplateType
    <3>1. TypeOK /\ TypeOK'
      BY StepHolds DEF TInv
    <3>2. QED BY <3>1 DEF TypeOK
  <2>3. templates'[t].uid # used[t] + 1 /\ templates'[t] # NoTemplateObj
    <3>1. used[t] \in Nat /\ templates[t].uid \in Nat
      BY <2>2, UsedGrows DEF TemplateType
    <3>2. QED BY <2>1, <3>1 DEF NoTemplateObj
  <2>4. Fate(t)
    BY TemplateFate
  <2>5. CASE Settled(templates'[t]) /\ templates'[t].del = templates[t].del
    BY <2>1, <2>2, <2>5 DEF Settled, Report, TemplateType
  <2>6. CASE Gist(templates'[t]) = Gist(templates[t]) \/ templates'[t].cond = templates[t].cond
    BY <2>6 DEF Gist
  <2>7. QED BY <2>3, <2>4, <2>5, <2>6 DEF Fate
<1>2. QED BY <1>1, TInvInductive, PTL DEF Spec, TerminatingNeverUndone
=============================================================================
