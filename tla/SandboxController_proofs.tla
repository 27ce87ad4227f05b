---------------------- MODULE SandboxController_proofs ----------------------
(***************************************************************************)
(* Proofs about the sandbox controller for every value of the constants:  *)
(* its types, and what a stale copy of a protected sandbox still says.     *)
(***************************************************************************)
EXTENDS SandboxProperties, TLAPS

USE ConstantsAssumption

-----------------------------------------------------------------------------
(* Lemmas on the operators the worker is built from *)

\* A spec is detected as one of the known types, or as none.
LEMMA DetectTyped ==
    ASSUME NEW spec PROVE DetectSandboxType(spec) \in Types \cup {NoType}
BY DEF DetectSandboxType, Types

\* The phase of a workload always reads as one of the conditions.
LEMMA ReasonTyped ==
    ASSUME NEW type, NEW phase PROVE ReasonOf(type, phase) \in Conditions
BY DEF ReasonOf, Conditions

\* Going to the update keeps everything the worker holds.
LEMMA UpdatingTyped ==
    ASSUME NEW x \in Worker, Holding(x)
    PROVE  /\ Updating(x) \in Worker /\ Holding(Updating(x))
           /\ Updating(x).pc \in {"updateStatus", "updateMeta"}
<1>1. Updating(x) \in Worker
  BY DEF Updating, Worker, Steps
<1>2. Holding(Updating(x))
  BY DEF Updating, Worker, Steps, Holding, ChildSteps, TemplateSteps
<1>3. QED BY <1>1, <1>2 DEF Updating, Worker, Steps

\* So does failing, ...
LEMMA FailingTyped ==
    ASSUME NEW x \in Worker, Holding(x)
    PROVE  /\ Failing(x) \in Worker /\ Holding(Failing(x))
           /\ CreateFailing(x) \in Worker /\ Holding(CreateFailing(x))
<1>1. [x EXCEPT !.err = TRUE] \in Worker /\ Holding([x EXCEPT !.err = TRUE])
  BY DEF Worker, Holding
<1>2. ASSUME NEW y \in Worker, Holding(y), y = [x EXCEPT !.new.cond = "CreateFailed"]
      PROVE  [y EXCEPT !.err = TRUE] \in Worker /\ Holding([y EXCEPT !.err = TRUE])
  BY <1>2 DEF Worker, Holding
<1>3. /\ [x EXCEPT !.new.cond = "CreateFailed"] \in Worker
      /\ Holding([x EXCEPT !.new.cond = "CreateFailed"])
  BY DEF Worker, Holding, Conditions
<1>4. QED BY <1>1, <1>2, <1>3, UpdatingTyped DEF Failing, CreateFailing

\* ... going on to the children of a known type, ...
LEMMA CreatingTyped ==
    ASSUME NEW x \in Worker, Holding(x), x.new.type \in Types
    PROVE  Creating(x) \in Worker /\ Holding(Creating(x))
<1>1. /\ [x EXCEPT !.pc = "listDisks"] \in Worker
      /\ Holding([x EXCEPT !.pc = "listDisks"])
  BY DEF Worker, Holding, Steps, ChildSteps, TemplateSteps
<1>2. QED BY <1>1, FailingTyped DEF Creating

\* ... and letting go of the template and of the sandbox.
LEMMA ReleasingTyped ==
    ASSUME NEW x \in Worker, Holding(x)
    PROVE  /\ Releasing(x) \in Worker /\ Holding(Releasing(x))
           /\ Unprotecting(x) \in Worker /\ Holding(Unprotecting(x))
<1>1. /\ [x EXCEPT !.new.prot = FALSE] \in Worker
      /\ Holding([x EXCEPT !.new.prot = FALSE])
  BY DEF Worker, Holding
<1>2. ASSUME x.tmpl.there
      PROVE  /\ [x EXCEPT !.pc = "unprotect"] \in Worker
             /\ Holding([x EXCEPT !.pc = "unprotect"])
  BY <1>2 DEF Worker, Holding, Steps, ChildSteps, TemplateSteps
<1>3. QED BY <1>1, <1>2, UpdatingTyped DEF Releasing, Unprotecting

\* What a reconcile starts from is well typed, and its template was read if there.
LEMMA ReadingTyped ==
    ASSUME CacheTypeOK, NEW n \in Names, cSandboxes[n].uid # 0
    PROVE  /\ Reading(n) \in Worker /\ Holding(Reading(n))
           /\ Reading(n).old = cSandboxes[n] /\ Reading(n).name = n
           /\ Reading(n).new.type = TypeFor(cSandboxes[n], TemplateFor(cSandboxes[n]))
           /\ Reading(n).new.prot = cSandboxes[n].prot
           /\ Reading(n).tmpl = TemplateFor(cSandboxes[n])
<1> DEFINE copy == cSandboxes[n]
           tmpl == TemplateFor(copy)
<1>1. copy \in Sandbox
  BY DEF CacheTypeOK
<1>2. tmpl \in Template /\ (tmpl.there => copy.tmpl \in Templates)
  BY <1>1 DEF CacheTypeOK, TemplateFor, NoTemplateObj, Template, Sandbox, Specs
<1>3. TypeFor(copy, tmpl) \in Types \cup {NoType}
  BY <1>1, DetectTyped DEF TypeFor, Sandbox
<1>4. TemplateCondition(copy, tmpl) \in Conditions
  BY <1>1 DEF TemplateCondition, Sandbox, Conditions
<1>5. [type |-> TypeFor(copy, tmpl), cond |-> TemplateCondition(copy, tmpl), prot |-> copy.prot]
      \in [type: Types \cup {NoType}, cond: Conditions, prot: BOOLEAN]
  BY <1>1, <1>3, <1>4 DEF Sandbox
<1>6. Reading(n) =
        [pc |-> "idle", name |-> n, old |-> copy, tmpl |-> tmpl,
         new |-> [type |-> TypeFor(copy, tmpl), cond |-> TemplateCondition(copy, tmpl),
                  prot |-> copy.prot],
         todo |-> {}, err |-> FALSE, after |-> FALSE]
  BY DEF Reading, copy, tmpl
<1> HIDE DEF copy, tmpl
<1>7. Reading(n) \in Worker
  BY <1>1, <1>2, <1>5, <1>6 DEF Worker, Steps
<1>8. Holding(Reading(n))
  BY <1>2, <1>6 DEF Holding, copy, ChildSteps, TemplateSteps
<1>9. QED BY <1>6, <1>7, <1>8 DEF copy, tmpl
-----------------------------------------------------------------------------
(* Type correctness, group of actions by group of actions *)

\* A busy worker works under the key of a sandbox that was created.
LEMMA KeyTyped ==
    ASSUME TypeOK, w.pc # "idle"
    PROVE  /\ Key \in Keys /\ w.name \in Names /\ w.old \in Sandbox
           /\ w.old.uid \in Incarnations
<1>1. w.old \in Sandbox /\ w.name \in Names /\ w.old.uid # 0
  BY DEF TypeOK, WorkerTypeOK, Worker, Holding
<1>2. w.old.uid \in Incarnations
  BY <1>1 DEF Sandbox, Incarnations
<1>3. QED BY <1>1, <1>2 DEF Key, Keys

\* The failing of a call is counted and bounded.
LEMMA LoseTyped ==
    ASSUME TypeOK, Lose PROVE errors' \in 0..MaxErrors
BY DEF TypeOK, WorldTypeOK, Lose

\* Writing a workload keeps the workloads and their events typed.
LEMMA WriteTyped ==
    ASSUME TypeOK, NEW k \in Keys, NEW t \in Types, NEW to \in Workload, WriteWorkload(k, t, to)
    PROVE  workloads' \in [Keys -> [Types -> Workload]] /\ events' \subseteq Keys
<1>1. workloads' \in [Keys -> [Types -> Workload]]
  BY DEF TypeOK, ApiTypeOK, WriteWorkload
<1>2. events' \subseteq Keys
  BY DEF TypeOK, SchedTypeOK, WriteWorkload
<1>3. QED BY <1>1, <1>2

\* Users create and delete well-typed objects.
LEMMA UserTyped == ASSUME TypeOK, User PROVE TypeOK'
<1> USE DEF TypeOK
<1>1. ASSUME NEW n \in Names, CreateSandbox(n) PROVE TypeOK'
  <2>a. born[n] + 1 \in 0..MaxIncarnations
    <3>1. born[n] \in 0..MaxIncarnations /\ born[n] < MaxIncarnations /\ MaxIncarnations \in Nat
      BY <1>1, ConstantsAssumption DEF CreateSandbox, WorldTypeOK, ConstantsAssumption
    <3>2. QED BY <3>1
  <2>1. born' \in [Names -> 0..MaxIncarnations] /\ born[n] + 1 \in 0..MaxIncarnations
    BY <1>1, <2>a DEF CreateSandbox, WorldTypeOK
  <2>2. sandboxes' \in [Names -> Sandbox]
    <3>1. ASSUME NEW t \in Templates
          PROVE  [NoSandbox EXCEPT !.uid = born[n] + 1, !.tmpl = t] \in Sandbox
      BY <2>1 DEF NoSandbox, Sandbox, Specs, Conditions
    <3>2. ASSUME NEW s \in InlineSpecs
          PROVE  [NoSandbox EXCEPT !.uid = born[n] + 1, !.inline = s] \in Sandbox
      BY <2>1 DEF NoSandbox, Sandbox, Specs, Conditions
    <3>3. QED BY <1>1, <3>1, <3>2 DEF CreateSandbox, ApiTypeOK
  <2>3. QED BY <1>1, <2>1, <2>2 DEF CreateSandbox, ApiTypeOK, CacheTypeOK, SchedTypeOK,
               WorkerTypeOK, WorldTypeOK, caches, sched, Holding
<1>2. ASSUME NEW n \in Names, DeleteSandbox(n) PROVE TypeOK'
  <2>1. sandboxes[n] \in Sandbox /\ NoSandbox \in Sandbox
    BY DEF ApiTypeOK, NoSandbox, Sandbox, Specs, Conditions
  <2>2. Deleted(sandboxes[n], NoSandbox) \in Sandbox
    BY <2>1 DEF Deleted, Sandbox
  <2>3. QED BY <1>2, <2>2 DEF DeleteSandbox, ApiTypeOK, CacheTypeOK, SchedTypeOK,
               WorkerTypeOK, WorldTypeOK, caches, sched, world, Holding
<1>3. ASSUME NEW t \in Templates, CreateTemplate(t) PROVE TypeOK'
  <2>1. ASSUME NEW s \in TemplateSpecs
        PROVE  [NoTemplateObj EXCEPT !.there = TRUE, !.spec = s] \in Template
    BY DEF NoTemplateObj, Template, Specs
  <2>2. templates' \in [Templates -> Template]
    BY <1>3, <2>1 DEF CreateTemplate, ApiTypeOK
  <2>3. QED BY <1>3, <2>2 DEF CreateTemplate, ApiTypeOK, CacheTypeOK, SchedTypeOK,
               WorkerTypeOK, WorldTypeOK, caches, sched, world, Holding
<1>4. ASSUME NEW t \in Templates, DeleteTemplate(t) PROVE TypeOK'
  <2>1. templates[t] \in Template /\ NoTemplateObj \in Template
    BY DEF ApiTypeOK, NoTemplateObj, Template, Specs
  <2>2. Deleted(templates[t], NoTemplateObj) \in Template
    BY <2>1 DEF Deleted, Template
  <2>3. QED BY <1>4, <2>2 DEF DeleteTemplate, ApiTypeOK, CacheTypeOK, SchedTypeOK,
               WorkerTypeOK, WorldTypeOK, caches, sched, world, Holding
<1>5. QED BY <1>1, <1>2, <1>3, <1>4 DEF User

\* Kubelet, operators, garbage collector and clock keep the types.
LEMMA ClusterTyped == ASSUME TypeOK, Cluster PROVE TypeOK'
<1> USE DEF TypeOK
<1>1. ASSUME NEW k \in Keys, NEW t \in Types, NEW to \in Workload, ChangeWorkload(k, t, to)
      PROVE  TypeOK'
  BY <1>1, WriteTyped DEF ChangeWorkload, ApiTypeOK, CacheTypeOK, SchedTypeOK,
     WorkerTypeOK, WorldTypeOK, caches, world, Holding
<1>2. ASSUME NEW k \in Keys, NEW t \in Types,
             WorkloadPhase(k, t) \/ EvictWorkload(k, t) \/ WorkloadGone(k, t)
      PROVE  TypeOK'
  <2>1. workloads[k][t] \in Workload /\ NoWorkload \in Workload
    BY DEF ApiTypeOK, NoWorkload, Workload
  <2>2. /\ [workloads[k][t] EXCEPT !.del = TRUE] \in Workload
        /\ \A p \in Phases : [workloads[k][t] EXCEPT !.phase = p] \in Workload
    BY <2>1 DEF Workload
  <2>3. PICK to \in Workload : ChangeWorkload(k, t, to)
    BY <1>2, <2>1, <2>2 DEF WorkloadPhase, EvictWorkload, WorkloadGone
  <2>4. QED BY <1>1, <2>3
<1>3. ASSUME NEW k \in Keys, CollectOrphans(k) PROVE TypeOK'
  <2>1. ASSUME NEW t \in Types
        PROVE  [workloads[k][t] EXCEPT !.del = @ \/ workloads[k][t].phase # Absent] \in Workload
    <3>1. workloads[k][t] \in Workload
      BY DEF ApiTypeOK
    <3>2. (workloads[k][t].del \/ workloads[k][t].phase # Absent) \in BOOLEAN
      OBVIOUS
    <3>3. ASSUME NEW x \in Workload, NEW b \in BOOLEAN PROVE [x EXCEPT !.del = b] \in Workload
      BY DEF Workload
    <3>4. QED BY <3>1, <3>2, <3>3
  <2>2. workloads' \in [Keys -> [Types -> Workload]]
    BY <1>3, <2>1 DEF CollectOrphans, ApiTypeOK
  <2>3. QED BY <1>3, <2>2 DEF CollectOrphans, ApiTypeOK, CacheTypeOK, SchedTypeOK,
               WorkerTypeOK, WorldTypeOK, caches, sched, world, Holding
<1>4. ASSUME NEW n \in Names, RunOut(n) PROVE TypeOK'
  BY <1>4 DEF RunOut, ApiTypeOK, CacheTypeOK, SchedTypeOK, WorkerTypeOK, WorldTypeOK,
     api, caches, sched, Holding, Keys
<1>5. QED BY <1>2, <1>3, <1>4 DEF Cluster

\* Caches take the type of what they copy.
LEMMA InformersTyped == ASSUME TypeOK, Informers PROVE TypeOK'
<1> USE DEF TypeOK, ApiTypeOK, CacheTypeOK, SchedTypeOK, WorkerTypeOK, WorldTypeOK, Holding,
            api, sched, world
<1>1. ASSUME NEW n \in Names, SyncSandbox(n) PROVE TypeOK'
  BY <1>1 DEF SyncSandbox
<1>2. ASSUME NEW t \in Templates, SyncTemplate(t) PROVE TypeOK'
  BY <1>2 DEF SyncTemplate
<1>3. ASSUME NEW k \in Keys, SyncWorkload(k) PROVE TypeOK'
  BY <1>3 DEF SyncWorkload, Keys
<1>4. ASSUME NEW k \in Keys, SyncDisks(k) PROVE TypeOK'
  BY <1>4 DEF SyncDisks
<1>5. QED BY <1>1, <1>2, <1>3, <1>4 DEF Informers

\* A copy with another step and nothing else keeps its type.
LEMMA StepTyped ==
    ASSUME NEW x \in Worker, Holding(x), NEW pc \in Steps,
           pc \in ChildSteps => x.new.type \in Types,
           pc \in TemplateSteps => x.tmpl.there
    PROVE  [x EXCEPT !.pc = pc] \in Worker /\ Holding([x EXCEPT !.pc = pc])
BY DEF Worker, Holding

\* A worker at rest is well typed.
LEMMA IdleTyped == IdleWorker \in Worker /\ IdleWorker.pc = "idle"
<1>1. NoSandbox \in Sandbox /\ NoTemplateObj \in Template
  BY ConstantsAssumption DEF NoSandbox, Sandbox, Specs, Conditions, NoTemplateObj, Template, ConstantsAssumption
<1>2. [type |-> NoType, cond |-> "none", prot |-> FALSE]
        \in [type: Types \cup {NoType}, cond: Conditions, prot: BOOLEAN]
  BY DEF Conditions
<1>3. QED BY <1>1, <1>2 DEF IdleWorker, Worker, Steps

\* What Take and a well-typed worker make of the state.
LEMMA TakeTyped ==
    ASSUME TypeOK, NEW n \in Names, Take(n), w' \in Worker, w'.pc # "idle" => Holding(w')
    PROVE  TypeOK'
BY DEF Take, TypeOK, ApiTypeOK, CacheTypeOK, SchedTypeOK, WorkerTypeOK, WorldTypeOK,
       Holding, api, caches, world

\* Every way a reconcile begins leaves a well-typed worker that holds what its first
\* call needs.
LEMMA BeginTyped == ASSUME TypeOK, NEW n \in Names, Begin(n) PROVE TypeOK'
<1> DEFINE x == Reading(n)
<1>1. CacheTypeOK
  BY DEF TypeOK
<1>2. CASE BeginGone(n)
  <2>1. w' = w /\ w.pc = "idle" /\ w \in Worker
    BY <1>2 DEF BeginGone, Take, TypeOK, WorkerTypeOK
  <2>2. QED BY <1>2, <2>1, TakeTyped DEF BeginGone
<1>3. ASSUME cSandboxes[n].uid # 0
      PROVE  x \in Worker /\ Holding(x) /\ x.tmpl = TemplateFor(cSandboxes[n])
             /\ x.new.type = TypeFor(cSandboxes[n], TemplateFor(cSandboxes[n]))
  BY <1>1, <1>3, ReadingTyped
<1> HIDE DEF x
<1>4. CASE BeginExpired(n) \/ BeginWaiting(n)
  <2>1. cSandboxes[n].uid # 0
    BY <1>4 DEF BeginExpired, BeginWaiting, Live
  <2>2. [x EXCEPT !.pc = "expire"] \in Worker /\ Holding([x EXCEPT !.pc = "expire"])
    BY <1>3, <2>1, StepTyped DEF Steps, ChildSteps, TemplateSteps
  <2>3. Updating(x) \in Worker /\ Holding(Updating(x))
    BY <1>3, <2>1, UpdatingTyped
  <2>4. QED BY <1>4, <2>2, <2>3, TakeTyped DEF BeginExpired, BeginWaiting, x
<1>5. CASE BeginManaging(n)
  <2> DEFINE y == [x EXCEPT !.new.prot = TRUE]
  <2>1. cSandboxes[n].uid # 0
    BY <1>5 DEF BeginManaging, Live
  <2>2. x.new.type \in Types
    BY <1>3, <1>5, <2>1 DEF BeginManaging, Unusable, Worker
  <2>3. y \in Worker /\ Holding(y) /\ y.new.type \in Types /\ y.tmpl = x.tmpl
    BY <1>3, <2>1, <2>2 DEF Worker, Holding
  <2> HIDE DEF y
  <2>4. Creating(y) \in Worker /\ Holding(Creating(y))
    BY <2>3, CreatingTyped
  <2>5. ASSUME y.tmpl.there
        PROVE  [y EXCEPT !.pc = "protect"] \in Worker /\ Holding([y EXCEPT !.pc = "protect"])
    BY <2>3, <2>5, StepTyped DEF Steps
  <2>6. QED BY <1>5, <2>4, <2>5, TakeTyped DEF BeginManaging, x, y
<1>6. CASE BeginTerminating(n)
  <2> DEFINE y == [x EXCEPT !.new.cond = "Terminating"]
  <2>1. cSandboxes[n].uid # 0
    BY <1>6 DEF BeginTerminating
  <2>2. y \in Worker /\ Holding(y) /\ y.new.type \in Types \cup {NoType}
    BY <1>3, <2>1 DEF Worker, Holding, Conditions
  <2> HIDE DEF y
  <2>3. /\ Unprotecting(y) \in Worker /\ Holding(Unprotecting(y))
        /\ Failing(y) \in Worker /\ Holding(Failing(y))
    BY <2>2, ReleasingTyped, FailingTyped
  <2>4. ASSUME y.new.type # NoType
        PROVE  /\ [y EXCEPT !.pc = "findWorkload"] \in Worker
               /\ Holding([y EXCEPT !.pc = "findWorkload"])
    BY <2>2, <2>4, StepTyped DEF Steps, TemplateSteps
  <2>5. w' \in Worker /\ Holding(w')
    BY <1>6, <2>3, <2>4 DEF BeginTerminating, x, y
  <2>6. QED BY <1>6, <2>5, TakeTyped DEF BeginTerminating
<1>7. QED BY <1>2, <1>4, <1>5, <1>6 DEF Begin

\* A busy worker is typed and holds what it needs.
LEMMA BusyTyped ==
    ASSUME TypeOK, w.pc # "idle" PROVE w \in Worker /\ Holding(w)
BY DEF TypeOK, WorkerTypeOK

\* What a step of the worker that neither returns nor restarts has to keep.
LEMMA WorkingTyped ==
    ASSUME TypeOK, w' \in Worker, Holding(w'), ApiTypeOK', events' \subseteq Keys,
           errors' \in 0..MaxErrors,
           UNCHANGED <<caches, queue, timers, gates, born, expired, restarts>>
    PROVE  TypeOK'
BY DEF TypeOK, CacheTypeOK, SchedTypeOK, WorkerTypeOK, WorldTypeOK, caches

\* The next step after a call, whatever its outcome.
LEMMA OutcomeTyped ==
    ASSUME TypeOK, NEW STATE next, NEW STATE failed, NEW STATE accepted,
           next \in Worker, Holding(next), failed \in Worker, Holding(failed),
           Applied(next, failed) \/ NotApplied(accepted, failed)
    PROVE  w' \in Worker /\ Holding(w') /\ errors' \in 0..MaxErrors
<1>1. w' = next \/ w' = failed
  BY DEF Applied, NotApplied
<1>2. errors' \in 0..MaxErrors
  <2>1. UNCHANGED errors \/ Lose
    BY DEF Applied, NotApplied
  <2>2. QED BY <2>1, LoseTyped DEF TypeOK, WorldTypeOK
<1>3. ASSUME w' = next PROVE w' \in Worker /\ Holding(w')
  BY <1>3 DEF Holding
<1>4. ASSUME w' = failed PROVE w' \in Worker /\ Holding(w')
  BY <1>4 DEF Holding
<1>5. QED BY <1>1, <1>2, <1>3, <1>4

\* The patches of the template: it was read, so it has a name.
LEMMA TemplateStepsTyped ==
    ASSUME TypeOK, ProtectTemplate \/ UnprotectTemplate PROVE TypeOK'
<1> DEFINE t == w.old.tmpl
<1>1. w.pc \in TemplateSteps /\ w.pc # "idle"
  BY DEF ProtectTemplate, UnprotectTemplate, TemplateSteps
<1>2. w \in Worker /\ Holding(w) /\ t \in Templates /\ templates[t] \in Template
  BY <1>1, BusyTyped DEF Holding, TypeOK, ApiTypeOK
<1>3. \A b \in BOOLEAN : Patched(templates[t], b, NoTemplateObj) \in Template
  BY <1>2 DEF Patched, Template, NoTemplateObj, Specs
<1>4. ApiTypeOK'
  BY <1>2, <1>3 DEF ProtectTemplate, UnprotectTemplate, TypeOK, ApiTypeOK
<1>5. Failing(w) \in Worker /\ Holding(Failing(w)) /\ Releasing(w) \in Worker /\ Holding(Releasing(w))
  BY <1>2, FailingTyped, ReleasingTyped
<1>6. CASE ProtectTemplate
  <2>1. w.new.type \in Types
    BY <1>2, <1>6 DEF ProtectTemplate, Holding, ChildSteps, Steps
  <2>2. Creating(w) \in Worker /\ Holding(Creating(w))
    BY <1>2, <2>1, CreatingTyped
  <2>3. \/ Applied(Creating(w), Failing(w))
        \/ NotApplied(templates[t].there /\ PatchAccepted(templates[t], w.tmpl.prot, TRUE), Failing(w))
    BY <1>6 DEF ProtectTemplate
  <2>4. w' \in Worker /\ Holding(w') /\ errors' \in 0..MaxErrors
    BY <1>5, <2>2, <2>3, OutcomeTyped
  <2>5. QED BY <1>4, <1>6, <2>4, WorkingTyped
        DEF ProtectTemplate, UnchangedButErrors, sched, TypeOK, SchedTypeOK
<1>7. CASE UnprotectTemplate
  <2>1. \/ Applied(Releasing(w), Failing(w))
        \/ NotApplied(templates[t].there /\ PatchAccepted(templates[t], w.tmpl.prot, FALSE), Failing(w))
    BY <1>7 DEF UnprotectTemplate
  <2>2. w' \in Worker /\ Holding(w') /\ errors' \in 0..MaxErrors
    BY <1>5, <2>1, OutcomeTyped
  <2>3. QED BY <1>4, <1>7, <2>2, WorkingTyped
        DEF UnprotectTemplate, UnchangedButErrors, sched, TypeOK, SchedTypeOK
<1>8. QED BY <1>6, <1>7

\* The delete of an expired sandbox.
LEMMA ExpireTyped == ASSUME TypeOK, Expire PROVE TypeOK'
<1>1. w.pc # "idle" /\ w \in Worker /\ Holding(w) /\ w.name \in Names
  BY BusyTyped DEF Expire, Holding
<1>2. sandboxes[w.name] \in Sandbox /\ NoSandbox \in Sandbox
  BY <1>1 DEF TypeOK, ApiTypeOK, NoSandbox, Sandbox, Specs, Conditions
<1>3. Deleted(sandboxes[w.name], NoSandbox) \in Sandbox
  BY <1>2 DEF Deleted, Sandbox
<1>4. ApiTypeOK'
  BY <1>3 DEF Expire, TypeOK, ApiTypeOK
<1>5. /\ Failing(w) \in Worker /\ Holding(Failing(w))
      /\ Updating(w) \in Worker /\ Holding(Updating(w))
  BY <1>1, FailingTyped, UpdatingTyped
<1>6. Applied(Updating(w), Failing(w)) \/ NotApplied(sandboxes[w.name].uid # 0, Failing(w))
  BY DEF Expire
<1>7. w' \in Worker /\ Holding(w') /\ errors' \in 0..MaxErrors
  BY <1>5, <1>6, OutcomeTyped
<1>8. QED BY <1>4, <1>7, WorkingTyped DEF Expire, UnchangedButErrors, sched, TypeOK, SchedTypeOK

\* What follows the last disk of a class.
LEMMA MakingTyped ==
    ASSUME NEW x \in Worker, Holding(x), x.new.type \in Types, NEW class
    PROVE  /\ Making(x, class) \in Worker /\ Holding(Making(x, class))
           /\ Deleting(x, class) \in Worker /\ Holding(Deleting(x, class))
<1>1. ASSUME NEW pc \in {"listClaims", "readWorkload", "listOwnedClaims"}
      PROVE  [x EXCEPT !.pc = pc] \in Worker /\ Holding([x EXCEPT !.pc = pc])
  BY <1>1, StepTyped DEF Steps, TemplateSteps
<1>2. QED BY <1>1, ReleasingTyped DEF Making, Deleting

\* The steps that only read the caches.
LEMMA ReadingStepsTyped ==
    ASSUME TypeOK, ListDisks \/ ReadWorkload \/ ReadStatus \/ FindWorkload \/ ListOwned
    PROVE  TypeOK'
<1>1. w.pc \in ChildSteps /\ w.pc # "idle" /\ w.pc \notin TemplateSteps
  BY DEF ListDisks, ReadWorkload, ReadStatus, FindWorkload, ListOwned,
         ChildSteps, TemplateSteps, Steps
<1>2. w \in Worker /\ Holding(w) /\ w.new.type \in Types
  BY <1>1, BusyTyped DEF Holding
<1>3. Key \in Keys
  BY <1>1, KeyTyped
<1>4. ASSUME w' \in Worker, Holding(w'), UNCHANGED <<api, caches, sched, world>> PROVE TypeOK'
  BY <1>4, WorkingTyped DEF TypeOK, ApiTypeOK, SchedTypeOK, WorldTypeOK, api, sched, world
<1>6. CASE ListDisks
  <2> DEFINE missing == MissingDisks(ListedClass)
  <2>1. Spec_ \in Specs
    BY <1>2 DEF Spec_, SpecFor, Worker, Sandbox, Template
  <2>2. missing \in SUBSET Disks
    BY <2>1 DEF MissingDisks, Disks
  <2>3. w' = Making(w, ListedClass) \/ w' = [w EXCEPT !.pc = "createDisk", !.todo = missing]
    BY <1>6 DEF ListDisks
  <2> HIDE DEF missing
  <2>4. /\ [w EXCEPT !.pc = "createDisk", !.todo = missing] \in Worker
        /\ Holding([w EXCEPT !.pc = "createDisk", !.todo = missing])
    BY <1>2, <2>2 DEF Worker, Holding, Steps, TemplateSteps
  <2>5. w' \in Worker /\ Holding(w')
    BY <1>2, <2>3, <2>4, MakingTyped
  <2>6. QED BY <1>4, <1>6, <2>5 DEF ListDisks
<1>7. CASE ReadWorkload
  <2>1. PICK pc \in {"createWorkload", "replaceWorkload", "readStatus"} : w' = [w EXCEPT !.pc = pc]
    BY <1>7 DEF ReadWorkload
  <2>2. w' \in Worker /\ Holding(w')
    BY <1>2, <2>1, StepTyped DEF Steps, TemplateSteps
  <2>3. QED BY <1>4, <1>7, <2>2 DEF ReadWorkload
<1>8. CASE ReadStatus
  <2>1. ASSUME NEW cond \in Conditions, NEW after \in BOOLEAN
        PROVE  /\ [w EXCEPT !.new.cond = cond, !.after = after] \in Worker
               /\ Holding([w EXCEPT !.new.cond = cond, !.after = after])
    BY <1>2 DEF Worker, Holding
  <2>2. PICK cond \in Conditions, after \in BOOLEAN :
          w' = Updating([w EXCEPT !.new.cond = cond, !.after = after])
    <3>1. Status \in Conditions
      BY ReasonTyped DEF Status, Conditions
    <3>2. NextSync(w.name, w.old) \in BOOLEAN
      BY DEF NextSync
    <3>3. QED BY <1>8, <3>1, <3>2 DEF ReadStatus
  <2>3. w' \in Worker /\ Holding(w')
    BY <2>1, <2>2, UpdatingTyped
  <2>4. QED BY <1>4, <1>8, <2>3 DEF ReadStatus
<1>9. CASE FindWorkload
  <2>1. PICK pc \in {"listOwned", "deleteWorkload"} : w' = [w EXCEPT !.pc = pc]
    BY <1>9 DEF FindWorkload
  <2>2. w' \in Worker /\ Holding(w')
    BY <1>2, <2>1, StepTyped DEF Steps, TemplateSteps
  <2>3. QED BY <1>4, <1>9, <2>2 DEF FindWorkload
<1>10. CASE ListOwned
  <2> DEFINE owned == {d \in cDisks[Key] : d.class = ListedClass}
  <2>1. owned \in SUBSET Disks
    BY <1>3 DEF TypeOK, CacheTypeOK
  <2>2. w' = Deleting(w, ListedClass) \/ w' = [w EXCEPT !.pc = "deleteDisk", !.todo = owned]
    BY <1>10 DEF ListOwned
  <2> HIDE DEF owned
  <2>3. /\ [w EXCEPT !.pc = "deleteDisk", !.todo = owned] \in Worker
        /\ Holding([w EXCEPT !.pc = "deleteDisk", !.todo = owned])
    BY <1>2, <2>1 DEF Worker, Holding, Steps, TemplateSteps
  <2>4. w' \in Worker /\ Holding(w')
    BY <1>2, <2>2, <2>3, MakingTyped
  <2>5. QED BY <1>4, <1>10, <2>4 DEF ListOwned
<1>11. QED BY <1>6, <1>7, <1>8, <1>9, <1>10

\* The steps that create and delete disks.
LEMMA DiskStepsTyped == ASSUME TypeOK, CreateDisk \/ DeleteDisk PROVE TypeOK'
<1>1. w.pc \in ChildSteps /\ w.pc # "idle"
  BY DEF CreateDisk, DeleteDisk, ChildSteps, Steps
<1>2. w \in Worker /\ Holding(w) /\ w.new.type \in Types /\ w.todo \in SUBSET Disks
  BY <1>1, BusyTyped DEF Holding, Worker
<1>3. Key \in Keys /\ disks[Key] \in SUBSET Disks
  BY <1>1, KeyTyped DEF TypeOK, ApiTypeOK
<1>4. ASSUME NEW todo \in SUBSET Disks
      PROVE  /\ [w EXCEPT !.todo = todo] \in Worker /\ Holding([w EXCEPT !.todo = todo])
             /\ [w EXCEPT !.todo = todo].new.type \in Types
  BY <1>2 DEF Worker, Holding
<1> DEFINE left(d) == [w EXCEPT !.todo = @ \ {d}]
           made(d) == IF left(d).todo = {} THEN Making(left(d), d.class) ELSE left(d)
           deleted(d) == IF left(d).todo = {} THEN Deleting(left(d), d.class) ELSE left(d)
           unmade == CreateFailing([w EXCEPT !.todo = {}])
           undeleted == Failing([w EXCEPT !.todo = {}])
<1>5. PICK d \in w.todo :
        \/ disks' = [disks EXCEPT ![Key] = @ \cup {d}] /\ Applied(made(d), unmade)
        \/ UNCHANGED disks /\ NotApplied(d \notin disks[Key], unmade)
        \/ disks' = [disks EXCEPT ![Key] = @ \ {d}] /\ Applied(deleted(d), undeleted)
        \/ UNCHANGED disks /\ NotApplied(d \in disks[Key], undeleted)
  BY DEF CreateDisk, DeleteDisk
<1>6. left(d) \in Worker /\ Holding(left(d)) /\ left(d).new.type \in Types
  BY <1>2, <1>4
<1>7. /\ unmade \in Worker /\ Holding(unmade)
      /\ undeleted \in Worker /\ Holding(undeleted)
  BY <1>4, FailingTyped
<1>8. disks' \in [Keys -> SUBSET Disks]
  BY <1>2, <1>3, <1>5 DEF TypeOK, ApiTypeOK
<1> HIDE DEF left, unmade, undeleted
<1>9. /\ made(d) \in Worker /\ Holding(made(d))
      /\ deleted(d) \in Worker /\ Holding(deleted(d))
  BY <1>6, MakingTyped
<1> HIDE DEF made, deleted
<1>10. w' \in Worker /\ Holding(w') /\ errors' \in 0..MaxErrors
  BY <1>5, <1>7, <1>9, OutcomeTyped
<1>11. UNCHANGED <<sandboxes, templates, workloads>> /\ UnchangedButErrors
  BY DEF CreateDisk, DeleteDisk
<1>12. QED BY <1>8, <1>10, <1>11, WorkingTyped
       DEF UnchangedButErrors, sched, TypeOK, ApiTypeOK, SchedTypeOK

\* The steps that create and delete the workload.
LEMMA WorkloadStepsTyped ==
    ASSUME TypeOK, CreateWorkload \/ ReplaceWorkload \/ DeleteWorkload PROVE TypeOK'
<1>1. w.pc \in ChildSteps /\ w.pc # "idle" /\ w.pc \notin TemplateSteps
  BY DEF CreateWorkload, ReplaceWorkload, DeleteWorkload, ChildSteps, TemplateSteps, Steps
<1>2. w \in Worker /\ Holding(w) /\ w.new.type \in Types
  BY <1>1, BusyTyped DEF Holding
<1>3. Key \in Keys /\ Type_ \in Types
  BY <1>1, <1>2, KeyTyped DEF Type_
<1>4. /\ [phase |-> "Pending", del |-> FALSE] \in Workload
      /\ [workloads[Key][Type_] EXCEPT !.del = TRUE] \in Workload
  <2>1. workloads[Key][Type_] \in Workload
    BY <1>3 DEF TypeOK, ApiTypeOK
  <2>2. ASSUME NEW x \in Workload PROVE [x EXCEPT !.del = TRUE] \in Workload
    BY DEF Workload
  <2>3. [phase |-> "Pending", del |-> FALSE] \in Workload
    BY DEF Workload
  <2>4. QED BY <2>1, <2>2, <2>3
<1>5. /\ Failing(w) \in Worker /\ Holding(Failing(w))
      /\ CreateFailing(w) \in Worker /\ Holding(CreateFailing(w))
  BY <1>2, FailingTyped
<1>6. ASSUME NEW pc \in {"readStatus", "listOwned"}
      PROVE  [w EXCEPT !.pc = pc] \in Worker /\ Holding([w EXCEPT !.pc = pc])
  BY <1>2, <1>6, StepTyped DEF Steps, TemplateSteps
<1>7. workloads' \in [Keys -> [Types -> Workload]] /\ events' \subseteq Keys
  <2>1. (\E to \in Workload : WriteWorkload(Key, Type_, to)) \/ UNCHANGED <<workloads, events>>
    BY <1>4 DEF CreateWorkload, ReplaceWorkload, DeleteWorkload, DeletingWorkload
  <2>2. QED BY <1>3, <2>1, WriteTyped DEF TypeOK, ApiTypeOK, SchedTypeOK
<1>8. w' \in Worker /\ Holding(w') /\ errors' \in 0..MaxErrors
  <2>1. \/ Applied([w EXCEPT !.pc = "readStatus"], CreateFailing(w))
        \/ NotApplied(workloads[Key][Type_].phase = Absent, CreateFailing(w))
        \/ NotApplied(workloads[Key][Type_].phase # Absent, CreateFailing(w))
        \/ Applied([w EXCEPT !.pc = "listOwned"], Failing(w))
        \/ NotApplied(workloads[Key][Type_].phase # Absent, Failing(w))
    BY DEF CreateWorkload, ReplaceWorkload, DeleteWorkload, DeletingWorkload
  <2>2. QED BY <1>5, <1>6, <2>1, OutcomeTyped
<1>9. UNCHANGED <<sandboxes, templates, disks>> /\ UnchangedButEvents
  BY DEF CreateWorkload, ReplaceWorkload, DeleteWorkload, DeletingWorkload
<1>10. QED BY <1>7, <1>8, <1>9, WorkingTyped DEF UnchangedButEvents, TypeOK, ApiTypeOK

\* The two writes that end a reconcile.
LEMMA UpdateStepsTyped == ASSUME TypeOK, UpdateStatus \/ UpdateMeta PROVE TypeOK'
<1>1. w.pc # "idle" /\ w \in Worker /\ Holding(w) /\ w.name \in Names /\ w.old.uid \in Incarnations
  BY BusyTyped, KeyTyped DEF UpdateStatus, UpdateMeta
<1>2. sandboxes[w.name] \in Sandbox /\ NoSandbox \in Sandbox
  BY <1>1 DEF TypeOK, ApiTypeOK, NoSandbox, Sandbox, Specs, Conditions
<1>3. \A b \in BOOLEAN : Patched(sandboxes[w.name], b, NoSandbox) \in Sandbox
  BY <1>2 DEF Patched, Sandbox
<1>4. w.new.type \in Types \cup {NoType} /\ w.new.cond \in Conditions /\ w.new.prot \in BOOLEAN
  BY <1>1 DEF Worker
<1>5. sandboxes' \in [Names -> Sandbox]
  <2>1. CASE UpdateStatus
    <3>1. [sandboxes EXCEPT ![w.name].type = w.new.type, ![w.name].cond = w.new.cond]
            \in [Names -> Sandbox]
      <4>1. sandboxes \in [Names -> Sandbox]
        BY DEF TypeOK, ApiTypeOK
      <4>2. QED BY <1>1, <1>4, <4>1 DEF Sandbox
    <3>2. QED BY <2>1, <3>1 DEF UpdateStatus, TypeOK, ApiTypeOK
  <2>2. CASE UpdateMeta
    BY <1>3, <1>4, <2>2 DEF UpdateMeta, TypeOK, ApiTypeOK
  <2>3. QED BY <2>1, <2>2
<1>6. ASSUME NEW err, Return(err)
      PROVE  /\ queue' \subseteq Names /\ timers' \in [Names -> 0..MaxIncarnations]
             /\ w' \in Worker /\ w'.pc = "idle"
  <2>1. queue' \subseteq Names
    BY <1>1, <1>6 DEF Return, TypeOK, SchedTypeOK
  <2>2. timers' \in [Names -> 0..MaxIncarnations]
    <3>1. timers \in [Names -> 0..MaxIncarnations] /\ w.old.uid \in 0..MaxIncarnations
      BY <1>1 DEF TypeOK, SchedTypeOK, Incarnations
    <3>2. UNCHANGED timers
          \/ \E j \in 0..MaxIncarnations : timers' = [timers EXCEPT ![w.name] = j]
      BY <1>1, <1>6, <3>1 DEF Return, ArmTimer
    <3>3. QED BY <3>1, <3>2
  <2>3. QED BY <1>6, <2>1, <2>2, IdleTyped DEF Return
<1>7. /\ queue' \subseteq Names /\ timers' \in [Names -> 0..MaxIncarnations]
      /\ w' \in Worker /\ (w'.pc # "idle" => Holding(w'))
  <2>1. (\E err \in {TRUE, w.err} : Return(err))
        \/ /\ w' = [w EXCEPT !.pc = "updateMeta", !.new.prot = @ \/ sandboxes[w.name].prot]
           /\ UNCHANGED <<queue, timers>>
    BY DEF UpdateStatus, UpdateMeta
  <2>2. ASSUME NEW b \in BOOLEAN
        PROVE  /\ [w EXCEPT !.pc = "updateMeta", !.new.prot = b] \in Worker
               /\ Holding([w EXCEPT !.pc = "updateMeta", !.new.prot = b])
    BY <1>1 DEF Worker, Holding, Steps, ChildSteps, TemplateSteps
  <2>3. (w.new.prot \/ sandboxes[w.name].prot) \in BOOLEAN
    OBVIOUS
  <2>4. ASSUME w' = [w EXCEPT !.pc = "updateMeta", !.new.prot = @ \/ sandboxes[w.name].prot]
        PROVE  w' \in Worker /\ Holding(w')
    <3>1. w' = [w EXCEPT !.pc = "updateMeta", !.new.prot = w.new.prot \/ sandboxes[w.name].prot]
      BY <1>1, <2>4 DEF Worker
    <3>2. QED BY <2>2, <2>3, <3>1 DEF Holding
  <2>5. QED BY <1>6, <2>1, <2>4 DEF TypeOK, SchedTypeOK
<1>8. errors' \in 0..MaxErrors
  <2>1. UNCHANGED errors \/ Lose
    BY DEF UpdateStatus, UpdateMeta
  <2>2. QED BY <2>1, LoseTyped DEF TypeOK, WorldTypeOK
<1>9. UNCHANGED <<templates, workloads, disks, caches, events, gates, born, expired, restarts>>
  BY DEF UpdateStatus, UpdateMeta
<1>10. QED BY <1>5, <1>7, <1>8, <1>9
       DEF TypeOK, ApiTypeOK, CacheTypeOK, SchedTypeOK, WorkerTypeOK, WorldTypeOK, caches, Holding

\* The delayed queue and the restart.
LEMMA TimerTyped == ASSUME TypeOK, (\E n \in Names : FireTimer(n)) \/ Restart PROVE TypeOK'
<1> USE DEF TypeOK, ApiTypeOK, CacheTypeOK, SchedTypeOK, WorkerTypeOK, WorldTypeOK
<1>1. ASSUME NEW n \in Names, FireTimer(n) PROVE TypeOK'
  BY <1>1 DEF FireTimer, api, caches, world, Holding
<1>2. CASE Restart
  <2>1. restarts' \in 0..MaxRestarts
    BY <1>2 DEF Restart
  <2>2. w' \in Worker /\ w'.pc = "idle"
    BY <1>2, IdleTyped DEF Restart
  <2>3. gates' \in SUBSET Gated
    BY <1>2, ConstantsAssumption DEF Restart, ConstantsAssumption
  <2>4. QED BY <1>2, <2>1, <2>2, <2>3 DEF Restart, api
<1>3. QED BY <1>1, <1>2

\* Every step of the system keeps the types.
LEMMA NextTyped == ASSUME TypeOK, Next PROVE TypeOK'
<1>1. ASSUME WorkerStep PROVE TypeOK'
  BY <1>1, ExpireTyped, TemplateStepsTyped, ReadingStepsTyped, DiskStepsTyped,
     WorkloadStepsTyped, UpdateStepsTyped DEF WorkerStep
<1>2. QED BY <1>1, UserTyped, ClusterTyped, InformersTyped, BeginTyped, TimerTyped
      DEF Next, Controller

\* Every variable of the controller and of its surroundings keeps its type, and a
\* worker in the middle of a reconcile holds what its next call needs: a sandbox it
\* has read, a known type before it touches children, a template before it patches
\* one (Reconcile, handleTerminating, NewSandboxer).
THEOREM TypeCorrect == Spec => []TypeOK
<1>1. Init => TypeOK
  <2>1. NoSandbox \in Sandbox /\ NoTemplateObj \in Template /\ NoWorkload \in Workload
    BY DEF NoSandbox, Sandbox, Specs, Conditions, NoTemplateObj, Template, NoWorkload, Workload
  <2>2. QED BY <2>1, IdleTyped DEF Init, TypeOK, ApiTypeOK, CacheTypeOK, SchedTypeOK,
            WorkerTypeOK, WorldTypeOK, ConstantsAssumption
<1>2. TypeOK /\ [Next]_vars => TypeOK'
  <2>1. ASSUME TypeOK, UNCHANGED vars PROVE TypeOK'
    BY <2>1 DEF vars, api, caches, sched, world, TypeOK, ApiTypeOK, CacheTypeOK, SchedTypeOK,
       WorkerTypeOK, WorldTypeOK, Holding
  <2>2. QED BY <2>1, NextTyped
<1>3. QED BY <1>1, <1>2, PTL DEF Spec
=============================================================================
