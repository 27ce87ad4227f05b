------------------------- MODULE SandboxController -------------------------
(***************************************************************************)
(* The sandbox controller: one worker that reconciles Sandboxes against    *)
(* the API server through stale informer caches, the two-part update of    *)
(* BaseReconciler (status under the resource version, then finalizers as a *)
(* JSON patch), and its surroundings: users, kubelet and virt operators,   *)
(* garbage collector, the passing of TTLs, failing calls and restarts.     *)
(*                                                                         *)
(* A key <<n, i>> is incarnation i of the sandbox named n; it stands for   *)
(* the UID.  prot is whether an object carries the finalizer               *)
(* sandbox.io/protect-by-sandbox-controller, del whether it has a deletion *)
(* timestamp.  Each informer cache holds some earlier state of the API,    *)
(* and a Sync step brings one entry of one cache up to date.               *)
(***************************************************************************)
EXTENDS Sandboxer, FiniteSets

CONSTANTS
    Names,           \* names of sandboxes
    Templates,       \* names of templates
    NoName, NoTemplate,
    TemplateSpecs,   \* the specs a template may be created with
    InlineSpecs,     \* the templateSpec a sandbox may be created with
    Phases,          \* the workload phases considered
    GateSets,        \* sets of enabled gates a controller may start with
    MaxIncarnations, \* bound: how often a name is created
    MaxErrors,       \* bound: API calls that fail for no reason of their own
    MaxRestarts,     \* bound: restarts of the controller
    Expiring         \* the incarnations whose TTL runs out within the behaviours

Specs == TemplateSpecs \cup InlineSpecs \cup {NoSpec}
Disks == UNION {s.disks : s \in Specs}
Incarnations == 1..MaxIncarnations
Keys == Names \X Incarnations

ASSUME ConstantsAssumption ==
    /\ NoName \notin Names /\ NoTemplate \notin Templates
    /\ \A s \in TemplateSpecs \cup InlineSpecs :
          s.kinds \in (SUBSET Types) \ {{}} /\ \A d \in s.disks : d.class \in Classes
    /\ GateSets \subseteq SUBSET Gated /\ GateSets # {}
    /\ MaxIncarnations \in Nat /\ MaxErrors \in Nat /\ MaxRestarts \in Nat
    /\ Expiring \subseteq Incarnations

VARIABLES
    sandboxes, templates, workloads, disks,      \* the API server
    cSandboxes, cTemplates, cWorkloads, cDisks,  \* the informer caches
    queue,    \* names waiting in the work queue
    timers,   \* name -> incarnation at whose expiry it is queued again, or 0
    events,   \* keys with a workload event under way that wakes the owner
    w,        \* the worker
    gates,    \* feature gates of the running controller
    born,     \* name -> incarnations created so far
    expired,  \* keys whose TTL has run out
    errors, restarts

api    == <<sandboxes, templates, workloads, disks>>
caches == <<cSandboxes, cTemplates, cWorkloads, cDisks>>
sched  == <<queue, timers, events>>
world  == <<gates, born, expired, errors, restarts>>
vars   == <<api, caches, sched, w, world>>

Conditions == {"none", "TemplateNotFound", "TemplateTerminating", "Pending",
               "Ready", "Failed", "CreateFailed", "Terminating"}
Sandbox ==
    [uid: 0..MaxIncarnations, tmpl: Templates \cup {NoTemplate}, inline: Specs,
     prot: BOOLEAN, del: BOOLEAN, type: Types \cup {NoType}, cond: Conditions]
Template == [there: BOOLEAN, prot: BOOLEAN, del: BOOLEAN, spec: Specs]
Workload == [phase: Phases \cup {"Pending", Absent}, del: BOOLEAN]
Steps == {"idle", "expire", "protect", "listDisks", "listClaims", "createDisk",
          "readWorkload", "createWorkload", "replaceWorkload", "readStatus",
          "findWorkload", "deleteWorkload", "listOwned", "listOwnedClaims",
          "deleteDisk", "unprotect", "updateStatus", "updateMeta"}
TemplateSteps == {"protect", "unprotect"}
ChildSteps == Steps \ {"idle", "expire", "unprotect", "updateStatus", "updateMeta"}
Worker ==
    [pc: Steps, name: Names \cup {NoName}, old: Sandbox, tmpl: Template,
     new: [type: Types \cup {NoType}, cond: Conditions, prot: BOOLEAN],
     todo: SUBSET Disks, err: BOOLEAN, after: BOOLEAN]

\* uid 0 says there is no such object.
NoSandbox == [uid |-> 0, tmpl |-> NoTemplate, inline |-> NoSpec, prot |-> FALSE,
              del |-> FALSE, type |-> NoType, cond |-> "none"]
NoTemplateObj == [there |-> FALSE, prot |-> FALSE, del |-> FALSE, spec |-> NoSpec]
NoWorkload == [phase |-> Absent, del |-> FALSE]
IdleWorker == [pc |-> "idle", name |-> NoName, old |-> NoSandbox, tmpl |-> NoTemplateObj,
               new |-> [type |-> NoType, cond |-> "none", prot |-> FALSE],
               todo |-> {}, err |-> FALSE, after |-> FALSE]

Init ==
    /\ sandboxes = [n \in Names |-> NoSandbox] /\ cSandboxes = sandboxes
    /\ templates = [t \in Templates |-> NoTemplateObj] /\ cTemplates = templates
    /\ workloads = [k \in Keys |-> [t \in Types |-> NoWorkload]] /\ cWorkloads = workloads
    /\ disks = [k \in Keys |-> {}] /\ cDisks = disks
    /\ queue = {} /\ timers = [n \in Names |-> 0] /\ events = {}
    /\ w = IdleWorker
    /\ gates \in GateSets
    /\ born = [n \in Names |-> 0] /\ expired = {} /\ errors = 0 /\ restarts = 0

-----------------------------------------------------------------------------
(* The API server's side of a call *)

\* Deleting an object that carries the finalizer only marks it.
Deleted(obj, gone) == IF obj.prot THEN [obj EXCEPT !.del = TRUE] ELSE gone

\* A patch tests the finalizers it was computed from; the finalizer cannot be
\* added to an object that is being deleted.
PatchAccepted(obj, from, to) == obj.prot = from /\ ~(obj.del /\ to /\ ~from)
Patched(obj, to, gone) == IF obj.del /\ ~to THEN gone ELSE [obj EXCEPT !.prot = to]

\* Mutant: the update is forced, whatever version was read.
StatusForced(obj, read) == obj.uid # read.uid

\* Status().Update carries the resource version of the copy read.  Equal contents
\* are the same version here: each successful status write is itself made from
\* the version it replaces, finalizer and deletion mark are set once.
StatusConflict(obj, read) == obj # read

-----------------------------------------------------------------------------
(* The worker's copies and what it makes of them *)

Key == <<w.name, w.old.uid>>
SpecFor(copy, tmpl) == IF copy.inline # NoSpec THEN copy.inline ELSE tmpl.spec
Spec_ == SpecFor(w.old, w.tmpl)
Type_ == w.new.type

TemplateFor(copy) ==
    IF copy.inline = NoSpec /\ copy.tmpl # NoTemplate
    THEN cTemplates[copy.tmpl] ELSE NoTemplateObj

\* The condition handleTemplateSpec leaves on the sandbox.
TemplateCondition(copy, tmpl) ==
    CASE copy.inline # NoSpec -> copy.cond
      [] copy.inline = NoSpec /\ ~tmpl.there -> "TemplateNotFound"
      [] tmpl.there /\ tmpl.del -> "TemplateTerminating"
      [] OTHER -> copy.cond

\* Mutant: expiry is remembered by name.
NameExpired(n, copy) == \E i \in Incarnations : <<n, i>> \in expired
\* Mutant: the operands of After are swapped.
TTLRunning(n, copy) == <<n, copy.uid>> \notin expired
TTLExpired(n, copy) == <<n, copy.uid>> \in expired
\* Mutant: nothing is asked of the delayed queue.
NoNextSync(n, copy) == FALSE
NextSync(n, copy) == ~TTLExpired(n, copy)   \* a RequeueAfter that is not positive requeues nothing

TypeFor(copy, tmpl) ==
    IF copy.type = NoType THEN DetectSandboxType(SpecFor(copy, tmpl)) ELSE copy.type
Unusable(copy, tmpl) ==
    tmpl.del \/ SpecFor(copy, tmpl) = NoSpec \/ TypeFor(copy, tmpl) = NoType

\* Mutant: the copy the worker changes loses the finalizers.
ReadingWithoutMeta(n) ==
    LET copy == cSandboxes[n]  tmpl == TemplateFor(copy) IN
    [pc |-> "idle", name |-> n, old |-> copy, tmpl |-> tmpl,
     new |-> [type |-> TypeFor(copy, tmpl), cond |-> TemplateCondition(copy, tmpl),
              prot |-> FALSE],
     todo |-> {}, err |-> FALSE, after |-> FALSE]
Reading(n) ==
    LET copy == cSandboxes[n]  tmpl == TemplateFor(copy) IN
    [pc |-> "idle", name |-> n, old |-> copy, tmpl |-> tmpl,
     new |-> [type |-> TypeFor(copy, tmpl), cond |-> TemplateCondition(copy, tmpl),
              prot |-> copy.prot],
     todo |-> {}, err |-> FALSE, after |-> FALSE]

\* Mutant: only the type is compared.
TypeChanged(x) == x.new.type # x.old.type
StatusChanged(x) == <<x.new.type, x.new.cond>> # <<x.old.type, x.old.cond>>
Updating(x) == [x EXCEPT !.pc = IF StatusChanged(x) THEN "updateStatus" ELSE "updateMeta"]
\* Mutant: an error is logged and forgotten.
Swallowing(x) == Updating(x)
Failing(x) == Updating([x EXCEPT !.err = TRUE])
CreateFailing(x) == Failing([x EXCEPT !.new.cond = "CreateFailed"])

Creating(x) ==
    IF GateOpen(x.new.type, gates) THEN [x EXCEPT !.pc = "listDisks"] ELSE CreateFailing(x)
Releasing(x) == Updating([x EXCEPT !.new.prot = FALSE])
Unprotecting(x) ==
    IF x.tmpl.there /\ x.tmpl.prot THEN [x EXCEPT !.pc = "unprotect"] ELSE Releasing(x)

-----------------------------------------------------------------------------
(* Outcomes of a call.  It may be refused, or fail before it reaches the    *)
(* server, or succeed and its answer be lost; the last two use up errors.   *)

Lose == errors < MaxErrors /\ errors' = errors + 1
Applied(next, failed) ==
    \/ w' = next /\ UNCHANGED errors
    \/ w' = failed /\ Lose
NotApplied(accepted, failed) ==
    /\ w' = failed
    /\ IF accepted THEN Lose ELSE UNCHANGED errors

UnchangedButErrors == UNCHANGED <<caches, sched, gates, born, expired, restarts>>
UnchangedButEvents == UNCHANGED <<caches, queue, timers, gates, born, expired, restarts>>

\* Owned workloads of enabled kinds queue their owner when they appear, go or
\* change phase; other updates are filtered out.
\* Mutant: updates wake nobody.
WakesOnCreateAndDelete(t, before, after) ==
    GateOpen(t, gates) /\ (before.phase = Absent) # (after.phase = Absent)
WakesOwner(t, before, after) == GateOpen(t, gates) /\ before.phase # after.phase
WriteWorkload(k, t, to) ==
    /\ workloads' = [workloads EXCEPT ![k][t] = to]
    /\ events' = IF WakesOwner(t, workloads[k][t], to) THEN events \cup {k} ELSE events

-----------------------------------------------------------------------------
(* Reconcile up to its first call *)

Take(n) ==
    /\ w.pc = "idle" /\ n \in queue
    /\ queue' = queue \ {n}
    /\ UNCHANGED <<api, caches, timers, events, world>>

BeginGone(n) ==
    /\ cSandboxes[n].uid = 0
    /\ Take(n) /\ UNCHANGED w

BeginTerminating(n) ==
    LET x == [Reading(n) EXCEPT !.new.cond = "Terminating"] IN
    /\ cSandboxes[n].uid # 0 /\ cSandboxes[n].del
    /\ Take(n)
    /\ w' = CASE x.new.type = NoType -> Unprotecting(x)
              [] x.new.type # NoType /\ GateOpen(x.new.type, gates) -> [x EXCEPT !.pc = "findWorkload"]
              [] OTHER -> Failing(x)

Live(n) == cSandboxes[n].uid # 0 /\ ~cSandboxes[n].del

\* Mutant: an expired sandbox is released at once.
BeginExpiredReleasing(n) ==
    /\ Live(n) /\ TTLExpired(n, cSandboxes[n])
    /\ Take(n)
    /\ w' = [Reading(n) EXCEPT !.pc = "expire", !.new.prot = FALSE]

BeginExpired(n) ==
    /\ Live(n) /\ TTLExpired(n, cSandboxes[n])
    /\ Take(n)
    /\ w' = [Reading(n) EXCEPT !.pc = "expire"]

BeginWaiting(n) ==
    /\ Live(n) /\ ~TTLExpired(n, cSandboxes[n])
    /\ Unusable(cSandboxes[n], TemplateFor(cSandboxes[n]))
    /\ Take(n)
    /\ w' = Updating(Reading(n))

\* Mutant: the template is not protected.
BeginUnprotected(n) ==
    LET x == [Reading(n) EXCEPT !.new.prot = TRUE] IN
    /\ Live(n) /\ ~TTLExpired(n, cSandboxes[n])
    /\ ~Unusable(cSandboxes[n], TemplateFor(cSandboxes[n]))
    /\ Take(n)
    /\ w' = Creating(x)

BeginManaging(n) ==
    LET x == [Reading(n) EXCEPT !.new.prot = TRUE] IN
    /\ Live(n) /\ ~TTLExpired(n, cSandboxes[n])
    /\ ~Unusable(cSandboxes[n], TemplateFor(cSandboxes[n]))
    /\ Take(n)
    /\ w' = IF x.tmpl.there /\ ~x.tmpl.prot THEN [x EXCEPT !.pc = "protect"] ELSE Creating(x)

Begin(n) ==
    BeginGone(n) \/ BeginTerminating(n) \/ BeginExpired(n) \/ BeginWaiting(n) \/ BeginManaging(n)

\* The TTL is over: delete by name, whatever now has that name.
Expire ==
    LET s == sandboxes[w.name] IN
    /\ w.pc = "expire"
    /\ \/ /\ s.uid # 0
          /\ sandboxes' = [sandboxes EXCEPT ![w.name] = Deleted(s, NoSandbox)]
          /\ Applied(Updating(w), Failing(w))
       \/ NotApplied(s.uid # 0, Failing(w)) /\ UNCHANGED sandboxes
    /\ UNCHANGED <<templates, workloads, disks>> /\ UnchangedButErrors

\* ProtectObjects: add the finalizer to the template.
ProtectTemplate ==
    LET t == w.old.tmpl
        accepted == templates[t].there /\ PatchAccepted(templates[t], w.tmpl.prot, TRUE) IN
    /\ w.pc = "protect"
    /\ \/ /\ accepted
          /\ templates' = [templates EXCEPT ![t] = Patched(@, TRUE, NoTemplateObj)]
          /\ Applied(Creating(w), Failing(w))
       \/ NotApplied(accepted, Failing(w)) /\ UNCHANGED templates
    /\ UNCHANGED <<sandboxes, workloads, disks>> /\ UnchangedButErrors

-----------------------------------------------------------------------------
(* Sandboxer.Create *)

\* The class of disks that is listed now.
ListedClass ==
    IF w.pc \in {"listDisks", "listOwned"} THEN FirstClass[Type_] ELSE "PVC"
\* Mutant: the disks that are there, not those that are missing.
FoundDisks(class) == {d \in Spec_.disks : d.class = class} \cap cDisks[Key]
MissingDisks(class) == {d \in Spec_.disks : d.class = class} \ cDisks[Key]
Making(x, class) == [x EXCEPT !.pc = IF class = "DV" THEN "listClaims" ELSE "readWorkload"]

ListDisks ==
    LET missing == MissingDisks(ListedClass) IN
    /\ w.pc \in {"listDisks", "listClaims"}
    /\ w' = IF missing = {} THEN Making(w, ListedClass)
            ELSE [w EXCEPT !.pc = "createDisk", !.todo = missing]
    /\ UNCHANGED <<api, caches, sched, world>>

CreateDisk ==
    \E d \in w.todo :
    LET left == [w EXCEPT !.todo = @ \ {d}]
        failed == CreateFailing([w EXCEPT !.todo = {}])
        accepted == d \notin disks[Key] IN
    /\ w.pc = "createDisk"
    /\ \/ /\ accepted
          /\ disks' = [disks EXCEPT ![Key] = @ \cup {d}]
          /\ Applied(IF left.todo = {} THEN Making(left, d.class) ELSE left, failed)
       \/ NotApplied(accepted, failed) /\ UNCHANGED disks
    /\ UNCHANGED <<sandboxes, templates, workloads>> /\ UnchangedButErrors

Seen == cWorkloads[Key][Type_]

ReadWorkload ==
    /\ w.pc = "readWorkload"
    /\ w' = [w EXCEPT !.pc =
               CASE Seen.phase = Absent /\ Type_ \in Spec_.kinds -> "createWorkload"
                 [] Seen.phase # Absent /\ ReasonOf(Type_, Seen.phase) = "Failed" -> "replaceWorkload"
                 [] OTHER -> "readStatus"]
    /\ UNCHANGED <<api, caches, sched, world>>

\* Names of children are made from the sandbox's UID; a name in use is an error.
CreateWorkload ==
    LET accepted == workloads[Key][Type_].phase = Absent IN
    /\ w.pc = "createWorkload"
    /\ \/ /\ accepted
          /\ WriteWorkload(Key, Type_, [phase |-> "Pending", del |-> FALSE])
          /\ Applied([w EXCEPT !.pc = "readStatus"], CreateFailing(w))
       \/ NotApplied(accepted, CreateFailing(w)) /\ UNCHANGED <<workloads, events>>
    /\ UNCHANGED <<sandboxes, templates, disks>> /\ UnchangedButEvents

DeletingWorkload(next, failed) ==
    LET accepted == workloads[Key][Type_].phase # Absent IN
    /\ \/ /\ accepted
          /\ WriteWorkload(Key, Type_, [workloads[Key][Type_] EXCEPT !.del = TRUE])
          /\ Applied(next, failed)
       \/ NotApplied(accepted, failed) /\ UNCHANGED <<workloads, events>>
    /\ UNCHANGED <<sandboxes, templates, disks>> /\ UnchangedButEvents

\* A failed workload is deleted, to be created again once it is gone.
ReplaceWorkload ==
    /\ w.pc = "replaceWorkload"
    /\ DeletingWorkload([w EXCEPT !.pc = "readStatus"], CreateFailing(w))

\* Sandboxer.Status: a workload that is not there is as good as a pending one.
Status == IF Seen.phase = Absent THEN "Pending" ELSE ReasonOf(Type_, Seen.phase)

ReadStatus ==
    /\ w.pc = "readStatus"
    /\ w' = Updating([w EXCEPT
               !.new.cond = Status,
               !.after = NextSync(w.name, w.old)])
    /\ UNCHANGED <<api, caches, sched, world>>

-----------------------------------------------------------------------------
(* handleTerminating: Sandboxer.Delete, the template, the sandbox *)

FindWorkload ==
    /\ w.pc = "findWorkload"
    /\ w' = [w EXCEPT !.pc = IF Seen.phase = Absent THEN "listOwned" ELSE "deleteWorkload"]
    /\ UNCHANGED <<api, caches, sched, world>>

DeleteWorkload ==
    /\ w.pc = "deleteWorkload"
    /\ DeletingWorkload([w EXCEPT !.pc = "listOwned"], Failing(w))

Deleting(x, class) ==
    IF class = "DV" THEN [x EXCEPT !.pc = "listOwnedClaims"] ELSE Unprotecting(x)

ListOwned ==
    LET owned == {d \in cDisks[Key] : d.class = ListedClass} IN
    /\ w.pc \in {"listOwned", "listOwnedClaims"}
    /\ w' = IF owned = {} THEN Deleting(w, ListedClass)
            ELSE [w EXCEPT !.pc = "deleteDisk", !.todo = owned]
    /\ UNCHANGED <<api, caches, sched, world>>

DeleteDisk ==
    \E d \in w.todo :
    LET left == [w EXCEPT !.todo = @ \ {d}]
        failed == Failing([w EXCEPT !.todo = {}])
        accepted == d \in disks[Key] IN
    /\ w.pc = "deleteDisk"
    /\ \/ /\ accepted
          /\ disks' = [disks EXCEPT ![Key] = @ \ {d}]
          /\ Applied(IF left.todo = {} THEN Deleting(left, d.class) ELSE left, failed)
       \/ NotApplied(accepted, failed) /\ UNCHANGED disks
    /\ UNCHANGED <<sandboxes, templates, workloads>> /\ UnchangedButErrors

UnprotectTemplate ==
    LET t == w.old.tmpl
        accepted == templates[t].there /\ PatchAccepted(templates[t], w.tmpl.prot, FALSE) IN
    /\ w.pc = "unprotect"
    /\ \/ /\ accepted
          /\ templates' = [templates EXCEPT ![t] = Patched(@, FALSE, NoTemplateObj)]
          /\ Applied(Releasing(w), Failing(w))
       \/ NotApplied(accepted, Failing(w)) /\ UNCHANGED templates
    /\ UNCHANGED <<sandboxes, workloads, disks>> /\ UnchangedButErrors

-----------------------------------------------------------------------------
(* BaseReconciler.update and the return of the reconcile *)

\* The work queue keeps the earlier of two delayed additions; the TTLs of two
\* incarnations are not comparable here, so either may be.
ArmTimer(n, i) ==
    timers' \in {[timers EXCEPT ![n] = j] :
                   j \in CASE timers[n] = 0 -> {i}
                           [] timers[n] # 0 /\ <<n, timers[n]>> \in expired -> {timers[n]}
                           [] OTHER -> {timers[n], i}}

\* Mutant: an error is not queued again.
ReturnForgetting(err) ==
    /\ w' = IdleWorker
    /\ UNCHANGED queue
    /\ IF ~err /\ w.after THEN ArmTimer(w.name, w.old.uid) ELSE UNCHANGED timers

Return(err) ==
    /\ w' = IdleWorker
    /\ queue' = IF err THEN queue \cup {w.name} ELSE queue
    /\ IF ~err /\ w.after THEN ArmTimer(w.name, w.old.uid) ELSE UNCHANGED timers

\* A finalizer the server still holds comes back with the answer and undoes the
\* local removal; one it does not hold yet is kept.
UpdateStatus ==
    LET s == sandboxes[w.name]
        accepted == ~StatusConflict(s, w.old) IN
    /\ w.pc = "updateStatus"
    /\ \/ /\ accepted
          /\ sandboxes' = [sandboxes EXCEPT ![w.name].type = w.new.type,
                                            ![w.name].cond = w.new.cond]
          /\ \/ /\ w' = [w EXCEPT !.pc = "updateMeta", !.new.prot = @ \/ s.prot]
                /\ UNCHANGED <<queue, timers, errors>>
             \/ Lose /\ Return(TRUE)
       \/ /\ IF accepted THEN Lose ELSE UNCHANGED errors
          /\ Return(TRUE) /\ UNCHANGED sandboxes
    /\ UNCHANGED <<templates, workloads, disks, caches, events, gates, born, expired, restarts>>

UpdateMeta ==
    LET s == sandboxes[w.name]
        accepted == s.uid # 0 /\ PatchAccepted(s, w.old.prot, w.new.prot) IN
    /\ w.pc = "updateMeta"
    /\ \/ /\ w.new.prot = w.old.prot \/ s.uid = 0   \* nothing to patch, or NotFound ignored
          /\ Return(w.err) /\ UNCHANGED <<sandboxes, errors>>
       \/ /\ w.new.prot # w.old.prot /\ accepted
          /\ sandboxes' = [sandboxes EXCEPT ![w.name] = Patched(s, w.new.prot, NoSandbox)]
          /\ \/ Return(w.err) /\ UNCHANGED errors
             \/ Return(TRUE) /\ Lose
       \/ /\ w.new.prot # w.old.prot
          /\ IF accepted \/ s.uid = 0 THEN Lose ELSE UNCHANGED errors
          /\ Return(TRUE) /\ UNCHANGED sandboxes
    /\ UNCHANGED <<templates, workloads, disks, caches, events, gates, born, expired, restarts>>

WorkerStep ==
    \/ Expire \/ ProtectTemplate
    \/ ListDisks \/ CreateDisk \/ ReadWorkload \/ CreateWorkload \/ ReplaceWorkload \/ ReadStatus
    \/ FindWorkload \/ DeleteWorkload \/ ListOwned \/ DeleteDisk \/ UnprotectTemplate
    \/ UpdateStatus \/ UpdateMeta

-----------------------------------------------------------------------------
(* Informers, the delayed queue, restarts *)

\* Mutant: a predicate on the generation filters out what the worker writes.
SyncGeneration(n) ==
    /\ cSandboxes[n] # sandboxes[n]
    /\ cSandboxes' = [cSandboxes EXCEPT ![n] = sandboxes[n]]
    /\ queue' = IF <<cSandboxes[n].uid, cSandboxes[n].del>> # <<sandboxes[n].uid, sandboxes[n].del>>
                THEN queue \cup {n} ELSE queue
    /\ UNCHANGED <<api, cTemplates, cWorkloads, cDisks, timers, events, w, world>>

\* For(&Sandbox{}) has no predicate: every event of a sandbox queues it.
SyncSandbox(n) ==
    /\ cSandboxes[n] # sandboxes[n]
    /\ cSandboxes' = [cSandboxes EXCEPT ![n] = sandboxes[n]]
    /\ queue' = queue \cup {n}
    /\ UNCHANGED <<api, cTemplates, cWorkloads, cDisks, timers, events, w, world>>

\* Nothing watches templates or disks for the sandbox controller.
SyncTemplate(t) ==
    /\ cTemplates[t] # templates[t]
    /\ cTemplates' = [cTemplates EXCEPT ![t] = templates[t]]
    /\ UNCHANGED <<api, cSandboxes, cWorkloads, cDisks, sched, w, world>>

SyncDisks(k) ==
    /\ cDisks[k] # disks[k]
    /\ cDisks' = [cDisks EXCEPT ![k] = disks[k]]
    /\ UNCHANGED <<api, cSandboxes, cTemplates, cWorkloads, sched, w, world>>

SyncWorkload(k) ==
    /\ cWorkloads[k] # workloads[k] \/ k \in events
    /\ cWorkloads' = [cWorkloads EXCEPT ![k] = workloads[k]]
    /\ queue' = IF k \in events THEN queue \cup {k[1]} ELSE queue
    /\ events' = events \ {k}
    /\ UNCHANGED <<api, cSandboxes, cTemplates, cDisks, timers, w, world>>

FireTimer(n) ==
    /\ timers[n] # 0 /\ <<n, timers[n]>> \in expired
    /\ timers' = [timers EXCEPT ![n] = 0]
    /\ queue' = queue \cup {n}
    /\ UNCHANGED <<api, caches, events, w, world>>

\* The worker, the queue and the timers are lost; the caches are listed anew.
Restart ==
    /\ restarts < MaxRestarts /\ restarts' = restarts + 1
    /\ w' = IdleWorker
    /\ timers' = [n \in Names |-> 0] /\ events' = {}
    /\ cSandboxes' = sandboxes /\ cTemplates' = templates
    /\ cWorkloads' = workloads /\ cDisks' = disks
    /\ queue' = {n \in Names : sandboxes[n].uid # 0}
    /\ gates' \in GateSets
    /\ UNCHANGED <<api, born, expired, errors>>

-----------------------------------------------------------------------------
(* Users, kubelet and operators, the garbage collector, the clock *)

CreateSandbox(n) ==
    /\ sandboxes[n].uid = 0 /\ born[n] < MaxIncarnations
    /\ born' = [born EXCEPT ![n] = @ + 1]
    /\ \/ \E t \in Templates :
            sandboxes' = [sandboxes EXCEPT ![n] = [NoSandbox EXCEPT !.uid = born[n] + 1, !.tmpl = t]]
       \/ \E s \in InlineSpecs :
            sandboxes' = [sandboxes EXCEPT ![n] = [NoSandbox EXCEPT !.uid = born[n] + 1, !.inline = s]]
    /\ UNCHANGED <<templates, workloads, disks, caches, sched, w, gates, expired, errors, restarts>>

DeleteSandbox(n) ==
    /\ sandboxes[n].uid # 0 /\ ~sandboxes[n].del
    /\ sandboxes' = [sandboxes EXCEPT ![n] = Deleted(@, NoSandbox)]
    /\ UNCHANGED <<templates, workloads, disks, caches, sched, w, world>>

CreateTemplate(t) ==
    /\ ~templates[t].there
    /\ \E s \in TemplateSpecs :
         templates' = [templates EXCEPT ![t] = [NoTemplateObj EXCEPT !.there = TRUE, !.spec = s]]
    /\ UNCHANGED <<sandboxes, workloads, disks, caches, sched, w, world>>

DeleteTemplate(t) ==
    /\ templates[t].there /\ ~templates[t].del
    /\ templates' = [templates EXCEPT ![t] = Deleted(@, NoTemplateObj)]
    /\ UNCHANGED <<sandboxes, workloads, disks, caches, sched, w, world>>

ChangeWorkload(k, t, to) ==
    /\ workloads[k][t].phase # Absent /\ workloads[k][t] # to
    /\ WriteWorkload(k, t, to)
    /\ UNCHANGED <<sandboxes, templates, disks, caches, queue, timers, w, world>>

\* A pod that has failed or succeeded stays so.
WorkloadPhase(k, t) ==
    /\ ~(t = "Pod" /\ workloads[k][t].phase \in {"Failed", "Succeeded"})
    /\ \E p \in Phases : ChangeWorkload(k, t, [workloads[k][t] EXCEPT !.phase = p])

EvictWorkload(k, t) == ChangeWorkload(k, t, [workloads[k][t] EXCEPT !.del = TRUE])

WorkloadGone(k, t) == workloads[k][t].del /\ ChangeWorkload(k, t, NoWorkload)

\* Mutant: children are made without a controller reference.
OwnerNever(k) == FALSE
\* The owner that the controller reference of k's children names, by UID, is gone.
OwnerGone(k) == sandboxes[k[1]].uid # k[2]

\* Children without their owner are collected.
CollectOrphans(k) ==
    LET marked == [t \in Types |-> [workloads[k][t] EXCEPT !.del = @ \/ workloads[k][t].phase # Absent]] IN
    /\ OwnerGone(k)
    /\ disks[k] # {} \/ marked # workloads[k]
    /\ disks' = [disks EXCEPT ![k] = {}]
    /\ workloads' = [workloads EXCEPT ![k] = marked]
    /\ UNCHANGED <<sandboxes, templates, caches, sched, w, world>>

RunOut(n) ==
    /\ \E i \in {sandboxes[n].uid, timers[n]} \cap Expiring :
         <<n, i>> \notin expired /\ expired' = expired \cup {<<n, i>>}
    /\ UNCHANGED <<api, caches, sched, w, gates, born, errors, restarts>>

-----------------------------------------------------------------------------
User ==
    \/ \E n \in Names : CreateSandbox(n) \/ DeleteSandbox(n)
    \/ \E t \in Templates : CreateTemplate(t) \/ DeleteTemplate(t)
Cluster ==
    \/ \E k \in Keys, t \in Types : WorkloadPhase(k, t) \/ EvictWorkload(k, t) \/ WorkloadGone(k, t)
    \/ \E k \in Keys : CollectOrphans(k)
    \/ \E n \in Names : RunOut(n)
Informers ==
    \/ \E n \in Names : SyncSandbox(n)
    \/ \E t \in Templates : SyncTemplate(t)
    \/ \E k \in Keys : SyncWorkload(k) \/ SyncDisks(k)
Controller ==
    \/ \E n \in Names : Begin(n) \/ FireTimer(n)
    \/ WorkerStep \/ Restart

Next == User \/ Cluster \/ Informers \/ Controller

\* The worker runs, watches deliver, what is marked goes, clocks advance; the
\* work queue is first in, first out.  Nobody has to create, delete or change.
Fairness ==
    /\ WF_vars(WorkerStep)
    /\ \A n \in Names : SF_vars(Begin(n)) /\ WF_vars(FireTimer(n)) /\ WF_vars(SyncSandbox(n))
    /\ \A n \in Names : WF_vars(RunOut(n))
    /\ \A t \in Templates : WF_vars(SyncTemplate(t))
    /\ \A k \in Keys : WF_vars(SyncWorkload(k)) /\ WF_vars(SyncDisks(k)) /\ WF_vars(CollectOrphans(k))
    /\ \A k \in Keys, t \in Types : WF_vars(WorkloadGone(k, t))

Spec == Init /\ [][Next]_vars
FairSpec == Spec /\ Fairness

ApiTypeOK ==
    /\ sandboxes \in [Names -> Sandbox] /\ templates \in [Templates -> Template]
    /\ workloads \in [Keys -> [Types -> Workload]] /\ disks \in [Keys -> SUBSET Disks]
CacheTypeOK ==
    /\ cSandboxes \in [Names -> Sandbox] /\ cTemplates \in [Templates -> Template]
    /\ cWorkloads \in [Keys -> [Types -> Workload]] /\ cDisks \in [Keys -> SUBSET Disks]
SchedTypeOK ==
    queue \subseteq Names /\ timers \in [Names -> 0..MaxIncarnations] /\ events \subseteq Keys
\* A busy worker has read a sandbox; it works on children of a known type and
\* patches a template that it has read.
Holding(x) ==
    /\ x.name \in Names /\ x.old.uid # 0
    /\ x.tmpl.there => x.old.tmpl \in Templates
    /\ x.pc \in ChildSteps => x.new.type \in Types
    /\ x.pc \in TemplateSteps => x.tmpl.there
WorkerTypeOK ==
    w \in Worker /\ (w.pc # "idle" => Holding(w))
WorldTypeOK ==
    /\ gates \in SUBSET Gated
    /\ born \in [Names -> 0..MaxIncarnations] /\ expired \subseteq Keys
    /\ errors \in 0..MaxErrors /\ restarts \in 0..MaxRestarts

\* Every variable has its type, and a busy worker holds what its step uses.
TypeOK == ApiTypeOK /\ CacheTypeOK /\ SchedTypeOK /\ WorkerTypeOK /\ WorldTypeOK
=============================================================================
