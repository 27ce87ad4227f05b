------------------------ MODULE SandboxDisks_proofs ------------------------
(***************************************************************************)
(* Proofs of what the workload of a sandbox rests on.  With an inline      *)
(* spec, it stands on all the disks the spec asks for: they are listed     *)
(* from a cache and made one by one, calls fail on the way, and a stale    *)
(* worker or the garbage collector may be deleting disks of the same name  *)
(* meanwhile.  With a template, the template is held by the finalizer,     *)
(* for its first user: the worker decides by the cache whether to put it   *)
(* there, and others delete and release templates meanwhile.               *)
(***************************************************************************)
EXTENDS SandboxLifecycle_proofs

\* The disks of the sandbox that a kind of workload owns.
Needed(t, spec) == OwnedDisks(t, spec.disks)

\* Nothing belongs to an incarnation that is still to come.
UnbornInv ==
    \A n \in Names, i \in Incarnations : i > born[n] =>
        disks[<<n, i>>] = {} /\ cDisks[<<n, i>>] = {} /\ Present(<<n, i>>) = {}

\* A copy of a sandbox that is alive shows its spec.
SpecInv ==
    /\ \A n \in Names : Alive(n) /\ cSandboxes[n].uid = sandboxes[n].uid
                        => cSandboxes[n].inline = sandboxes[n].inline
    /\ w.pc # "idle" /\ Alive(w.name) /\ w.old.uid = sandboxes[w.name].uid
       => w.old.inline = sandboxes[w.name].inline

\* The disks that the cache shows of a sandbox that is alive are there.
ListedInv == \A n \in Names : Alive(n) => cDisks[KeyOf(n)] \subseteq disks[KeyOf(n)]

\* The steps between the first list of disks and the creation of the workload.
MakingSteps == {"createDisk", "listClaims", "readWorkload", "createWorkload"}
BuildSteps == MakingSteps \cup {"listDisks"}

\* While disks of class c are made, only those still to do are missing, and claims if
\* DataVolumes come first.
MakingClass(x, have, c) ==
    /\ \A d \in x.todo : d.class = c
    /\ c = "DV" => x.new.type = "KubevirtVMI"
    /\ \A d \in Needed(x.new.type, x.old.inline) \ (have \cup x.todo) : c = "DV" /\ d.class # "DV"

\* How far the worker has come with the disks.
Progress(x, have) ==
    LET missing == Needed(x.new.type, x.old.inline) \ have IN
    /\ x.pc = "createDisk" => \E c \in Classes : MakingClass(x, have, c)
    /\ x.pc = "listClaims" => x.new.type = "KubevirtVMI" /\ \A d \in missing : d.class # "DV"
    /\ x.pc \in {"readWorkload", "createWorkload"} => missing = {}

\* The worker is at work on a sandbox that is alive and has an inline spec.
OnInline ==
    /\ w.pc # "idle" /\ Alive(w.name)
    /\ w.old.uid = sandboxes[w.name].uid /\ w.old.inline # NoSpec
ProgressInv == OnInline => Progress(w, disks[Key])

DisksInv == UnbornInv /\ SpecInv /\ ListedInv /\ ProgressInv /\ DisksBackWorkload

-----------------------------------------------------------------------------
(* What becomes of a sandbox *)

\* What a step makes of a sandbox: it is the same one with the same spec, and a deletion
\* mark is not taken off; or it is gone; or it is the next incarnation of its name, and the
\* step does nothing else.
Fate(n) ==
    \/ /\ sandboxes'[n].uid = sandboxes[n].uid /\ sandboxes'[n].tmpl = sandboxes[n].tmpl
       /\ sandboxes'[n].inline = sandboxes[n].inline
       /\ sandboxes[n].del => sandboxes'[n].del
       /\ born'[n] = born[n]
    \/ sandboxes'[n] = NoSandbox /\ born'[n] = born[n]
    \/ /\ sandboxes[n].uid = 0
       /\ sandboxes'[n].uid = born[n] + 1 /\ born'[n] = born[n] + 1
       /\ sandboxes'[n].tmpl # NoTemplate => sandboxes'[n].inline = NoSpec
       /\ UNCHANGED <<templates, workloads, cSandboxes, cTemplates, w>>

\* A sandbox that is alive after a step was so before it, with the same spec, or is the
\* next incarnation of its name.
Survives(n) ==
    \/ /\ Alive(n) /\ sandboxes'[n].uid = sandboxes[n].uid
       /\ sandboxes'[n].inline = sandboxes[n].inline
    \/ born'[n] = born[n] + 1 /\ sandboxes'[n].uid = born[n] + 1

\* No write makes another spec of a sandbox, and none another sandbox of it.
LEMMA SandboxFate ==
    ASSUME LifecycleInv, Next, NEW n \in Names PROVE Fate(n)
<1>1. sandboxes \in [Names -> Sandbox] /\ born \in [Names -> 0..MaxIncarnations]
  BY DEF LifecycleInv, ProtectionInv, TypeOK, ApiTypeOK, WorldTypeOK
<1>2. CASE UNCHANGED <<sandboxes, born>>
  BY <1>2 DEF Fate
<1>3. ASSUME NEW m \in Names, CreateSandbox(m) PROVE Fate(n)
  <2>1. PICK x : /\ sandboxes' = [sandboxes EXCEPT ![m] = x] /\ x.uid = born[m] + 1
                 /\ x.tmpl # NoTemplate => x.inline = NoSpec
    <3>1. ASSUME NEW t
          PROVE  /\ [NoSandbox EXCEPT !.uid = born[m] + 1, !.tmpl = t].uid = born[m] + 1
                 /\ [NoSandbox EXCEPT !.uid = born[m] + 1, !.tmpl = t].inline = NoSpec
      BY DEF NoSandbox
    <3>2. ASSUME NEW spec
          PROVE  /\ [NoSandbox EXCEPT !.uid = born[m] + 1, !.inline = spec].uid = born[m] + 1
                 /\ [NoSandbox EXCEPT !.uid = born[m] + 1, !.inline = spec].tmpl = NoTemplate
      BY DEF NoSandbox
    <3>3. QED BY <1>3, <3>1, <3>2 DEF CreateSandbox
  <2>2. /\ born' = [born EXCEPT ![m] = born[m] + 1] /\ sandboxes[m].uid = 0
        /\ UNCHANGED <<templates, workloads, cSandboxes, cTemplates, w>>
    BY <1>3 DEF CreateSandbox, caches
  <2>3. CASE n = m
    BY <1>1, <2>1, <2>2, <2>3 DEF Fate
  <2>4. CASE n # m
    BY <1>1, <2>1, <2>2, <2>4 DEF Fate
  <2>5. QED BY <2>3, <2>4
<1>4. ASSUME NEW m \in Names, UNCHANGED born,
             sandboxes' = [sandboxes EXCEPT ![m] = Deleted(sandboxes[m], NoSandbox)]
      PROVE  Fate(n)
  <2>1. sandboxes'[m] = [sandboxes[m] EXCEPT !.del = TRUE] \/ sandboxes'[m] = NoSandbox
    BY <1>1, <1>4 DEF Deleted
  <2>2. [sandboxes[m] EXCEPT !.del = TRUE].uid = sandboxes[m].uid
        /\ [sandboxes[m] EXCEPT !.del = TRUE].tmpl = sandboxes[m].tmpl
        /\ [sandboxes[m] EXCEPT !.del = TRUE].inline = sandboxes[m].inline
        /\ [sandboxes[m] EXCEPT !.del = TRUE].del
    BY <1>1 DEF Sandbox
  <2>3. CASE n = m
    BY <1>4, <2>1, <2>2, <2>3 DEF Fate
  <2>4. CASE n # m
    BY <1>1, <1>4, <2>4 DEF Fate
  <2>5. QED BY <2>3, <2>4
<1>5. CASE UpdateStatus /\ sandboxes' # sandboxes
  <2>1. w.name \in Names
    BY <1>5, KeyTyped DEF UpdateStatus, LifecycleInv, ProtectionInv
  <2>2. sandboxes' = [sandboxes EXCEPT ![w.name].type = w.new.type,
                                       ![w.name].cond = w.new.cond]
        /\ UNCHANGED born
    BY <1>5 DEF UpdateStatus
  <2>3. /\ sandboxes'[n].uid = sandboxes[n].uid /\ sandboxes'[n].del = sandboxes[n].del
        /\ sandboxes'[n].inline = sandboxes[n].inline /\ sandboxes'[n].tmpl = sandboxes[n].tmpl
    BY <1>1, <2>1, <2>2 DEF Sandbox
  <2>4. QED BY <2>2, <2>3 DEF Fate
<1>6. CASE UpdateMeta /\ sandboxes' # sandboxes
  <2> DEFINE m == w.name
  <2>1. /\ m \in Names /\ UNCHANGED born
        /\ \/ sandboxes' = [sandboxes EXCEPT ![m] = [sandboxes[m] EXCEPT !.prot = TRUE]]
           \/ sandboxes' = [sandboxes EXCEPT ![m] = NoSandbox]
    BY <1>6, MetaPatch DEF LifecycleInv, UpdateMeta
  <2> HIDE DEF m
  <2>2. CASE n = m /\ sandboxes'[n] # NoSandbox
    <3>1. sandboxes'[n] = [sandboxes[n] EXCEPT !.prot = TRUE]
      BY <1>1, <2>1, <2>2
    <3>2. /\ sandboxes'[n].uid = sandboxes[n].uid /\ sandboxes'[n].del = sandboxes[n].del
          /\ sandboxes'[n].inline = sandboxes[n].inline /\ sandboxes'[n].tmpl = sandboxes[n].tmpl
      BY <1>1, <3>1 DEF Sandbox
    <3>3. QED BY <2>1, <3>2 DEF Fate
  <2>3. CASE n # m
    BY <1>1, <2>1, <2>3 DEF Fate
  <2>4. QED BY <2>1, <2>2, <2>3 DEF Fate
<1>7. CASE Expire
  <2>1. w.name \in Names /\ UNCHANGED born
    BY <1>7, KeyTyped DEF Expire, UnchangedButErrors, LifecycleInv, ProtectionInv
  <2>2. QED BY <1>2, <1>4, <1>7, <2>1 DEF Expire
<1>8. ASSUME NEW m \in Names, DeleteSandbox(m) PROVE Fate(n)
  BY <1>4, <1>8 DEF DeleteSandbox, world
<1>9. UNCHANGED born \/ \E m \in Names : CreateSandbox(m)
  BY ZenonT(60)
  DEF Next, User, Cluster, Informers, Controller, WorkerStep, DeleteSandbox, CreateTemplate,
      DeleteTemplate, WorkloadPhase, EvictWorkload, WorkloadGone, ChangeWorkload,
      CollectOrphans, RunOut, SyncSandbox, SyncTemplate, SyncWorkload, SyncDisks, FireTimer,
      Restart, Begin, BeginGone, BeginTerminating, BeginExpired, BeginWaiting, BeginManaging,
      Take, Expire, ProtectTemplate, ListDisks, CreateDisk, ReadWorkload, CreateWorkload,
      ReplaceWorkload, ReadStatus, FindWorkload, DeleteWorkload, ListOwned, DeleteDisk,
      UnprotectTemplate, DeletingWorkload, UpdateStatus, UpdateMeta, UnchangedButErrors,
      UnchangedButEvents, world
<1>10. QED
  BY <1>2, <1>3, <1>5, <1>6, <1>7, <1>8, <1>9
  DEF Next, User, Cluster, Informers, Controller, WorkerStep, CreateTemplate, DeleteTemplate,
      WorkloadPhase, EvictWorkload, WorkloadGone, ChangeWorkload, CollectOrphans, RunOut,
      SyncSandbox, SyncTemplate, SyncWorkload, SyncDisks, FireTimer, Restart,
      Begin, BeginGone, BeginTerminating, BeginExpired, BeginWaiting, BeginManaging, Take,
      ProtectTemplate, ListDisks, CreateDisk, ReadWorkload, CreateWorkload, ReplaceWorkload,
      ReadStatus, FindWorkload, DeleteWorkload, ListOwned, DeleteDisk, UnprotectTemplate,
      DeletingWorkload, api

\* So no sandbox comes back to life.
LEMMA AliveBefore ==
    ASSUME LifecycleInv, Next, NEW n \in Names, Alive(n)' PROVE Survives(n)
BY SandboxFate DEF Fate, Survives, Alive, NoSandbox

\* The count of incarnations never goes down.
LEMMA BornGrows ==
    ASSUME LifecycleInv, Next, NEW n \in Names
    PROVE  born[n] \in Nat /\ born'[n] \in {born[n], born[n] + 1}
<1>1. born \in [Names -> 0..MaxIncarnations]
  BY DEF LifecycleInv, ProtectionInv, TypeOK, WorldTypeOK
<1>2. CASE UNCHANGED born
  BY <1>1, <1>2
<1>3. ASSUME NEW m \in Names, Lives(m) PROVE born'[n] \in {born[n], born[n] + 1}
  BY <1>3 DEF Lives, LifeStep
<1>4. QED BY <1>1, <1>2, <1>3, StepLives

-----------------------------------------------------------------------------
(* What becomes of disks and workloads *)

\* The worker deletes only what belongs to a sandbox that is not alive.
LEMMA DeletesNoLiving ==
    ASSUME LifecycleInv, w.pc \in ReleasingSteps, NEW n \in Names, Alive(n)
    PROVE  KeyOf(n) # Key
<1>1. w.pc # "idle"
  BY DEF ReleasingSteps
<1>2. w.old.del /\ CopyInv(w.old, sandboxes[w.name], born[w.name])
  BY <1>1 DEF LifecycleInv, ProtectionInv, WorkerInv
<1>3. QED BY <1>2 DEF KeyOf, Key, Alive, CopyInv

\* A step touches the disks of the incarnation the worker holds, or clears some away.
LEMMA DisksChange ==
    ASSUME LifecycleInv, Next
    PROVE  \A k \in Keys :
             \/ disks'[k] = disks[k]
             \/ disks'[k] = {}
             \/ w.pc # "idle" /\ k = Key
<1>1. disks \in [Keys -> SUBSET Disks]
  BY DEF LifecycleInv, ProtectionInv, TypeOK, ApiTypeOK
<1>2. CASE UNCHANGED disks
  BY <1>2
<1>3. ASSUME NEW k \in Keys, CollectOrphans(k)
      PROVE  \A j \in Keys : disks'[j] = disks[j] \/ disks'[j] = {}
  BY <1>1, <1>3 DEF CollectOrphans
<1>4. CASE CreateDisk \/ DeleteDisk
  <2>1. w.pc # "idle" /\ (UNCHANGED disks \/ \E x : disks' = [disks EXCEPT ![Key] = x])
    BY <1>4 DEF CreateDisk, DeleteDisk
  <2>2. QED BY <1>1, <2>1
<1>5. QED
  BY <1>2, <1>3, <1>4, ZenonT(60)
  DEF Next, User, Cluster, Informers, Controller, WorkerStep, CreateSandbox, DeleteSandbox,
      CreateTemplate, DeleteTemplate, WorkloadPhase, EvictWorkload, WorkloadGone,
      ChangeWorkload, RunOut, SyncSandbox, SyncTemplate, SyncWorkload, SyncDisks, FireTimer,
      Restart, Begin, BeginGone, BeginTerminating, BeginExpired, BeginWaiting, BeginManaging,
      Take, Expire, ProtectTemplate, ListDisks, ReadWorkload, CreateWorkload, ReplaceWorkload,
      ReadStatus, FindWorkload, DeleteWorkload, ListOwned, UnprotectTemplate, DeletingWorkload,
      UpdateStatus, UpdateMeta, api

\* Of a sandbox that is alive, no disk is taken away.
LEMMA DisksStay ==
    ASSUME LifecycleInv, Next, NEW n \in Names, Alive(n)
    PROVE  KeyOf(n) \in Keys /\ disks[KeyOf(n)] \subseteq disks'[KeyOf(n)]
<1>1. disks \in [Keys -> SUBSET Disks] /\ KeyOf(n) \in Keys
  <2>1. sandboxes[n].uid \in Incarnations
    BY DEF LifecycleInv, ProtectionInv, TypeOK, ApiTypeOK, Sandbox, Alive, Incarnations
  <2>2. QED BY <2>1 DEF KeyOf, Keys, LifecycleInv, ProtectionInv, TypeOK, ApiTypeOK
<1>2. CASE UNCHANGED disks
  BY <1>1, <1>2
<1>3. ASSUME NEW k \in Keys, CollectOrphans(k) PROVE disks'[KeyOf(n)] = disks[KeyOf(n)]
  <2>1. k # KeyOf(n)
    BY <1>3 DEF CollectOrphans, OwnerGone, KeyOf
  <2>2. QED BY <1>1, <1>3, <2>1 DEF CollectOrphans
<1>4. CASE DeleteDisk
  <2>1. KeyOf(n) # Key
    BY <1>4, DeletesNoLiving DEF DeleteDisk, ReleasingSteps
  <2>2. QED BY <1>1, <1>4, <2>1 DEF DeleteDisk
<1>5. CASE CreateDisk
  BY <1>1, <1>5 DEF CreateDisk
<1>6. QED
  BY <1>1, <1>2, <1>3, <1>4, <1>5, ZenonT(60)
  DEF Next, User, Cluster, Informers, Controller, WorkerStep, CreateSandbox, DeleteSandbox,
      CreateTemplate, DeleteTemplate, WorkloadPhase, EvictWorkload, WorkloadGone,
      ChangeWorkload, RunOut, SyncSandbox, SyncTemplate, SyncWorkload, SyncDisks, FireTimer,
      Restart, Begin, BeginGone, BeginTerminating, BeginExpired, BeginWaiting, BeginManaging,
      Take, Expire, ProtectTemplate, ListDisks, ReadWorkload, CreateWorkload, ReplaceWorkload,
      ReadStatus, FindWorkload, DeleteWorkload, ListOwned, UnprotectTemplate, DeletingWorkload,
      UpdateStatus, UpdateMeta, api

\* A workload appears by the worker's hand only.
LEMMA WorkloadsAppear ==
    ASSUME LifecycleInv, Next, NEW k \in Keys, NEW t \in Types,
           t \in Present(k)', t \notin Present(k)
    PROVE  CreateWorkload /\ k = Key /\ t = Type_
<1>1. workloads \in [Keys -> [Types -> Workload]]
  BY DEF LifecycleInv, ProtectionInv, TypeOK, ApiTypeOK
<1>2. workloads[k][t].phase = Absent /\ workloads'[k][t].phase # Absent
  BY DEF Present
<1>3. ASSUME NEW j \in Keys, NEW u \in Types, NEW to, ChangeWorkload(j, u, to) PROVE FALSE
  BY <1>1, <1>2, <1>3 DEF ChangeWorkload, WriteWorkload
<1>4. ASSUME NEW j \in Keys, CollectOrphans(j) PROVE FALSE
  <2>1. workloads' = [workloads EXCEPT ![j] =
          [u \in Types |-> [workloads[j][u] EXCEPT !.del = @ \/ workloads[j][u].phase # Absent]]]
    BY <1>4 DEF CollectOrphans
  <2>2. k = j /\ workloads'[k][t] = [workloads[k][t] EXCEPT !.del = @ \/ workloads[k][t].phase # Absent]
    BY <1>1, <1>2, <2>1
  <2>3. workloads[k][t] \in Workload
    BY <1>1
  <2>4. workloads'[k][t].phase = workloads[k][t].phase
    BY <2>2, <2>3 DEF Workload
  <2>5. QED BY <1>2, <2>4
<1>5. CASE CreateWorkload
  BY <1>1, <1>2, <1>5 DEF CreateWorkload, WriteWorkload
<1>6. CASE ReplaceWorkload \/ DeleteWorkload
  <2>1. /\ workloads[Key][Type_].phase # Absent
        /\ workloads' = [workloads EXCEPT ![Key][Type_] = [workloads[Key][Type_] EXCEPT !.del = TRUE]]
    BY <1>2, <1>6 DEF ReplaceWorkload, DeleteWorkload, DeletingWorkload, WriteWorkload
  <2>2. Key = k /\ Type_ = t
    BY <1>1, <1>2, <2>1
  <2>3. QED BY <1>2, <2>1, <2>2
<1>7. ASSUME NEW j \in Keys, NEW u \in Types,
             WorkloadPhase(j, u) \/ EvictWorkload(j, u) \/ WorkloadGone(j, u)
      PROVE  FALSE
  BY <1>3, <1>7 DEF WorkloadPhase, EvictWorkload, WorkloadGone
<1>8. ~UNCHANGED workloads
  BY <1>2
<1>9. QED
  BY <1>4, <1>5, <1>6, <1>7, <1>8
  DEF Next, User, Cluster, Informers, Controller, WorkerStep, CreateSandbox, DeleteSandbox,
      CreateTemplate, DeleteTemplate, RunOut, SyncSandbox, SyncTemplate, SyncWorkload,
      SyncDisks, FireTimer, Restart, Begin, BeginGone, BeginTerminating, BeginExpired,
      BeginWaiting, BeginManaging, Take, Expire, ProtectTemplate, ListDisks, CreateDisk,
      ReadWorkload, ReadStatus, FindWorkload, ListOwned, DeleteDisk, UnprotectTemplate,
      UpdateStatus, UpdateMeta, api

-----------------------------------------------------------------------------
(* How the worker comes by the workload *)

\* Neither the update nor the beginning of what comes after is a step of the making.
LEMMA TurnsAway ==
    ASSUME NEW x \in Worker
    PROVE  /\ \A y \in {Updating(x), Failing(x), CreateFailing(x), Releasing(x),
                        Unprotecting(x)} : y.pc \notin BuildSteps
           /\ Creating(x).pc \notin MakingSteps
<1>1. \A y \in Worker : Updating(y).pc \notin BuildSteps
  BY DEF Updating, Worker, MakingSteps, BuildSteps
<1>2. \A y \in Worker : [y EXCEPT !.err = TRUE] \in Worker
  BY DEF Worker
<1>3. \A y \in Worker : Failing(y).pc \notin BuildSteps
  BY <1>1, <1>2 DEF Failing
<1>4. [x EXCEPT !.new.cond = "CreateFailed"] \in Worker /\ [x EXCEPT !.new.prot = FALSE] \in Worker
  BY DEF Worker, Conditions
<1>5. CreateFailing(x).pc \notin BuildSteps
  BY <1>3, <1>4 DEF CreateFailing
<1>6. Creating(x).pc \notin MakingSteps
  BY <1>5 DEF Creating, Worker, MakingSteps, BuildSteps
<1>7. Releasing(x).pc \notin BuildSteps
  BY <1>1, <1>4 DEF Releasing
<1>8. Unprotecting(x).pc \notin BuildSteps
  BY <1>7 DEF Unprotecting, Worker, MakingSteps, BuildSteps
<1>9. QED BY <1>1, <1>3, <1>5, <1>6, <1>7, <1>8

\* A reconcile does not begin in the middle of the making, and with the first list of
\* disks only when the sandbox is to be managed.
LEMMA BeginsBefore ==
    ASSUME TypeOK, NEW n \in Names, Begin(n)
    PROVE  \/ UNCHANGED w
           \/ w'.pc \notin BuildSteps
           \/ BeginManaging(n) /\ w'.pc \notin MakingSteps
<1> DEFINE x == Reading(n)
<1>1. cSandboxes[n].uid # 0 => x \in Worker
  BY ReadingTyped DEF TypeOK
<1> HIDE DEF x
<1>2. CASE BeginGone(n)
  BY <1>2 DEF BeginGone
<1>3. CASE BeginTerminating(n)
  <2> DEFINE y == [x EXCEPT !.new.cond = "Terminating"]
  <2>1. y \in Worker
    BY <1>1, <1>3 DEF BeginTerminating, Worker, Conditions
  <2>2. w' \in {Unprotecting(y), Failing(y), [y EXCEPT !.pc = "findWorkload"]}
    BY <1>3 DEF BeginTerminating, x
  <2> HIDE DEF y
  <2>3. [y EXCEPT !.pc = "findWorkload"].pc \notin BuildSteps
    BY <2>1 DEF Worker, MakingSteps, BuildSteps
  <2>4. QED BY <2>1, <2>2, <2>3, TurnsAway
<1>4. CASE BeginWaiting(n)
  BY <1>1, <1>4, TurnsAway DEF BeginWaiting, Live, x
<1>5. CASE BeginExpired(n)
  BY <1>1, <1>5 DEF BeginExpired, Live, x, Worker, MakingSteps, BuildSteps
<1>6. CASE BeginManaging(n)
  <2> DEFINE y == [x EXCEPT !.new.prot = TRUE]
  <2>1. y \in Worker
    BY <1>1, <1>6 DEF BeginManaging, Live, Worker
  <2>2. w' \in {Creating(y), [y EXCEPT !.pc = "protect"]}
    BY <1>6 DEF BeginManaging, x
  <2> HIDE DEF y
  <2>3. [y EXCEPT !.pc = "protect"].pc \notin MakingSteps
    BY <2>1 DEF Worker, MakingSteps
  <2>4. QED BY <1>6, <2>1, <2>2, <2>3, TurnsAway
<1>7. QED BY <1>2, <1>3, <1>4, <1>5, <1>6 DEF Begin

\* The turn to the claims, when the DataVolumes are done, or to the workload.
LEMMA ClassDone ==
    ASSUME NEW x \in Worker, NEW have, NEW c \in Classes, MakingClass(x, have, c), x.todo = {}
    PROVE  Progress(Making(x, c), have)
<1> DEFINE y == Making(x, c)
<1>1. y.new = x.new /\ y.old = x.old /\ y.pc = IF c = "DV" THEN "listClaims" ELSE "readWorkload"
  BY DEF Making, Worker
<1> HIDE DEF y
<1>2. \A d \in Needed(x.new.type, x.old.inline) \ have : c = "DV" /\ d.class # "DV"
  BY DEF MakingClass
<1>3. c = "DV" => x.new.type = "KubevirtVMI"
  BY DEF MakingClass
<1>4. Progress(y, have)
  BY <1>1, <1>2, <1>3 DEF Progress
<1>5. QED BY <1>4 DEF y

\* What is left to do of a class, when all that the cache shows is there.
LEMMA ListMakes ==
    ASSUME TypeOK, OnInline, ListDisks, cDisks[Key] \subseteq disks[Key], Progress(w, disks[Key])
    PROVE  Progress(w', disks[Key])
<1> DEFINE c == ListedClass
           todo == MissingDisks(c)
           have == disks[Key]
           x == [w EXCEPT !.todo = todo]
<1>1. w \in Worker /\ Holding(w) /\ w.new.type \in Types
  BY BusyTyped DEF ListDisks, Holding, ChildSteps, Steps
<1>2. Spec_ = w.old.inline
  BY DEF OnInline, Spec_, SpecFor
<1>3. w.old.inline.disks \subseteq Disks
  BY <1>1 DEF Worker, Sandbox, Disks
<1>4. todo = {d \in w.old.inline.disks : d.class = c} \ cDisks[Key] /\ todo \in SUBSET Disks
  BY <1>2, <1>3 DEF MissingDisks
<1>5. /\ c \in Classes /\ (c = "DV" => w.new.type = "KubevirtVMI")
      /\ \A d \in Needed(w.new.type, w.old.inline) \ have :
            d.class = c \/ (c = "DV" /\ d.class # "DV")
  <2>1. CASE w.pc = "listDisks"
    <3>1. c = FirstClass[w.new.type]
      BY <2>1 DEF ListedClass, Type_
    <3>2. QED BY <1>1, <3>1 DEF FirstClass, Types, Classes, Needed, OwnedDisks, OwnedClasses
  <2>2. CASE w.pc = "listClaims"
    <3>1. c = "PVC"
      BY <2>2 DEF ListedClass
    <3>2. w.new.type = "KubevirtVMI"
          /\ \A d \in Needed(w.new.type, w.old.inline) \ have : d.class # "DV"
      BY <2>2 DEF Progress
    <3>3. \A d \in Needed(w.new.type, w.old.inline) : d.class \in {"DV", "PVC"}
      BY <3>2 DEF Needed, OwnedDisks, OwnedClasses
    <3>4. QED BY <3>1, <3>2, <3>3 DEF Classes
  <2>3. QED BY <2>1, <2>2 DEF ListDisks
<1>6. x \in Worker /\ x.new = w.new /\ x.old = w.old /\ x.todo = todo
  BY <1>1, <1>4 DEF Worker
<1>7. Needed(w.new.type, w.old.inline) \subseteq w.old.inline.disks
  BY DEF Needed, OwnedDisks
<1> HIDE DEF c, todo, x, have
<1>8. cDisks[Key] \subseteq have
  BY DEF have
<1>9. MakingClass(x, have, c)
  BY <1>4, <1>5, <1>6, <1>7, <1>8 DEF MakingClass
<1>10. CASE todo = {}
  <2>1. w' = Making(w, c)
    BY <1>10 DEF ListDisks, c, todo
  <2>2. Making(x, c).pc = Making(w, c).pc /\ Making(x, c).new = Making(w, c).new
        /\ Making(x, c).old = Making(w, c).old /\ Making(w, c).pc # "createDisk"
    BY <1>1, <1>6 DEF Making, Worker
  <2>3. Progress(Making(x, c), have)
    BY <1>5, <1>6, <1>9, <1>10, ClassDone
  <2>4. QED BY <2>1, <2>2, <2>3 DEF Progress, have
<1>11. CASE todo # {}
  <2>1. w' = [w EXCEPT !.pc = "createDisk", !.todo = todo]
    BY <1>11 DEF ListDisks, c, todo
  <2>2. w'.pc = "createDisk" /\ w'.new = w.new /\ w'.old = w.old /\ w'.todo = todo
    BY <1>1, <2>1 DEF Worker
  <2>3. MakingClass(w', have, c)
    BY <1>6, <1>9, <2>2 DEF MakingClass
  <2>4. QED BY <1>5, <2>2, <2>3 DEF Progress, have
<1>12. QED BY <1>10, <1>11

\* One disk more, or the end of the making.
LEMMA DiskMade ==
    ASSUME TypeOK, OnInline, CreateDisk, Progress(w, disks[Key])
    PROVE  Progress(w', disks'[Key])
<1> DEFINE have == disks[Key]
           left(d) == [w EXCEPT !.todo = @ \ {d}]
           failed == CreateFailing([w EXCEPT !.todo = {}])
<1>1. w \in Worker /\ w.pc = "createDisk" /\ Key \in Keys
  BY BusyTyped, KeyTyped DEF CreateDisk
<1>2. PICK c \in Classes : MakingClass(w, have, c)
  BY <1>1 DEF Progress
<1>3. PICK d \in w.todo :
        \/ /\ disks' = [disks EXCEPT ![Key] = @ \cup {d}]
           /\ w' \in {IF left(d).todo = {} THEN Making(left(d), d.class) ELSE left(d), failed}
        \/ w' = failed
  BY DEF CreateDisk, Applied, NotApplied
<1>4. failed.pc \notin MakingSteps
  <2>1. [w EXCEPT !.todo = {}] \in Worker
    BY <1>1 DEF Worker
  <2>2. QED BY <2>1, TurnsAway DEF BuildSteps
<1> DEFINE l == left(d)
<1>5. l \in Worker /\ l.new = w.new /\ l.old = w.old /\ l.todo = w.todo \ {d} /\ l.pc = "createDisk"
  BY <1>1 DEF Worker
<1> HIDE DEF left, failed
<1>6. CASE w' = failed
  BY <1>4, <1>6 DEF Progress, MakingSteps
<1>7. CASE w' # failed
  <2>1. disks'[Key] = have \cup {d}
    BY <1>1, <1>3, <1>7 DEF TypeOK, ApiTypeOK
  <2>2. w' = IF l.todo = {} THEN Making(l, d.class) ELSE l
    BY <1>3, <1>7
  <2>3. d.class = c
    BY <1>2 DEF MakingClass
  <2> HIDE DEF l
  <2>4. MakingClass(l, disks'[Key], c)
    BY <1>2, <1>5, <2>1 DEF MakingClass
  <2>5. CASE l.todo = {}
    BY <1>5, <2>2, <2>3, <2>4, <2>5, ClassDone
  <2>6. CASE l.todo # {}
    BY <1>5, <2>2, <2>4, <2>6 DEF Progress
  <2>7. QED BY <2>5, <2>6
<1>8. QED BY <1>6, <1>7

\* Every other step of the worker stays out of the making, goes on from the disks to the
\* workload, or comes to the making from the protection of the template.
LEMMA OtherSteps ==
    ASSUME TypeOK, WorkerStep, ~ListDisks, ~CreateDisk
    PROVE  \/ w'.pc \notin BuildSteps
           \/ /\ w.pc = "readWorkload" /\ w'.pc = "createWorkload"
              /\ w'.new = w.new /\ w'.old = w.old
           \/ ProtectTemplate /\ w' = Creating(w) /\ w'.pc \notin MakingSteps
<1>1. w \in Worker
  BY DEF TypeOK, WorkerTypeOK
<1>2. /\ \A y \in {Updating(w), Failing(w), CreateFailing(w), Releasing(w),
                   Unprotecting(w)} : y.pc \notin BuildSteps
      /\ Creating(w).pc \notin MakingSteps
  BY <1>1, TurnsAway
<1>3. \A todo : [w EXCEPT !.pc = "deleteDisk", !.todo = todo].pc \notin BuildSteps
  BY <1>1 DEF Worker, MakingSteps, BuildSteps
<1>4. CASE Expire \/ ProtectTemplate \/ CreateWorkload \/ ReplaceWorkload \/ DeleteWorkload
           \/ UnprotectTemplate
  <2>1. \/ w' \in {Updating(w), Failing(w), CreateFailing(w), Releasing(w)}
        \/ ProtectTemplate /\ w' = Creating(w)
        \/ \E pc \in {"readStatus", "listOwned"} : w' = [w EXCEPT !.pc = pc]
    BY <1>4 DEF Expire, ProtectTemplate, CreateWorkload, ReplaceWorkload, DeleteWorkload,
       UnprotectTemplate, DeletingWorkload, Applied, NotApplied
  <2>2. \A pc \in {"readStatus", "listOwned"} : [w EXCEPT !.pc = pc].pc \notin BuildSteps
    BY <1>1 DEF Worker, MakingSteps, BuildSteps
  <2>3. QED BY <1>2, <2>1, <2>2
<1>5. CASE ReadWorkload \/ FindWorkload
  <2>1. \/ w.pc = "readWorkload" /\ w' = [w EXCEPT !.pc = "createWorkload"]
        \/ \E pc \in {"replaceWorkload", "readStatus", "listOwned", "deleteWorkload"} :
             w' = [w EXCEPT !.pc = pc]
    BY <1>5 DEF ReadWorkload, FindWorkload
  <2>2. \A pc \in {"replaceWorkload", "readStatus", "listOwned", "deleteWorkload"} :
          [w EXCEPT !.pc = pc].pc \notin BuildSteps
    BY <1>1 DEF Worker, MakingSteps, BuildSteps
  <2>3. w' = [w EXCEPT !.pc = "createWorkload"]
        => w'.pc = "createWorkload" /\ w'.new = w.new /\ w'.old = w.old
    BY <1>1 DEF Worker
  <2>4. QED BY <2>1, <2>2, <2>3
<1>6. CASE ReadStatus
  <2> DEFINE cond == Status
             after == NextSync(w.name, w.old)
             x == [w EXCEPT !.new.cond = cond, !.after = after]
  <2>1. cond \in Conditions /\ after \in BOOLEAN
    BY ReasonTyped DEF Status, Conditions, NextSync
  <2> HIDE DEF cond, after
  <2>2. x \in Worker
    BY <1>1, <2>1 DEF Worker
  <2>3. w' = Updating(x)
    BY <1>6 DEF ReadStatus, cond, after
  <2> HIDE DEF x
  <2>4. QED BY <2>2, <2>3, TurnsAway
<1>7. ASSUME NEW x \in Worker, NEW class PROVE Deleting(x, class).pc \notin BuildSteps
  BY TurnsAway DEF Deleting, Worker, MakingSteps, BuildSteps
<1>8. CASE ListOwned
  <2>1. w' = Deleting(w, ListedClass)
        \/ w' = [w EXCEPT !.pc = "deleteDisk", !.todo = {d \in cDisks[Key] : d.class = ListedClass}]
    BY <1>8 DEF ListOwned
  <2>2. QED BY <1>1, <1>3, <1>7, <2>1
<1>9. CASE DeleteDisk
  <2> DEFINE left(d) == [w EXCEPT !.todo = @ \ {d}]
             empty == [w EXCEPT !.todo = {}]
  <2>1. PICK d \in w.todo : w' \in {Deleting(left(d), d.class), left(d), Failing(empty)}
    BY <1>9 DEF DeleteDisk, Applied, NotApplied
  <2>2. left(d) \in Worker /\ left(d).pc = w.pc /\ empty \in Worker
    BY <1>1 DEF Worker
  <2> HIDE DEF left, empty
  <2>3. w.pc \notin BuildSteps
    BY <1>9 DEF DeleteDisk, MakingSteps, BuildSteps
  <2>4. QED BY <1>7, <2>1, <2>2, <2>3, TurnsAway
<1>10. CASE UpdateStatus \/ UpdateMeta
  <2>1. w' = IdleWorker
        \/ w' = [w EXCEPT !.pc = "updateMeta", !.new.prot = @ \/ sandboxes[w.name].prot]
    BY <1>10 DEF UpdateStatus, UpdateMeta, Return
  <2>2. [w EXCEPT !.pc = "updateMeta", !.new.prot = @ \/ sandboxes[w.name].prot].pc = "updateMeta"
    BY <1>1 DEF Worker
  <2>3. QED BY <2>1, <2>2, IdleTyped DEF MakingSteps, BuildSteps
<1>11. QED BY <1>4, <1>5, <1>6, <1>8, <1>9, <1>10 DEF WorkerStep

-----------------------------------------------------------------------------
(* What becomes of the copies *)

\* The disks of an incarnation are read into the cache as they are.
LEMMA CachedDisks ==
    ASSUME LifecycleInv, Next, NEW k \in Keys
    PROVE  cDisks'[k] = cDisks[k] \/ cDisks'[k] = disks[k]
<1>1. cDisks \in [Keys -> SUBSET Disks]
  BY DEF LifecycleInv, ProtectionInv, TypeOK, CacheTypeOK
<1>2. UNCHANGED cDisks \/ cDisks' = disks \/ \E j \in Keys : cDisks' = [cDisks EXCEPT ![j] = disks[j]]
  BY ZenonT(60)
  DEF Next, User, Cluster, Informers, Controller, WorkerStep, CreateSandbox, DeleteSandbox,
     CreateTemplate, DeleteTemplate, WorkloadPhase, EvictWorkload, WorkloadGone,
     ChangeWorkload, CollectOrphans, RunOut, SyncSandbox, SyncTemplate, SyncWorkload, SyncDisks,
     FireTimer, Restart, Begin, BeginGone, BeginTerminating, BeginExpired, BeginWaiting,
     BeginManaging, Take, Expire, ProtectTemplate, ListDisks, CreateDisk, ReadWorkload,
     CreateWorkload, ReplaceWorkload, ReadStatus, FindWorkload, DeleteWorkload, ListOwned,
     DeleteDisk, UnprotectTemplate, DeletingWorkload, UpdateStatus, UpdateMeta,
     UnchangedButErrors, UnchangedButEvents, caches
<1>3. QED BY <1>1, <1>2

\* So are the sandboxes.
LEMMA CachedSandboxes ==
    ASSUME LifecycleInv, Next, NEW n \in Names
    PROVE  cSandboxes'[n] = cSandboxes[n]
           \/ (cSandboxes'[n] = sandboxes[n] /\ UNCHANGED <<sandboxes, born>>)
<1>1. cSandboxes \in [Names -> Sandbox]
  BY DEF LifecycleInv, ProtectionInv, TypeOK, CacheTypeOK
<1>2. \/ UNCHANGED cSandboxes
      \/ /\ UNCHANGED <<sandboxes, born>>
         /\ cSandboxes' = sandboxes
            \/ \E m \in Names : cSandboxes' = [cSandboxes EXCEPT ![m] = sandboxes[m]]
  BY ZenonT(60)
  DEF Next, User, Cluster, Informers, Controller, WorkerStep, CreateSandbox, DeleteSandbox,
     CreateTemplate, DeleteTemplate, WorkloadPhase, EvictWorkload, WorkloadGone,
     ChangeWorkload, CollectOrphans, RunOut, SyncSandbox, SyncTemplate, SyncWorkload, SyncDisks,
     FireTimer, Restart, Begin, BeginGone, BeginTerminating, BeginExpired, BeginWaiting,
     BeginManaging, Take, Expire, ProtectTemplate, ListDisks, CreateDisk, ReadWorkload,
     CreateWorkload, ReplaceWorkload, ReadStatus, FindWorkload, DeleteWorkload, ListOwned,
     DeleteDisk, UnprotectTemplate, DeletingWorkload, UpdateStatus, UpdateMeta,
     UnchangedButErrors, UnchangedButEvents, caches, api, world
<1>3. QED BY <1>1, <1>2

\* A reconcile takes the copy in the cache.
LEMMA BeginCopies ==
    ASSUME TypeOK, NEW n \in Names, Begin(n), w'.pc # "idle"
    PROVE  w'.name = n /\ w'.old = cSandboxes[n]
<1> DEFINE x == Reading(n)
<1>1. w.pc = "idle" /\ cSandboxes[n].uid # 0
  BY DEF Begin, BeginGone, BeginTerminating, BeginExpired, BeginWaiting, BeginManaging, Take, Live
<1>2. x \in Worker /\ x.old = cSandboxes[n] /\ x.name = n
  BY <1>1, ReadingTyped DEF TypeOK
<1> HIDE DEF x
<1>3. CASE BeginTerminating(n)
  <2> DEFINE y == [x EXCEPT !.new.cond = "Terminating"]
  <2>1. y \in Worker /\ y.name = n /\ y.old = cSandboxes[n]
    BY <1>2 DEF Worker, Conditions
  <2>2. w' \in {Unprotecting(y), Failing(y), [y EXCEPT !.pc = "findWorkload"]}
    BY <1>3 DEF BeginTerminating, x
  <2> HIDE DEF y
  <2>3. [y EXCEPT !.pc = "findWorkload"].name = n
        /\ [y EXCEPT !.pc = "findWorkload"].old = cSandboxes[n]
    BY <2>1 DEF Worker
  <2>4. QED BY <2>1, <2>2, <2>3, MovesOn, ReleaseKeeps
<1>4. CASE BeginExpired(n)
  BY <1>2, <1>4 DEF BeginExpired, x, Worker
<1>5. CASE BeginWaiting(n)
  BY <1>2, <1>5, MovesOn DEF BeginWaiting, x
<1>6. CASE BeginManaging(n)
  <2> DEFINE y == [x EXCEPT !.new.prot = TRUE]
  <2>1. y \in Worker /\ y.name = n /\ y.old = cSandboxes[n]
    BY <1>2 DEF Worker
  <2>2. w' \in {Creating(y), [y EXCEPT !.pc = "protect"]}
    BY <1>6 DEF BeginManaging, x
  <2> HIDE DEF y
  <2>3. [y EXCEPT !.pc = "protect"].name = n /\ [y EXCEPT !.pc = "protect"].old = cSandboxes[n]
    BY <2>1 DEF Worker
  <2>4. QED BY <2>1, <2>2, <2>3, MovesOn
<1>7. QED BY <1>1, <1>3, <1>4, <1>5, <1>6 DEF Begin, BeginGone

\* A worker that is busy after a step goes on with the copy it had, or has begun.
LEMMA WorkerCopies ==
    ASSUME LifecycleInv, Next, w'.pc # "idle"
    PROVE  \/ w.pc # "idle" /\ w'.name = w.name /\ w'.old = w.old
           \/ /\ UNCHANGED <<sandboxes, born>> /\ w'.pc \notin MakingSteps
              /\ w'.name \in Names /\ w'.old = cSandboxes[w'.name]
<1>1. CASE UNCHANGED w
  BY <1>1
<1>2. ASSUME NEW n \in Names, Begin(n), w' # w
      PROVE  /\ UNCHANGED <<sandboxes, born>> /\ w'.pc \notin MakingSteps
             /\ w'.name \in Names /\ w'.old = cSandboxes[w'.name]
  <2>1. UNCHANGED <<sandboxes, born>>
    BY <1>2 DEF Begin, BeginGone, BeginTerminating, BeginExpired, BeginWaiting, BeginManaging,
       Take, api, world
  <2>2. QED BY <1>2, <2>1, BeginCopies, BeginsBefore DEF LifecycleInv, ProtectionInv, BuildSteps
<1>3. CASE WorkerStep /\ ~UpdateStatus /\ ~UpdateMeta
  BY <1>3, WorkerCarries DEF LifecycleInv, ProtectionInv, Carries
<1>4. CASE UpdateStatus
  <2>1. w.pc # "idle" /\ w \in Worker
    BY <1>4, BusyTyped DEF UpdateStatus, LifecycleInv, ProtectionInv
  <2>2. w' = [w EXCEPT !.pc = "updateMeta", !.new.prot = @ \/ sandboxes[w.name].prot]
    BY <1>4, IdleTyped DEF UpdateStatus, Return
  <2>3. w'.name = w.name /\ w'.old = w.old
    BY <2>1, <2>2 DEF Worker
  <2>4. QED BY <2>1, <2>3
<1>5. CASE UpdateMeta \/ Restart
  BY <1>5, IdleTyped DEF UpdateMeta, Restart, Return
<1>6. CASE User \/ Cluster \/ Informers \/ \E n \in Names : FireTimer(n)
  <2>1. UNCHANGED w
    BY <1>6 DEF User, Cluster, Informers, CreateSandbox, DeleteSandbox, CreateTemplate,
       DeleteTemplate, WorkloadPhase, EvictWorkload, WorkloadGone, ChangeWorkload,
       CollectOrphans, RunOut, SyncSandbox, SyncTemplate, SyncWorkload, SyncDisks, FireTimer
  <2>2. QED BY <1>1, <2>1
<1>7. QED BY <1>1, <1>2, <1>3, <1>4, <1>5, <1>6 DEF Next, Controller, WorkerStep

-----------------------------------------------------------------------------
(* The invariant *)

\* What is held of a name is of an incarnation that was created.
LEMMA UidsBorn ==
    ASSUME LifecycleInv, NEW n \in Names
    PROVE  /\ born[n] \in Nat /\ sandboxes[n].uid \in Nat /\ cSandboxes[n].uid \in Nat
           /\ sandboxes[n].uid <= born[n] /\ cSandboxes[n].uid <= born[n]
           /\ w.pc # "idle" /\ w.name = n => w.old.uid \in Nat /\ w.old.uid <= born[n]
<1>1. born[n] \in Nat /\ sandboxes[n] \in Sandbox /\ cSandboxes[n] \in Sandbox
  BY Typed DEF LifecycleInv, ProtectionInv
<1>2. sandboxes[n].uid <= born[n] /\ cSandboxes[n].uid <= born[n]
  BY DEF LifecycleInv, ProtectionInv, NamesInv, ServerInv, CopyInv
<1>3. w.pc # "idle" /\ w.name = n => w.old \in Sandbox /\ w.old.uid <= born[n]
  BY KeyTyped DEF LifecycleInv, ProtectionInv, WorkerInv, CopyInv
<1>4. QED BY <1>1, <1>2, <1>3 DEF Sandbox

\* Nothing is made for an incarnation before it is created.
LEMMA UnbornKept ==
    ASSUME LifecycleInv, UnbornInv, Next PROVE UnbornInv'
<1> SUFFICES ASSUME NEW n \in Names, NEW i \in Incarnations, i > born'[n]
             PROVE  /\ disks'[<<n, i>>] = {} /\ cDisks'[<<n, i>>] = {}
                    /\ Present(<<n, i>>)' = {}
  BY DEF UnbornInv
<1> DEFINE k == <<n, i>>
<1>1. k \in Keys /\ i \in Nat /\ i > born[n]
  BY BornGrows DEF Keys, Incarnations
<1>2. disks[k] = {} /\ cDisks[k] = {} /\ Present(k) = {}
  BY <1>1 DEF UnbornInv
<1>3. w.pc # "idle" => k # Key
  BY <1>1, UidsBorn DEF Key
<1> HIDE DEF k
<1>4. disks'[k] = {} /\ cDisks'[k] = {}
  BY <1>1, <1>2, <1>3, DisksChange, CachedDisks
<1>5. ASSUME NEW t \in Present(k)' PROVE FALSE
  <2>1. t \in Types
    BY DEF Present
  <2>2. CreateWorkload /\ k = Key
    BY <1>1, <1>2, <2>1, WorkloadsAppear
  <2>3. QED BY <1>3, <2>2 DEF CreateWorkload
<1>6. QED BY <1>4, <1>5 DEF k

\* Whatever copy is taken or kept, it goes on showing the spec.
LEMMA SpecKept ==
    ASSUME LifecycleInv, SpecInv, Next PROVE SpecInv'
<1>1. ASSUME NEW n \in Names, Alive(n)', cSandboxes'[n].uid = sandboxes'[n].uid
      PROVE  cSandboxes'[n].inline = sandboxes'[n].inline
  <2>1. cSandboxes'[n].uid <= born[n] /\ born[n] \in Nat
    BY CachedSandboxes, UidsBorn
  <2>2. /\ Alive(n) /\ sandboxes'[n].uid = sandboxes[n].uid
        /\ sandboxes'[n].inline = sandboxes[n].inline
    BY <1>1, <2>1, AliveBefore DEF Survives
  <2>3. QED BY <1>1, <2>2, CachedSandboxes DEF SpecInv
<1>2. ASSUME w'.pc # "idle", Alive(w.name)', w'.old.uid = sandboxes'[w'.name].uid
      PROVE  w'.old.inline = sandboxes'[w'.name].inline
  <2>1. CASE w.pc # "idle" /\ w'.name = w.name /\ w'.old = w.old
    <3>1. w.name \in Names
      BY <2>1, KeyTyped DEF LifecycleInv, ProtectionInv
    <3>2. w.old.uid <= born[w.name] /\ born[w.name] \in Nat
      BY <2>1, <3>1, UidsBorn
    <3>3. Alive(w.name)' <=> sandboxes'[w.name].uid # 0 /\ ~sandboxes'[w.name].del
      BY <2>1 DEF Alive
    <3>4. /\ Alive(w.name) /\ sandboxes'[w.name].uid = sandboxes[w.name].uid
          /\ sandboxes'[w.name].inline = sandboxes[w.name].inline
      <4> DEFINE n == w.name
      <4>1. n \in Names /\ sandboxes'[n].uid # 0 /\ ~sandboxes'[n].del
        BY <1>2, <3>1, <3>3
      <4>2. \A m \in Names : sandboxes'[m].uid # 0 /\ ~sandboxes'[m].del => Survives(m)
        BY AliveBefore DEF Alive
      <4>3. Survives(n)
        BY <4>1, <4>2
      <4>4. QED BY <1>2, <2>1, <3>2, <4>3 DEF Survives
    <3>5. QED BY <1>2, <2>1, <3>4 DEF SpecInv
  <2>2. CASE /\ UNCHANGED <<sandboxes, born>> /\ w'.name \in Names
             /\ w'.old = cSandboxes[w'.name]
    <3>1. sandboxes[w'.name].uid # 0 /\ ~sandboxes[w'.name].del
      BY <1>2, <2>2 DEF Alive
    <3>2. QED BY <1>2, <2>2, <3>1 DEF SpecInv, Alive
  <2>3. QED BY <1>2, <2>1, <2>2, WorkerCopies
<1>3. QED BY <1>1, <1>2 DEF SpecInv

\* A list may be short of a disk, and never shows one that is not there.
LEMMA ListedKept ==
    ASSUME LifecycleInv, LifecycleInv', UnbornInv, ListedInv, Next PROVE ListedInv'
<1> SUFFICES ASSUME NEW n \in Names, Alive(n)'
             PROVE  cDisks'[KeyOf(n)'] \subseteq disks'[KeyOf(n)']
  BY DEF ListedInv
<1>1. CASE Alive(n) /\ sandboxes'[n].uid = sandboxes[n].uid
  <2>1. KeyOf(n)' = KeyOf(n)
    BY <1>1 DEF KeyOf
  <2>2. KeyOf(n) \in Keys /\ disks[KeyOf(n)] \subseteq disks'[KeyOf(n)]
    BY <1>1, DisksStay
  <2>3. cDisks[KeyOf(n)] \subseteq disks[KeyOf(n)]
    BY <1>1 DEF ListedInv
  <2>4. QED BY <2>1, <2>2, <2>3, CachedDisks
<1>2. CASE sandboxes'[n].uid = born[n] + 1
  <2> DEFINE i == born[n] + 1
  <2>1. i \in Incarnations /\ i > born[n] /\ <<n, i>> \in Keys
    <3>1. sandboxes'[n] \in Sandbox
      BY DEF LifecycleInv, ProtectionInv, TypeOK, ApiTypeOK
    <3>2. QED BY <1>2, <3>1, UidsBorn DEF Sandbox, Incarnations, Keys
  <2>2. cDisks[<<n, i>>] = {} /\ disks[<<n, i>>] = {}
    BY <2>1 DEF UnbornInv
  <2>3. cDisks'[<<n, i>>] = {}
    BY <2>1, <2>2, CachedDisks
  <2>4. QED BY <1>2, <2>3 DEF KeyOf
<1>3. QED BY <1>1, <1>2, AliveBefore DEF Survives

\* More disks do the making no harm.
LEMMA ProgressGrows ==
    ASSUME NEW x, NEW have, NEW more, have \subseteq more, Progress(x, have) PROVE Progress(x, more)
BY DEF Progress, MakingClass

\* The worker goes on to the workload only with all the disks.
LEMMA ProgressKept ==
    ASSUME LifecycleInv, SpecInv, ListedInv, ProgressInv, Next PROVE ProgressInv'
<1> SUFFICES ASSUME OnInline' PROVE Progress(w', disks'[Key'])
  BY DEF ProgressInv, Progress, MakingClass, Needed, OwnedDisks
<1>1. w'.pc # "idle" /\ w'.old.inline # NoSpec /\ w'.old.uid = sandboxes'[w'.name].uid
      /\ sandboxes'[w'.name].uid # 0 /\ ~sandboxes'[w'.name].del
  BY DEF OnInline, Alive
<1>2. CASE w'.pc \notin MakingSteps
  BY <1>2 DEF Progress, MakingSteps
<1>3. CASE w'.pc \in MakingSteps
  <2> DEFINE n == w.name
  <2>1. w.pc # "idle" /\ w'.name = w.name /\ w'.old = w.old
    BY <1>1, <1>3, WorkerCopies
  <2>2. n \in Names /\ w.old.uid <= born[n] /\ born[n] \in Nat
    BY <2>1, KeyTyped, UidsBorn DEF LifecycleInv, ProtectionInv
  <2>3. Survives(n)
    <3>1. \A m \in Names : sandboxes'[m].uid # 0 /\ ~sandboxes'[m].del => Survives(m)
      BY AliveBefore DEF Alive
    <3>2. QED BY <1>1, <2>1, <2>2, <3>1
  <2>4. Alive(n) /\ w.old.uid = sandboxes[n].uid
    BY <1>1, <2>1, <2>2, <2>3 DEF Survives
  <2>5. OnInline /\ Key' = Key /\ Key = KeyOf(n)
    BY <1>1, <2>1, <2>4 DEF OnInline, Key, KeyOf
  <2>6. Progress(w, disks[Key]) /\ disks[Key] \subseteq disks'[Key] /\ cDisks[Key] \subseteq disks[Key]
    BY <2>2, <2>4, <2>5, DisksStay DEF ProgressInv, ListedInv
  <2>7. TypeOK
    BY DEF LifecycleInv, ProtectionInv
  <2>8. CASE UNCHANGED w
    BY <2>5, <2>6, <2>8, ProgressGrows
  <2>9. CASE ListDisks
    <3>1. Progress(w', disks[Key])
      BY <2>5, <2>6, <2>7, <2>9, ListMakes
    <3>2. QED BY <2>5, <2>6, <3>1, ProgressGrows
  <2>10. CASE CreateDisk
    BY <2>5, <2>6, <2>7, <2>10, DiskMade
  <2>11. CASE WorkerStep /\ ~ListDisks /\ ~CreateDisk
    <3>1. w.pc = "readWorkload" /\ w'.pc = "createWorkload" /\ w'.new = w.new /\ w'.old = w.old
      BY <1>3, <2>7, <2>11, OtherSteps DEF BuildSteps
    <3>2. Progress(w', disks[Key])
      BY <2>6, <3>1 DEF Progress
    <3>3. QED BY <2>5, <2>6, <3>2, ProgressGrows
  <2>12. CASE Restart
    BY <1>1, <2>12, IdleTyped DEF Restart
  <2>13. ASSUME NEW m \in Names, Begin(m) PROVE UNCHANGED w
    BY <2>1, <2>13 DEF Begin, BeginGone, BeginTerminating, BeginExpired, BeginWaiting,
       BeginManaging, Take
  <2>14. User \/ Cluster \/ Informers \/ (\E m \in Names : FireTimer(m)) => UNCHANGED w
    BY DEF User, Cluster, Informers, CreateSandbox, DeleteSandbox, CreateTemplate,
       DeleteTemplate, WorkloadPhase, EvictWorkload, WorkloadGone, ChangeWorkload,
       CollectOrphans, RunOut, SyncSandbox, SyncTemplate, SyncWorkload, SyncDisks, FireTimer
  <2>15. QED BY <2>8, <2>9, <2>10, <2>11, <2>12, <2>13, <2>14 DEF Next, Controller
<1>4. QED BY <1>2, <1>3

\* So a workload that appears stands on its disks, and no disk goes from under it.
LEMMA BackedKept ==
    ASSUME LifecycleInv, LifecycleInv', UnbornInv, SpecInv, ProgressInv, DisksBackWorkload, Next
    PROVE  DisksBackWorkload'
<1> SUFFICES ASSUME NEW n \in Names, Alive(n)', sandboxes'[n].inline # NoSpec,
                    NEW t \in Present(KeyOf(n))'
             PROVE  OwnedDisks(t, sandboxes'[n].inline.disks) \subseteq disks'[KeyOf(n)']
  BY DEF DisksBackWorkload, OwnedDisks
<1>0. t \in Types
  BY DEF Present
<1>1. CASE /\ Alive(n) /\ sandboxes'[n].uid = sandboxes[n].uid
           /\ sandboxes'[n].inline = sandboxes[n].inline
  <2>1. PICK k \in Keys : KeyOf(n)' = k /\ KeyOf(n) = k /\ disks[k] \subseteq disks'[k]
    BY <1>1, DisksStay DEF KeyOf
  <2>2. t \in Present(k)'
    BY <2>1 DEF Present
  <2>3. CASE t \in Present(k)
    BY <1>1, <2>1, <2>3 DEF DisksBackWorkload
  <2>4. CASE t \notin Present(k)
    <3>1. CreateWorkload /\ k = Key /\ t = Type_
      BY <1>0, <2>1, <2>2, <2>4, WorkloadsAppear
    <3>2. w.pc = "createWorkload" /\ w.name = n /\ w.old.uid = sandboxes[n].uid
      BY <2>1, <3>1 DEF CreateWorkload, Key, KeyOf
    <3>3. w.old.inline = sandboxes[n].inline
      BY <1>1, <3>2 DEF SpecInv
    <3>4. Progress(w, disks[Key])
      BY <1>1, <3>2, <3>3 DEF ProgressInv, OnInline
    <3>5. OwnedDisks(t, sandboxes[n].inline.disks) \subseteq disks[k]
      BY <3>1, <3>2, <3>3, <3>4 DEF Progress, Needed, Type_
    <3>6. QED BY <1>1, <2>1, <3>5
  <2>5. QED BY <2>3, <2>4
<1>2. CASE sandboxes'[n].uid = born[n] + 1 /\ born'[n] = born[n] + 1
  <2>1. PICK i \in Incarnations : i = born[n] + 1 /\ i > born[n] /\ KeyOf(n)' = <<n, i>>
    <3>1. sandboxes'[n] \in Sandbox
      BY DEF LifecycleInv, ProtectionInv, TypeOK, ApiTypeOK
    <3>2. born[n] + 1 \in Incarnations /\ born[n] + 1 > born[n]
      BY <1>2, <3>1, UidsBorn DEF Sandbox, Incarnations
    <3>3. QED BY <1>2, <3>2 DEF KeyOf
  <2> DEFINE k == <<n, i>>
  <2>2. Present(k) = {} /\ (w.pc # "idle" => k # Key) /\ k \in Keys
    BY <2>1, UidsBorn DEF UnbornInv, Key, Keys
  <2>3. t \in Present(k)'
    BY <2>1 DEF Present
  <2> HIDE DEF k
  <2>4. CreateWorkload /\ k = Key
    BY <1>0, <2>2, <2>3, WorkloadsAppear
  <2>5. QED BY <2>2, <2>4 DEF CreateWorkload
<1>3. QED BY <1>1, <1>2, AliveBefore DEF Survives

LEMMA DisksInvariant == Spec => []DisksInv
<1>1. Init => DisksInv
  <2> SUFFICES ASSUME Init PROVE DisksInv
    OBVIOUS
  <2>1. \A n \in Names : sandboxes[n].uid = 0
    BY DEF Init, NoSandbox
  <2>2. w.pc = "idle"
    BY IdleTyped DEF Init
  <2>3. \A k \in Keys : disks[k] = {} /\ cDisks[k] = {} /\ Present(k) = {}
    BY DEF Init, Present, NoWorkload
  <2>4. \A n \in Names, i \in Incarnations : <<n, i>> \in Keys
    BY DEF Keys
  <2>5. UnbornInv
    BY <2>3, <2>4 DEF UnbornInv
  <2>6. QED BY <2>1, <2>2, <2>5
        DEF DisksInv, SpecInv, ListedInv, ProgressInv, OnInline, DisksBackWorkload, Alive
<1>2. DisksInv /\ LifecycleInv /\ LifecycleInv' /\ [Next]_vars => DisksInv'
  <2> SUFFICES ASSUME DisksInv, LifecycleInv, LifecycleInv', [Next]_vars PROVE DisksInv'
    OBVIOUS
  <2>1. CASE Next
    BY <2>1, UnbornKept, SpecKept, ListedKept, ProgressKept, BackedKept DEF DisksInv
  <2>2. CASE UNCHANGED vars
    <3>1. UNCHANGED <<sandboxes, workloads, disks, cSandboxes, cDisks, w, born>>
      BY <2>2 DEF vars, api, caches, world
    <3>2. UnbornInv' /\ DisksBackWorkload'
      BY <3>1 DEF DisksInv, UnbornInv, DisksBackWorkload, OwnedDisks, Alive, KeyOf, Present
    <3>3. SpecInv' /\ ListedInv'
      BY <3>1 DEF DisksInv, SpecInv, ListedInv, Alive, KeyOf
    <3>4. ProgressInv'
      BY <3>1 DEF DisksInv, ProgressInv, OnInline, Progress, MakingClass, Needed, OwnedDisks,
         Alive, Key
    <3>5. QED BY <3>2, <3>3, <3>4 DEF DisksInv
  <2>3. QED BY <2>1, <2>2
<1>3. QED BY <1>1, <1>2, LifecycleInvariant, PTL DEF Spec

\* With an inline spec, whatever is stale, fails, is answered too late or restarted: a
\* workload never runs without one of the disks it was to be given (volumes before
\* workloads in the Create of each sandboxer).
THEOREM DisksBack == Spec => []DisksBackWorkload
<1>1. DisksInv => DisksBackWorkload
  BY DEF DisksInv
<1>2. QED BY <1>1, DisksInvariant, PTL

-----------------------------------------------------------------------------
(* A template and its first user *)

Guarded(t) == templates[t].there /\ templates[t].prot

\* A sandbox has one spec, and every copy of it shows the template it names.
NamingInv ==
    /\ \A n \in Names : sandboxes[n].tmpl # NoTemplate => sandboxes[n].inline = NoSpec
    /\ \A n \in Names : sandboxes[n].uid # 0 /\ cSandboxes[n].uid = sandboxes[n].uid
                        => cSandboxes[n].tmpl = sandboxes[n].tmpl
    /\ w.pc # "idle" /\ w.old.uid = sandboxes[w.name].uid
       => w.old.tmpl = sandboxes[w.name].tmpl

\* A template that is not there has nothing to show.
AbsentInv ==
    \A t \in Templates : /\ ~templates[t].there => templates[t] = NoTemplateObj
                         /\ ~cTemplates[t].there => cTemplates[t] = NoTemplateObj

\* What makes the worker go on to the children of n without protecting the template, or
\* shows that it did: the cache has the finalizer, it is past that step, they are there.
Past(n, t) ==
    cTemplates[t].prot \/ (w.pc \in BuildSteps /\ w.name = n) \/ Present(KeyOf(n)) # {}

\* Nobody protects a template before its first user, and no one goes past its protection.
GuardInv ==
    NoneGone => \A t \in Templates :
        /\ Users(t) = {} => ~templates[t].prot /\ ~cTemplates[t].prot
        /\ \A n \in Names : Users(t) = {n} /\ Alive(n) /\ Past(n, t) => Guarded(t)

UsersInv == NamingInv /\ AbsentInv /\ GuardInv

\* A template loses or gets the finalizer by the worker's patch only.
LEMMA TemplateFate ==
    ASSUME LifecycleInv, Next, NEW t \in Templates
    PROVE  /\ ~templates'[t].there => templates'[t] \in {templates[t], NoTemplateObj}
           /\ Guarded(t) /\ ~Guarded(t)' => w.pc = "unprotect" /\ w.old.tmpl = t
           /\ templates'[t].prot /\ ~templates[t].prot => w.pc = "protect" /\ w.old.tmpl = t
           /\ cTemplates'[t] \in {cTemplates[t], templates[t]}
<1>1. templates \in [Templates -> Template] /\ cTemplates \in [Templates -> Template]
  BY DEF LifecycleInv, ProtectionInv, TypeOK, ApiTypeOK, CacheTypeOK
<1>2. /\ ~NoTemplateObj.there /\ ~NoTemplateObj.prot
      /\ \A x \in Template : /\ [x EXCEPT !.del = TRUE].there = x.there
                             /\ [x EXCEPT !.del = TRUE].prot = x.prot
      /\ \A spec : /\ [NoTemplateObj EXCEPT !.there = TRUE, !.spec = spec].there
                   /\ ~[NoTemplateObj EXCEPT !.there = TRUE, !.spec = spec].prot
  BY DEF NoTemplateObj, Template
<1>3. /\ UNCHANGED cTemplates \/ cTemplates' = templates
         \/ \E u \in Templates : cTemplates' = [cTemplates EXCEPT ![u] = templates[u]]
  BY ZenonT(60)
  DEF Next, User, Cluster, Informers, Controller, WorkerStep, CreateSandbox, DeleteSandbox,
     CreateTemplate, DeleteTemplate, WorkloadPhase, EvictWorkload, WorkloadGone,
     ChangeWorkload, CollectOrphans, RunOut, SyncSandbox, SyncTemplate, SyncWorkload, SyncDisks,
     FireTimer, Restart, Begin, BeginGone, BeginTerminating, BeginExpired, BeginWaiting,
     BeginManaging, Take, Expire, ProtectTemplate, ListDisks, CreateDisk, ReadWorkload,
     CreateWorkload, ReplaceWorkload, ReadStatus, FindWorkload, DeleteWorkload, ListOwned,
     DeleteDisk, UnprotectTemplate, DeletingWorkload, UpdateStatus, UpdateMeta,
     UnchangedButErrors, UnchangedButEvents, caches
<1>4. cTemplates'[t] \in {cTemplates[t], templates[t]}
  BY <1>1, <1>3
<1>5. \/ UNCHANGED templates
      \/ \E u \in Templates : CreateTemplate(u) \/ DeleteTemplate(u)
      \/ ProtectTemplate \/ UnprotectTemplate
  BY DEF Next, User, Cluster, Informers, Controller, WorkerStep, CreateSandbox, DeleteSandbox,
     WorkloadPhase, EvictWorkload, WorkloadGone,
     ChangeWorkload, CollectOrphans, RunOut, SyncSandbox, SyncTemplate, SyncWorkload, SyncDisks,
     FireTimer, Restart, Begin, BeginGone, BeginTerminating, BeginExpired, BeginWaiting,
     BeginManaging, Take, Expire, ListDisks, CreateDisk, ReadWorkload,
     CreateWorkload, ReplaceWorkload, ReadStatus, FindWorkload, DeleteWorkload, ListOwned,
     DeleteDisk, DeletingWorkload, UpdateStatus, UpdateMeta, api
<1>6. CASE UNCHANGED templates
  BY <1>4, <1>6 DEF Guarded
<1>7. ASSUME NEW u \in Templates, CreateTemplate(u)
      PROVE  /\ ~templates'[t].there => templates'[t] = templates[t]
             /\ Guarded(t) => Guarded(t)'
             /\ templates'[t].prot => templates[t].prot
  <2>1. PICK x : templates' = [templates EXCEPT ![u] = x] /\ x.there /\ ~x.prot
    BY <1>2, <1>7 DEF CreateTemplate
  <2>2. ~templates[u].there
    BY <1>7 DEF CreateTemplate
  <2>3. QED BY <1>1, <2>1, <2>2 DEF Guarded
<1>8. ASSUME NEW u \in Templates, DeleteTemplate(u)
      PROVE  /\ ~templates'[t].there => templates'[t] \in {templates[t], NoTemplateObj}
             /\ Guarded(t) => Guarded(t)'
             /\ templates'[t].prot => templates[t].prot
  <2>1. templates' = [templates EXCEPT ![u] = Deleted(templates[u], NoTemplateObj)]
        /\ templates[u].there
    BY <1>8 DEF DeleteTemplate
  <2>2. Deleted(templates[u], NoTemplateObj)
        = IF templates[u].prot THEN [templates[u] EXCEPT !.del = TRUE] ELSE NoTemplateObj
    BY DEF Deleted
  <2>3. CASE t = u
    BY <1>1, <1>2, <2>1, <2>2, <2>3 DEF Guarded
  <2>4. CASE t # u
    BY <1>1, <2>1, <2>4 DEF Guarded
  <2>5. QED BY <2>3, <2>4
<1>9. CASE ProtectTemplate /\ ~UNCHANGED templates
  <2> DEFINE u == w.old.tmpl
  <2>1. /\ w.pc = "protect" /\ templates[u].there
        /\ templates' = [templates EXCEPT ![u] = Patched(templates[u], TRUE, NoTemplateObj)]
    BY <1>9 DEF ProtectTemplate
  <2>2. u \in Templates
    BY <2>1, BusyTyped DEF Holding, TemplateSteps, LifecycleInv, ProtectionInv
  <2>3. Patched(templates[u], TRUE, NoTemplateObj) = [templates[u] EXCEPT !.prot = TRUE]
    BY DEF Patched
  <2> HIDE DEF u
  <2>4. CASE t = u
    <3>1. [templates[u] EXCEPT !.prot = TRUE].there = templates[u].there
          /\ [templates[u] EXCEPT !.prot = TRUE].prot
      BY <1>1, <2>2 DEF Template
    <3>2. templates'[t].there /\ templates'[t].prot
      BY <1>1, <2>1, <2>2, <2>3, <2>4, <3>1
    <3>3. QED BY <1>4, <2>1, <2>4, <3>2 DEF Guarded, u
  <2>5. CASE t # u
    BY <1>1, <1>4, <2>1, <2>2, <2>5 DEF Guarded
  <2>6. QED BY <2>4, <2>5
<1>10. CASE UnprotectTemplate /\ ~UNCHANGED templates
  <2> DEFINE u == w.old.tmpl
  <2>1. /\ w.pc = "unprotect" /\ templates[u].there
        /\ templates' = [templates EXCEPT ![u] = Patched(templates[u], FALSE, NoTemplateObj)]
    BY <1>10 DEF UnprotectTemplate
  <2>2. u \in Templates
    BY <2>1, BusyTyped DEF Holding, TemplateSteps, LifecycleInv, ProtectionInv
  <2>3. Patched(templates[u], FALSE, NoTemplateObj)
        = IF templates[u].del THEN NoTemplateObj ELSE [templates[u] EXCEPT !.prot = FALSE]
    BY DEF Patched
  <2> HIDE DEF u
  <2>4. CASE t = u
    <3>1. [templates[u] EXCEPT !.prot = FALSE].there = templates[u].there
          /\ ~[templates[u] EXCEPT !.prot = FALSE].prot
      BY <1>1, <2>2 DEF Template
    <3>2. /\ ~templates'[t].there => templates'[t] = NoTemplateObj
          /\ ~templates'[t].prot
      BY <1>1, <1>2, <2>1, <2>2, <2>3, <2>4, <3>1
    <3>3. QED BY <1>4, <2>1, <2>4, <3>2 DEF u
  <2>5. CASE t # u
    BY <1>1, <1>4, <2>1, <2>2, <2>5 DEF Guarded
  <2>6. QED BY <2>4, <2>5
<1>11. QED BY <1>4, <1>5, <1>6, <1>7, <1>8, <1>9, <1>10

\* Building goes on from building, or from the patch of the template, or is where a
\* reconcile begins.
LEMMA BuildingBegins ==
    ASSUME LifecycleInv, Next, w'.pc \in BuildSteps
    PROVE  \/ w.pc \in BuildSteps /\ w'.name = w.name
           \/ ProtectTemplate /\ w' = Creating(w) /\ w'.name = w.name
           \/ BeginManaging(w'.name) /\ w'.pc = "listDisks"
<1>1. TypeOK /\ WorkerInv /\ w'.pc # "idle"
  BY DEF LifecycleInv, ProtectionInv, BuildSteps, MakingSteps
<1>2. CASE UNCHANGED w
  BY <1>2
<1>3. ASSUME NEW n \in Names, Begin(n), w' # w
      PROVE  BeginManaging(w'.name) /\ w'.pc = "listDisks"
  BY <1>1, <1>3, BeginsBefore, BeginCopies DEF BuildSteps
<1>4. CASE WorkerStep /\ ~UpdateStatus /\ ~UpdateMeta
  <2>1. w'.name = w.name
    BY <1>1, <1>4, WorkerCarries DEF Carries
  <2>2. ListDisks \/ CreateDisk => w.pc \in BuildSteps
    BY DEF ListDisks, CreateDisk, BuildSteps, MakingSteps
  <2>3. QED BY <1>1, <1>4, <2>1, <2>2, OtherSteps DEF BuildSteps, MakingSteps
<1>5. CASE UpdateStatus \/ UpdateMeta
  <2>1. w.pc \notin BuildSteps /\ ~ProtectTemplate /\ ~ListDisks /\ ~CreateDisk
    BY <1>5 DEF UpdateStatus, UpdateMeta, ProtectTemplate, ListDisks, CreateDisk, BuildSteps,
       MakingSteps
  <2>2. QED BY <1>1, <1>5, <2>1, OtherSteps DEF WorkerStep, BuildSteps, MakingSteps
<1>6. CASE Restart
  BY <1>1, <1>6, IdleTyped DEF Restart
<1>7. CASE User \/ Cluster \/ Informers \/ \E n \in Names : FireTimer(n)
  <2>1. UNCHANGED w
    BY <1>7 DEF User, Cluster, Informers, CreateSandbox, DeleteSandbox, CreateTemplate,
       DeleteTemplate, WorkloadPhase, EvictWorkload, WorkloadGone, ChangeWorkload,
       CollectOrphans, RunOut, SyncSandbox, SyncTemplate, SyncWorkload, SyncDisks, FireTimer
  <2>2. QED BY <1>2, <2>1
<1>8. QED BY <1>2, <1>3, <1>4, <1>5, <1>6, <1>7 DEF Next, Controller

\* As long as no sandbox is gone, what the worker holds is what is there.
LEMMA HeldIsThere ==
    ASSUME LifecycleInv, NamingInv, NoneGone, w.pc # "idle"
    PROVE  /\ w.name \in Names /\ w.old.uid = sandboxes[w.name].uid /\ w.old.uid # 0
           /\ w.old.tmpl = sandboxes[w.name].tmpl
<1>1. w.name \in Names /\ w.old.uid # 0
  BY BusyTyped DEF Holding, LifecycleInv, ProtectionInv
<1>2. w.old.uid \in Nat /\ w.old.uid <= born[w.name] /\ born[w.name] \in Nat
  BY <1>1, UidsBorn
<1>3. born[w.name] <= 1 /\ sandboxes[w.name].uid = born[w.name]
  BY <1>1 DEF NoneGone
<1>4. w.old.uid = sandboxes[w.name].uid
  BY <1>1, <1>2, <1>3
<1>5. QED BY <1>1, <1>4 DEF NamingInv

\* As long as no sandbox is gone, users only come, each as the first of its name.
LEMMA UsersCome ==
    ASSUME LifecycleInv, Next, NoneGone', NEW t \in Templates
    PROVE  /\ NoneGone /\ Users(t) \subseteq Users(t)'
           /\ \A n \in Users(t)' \ Users(t) :
                /\ born[n] = 0 /\ sandboxes'[n].uid = 1
                /\ UNCHANGED <<templates, workloads, cSandboxes, cTemplates, w>>
<1>1. ASSUME NEW n \in Names
      PROVE  /\ born[n] <= 1 /\ sandboxes[n].uid = born[n]
             /\ n \in Users(t) => n \in Users(t)'
             /\ n \in Users(t)' \ Users(t) =>
                  /\ born[n] = 0 /\ sandboxes'[n].uid = 1
                  /\ UNCHANGED <<templates, workloads, cSandboxes, cTemplates, w>>
  <2>1. born'[n] <= 1 /\ sandboxes'[n].uid = born'[n]
    BY DEF NoneGone
  <2>2. born[n] \in Nat /\ sandboxes[n].uid \in Nat /\ sandboxes[n].uid <= born[n]
    BY UidsBorn
  <2>3. NoSandbox.uid = 0
    BY DEF NoSandbox
  <2>4. /\ n \in Users(t) <=> sandboxes[n].uid # 0 /\ sandboxes[n].tmpl = t
        /\ n \in Users(t)' <=> sandboxes'[n].uid # 0 /\ sandboxes'[n].tmpl = t
    BY DEF Users
  <2>5. Fate(n)
    BY SandboxFate
  <2>6. QED BY <2>1, <2>2, <2>3, <2>4, <2>5 DEF Fate
<1>2. Users(t) \subseteq Names /\ Users(t)' \subseteq Names
  BY DEF Users
<1>3. QED BY <1>1, <1>2 DEF NoneGone

\* What is read of a sandbox and kept goes on showing what it names.
LEMMA NamingKept ==
    ASSUME LifecycleInv, LifecycleInv', NamingInv, Next PROVE NamingInv'
<1>1. NoSandbox.uid = 0 /\ NoSandbox.tmpl = NoTemplate
  BY DEF NoSandbox
<1>2. ASSUME NEW n \in Names, sandboxes'[n].tmpl # NoTemplate PROVE sandboxes'[n].inline = NoSpec
  BY <1>1, <1>2, SandboxFate DEF Fate, NamingInv
<1>3. ASSUME NEW n \in Names, sandboxes'[n].uid # 0, cSandboxes'[n].uid = sandboxes'[n].uid
      PROVE  cSandboxes'[n].tmpl = sandboxes'[n].tmpl
  BY <1>1, <1>3, SandboxFate, CachedSandboxes, UidsBorn DEF Fate, NamingInv
<1>4. ASSUME w'.pc # "idle", w'.old.uid = sandboxes'[w'.name].uid
      PROVE  w'.old.tmpl = sandboxes'[w'.name].tmpl
  <2>1. w'.name \in Names /\ w'.old.uid # 0
    <3>1. WorkerTypeOK'
      BY DEF LifecycleInv, ProtectionInv, TypeOK
    <3>2. QED BY <1>4, <3>1 DEF WorkerTypeOK, Holding
  <2>2. CASE w.pc # "idle" /\ w'.name = w.name /\ w'.old = w.old
    <3>1. PICK n \in Names : n = w.name
      BY <2>1, <2>2
    <3>2. w.old.uid \in Nat /\ w.old.uid <= born[n] /\ born[n] \in Nat
      BY <2>2, <3>1, UidsBorn
    <3>3. Fate(n)
      BY SandboxFate
    <3>4. w.old.uid = sandboxes[n].uid /\ sandboxes'[n].tmpl = sandboxes[n].tmpl
      BY <1>1, <1>4, <2>1, <2>2, <3>1, <3>2, <3>3 DEF Fate
    <3>5. QED BY <2>2, <3>1, <3>4 DEF NamingInv
  <2>3. CASE UNCHANGED sandboxes /\ w'.old = cSandboxes[w'.name]
    BY <1>4, <2>1, <2>3 DEF NamingInv
  <2>4. QED BY <1>4, <2>2, <2>3, WorkerCopies
<1>5. QED BY <1>2, <1>3, <1>4 DEF NamingInv

LEMMA AbsentKept ==
    ASSUME LifecycleInv, AbsentInv, Next PROVE AbsentInv'
<1>1. ~NoTemplateObj.there
  BY DEF NoTemplateObj
<1>2. ASSUME NEW t \in Templates
      PROVE  /\ ~templates'[t].there => templates'[t] = NoTemplateObj
             /\ ~cTemplates'[t].there => cTemplates'[t] = NoTemplateObj
  BY <1>1, TemplateFate DEF AbsentInv
<1>3. QED BY <1>2 DEF AbsentInv

\* A reconcile goes straight to the children of a template's sandbox only when the cache
\* shows that the template is protected.
LEMMA ManagesProtected ==
    ASSUME LifecycleInv, AbsentInv, NEW n \in Names, BeginManaging(n), w'.pc = "listDisks",
           cSandboxes[n].inline = NoSpec, cSandboxes[n].tmpl \in Templates
    PROVE  cTemplates[cSandboxes[n].tmpl].prot
<1> DEFINE copy == cSandboxes[n]
           t == copy.tmpl
           x == Reading(n)
           y == [x EXCEPT !.new.prot = TRUE]
<1>1. ~Unusable(copy, TemplateFor(copy)) /\ Live(n)
      /\ w' = IF y.tmpl.there /\ ~y.tmpl.prot THEN [y EXCEPT !.pc = "protect"] ELSE Creating(y)
  BY DEF BeginManaging
<1>2. x \in Worker /\ x.tmpl = TemplateFor(copy)
  BY <1>1, ReadingTyped DEF Live, Reading, LifecycleInv, ProtectionInv, TypeOK
<1>3. y \in Worker /\ y.tmpl = TemplateFor(copy)
  BY <1>2 DEF Worker
<1>4. TemplateFor(copy) = cTemplates[t]
  BY ConstantsAssumption DEF TemplateFor
<1>5. cTemplates[t].there
  <2>1. cTemplates[t].spec # NoSpec
    BY <1>1, <1>4 DEF Unusable, SpecFor
  <2>2. QED BY <2>1 DEF AbsentInv, NoTemplateObj
<1> HIDE DEF y, x
<1>6. [y EXCEPT !.pc = "protect"].pc = "protect"
  BY <1>3 DEF Worker
<1>7. cTemplates[t].prot \in BOOLEAN
  BY DEF LifecycleInv, ProtectionInv, TypeOK, CacheTypeOK, Template
<1>8. QED BY <1>1, <1>3, <1>4, <1>5, <1>6, <1>7

\* The worker's patch takes the finalizer from no template whose only user is alive.
LEMMA ReleasesOwn ==
    ASSUME LifecycleInv, NamingInv, NoneGone, NEW t \in Templates, NEW n \in Names,
           Users(t) = {n}, Alive(n), w.pc = "unprotect", w.old.tmpl = t
    PROVE  FALSE
<1>1. /\ w.name \in Names /\ w.old.uid = sandboxes[w.name].uid /\ w.old.uid # 0
      /\ sandboxes[w.name].tmpl = t
  BY HeldIsThere
<1>2. w.name = n
  BY <1>1 DEF Users
<1>3. KeyOf(n) = Key
  BY <1>1, <1>2 DEF KeyOf, Key
<1>4. QED BY <1>3, DeletesNoLiving DEF ReleasingSteps

\* Whatever takes the worker past the protection of the template, finds or puts the
\* finalizer there.
LEMMA PastProtected ==
    ASSUME LifecycleInv, SpecInv, UsersInv, NoneGone, Next, NEW t \in Templates, NEW n \in Names,
           Users(t) = {n}, Alive(n), sandboxes'[n].uid = sandboxes[n].uid, Past(n, t)'
    PROVE  Guarded(t) \/ Guarded(t)'
<1>1. Past(n, t) => Guarded(t)
  BY DEF UsersInv, GuardInv
<1>2. sandboxes[n].uid # 0 /\ sandboxes[n].tmpl = t /\ KeyOf(n)' = KeyOf(n) /\ KeyOf(n) \in Keys
  <2>1. KeyOf(n) \in Keys
    BY DisksStay
  <2>2. QED BY <2>1 DEF Users, KeyOf
<1>3. CASE cTemplates'[t].prot
  <2>1. cTemplates[t].prot \/ templates[t].prot
    BY <1>3, TemplateFate
  <2>2. templates[t].prot => Guarded(t)
    BY DEF Guarded, UsersInv, AbsentInv, NoTemplateObj
  <2>3. QED BY <1>1, <2>1, <2>2 DEF Past
<1>4. CASE w'.pc \in BuildSteps /\ w'.name = n
  <2>1. CASE w.pc \in BuildSteps /\ w.name = n
    BY <1>1, <2>1 DEF Past
  <2>2. CASE ProtectTemplate /\ w' = Creating(w) /\ w.name = n
    <3>1. w.pc = "protect" /\ w \in Worker
      BY <2>2, BusyTyped DEF ProtectTemplate, LifecycleInv, ProtectionInv
    <3>2. w.old.tmpl = t
      BY <1>2, <2>2, <3>1, HeldIsThere DEF UsersInv
    <3>3. Failing(w).pc \notin BuildSteps
      BY <3>1, TurnsAway
    <3>4. /\ templates[t].there
          /\ templates' = [templates EXCEPT ![t] = Patched(templates[t], TRUE, NoTemplateObj)]
      BY <1>4, <2>2, <3>2, <3>3 DEF ProtectTemplate, NotApplied
    <3>5. templates \in [Templates -> Template]
      BY DEF LifecycleInv, ProtectionInv, TypeOK, ApiTypeOK
    <3>6. templates'[t] = [templates[t] EXCEPT !.prot = TRUE]
      BY <3>4, <3>5 DEF Patched
    <3>7. templates'[t].there /\ templates'[t].prot
      BY <3>4, <3>5, <3>6 DEF Template
    <3>8. QED BY <3>7 DEF Guarded
  <2>3. CASE BeginManaging(n) /\ w'.pc = "listDisks"
    <3>1. cSandboxes[n].uid = sandboxes[n].uid
      <4>1. cSandboxes[n].uid # 0
        BY <2>3 DEF BeginManaging, Live
      <4>2. QED BY <4>1, UidsBorn DEF NoneGone
    <3>2. cSandboxes[n].tmpl = t /\ cSandboxes[n].inline = NoSpec
      <4>1. t # NoTemplate
        BY ConstantsAssumption
      <4>2. sandboxes[n].inline = NoSpec
        BY <1>2, <4>1 DEF UsersInv, NamingInv
      <4>3. QED BY <1>2, <3>1, <4>2 DEF UsersInv, NamingInv, SpecInv
    <3>3. cTemplates[t].prot
      BY <2>3, <3>2, ManagesProtected DEF UsersInv
    <3>4. QED BY <1>1, <3>3 DEF Past
  <2>4. QED BY <1>4, <2>1, <2>2, <2>3, BuildingBegins
<1>5. ASSUME NEW u \in Present(KeyOf(n))' PROVE Guarded(t)
  <2>1. PICK k \in Keys : KeyOf(n) = k /\ KeyOf(n)' = k
    BY <1>2
  <2>2. u \in Types /\ u \in Present(k)'
    BY <2>1 DEF Present
  <2>3. CASE u \in Present(k)
    BY <1>1, <2>1, <2>3 DEF Past
  <2>4. CASE u \notin Present(k)
    <3>1. w.pc = "createWorkload" /\ k = Key
      BY <2>2, <2>4, WorkloadsAppear DEF CreateWorkload
    <3>2. w.name = n
      BY <2>1, <3>1 DEF Key, KeyOf
    <3>3. QED BY <1>1, <3>1, <3>2 DEF Past, BuildSteps, MakingSteps
  <2>5. QED BY <2>3, <2>4
<1>6. QED BY <1>3, <1>4, <1>5 DEF Past

LEMMA GuardKept ==
    ASSUME LifecycleInv, UnbornInv, SpecInv, UsersInv, Next PROVE GuardInv'
<1> SUFFICES ASSUME NoneGone', NEW t \in Templates
             PROVE  /\ Users(t)' = {} => ~templates'[t].prot /\ ~cTemplates'[t].prot
                    /\ \A n \in Names : Users(t)' = {n} /\ Alive(n)' /\ Past(n, t)' => Guarded(t)'
  BY DEF GuardInv
<1>1. NoneGone /\ Users(t) \subseteq Users(t)' /\ GuardInv /\ NamingInv
  BY UsersCome DEF UsersInv
<1>2. ASSUME Users(t)' = {} PROVE ~templates'[t].prot /\ ~cTemplates'[t].prot
  <2>1. Users(t) = {} /\ ~templates[t].prot /\ ~cTemplates[t].prot
    BY <1>1, <1>2 DEF GuardInv
  <2>2. ~cTemplates'[t].prot
    BY <2>1, TemplateFate
  <2>3. ASSUME w.pc = "protect", w.old.tmpl = t PROVE FALSE
    <3>1. w.name \in Users(t)
      BY <1>1, <2>3, HeldIsThere DEF Users
    <3>2. QED BY <2>1, <3>1
  <2>4. QED BY <2>1, <2>2, <2>3, TemplateFate
<1>3. ASSUME NEW n \in Names, Users(t)' = {n}, Alive(n)', Past(n, t)' PROVE Guarded(t)'
  <2>1. CASE Users(t) = {n}
    <3>1. sandboxes[n].uid # 0 /\ sandboxes'[n].uid # 0
      BY <1>3, <2>1 DEF Users, Alive
    <3>2. Alive(n) /\ sandboxes'[n].uid = sandboxes[n].uid
      BY <1>3, <3>1, SandboxFate DEF Fate, Alive, NoSandbox
    <3>3. Guarded(t) \/ Guarded(t)'
      BY <1>1, <1>3, <2>1, <3>2, PastProtected
    <3>4. ~(w.pc = "unprotect" /\ w.old.tmpl = t)
      BY <1>1, <2>1, <3>2, ReleasesOwn
    <3>5. QED BY <3>3, <3>4, TemplateFate
  <2>2. CASE Users(t) = {}
    <3>1. /\ born[n] = 0 /\ sandboxes'[n].uid = 1
          /\ UNCHANGED <<templates, workloads, cSandboxes, cTemplates, w>>
      BY <1>3, <2>2, UsersCome
    <3>2. ~cTemplates'[t].prot
      BY <1>1, <2>2, <3>1 DEF GuardInv
    <3>3. ~(w'.pc \in BuildSteps /\ w'.name = n)
      <4>1. w.pc \in BuildSteps /\ w.name = n => w.old.uid # 0 /\ w.old.uid \in Nat /\ w.old.uid <= 0
        BY <3>1, UidsBorn, BusyTyped
        DEF Holding, BuildSteps, MakingSteps, LifecycleInv, ProtectionInv
      <4>2. QED BY <3>1, <4>1
    <3>4. Present(KeyOf(n))' = {}
      <4>1. KeyOf(n)' = <<n, 1>> /\ 1 \in Incarnations /\ 1 > born[n]
        <5>1. TypeOK'
          BY NextTyped DEF LifecycleInv, ProtectionInv
        <5>2. sandboxes'[n].uid \in 0..MaxIncarnations
          BY <5>1 DEF TypeOK, ApiTypeOK, Sandbox
        <5>3. QED BY <3>1, <5>2, ConstantsAssumption DEF KeyOf, Incarnations
      <4>2. Present(<<n, 1>>) = {}
        BY <4>1 DEF UnbornInv
      <4>3. QED BY <3>1, <4>1, <4>2 DEF Present
    <3>5. QED BY <1>3, <3>2, <3>3, <3>4 DEF Past
  <2>3. QED BY <1>1, <1>3, <2>1, <2>2
<1>4. QED BY <1>2, <1>3

LEMMA UsersInvariant == Spec => []UsersInv
<1>1. Init => UsersInv
  <2> SUFFICES ASSUME Init PROVE UsersInv
    OBVIOUS
  <2>1. \A n \in Names : sandboxes[n] = NoSandbox
    BY DEF Init
  <2>2. \A t \in Templates : templates[t] = NoTemplateObj /\ cTemplates[t] = NoTemplateObj
    BY DEF Init
  <2>3. w.pc = "idle"
    BY IdleTyped DEF Init
  <2>4. NamingInv
    BY <2>1, <2>3 DEF NamingInv, NoSandbox
  <2>5. AbsentInv
    BY <2>2 DEF AbsentInv
  <2>6. \A n \in Names : ~Alive(n)
    BY <2>1 DEF Alive, NoSandbox
  <2>7. GuardInv
    BY <2>2, <2>6 DEF GuardInv, NoTemplateObj
  <2>8. QED BY <2>4, <2>5, <2>7 DEF UsersInv
<1>2. UsersInv /\ DisksInv /\ LifecycleInv /\ LifecycleInv' /\ [Next]_vars => UsersInv'
  <2> SUFFICES ASSUME UsersInv, DisksInv, LifecycleInv, LifecycleInv', [Next]_vars
               PROVE  UsersInv'
    OBVIOUS
  <2>1. CASE Next
    BY <2>1, NamingKept, AbsentKept, GuardKept DEF UsersInv, DisksInv
  <2>2. CASE UNCHANGED vars
    <3>1. UNCHANGED <<sandboxes, templates, workloads, cSandboxes, cTemplates, w, born>>
      BY <2>2 DEF vars, api, caches, world
    <3>2. NamingInv' /\ AbsentInv'
      BY <3>1 DEF UsersInv, NamingInv, AbsentInv
    <3>3. GuardInv'
      BY <3>1 DEF UsersInv, GuardInv, NoneGone, Users, Alive, Past, Present, KeyOf, Guarded
    <3>4. QED BY <3>2, <3>3 DEF UsersInv
  <2>3. QED BY <2>1, <2>2
<1>3. QED BY <1>1, <1>2, LifecycleInvariant, DisksInvariant, PTL DEF Spec

\* However old the copies of the sandbox and of the template are that the controller works
\* from, whatever fails or is restarted, and whoever else deletes the template or creates
\* it anew: a template's only user never runs a workload without the finalizer on the
\* template (ProtectObjects before Create in Reconcile, the release in handleTerminating).
THEOREM UnderProtection == Spec => []WorkloadUnderProtection
<1>1. UsersInv => WorkloadUnderProtection
  BY DEF UsersInv, GuardInv, Guarded, Past, WorkloadUnderProtection
<1>2. QED BY <1>1, UsersInvariant, PTL
=============================================================================
