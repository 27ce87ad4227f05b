------------------------- MODULE SandboxRest_proofs -------------------------
(***************************************************************************)
(* Proofs that the sandbox controller does not come to rest too early: no  *)
(* wake-up is lost between what the server holds, the events on their way, *)
(* the work queue and the pass under way.  When nothing is left to do, no  *)
(* sandbox is being deleted, and every one with an inline spec is as that  *)
(* spec asks.                                                              *)
(***************************************************************************)
EXTENDS SandboxDisks_proofs

UpdateSteps == {"updateStatus", "updateMeta"}

\* A worker about to write a status has one to write, and a worker with a copy that is
\* being deleted does nothing but release.
TurnInv(x) ==
    /\ x.pc = "updateStatus" => StatusChanged(x)
    /\ x.old.del => x.pc \in ReleasingSteps \cup UpdateSteps

\* A name that is not in the queue is as the worker has read it.
ReadInv == w.pc # "idle" /\ w.name \notin queue => cSandboxes[w.name] = w.old

\* The server, the cache and the worker agree on a sandbox that nothing waits to do.
Calm(n) == cSandboxes[n] = sandboxes[n] /\ n \notin queue

\* A deletion that nothing waits for is under way, and comes to a patch or an error.
DeletionInv ==
    \A n \in Names : sandboxes[n].del /\ Calm(n) =>
        /\ w.pc # "idle" /\ w.name = n
        /\ w.pc = "updateMeta" => w.err \/ ~w.new.prot

RestInv == (w.pc # "idle" => TurnInv(w)) /\ ReadInv /\ DeletionInv

-----------------------------------------------------------------------------
(* The turns of the worker *)

\* The update begins with the status if there is one to write.
LEMMA UpdatingTurns ==
    ASSUME NEW x \in Worker
    PROVE  LET y == Updating(x) IN
           /\ y.pc = "updateStatus" => StatusChanged(y)
           /\ y.pc \in UpdateSteps /\ y.old = x.old /\ y.new = x.new /\ y.err = x.err
           /\ y.name = x.name
<1> DEFINE pc == IF StatusChanged(x) THEN "updateStatus" ELSE "updateMeta"
           y == [x EXCEPT !.pc = pc]
<1>1. y.pc = pc /\ y.old = x.old /\ y.new = x.new /\ y.err = x.err /\ y.name = x.name
  BY DEF Worker
<1>2. Updating(x) = y
  BY DEF Updating
<1>3. StatusChanged(y) <=> StatusChanged(x)
  BY <1>1 DEF StatusChanged
<1> HIDE DEF y
<1>4. QED BY <1>1, <1>2, <1>3 DEF UpdateSteps

\* Whatever the worker turns to, a status it is about to write has changed; what ends a
\* release or fails comes to a patch or an error.
LEMMA TurnsRight ==
    ASSUME NEW x \in Worker
    PROVE  /\ \A y \in {Updating(x), Failing(x), CreateFailing(x), Creating(x), Releasing(x),
                        Unprotecting(x)} : y.pc = "updateStatus" => StatusChanged(y)
           /\ \A y \in {Failing(x), Releasing(x), Unprotecting(x)} :
                /\ y.old = x.old /\ y.name = x.name /\ y.pc \in ReleasingSteps \cup UpdateSteps
                /\ y.pc = "updateMeta" => y.err \/ ~y.new.prot
           /\ \A y \in {Failing(x), CreateFailing(x)} : y.err /\ y.pc \in UpdateSteps
<1>1. [x EXCEPT !.err = TRUE] \in Worker /\ [x EXCEPT !.err = TRUE].err
      /\ [x EXCEPT !.err = TRUE].old = x.old /\ [x EXCEPT !.err = TRUE].name = x.name
  BY DEF Worker
<1>2. /\ Failing(x).pc = "updateStatus" => StatusChanged(Failing(x))
      /\ Failing(x).pc \in UpdateSteps /\ Failing(x).old = x.old /\ Failing(x).name = x.name
      /\ Failing(x).err
  BY <1>1, UpdatingTurns DEF Failing
<1>3. [x EXCEPT !.new.cond = "CreateFailed"] \in Worker
  BY DEF Worker, Conditions
<1>4. ASSUME NEW y \in Worker
      PROVE  /\ Failing(y).pc = "updateStatus" => StatusChanged(Failing(y))
             /\ Failing(y).err /\ Failing(y).pc \in UpdateSteps
  <2>1. [y EXCEPT !.err = TRUE] \in Worker /\ [y EXCEPT !.err = TRUE].err
    BY DEF Worker
  <2>2. QED BY <2>1, UpdatingTurns DEF Failing
<1>5. /\ CreateFailing(x).pc = "updateStatus" => StatusChanged(CreateFailing(x))
      /\ CreateFailing(x).err /\ CreateFailing(x).pc \in UpdateSteps
  BY <1>3, <1>4 DEF CreateFailing
<1>6. Creating(x).pc = "updateStatus" => StatusChanged(Creating(x))
  BY <1>5 DEF Creating, Worker
<1>7. [x EXCEPT !.new.prot = FALSE] \in Worker /\ ~[x EXCEPT !.new.prot = FALSE].new.prot
      /\ [x EXCEPT !.new.prot = FALSE].old = x.old /\ [x EXCEPT !.new.prot = FALSE].name = x.name
  BY DEF Worker
<1>8. /\ Releasing(x).pc = "updateStatus" => StatusChanged(Releasing(x))
      /\ Releasing(x).pc \in UpdateSteps /\ Releasing(x).old = x.old /\ Releasing(x).name = x.name
      /\ ~Releasing(x).new.prot
  BY <1>7, UpdatingTurns DEF Releasing
<1>9. /\ Unprotecting(x).pc = "updateStatus" => StatusChanged(Unprotecting(x))
      /\ Unprotecting(x).pc \in ReleasingSteps \cup UpdateSteps
      /\ Unprotecting(x).old = x.old /\ Unprotecting(x).name = x.name
      /\ Unprotecting(x).pc = "updateMeta" => ~Unprotecting(x).new.prot
  BY <1>8 DEF Unprotecting, Worker, ReleasingSteps, UpdateSteps
<1>10. Updating(x).pc = "updateStatus" => StatusChanged(Updating(x))
  BY UpdatingTurns
<1>11. QED BY <1>2, <1>5, <1>6, <1>8, <1>9, <1>10

\* How a reconcile begins.
LEMMA BeginTurns ==
    ASSUME TypeOK, NEW n \in Names, Begin(n), w'.pc # "idle"
    PROVE  TurnInv(w') /\ (w'.old.del /\ w'.pc = "updateMeta" => w'.err \/ ~w'.new.prot)
<1> DEFINE x == Reading(n)
<1>1. w.pc = "idle" /\ cSandboxes[n].uid # 0
  BY DEF Begin, BeginGone, BeginTerminating, BeginExpired, BeginWaiting, BeginManaging, Take, Live
<1>2. x \in Worker /\ x.old = cSandboxes[n]
  BY <1>1, ReadingTyped DEF TypeOK
<1>3. w'.old = cSandboxes[n]
  BY BeginCopies
<1> HIDE DEF x
<1>4. CASE BeginTerminating(n)
  <2> DEFINE y == [x EXCEPT !.new.cond = "Terminating"]
  <2>1. y \in Worker
    BY <1>2 DEF Worker, Conditions
  <2>2. w' \in {Unprotecting(y), Failing(y), [y EXCEPT !.pc = "findWorkload"]}
    BY <1>4 DEF BeginTerminating, x
  <2> HIDE DEF y
  <2>3. [y EXCEPT !.pc = "findWorkload"].pc = "findWorkload"
    BY <2>1 DEF Worker
  <2>4. CASE w' = [y EXCEPT !.pc = "findWorkload"]
    BY <2>3, <2>4 DEF TurnInv, ReleasingSteps
  <2>5. CASE w' \in {Unprotecting(y), Failing(y)}
    <3>1. /\ w'.pc = "updateStatus" => StatusChanged(w')
          /\ w'.pc \in ReleasingSteps \cup UpdateSteps
          /\ w'.pc = "updateMeta" => w'.err \/ ~w'.new.prot
      BY <2>1, <2>5, TurnsRight
    <3>2. QED BY <3>1 DEF TurnInv
  <2>6. QED BY <2>2, <2>4, <2>5
<1>5. CASE BeginExpired(n) \/ BeginWaiting(n)
  <2>1. ~cSandboxes[n].del /\ (w' = Updating(x) \/ w' = [x EXCEPT !.pc = "expire"])
    BY <1>5 DEF BeginExpired, BeginWaiting, Live, x
  <2>2. [x EXCEPT !.pc = "expire"].pc = "expire"
    BY <1>2 DEF Worker
  <2>3. QED BY <1>2, <1>3, <2>1, <2>2, TurnsRight DEF TurnInv
<1>6. CASE BeginManaging(n)
  <2> DEFINE y == [x EXCEPT !.new.prot = TRUE]
  <2>1. y \in Worker
    BY <1>2 DEF Worker
  <2>2. ~cSandboxes[n].del /\ w' \in {Creating(y), [y EXCEPT !.pc = "protect"]}
    BY <1>6 DEF BeginManaging, Live, x
  <2> HIDE DEF y
  <2>3. [y EXCEPT !.pc = "protect"].pc = "protect"
    BY <2>1 DEF Worker
  <2>4. QED BY <1>3, <2>1, <2>2, <2>3, TurnsRight DEF TurnInv
<1>7. QED BY <1>1, <1>4, <1>5, <1>6 DEF Begin, BeginGone

\* How it goes on.
LEMMA WorkerTurns ==
    ASSUME ProtectionInv, TurnInv(w), WorkerStep, ~UpdateStatus, ~UpdateMeta
    PROVE  TurnInv(w') /\ (w.old.del /\ w'.pc = "updateMeta" => w'.err \/ ~w'.new.prot)
<1>1. w.pc # "idle" /\ w \in Worker /\ w'.old = w.old /\ TypeOK
  BY WorkerCarries, BusyTyped DEF ProtectionInv, Carries
<1>2. /\ \A y \in {Updating(w), Failing(w), CreateFailing(w), Creating(w), Releasing(w),
                   Unprotecting(w)} : y.pc = "updateStatus" => StatusChanged(y)
      /\ \A y \in {Failing(w), Releasing(w), Unprotecting(w)} :
           /\ y.pc \in ReleasingSteps \cup UpdateSteps
           /\ y.pc = "updateMeta" => y.err \/ ~y.new.prot
  BY <1>1, TurnsRight
<1>3. w.old.del => w.pc \in ReleasingSteps \cup UpdateSteps
  BY DEF TurnInv
<1>4. CASE Expire \/ ProtectTemplate \/ CreateWorkload \/ ReplaceWorkload
  <2>1. ~w.old.del
    BY <1>3, <1>4 DEF Expire, ProtectTemplate, CreateWorkload, ReplaceWorkload, ReleasingSteps,
       UpdateSteps
  <2>2. w' \in {Updating(w), Failing(w), CreateFailing(w), Creating(w)}
        \/ w' = [w EXCEPT !.pc = "readStatus"]
    BY <1>4 DEF Expire, ProtectTemplate, CreateWorkload, ReplaceWorkload, DeletingWorkload,
       Applied, NotApplied
  <2>3. [w EXCEPT !.pc = "readStatus"].pc = "readStatus"
    BY <1>1 DEF Worker
  <2>4. QED BY <1>1, <1>2, <2>1, <2>2, <2>3 DEF TurnInv
<1>5. CASE DeleteWorkload \/ UnprotectTemplate
  <2>1. w' \in {Failing(w), Releasing(w)} \/ w' = [w EXCEPT !.pc = "listOwned"]
    BY <1>5 DEF DeleteWorkload, UnprotectTemplate, DeletingWorkload, Applied, NotApplied
  <2>2. [w EXCEPT !.pc = "listOwned"].pc = "listOwned"
    BY <1>1 DEF Worker
  <2>3. QED BY <1>2, <2>1, <2>2 DEF TurnInv, ReleasingSteps
<1>6. CASE ListDisks \/ ReadWorkload
  <2>1. ~w.old.del
    BY <1>3, <1>6 DEF ListDisks, ReadWorkload, ReleasingSteps, UpdateSteps
  <2>2. w'.pc \notin UpdateSteps
    <3>1. \A class : Making(w, class).pc \notin UpdateSteps
      BY <1>1 DEF Making, Worker, UpdateSteps
    <3>2. \A todo : [w EXCEPT !.pc = "createDisk", !.todo = todo].pc \notin UpdateSteps
      BY <1>1 DEF Worker, UpdateSteps
    <3>3. \A pc \in {"createWorkload", "replaceWorkload", "readStatus"} :
            [w EXCEPT !.pc = pc].pc \notin UpdateSteps
      BY <1>1 DEF Worker, UpdateSteps
    <3>4. CASE ListDisks
      BY <3>1, <3>2, <3>4 DEF ListDisks
    <3>5. CASE ReadWorkload
      <4>1. \E pc \in {"createWorkload", "replaceWorkload", "readStatus"} : w' = [w EXCEPT !.pc = pc]
        BY <3>5 DEF ReadWorkload
      <4>2. QED BY <3>3, <4>1
    <3>6. QED BY <1>6, <3>4, <3>5
  <2>3. QED BY <1>1, <2>1, <2>2 DEF TurnInv, UpdateSteps
<1>7. CASE FindWorkload
  <2>1. \E pc \in {"listOwned", "deleteWorkload"} : w' = [w EXCEPT !.pc = pc]
    BY <1>7 DEF FindWorkload
  <2>2. \A pc \in {"listOwned", "deleteWorkload"} : [w EXCEPT !.pc = pc].pc = pc
    BY <1>1 DEF Worker
  <2>3. w'.pc \in {"listOwned", "deleteWorkload"}
    BY <2>1, <2>2
  <2>4. QED BY <2>3 DEF TurnInv, ReleasingSteps
<1>8. CASE ReadStatus
  <2> DEFINE cond == Status
             after == NextSync(w.name, w.old)
             x == [w EXCEPT !.new.cond = cond, !.after = after]
  <2>1. cond \in Conditions /\ after \in BOOLEAN
    BY ReasonTyped DEF Status, Conditions, NextSync
  <2> HIDE DEF cond, after
  <2>2. x \in Worker
    BY <1>1, <2>1 DEF Worker
  <2>3. w' = Updating(x)
    BY <1>8 DEF ReadStatus, cond, after
  <2> HIDE DEF x
  <2>4. ~w.old.del
    BY <1>3, <1>8 DEF ReadStatus, ReleasingSteps, UpdateSteps
  <2>5. QED BY <1>1, <2>2, <2>3, <2>4, TurnsRight DEF TurnInv
<1>9. ASSUME NEW x \in Worker, NEW class
      PROVE  /\ Deleting(x, class).pc = "updateStatus" => StatusChanged(Deleting(x, class))
             /\ Deleting(x, class).pc \in ReleasingSteps \cup UpdateSteps
             /\ Deleting(x, class).pc = "updateMeta"
                => Deleting(x, class).err \/ ~Deleting(x, class).new.prot
  <2>1. [x EXCEPT !.pc = "listOwnedClaims"].pc = "listOwnedClaims"
    BY DEF Worker
  <2>2. QED BY <2>1, TurnsRight DEF Deleting, ReleasingSteps
<1>10. CASE ListOwned
  <2>1. w' = Deleting(w, ListedClass)
        \/ w' = [w EXCEPT !.pc = "deleteDisk", !.todo = {d \in cDisks[Key] : d.class = ListedClass}]
    BY <1>10 DEF ListOwned
  <2>2. \A todo : [w EXCEPT !.pc = "deleteDisk", !.todo = todo].pc = "deleteDisk"
    BY <1>1 DEF Worker
  <2>3. QED BY <1>1, <1>9, <2>1, <2>2 DEF TurnInv, ReleasingSteps
<1>11. CASE CreateDisk \/ DeleteDisk
  <2> DEFINE left(d) == [w EXCEPT !.todo = @ \ {d}]
             empty == [w EXCEPT !.todo = {}]
  <2>1. \A d \in w.todo : left(d) \in Worker /\ left(d).pc = w.pc
    BY <1>1 DEF Worker
  <2>2. empty \in Worker
    BY <1>1 DEF Worker
  <2>3. CASE CreateDisk
    <3>1. PICK d \in w.todo : w' \in {Making(left(d), d.class), left(d), CreateFailing(empty)}
      BY <2>3 DEF CreateDisk, Applied, NotApplied
    <3>2. w.pc = "createDisk" /\ ~w.old.del
      BY <1>3, <2>3 DEF CreateDisk, ReleasingSteps, UpdateSteps
    <3> HIDE DEF left, empty
    <3>3. Making(left(d), d.class).pc # "updateStatus"
      BY <2>1 DEF Making, Worker
    <3>4. w'.pc = "updateStatus" => StatusChanged(w')
      BY <2>1, <2>2, <3>1, <3>2, <3>3, TurnsRight
    <3>5. QED BY <1>1, <3>2, <3>4 DEF TurnInv
  <2>4. CASE DeleteDisk
    <3>1. PICK d \in w.todo : w' \in {Deleting(left(d), d.class), left(d), Failing(empty)}
      BY <2>4 DEF DeleteDisk, Applied, NotApplied
    <3>2. left(d).pc = "deleteDisk"
      BY <2>1, <2>4 DEF DeleteDisk
    <3> HIDE DEF left, empty
    <3>3. /\ Failing(empty).pc = "updateStatus" => StatusChanged(Failing(empty))
          /\ Failing(empty).pc \in UpdateSteps /\ Failing(empty).err
      BY <2>2, TurnsRight
    <3>4. QED BY <1>9, <2>1, <3>1, <3>2, <3>3 DEF TurnInv, ReleasingSteps
  <2>5. QED BY <1>11, <2>3, <2>4
<1>12. QED BY <1>4, <1>5, <1>6, <1>7, <1>8, <1>10, <1>11 DEF WorkerStep

-----------------------------------------------------------------------------
(* The queue *)

\* Whom the queue does not hold after a step other than the start of its own reconcile
\* or a restart was not in the queue before, and its copy in the cache is as it was.
LEMMA QueueKeeps ==
    ASSUME TypeOK, Next, ~Restart, NEW n \in Names, ~Begin(n), n \notin queue'
    PROVE  n \notin queue /\ cSandboxes'[n] = cSandboxes[n]
<1>1. ASSUME NEW m \in Names, SyncSandbox(m) PROVE n \notin queue /\ cSandboxes'[n] = cSandboxes[n]
  <2>1. n # m /\ n \notin queue /\ cSandboxes' = [cSandboxes EXCEPT ![m] = sandboxes[m]]
    BY <1>1 DEF SyncSandbox
  <2>2. QED BY <2>1 DEF TypeOK, CacheTypeOK
<1>2. ASSUME NEW m \in Names, Begin(m) PROVE n \notin queue /\ cSandboxes'[n] = cSandboxes[n]
  <2>1. queue' = queue \ {m} /\ UNCHANGED cSandboxes
    BY <1>2 DEF Begin, BeginGone, BeginTerminating, BeginExpired, BeginWaiting, BeginManaging,
       Take, caches
  <2>2. QED BY <1>2, <2>1
<1>3. CASE UpdateStatus \/ UpdateMeta
  BY <1>3 DEF UpdateStatus, UpdateMeta, Return, caches
<1>4. CASE WorkerStep /\ ~UpdateStatus /\ ~UpdateMeta
  BY <1>4
  DEF WorkerStep, Expire, ProtectTemplate, ListDisks, CreateDisk, ReadWorkload, CreateWorkload,
      ReplaceWorkload, ReadStatus, FindWorkload, DeleteWorkload, ListOwned, DeleteDisk,
      UnprotectTemplate, DeletingWorkload, UnchangedButErrors, UnchangedButEvents, caches, sched
<1>5. CASE User \/ Cluster \/ \E m \in Names : FireTimer(m)
  BY <1>5, ZenonT(60)
  DEF User, Cluster, CreateSandbox, DeleteSandbox, CreateTemplate, DeleteTemplate,
      WorkloadPhase, EvictWorkload, WorkloadGone, ChangeWorkload, CollectOrphans, RunOut,
      FireTimer, caches, sched
<1>6. CASE \/ \E t \in Templates : SyncTemplate(t)
           \/ \E k \in Keys : SyncWorkload(k) \/ SyncDisks(k)
  BY <1>6 DEF SyncTemplate, SyncWorkload, SyncDisks, sched
<1>7. QED BY <1>1, <1>2, <1>3, <1>4, <1>5, <1>6 DEF Next, Informers, Controller, WorkerStep

\* Only the worker's steps, the start of a reconcile and a restart change the worker.
LEMMA WorkerAlone ==
    ASSUME Next PROVE UNCHANGED w \/ WorkerStep \/ Restart \/ \E n \in Names : Begin(n)
BY DEF Next, User, Cluster, Informers, Controller, CreateSandbox, DeleteSandbox,
   CreateTemplate, DeleteTemplate, WorkloadPhase, EvictWorkload, WorkloadGone, ChangeWorkload,
   CollectOrphans, RunOut, SyncSandbox, SyncTemplate, SyncWorkload, SyncDisks, FireTimer

-----------------------------------------------------------------------------
(* The update *)

\* An update either queues the name again, or leaves a status other than the one read.
LEMMA StatusWrites ==
    ASSUME LifecycleInv, RestInv, UpdateStatus, w.name \notin queue'
    PROVE  /\ w'.pc = "updateMeta" /\ w'.name = w.name /\ w'.old = w.old
           /\ sandboxes'[w.name] # w.old
<1>1. w \in Worker /\ w.name \in Names /\ w.pc = "updateStatus" /\ sandboxes \in [Names -> Sandbox]
  BY BusyTyped, KeyTyped DEF UpdateStatus, LifecycleInv, ProtectionInv, TypeOK, ApiTypeOK
<1>2. /\ w' = [w EXCEPT !.pc = "updateMeta", !.new.prot = @ \/ sandboxes[w.name].prot]
      /\ sandboxes' = [sandboxes EXCEPT ![w.name].type = w.new.type, ![w.name].cond = w.new.cond]
  BY DEF UpdateStatus, Return
<1>3. sandboxes'[w.name].type = w.new.type /\ sandboxes'[w.name].cond = w.new.cond
  BY <1>1, <1>2 DEF Sandbox
<1>4. w.new.type # w.old.type \/ w.new.cond # w.old.cond
  BY <1>1 DEF RestInv, TurnInv, StatusChanged
<1>5. w'.pc = "updateMeta" /\ w'.name = w.name /\ w'.old = w.old
  BY <1>1, <1>2 DEF Worker
<1>6. QED BY <1>3, <1>4, <1>5

\* The patch at the end of a deletion that has come to it releases the sandbox, or the
\* name is queued again.
LEMMA PatchReleases ==
    ASSUME LifecycleInv, UpdateMeta, w.old = sandboxes[w.name], w.old.del,
           w.err \/ ~w.new.prot, w.name \notin queue'
    PROVE  ~sandboxes'[w.name].del
<1>1. w.name \in Names /\ sandboxes \in [Names -> Sandbox]
  BY KeyTyped DEF UpdateMeta, LifecycleInv, ProtectionInv, TypeOK, ApiTypeOK
<1>2. w.old.prot /\ sandboxes[w.name].uid # 0
  BY <1>1 DEF LifecycleInv, ProtectionInv, NamesInv, ServerInv
<1>3. ~w.err
  BY DEF UpdateMeta, Return
<1>4. sandboxes' = [sandboxes EXCEPT ![w.name] = Patched(sandboxes[w.name], w.new.prot, NoSandbox)]
  BY <1>2, <1>3 DEF UpdateMeta, Return
<1>5. sandboxes'[w.name] = NoSandbox
  BY <1>1, <1>3, <1>4 DEF Patched
<1>6. QED BY <1>5 DEF NoSandbox

-----------------------------------------------------------------------------
(* A deletion is not forgotten *)

\* What a step makes a deletion of, as the cache shows it, was one before, unless it is
\* the status write.
LEMMA DeletionsStay ==
    ASSUME LifecycleInv, Next, ~UpdateStatus, NEW n \in Names, sandboxes'[n].del,
           sandboxes'[n] = cSandboxes[n]
    PROVE  sandboxes'[n] = sandboxes[n]
<1> DEFINE s == sandboxes[n]
<1>1. sandboxes \in [Names -> Sandbox] /\ CopyInv(cSandboxes[n], s, born[n])
  BY DEF LifecycleInv, ProtectionInv, TypeOK, ApiTypeOK, NamesInv
<1>2. ~s.del => ~s.prot
  BY <1>1 DEF CopyInv
<1>3. sandboxes'[n] = Deleted(s, NoSandbox) => sandboxes'[n] = s
  <2>1. CASE ~s.prot
    BY <2>1 DEF Deleted, NoSandbox
  <2>2. CASE s.prot
    <3>1. s.del /\ s \in Sandbox
      BY <1>1, <1>2, <2>2
    <3>2. [s EXCEPT !.del = TRUE] = s
      BY <3>1 DEF Sandbox
    <3>3. QED BY <2>2, <3>2 DEF Deleted
  <2>3. QED BY <2>1, <2>2
<1>4. CASE UNCHANGED sandboxes
  BY <1>4
<1>5. ASSUME NEW m \in Names, CreateSandbox(m) PROVE sandboxes'[n] = s
  <2>1. PICK x : sandboxes' = [sandboxes EXCEPT ![m] = x] /\ ~x.del
    <3>1. PICK x : /\ sandboxes' = [sandboxes EXCEPT ![m] = x]
                   /\ \/ \E t \in Templates :
                            x = [NoSandbox EXCEPT !.uid = born[m] + 1, !.tmpl = t]
                      \/ \E i \in InlineSpecs :
                            x = [NoSandbox EXCEPT !.uid = born[m] + 1, !.inline = i]
      BY <1>5, Zenon DEF CreateSandbox
    <3>2. ~x.del
      BY <3>1 DEF NoSandbox
    <3>3. QED BY <3>1, <3>2
  <2>2. QED BY <1>1, <2>1
<1>6. ASSUME NEW m \in Names, DeleteSandbox(m) PROVE sandboxes'[n] = s
  <2>1. sandboxes' = [sandboxes EXCEPT ![m] = Deleted(sandboxes[m], NoSandbox)]
    BY <1>6 DEF DeleteSandbox
  <2>2. QED BY <1>1, <1>3, <2>1
<1>7. CASE Expire
  <2>1. \/ UNCHANGED sandboxes
        \/ sandboxes' = [sandboxes EXCEPT ![w.name] = Deleted(sandboxes[w.name], NoSandbox)]
    BY <1>7 DEF Expire
  <2>2. QED BY <1>1, <1>3, <2>1
<1>8. CASE UpdateMeta /\ sandboxes' # sandboxes
  <2>1. PICK x : sandboxes' = [sandboxes EXCEPT ![w.name] = x] /\ ~x.del
    <3>1. sandboxes[w.name] \in Sandbox
      BY <1>1, <1>8, MetaPatch DEF LifecycleInv
    <3>2. ~NoSandbox.del
      BY DEF NoSandbox
    <3>3. ~sandboxes[w.name].del => ~[sandboxes[w.name] EXCEPT !.prot = TRUE].del
      BY <3>1 DEF Sandbox
    <3>4. QED BY <1>8, <3>2, <3>3, MetaPatch DEF LifecycleInv
  <2>2. QED BY <1>1, <2>1
<1>9. QED
  BY <1>4, <1>5, <1>6, <1>7, <1>8
  DEF Next, User, Cluster, Informers, Controller, WorkerStep, CreateTemplate, DeleteTemplate,
      WorkloadPhase, EvictWorkload, WorkloadGone, ChangeWorkload, CollectOrphans, RunOut,
      SyncSandbox, SyncTemplate, SyncWorkload, SyncDisks, FireTimer, Restart,
      Begin, BeginGone, BeginTerminating, BeginExpired, BeginWaiting, BeginManaging, Take,
      ProtectTemplate, ListDisks, CreateDisk, ReadWorkload, CreateWorkload, ReplaceWorkload,
      ReadStatus, FindWorkload, DeleteWorkload, ListOwned, DeleteDisk, UnprotectTemplate,
      DeletingWorkload, api

\* The worker goes on as its turns allow.
LEMMA TurnKept ==
    ASSUME LifecycleInv, RestInv, Next, w'.pc # "idle" PROVE TurnInv(w')
<1>1. CASE UNCHANGED w
  BY <1>1 DEF RestInv, TurnInv, StatusChanged
<1>2. ASSUME NEW n \in Names, Begin(n) PROVE TurnInv(w')
  BY <1>2, BeginTurns DEF LifecycleInv, ProtectionInv
<1>3. CASE WorkerStep /\ ~UpdateStatus /\ ~UpdateMeta
  <2>1. w.pc # "idle"
    BY <1>3, WorkerCarries DEF LifecycleInv, ProtectionInv
  <2>2. QED BY <1>3, <2>1, WorkerTurns DEF LifecycleInv, RestInv
<1>4. CASE UpdateStatus
  <2>1. w \in Worker
    BY DEF LifecycleInv, ProtectionInv, TypeOK, WorkerTypeOK
  <2>2. w'.pc = "updateMeta"
    BY <1>4, <2>1, IdleTyped DEF UpdateStatus, Return, Worker
  <2>3. QED BY <2>2 DEF TurnInv, UpdateSteps
<1>5. CASE UpdateMeta \/ Restart
  BY <1>5, IdleTyped DEF UpdateMeta, Restart, Return
<1>6. QED BY <1>1, <1>2, <1>3, <1>4, <1>5, WorkerAlone DEF WorkerStep

\* A worker that has read anything but what the cache shows will be queued again.
LEMMA ReadKept ==
    ASSUME LifecycleInv, RestInv, Next PROVE ReadInv'
<1> SUFFICES ASSUME w'.pc # "idle", w'.name \notin queue' PROVE cSandboxes'[w'.name] = w'.old
  BY DEF ReadInv
<1>1. TypeOK /\ ReadInv
  BY DEF LifecycleInv, ProtectionInv, RestInv
<1>2. ASSUME NEW n \in Names, Begin(n) PROVE cSandboxes'[w'.name] = w'.old
  <2>1. w'.name = n /\ w'.old = cSandboxes[n]
    BY <1>1, <1>2, BeginCopies
  <2>2. UNCHANGED cSandboxes
    BY <1>2 DEF Begin, BeginGone, BeginTerminating, BeginExpired, BeginWaiting, BeginManaging,
       Take, caches
  <2>3. QED BY <2>1, <2>2
<1>3. ASSUME w.pc # "idle", w'.name = w.name, w'.old = w.old
      PROVE  cSandboxes'[w'.name] = w'.old
  <2>1. w.name \in Names /\ ~Begin(w.name)
    BY <1>1, <1>3, KeyTyped
    DEF Begin, BeginGone, BeginTerminating, BeginExpired, BeginWaiting, BeginManaging, Take
  <2>2. ~Restart
    BY IdleTyped DEF Restart
  <2>3. w.name \notin queue /\ cSandboxes'[w.name] = cSandboxes[w.name]
    BY <1>1, <1>3, <2>1, <2>2, QueueKeeps
  <2>4. QED BY <1>1, <1>3, <2>3 DEF ReadInv
<1>4. CASE WorkerStep /\ ~UpdateStatus /\ ~UpdateMeta
  BY <1>3, <1>4, WorkerCarries DEF LifecycleInv, ProtectionInv, Carries
<1>5. CASE UpdateStatus
  <2>1. w \in Worker /\ w.pc # "idle"
    BY <1>5 DEF LifecycleInv, ProtectionInv, TypeOK, WorkerTypeOK, UpdateStatus
  <2>2. w' = [w EXCEPT !.pc = "updateMeta", !.new.prot = @ \/ sandboxes[w.name].prot]
    BY <1>5, IdleTyped DEF UpdateStatus, Return
  <2>3. w'.name = w.name /\ w'.old = w.old
    BY <2>1, <2>2 DEF Worker
  <2>4. QED BY <1>3, <2>1, <2>3
<1>6. CASE UpdateMeta \/ Restart
  BY <1>6, IdleTyped DEF UpdateMeta, Restart, Return
<1>7. CASE UNCHANGED w
  BY <1>3, <1>7
<1>8. QED BY <1>2, <1>4, <1>5, <1>6, <1>7, WorkerAlone DEF WorkerStep

\* A reconcile of a sandbox that is being deleted does not return at once.
LEMMA TerminatingBegins ==
    ASSUME TypeOK, NEW n \in Names, BeginTerminating(n), cSandboxes[n].uid # 0
    PROVE  w'.pc # "idle"
<1> DEFINE y == [Reading(n) EXCEPT !.new.cond = "Terminating"]
<1>1. y \in Worker
  BY ReadingTyped DEF TypeOK, Worker, Conditions
<1>2. w' \in {Unprotecting(y), Failing(y), [y EXCEPT !.pc = "findWorkload"]}
  BY DEF BeginTerminating
<1> HIDE DEF y
<1>3. [y EXCEPT !.pc = "findWorkload"].pc = "findWorkload"
  BY <1>1 DEF Worker
<1>4. \A z \in {Unprotecting(y), Failing(y)} : z.pc \in ReleasingSteps \cup UpdateSteps
  BY <1>1, TurnsRight
<1>5. QED BY <1>2, <1>3, <1>4 DEF ReleasingSteps, UpdateSteps

\* A deletion on which server and cache agree is taken up, or was taken up already and
\* comes nearer its end.
LEMMA DeletionKept ==
    ASSUME LifecycleInv, RestInv, Next PROVE DeletionInv'
<1> SUFFICES ASSUME NEW n \in Names, sandboxes'[n].del, cSandboxes'[n] = sandboxes'[n],
                    n \notin queue'
             PROVE  /\ w'.pc # "idle" /\ w'.name = n
                    /\ w'.pc = "updateMeta" => w'.err \/ ~w'.new.prot
  BY DEF DeletionInv, Calm
<1>1. TypeOK /\ ProtectionInv /\ ServerInv(sandboxes[n], born[n])
  BY DEF LifecycleInv, ProtectionInv, NamesInv
<1>2. CASE Restart
  <2>1. sandboxes[n].del /\ sandboxes[n].uid = 0
    BY <1>2 DEF Restart, api
  <2>2. QED BY <1>1, <2>1 DEF ServerInv
<1>3. CASE Begin(n)
  <2>1. w.pc = "idle" /\ UNCHANGED <<sandboxes, cSandboxes>>
    BY <1>3 DEF Begin, BeginGone, BeginTerminating, BeginExpired, BeginWaiting, BeginManaging,
       Take, api, caches
  <2>2. cSandboxes[n].del /\ cSandboxes[n].uid # 0
    BY <1>1, <2>1 DEF ServerInv
  <2>3. BeginTerminating(n)
    BY <1>3, <2>2 DEF Begin, BeginGone, BeginExpired, BeginWaiting, BeginManaging, Live
  <2>4. w'.pc # "idle"
    BY <1>1, <2>2, <2>3, TerminatingBegins
  <2>5. QED BY <1>1, <1>3, <2>1, <2>2, <2>4, BeginCopies, BeginTurns
<1>4. CASE ~Restart /\ ~Begin(n)
  <2>1. n \notin queue /\ cSandboxes'[n] = cSandboxes[n]
    BY <1>1, <1>4, QueueKeeps
  <2>2. CASE UpdateStatus /\ w.name = n
    <3>1. w.old = cSandboxes[n]
      BY <2>1, <2>2 DEF RestInv, ReadInv, UpdateStatus
    <3>2. sandboxes'[n] # w.old
      BY <2>2, StatusWrites
    <3>3. QED BY <2>1, <3>1, <3>2
  <2>3. CASE ~(UpdateStatus /\ w.name = n)
    <3>1. sandboxes'[n] = sandboxes[n]
      <4>1. CASE UpdateStatus
        <5>1. \/ UNCHANGED sandboxes
              \/ sandboxes' = [sandboxes EXCEPT ![w.name].type = w.new.type,
                                                ![w.name].cond = w.new.cond]
          BY <4>1 DEF UpdateStatus
        <5>2. QED BY <1>1, <2>3, <4>1, <5>1 DEF TypeOK, ApiTypeOK
      <4>2. CASE ~UpdateStatus
        BY <2>1, <4>2, DeletionsStay
      <4>3. QED BY <4>1, <4>2
    <3>2. /\ w.pc # "idle" /\ w.name = n /\ w.old = cSandboxes[n] /\ w.old.del
          /\ w.old = sandboxes[n]
          /\ w.pc = "updateMeta" => w.err \/ ~w.new.prot
      <4>1. sandboxes[n].del /\ Calm(n)
        BY <2>1, <3>1 DEF Calm
      <4>2. w.pc # "idle" /\ w.name = n /\ (w.pc = "updateMeta" => w.err \/ ~w.new.prot)
        BY <4>1 DEF RestInv, DeletionInv
      <4>3. QED BY <2>1, <4>1, <4>2 DEF RestInv, ReadInv, Calm
    <3>3. CASE UNCHANGED w
      BY <3>2, <3>3
    <3>4. CASE WorkerStep /\ ~UpdateStatus /\ ~UpdateMeta
      <4>1. w'.name = n
        BY <1>1, <3>2, <3>4, WorkerCarries DEF ProtectionInv, Carries
      <4>2. TurnInv(w') /\ (w'.pc = "updateMeta" => w'.err \/ ~w'.new.prot)
        BY <1>1, <3>2, <3>4, WorkerTurns DEF RestInv
      <4>3. w'.pc # "idle"
        BY <1>1, <3>2, <4>2, <3>4, WorkerCarries DEF ProtectionInv, Carries, TurnInv,
           ReleasingSteps, UpdateSteps
      <4>4. QED BY <4>1, <4>2, <4>3
    <3>5. CASE UpdateMeta
      <4>1. w.err \/ ~w.new.prot
        BY <3>2, <3>5 DEF UpdateMeta
      <4>2. QED BY <3>2, <3>5, <4>1, PatchReleases
    <3>6. ASSUME NEW m \in Names, Begin(m) PROVE FALSE
      BY <3>2, <3>6 DEF Begin, BeginGone, BeginTerminating, BeginExpired, BeginWaiting,
         BeginManaging, Take
    <3>7. QED BY <1>4, <2>3, <3>2, <3>3, <3>4, <3>5, <3>6, WorkerAlone DEF WorkerStep
  <2>4. QED BY <2>2, <2>3
<1>5. QED BY <1>2, <1>3, <1>4

LEMMA RestInvariant == Spec => []RestInv
<1>1. Init => RestInv
  <2> SUFFICES ASSUME Init PROVE RestInv
    OBVIOUS
  <2>1. w.pc = "idle" /\ \A n \in Names : ~sandboxes[n].del
    BY IdleTyped DEF Init, NoSandbox
  <2>2. QED BY <2>1 DEF RestInv, ReadInv, DeletionInv
<1>2. RestInv /\ LifecycleInv /\ [Next]_vars => RestInv'
  <2> SUFFICES ASSUME RestInv, LifecycleInv, [Next]_vars PROVE RestInv'
    OBVIOUS
  <2>1. CASE Next
    BY <2>1, TurnKept, ReadKept, DeletionKept DEF RestInv
  <2>2. CASE UNCHANGED vars
    <3>1. UNCHANGED <<sandboxes, cSandboxes, queue, w>>
      BY <2>2 DEF vars, api, caches, sched
    <3>2. QED BY <3>1 DEF RestInv, TurnInv, StatusChanged, ReadInv, DeletionInv, Calm
  <2>3. QED BY <2>1, <2>2
<1>3. QED BY <1>1, <1>2, LifecycleInvariant, PTL DEF Spec

\* At no point does the controller rest on a sandbox that is being deleted: whatever
\* wake-up is merged with another, whatever answer is lost or put back by the status
\* write, somebody will take the finalizer off (handleTerminating, BaseReconciler.update).
THEOREM NoStuck == Spec => []NoStuckDeletion
<1>1. RestInv => NoStuckDeletion
  BY DEF RestInv, DeletionInv, Calm, NoStuckDeletion, Quiescent
<1>2. QED BY <1>1, RestInvariant, PTL

-----------------------------------------------------------------------------
(* What the controller rests on.  A living sandbox with an inline spec that *)
(* nobody is to be woken for is in the worker's hands, with everything that *)
(* is needed so far, or is as its spec asks.                                *)

\* A copy of a sandbox with an inline spec shows the kind of that spec or none yet, and
\* the worker goes on with that kind.
KindRight(s) == s.inline # NoSpec => s.type \in {NoType, DetectSandboxType(s.inline)}
KindsInv ==
    /\ \A n \in Names : KindRight(sandboxes[n]) /\ KindRight(cSandboxes[n])
    /\ w.pc # "idle" /\ w.old.inline # NoSpec => w.new.type = DetectSandboxType(w.old.inline)

\* The disks that the worker is to make are asked for.
TodoInv ==
    w.old.inline # NoSpec =>
        /\ w.pc = "createDisk" => w.todo \subseteq Needed(w.new.type, w.old.inline)
        /\ w.pc = "listClaims" => w.new.type = "KubevirtVMI"

Inline(n) == Alive(n) /\ sandboxes[n].inline # NoSpec
KindOf(n) == DetectSandboxType(sandboxes[n].inline)

\* A living sandbox has no children but those its spec asks for.
OwnInv ==
    \A n \in Names : Inline(n) =>
        /\ Present(KeyOf(n)) \subseteq {KindOf(n)}
        /\ disks[KeyOf(n)] \subseteq Needed(KindOf(n), sandboxes[n].inline)

\* The cache shows the phase of a workload, or an event that says otherwise is on its way.
EventInv ==
    \A k \in Keys, t \in Types :
        GateOpen(t, gates) /\ cWorkloads[k][t].phase # workloads[k][t].phase => k \in events

CreatingSteps == MakingSteps \cup {"listDisks", "replaceWorkload", "readStatus"}
StandingSteps == {"replaceWorkload", "readStatus"}
Succeeding(x) == x.pc \in UpdateSteps /\ ~x.err

\* What the worker x has achieved for the sandbox with key k, given its disks, the phase
\* of its workload, the events under way and the gates.
Fit(x, k, have, phase, es, gs) ==
    /\ x.pc \in {"expire"} \cup CreatingSteps \cup UpdateSteps
    /\ x.pc \in CreatingSteps \/ Succeeding(x) => GateOpen(x.new.type, gs) /\ x.new.prot
    /\ x.pc \in StandingSteps \/ Succeeding(x) => Needed(x.new.type, x.old.inline) \subseteq have
    /\ x.pc \in StandingSteps => k \in es \/ phase # Absent
    /\ Succeeding(x) => k \in es \/ (phase # Absent /\ x.new.cond = ReasonOf(x.new.type, phase))
    /\ x.pc = "updateMeta" => ~StatusChanged(x)

Busy(n) == w.pc # "idle" /\ w.name = n
WorkInv ==
    \A n \in Names : Inline(n) /\ Calm(n) /\ Busy(n) =>
        Fit(w, Key, disks[Key], workloads[Key][Type_].phase, events, gates)

\* The sandbox is as its spec asks.
AtRest(n) ==
    LET s == sandboxes[n]  t == KindOf(n)  phase == workloads[KeyOf(n)][t].phase IN
    /\ GateOpen(t, gates) /\ s.prot /\ s.type = t
    /\ Needed(t, s.inline) \subseteq disks[KeyOf(n)]
    /\ phase # Absent /\ s.cond = ReasonOf(t, phase)
RestedInv ==
    \A n \in Names : Inline(n) /\ Calm(n) /\ KeyOf(n) \notin events /\ ~Busy(n) => AtRest(n)

SettleInv == KindsInv /\ TodoInv /\ OwnInv /\ EventInv /\ WorkInv /\ RestedInv

\* A reconcile starts with the kind that its copy and its template say.
LEMMA BeginKind ==
    ASSUME TypeOK, NEW n \in Names, Begin(n), w'.pc # "idle"
    PROVE  w'.new.type = TypeFor(cSandboxes[n], TemplateFor(cSandboxes[n]))
<1> DEFINE x == Reading(n)
           kind == TypeFor(cSandboxes[n], TemplateFor(cSandboxes[n]))
<1>1. w.pc = "idle" /\ cSandboxes[n].uid # 0
  BY DEF Begin, BeginGone, BeginTerminating, BeginExpired, BeginWaiting, BeginManaging, Take, Live
<1>2. x \in Worker /\ x.new.type = kind
  BY <1>1, ReadingTyped DEF TypeOK
<1> HIDE DEF x, kind
<1>3. \A y \in Worker, pc \in Steps : [y EXCEPT !.pc = pc].new = y.new
  BY DEF Worker
<1>4. CASE BeginTerminating(n)
  <2> DEFINE y == [x EXCEPT !.new.cond = "Terminating"]
  <2>1. y \in Worker /\ y.new.type = kind
    BY <1>2 DEF Worker, Conditions
  <2>2. w' \in {Unprotecting(y), Failing(y), [y EXCEPT !.pc = "findWorkload"]}
    BY <1>4 DEF BeginTerminating, x
  <2> HIDE DEF y
  <2>3. [y EXCEPT !.pc = "findWorkload"].new.type = kind
    BY <1>3, <2>1 DEF Steps
  <2>4. \A z \in {Unprotecting(y), Failing(y)} : z.new.type = kind
    BY <2>1, TurnsKeepKind
  <2>5. QED BY <2>2, <2>3, <2>4 DEF kind
<1>5. CASE BeginExpired(n) \/ BeginWaiting(n)
  <2>1. w' = Updating(x) \/ w' = [x EXCEPT !.pc = "expire"]
    BY <1>5 DEF BeginExpired, BeginWaiting, x
  <2>2. Updating(x).new.type = kind
    BY <1>2, TurnsKeepKind
  <2>3. [x EXCEPT !.pc = "expire"].new.type = kind
    BY <1>2, <1>3 DEF Steps
  <2>4. QED BY <2>1, <2>2, <2>3 DEF kind
<1>6. CASE BeginManaging(n)
  <2> DEFINE y == [x EXCEPT !.new.prot = TRUE]
  <2>1. y \in Worker /\ y.new.type = kind
    BY <1>2 DEF Worker
  <2>2. w' \in {Creating(y), [y EXCEPT !.pc = "protect"]}
    BY <1>6 DEF BeginManaging, x
  <2> HIDE DEF y
  <2>3. [y EXCEPT !.pc = "protect"].new.type = kind
    BY <1>3, <2>1 DEF Steps
  <2>4. \A z \in {Creating(y)} : z.new.type = kind
    BY <2>1, TurnsKeepKind
  <2>5. QED BY <2>2, <2>3, <2>4 DEF kind
<1>7. QED BY <1>1, <1>4, <1>5, <1>6 DEF Begin, BeginGone, kind

-----------------------------------------------------------------------------
(* Kinds *)

\* The kind of an inline spec is one of those it sets.
LEMMA InlineKind ==
    ASSUME NEW s \in Sandbox, s.inline # NoSpec
    PROVE  LET t == DetectSandboxType(s.inline) IN t \in Types /\ t \in s.inline.kinds
<1>1. s.inline \in TemplateSpecs \cup InlineSpecs
  BY DEF Sandbox, Specs
<1>2. s.inline.kinds \in (SUBSET Types) \ {{}}
  BY <1>1, ConstantsAssumption DEF ConstantsAssumption
<1>3. CASE "Pod" \in s.inline.kinds \/ "KubevirtVMI" \in s.inline.kinds
  BY <1>3 DEF DetectSandboxType, Types
<1>4. CASE "Pod" \notin s.inline.kinds /\ "KubevirtVMI" \notin s.inline.kinds
  <2>1. s.inline.kinds = {"DVPVM"}
    BY <1>2, <1>4 DEF Types
  <2>2. QED BY <2>1 DEF DetectSandboxType, Types
<1>5. QED BY <1>3, <1>4

\* Whoever writes a sandbox keeps its spec, and its kind but for the kind the spec has.
LEMMA KindsKept ==
    ASSUME LifecycleInv, LifecycleInv', KindsInv, Next PROVE KindsInv'
<1>1. sandboxes \in [Names -> Sandbox] /\ cSandboxes \in [Names -> Sandbox] /\ TypeOK
  BY DEF LifecycleInv, ProtectionInv, TypeOK, ApiTypeOK, CacheTypeOK
<1>2. ~(NoSandbox.inline # NoSpec)
  BY DEF NoSandbox
<1>3. \A s \in Sandbox : KindRight(s) => KindRight(Deleted(s, NoSandbox))
  BY <1>2 DEF Deleted, KindRight, Sandbox
<1>4. ASSUME NEW n \in Names PROVE KindRight(sandboxes'[n])
  <2>0. KindRight(sandboxes[n])
    BY DEF KindsInv
  <2>1. CASE UNCHANGED sandboxes
    BY <2>0, <2>1
  <2>2. ASSUME NEW m \in Names, CreateSandbox(m) PROVE KindRight(sandboxes'[n])
    <3>1. PICK x : sandboxes' = [sandboxes EXCEPT ![m] = x] /\ x.type = NoType
      <4>1. PICK x : /\ sandboxes' = [sandboxes EXCEPT ![m] = x]
                     /\ \/ \E t \in Templates :
                              x = [NoSandbox EXCEPT !.uid = born[m] + 1, !.tmpl = t]
                        \/ \E i \in InlineSpecs :
                              x = [NoSandbox EXCEPT !.uid = born[m] + 1, !.inline = i]
        BY <2>2, Zenon DEF CreateSandbox
      <4>2. x.type = NoType
        BY <4>1 DEF NoSandbox
      <4>3. QED BY <4>1, <4>2
    <3>2. QED BY <1>1, <2>0, <3>1 DEF KindRight
  <2>3. ASSUME NEW m \in Names, DeleteSandbox(m) PROVE KindRight(sandboxes'[n])
    <3>1. sandboxes' = [sandboxes EXCEPT ![m] = Deleted(sandboxes[m], NoSandbox)]
      BY <2>3 DEF DeleteSandbox
    <3>2. QED BY <1>1, <1>3, <2>0, <3>1
  <2>4. CASE Expire
    <3>1. \/ UNCHANGED sandboxes
          \/ sandboxes' = [sandboxes EXCEPT ![w.name] = Deleted(sandboxes[w.name], NoSandbox)]
      BY <2>4 DEF Expire
    <3>2. QED BY <1>1, <1>3, <2>0, <3>1
  <2>5. CASE UpdateStatus /\ sandboxes' # sandboxes
    <3> DEFINE s == sandboxes[w.name]
    <3>1. /\ w.pc # "idle" /\ s = w.old
          /\ sandboxes' = [sandboxes EXCEPT ![w.name].type = w.new.type,
                                            ![w.name].cond = w.new.cond]
      BY <2>5 DEF UpdateStatus, StatusConflict
    <3>2. w.name \in Names
      BY <1>1, <3>1, KeyTyped
    <3>3. s.inline # NoSpec => w.new.type = DetectSandboxType(s.inline)
      BY <3>1 DEF KindsInv
    <3>4. CASE n = w.name
      <4>1. sandboxes'[n].inline = s.inline /\ sandboxes'[n].type = w.new.type
        BY <1>1, <3>1, <3>4 DEF Sandbox
      <4>2. QED BY <3>3, <4>1 DEF KindRight
    <3>5. CASE n # w.name
      BY <1>1, <2>0, <3>1, <3>5
    <3>6. QED BY <3>4, <3>5
  <2>6. CASE UpdateMeta /\ sandboxes' # sandboxes
    <3> DEFINE s == sandboxes[w.name]
    <3>1. /\ w.name \in Names
          /\ \/ sandboxes' = [sandboxes EXCEPT ![w.name] = [s EXCEPT !.prot = TRUE]]
             \/ sandboxes' = [sandboxes EXCEPT ![w.name] = NoSandbox]
      BY <2>6, MetaPatch DEF LifecycleInv
    <3>2. [s EXCEPT !.prot = TRUE].inline = s.inline /\ [s EXCEPT !.prot = TRUE].type = s.type
      BY <1>1, <3>1 DEF Sandbox
    <3>3. KindRight(s)
      BY <3>1 DEF KindsInv
    <3>4. KindRight([s EXCEPT !.prot = TRUE]) /\ KindRight(NoSandbox)
      BY <1>2, <3>2, <3>3 DEF KindRight
    <3>5. QED BY <1>1, <2>0, <3>1, <3>4
  <2>7. QED
    BY <2>1, <2>2, <2>3, <2>4, <2>5, <2>6
    DEF Next, User, Cluster, Informers, Controller, WorkerStep, CreateTemplate, DeleteTemplate,
        WorkloadPhase, EvictWorkload, WorkloadGone, ChangeWorkload, CollectOrphans, RunOut,
        SyncSandbox, SyncTemplate, SyncWorkload, SyncDisks, FireTimer, Restart,
        Begin, BeginGone, BeginTerminating, BeginExpired, BeginWaiting, BeginManaging, Take,
        ProtectTemplate, ListDisks, CreateDisk, ReadWorkload, CreateWorkload, ReplaceWorkload,
        ReadStatus, FindWorkload, DeleteWorkload, ListOwned, DeleteDisk, UnprotectTemplate,
        DeletingWorkload, api
<1>5. ASSUME NEW n \in Names PROVE KindRight(cSandboxes'[n])
  BY CachedSandboxes DEF KindsInv
<1>6. ASSUME w'.pc # "idle", w'.old.inline # NoSpec
      PROVE  w'.new.type = DetectSandboxType(w'.old.inline)
  <2>1. ASSUME w.pc # "idle", w'.old = w.old, w'.new.type = w.new.type
        PROVE  w'.new.type = DetectSandboxType(w'.old.inline)
    BY <1>6, <2>1 DEF KindsInv
  <2>2. ASSUME NEW n \in Names, Begin(n) PROVE w'.new.type = DetectSandboxType(w'.old.inline)
    <3>1. w'.new.type = TypeFor(cSandboxes[n], TemplateFor(cSandboxes[n])) /\ w'.old = cSandboxes[n]
      BY <1>1, <1>6, <2>2, BeginCopies, BeginKind
    <3>2. KindRight(cSandboxes[n])
      BY DEF KindsInv
    <3>3. QED BY <1>6, <3>1, <3>2 DEF KindRight, TypeFor, SpecFor
  <2>3. CASE WorkerStep /\ ~UpdateStatus /\ ~UpdateMeta
    <3>1. w.pc # "idle" /\ w'.old = w.old /\ w'.new.type = w.new.type
      BY <2>3, WorkerCarries, WorkerKeepsKind DEF LifecycleInv, ProtectionInv, Carries
    <3>2. QED BY <2>1, <3>1
  <2>4. CASE UpdateStatus
    <3>1. w.pc # "idle" /\ w \in Worker
      BY <1>1, <2>4, BusyTyped DEF UpdateStatus
    <3>2. w' = [w EXCEPT !.pc = "updateMeta", !.new.prot = @ \/ sandboxes[w.name].prot]
      BY <1>6, <2>4, IdleTyped DEF UpdateStatus, Return
    <3>3. w'.old = w.old /\ w'.new.type = w.new.type
      BY <3>1, <3>2 DEF Worker
    <3>4. QED BY <2>1, <3>1, <3>3
  <2>5. CASE UpdateMeta \/ Restart
    BY <1>6, <2>5, IdleTyped DEF UpdateMeta, Restart, Return
  <2>6. QED BY <1>6, <2>1, <2>2, <2>3, <2>4, <2>5, WorkerAlone DEF WorkerStep
<1>7. QED BY <1>4, <1>5, <1>6 DEF KindsInv

-----------------------------------------------------------------------------
(* Children *)

\* A class of disks is owned by the kind that lists it.
LEMMA ListedOwned ==
    ASSUME TypeOK, TodoInv, ListDisks, w.old.inline # NoSpec
    PROVE  MissingDisks(ListedClass) \subseteq Needed(w.new.type, w.old.inline)
<1>1. w.new.type \in Types
  BY BusyTyped DEF ListDisks, Holding, ChildSteps, Steps
<1>2. ListedClass \in OwnedClasses[w.new.type]
  BY <1>1 DEF ListDisks, ListedClass, TodoInv, Type_, OwnedClasses, FirstClass, Types
<1>3. Spec_ = w.old.inline
  BY DEF Spec_, SpecFor
<1>4. QED BY <1>2, <1>3 DEF MissingDisks, Needed, OwnedDisks

\* What is left to make stays asked for, and claims follow DataVolumes only.
LEMMA TodoKept ==
    ASSUME LifecycleInv, TodoInv, Next PROVE TodoInv'
<1> SUFFICES ASSUME w'.old.inline # NoSpec, w'.pc \in {"createDisk", "listClaims"}
             PROVE  /\ w'.pc = "createDisk" => w'.todo \subseteq Needed(w'.new.type, w'.old.inline)
                    /\ w'.pc = "listClaims" => w'.new.type = "KubevirtVMI"
  BY DEF TodoInv, Needed, OwnedDisks
<1>1. TypeOK /\ w'.pc \in MakingSteps /\ w'.pc # "createWorkload"
  BY DEF LifecycleInv, ProtectionInv, MakingSteps
<1>2. CASE UNCHANGED w
  BY <1>2 DEF TodoInv
<1>3. ASSUME NEW n \in Names, Begin(n) PROVE UNCHANGED w
  BY <1>1, <1>3, BeginsBefore DEF BuildSteps
<1>4. CASE Restart
  BY <1>4, IdleTyped DEF Restart
<1>5. CASE WorkerStep /\ ~ListDisks /\ ~CreateDisk
  BY <1>1, <1>5, OtherSteps DEF BuildSteps
<1>6. ASSUME NEW class, class = "DV" => w.new.type = "KubevirtVMI", NEW x \in Worker,
             w' = Making(x, class), x.new = w.new
      PROVE  w'.pc = "listClaims" /\ w'.new.type = "KubevirtVMI"
  <2>1. w'.pc = (IF class = "DV" THEN "listClaims" ELSE "readWorkload") /\ w'.new = x.new
    BY <1>6 DEF Making, Worker
  <2>2. QED BY <1>6, <2>1
<1>7. \A t \in Types : \A d : d.class \in OwnedClasses[t] /\ d.class = "DV" => t = "KubevirtVMI"
  BY DEF Types, OwnedClasses
<1>8. CASE ListDisks
  <2>1. w \in Worker /\ w.old = w'.old /\ w.new.type \in Types
    <3>1. w \in Worker /\ w.new.type \in Types
      BY <1>1, <1>8, BusyTyped DEF ListDisks, Holding, ChildSteps, Steps
    <3>2. WorkerStep /\ ~UpdateStatus /\ ~UpdateMeta
      BY <1>8 DEF WorkerStep, ListDisks, UpdateStatus, UpdateMeta
    <3>3. QED BY <3>1, <3>2, WorkerCarries DEF LifecycleInv, ProtectionInv, Carries
  <2>2. MissingDisks(ListedClass) \subseteq Needed(w.new.type, w.old.inline)
    BY <1>1, <1>8, <2>1, ListedOwned
  <2>3. CASE w' = [w EXCEPT !.pc = "createDisk", !.todo = MissingDisks(ListedClass)]
    <3>1. w'.pc = "createDisk" /\ w'.todo = MissingDisks(ListedClass) /\ w'.new = w.new
      BY <2>1, <2>3 DEF Worker
    <3>2. QED BY <2>1, <2>2, <3>1
  <2>4. CASE w' = Making(w, ListedClass)
    <3>1. ListedClass = "DV" => w.new.type = "KubevirtVMI"
      BY <2>1 DEF ListedClass, FirstClass, Types, Type_
    <3>2. QED BY <1>6, <2>1, <2>4, <3>1
  <2>5. QED BY <1>8, <2>3, <2>4 DEF ListDisks
<1>9. CASE CreateDisk
  <2> DEFINE left(d) == [w EXCEPT !.todo = @ \ {d}]
             failed == CreateFailing([w EXCEPT !.todo = {}])
  <2>1. w \in Worker /\ w.old = w'.old /\ w.new.type \in Types /\ w.pc = "createDisk"
    <3>1. w \in Worker /\ w.new.type \in Types
      BY <1>1, <1>9, BusyTyped DEF CreateDisk, Holding, ChildSteps, Steps
    <3>2. WorkerStep /\ ~UpdateStatus /\ ~UpdateMeta /\ w.pc = "createDisk"
      BY <1>9 DEF WorkerStep, CreateDisk, UpdateStatus, UpdateMeta
    <3>3. QED BY <3>1, <3>2, WorkerCarries DEF LifecycleInv, ProtectionInv, Carries
  <2>2. w.todo \subseteq Needed(w.new.type, w.old.inline)
    BY <2>1 DEF TodoInv
  <2>3. PICK d \in w.todo : w' \in {Making(left(d), d.class), left(d), failed}
    BY <1>9 DEF CreateDisk, Applied, NotApplied
  <2>4. left(d) \in Worker /\ left(d).new = w.new /\ left(d).todo = w.todo \ {d} /\ left(d).pc = w.pc
        /\ [w EXCEPT !.todo = {}] \in Worker
    BY <2>1 DEF Worker
  <2>5. d.class = "DV" => w.new.type = "KubevirtVMI"
    BY <1>7, <2>1, <2>2 DEF Needed, OwnedDisks
  <2> HIDE DEF left
  <2>6. CASE w' = Making(left(d), d.class)
    BY <1>6, <2>4, <2>5, <2>6
  <2>7. CASE w' = left(d)
    BY <2>1, <2>2, <2>4, <2>7
  <2>8. CASE w' = failed
    BY <1>1, <2>4, <2>8, TurnsAway DEF BuildSteps
  <2>9. QED BY <2>3, <2>6, <2>7, <2>8
<1>10. QED BY <1>2, <1>3, <1>4, <1>5, <1>8, <1>9, WorkerAlone

\* A disk appears only because the worker makes it.
LEMMA DisksAppear ==
    ASSUME LifecycleInv, Next, NEW k \in Keys, NEW d \in disks'[k], d \notin disks[k]
    PROVE  CreateDisk /\ k = Key /\ d \in w.todo
<1>1. disks \in [Keys -> SUBSET Disks]
  BY DEF LifecycleInv, ProtectionInv, TypeOK, ApiTypeOK
<1>2. ASSUME NEW j \in Keys, CollectOrphans(j) PROVE FALSE
  BY <1>1, <1>2 DEF CollectOrphans
<1>3. CASE DeleteDisk
  <2>1. \/ UNCHANGED disks
        \/ \E e : disks' = [disks EXCEPT ![Key] = @ \ {e}]
    BY <1>3 DEF DeleteDisk
  <2>2. QED BY <1>1, <2>1
<1>4. CASE CreateDisk
  <2>1. \/ UNCHANGED disks
        \/ \E e \in w.todo : disks' = [disks EXCEPT ![Key] = @ \cup {e}]
    BY <1>4 DEF CreateDisk
  <2>2. QED BY <1>1, <1>4, <2>1
<1>5. QED
  BY <1>2, <1>3, <1>4
  DEF Next, User, Cluster, Informers, Controller, WorkerStep, CreateSandbox, DeleteSandbox,
      CreateTemplate, DeleteTemplate, WorkloadPhase, EvictWorkload, WorkloadGone,
      ChangeWorkload, RunOut, SyncSandbox, SyncTemplate, SyncWorkload, SyncDisks, FireTimer,
      Restart, Begin, BeginGone, BeginTerminating, BeginExpired, BeginWaiting, BeginManaging,
      Take, Expire, ProtectTemplate, ListDisks, ReadWorkload, CreateWorkload, ReplaceWorkload,
      ReadStatus, FindWorkload, DeleteWorkload, ListOwned, UnprotectTemplate, DeletingWorkload,
      UpdateStatus, UpdateMeta, api

\* The worker that makes something for a living sandbox goes by its spec and its kind.
LEMMA MakesForLiving ==
    ASSUME LifecycleInv, SpecInv, KindsInv, NEW n \in Names, Inline(n), w.pc # "idle",
           Key = KeyOf(n)
    PROVE  w.name = n /\ w.old.inline = sandboxes[n].inline /\ w.new.type = KindOf(n)
           /\ w.old.inline # NoSpec
<1>1. w.name = n /\ w.old.uid = sandboxes[n].uid
  BY DEF Key, KeyOf
<1>2. w.old.inline = sandboxes[n].inline
  BY <1>1 DEF SpecInv, Inline
<1>3. QED BY <1>1, <1>2 DEF KindsInv, Inline, KindOf

\* Nobody gives a living sandbox children that its spec does not ask for.
LEMMA OwnKept ==
    ASSUME LifecycleInv, LifecycleInv', UnbornInv, SpecInv, KindsInv, TodoInv, OwnInv, Next
    PROVE  OwnInv'
<1> SUFFICES ASSUME NEW n \in Names, Inline(n)'
             PROVE  /\ Present(KeyOf(n))' \subseteq {KindOf(n)'}
                    /\ disks'[KeyOf(n)'] \subseteq Needed(KindOf(n)', sandboxes'[n].inline)
  BY DEF OwnInv, Needed, OwnedDisks
<1>0. Alive(n)' /\ sandboxes'[n].inline # NoSpec
  BY DEF Inline
<1>1. CASE /\ Alive(n) /\ sandboxes'[n].uid = sandboxes[n].uid
           /\ sandboxes'[n].inline = sandboxes[n].inline
  <2>1. PICK k \in Keys : KeyOf(n)' = k /\ KeyOf(n) = k
    BY <1>1, DisksStay DEF KeyOf
  <2>2. Inline(n) /\ KindOf(n)' = KindOf(n)
    BY <1>0, <1>1 DEF Inline, KindOf
  <2>3. Present(k) \subseteq {KindOf(n)} /\ disks[k] \subseteq Needed(KindOf(n), sandboxes[n].inline)
    BY <2>1, <2>2 DEF OwnInv
  <2>4. ASSUME NEW t \in Present(k)' PROVE t = KindOf(n)
    <3>1. CASE t \in Present(k)
      BY <2>3, <3>1
    <3>2. CASE t \notin Present(k)
      <4>1. t \in Types
        BY DEF Present
      <4>2. CreateWorkload /\ k = Key /\ t = Type_
        BY <3>2, <4>1, WorkloadsAppear
      <4>3. w.pc # "idle"
        BY <4>2 DEF CreateWorkload
      <4>4. QED BY <2>1, <2>2, <4>2, <4>3, MakesForLiving DEF Type_
    <3>3. QED BY <3>1, <3>2
  <2>5. ASSUME NEW d \in disks'[k] PROVE d \in Needed(KindOf(n), sandboxes[n].inline)
    <3>1. CASE d \in disks[k]
      BY <2>3, <3>1
    <3>2. CASE d \notin disks[k]
      <4>1. CreateDisk /\ k = Key /\ d \in w.todo
        BY <3>2, DisksAppear
      <4>2. w.pc = "createDisk"
        BY <4>1 DEF CreateDisk
      <4>3. w.old.inline = sandboxes[n].inline /\ w.new.type = KindOf(n) /\ w.old.inline # NoSpec
        BY <2>1, <2>2, <4>1, <4>2, MakesForLiving
      <4>4. w.todo \subseteq Needed(w.new.type, w.old.inline)
        BY <4>2, <4>3 DEF TodoInv
      <4>5. QED BY <4>1, <4>3, <4>4
    <3>3. QED BY <3>1, <3>2
  <2>6. Present(KeyOf(n))' = Present(k)'
    BY <2>1 DEF Present
  <2>7. QED BY <1>1, <2>1, <2>2, <2>4, <2>5, <2>6
<1>2. CASE sandboxes'[n].uid = born[n] + 1 /\ born'[n] = born[n] + 1
  <2>1. PICK i \in Incarnations : i = born[n] + 1 /\ i > born[n] /\ KeyOf(n)' = <<n, i>>
    <3>1. sandboxes'[n] \in Sandbox
      BY DEF LifecycleInv, ProtectionInv, TypeOK, ApiTypeOK
    <3>2. born[n] + 1 \in Incarnations /\ born[n] + 1 > born[n]
      BY <1>2, <3>1, UidsBorn DEF Sandbox, Incarnations
    <3>3. QED BY <1>2, <3>2 DEF KeyOf
  <2> DEFINE k == <<n, i>>
  <2>2. Present(k) = {} /\ disks[k] = {} /\ (w.pc # "idle" => k # Key) /\ k \in Keys
    BY <2>1, UidsBorn DEF UnbornInv, Key, Keys
  <2>3. KeyOf(n)' = k
    BY <2>1
  <2> HIDE DEF k
  <2>4. ASSUME NEW t \in Present(k)' PROVE FALSE
    <3>1. t \in Types
      BY DEF Present
    <3>2. CreateWorkload /\ k = Key
      BY <2>2, <3>1, WorkloadsAppear
    <3>3. QED BY <2>2, <3>2 DEF CreateWorkload
  <2>5. ASSUME NEW d \in disks'[k] PROVE FALSE
    <3>1. CreateDisk /\ k = Key
      BY <2>2, DisksAppear
    <3>2. QED BY <2>2, <3>1 DEF CreateDisk
  <2>6. Present(KeyOf(n))' = Present(k)'
    BY <2>3 DEF Present
  <2>7. QED BY <2>3, <2>4, <2>5, <2>6
<1>3. QED BY <1>0, <1>1, <1>2, AliveBefore DEF Survives

-----------------------------------------------------------------------------
(* Events *)

\* A write of one workload, which adds an event if the owner is to be woken.
Writes(k, t) == \E to : WriteWorkload(k, t, to)

\* Workloads are only written so, but for the deletion marks of the collector.
LEMMA WorkloadWrites ==
    ASSUME LifecycleInv, Next
    PROVE  \/ UNCHANGED workloads
           \/ \E k \in Keys : CollectOrphans(k)
           \/ /\ UNCHANGED <<cWorkloads, gates>>
              /\ \E k \in Keys, t \in Types : Writes(k, t)
<1>1. TypeOK
  BY DEF LifecycleInv, ProtectionInv
<1>2. ASSUME NEW k \in Keys, NEW t \in Types, NEW to, ChangeWorkload(k, t, to)
      PROVE  UNCHANGED <<cWorkloads, gates>> /\ Writes(k, t)
  BY <1>2 DEF ChangeWorkload, Writes, caches, world
<1>3. ASSUME NEW k \in Keys, NEW t \in Types,
             WorkloadPhase(k, t) \/ EvictWorkload(k, t) \/ WorkloadGone(k, t)
      PROVE  UNCHANGED <<cWorkloads, gates>> /\ Writes(k, t)
  BY <1>2, <1>3 DEF WorkloadPhase, EvictWorkload, WorkloadGone
<1>4. CASE CreateWorkload \/ ReplaceWorkload \/ DeleteWorkload
  <2>1. w.pc \in ChildSteps /\ w.pc # "idle"
    BY <1>4 DEF CreateWorkload, ReplaceWorkload, DeleteWorkload, ChildSteps, Steps
  <2>2. Key \in Keys /\ Type_ \in Types
    BY <1>1, <2>1, BusyTyped, KeyTyped DEF Holding, Type_
  <2>3. UNCHANGED <<cWorkloads, gates>> /\ (UNCHANGED workloads \/ Writes(Key, Type_))
    BY <1>4 DEF CreateWorkload, ReplaceWorkload, DeleteWorkload, DeletingWorkload, Writes,
       UnchangedButEvents, caches
  <2>4. QED BY <2>2, <2>3
<1>5. QED
  BY <1>3, <1>4
  DEF Next, User, Cluster, Informers, Controller, WorkerStep, CreateSandbox, DeleteSandbox,
      CreateTemplate, DeleteTemplate, RunOut, SyncSandbox, SyncTemplate, SyncWorkload, SyncDisks,
      FireTimer, Restart, Begin, BeginGone, BeginTerminating, BeginExpired, BeginWaiting,
      BeginManaging, Take, Expire, ProtectTemplate, ListDisks, CreateDisk, ReadWorkload,
      ReadStatus, FindWorkload, ListOwned, DeleteDisk, UnprotectTemplate, UpdateStatus,
      UpdateMeta, api

\* The collector changes no phase.
LEMMA CollectorMarks ==
    ASSUME LifecycleInv, NEW j \in Keys, CollectOrphans(j), NEW k \in Keys, NEW t \in Types
    PROVE  workloads'[k][t].phase = workloads[k][t].phase
<1>1. workloads \in [Keys -> [Types -> Workload]]
  BY DEF LifecycleInv, ProtectionInv, TypeOK, ApiTypeOK
<1>2. workloads' = [workloads EXCEPT ![j] =
          [u \in Types |-> [workloads[j][u] EXCEPT !.del = @ \/ workloads[j][u].phase # Absent]]]
  BY DEF CollectOrphans
<1>3. CASE k = j
  <2>1. workloads'[k][t] = [workloads[j][t] EXCEPT !.del = @ \/ workloads[j][t].phase # Absent]
    BY <1>1, <1>2, <1>3
  <2>2. workloads[j][t] \in Workload
    BY <1>1
  <2>3. QED BY <1>3, <2>1, <2>2 DEF Workload
<1>4. QED BY <1>1, <1>2, <1>3

\* A step that changes the phase of a workload whose kind is enabled leaves an event.
LEMMA PhaseChanges ==
    ASSUME LifecycleInv, Next, NEW k \in Keys, NEW t \in Types, GateOpen(t, gates),
           workloads'[k][t].phase # workloads[k][t].phase
    PROVE  k \in events' /\ UNCHANGED <<cWorkloads, gates>>
<1>1. workloads \in [Keys -> [Types -> Workload]]
  BY DEF LifecycleInv, ProtectionInv, TypeOK, ApiTypeOK
<1>2. PICK j \in Keys, u \in Types : Writes(j, u) /\ UNCHANGED <<cWorkloads, gates>>
  BY WorkloadWrites, CollectorMarks
<1>3. PICK to : WriteWorkload(j, u, to)
  BY <1>2 DEF Writes
<1>4. j = k /\ u = t /\ workloads'[k][t] = to
  BY <1>1, <1>3 DEF WriteWorkload
<1>5. QED BY <1>2, <1>3, <1>4 DEF WriteWorkload, WakesOwner

\* An event that is gone has put its name in the queue, or everything is listed anew.
LEMMA EventsKeep ==
    ASSUME Next, ~Restart, NEW k \in Keys, k \in events, k \notin events'
    PROVE  SyncWorkload(k) /\ k[1] \in queue'
<1>1. ASSUME NEW j \in Keys, SyncWorkload(j) PROVE SyncWorkload(k) /\ k[1] \in queue'
  BY <1>1 DEF SyncWorkload
<1>2. ASSUME NEW j \in Keys, NEW t \in Types, NEW to, ChangeWorkload(j, t, to) PROVE FALSE
  BY <1>2 DEF ChangeWorkload, WriteWorkload
<1>3. ASSUME NEW j \in Keys, NEW t \in Types,
             WorkloadPhase(j, t) \/ EvictWorkload(j, t) \/ WorkloadGone(j, t)
      PROVE  FALSE
  BY <1>2, <1>3 DEF WorkloadPhase, EvictWorkload, WorkloadGone
<1>4. CASE CreateWorkload \/ ReplaceWorkload \/ DeleteWorkload
  BY <1>4 DEF CreateWorkload, ReplaceWorkload, DeleteWorkload, DeletingWorkload, WriteWorkload
<1>5. QED
  BY <1>1, <1>3, <1>4
  DEF Next, User, Cluster, Informers, Controller, WorkerStep, CreateSandbox, DeleteSandbox,
      CreateTemplate, DeleteTemplate, RunOut, CollectOrphans, SyncSandbox, SyncTemplate,
      SyncDisks, FireTimer, Begin, BeginGone, BeginTerminating, BeginExpired, BeginWaiting,
      BeginManaging, Take, Expire, ProtectTemplate, ListDisks, CreateDisk, ReadWorkload,
      ReadStatus, FindWorkload, ListOwned, DeleteDisk, UnprotectTemplate, UpdateStatus,
      UpdateMeta, UnchangedButErrors, sched

\* The gates are those the process was started with, and what the cache shows of a
\* workload changes when it is brought up to date.
LEMMA WorkloadsRead ==
    ASSUME LifecycleInv, Next
    PROVE  \/ UNCHANGED <<gates, cWorkloads>>
           \/ Restart /\ cWorkloads' = workloads /\ UNCHANGED workloads
           \/ /\ UNCHANGED <<gates, workloads>>
              /\ \E k \in Keys : SyncWorkload(k)
<1>1. Restart => cWorkloads' = workloads /\ UNCHANGED workloads
  BY DEF Restart, api
<1>2. ASSUME NEW k \in Keys, SyncWorkload(k) PROVE UNCHANGED <<gates, workloads>>
  BY <1>2 DEF SyncWorkload, api, world
<1>3. WorkerStep => UNCHANGED <<gates, cWorkloads>>
  BY DEF WorkerStep, Expire, ProtectTemplate, ListDisks, CreateDisk, ReadWorkload,
     CreateWorkload, ReplaceWorkload, ReadStatus, FindWorkload, DeleteWorkload, ListOwned,
     DeleteDisk, UnprotectTemplate, DeletingWorkload, UpdateStatus, UpdateMeta,
     UnchangedButErrors, UnchangedButEvents, caches, world
<1>4. User \/ Cluster => UNCHANGED <<gates, cWorkloads>>
  BY ZenonT(60)
  DEF User, Cluster, CreateSandbox, DeleteSandbox, CreateTemplate, DeleteTemplate,
     WorkloadPhase, EvictWorkload, WorkloadGone, ChangeWorkload, CollectOrphans, RunOut,
     caches, world
<1>5. Informers => UNCHANGED <<gates, cWorkloads>> \/ \E k \in Keys : SyncWorkload(k)
  BY DEF Informers, SyncSandbox, SyncTemplate, SyncDisks, world
<1>6. ASSUME NEW n \in Names, Begin(n) \/ FireTimer(n) PROVE UNCHANGED <<gates, cWorkloads>>
  BY <1>6 DEF Begin, BeginGone, BeginTerminating, BeginExpired, BeginWaiting, BeginManaging,
     Take, FireTimer, caches, world
<1>7. QED BY <1>1, <1>2, <1>3, <1>4, <1>5, <1>6 DEF Next, Controller

\* No phase change is lost between the server and the cache.
LEMMA EventKept ==
    ASSUME LifecycleInv, EventInv, Next PROVE EventInv'
<1> SUFFICES ASSUME NEW k \in Keys, NEW t \in Types, GateOpen(t, gates'),
                    cWorkloads'[k][t].phase # workloads'[k][t].phase
             PROVE  k \in events'
  BY DEF EventInv, GateOpen
<1>1. cWorkloads \in [Keys -> [Types -> Workload]]
  BY DEF LifecycleInv, ProtectionInv, TypeOK, CacheTypeOK
<1>2. ~Restart
  BY DEF Restart, api
<1>3. UNCHANGED gates
  BY <1>2, WorkloadsRead
<1>4. CASE workloads'[k][t].phase # workloads[k][t].phase
  BY <1>3, <1>4, PhaseChanges
<1>5. CASE workloads'[k][t].phase = workloads[k][t].phase
  <2>1. cWorkloads'[k] = cWorkloads[k]
    <3>1. ASSUME NEW j \in Keys, SyncWorkload(j) PROVE cWorkloads'[k] = cWorkloads[k]
      <4>1. cWorkloads' = [cWorkloads EXCEPT ![j] = workloads[j]]
        BY <3>1 DEF SyncWorkload
      <4>2. k # j
        BY <1>1, <1>5, <4>1
      <4>3. QED BY <1>1, <4>1, <4>2
    <3>2. QED BY <1>2, <3>1, WorkloadsRead
  <2>2. k \in events
    BY <1>3, <1>5, <2>1 DEF EventInv
  <2>3. ~SyncWorkload(k)
    BY <1>1, <1>5 DEF SyncWorkload
  <2>4. QED BY <1>2, <2>2, <2>3, EventsKeep
<1>6. QED BY <1>4, <1>5

-----------------------------------------------------------------------------
(* A living sandbox that nobody is to be woken for *)

\* What a step makes a living sandbox, as the cache shows it, was one before, unless it
\* is the status write.
LEMMA LivingStays ==
    ASSUME LifecycleInv, Next, ~UpdateStatus, NEW n \in Names, Alive(n)',
           sandboxes'[n] = cSandboxes[n]
    PROVE  sandboxes'[n] = sandboxes[n]
<1> DEFINE s == sandboxes[n]
<1>1. /\ sandboxes \in [Names -> Sandbox] /\ CopyInv(cSandboxes[n], s, born[n])
      /\ born[n] \in Nat /\ cSandboxes[n].uid \in Nat
  BY UidsBorn DEF LifecycleInv, ProtectionInv, TypeOK, ApiTypeOK, NamesInv
<1>2. sandboxes'[n].uid # 0 /\ ~sandboxes'[n].del
  BY DEF Alive
<1>3. NoSandbox.uid = 0
  BY DEF NoSandbox
<1>4. sandboxes'[n] # Deleted(s, NoSandbox)
  BY <1>1, <1>2, <1>3 DEF Deleted, Sandbox
<1>5. CASE UNCHANGED sandboxes
  BY <1>5
<1>6. ASSUME NEW m \in Names, CreateSandbox(m) PROVE sandboxes'[n] = s
  <2>1. PICK x : sandboxes' = [sandboxes EXCEPT ![m] = x] /\ x.uid = born[m] + 1
    <3>1. PICK x : /\ sandboxes' = [sandboxes EXCEPT ![m] = x]
                   /\ \/ \E t \in Templates :
                            x = [NoSandbox EXCEPT !.uid = born[m] + 1, !.tmpl = t]
                      \/ \E i \in InlineSpecs :
                            x = [NoSandbox EXCEPT !.uid = born[m] + 1, !.inline = i]
      BY <1>6, Zenon DEF CreateSandbox
    <3>2. x.uid = born[m] + 1
      BY <3>1 DEF NoSandbox
    <3>3. QED BY <3>1, <3>2
  <2>2. cSandboxes[n].uid # born[n] + 1
    BY <1>1 DEF CopyInv
  <2>3. QED BY <1>1, <2>1, <2>2
<1>7. ASSUME NEW m \in Names, DeleteSandbox(m) PROVE sandboxes'[n] = s
  <2>1. sandboxes' = [sandboxes EXCEPT ![m] = Deleted(sandboxes[m], NoSandbox)]
    BY <1>7 DEF DeleteSandbox
  <2>2. QED BY <1>1, <1>4, <2>1
<1>8. CASE Expire
  <2>1. \/ UNCHANGED sandboxes
        \/ sandboxes' = [sandboxes EXCEPT ![w.name] = Deleted(sandboxes[w.name], NoSandbox)]
    BY <1>8 DEF Expire
  <2>2. QED BY <1>1, <1>4, <2>1
<1>9. CASE UpdateMeta /\ sandboxes' # sandboxes
  <2> DEFINE m == w.name
  <2>1. /\ m \in Names
        /\ \/ /\ ~sandboxes[m].prot
              /\ sandboxes' = [sandboxes EXCEPT ![m] = [sandboxes[m] EXCEPT !.prot = TRUE]]
           \/ sandboxes' = [sandboxes EXCEPT ![m] = NoSandbox]
    BY <1>9, MetaPatch DEF LifecycleInv
  <2>2. CASE n # m
    BY <1>1, <2>1, <2>2
  <2>3. CASE n = m
    <3>1. ~s.prot /\ sandboxes'[n].prot /\ sandboxes'[n].uid = s.uid
      BY <1>1, <1>2, <1>3, <2>1, <2>3 DEF Sandbox
    <3>2. QED BY <1>1, <3>1 DEF CopyInv
  <2>4. QED BY <2>2, <2>3
<1>10. QED
  BY <1>5, <1>6, <1>7, <1>8, <1>9
  DEF Next, User, Cluster, Informers, Controller, WorkerStep, CreateTemplate, DeleteTemplate,
      WorkloadPhase, EvictWorkload, WorkloadGone, ChangeWorkload, CollectOrphans, RunOut,
      SyncSandbox, SyncTemplate, SyncWorkload, SyncDisks, FireTimer, Restart,
      Begin, BeginGone, BeginTerminating, BeginExpired, BeginWaiting, BeginManaging, Take,
      ProtectTemplate, ListDisks, CreateDisk, ReadWorkload, CreateWorkload, ReplaceWorkload,
      ReadStatus, FindWorkload, DeleteWorkload, ListOwned, DeleteDisk, UnprotectTemplate,
      DeletingWorkload, api

\* So a living sandbox is calm after a step only if it was before, untouched, or if its
\* reconcile has just begun.
LEMMA CalmBefore ==
    ASSUME LifecycleInv, RestInv, Next, NEW n \in Names, ~Begin(n), Inline(n)', Calm(n)'
    PROVE  /\ ~Restart /\ ~(UpdateStatus /\ w.name = n)
           /\ sandboxes'[n] = sandboxes[n] /\ Inline(n) /\ Calm(n)
<1>1. /\ Alive(n)' /\ cSandboxes'[n] = sandboxes'[n] /\ n \notin queue'
      /\ sandboxes'[n].uid # 0 /\ ~sandboxes'[n].del /\ sandboxes'[n].inline # NoSpec
  BY DEF Inline, Alive, Calm
<1>2. TypeOK
  BY DEF LifecycleInv, ProtectionInv
<1>3. ~Restart
  BY <1>1 DEF Restart, api
<1>4. n \notin queue /\ cSandboxes'[n] = cSandboxes[n]
  BY <1>1, <1>2, <1>3, QueueKeeps
<1>5. ~(UpdateStatus /\ w.name = n)
  <2> SUFFICES ASSUME UpdateStatus, w.name = n PROVE FALSE
    OBVIOUS
  <2>1. sandboxes'[n] # w.old
    BY <1>1, StatusWrites
  <2>2. w.old = cSandboxes[n]
    BY <1>4 DEF RestInv, ReadInv, UpdateStatus
  <2>3. QED BY <1>1, <1>4, <2>1, <2>2
<1>6. sandboxes'[n] = sandboxes[n]
  <2>1. CASE UpdateStatus
    <3>1. \/ UNCHANGED sandboxes
          \/ sandboxes' = [sandboxes EXCEPT ![w.name].type = w.new.type,
                                            ![w.name].cond = w.new.cond]
      BY <2>1 DEF UpdateStatus
    <3>2. QED BY <1>2, <1>5, <2>1, <3>1 DEF TypeOK, ApiTypeOK
  <2>2. CASE ~UpdateStatus
    BY <1>1, <1>4, <2>2, LivingStays
  <2>3. QED BY <2>1, <2>2
<1>7. QED BY <1>1, <1>3, <1>4, <1>5, <1>6 DEF Inline, Alive, Calm

-----------------------------------------------------------------------------
(* What the worker has achieved *)

\* An update that begins with the finalizers has no status to write.
LEMMA UpdatingSettles ==
    ASSUME NEW x \in Worker
    PROVE  Updating(x).pc = "updateMeta" => ~StatusChanged(Updating(x))
<1> DEFINE pc == IF StatusChanged(x) THEN "updateStatus" ELSE "updateMeta"
           y == [x EXCEPT !.pc = pc]
<1>1. y.pc = pc /\ y.old = x.old /\ y.new = x.new
  BY DEF Worker
<1>2. Updating(x) = y
  BY DEF Updating
<1>3. StatusChanged(y) <=> StatusChanged(x)
  BY <1>1 DEF StatusChanged
<1> HIDE DEF y
<1>4. QED BY <1>1, <1>2, <1>3

\* A worker that has failed promises nothing.
LEMMA FailingFits ==
    ASSUME NEW x \in Worker, NEW k, NEW have, NEW phase, NEW es, NEW gs
    PROVE  \A y \in {Failing(x), CreateFailing(x)} : Fit(y, k, have, phase, es, gs)
<1>1. ASSUME NEW y \in Worker PROVE Fit(Failing(y), k, have, phase, es, gs)
  <2> DEFINE z == [y EXCEPT !.err = TRUE]
             u == Updating(z)
  <2>1. z \in Worker /\ z.err
    BY DEF Worker
  <2> HIDE DEF z
  <2>2. u.pc \in UpdateSteps /\ u.err /\ (u.pc = "updateMeta" => ~StatusChanged(u))
    BY <2>1, UpdatingTurns, UpdatingSettles
  <2>3. Failing(y) = u
    BY DEF Failing, z
  <2> HIDE DEF u
  <2>4. Fit(u, k, have, phase, es, gs)
    BY <2>2 DEF Fit, UpdateSteps, CreatingSteps, MakingSteps, StandingSteps, Succeeding
  <2>5. QED BY <2>3, <2>4
<1>2. [x EXCEPT !.new.cond = "CreateFailed"] \in Worker
  BY DEF Worker, Conditions
<1>3. QED BY <1>1, <1>2 DEF CreateFailing

\* More disks, and a phase that has changed with an event, take nothing away.
LEMMA FitKept ==
    ASSUME NEW x, NEW k, NEW have, NEW phase, NEW es, NEW gs, NEW more, NEW phase2, NEW es2,
           Fit(x, k, have, phase, es, gs), have \subseteq more, k \in es => k \in es2,
           GateOpen(x.new.type, gs) => k \in es2 \/ phase2 = phase
    PROVE  Fit(x, k, more, phase2, es2, gs)
<1>1. x.pc \in StandingSteps => x.pc \in CreatingSteps
  BY DEF StandingSteps, CreatingSteps
<1>2. QED BY <1>1 DEF Fit

\* How the reconcile of a living sandbox begins.
LEMMA BeginFits ==
    ASSUME TypeOK, KindsInv, NEW n \in Names, Begin(n), Live(n), cSandboxes[n].inline # NoSpec,
           NEW k, NEW have, NEW phase, NEW es
    PROVE  Fit(w', k, have, phase, es, gates)
<1> DEFINE x == Reading(n)
           copy == cSandboxes[n]
           t == DetectSandboxType(copy.inline)
<1>1. x \in Worker /\ copy \in Sandbox /\ cSandboxes[n].uid # 0
  BY ReadingTyped DEF Live, TypeOK, CacheTypeOK
<1>2. TemplateFor(copy) = NoTemplateObj /\ x.tmpl = NoTemplateObj
  BY <1>1, ReadingTyped DEF TemplateFor, TypeOK
<1>3. TypeFor(copy, TemplateFor(copy)) = t /\ t \in Types
  <2>1. t \in Types /\ KindRight(copy)
    BY <1>1, InlineKind DEF KindsInv
  <2>2. QED BY <2>1 DEF KindRight, TypeFor, SpecFor
<1>4. ~Unusable(copy, TemplateFor(copy))
  <2>1. ~TemplateFor(copy).del
    BY <1>2 DEF NoTemplateObj
  <2>2. SpecFor(copy, TemplateFor(copy)) # NoSpec
    BY DEF SpecFor
  <2>3. TypeFor(copy, TemplateFor(copy)) # NoType
    BY <1>3 DEF Types, NoType
  <2>4. QED BY <2>1, <2>2, <2>3 DEF Unusable
<1>5. ~BeginGone(n) /\ ~BeginTerminating(n) /\ ~BeginWaiting(n)
  BY <1>4 DEF BeginGone, BeginTerminating, BeginWaiting, Live
<1> HIDE DEF x
<1>6. CASE BeginExpired(n)
  <2>1. w' = [x EXCEPT !.pc = "expire"]
    BY <1>6 DEF BeginExpired, x
  <2>2. w'.pc = "expire"
    BY <1>1, <2>1 DEF Worker
  <2>3. QED BY <2>2 DEF Fit, CreatingSteps, MakingSteps, StandingSteps, Succeeding, UpdateSteps
<1>7. CASE BeginManaging(n)
  <2> DEFINE y == [x EXCEPT !.new.prot = TRUE]
  <2>1. y \in Worker /\ y.new.prot /\ y.tmpl = x.tmpl
    BY <1>1 DEF Worker
  <2>2. w' = Creating(y)
    <3>1. w' = IF y.tmpl.there /\ ~y.tmpl.prot THEN [y EXCEPT !.pc = "protect"] ELSE Creating(y)
      BY <1>7 DEF BeginManaging, x
    <3> HIDE DEF y
    <3>2. ~y.tmpl.there
      BY <1>2, <2>1 DEF NoTemplateObj
    <3>3. QED BY <3>1, <3>2
  <2> HIDE DEF y
  <2>3. CASE GateOpen(y.new.type, gates)
    <3>1. w' = [y EXCEPT !.pc = "listDisks"]
      BY <2>2, <2>3 DEF Creating
    <3>2. w'.pc = "listDisks" /\ w'.new = y.new
      BY <2>1, <3>1 DEF Worker
    <3>3. QED BY <2>1, <2>3, <3>2
          DEF Fit, CreatingSteps, MakingSteps, StandingSteps, Succeeding, UpdateSteps
  <2>4. CASE ~GateOpen(y.new.type, gates)
    BY <2>1, <2>2, <2>4, FailingFits DEF Creating
  <2>5. QED BY <2>3, <2>4
<1>8. QED BY <1>5, <1>6, <1>7 DEF Begin

\* As long as the disks are being made, nothing but the gate and the finalizer matters.
LEMMA MakingFits ==
    ASSUME NEW x, NEW k, NEW have, NEW phase, NEW es, NEW gs, x.pc \in MakingSteps,
           GateOpen(x.new.type, gs), x.new.prot
    PROVE  Fit(x, k, have, phase, es, gs)
BY DEF Fit, CreatingSteps, MakingSteps, StandingSteps, Succeeding, UpdateSteps

\* Nor does more than that it stands on its disks, for a workload that is there.
LEMMA StandingFits ==
    ASSUME NEW x, NEW k, NEW have, NEW phase, NEW es, NEW gs, x.pc \in StandingSteps,
           GateOpen(x.new.type, gs), x.new.prot,
           Needed(x.new.type, x.old.inline) \subseteq have, k \in es \/ phase # Absent
    PROVE  Fit(x, k, have, phase, es, gs)
BY DEF Fit, CreatingSteps, MakingSteps, StandingSteps, Succeeding, UpdateSteps

\* The worker brings a living sandbox that nobody disturbs to where its spec asks it to be.
LEMMA WorkerFits ==
    ASSUME LifecycleInv, DisksInv, KindsInv, EventInv, WorkerStep, ~UpdateStatus, ~UpdateMeta,
           NEW n \in Names, Inline(n), w.name = n, w.old = sandboxes[n],
           sandboxes'[n] = sandboxes[n],
           Fit(w, Key, disks[Key], workloads[Key][Type_].phase, events, gates)
    PROVE  Fit(w', Key, disks'[Key], workloads'[Key][Type_].phase, events', gates)
<1> DEFINE k == Key
           t == Type_
           have == disks'[k]
           phase == workloads'[k][t].phase
           F(x) == Fit(x, k, have, phase, events', gates)
<1>1. /\ w.pc # "idle" /\ w \in Worker /\ k \in Keys /\ TypeOK
      /\ sandboxes[n].uid # 0 /\ ~sandboxes[n].del /\ w.old.inline # NoSpec
      /\ sandboxes \in [Names -> Sandbox] /\ disks \in [Keys -> SUBSET Disks]
  <2>1. TypeOK /\ WorkerInv
    BY DEF LifecycleInv, ProtectionInv
  <2>2. w.pc # "idle"
    BY <2>1, WorkerCarries
  <2>3. QED BY <2>1, <2>2, BusyTyped, KeyTyped DEF Inline, Alive, TypeOK, ApiTypeOK
<1>2. t \in Types /\ t \in Spec_.kinds
  <2>1. w.old \in Sandbox /\ t = DetectSandboxType(w.old.inline) /\ Spec_ = w.old.inline
    BY <1>1 DEF KindsInv, Type_, Spec_, SpecFor, Worker
  <2>2. QED BY <1>1, <2>1, InlineKind
<1>3. /\ w.pc \in {"expire"} \cup CreatingSteps \cup UpdateSteps
      /\ w.pc \in CreatingSteps => GateOpen(w.new.type, gates) /\ w.new.prot
      /\ w.pc \in StandingSteps => /\ Needed(w.new.type, w.old.inline) \subseteq disks[k]
                                   /\ k \in events \/ workloads[k][t].phase # Absent
  BY DEF Fit
<1>4. /\ w.pc = "readWorkload" \/ w.pc = "createWorkload"
         => Needed(w.new.type, w.old.inline) \subseteq disks[k]
  <2>1. OnInline
    BY <1>1 DEF OnInline, Alive
  <2>2. QED BY <2>1 DEF DisksInv, ProgressInv, Progress
<1>5. GateOpen(t, gates) => cWorkloads[k][t].phase = workloads[k][t].phase \/ k \in events
  BY <1>1, <1>2 DEF EventInv
<1>6. workloads \in [Keys -> [Types -> Workload]]
  BY <1>1 DEF TypeOK, ApiTypeOK
<1>7. F(Failing(w)) /\ F(CreateFailing(w))
  BY <1>1, FailingFits
<1>8. ASSUME NEW pc, NEW todo
      PROVE  /\ [w EXCEPT !.pc = pc].pc = pc /\ [w EXCEPT !.pc = pc].new = w.new
             /\ [w EXCEPT !.pc = pc].old = w.old
             /\ [w EXCEPT !.pc = pc, !.todo = todo].pc = pc
             /\ [w EXCEPT !.pc = pc, !.todo = todo].new = w.new
  BY <1>1 DEF Worker
<1>9. ASSUME w.pc \in CreatingSteps, NEW x, x.pc \in MakingSteps, x.new = w.new PROVE F(x)
  BY <1>3, <1>9, MakingFits
<1>10. ASSUME w.pc \in CreatingSteps, NEW x, x.pc \in StandingSteps, x.new = w.new, x.old = w.old,
              Needed(w.new.type, w.old.inline) \subseteq have, k \in events' \/ phase # Absent
       PROVE  F(x)
  BY <1>3, <1>10, StandingFits
<1> HIDE DEF F, have, phase, k, t
<1>11. CASE Expire
  <2>1. sandboxes' # [sandboxes EXCEPT ![n] = Deleted(sandboxes[n], NoSandbox)]
    BY <1>1 DEF Deleted, NoSandbox, Sandbox
  <2>2. w' = Failing(w)
    BY <1>11, <2>1 DEF Expire, NotApplied
  <2>3. QED BY <1>7, <2>2 DEF F, have, phase, k, t
<1>12. CASE ProtectTemplate \/ FindWorkload \/ DeleteWorkload \/ ListOwned \/ DeleteDisk
            \/ UnprotectTemplate
  BY <1>3, <1>12 DEF ProtectTemplate, FindWorkload, DeleteWorkload, ListOwned, DeleteDisk,
     UnprotectTemplate, CreatingSteps, MakingSteps, UpdateSteps
<1>13. CASE ListDisks
  <2>1. w.pc \in CreatingSteps
    BY <1>13 DEF ListDisks, CreatingSteps, MakingSteps
  <2>2. \/ \E pc \in {"listClaims", "readWorkload"} : w' = [w EXCEPT !.pc = pc]
        \/ \E todo : w' = [w EXCEPT !.pc = "createDisk", !.todo = todo]
    BY <1>13 DEF ListDisks, Making
  <2>3. ASSUME NEW pc \in {"listClaims", "readWorkload"}, w' = [w EXCEPT !.pc = pc]
        PROVE  w'.pc = pc /\ w'.new = w.new
    BY <1>8, <2>3
  <2>4. ASSUME NEW todo, w' = [w EXCEPT !.pc = "createDisk", !.todo = todo]
        PROVE  w'.pc = "createDisk" /\ w'.new = w.new
    BY <1>8, <2>4
  <2>5. w'.pc \in MakingSteps /\ w'.new = w.new
    BY <2>2, <2>3, <2>4 DEF MakingSteps
  <2>6. QED BY <1>9, <2>1, <2>5 DEF F, have, phase, k, t
<1>14. CASE CreateDisk
  <2> DEFINE left(d) == [w EXCEPT !.todo = @ \ {d}]
             empty == [w EXCEPT !.todo = {}]
  <2>1. \A d \in w.todo : left(d) \in Worker /\ left(d).pc = w.pc /\ left(d).new = w.new
    BY <1>1 DEF Worker
  <2>2. empty \in Worker
    BY <1>1 DEF Worker
  <2>3. w.pc = "createDisk"
    BY <1>14 DEF CreateDisk
  <2>4. PICK d \in w.todo : w' \in {Making(left(d), d.class), left(d), CreateFailing(empty)}
    BY <1>14 DEF CreateDisk, Applied, NotApplied
  <2> HIDE DEF left, empty
  <2>5. Making(left(d), d.class).pc \in MakingSteps /\ Making(left(d), d.class).new = w.new
    BY <2>1 DEF Making, Worker, MakingSteps
  <2>6. F(CreateFailing(empty))
    BY <2>2, FailingFits DEF F
  <2>7. F(Making(left(d), d.class)) /\ F(left(d))
    BY <1>9, <2>1, <2>3, <2>5 DEF CreatingSteps, MakingSteps
  <2>8. QED BY <2>4, <2>6, <2>7 DEF F, have, phase, k, t
<1>15. CASE ReadWorkload
  <2>1. /\ w.pc = "readWorkload" /\ w.pc \in CreatingSteps
        /\ UNCHANGED <<disks, workloads, events>>
    BY <1>15 DEF ReadWorkload, CreatingSteps, MakingSteps, api, sched
  <2>2. \/ w' = [w EXCEPT !.pc = "createWorkload"]
        \/ /\ Seen.phase # Absent
           /\ \E pc \in {"replaceWorkload", "readStatus"} : w' = [w EXCEPT !.pc = pc]
    BY <1>2, <1>15 DEF ReadWorkload, t, Type_
  <2>3. Seen.phase # Absent => k \in events' \/ phase # Absent
    BY <1>3, <1>5, <2>1 DEF Seen, phase, k, t, Type_
  <2>4. Needed(w.new.type, w.old.inline) \subseteq have
    BY <1>4, <2>1 DEF have
  <2>5. CASE w' = [w EXCEPT !.pc = "createWorkload"]
    <3>1. w'.pc \in MakingSteps /\ w'.new = w.new
      BY <1>8, <2>5 DEF MakingSteps
    <3>2. QED BY <1>9, <2>1, <3>1 DEF F, have, phase, k, t
  <2>6. CASE Seen.phase # Absent
             /\ \E pc \in {"replaceWorkload", "readStatus"} : w' = [w EXCEPT !.pc = pc]
    <3>1. w'.pc \in StandingSteps /\ w'.new = w.new /\ w'.old = w.old
      BY <1>8, <2>6 DEF StandingSteps
    <3>2. QED BY <1>10, <2>1, <2>3, <2>4, <2>6, <3>1 DEF F, have, phase, k, t
  <2>7. QED BY <2>2, <2>5, <2>6
<1>16. CASE CreateWorkload \/ ReplaceWorkload
  <2>1. w.pc \in CreatingSteps /\ UNCHANGED disks
    BY <1>16 DEF CreateWorkload, ReplaceWorkload, DeletingWorkload, CreatingSteps, MakingSteps
  <2>2. \/ w' = CreateFailing(w)
        \/ /\ w' = [w EXCEPT !.pc = "readStatus"]
           /\ \E to : /\ workloads' = [workloads EXCEPT ![k][t] = to]
                      /\ to.phase # Absent
    <3>1. CASE CreateWorkload
      <4>1. [phase |-> "Pending", del |-> FALSE].phase # Absent
        BY DEF Absent
      <4>2. QED BY <1>16, <3>1, <4>1 DEF CreateWorkload, WriteWorkload, Applied, NotApplied, k, t
    <3>2. CASE ReplaceWorkload
      <4>1. workloads[k][t].phase # Absent
            => [workloads[k][t] EXCEPT !.del = TRUE].phase # Absent
        BY <1>1, <1>2, <1>6 DEF Workload
      <4>2. QED BY <1>16, <3>2, <4>1 DEF ReplaceWorkload, DeletingWorkload, WriteWorkload, Applied,
                                     NotApplied, k, t
    <3>3. QED BY <1>16, <3>1, <3>2
  <2>3. Needed(w.new.type, w.old.inline) \subseteq have
    BY <1>3, <1>4, <1>16, <2>1 DEF CreateWorkload, ReplaceWorkload, StandingSteps, have
  <2>4. CASE w' = CreateFailing(w)
    BY <1>7, <2>4 DEF F, have, phase, k, t
  <2>5. ASSUME w' = [w EXCEPT !.pc = "readStatus"],
               NEW to, workloads' = [workloads EXCEPT ![k][t] = to], to.phase # Absent
        PROVE  F(w')
    <3>1. phase # Absent
      BY <1>1, <1>2, <1>6, <2>5 DEF phase
    <3>2. w'.pc \in StandingSteps /\ w'.new = w.new /\ w'.old = w.old
      BY <1>8, <2>5 DEF StandingSteps
    <3>3. QED BY <1>10, <2>1, <2>3, <3>1, <3>2
  <2>6. QED BY <2>2, <2>4, <2>5 DEF F, have, phase, k, t
<1>17. CASE ReadStatus
  <2> DEFINE cond == Status
             after == NextSync(w.name, w.old)
             x == [w EXCEPT !.new.cond = cond, !.after = after]
             y == Updating(x)
  <2>1. /\ w.pc = "readStatus" /\ w.pc \in CreatingSteps /\ w.pc \in StandingSteps
        /\ UNCHANGED <<disks, workloads, events>>
    BY <1>17 DEF ReadStatus, CreatingSteps, StandingSteps, api, sched
  <2>2. cond \in Conditions /\ after \in BOOLEAN
    BY ReasonTyped DEF Status, Conditions, NextSync
  <2>3. k \in events' \/ (phase # Absent /\ cond = ReasonOf(w.new.type, phase))
    BY <1>3, <1>5, <2>1 DEF Status, Seen, phase, k, t, Type_
  <2> HIDE DEF cond, after
  <2>4. x \in Worker /\ x.new.cond = cond /\ x.new.type = w.new.type /\ x.new.prot = w.new.prot
        /\ x.old = w.old
    BY <1>1, <2>2 DEF Worker
  <2>5. w' = y
    BY <1>17 DEF ReadStatus, cond, after
  <2> HIDE DEF x
  <2>6. y.pc \in UpdateSteps /\ y.old = x.old /\ y.new = x.new
        /\ (y.pc = "updateMeta" => ~StatusChanged(y))
    BY <2>4, UpdatingTurns, UpdatingSettles
  <2> HIDE DEF y
  <2>7. Needed(w.new.type, w.old.inline) \subseteq have
    BY <1>3, <2>1 DEF have
  <2>8. y.pc \notin CreatingSteps /\ y.pc \notin StandingSteps
    BY <2>6 DEF UpdateSteps, CreatingSteps, MakingSteps, StandingSteps
  <2>9. Fit(y, k, have, phase, events', gates)
    BY <1>3, <2>1, <2>3, <2>4, <2>6, <2>7, <2>8 DEF Fit
  <2>10. QED BY <2>5, <2>9 DEF have, phase, k, t
<1>18. QED BY <1>11, <1>12, <1>13, <1>14, <1>15, <1>16, <1>17 DEF WorkerStep

-----------------------------------------------------------------------------
(* The invariant *)

\* What the server, the cache and the worker hold of a living sandbox that the worker has
\* in its hands and nobody is to be woken for.
LEMMA BusyCalm ==
    ASSUME RestInv, NEW n \in Names, Calm(n), Busy(n)
    PROVE  w.old = sandboxes[n] /\ Key = KeyOf(n)
BY DEF RestInv, ReadInv, Calm, Busy, Key, KeyOf

\* An event for a sandbox with an empty queue stays under way.
LEMMA EventStays ==
    ASSUME Next, ~Restart, NEW n \in Names, KeyOf(n) \in Keys, n \notin queue',
           KeyOf(n) \in events
    PROVE  KeyOf(n) \in events'
<1>1. KeyOf(n)[1] = n
  BY DEF KeyOf
<1>2. QED BY <1>1, EventsKeep

\* The worker keeps a living sandbox on its way.
LEMMA WorkKept ==
    ASSUME LifecycleInv, RestInv, DisksInv, KindsInv, EventInv, WorkInv, Next
    PROVE  WorkInv'
<1> SUFFICES ASSUME NEW n \in Names, Inline(n)', Calm(n)', Busy(n)'
             PROVE  Fit(w', Key', disks'[Key'], workloads'[Key'][Type_'].phase, events', gates')
  BY DEF WorkInv, Fit, Succeeding, StatusChanged, GateOpen, Needed, OwnedDisks, ReasonOf
<1>1. w'.pc # "idle" /\ w'.name = n /\ n \notin queue' /\ TypeOK
  BY DEF Busy, Calm, LifecycleInv, ProtectionInv
<1>2. ~Restart
  BY <1>1, IdleTyped DEF Restart
<1>3. UNCHANGED gates
  BY <1>2, WorkloadsRead
<1>4. CASE Begin(n)
  <2>1. w.pc = "idle" /\ UNCHANGED <<sandboxes, cSandboxes>>
    BY <1>4 DEF Begin, BeginGone, BeginTerminating, BeginExpired, BeginWaiting, BeginManaging,
       Take, api, caches
  <2>2. Live(n) /\ cSandboxes[n].inline # NoSpec
    BY <2>1 DEF Inline, Alive, Calm, Live
  <2>3. QED BY <1>1, <1>3, <1>4, <2>2, BeginFits
<1>5. CASE ~Begin(n)
  <2>1. /\ ~(UpdateStatus /\ w.name = n) /\ sandboxes'[n] = sandboxes[n]
        /\ Inline(n) /\ Calm(n)
    BY <1>5, CalmBefore
  <2>2. KeyOf(n) \in Keys /\ disks[KeyOf(n)] \subseteq disks'[KeyOf(n)]
    BY <2>1, DisksStay DEF Inline
  <2>3. CASE UNCHANGED w
    <3>1. Busy(n) /\ Key' = Key /\ Type_' = Type_
      BY <1>1, <2>3 DEF Busy, Key, Type_
    <3>2. Fit(w, Key, disks[Key], workloads[Key][Type_].phase, events, gates)
      BY <2>1, <3>1 DEF WorkInv
    <3>3. Key = KeyOf(n)
      BY <2>1, <3>1, BusyCalm
    <3>4. Key \in events => Key \in events'
      BY <1>1, <1>2, <2>2, <3>3, EventStays
    <3>5. GateOpen(w.new.type, gates)
          => Key \in events' \/ workloads'[Key][Type_].phase = workloads[Key][Type_].phase
      <4>1. w.new.type \in Types
        <5>1. w \in Worker /\ w.new.type = DetectSandboxType(w.old.inline)
              /\ w.old = sandboxes[n] /\ w.old.inline # NoSpec
          BY <1>1, <2>1, <2>3, <3>1, BusyCalm, BusyTyped DEF KindsInv, Inline
        <5>2. w.old \in Sandbox
          BY <5>1 DEF Worker
        <5>3. QED BY <5>1, <5>2, InlineKind
      <4>2. QED BY <2>2, <3>3, <4>1, PhaseChanges DEF Type_
    <3>6. Fit(w, Key, disks'[Key], workloads'[Key][Type_].phase, events', gates)
      BY <2>2, <3>2, <3>3, <3>4, <3>5, FitKept
    <3>7. QED BY <1>3, <2>3, <3>1, <3>6
  <2>4. CASE WorkerStep /\ ~UpdateStatus /\ ~UpdateMeta
    <3>1. w.pc # "idle" /\ w'.name = w.name /\ w'.old = w.old /\ w'.new.type = w.new.type
      BY <2>4, WorkerCarries, WorkerKeepsKind DEF LifecycleInv, ProtectionInv, Carries
    <3>2. Busy(n) /\ Key' = Key /\ Type_' = Type_
      BY <1>1, <3>1 DEF Busy, Key, Type_
    <3>3. w.old = sandboxes[n] /\ w.name = n
      BY <2>1, <3>2, BusyCalm DEF Busy
    <3>4. Fit(w, Key, disks[Key], workloads[Key][Type_].phase, events, gates)
      BY <2>1, <3>2 DEF WorkInv
    <3>5. Fit(w', Key, disks'[Key], workloads'[Key][Type_].phase, events', gates)
      BY <2>1, <2>4, <3>3, <3>4, WorkerFits
    <3>6. QED BY <1>3, <3>2, <3>5
  <2>5. CASE UpdateStatus
    <3>1. w \in Worker
      BY <1>1 DEF TypeOK, WorkerTypeOK
    <3>2. w' = [w EXCEPT !.pc = "updateMeta", !.new.prot = @ \/ sandboxes[w.name].prot]
      BY <1>1, <2>5, IdleTyped DEF UpdateStatus, Return
    <3>3. w'.name = w.name
      BY <3>1, <3>2 DEF Worker
    <3>4. QED BY <1>1, <2>1, <2>5, <3>3
  <2>6. CASE UpdateMeta
    BY <1>1, <2>6, IdleTyped DEF UpdateMeta, Return
  <2>7. ASSUME NEW m \in Names, Begin(m) PROVE FALSE
    BY <1>1, <1>5, <2>7, BeginCopies
  <2>8. QED BY <1>2, <2>3, <2>4, <2>5, <2>6, <2>7, WorkerAlone DEF WorkerStep
<1>6. QED BY <1>4, <1>5

\* A reconcile that ends without an error has left its sandbox at rest.
LEMMA RestsAfter ==
    ASSUME LifecycleInv, KindsInv, UpdateMeta, NEW n \in Names, Inline(n), w.name = n,
           w.old = sandboxes[n], sandboxes'[n] = sandboxes[n], n \notin queue',
           KeyOf(n) \notin events,
           Fit(w, KeyOf(n), disks[KeyOf(n)], workloads[KeyOf(n)][Type_].phase, events, gates)
    PROVE  AtRest(n)
<1> DEFINE s == sandboxes[n]
           t == KindOf(n)
<1>1. /\ w.pc = "updateMeta" /\ w \in Worker /\ s \in Sandbox
      /\ sandboxes \in [Names -> Sandbox] /\ s.inline # NoSpec /\ s.uid # 0 /\ ~s.del
  BY BusyTyped DEF UpdateMeta, Inline, Alive, LifecycleInv, ProtectionInv, TypeOK, ApiTypeOK
<1>2. ~w.err
  BY DEF UpdateMeta, Return
<1>3. Succeeding(w)
  BY <1>1, <1>2 DEF Succeeding, UpdateSteps
<1>4. w.new.type = t
  BY <1>1 DEF KindsInv, KindOf
<1>5. s.type = t /\ s.cond = w.new.cond
  BY <1>1, <1>4 DEF Fit, StatusChanged
<1>6. /\ GateOpen(t, gates) /\ w.new.prot /\ Needed(t, s.inline) \subseteq disks[KeyOf(n)]
      /\ workloads[KeyOf(n)][t].phase # Absent
      /\ w.new.cond = ReasonOf(t, workloads[KeyOf(n)][t].phase)
  BY <1>3, <1>4 DEF Fit, Type_
<1>7. s.prot
  <2>1. CASE w.new.prot = w.old.prot
    BY <1>6, <2>1
  <2>2. CASE w.new.prot # w.old.prot
    <3>1. sandboxes' = [sandboxes EXCEPT ![n] = Patched(s, w.new.prot, NoSandbox)]
      BY <1>1, <2>2 DEF UpdateMeta, Return
    <3>2. sandboxes'[n] = [s EXCEPT !.prot = w.new.prot]
      BY <1>1, <3>1 DEF Patched
    <3>3. sandboxes'[n].prot
      BY <1>1, <1>6, <3>2 DEF Sandbox
    <3>4. QED BY <3>3
  <2>3. QED BY <2>1, <2>2
<1>8. QED BY <1>5, <1>6, <1>7 DEF AtRest

\* A living sandbox stays at rest, or comes to rest, until somebody is to be woken for it.
LEMMA RestedKept ==
    ASSUME LifecycleInv, RestInv, DisksInv, KindsInv, EventInv, WorkInv, RestedInv, Next
    PROVE  RestedInv'
<1> SUFFICES ASSUME NEW n \in Names, Inline(n)', Calm(n)', KeyOf(n)' \notin events', ~Busy(n)'
             PROVE  AtRest(n)'
  BY DEF RestedInv
<1> DEFINE k == KeyOf(n)
           t == KindOf(n)
<1>1. n \notin queue' /\ TypeOK
  BY DEF Calm, LifecycleInv, ProtectionInv
<1>2. ~Begin(n)
  <2> SUFFICES ASSUME Begin(n) PROVE FALSE
    OBVIOUS
  <2>1. UNCHANGED <<sandboxes, cSandboxes>>
    BY DEF Begin, BeginGone, BeginTerminating, BeginExpired, BeginWaiting, BeginManaging,
       Take, api, caches
  <2>2. Live(n) /\ cSandboxes[n].inline # NoSpec
    BY <2>1 DEF Inline, Alive, Calm, Live
  <2>3. Fit(w', k, disks, "Pending", events, gates)
    BY <1>1, <2>2, BeginFits
  <2>4. w'.pc # "idle"
    BY <2>3 DEF Fit, CreatingSteps, MakingSteps, UpdateSteps
  <2>5. QED BY <1>1, <2>4, BeginCopies DEF Busy
<1>3. /\ ~Restart /\ ~(UpdateStatus /\ w.name = n)
      /\ sandboxes'[n] = sandboxes[n] /\ Inline(n) /\ Calm(n)
  BY <1>2, CalmBefore
<1>4. k \in Keys /\ disks[k] \subseteq disks'[k] /\ KeyOf(n)' = k /\ KindOf(n)' = t
  BY <1>3, DisksStay DEF Inline, KeyOf, KindOf
<1>5. k \notin events /\ k \notin events'
  BY <1>1, <1>3, <1>4, EventStays
<1>6. UNCHANGED gates
  BY <1>3, WorkloadsRead
<1>7. t \in Types
  BY <1>1, <1>3, InlineKind DEF TypeOK, ApiTypeOK, Inline, KindOf
<1>8. AtRest(n)
  <2>1. CASE ~Busy(n)
    BY <1>3, <1>5, <2>1 DEF RestedInv
  <2>2. CASE Busy(n)
    <3>1. w.pc # "idle" /\ w.name = n /\ w.old = sandboxes[n] /\ Key = k
      BY <1>3, <2>2, BusyCalm DEF Busy
    <3>2. Fit(w, Key, disks[Key], workloads[Key][Type_].phase, events, gates)
      BY <1>3, <2>2 DEF WorkInv
    <3>3. w' # w
      BY <2>2 DEF Busy
    <3>4. ASSUME WorkerStep, ~UpdateStatus, ~UpdateMeta PROVE FALSE
      <4>1. Fit(w', Key, disks'[Key], workloads'[Key][Type_].phase, events', gates)
        BY <1>3, <3>1, <3>2, <3>4, WorkerFits
      <4>2. w'.pc # "idle"
        BY <4>1 DEF Fit, CreatingSteps, MakingSteps, UpdateSteps
      <4>3. w'.name = n
        BY <3>1, <3>4, WorkerCarries DEF LifecycleInv, ProtectionInv, Carries
      <4>4. QED BY <4>2, <4>3 DEF Busy
    <3>5. ASSUME NEW m \in Names, Begin(m) PROVE FALSE
      BY <3>1, <3>5 DEF Begin, BeginGone, BeginTerminating, BeginExpired, BeginWaiting,
         BeginManaging, Take
    <3>6. UpdateMeta
      BY <1>3, <3>1, <3>3, <3>4, <3>5, WorkerAlone DEF WorkerStep
    <3>7. QED BY <1>1, <1>3, <1>5, <3>1, <3>2, <3>6, RestsAfter
  <2>3. QED BY <2>1, <2>2
<1>9. workloads'[k][t].phase = workloads[k][t].phase
  BY <1>4, <1>5, <1>7, <1>8, PhaseChanges DEF AtRest
<1> HIDE DEF k, t
<1>10. /\ GateOpen(t, gates') /\ sandboxes'[n].prot /\ sandboxes'[n].type = t
       /\ Needed(t, sandboxes'[n].inline) \subseteq disks'[k]
       /\ workloads'[k][t].phase # Absent
       /\ sandboxes'[n].cond = ReasonOf(t, workloads'[k][t].phase)
  BY <1>3, <1>4, <1>6, <1>8, <1>9 DEF AtRest, k, t
<1>11. QED BY <1>4, <1>10 DEF AtRest, GateOpen, Needed, OwnedDisks, ReasonOf

LEMMA SettleInvariant == Spec => []SettleInv
<1>1. Init => SettleInv
  <2> SUFFICES ASSUME Init PROVE SettleInv
    OBVIOUS
  <2>1. w.pc = "idle" /\ w.old = NoSandbox
    BY DEF Init, IdleWorker
  <2>2. \A n \in Names : sandboxes[n] = NoSandbox /\ cSandboxes[n] = NoSandbox
    BY DEF Init
  <2>3. NoSandbox.uid = 0 /\ NoSandbox.inline = NoSpec
    BY DEF NoSandbox
  <2>4. \A n \in Names : ~Inline(n)
    BY <2>2, <2>3 DEF Inline
  <2>5. cWorkloads = workloads
    BY DEF Init
  <2>6. QED BY <2>1, <2>2, <2>3, <2>4, <2>5
        DEF SettleInv, KindsInv, KindRight, TodoInv, OwnInv, EventInv, WorkInv, RestedInv
<1>2. /\ SettleInv /\ RestInv /\ DisksInv /\ LifecycleInv /\ LifecycleInv' /\ [Next]_vars
      => SettleInv'
  <2> SUFFICES ASSUME SettleInv, RestInv, DisksInv, LifecycleInv, LifecycleInv', [Next]_vars
               PROVE  SettleInv'
    OBVIOUS
  <2>1. CASE Next
    <3>1. KindsInv /\ TodoInv /\ OwnInv /\ EventInv /\ WorkInv /\ RestedInv
      BY DEF SettleInv
    <3>2. UnbornInv /\ SpecInv
      BY DEF DisksInv
    <3>3. QED BY <2>1, <3>1, <3>2, KindsKept, TodoKept, OwnKept, EventKept, WorkKept, RestedKept
          DEF SettleInv
  <2>2. CASE UNCHANGED vars
    <3>1. UNCHANGED <<sandboxes, workloads, disks, cSandboxes, cWorkloads, queue, events, w, gates>>
      BY <2>2 DEF vars, api, caches, sched, world
    <3>2. KindsInv' /\ TodoInv'
      BY <3>1 DEF SettleInv, KindsInv, TodoInv, KindRight, DetectSandboxType, Needed, OwnedDisks
    <3>3. OwnInv' /\ EventInv'
      BY <3>1 DEF SettleInv, OwnInv, EventInv, Inline, Alive, KindOf, KeyOf, Present,
         DetectSandboxType, Needed, OwnedDisks, GateOpen
    <3>4. WorkInv'
      BY <3>1 DEF SettleInv, WorkInv, Inline, Alive, Calm, Busy, Key, Type_, Fit, Succeeding,
         StatusChanged, GateOpen, Needed, OwnedDisks, ReasonOf
    <3>5. ASSUME NEW n \in Names, Inline(n)', Calm(n)', KeyOf(n)' \notin events', ~Busy(n)'
          PROVE  AtRest(n)'
      <4>1. KeyOf(n)' = KeyOf(n) /\ KindOf(n)' = KindOf(n)
        BY <3>1 DEF KeyOf, KindOf
      <4>2. AtRest(n)
        BY <3>1, <3>5 DEF SettleInv, RestedInv, Inline, Alive, Calm, Busy, KeyOf
      <4>3. QED BY <3>1, <4>1, <4>2 DEF AtRest, GateOpen, Needed, OwnedDisks, ReasonOf
    <3>6. RestedInv'
      BY <3>5 DEF RestedInv
    <3>7. QED BY <3>2, <3>3, <3>4, <3>6 DEF SettleInv
  <2>3. QED BY <2>1, <2>2
<1>3. QED BY <1>1, <1>2, LifecycleInvariant, DisksInvariant, RestInvariant, PTL DEF Spec

\* Whatever fails, is answered too late, deleted by hand or restarted: when nothing is left
\* to do, every sandbox with an inline spec is protected, has its disks and its workload,
\* and its condition says what phase the workload is in (Reconcile, the watch predicates
\* of Setup, the Status of each sandboxer).
THEOREM Settles == Spec => []Settled
<1>1. SettleInv /\ LifecycleInv => Settled
  <2> SUFFICES ASSUME SettleInv, LifecycleInv, Quiescent, NEW n \in Names, Alive(n),
                      sandboxes[n].inline # NoSpec
               PROVE  LET t == sandboxes[n].type  wl == workloads[KeyOf(n)][t] IN
                      /\ sandboxes[n].prot
                      /\ t = DetectSandboxType(sandboxes[n].inline)
                      /\ Present(KeyOf(n)) = {t}
                      /\ OwnedDisks(t, sandboxes[n].inline.disks) = disks[KeyOf(n)]
                      /\ sandboxes[n].cond = ReasonOf(t, wl.phase)
    BY DEF Settled
  <2> DEFINE t == KindOf(n)
  <2>1. Inline(n) /\ Calm(n) /\ KeyOf(n) \notin events /\ ~Busy(n)
    BY DEF Inline, Calm, Quiescent, Busy
  <2>2. AtRest(n)
    BY <2>1 DEF SettleInv, RestedInv
  <2>3. /\ Present(KeyOf(n)) \subseteq {t}
        /\ disks[KeyOf(n)] \subseteq Needed(t, sandboxes[n].inline)
    BY <2>1 DEF SettleInv, OwnInv
  <2>4. t \in Types
    BY <2>1, InlineKind DEF LifecycleInv, ProtectionInv, TypeOK, ApiTypeOK, Inline, KindOf
  <2>5. t \in Present(KeyOf(n))
    BY <2>2, <2>4 DEF AtRest, Present
  <2>6. sandboxes[n].type = t /\ sandboxes[n].prot
        /\ Needed(t, sandboxes[n].inline) \subseteq disks[KeyOf(n)]
        /\ sandboxes[n].cond = ReasonOf(t, workloads[KeyOf(n)][t].phase)
    BY <2>2 DEF AtRest
  <2>7. t = DetectSandboxType(sandboxes[n].inline)
    BY DEF KindOf
  <2> HIDE DEF t
  <2>8. QED BY <2>3, <2>5, <2>6, <2>7 DEF Needed
<1>2. QED BY <1>1, SettleInvariant, LifecycleInvariant, PTL
=============================================================================
