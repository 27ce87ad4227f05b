---------------------- MODULE SandboxProtection_proofs ----------------------
(***************************************************************************)
(* Proofs that what a stale copy of a protected sandbox says can be relied *)
(* on, and that the finalizer is only taken off the incarnation that was   *)
(* read.  Writes go by name, so neither follows from the code of one step: *)
(* the invariant relates three views of a name, the API server's, the      *)
(* cache's and the worker's.                                               *)
(***************************************************************************)
EXTENDS SandboxController_proofs

\* The steps of a reconcile that handles a deletion.
ReleasingSteps == {"findWorkload", "deleteWorkload", "listOwned", "listOwnedClaims",
                   "deleteDisk", "unprotect"}

\* What the server may hold of a name with b incarnations so far: deletion is
\* marked on protected objects only.
ServerInv(s, b) ==
    /\ s.uid <= b
    /\ s.uid = 0 => ~s.prot
    /\ s.del => s.prot

\* What a copy x says of what the server holds: it is an earlier state of the same
\* sandbox, or that one has gone, after its deletion was marked; and as long as a
\* copy shows a deletion, no later incarnation has been protected.
CopyInv(x, s, b) ==
    /\ x.uid <= b
    /\ x.uid = 0 => ~x.prot
    /\ x.del => x.prot
    /\ x.uid = s.uid => (x.prot => s.prot) /\ (x.del => s.del)
    /\ x.prot /\ ~x.del => s.uid = x.uid
    /\ x.del /\ s.uid # x.uid => ~s.prot

\* A deletion that the cache shows has not been completed.
Pending(c, s) == c.del => s.uid = c.uid /\ s.prot

\* What the worker's copy and the cache say of each other, and what the worker is
\* about to do with the finalizer.
WorkerInv ==
    LET n == w.name IN
    w.pc # "idle" =>
        /\ CopyInv(w.old, sandboxes[n], born[n])
        /\ ~w.old.del => Pending(cSandboxes[n], sandboxes[n])
        /\ w.old.del /\ cSandboxes[n].uid = w.old.uid => cSandboxes[n].del
        /\ ~w.old.del /\ w.old.prot => w.new.prot
        /\ w.pc \in ReleasingSteps => w.old.del

NamesInv ==
    \A n \in Names :
        /\ ServerInv(sandboxes[n], born[n])
        /\ CopyInv(cSandboxes[n], sandboxes[n], born[n])
ProtectionInv == TypeOK /\ NamesInv /\ WorkerInv

-----------------------------------------------------------------------------
(* What a step of the worker does to what it holds *)

\* The worker goes on with the same copy; on a live copy it never drops the
\* finalizer and never starts to release.
Carries(x) ==
    /\ x.name = w.name /\ x.old = w.old
    /\ ~w.old.del => /\ w.new.prot => x.new.prot
                     /\ x.pc \notin ReleasingSteps

\* Moving on to children or to the update keeps name, copy and finalizer.
LEMMA MovesOn ==
    ASSUME NEW x \in Worker
    PROVE  \A y \in {Updating(x), Failing(x), CreateFailing(x), Creating(x)} :
              /\ y.name = x.name /\ y.old = x.old /\ y.new.prot = x.new.prot
              /\ y.pc \notin ReleasingSteps
<1>1. ASSUME NEW y \in Worker
      PROVE  /\ Updating(y).name = y.name /\ Updating(y).old = y.old
             /\ Updating(y).new.prot = y.new.prot /\ Updating(y).pc \notin ReleasingSteps
  BY DEF Updating, Worker, ReleasingSteps
<1>2. ASSUME NEW y \in Worker
      PROVE  /\ [y EXCEPT !.err = TRUE] \in Worker
             /\ [y EXCEPT !.err = TRUE].name = y.name /\ [y EXCEPT !.err = TRUE].old = y.old
             /\ [y EXCEPT !.err = TRUE].new.prot = y.new.prot
  BY DEF Worker
<1>3. ASSUME NEW y \in Worker
      PROVE  /\ Failing(y).name = y.name /\ Failing(y).old = y.old
             /\ Failing(y).new.prot = y.new.prot /\ Failing(y).pc \notin ReleasingSteps
  BY <1>1, <1>2 DEF Failing
<1>4. /\ [x EXCEPT !.new.cond = "CreateFailed"] \in Worker
      /\ [x EXCEPT !.new.cond = "CreateFailed"].name = x.name
      /\ [x EXCEPT !.new.cond = "CreateFailed"].old = x.old
      /\ [x EXCEPT !.new.cond = "CreateFailed"].new.prot = x.new.prot
  BY DEF Worker, Conditions
<1>5. /\ CreateFailing(x).name = x.name /\ CreateFailing(x).old = x.old
      /\ CreateFailing(x).new.prot = x.new.prot /\ CreateFailing(x).pc \notin ReleasingSteps
  BY <1>3, <1>4 DEF CreateFailing
<1>6. /\ Creating(x).name = x.name /\ Creating(x).old = x.old
      /\ Creating(x).new.prot = x.new.prot /\ Creating(x).pc \notin ReleasingSteps
  BY <1>5 DEF Creating, Worker, ReleasingSteps
<1>7. QED BY <1>1, <1>3, <1>5, <1>6

\* Releasing keeps name and copy.
LEMMA ReleaseKeeps ==
    ASSUME NEW x \in Worker
    PROVE  \A y \in {Releasing(x), Unprotecting(x)} : y.name = x.name /\ y.old = x.old
<1>1. /\ [x EXCEPT !.new.prot = FALSE] \in Worker
      /\ [x EXCEPT !.new.prot = FALSE].name = x.name
      /\ [x EXCEPT !.new.prot = FALSE].old = x.old
  BY DEF Worker
<1>2. Releasing(x).name = x.name /\ Releasing(x).old = x.old
  BY <1>1, MovesOn DEF Releasing
<1>3. QED BY <1>2 DEF Unprotecting, Worker

\* So does the turn to the next class of disks, which releases only when deleting.
LEMMA DiskTurns ==
    ASSUME NEW x \in Worker, NEW class
    PROVE  /\ Making(x, class).name = x.name /\ Making(x, class).old = x.old
           /\ Making(x, class).new = x.new /\ Making(x, class).pc \notin ReleasingSteps
           /\ Deleting(x, class).name = x.name /\ Deleting(x, class).old = x.old
<1>1. /\ Making(x, class).name = x.name /\ Making(x, class).old = x.old
      /\ Making(x, class).new = x.new /\ Making(x, class).pc \notin ReleasingSteps
  BY DEF Making, Worker, ReleasingSteps
<1>2. Deleting(x, class).name = x.name /\ Deleting(x, class).old = x.old
  BY ReleaseKeeps DEF Deleting, Worker
<1>3. QED BY <1>1, <1>2

\* Every step of the worker but the last two carries on.
LEMMA WorkerCarries ==
    ASSUME TypeOK, WorkerInv, WorkerStep, ~UpdateStatus, ~UpdateMeta
    PROVE  w.pc # "idle" /\ Carries(w')
<1>1. w.pc # "idle" /\ w \in Worker /\ Holding(w)
  <2>1. w.pc # "idle"
    BY DEF WorkerStep, Expire, ProtectTemplate, ListDisks, CreateDisk, ReadWorkload,
       CreateWorkload, ReplaceWorkload, ReadStatus, FindWorkload, DeleteWorkload, ListOwned,
       DeleteDisk, UnprotectTemplate
  <2>2. QED BY <2>1, BusyTyped
<1>2. \A y \in {Updating(w), Failing(w), CreateFailing(w), Creating(w)} : Carries(y)
  BY <1>1, MovesOn DEF Carries
<1>3. w.old.del => \A y \in {Releasing(w), Unprotecting(w)} : Carries(y)
  BY <1>1, ReleaseKeeps DEF Carries
<1>4. w.pc \in ReleasingSteps => w.old.del
  BY <1>1 DEF WorkerInv
<1>5. ASSUME NEW pc \in Steps, pc \in ReleasingSteps => w.old.del
      PROVE  Carries([w EXCEPT !.pc = pc])
  BY <1>1, <1>5 DEF Carries, Worker
<1>6. ASSUME NEW todo
      PROVE  LET x == [w EXCEPT !.todo = todo] IN
             x.name = w.name /\ x.old = w.old /\ x.new = w.new /\ x.pc = w.pc
  BY <1>1 DEF Worker
<1>7. ASSUME NEW todo, NEW pc \in Steps, pc \in ReleasingSteps => w.old.del
      PROVE  Carries([w EXCEPT !.pc = pc, !.todo = todo])
  BY <1>1, <1>7 DEF Carries, Worker
<1>8. CASE Expire \/ ProtectTemplate \/ CreateWorkload \/ ReplaceWorkload
  <2>1. w' \in {Updating(w), Failing(w), CreateFailing(w), Creating(w)}
        \/ w' = [w EXCEPT !.pc = "readStatus"]
    BY <1>8 DEF Expire, ProtectTemplate, CreateWorkload, ReplaceWorkload, DeletingWorkload,
       Applied, NotApplied
  <2>2. QED BY <1>1, <1>2, <1>5, <2>1 DEF Steps, ReleasingSteps
<1>9. CASE ListDisks
  <2>1. w' = Making(w, ListedClass)
        \/ w' = [w EXCEPT !.pc = "createDisk", !.todo = MissingDisks(ListedClass)]
    BY <1>9 DEF ListDisks
  <2>2. Carries(Making(w, ListedClass))
    BY <1>1, DiskTurns DEF Carries
  <2>3. Carries([w EXCEPT !.pc = "createDisk", !.todo = MissingDisks(ListedClass)])
    BY <1>7 DEF Steps, ReleasingSteps
  <2>4. QED BY <1>1, <2>1, <2>2, <2>3
<1>10. CASE ReadWorkload \/ FindWorkload
  <2>1. \/ \E pc \in {"createWorkload", "replaceWorkload", "readStatus"} : w' = [w EXCEPT !.pc = pc]
        \/ /\ w.pc \in ReleasingSteps
           /\ \E pc \in {"listOwned", "deleteWorkload"} : w' = [w EXCEPT !.pc = pc]
    BY <1>10 DEF ReadWorkload, FindWorkload, ReleasingSteps
  <2>2. QED BY <1>1, <1>4, <1>5, <2>1 DEF Steps, ReleasingSteps
<1>11. CASE ReadStatus
  <2> DEFINE cond == Status
             after == NextSync(w.name, w.old)
             x == [w EXCEPT !.new.cond = cond, !.after = after]
  <2>1. cond \in Conditions /\ after \in BOOLEAN
    BY ReasonTyped DEF Status, Conditions, NextSync
  <2> HIDE DEF cond, after
  <2>2. x \in Worker /\ x.name = w.name /\ x.old = w.old /\ x.new.prot = w.new.prot
    BY <1>1, <2>1 DEF Worker
  <2>3. w' = Updating(x)
    BY <1>11 DEF ReadStatus, cond, after
  <2> HIDE DEF x
  <2>4. QED BY <1>1, <2>2, <2>3, MovesOn DEF Carries
<1>12. CASE DeleteWorkload
  <2>1. w' = [w EXCEPT !.pc = "listOwned"] \/ w' = Failing(w)
    BY <1>12 DEF DeleteWorkload, DeletingWorkload, Applied, NotApplied
  <2>2. w.old.del
    BY <1>4, <1>12 DEF DeleteWorkload, ReleasingSteps
  <2>3. QED BY <1>1, <1>2, <1>5, <2>1, <2>2 DEF Steps
<1>13. CASE ListOwned
  <2>1. w.old.del
    BY <1>4, <1>13 DEF ListOwned, ReleasingSteps
  <2>2. w'.name = w.name /\ w'.old = w.old
    <3>1. w' = Deleting(w, ListedClass)
          \/ w' = [w EXCEPT !.pc = "deleteDisk",
                            !.todo = {d \in cDisks[Key] : d.class = ListedClass}]
      BY <1>13 DEF ListOwned
    <3>2. Deleting(w, ListedClass).name = w.name /\ Deleting(w, ListedClass).old = w.old
      BY <1>1, DiskTurns
    <3>3. ASSUME NEW todo PROVE LET x == [w EXCEPT !.pc = "deleteDisk", !.todo = todo] IN
                                x.name = w.name /\ x.old = w.old
      BY <1>1 DEF Worker
    <3>4. QED BY <3>1, <3>2, <3>3
  <2>3. QED BY <1>1, <2>1, <2>2 DEF Carries
<1>14. CASE UnprotectTemplate
  <2>1. w.old.del
    BY <1>4, <1>14 DEF UnprotectTemplate, ReleasingSteps
  <2>2. w' = Releasing(w) \/ w' = Failing(w)
    BY <1>14 DEF UnprotectTemplate, Applied, NotApplied
  <2>3. QED BY <1>1, <1>2, <1>3, <2>1, <2>2
<1>15. CASE CreateDisk \/ DeleteDisk
  <2> DEFINE left(d) == [w EXCEPT !.todo = @ \ {d}]
             empty == [w EXCEPT !.todo = {}]
  <2>1. ASSUME NEW todo \in SUBSET Disks PROVE [w EXCEPT !.todo = todo] \in Worker
    BY <1>1 DEF Worker
  <2>2. w.todo \in SUBSET Disks
    BY <1>1 DEF Worker
  <2>3. \A d \in w.todo : /\ left(d) \in Worker /\ left(d).name = w.name
                          /\ left(d).old = w.old /\ left(d).new = w.new /\ left(d).pc = w.pc
    BY <1>6, <2>1, <2>2
  <2>4. empty \in Worker /\ empty.name = w.name /\ empty.old = w.old /\ empty.new = w.new
    BY <1>6, <2>1
  <2>5. CASE CreateDisk
    <3>1. PICK d \in w.todo : w' \in {Making(left(d), d.class), left(d), CreateFailing(empty)}
      BY <2>5 DEF CreateDisk, Applied, NotApplied
    <3>2. w.pc = "createDisk"
      BY <2>5 DEF CreateDisk
    <3> HIDE DEF left, empty
    <3>3. QED BY <1>1, <2>3, <2>4, <3>1, <3>2, DiskTurns, MovesOn DEF Carries, ReleasingSteps
  <2>6. CASE DeleteDisk
    <3>1. PICK d \in w.todo : w' \in {Deleting(left(d), d.class), left(d), Failing(empty)}
      BY <2>6 DEF DeleteDisk, Applied, NotApplied
    <3>2. w.old.del
      BY <1>4, <2>6 DEF DeleteDisk, ReleasingSteps
    <3> HIDE DEF left, empty
    <3>3. QED BY <1>1, <2>3, <2>4, <3>1, <3>2, DiskTurns, MovesOn DEF Carries
  <2>7. QED BY <1>15, <2>5, <2>6
<1>16. QED BY <1>8, <1>9, <1>10, <1>11, <1>12, <1>13, <1>14, <1>15 DEF WorkerStep

-----------------------------------------------------------------------------
(* What a change on the server does to what the copies say *)

\* The changes of one name on the server, apart from the worker's patches: status
\* and deletion mark, the end of an unprotected object, a creation.
ServerStep(s, b, t, b2) ==
    \/ /\ b2 = b /\ t.uid = s.uid /\ t.prot = s.prot
       /\ s.del => t.del
       /\ t.del => t.prot
    \/ b2 = b /\ ~s.prot /\ t = NoSandbox
    \/ s.uid = 0 /\ b2 = b + 1 /\ t.uid = b + 1 /\ ~t.prot /\ ~t.del

\* Such a change keeps the invariants of the server and of every copy.
LEMMA ServerStepKeeps ==
    ASSUME NEW s \in Sandbox, NEW t \in Sandbox, NEW x \in Sandbox,
           NEW b \in Nat, NEW b2 \in Nat, ServerInv(s, b), ServerStep(s, b, t, b2)
    PROVE  /\ ServerInv(t, b2)
           /\ CopyInv(x, s, b) => CopyInv(x, t, b2)
           /\ CopyInv(x, s, b) /\ Pending(x, s) => Pending(x, t)
<1>1. s.uid \in Nat /\ t.uid \in Nat /\ x.uid \in Nat
  BY DEF Sandbox
<1>2. NoSandbox.uid = 0 /\ ~NoSandbox.prot /\ ~NoSandbox.del
  BY DEF NoSandbox
<1>3. QED BY <1>1, <1>2 DEF ServerStep, ServerInv, CopyInv, Pending

\* The patch that protects, and the patch that releases, keep the invariant of the
\* cache given what the worker's copy says of it.
LEMMA PatchKeeps ==
    ASSUME NEW s \in Sandbox, NEW t \in Sandbox, NEW c \in Sandbox, NEW b \in Nat,
           ServerInv(s, b), CopyInv(c, s, b),
           \/ s.uid # 0 /\ ~s.prot /\ ~s.del /\ Pending(c, s) /\ t = [s EXCEPT !.prot = TRUE]
           \/ s.prot /\ s.del /\ (c.uid = s.uid => c.del) /\ t = NoSandbox
    PROVE  ServerInv(t, b) /\ CopyInv(c, t, b)
<1>1. s.uid \in Nat /\ t.uid \in Nat /\ c.uid \in Nat
  BY DEF Sandbox
<1>2. NoSandbox.uid = 0 /\ ~NoSandbox.prot /\ ~NoSandbox.del
  BY DEF NoSandbox
<1>3. t = [s EXCEPT !.prot = TRUE] => t.uid = s.uid /\ t.prot /\ t.del = s.del
  BY DEF Sandbox
<1>4. QED BY <1>1, <1>2, <1>3 DEF ServerInv, CopyInv, Pending

\* What follows from types of the variables.
LEMMA Typed ==
    ASSUME TypeOK, NEW n \in Names
    PROVE  sandboxes[n] \in Sandbox /\ cSandboxes[n] \in Sandbox /\ born[n] \in Nat
BY DEF TypeOK, ApiTypeOK, CacheTypeOK, WorldTypeOK

\* A step that changes the server as above, and leaves the cache alone, keeps the
\* invariant when the worker is idle afterwards, untouched, or carries on.
LEMMA Forward ==
    ASSUME ProtectionInv, TypeOK', UNCHANGED cSandboxes,
           \A n \in Names : \/ sandboxes'[n] = sandboxes[n] /\ born'[n] = born[n]
                            \/ ServerStep(sandboxes[n], born[n], sandboxes'[n], born'[n]),
           w'.pc = "idle" \/ UNCHANGED w \/ (w.pc # "idle" /\ Carries(w'))
    PROVE  NamesInv' /\ WorkerInv'
<1>1. ASSUME NEW n \in Names, NEW x \in Sandbox
      PROVE  /\ ServerInv(sandboxes'[n], born'[n])
             /\ CopyInv(x, sandboxes[n], born[n]) => CopyInv(x, sandboxes'[n], born'[n])
             /\ CopyInv(x, sandboxes[n], born[n]) /\ Pending(x, sandboxes[n])
                  => Pending(x, sandboxes'[n])
  <2>1. /\ sandboxes[n] \in Sandbox /\ born[n] \in Nat
        /\ sandboxes'[n] \in Sandbox /\ born'[n] \in Nat
    BY DEF ProtectionInv, TypeOK, ApiTypeOK, WorldTypeOK
  <2>2. ServerInv(sandboxes[n], born[n])
    BY DEF ProtectionInv, NamesInv
  <2>3. QED BY <2>1, <2>2, ServerStepKeeps
<1>2. NamesInv'
  BY <1>1, Typed DEF ProtectionInv, NamesInv
<1>3. ASSUME w'.pc # "idle" PROVE WorkerInv'
  <2>1. w.pc # "idle" /\ w'.name = w.name /\ w'.old = w.old
    BY <1>3 DEF Carries
  <2>2. w.name \in Names /\ w.old \in Sandbox
    BY <2>1, KeyTyped DEF ProtectionInv
  <2>3. cSandboxes[w.name] \in Sandbox /\ CopyInv(cSandboxes[w.name], sandboxes[w.name], born[w.name])
    BY <2>2, Typed DEF ProtectionInv, NamesInv
  <2>4. /\ CopyInv(w.old, sandboxes'[w.name], born'[w.name])
        /\ ~w.old.del => Pending(cSandboxes[w.name], sandboxes'[w.name])
    BY <1>1, <2>1, <2>2, <2>3 DEF ProtectionInv, WorkerInv
  <2>5. /\ ~w.old.del /\ w.old.prot => w'.new.prot
        /\ w'.pc \in ReleasingSteps => w.old.del
    BY <1>3, <2>1 DEF Carries, ProtectionInv, WorkerInv
  <2>6. w.old.del /\ cSandboxes[w.name].uid = w.old.uid => cSandboxes[w.name].del
    BY <2>1 DEF ProtectionInv, WorkerInv
  <2>7. QED BY <2>1, <2>4, <2>5, <2>6 DEF WorkerInv
<1>4. QED BY <1>2, <1>3 DEF WorkerInv

-----------------------------------------------------------------------------
(* The actions *)

\* Steps that touch neither what the server holds of sandboxes nor what the cache
\* holds of them, and not the worker.
LEMMA Elsewhere ==
    ASSUME ProtectionInv, TypeOK', UNCHANGED <<sandboxes, cSandboxes, born, w>>
    PROVE  NamesInv' /\ WorkerInv'
BY Forward

\* Users and the cluster change the server's side alone.
LEMMA SurroundingsProtect ==
    ASSUME ProtectionInv, TypeOK', User \/ Cluster PROVE NamesInv' /\ WorkerInv'
<1>1. ASSUME NEW n \in Names, CreateSandbox(n) PROVE NamesInv' /\ WorkerInv'
  <2>1. sandboxes \in [Names -> Sandbox] /\ born \in [Names -> 0..MaxIncarnations]
    BY DEF ProtectionInv, TypeOK, ApiTypeOK, WorldTypeOK
  <2>2. sandboxes[n].uid = 0 /\ born' = [born EXCEPT ![n] = @ + 1]
        /\ \E x : /\ sandboxes' = [sandboxes EXCEPT ![n] = x]
                  /\ x.uid = born[n] + 1 /\ ~x.prot /\ ~x.del
    <3>1. PICK x : /\ sandboxes' = [sandboxes EXCEPT ![n] = x]
                   /\ \/ \E t \in Templates :
                            x = [NoSandbox EXCEPT !.uid = born[n] + 1, !.tmpl = t]
                      \/ \E i \in InlineSpecs :
                            x = [NoSandbox EXCEPT !.uid = born[n] + 1, !.inline = i]
      BY <1>1, Zenon DEF CreateSandbox
    <3>2. x.uid = born[n] + 1 /\ ~x.prot /\ ~x.del
      BY <3>1 DEF NoSandbox
    <3>3. sandboxes[n].uid = 0 /\ born' = [born EXCEPT ![n] = @ + 1]
      BY <1>1 DEF CreateSandbox
    <3>4. QED BY <3>1, <3>2, <3>3
  <2>3. \A m \in Names : \/ sandboxes'[m] = sandboxes[m] /\ born'[m] = born[m]
                         \/ ServerStep(sandboxes[m], born[m], sandboxes'[m], born'[m])
    BY <2>1, <2>2 DEF ServerStep
  <2>4. QED BY <1>1, <2>3, Forward DEF CreateSandbox, caches
<1>2. ASSUME NEW n \in Names, DeleteSandbox(n) PROVE NamesInv' /\ WorkerInv'
  <2>1. sandboxes \in [Names -> Sandbox]
    BY DEF ProtectionInv, TypeOK, ApiTypeOK
  <2>2. sandboxes' = [sandboxes EXCEPT ![n] = Deleted(sandboxes[n], NoSandbox)] /\ UNCHANGED born
    BY <1>2 DEF DeleteSandbox, world
  <2>3. \A m \in Names : \/ sandboxes'[m] = sandboxes[m] /\ born'[m] = born[m]
                         \/ ServerStep(sandboxes[m], born[m], sandboxes'[m], born'[m])
    BY <2>1, <2>2 DEF ServerStep, Deleted, Sandbox
  <2>4. QED BY <1>2, <2>3, Forward DEF DeleteSandbox, caches
<1>3. ASSUME NEW t \in Templates, CreateTemplate(t) \/ DeleteTemplate(t)
      PROVE  NamesInv' /\ WorkerInv'
  BY <1>3, Elsewhere DEF CreateTemplate, DeleteTemplate, caches, world
<1>4. ASSUME Cluster PROVE NamesInv' /\ WorkerInv'
  BY <1>4, Elsewhere DEF Cluster, WorkloadPhase, EvictWorkload, WorkloadGone, ChangeWorkload,
     CollectOrphans, RunOut, api, caches, world
<1>5. QED BY <1>1, <1>2, <1>3, <1>4 DEF User

\* The informers bring the cache of one sandbox to what the server holds.
LEMMA InformersProtect ==
    ASSUME ProtectionInv, TypeOK', Informers PROVE NamesInv' /\ WorkerInv'
<1>1. ASSUME NEW n \in Names, SyncSandbox(n) PROVE NamesInv' /\ WorkerInv'
  <2>1. UNCHANGED <<sandboxes, born, w>> /\ cSandboxes' = [cSandboxes EXCEPT ![n] = sandboxes[n]]
    BY <1>1 DEF SyncSandbox, api, world
  <2>2. \A m \in Names : cSandboxes'[m] = IF m = n THEN sandboxes[m] ELSE cSandboxes[m]
    BY <2>1 DEF ProtectionInv, TypeOK, CacheTypeOK
  <2>3. CopyInv(sandboxes[n], sandboxes[n], born[n]) /\ Pending(sandboxes[n], sandboxes[n])
    BY DEF ProtectionInv, NamesInv, ServerInv, CopyInv, Pending
  <2>4. NamesInv'
    BY <2>1, <2>2, <2>3 DEF ProtectionInv, NamesInv
  <2>5. ASSUME w.pc # "idle"
        PROVE  /\ ~w.old.del => Pending(cSandboxes'[w.name], sandboxes[w.name])
               /\ w.old.del /\ cSandboxes'[w.name].uid = w.old.uid => cSandboxes'[w.name].del
    <3>1. w.name \in Names
      BY <2>5, KeyTyped DEF ProtectionInv
    <3>2. CopyInv(w.old, sandboxes[w.name], born[w.name])
      BY <2>5 DEF ProtectionInv, WorkerInv
    <3>3. QED BY <2>2, <2>3, <2>5, <3>1, <3>2 DEF ProtectionInv, WorkerInv, CopyInv
  <2>6. QED BY <2>1, <2>4, <2>5 DEF ProtectionInv, WorkerInv
<1>2. ASSUME NEW t \in Templates, SyncTemplate(t) PROVE NamesInv' /\ WorkerInv'
  BY <1>2, Elsewhere DEF SyncTemplate, api, world
<1>3. ASSUME NEW k \in Keys, SyncWorkload(k) \/ SyncDisks(k) PROVE NamesInv' /\ WorkerInv'
  BY <1>3, Elsewhere DEF SyncWorkload, SyncDisks, api, world
<1>4. QED BY <1>1, <1>2, <1>3 DEF Informers

\* A reconcile starts from the copy in the cache; the finalizer it carries stays in
\* the worker's hands unless the copy is being deleted.
LEMMA BeginProtects ==
    ASSUME ProtectionInv, TypeOK', NEW n \in Names, Begin(n) PROVE NamesInv' /\ WorkerInv'
<1>1. Take(n)
  BY DEF Begin, BeginGone, BeginTerminating, BeginExpired, BeginWaiting, BeginManaging
<1>2. UNCHANGED <<sandboxes, cSandboxes, born>>
  BY <1>1 DEF Take, api, caches, world
<1>3. CASE BeginGone(n)
  BY <1>2, <1>3, Elsewhere DEF BeginGone
<1>4. CASE ~BeginGone(n)
  <2> DEFINE c == cSandboxes[n]
             x == Reading(n)
  <2>1. c.uid # 0
    BY <1>4 DEF Begin, BeginTerminating, BeginExpired, BeginWaiting, BeginManaging, Live
  <2>2. x \in Worker /\ x.old = c /\ x.name = n /\ x.new.prot = c.prot
    BY <2>1, ReadingTyped DEF ProtectionInv, TypeOK
  <2> HIDE DEF x
  <2>3. /\ w'.name = n /\ w'.old = c
        /\ ~c.del /\ c.prot => w'.new.prot
        /\ w'.pc \in ReleasingSteps => c.del
    <3>1. CASE BeginTerminating(n)
      <4> DEFINE y == [x EXCEPT !.new.cond = "Terminating"]
      <4>1. y \in Worker /\ y.name = n /\ y.old = c
        BY <2>2 DEF Worker, Conditions
      <4>2. w' \in {Unprotecting(y), Failing(y), [y EXCEPT !.pc = "findWorkload"]} /\ c.del
        BY <3>1 DEF BeginTerminating, x
      <4> HIDE DEF y
      <4>3. w'.name = n /\ w'.old = c
        BY <4>1, <4>2, MovesOn, ReleaseKeeps DEF Worker
      <4>4. QED BY <4>2, <4>3
    <3>2. CASE BeginExpired(n)
      BY <2>2, <3>2 DEF BeginExpired, x, Worker, ReleasingSteps
    <3>3. CASE BeginWaiting(n)
      BY <2>2, <3>3, MovesOn DEF BeginWaiting, x
    <3>4. CASE BeginManaging(n)
      <4> DEFINE y == [x EXCEPT !.new.prot = TRUE]
      <4>1. y \in Worker /\ y.name = n /\ y.old = c /\ y.new.prot
        BY <2>2 DEF Worker
      <4>2. w' \in {Creating(y), [y EXCEPT !.pc = "protect"]}
        BY <3>4 DEF BeginManaging, x
      <4> HIDE DEF y
      <4>3. QED BY <4>1, <4>2, MovesOn DEF Worker, ReleasingSteps
    <3>5. QED BY <1>4, <3>1, <3>2, <3>3, <3>4 DEF Begin
  <2>4. NamesInv'
    BY <1>2 DEF ProtectionInv, NamesInv
  <2>5. CopyInv(c, sandboxes[n], born[n])
    BY DEF ProtectionInv, NamesInv
  <2>6. QED BY <1>2, <2>3, <2>4, <2>5 DEF WorkerInv, Pending
<1>5. QED BY <1>3, <1>4

\* The patch of the finalizers releases what the worker has read, and protects
\* nothing while the cache still shows a deletion.
LEMMA MetaPatch ==
    ASSUME ProtectionInv, UpdateMeta, sandboxes' # sandboxes
    PROVE  LET n == w.name  s == sandboxes[n]  c == cSandboxes[n] IN
           /\ n \in Names /\ s.uid # 0
           /\ \/ /\ ~s.prot /\ ~s.del /\ Pending(c, s)
                 /\ sandboxes' = [sandboxes EXCEPT ![n] = [s EXCEPT !.prot = TRUE]]
              \/ /\ s.prot /\ s.del /\ (c.uid = s.uid => c.del)
                 /\ w.old.del /\ w.old.uid = s.uid
                 /\ sandboxes' = [sandboxes EXCEPT ![n] = NoSandbox]
<1> DEFINE n == w.name
           s == sandboxes[n]
           c == cSandboxes[n]
<1>1. w.pc # "idle"
  BY DEF UpdateMeta
<1>2. w \in Worker /\ n \in Names /\ s \in Sandbox /\ w.old \in Sandbox
  BY <1>1, KeyTyped, Typed, BusyTyped DEF ProtectionInv
<1>3. /\ s.uid # 0 /\ PatchAccepted(s, w.old.prot, w.new.prot) /\ w.new.prot # w.old.prot
      /\ sandboxes' = [sandboxes EXCEPT ![n] = Patched(s, w.new.prot, NoSandbox)]
  BY DEF UpdateMeta
<1>4. w.new.prot \in BOOLEAN /\ w.old.prot \in BOOLEAN /\ s.prot \in BOOLEAN
  BY <1>2 DEF Worker, Sandbox
<1>5. /\ CopyInv(w.old, s, born[n])
      /\ ~w.old.del => Pending(c, s)
      /\ w.old.del /\ c.uid = w.old.uid => c.del
      /\ ~w.old.del /\ w.old.prot => w.new.prot
  BY <1>1 DEF ProtectionInv, WorkerInv
<1>6. CASE w.new.prot
  <2>1. ~w.old.prot /\ ~s.prot /\ ~s.del
    BY <1>3, <1>4, <1>6 DEF PatchAccepted
  <2>2. Pending(c, s)
    BY <1>5, <2>1 DEF CopyInv
  <2>3. Patched(s, w.new.prot, NoSandbox) = [s EXCEPT !.prot = TRUE]
    BY <1>4, <1>6 DEF Patched
  <2>4. QED BY <1>2, <1>3, <2>1, <2>2, <2>3
<1>7. CASE ~w.new.prot
  <2>1. w.old.prot /\ s.prot
    BY <1>3, <1>4, <1>7 DEF PatchAccepted
  <2>2. w.old.del /\ w.old.uid = s.uid /\ s.del /\ (c.uid = s.uid => c.del)
    BY <1>5, <1>7, <2>1 DEF CopyInv
  <2>3. Patched(s, w.new.prot, NoSandbox) = NoSandbox
    BY <1>7, <2>2 DEF Patched
  <2>4. QED BY <1>2, <1>3, <2>1, <2>2, <2>3
<1>8. QED BY <1>6, <1>7

\* The worker, the delayed queue and the restart.
LEMMA ControllerProtects ==
    ASSUME ProtectionInv, TypeOK', Controller PROVE NamesInv' /\ WorkerInv'
<1>1. ASSUME NEW n \in Names, Begin(n) PROVE NamesInv' /\ WorkerInv'
  BY <1>1, BeginProtects
<1>2. ASSUME NEW n \in Names, FireTimer(n) PROVE NamesInv' /\ WorkerInv'
  BY <1>2, Elsewhere DEF FireTimer, api, caches, world
<1>3. CASE Restart
  <2>1. /\ UNCHANGED <<sandboxes, born>> /\ cSandboxes' = sandboxes /\ w'.pc = "idle"
    BY <1>3, IdleTyped DEF Restart, api
  <2>2. NamesInv'
    BY <2>1 DEF ProtectionInv, NamesInv, ServerInv, CopyInv
  <2>3. QED BY <2>1, <2>2 DEF WorkerInv
<1>4. CASE WorkerStep /\ ~Expire /\ ~UpdateStatus /\ ~UpdateMeta
  <2>1. w.pc # "idle" /\ Carries(w')
    BY <1>4, WorkerCarries DEF ProtectionInv
  <2>2. UNCHANGED <<sandboxes, cSandboxes, born>>
    BY <1>4 DEF WorkerStep, ProtectTemplate, ListDisks, CreateDisk, ReadWorkload,
       CreateWorkload, ReplaceWorkload, ReadStatus, FindWorkload, DeleteWorkload, ListOwned,
       DeleteDisk, UnprotectTemplate, DeletingWorkload, UnchangedButErrors, UnchangedButEvents,
       api, caches, world
  <2>3. QED BY <2>1, <2>2, Forward
<1>5. CASE Expire
  <2>1. w.pc # "idle" /\ Carries(w')
    <3>1. WorkerStep /\ ~UpdateStatus /\ ~UpdateMeta
      BY <1>5 DEF WorkerStep, Expire, UpdateStatus, UpdateMeta
    <3>2. QED BY <3>1, WorkerCarries DEF ProtectionInv
  <2>2. UNCHANGED <<cSandboxes, born>>
        /\ \/ UNCHANGED sandboxes
           \/ sandboxes' = [sandboxes EXCEPT ![w.name] = Deleted(sandboxes[w.name], NoSandbox)]
    BY <1>5 DEF Expire, UnchangedButErrors, caches
  <2>3. sandboxes \in [Names -> Sandbox]
    BY DEF ProtectionInv, TypeOK, ApiTypeOK
  <2>4. \A m \in Names : \/ sandboxes'[m] = sandboxes[m] /\ born'[m] = born[m]
                         \/ ServerStep(sandboxes[m], born[m], sandboxes'[m], born'[m])
    BY <2>2, <2>3 DEF ServerStep, Deleted, Sandbox
  <2>5. QED BY <2>1, <2>2, <2>4, Forward
<1>6. CASE UpdateStatus
  <2>1. w.pc # "idle" /\ w \in Worker
    BY <1>6, BusyTyped DEF UpdateStatus, ProtectionInv
  <2>2. w'.pc = "idle" \/ Carries(w')
    <3>1. w'.pc = "idle"
          \/ w' = [w EXCEPT !.pc = "updateMeta", !.new.prot = @ \/ sandboxes[w.name].prot]
      BY <1>6, IdleTyped DEF UpdateStatus, Return
    <3>2. ASSUME w' = [w EXCEPT !.pc = "updateMeta", !.new.prot = @ \/ sandboxes[w.name].prot]
          PROVE  w'.name = w.name /\ w'.old = w.old /\ w'.pc = "updateMeta"
                 /\ (w.new.prot => w'.new.prot)
      BY <2>1, <3>2 DEF Worker
    <3>3. QED BY <3>1, <3>2 DEF Carries, ReleasingSteps
  <2>3. UNCHANGED <<cSandboxes, born>>
        /\ \/ UNCHANGED sandboxes
           \/ sandboxes' = [sandboxes EXCEPT ![w.name].type = w.new.type,
                                             ![w.name].cond = w.new.cond]
    BY <1>6 DEF UpdateStatus, caches
  <2>4. sandboxes \in [Names -> Sandbox]
    BY DEF ProtectionInv, TypeOK, ApiTypeOK
  <2>5. \A m \in Names : \/ sandboxes'[m] = sandboxes[m]
                         \/ /\ sandboxes'[m].uid = sandboxes[m].uid
                            /\ sandboxes'[m].prot = sandboxes[m].prot
                            /\ sandboxes'[m].del = sandboxes[m].del
    BY <2>3, <2>4 DEF Sandbox
  <2>6. \A m \in Names : \/ sandboxes'[m] = sandboxes[m] /\ born'[m] = born[m]
                         \/ ServerStep(sandboxes[m], born[m], sandboxes'[m], born'[m])
    BY <2>3, <2>5 DEF ServerStep, ProtectionInv, NamesInv, ServerInv
  <2>7. QED BY <2>1, <2>2, <2>3, <2>6, Forward
<1>7. CASE UpdateMeta
  <2>1. UNCHANGED <<cSandboxes, born>> /\ w'.pc = "idle"
    BY <1>7, IdleTyped DEF UpdateMeta, Return, caches
  <2>2. CASE sandboxes' = sandboxes
    BY <2>1, <2>2, Forward
  <2>3. CASE sandboxes' # sandboxes
    <3> DEFINE n == w.name
               s == sandboxes[n]
               t == sandboxes'[n]
    <3>1. sandboxes \in [Names -> Sandbox] /\ sandboxes' \in [Names -> Sandbox]
      BY DEF ProtectionInv, TypeOK, ApiTypeOK
    <3>2. /\ n \in Names
          /\ \/ /\ s.uid # 0 /\ ~s.prot /\ ~s.del /\ Pending(cSandboxes[n], s)
                /\ t = [s EXCEPT !.prot = TRUE]
             \/ /\ s.prot /\ s.del /\ (cSandboxes[n].uid = s.uid => cSandboxes[n].del)
                /\ t = NoSandbox
          /\ \A m \in Names : m # n => sandboxes'[m] = sandboxes[m]
      BY <1>7, <2>3, <3>1, MetaPatch
    <3>3. /\ s \in Sandbox /\ t \in Sandbox /\ cSandboxes[n] \in Sandbox /\ born[n] \in Nat
          /\ ServerInv(s, born[n]) /\ CopyInv(cSandboxes[n], s, born[n])
      BY <3>1, <3>2, Typed DEF ProtectionInv, NamesInv
    <3> HIDE DEF n, s, t
    <3>4. ServerInv(t, born[n]) /\ CopyInv(cSandboxes[n], t, born[n])
      BY <3>2, <3>3, PatchKeeps
    <3>5. NamesInv'
      BY <2>1, <3>2, <3>4 DEF ProtectionInv, NamesInv, t
    <3>6. QED BY <2>1, <3>5 DEF WorkerInv
  <2>4. QED BY <2>2, <2>3
<1>8. QED BY <1>1, <1>2, <1>3, <1>4, <1>5, <1>6, <1>7 DEF Controller, WorkerStep

\* The invariant holds in every reachable state.
THEOREM Protection == Spec => []ProtectionInv
<1>1. Init => NamesInv /\ WorkerInv
  <2>1. ASSUME Init PROVE NamesInv
    <3>1. ASSUME NEW n \in Names
          PROVE  sandboxes[n] = NoSandbox /\ cSandboxes[n] = NoSandbox /\ born[n] = 0
      BY <2>1 DEF Init
    <3>2. QED BY <3>1 DEF NamesInv, ServerInv, CopyInv, NoSandbox
  <2>2. ASSUME Init PROVE w.pc = "idle"
    BY <2>2, IdleTyped DEF Init
  <2>3. QED BY <2>1, <2>2 DEF WorkerInv
<1>2. ProtectionInv /\ TypeOK' /\ [Next]_vars => NamesInv' /\ WorkerInv'
  <2>1. ASSUME ProtectionInv, TypeOK', UNCHANGED vars PROVE NamesInv' /\ WorkerInv'
    BY <2>1, Elsewhere DEF vars, api, caches, world
  <2>2. QED BY <2>1, SurroundingsProtect, InformersProtect, ControllerProtects DEF Next
<1>3. Spec => []TypeOK
  BY TypeCorrect
<1>4. QED BY <1>1, <1>2, <1>3, PTL DEF Spec, ProtectionInv

\* However stale the cache, or the copy in the worker's hands: one that shows a
\* sandbox with the finalizer and without a deletion is a copy of the sandbox that
\* exists now, which is still protected (Reconcile reads it, Create and
\* deleteSandbox act on it by name).
THEOREM ReadProtected == Spec => []ReadProtectedIsPresent
<1>1. ProtectionInv => ReadProtectedIsPresent
  BY DEF ProtectionInv, NamesInv, WorkerInv, CopyInv, ReadProtectedIsPresent, ShownProtected
<1>2. QED BY <1>1, Protection, PTL

\* The finalizer only ever comes off, and a protected sandbox only ever goes, by the
\* patch of a worker that has read that incarnation as being deleted.
THEOREM Releases == Spec => ReleasesWhatItRead
<1> DEFINE Released(n) ==
      sandboxes[n].prot /\ (sandboxes'[n].uid # sandboxes[n].uid \/ ~sandboxes'[n].prot)
      => w.name = n /\ w.old.uid = sandboxes[n].uid /\ w.old.del
<1>1. ASSUME ProtectionInv, Next, NEW n \in Names PROVE Released(n)
  <2>1. sandboxes \in [Names -> Sandbox]
    BY <1>1 DEF ProtectionInv, TypeOK, ApiTypeOK
  <2>2. CASE UNCHANGED sandboxes
    BY <2>2
  <2>3. ASSUME NEW m \in Names,
               \/ sandboxes[m].uid = 0 /\ \E x : sandboxes' = [sandboxes EXCEPT ![m] = x]
               \/ sandboxes' = [sandboxes EXCEPT ![m] = Deleted(sandboxes[m], NoSandbox)]
        PROVE  Released(n)
    <3>1. sandboxes[m].uid = 0 => ~sandboxes[m].prot
      BY <1>1 DEF ProtectionInv, NamesInv, ServerInv
    <3>2. sandboxes[m].prot => /\ Deleted(sandboxes[m], NoSandbox).prot
                               /\ Deleted(sandboxes[m], NoSandbox).uid = sandboxes[m].uid
      BY <2>1 DEF Deleted, Sandbox
    <3>3. QED BY <2>1, <2>3, <3>1, <3>2
  <2>4. CASE UpdateStatus
    <3>1. w.name \in Names
      BY <1>1, <2>4, KeyTyped DEF UpdateStatus, ProtectionInv
    <3>2. UNCHANGED sandboxes
          \/ sandboxes' = [sandboxes EXCEPT ![w.name].type = w.new.type,
                                            ![w.name].cond = w.new.cond]
      BY <2>4 DEF UpdateStatus
    <3>3. sandboxes'[n].uid = sandboxes[n].uid /\ sandboxes'[n].prot = sandboxes[n].prot
      BY <2>1, <3>1, <3>2 DEF Sandbox
    <3>4. QED BY <3>3
  <2>5. CASE UpdateMeta /\ sandboxes' # sandboxes
    <3>1. ASSUME sandboxes' = [sandboxes EXCEPT ![w.name] = [sandboxes[w.name] EXCEPT !.prot = TRUE]]
          PROVE  sandboxes'[n].uid = sandboxes[n].uid /\ (sandboxes[n].prot => sandboxes'[n].prot)
      BY <2>1, <3>1 DEF Sandbox
    <3>2. QED BY <1>1, <2>1, <2>5, <3>1, MetaPatch
  <2>6. ASSUME NEW m \in Names, CreateSandbox(m) \/ DeleteSandbox(m) PROVE Released(n)
    BY <2>3, <2>6 DEF CreateSandbox, DeleteSandbox
  <2>7. CASE Expire
    <3>1. w.name \in Names
      BY <1>1, <2>7, KeyTyped DEF Expire, ProtectionInv
    <3>2. QED BY <2>2, <2>3, <2>7, <3>1 DEF Expire
  <2>8. QED
    BY <1>1, <2>2, <2>4, <2>5, <2>6, <2>7
    DEF Next, User, Cluster, Informers, Controller, WorkerStep, CreateTemplate, DeleteTemplate,
        WorkloadPhase, EvictWorkload, WorkloadGone, ChangeWorkload, CollectOrphans, RunOut,
        SyncSandbox, SyncTemplate, SyncWorkload, SyncDisks, FireTimer, Restart,
        Begin, BeginGone, BeginTerminating, BeginExpired, BeginWaiting, BeginManaging, Take,
        ProtectTemplate, ListDisks, CreateDisk, ReadWorkload, CreateWorkload, ReplaceWorkload,
        ReadStatus, FindWorkload, DeleteWorkload, ListOwned, DeleteDisk, UnprotectTemplate,
        DeletingWorkload, api
<1>2. ProtectionInv /\ [Next]_vars => [\A n \in Names : Released(n)]_vars
  BY <1>1
<1>3. QED BY <1>2, Protection, PTL DEF Spec, ReleasesWhatItRead
=============================================================================
