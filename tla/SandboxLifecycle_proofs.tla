---------------------- MODULE SandboxLifecycle_proofs ----------------------
(***************************************************************************)
(* Proofs that the sandbox controller implements the abstract life of a    *)
(* sandbox, and that the kind of its workload is decided once.             *)
(***************************************************************************)
EXTENDS SandboxProtection_proofs

\* The kind a sandbox has is the kind the worker goes on with, and what is not there
\* has none.
KindInv ==
    /\ \A n \in Names : sandboxes[n].uid = 0 => sandboxes[n].type = NoType
    /\ w.pc # "idle" /\ w.old.type # NoType => w.new.type = w.old.type
\* A worker about to end a TTL holds a live copy whose TTL has run out.
ExpiryInv == w.pc = "expire" => ~w.old.del /\ <<w.name, w.old.uid>> \in expired
LifecycleInv == ProtectionInv /\ KindInv /\ ExpiryInv

-----------------------------------------------------------------------------
(* The kind in the worker's hands *)

\* Whatever the worker turns to, it keeps the kind, and it does not turn to the end of
\* a TTL, with which a reconcile can only begin.
LEMMA TurnsKeepKind ==
    ASSUME NEW x \in Worker
    PROVE  \A y \in {Updating(x), Failing(x), CreateFailing(x), Creating(x), Releasing(x),
                     Unprotecting(x)} : y.new.type = x.new.type /\ y.pc # "expire"
<1>1. \A y \in Worker : Updating(y).new = y.new /\ Updating(y).pc # "expire"
  BY DEF Updating, Worker
<1>2. \A y \in Worker : [y EXCEPT !.err = TRUE] \in Worker /\ [y EXCEPT !.err = TRUE].new = y.new
  BY DEF Worker
<1>3. \A y \in Worker : Failing(y).new = y.new /\ Failing(y).pc # "expire"
  BY <1>1, <1>2 DEF Failing
<1>4. /\ [x EXCEPT !.new.cond = "CreateFailed"] \in Worker
      /\ [x EXCEPT !.new.cond = "CreateFailed"].new.type = x.new.type
  BY DEF Worker, Conditions
<1>5. CreateFailing(x).new.type = x.new.type /\ CreateFailing(x).pc # "expire"
  BY <1>3, <1>4 DEF CreateFailing
<1>6. Creating(x).new.type = x.new.type /\ Creating(x).pc # "expire"
  BY <1>5 DEF Creating, Worker
<1>7. /\ [x EXCEPT !.new.prot = FALSE] \in Worker
      /\ [x EXCEPT !.new.prot = FALSE].new.type = x.new.type
  BY DEF Worker
<1>8. Releasing(x).new.type = x.new.type /\ Releasing(x).pc # "expire"
  BY <1>1, <1>7 DEF Releasing
<1>9. Unprotecting(x).new.type = x.new.type /\ Unprotecting(x).pc # "expire"
  BY <1>8 DEF Unprotecting, Worker
<1>10. QED BY <1>1, <1>3, <1>5, <1>6, <1>8, <1>9

\* Every step of the worker before the update keeps the kind it decided on.
LEMMA WorkerKeepsKind ==
    ASSUME TypeOK, WorkerStep, ~UpdateStatus, ~UpdateMeta
    PROVE  w'.new.type = w.new.type /\ w'.pc # "expire"
<1>1. w.pc # "idle" /\ w \in Worker
  <2>1. w.pc # "idle"
    BY DEF WorkerStep, Expire, ProtectTemplate, ListDisks, CreateDisk, ReadWorkload,
       CreateWorkload, ReplaceWorkload, ReadStatus, FindWorkload, DeleteWorkload, ListOwned,
       DeleteDisk, UnprotectTemplate
  <2>2. QED BY <2>1, BusyTyped
<1>2. \A y \in {Updating(w), Failing(w), CreateFailing(w), Creating(w), Releasing(w),
                Unprotecting(w)} : y.new.type = w.new.type /\ y.pc # "expire"
  BY <1>1, TurnsKeepKind
<1>3. ASSUME NEW pc, NEW todo
      PROVE  /\ [w EXCEPT !.pc = pc].new.type = w.new.type /\ [w EXCEPT !.pc = pc].pc = pc
             /\ [w EXCEPT !.pc = pc, !.todo = todo].new.type = w.new.type
             /\ [w EXCEPT !.pc = pc, !.todo = todo].pc = pc
  BY <1>1 DEF Worker
<1>4. \A class : /\ Making(w, class).new.type = w.new.type /\ Making(w, class).pc # "expire"
                 /\ Deleting(w, class).new.type = w.new.type /\ Deleting(w, class).pc # "expire"
  BY <1>1, <1>2, <1>3 DEF Making, Deleting
<1>5. CASE Expire \/ ProtectTemplate \/ CreateWorkload \/ ReplaceWorkload \/ DeleteWorkload
           \/ UnprotectTemplate
  <2>1. \/ w' \in {Updating(w), Failing(w), CreateFailing(w), Creating(w), Releasing(w)}
        \/ \E pc \in {"readStatus", "listOwned"} : w' = [w EXCEPT !.pc = pc]
    BY <1>5 DEF Expire, ProtectTemplate, CreateWorkload, ReplaceWorkload, DeleteWorkload,
       UnprotectTemplate, DeletingWorkload, Applied, NotApplied
  <2>2. ASSUME NEW pc \in {"readStatus", "listOwned"}
        PROVE  [w EXCEPT !.pc = pc].new.type = w.new.type /\ [w EXCEPT !.pc = pc].pc # "expire"
    BY <1>1 DEF Worker
  <2>3. QED BY <1>2, <2>1, <2>2
<1>6. CASE ListDisks \/ ListOwned
  <2>1. \/ w' = Making(w, ListedClass) \/ w' = Deleting(w, ListedClass)
        \/ w' = [w EXCEPT !.pc = "createDisk", !.todo = MissingDisks(ListedClass)]
        \/ w' = [w EXCEPT !.pc = "deleteDisk",
                          !.todo = {d \in cDisks[Key] : d.class = ListedClass}]
    BY <1>6 DEF ListDisks, ListOwned
  <2>2. \A y \in {Making(w, ListedClass), Deleting(w, ListedClass)} :
          y.new.type = w.new.type /\ y.pc # "expire"
    BY <1>4
  <2>3. ASSUME NEW pc \in {"createDisk", "deleteDisk"}, NEW todo
        PROVE  LET y == [w EXCEPT !.pc = pc, !.todo = todo] IN
               y.new.type = w.new.type /\ y.pc # "expire"
    BY <1>1 DEF Worker
  <2>4. QED BY <2>1, <2>2, <2>3
<1>7. CASE ReadWorkload \/ FindWorkload
  <2>1. \E pc \in Steps \ {"expire"} : w' = [w EXCEPT !.pc = pc]
    BY <1>7 DEF ReadWorkload, FindWorkload, Steps
  <2>2. QED BY <1>3, <2>1
<1>8. CASE ReadStatus
  <2> DEFINE cond == Status
             after == NextSync(w.name, w.old)
             x == [w EXCEPT !.new.cond = cond, !.after = after]
  <2>1. cond \in Conditions /\ after \in BOOLEAN
    BY ReasonTyped DEF Status, Conditions, NextSync
  <2> HIDE DEF cond, after
  <2>2. x \in Worker /\ x.new.type = w.new.type
    BY <1>1, <2>1 DEF Worker
  <2>3. w' = Updating(x)
    BY <1>8 DEF ReadStatus, cond, after
  <2> HIDE DEF x
  <2>4. QED BY <2>2, <2>3, TurnsKeepKind
<1>9. CASE CreateDisk \/ DeleteDisk
  <2> DEFINE left(d) == [w EXCEPT !.todo = @ \ {d}]
             empty == [w EXCEPT !.todo = {}]
  <2>1. ASSUME NEW todo \in SUBSET Disks
        PROVE  /\ [w EXCEPT !.todo = todo] \in Worker /\ [w EXCEPT !.todo = todo].new = w.new
               /\ [w EXCEPT !.todo = todo].pc = w.pc
    BY <1>1 DEF Worker
  <2>2. w.todo \in SUBSET Disks
    BY <1>1 DEF Worker
  <2>3. \A d \in w.todo : left(d) \in Worker /\ left(d).new = w.new /\ left(d).pc = w.pc
    BY <2>1, <2>2
  <2>4. empty \in Worker /\ empty.new = w.new
    BY <2>1
  <2>5. PICK d \in w.todo : w' \in {Making(left(d), d.class), Deleting(left(d), d.class), left(d),
                                    CreateFailing(empty), Failing(empty)}
    BY <1>9 DEF CreateDisk, DeleteDisk, Applied, NotApplied
  <2> HIDE DEF left, empty
  <2>6. \A y \in {Making(left(d), d.class), Deleting(left(d), d.class)} :
          y.new.type = w.new.type /\ y.pc # "expire"
    BY <2>3, TurnsKeepKind DEF Making, Deleting, Worker
  <2>7. w.pc # "expire"
    BY <1>9 DEF CreateDisk, DeleteDisk
  <2>8. QED BY <2>3, <2>4, <2>5, <2>6, <2>7, TurnsKeepKind
<1>10. QED BY <1>5, <1>6, <1>7, <1>8, <1>9 DEF WorkerStep

\* A reconcile starts with the kind its copy shows, if it shows one.
LEMMA BeginKeepsKind ==
    ASSUME TypeOK, NEW n \in Names, Begin(n), w'.pc # "idle"
    PROVE  w'.old.type # NoType => w'.new.type = w'.old.type
<1> DEFINE x == Reading(n)
<1>1. w.pc = "idle"
  BY DEF Begin, BeginGone, BeginTerminating, BeginExpired, BeginWaiting, BeginManaging, Take
<1>2. cSandboxes[n].uid # 0
  BY <1>1 DEF Begin, BeginGone, BeginTerminating, BeginExpired, BeginWaiting, BeginManaging, Live
<1>3. x \in Worker /\ x.old = cSandboxes[n] /\ (x.old.type # NoType => x.new.type = x.old.type)
  BY <1>2, ReadingTyped DEF TypeOK, TypeFor
<1> HIDE DEF x
<1>4. ASSUME NEW y \in Worker, y.old = x.old, y.new.type = x.new.type
      PROVE  \A z \in {Updating(y), Failing(y), Creating(y), Unprotecting(y)} :
                z.old = x.old /\ z.new.type = x.new.type
  BY <1>4, MovesOn, ReleaseKeeps, TurnsKeepKind
<1>5. \A y \in Worker, pc \in Steps :
        [y EXCEPT !.pc = pc].old = y.old /\ [y EXCEPT !.pc = pc].new = y.new
  BY DEF Worker
<1>6. CASE BeginTerminating(n)
  <2> DEFINE y == [x EXCEPT !.new.cond = "Terminating"]
  <2>1. y \in Worker /\ y.old = x.old /\ y.new.type = x.new.type
    BY <1>3 DEF Worker, Conditions
  <2>2. w' \in {Unprotecting(y), Failing(y), [y EXCEPT !.pc = "findWorkload"]}
    BY <1>6 DEF BeginTerminating, x
  <2> HIDE DEF y
  <2>3. \A z \in {Unprotecting(y), Failing(y)} : z.old = x.old /\ z.new.type = x.new.type
    BY <1>4, <2>1
  <2>4. /\ [y EXCEPT !.pc = "findWorkload"].old = x.old
        /\ [y EXCEPT !.pc = "findWorkload"].new.type = x.new.type
    BY <1>5, <2>1 DEF Steps
  <2>5. QED BY <1>3, <2>2, <2>3, <2>4
<1>7. CASE BeginExpired(n) \/ BeginWaiting(n)
  <2>1. w' = Updating(x) \/ w' = [x EXCEPT !.pc = "expire"]
    BY <1>7 DEF BeginExpired, BeginWaiting, x
  <2>2. QED BY <1>3, <1>4, <1>5, <2>1, ZenonT(60) DEF Steps
<1>8. CASE BeginManaging(n)
  <2> DEFINE y == [x EXCEPT !.new.prot = TRUE]
  <2>1. y \in Worker /\ y.old = x.old /\ y.new.type = x.new.type
    BY <1>3 DEF Worker
  <2>2. w' \in {Creating(y), [y EXCEPT !.pc = "protect"]}
    BY <1>8 DEF BeginManaging, x
  <2> HIDE DEF y
  <2>3. \A z \in {Creating(y)} : z.old = x.old /\ z.new.type = x.new.type
    BY <1>4, <2>1
  <2>4. /\ [y EXCEPT !.pc = "protect"].old = x.old
        /\ [y EXCEPT !.pc = "protect"].new.type = x.new.type
    BY <1>5, <2>1 DEF Steps
  <2>5. QED BY <1>3, <2>2, <2>3, <2>4
<1>9. QED BY <1>1, <1>6, <1>7, <1>8 DEF Begin, BeginGone

\* Only an expired copy is turned to the end of its TTL.
LEMMA BeginsElsewhere ==
    ASSUME TypeOK, NEW n \in Names, Begin(n), ~BeginExpired(n)
    PROVE  UNCHANGED w \/ w'.pc # "expire"
<1> DEFINE x == Reading(n)
<1>1. cSandboxes[n].uid # 0 => x \in Worker
  BY ReadingTyped DEF TypeOK
<1> HIDE DEF x
<1>2. CASE BeginGone(n)
  BY <1>2 DEF BeginGone
<1>3. CASE BeginTerminating(n)
  <2> DEFINE y == [x EXCEPT !.new.cond = "Terminating"]
  <2>1. y \in Worker
    BY <1>1, <1>3 DEF BeginTerminating, Worker, Conditions
  <2>2. w' \in {Unprotecting(y), Failing(y), [y EXCEPT !.pc = "findWorkload"]}
    BY <1>3 DEF BeginTerminating, x
  <2> HIDE DEF y
  <2>3. [y EXCEPT !.pc = "findWorkload"].pc # "expire"
    BY <2>1 DEF Worker
  <2>4. QED BY <2>1, <2>2, <2>3, TurnsKeepKind
<1>4. CASE BeginWaiting(n)
  BY <1>1, <1>4, TurnsKeepKind DEF BeginWaiting, Live, x
<1>5. CASE BeginManaging(n)
  <2> DEFINE y == [x EXCEPT !.new.prot = TRUE]
  <2>1. y \in Worker
    BY <1>1, <1>5 DEF BeginManaging, Live, Worker
  <2>2. w' \in {Creating(y), [y EXCEPT !.pc = "protect"]}
    BY <1>5 DEF BeginManaging, x
  <2> HIDE DEF y
  <2>3. [y EXCEPT !.pc = "protect"].pc # "expire"
    BY <2>1 DEF Worker
  <2>4. QED BY <2>1, <2>2, <2>3, TurnsKeepKind
<1>6. QED BY <1>2, <1>3, <1>4, <1>5 DEF Begin

-----------------------------------------------------------------------------
(* Every step is a step of the life of a sandbox or none *)

\* A change of one sandbox that its life allows; b and b2 count the incarnations, own says
\* that the controller makes it and due that a TTL under that name has run out.
LifeStep(s, b, t, b2, own, due) ==
    \/ /\ b2 = b
       /\ \/ Stage(t) = Stage(s) /\ t.type = s.type
          \/ Stage(t) = Stage(s) /\ Stage(s) # "absent" /\ s.type = NoType /\ t.type \in Types /\ own
          \/ Stage(s) = "unprotected" /\ Stage(t) = "protected" /\ t.type = s.type /\ own
          \/ Stage(s) = "protected" /\ Stage(t) = "leaving" /\ t.type = s.type /\ (own => due)
          \/ Stage(s) = "unprotected" /\ Stage(t) = "absent" /\ t.type = NoType /\ (own => due)
          \/ Stage(s) = "leaving" /\ Stage(t) = "absent" /\ t.type = NoType /\ own
    \/ Stage(s) = "absent" /\ b2 = b + 1 /\ Stage(t) = "unprotected" /\ t.type = s.type /\ ~own

Own == w' # w
DueFor(n) == \E i \in 1..born[n] : <<n, i>> \in expired

\* Such a change of the sandbox of one name, and of no child, is a step of the life.
LEMMA SandboxLives ==
    ASSUME TypeOK, TypeOK', NEW n \in Names, UNCHANGED <<workloads, disks, expired>>,
           LifeStep(sandboxes[n], born[n], sandboxes'[n], born'[n], Own, DueFor(n)),
           \A m \in Names : m # n => sandboxes'[m] = sandboxes[m] /\ born'[m] = born[m]
    PROVE  [Lifecycle!Next]_Lifecycle!vars
<1> DEFINE stage == [m \in Names |-> Stage(sandboxes[m])]
           kind == [m \in Names |-> sandboxes[m].type]
           s == sandboxes[n]
           t == sandboxes'[n]
<1>1. UNCHANGED Owning
  BY DEF Owning, Present
<1>2. /\ stage' = [stage EXCEPT ![n] = Stage(t)] /\ stage[n] = Stage(s)
      /\ kind' = [kind EXCEPT ![n] = t.type] /\ kind[n] = s.type
  OBVIOUS
<1>3. born \in [Names -> 0..MaxIncarnations] /\ born' \in [Names -> 0..MaxIncarnations]
  BY DEF TypeOK, WorldTypeOK
<1>4. born' = [born EXCEPT ![n] = born'[n]]
  BY <1>3
<1>5. /\ Stage(t) = Stage(s) => UNCHANGED stage
      /\ t.type = s.type => UNCHANGED kind
      /\ born'[n] = born[n] => UNCHANGED born
  BY <1>2, <1>3, <1>4
<1> HIDE DEF stage, kind, s, t
<1>0. (Own => DueFor(n)) => Lifecycle!Ended(n)
  BY DEF Own, DueFor, Lifecycle!Ended, Lifecycle!ByOthers, Lifecycle!ByController, Lifecycle!Due
<1>6. CASE born'[n] = born[n] /\ Stage(t) = Stage(s) /\ t.type = s.type
  <2>1. UNCHANGED <<stage, born, kind, Owning, expired>>
    BY <1>1, <1>5, <1>6
  <2>2. CASE UNCHANGED w
    BY <2>1, <2>2 DEF Lifecycle!vars, stage, kind
  <2>3. CASE ~UNCHANGED w
    <3>1. Lifecycle!Work
      BY <2>1, <2>3 DEF Lifecycle!Work, Lifecycle!ByController, stage, kind
    <3>2. QED BY <3>1 DEF Lifecycle!Next
  <2>4. QED BY <2>2, <2>3
<1>7. CASE /\ born'[n] = born[n] /\ Stage(t) = Stage(s) /\ Stage(s) # "absent"
           /\ s.type = NoType /\ t.type \in Types /\ Own
  <2>1. Lifecycle!Decide(n)
    BY <1>1, <1>2, <1>5, <1>7 DEF Lifecycle!Decide, Lifecycle!ByController, Own, stage, kind
  <2>2. QED BY <2>1 DEF Lifecycle!Next
<1>8. CASE /\ born'[n] = born[n] /\ t.type = s.type
           /\ Stage(s) = "unprotected" /\ Stage(t) = "protected" /\ Own
  <2>1. Lifecycle!Protect(n)
    BY <1>1, <1>2, <1>5, <1>8 DEF Lifecycle!Protect, Lifecycle!ByController, Own, stage, kind
  <2>2. QED BY <2>1 DEF Lifecycle!Next
<1>9. CASE /\ born'[n] = born[n] /\ t.type = s.type
           /\ Stage(s) = "protected" /\ Stage(t) = "leaving" /\ (Own => DueFor(n))
  <2>1. Lifecycle!Ended(n)
    BY <1>9, <1>0
  <2>2. Lifecycle!Mark(n)
    BY <1>1, <1>2, <1>5, <1>9, <2>1 DEF Lifecycle!Mark, stage, kind
  <2>3. QED BY <2>2 DEF Lifecycle!Next
<1>10. CASE /\ born'[n] = born[n] /\ t.type = NoType /\ Stage(t) = "absent"
            /\ \/ Stage(s) = "unprotected" /\ (Own => DueFor(n))
               \/ Stage(s) = "leaving" /\ Own
  <2>1. \/ stage[n] = "unprotected" /\ Lifecycle!Ended(n)
        \/ stage[n] = "leaving" /\ Lifecycle!ByController
    BY <1>0, <1>2, <1>10 DEF Lifecycle!ByController, Own
  <2>2. Lifecycle!Go(n)
    BY <1>1, <1>2, <1>5, <1>10, <2>1 DEF Lifecycle!Go, stage, kind
  <2>3. QED BY <2>2 DEF Lifecycle!Next
<1>11. CASE /\ born'[n] = born[n] + 1 /\ t.type = s.type
            /\ Stage(s) = "absent" /\ Stage(t) = "unprotected" /\ ~Own
  <2>1. Lifecycle!Create(n)
    BY <1>1, <1>2, <1>4, <1>5, <1>11 DEF Lifecycle!Create, Lifecycle!ByOthers, Own, stage, kind
  <2>2. QED BY <2>1 DEF Lifecycle!Next
<1>12. QED BY <1>6, <1>7, <1>8, <1>9, <1>10, <1>11 DEF LifeStep, s, t

\* So is any change of the children of one incarnation that was created or has some.
LEMMA ChildrenLive ==
    ASSUME NEW n \in Names, NEW i \in Incarnations, UNCHANGED <<sandboxes, born, expired>>,
           \/ Own /\ i \in 1..born[n]
           \/ UNCHANGED w /\ <<n, i>> \in Owning,
           \A k \in Keys : k # <<n, i>> => workloads'[k] = workloads[k] /\ disks'[k] = disks[k]
    PROVE  [Lifecycle!Next]_Lifecycle!vars
<1> DEFINE key == <<n, i>>
<1>1. key \in Keys /\ Owning \subseteq Keys /\ Owning' \subseteq Keys
  BY DEF Keys, Owning
<1>2. \A k \in Keys : k # key => (k \in Owning' <=> k \in Owning)
  BY DEF Owning, Present
<1> HIDE DEF key
<1>3. Owning' \in {Owning, Owning \cup {key}, Owning \ {key}}
  BY <1>1, <1>2
<1>0. /\ Own => Lifecycle!ByController
      /\ Lifecycle!ByController \/ Lifecycle!ByOthers
  BY DEF Own, Lifecycle!ByController, Lifecycle!ByOthers
<1>4. CASE Owning' = Owning
  <2>1. CASE UNCHANGED w
    BY <1>4, <2>1 DEF Lifecycle!vars
  <2>2. CASE Own
    <3>1. Lifecycle!Work
      BY <1>0, <1>4, <2>2 DEF Lifecycle!Work
    <3>2. QED BY <3>1 DEF Lifecycle!Next
  <2>3. QED BY <2>1, <2>2 DEF Own
<1>5. CASE Owning' = Owning \ {key} /\ key \in Owning
  <2>1. Lifecycle!Bury(key)
    BY <1>0, <1>5 DEF Lifecycle!Bury
  <2>2. QED BY <1>5, <2>1 DEF Lifecycle!Next
<1>6. CASE Owning' = Owning \cup {key} /\ Own /\ i \in 1..born[n]
  <2>1. Lifecycle!Bear(n, i)
    BY <1>0, <1>6 DEF Lifecycle!Bear, key
  <2>2. QED BY <1>6, <2>1 DEF Lifecycle!Next
<1>7. key \notin Owning /\ Owning' = Owning \ {key} => Owning' = Owning
  OBVIOUS
<1>8. key \in Owning /\ Owning' = Owning \cup {key} => Owning' = Owning
  OBVIOUS
<1>9. QED BY <1>3, <1>4, <1>5, <1>6, <1>7, <1>8 DEF key

\* What the worker has in hand belongs to an incarnation that was created.
LEMMA KeyBorn ==
    ASSUME ProtectionInv, w.pc # "idle"
    PROVE  /\ w.name \in Names /\ w.old.uid \in Incarnations /\ w.old.uid \in 1..born[w.name]
           /\ Key = <<w.name, w.old.uid>>
<1>1. w.name \in Names /\ w.old.uid \in Incarnations
  BY KeyTyped DEF ProtectionInv
<1>2. w.old.uid <= born[w.name] /\ born[w.name] \in Nat
  BY <1>1, Typed DEF ProtectionInv, WorkerInv, CopyInv
<1>3. w.old.uid \in Nat /\ w.old.uid # 0
  BY <1>1 DEF Incarnations
<1>4. QED BY <1>1, <1>2, <1>3 DEF Key

\* No step on a child leaves the worker where it was.
LEMMA ChildStepsMove ==
    ASSUME TypeOK, CreateDisk \/ DeleteDisk \/ CreateWorkload \/ ReplaceWorkload \/ DeleteWorkload
    PROVE  Own
<1> DEFINE After == {"updateStatus", "updateMeta", "listClaims", "readWorkload", "listOwnedClaims",
                     "unprotect", "readStatus", "listOwned"}
<1>1. w \in Worker /\ w.pc \notin After
  BY BusyTyped DEF CreateDisk, DeleteDisk, CreateWorkload, ReplaceWorkload, DeleteWorkload
<1>2. \A x \in Worker : Updating(x).pc \in After
  BY DEF Updating, Worker
<1>3. \A x \in Worker : Failing(x).pc \in After
  <2>1. \A x \in Worker : [x EXCEPT !.err = TRUE] \in Worker
    BY DEF Worker
  <2>2. QED BY <1>2, <2>1 DEF Failing
<1>4. \A x \in Worker : CreateFailing(x).pc \in After
  <2>1. \A x \in Worker : [x EXCEPT !.new.cond = "CreateFailed"] \in Worker
    BY DEF Worker, Conditions
  <2>2. QED BY <1>3, <2>1 DEF CreateFailing
<1>5. \A x \in Worker : Unprotecting(x).pc \in After
  <2>1. \A x \in Worker : [x EXCEPT !.new.prot = FALSE] \in Worker
    BY DEF Worker
  <2>2. \A x \in Worker : Releasing(x).pc \in After
    BY <1>2, <2>1 DEF Releasing
  <2>3. QED BY <2>2 DEF Unprotecting, Worker
<1>6. \A x \in Worker : \A class : Making(x, class).pc \in After /\ Deleting(x, class).pc \in After
  BY <1>5 DEF Making, Deleting, Worker
<1>7. ASSUME NEW y, y.pc \in After, w' = y PROVE Own
  BY <1>1, <1>7 DEF Own
<1>8. CASE CreateWorkload \/ ReplaceWorkload \/ DeleteWorkload
  <2>1. \/ w' \in {CreateFailing(w), Failing(w)}
        \/ \E pc \in {"readStatus", "listOwned"} : w' = [w EXCEPT !.pc = pc]
    BY <1>8 DEF CreateWorkload, ReplaceWorkload, DeleteWorkload, DeletingWorkload, Applied, NotApplied
  <2>2. \A pc \in {"readStatus", "listOwned"} : [w EXCEPT !.pc = pc].pc \in After
    BY <1>1 DEF Worker
  <2> HIDE DEF After
  <2>3. QED BY <1>1, <1>3, <1>4, <1>7, <2>1, <2>2
<1>9. CASE CreateDisk \/ DeleteDisk
  <2> DEFINE left(d) == [w EXCEPT !.todo = @ \ {d}]
             empty == [w EXCEPT !.todo = {}]
  <2>1. empty \in Worker
    BY <1>1 DEF Worker
  <2>2. \A d \in w.todo : left(d) \in Worker /\ left(d) # w
    BY <1>1 DEF Worker
  <2>3. PICK d \in w.todo : w' \in {Making(left(d), d.class), Deleting(left(d), d.class), left(d),
                                    CreateFailing(empty), Failing(empty)}
    BY <1>9 DEF CreateDisk, DeleteDisk, Applied, NotApplied
  <2> HIDE DEF left, empty, After
  <2>4. QED BY <1>3, <1>4, <1>6, <1>7, <2>1, <2>2, <2>3 DEF Own
<1>10. QED BY <1>8, <1>9

\* The worker makes and deletes children of what it has read.
LEMMA ChildStepsLive ==
    ASSUME ProtectionInv, CreateDisk \/ DeleteDisk \/ CreateWorkload \/ ReplaceWorkload \/ DeleteWorkload
    PROVE  [Lifecycle!Next]_Lifecycle!vars
<1>1. w.pc # "idle"
  BY DEF CreateDisk, DeleteDisk, CreateWorkload, ReplaceWorkload, DeleteWorkload
<1>2. UNCHANGED <<sandboxes, born, expired>>
  BY DEF CreateDisk, DeleteDisk, CreateWorkload, ReplaceWorkload, DeleteWorkload,
     DeletingWorkload, UnchangedButErrors, UnchangedButEvents
<1>3. workloads \in [Keys -> [Types -> Workload]] /\ disks \in [Keys -> SUBSET Disks]
  BY DEF ProtectionInv, TypeOK, ApiTypeOK
<1>4. \/ UNCHANGED workloads /\ \E x : disks' = [disks EXCEPT ![Key] = x]
      \/ UNCHANGED disks /\ \E t, x : workloads' = [workloads EXCEPT ![Key][t] = x]
      \/ UNCHANGED <<workloads, disks>>
  BY DEF CreateDisk, DeleteDisk, CreateWorkload, ReplaceWorkload, DeleteWorkload,
     DeletingWorkload, WriteWorkload
<1>5. \A k \in Keys : k # Key => workloads'[k] = workloads[k] /\ disks'[k] = disks[k]
  BY <1>3, <1>4
<1>6. Own
  BY ChildStepsMove DEF ProtectionInv
<1>7. QED BY <1>1, <1>2, <1>5, <1>6, KeyBorn, ChildrenLive

\* So do the cluster's, to children that are there.
LEMMA ClusterLives ==
    ASSUME TypeOK, Cluster PROVE [Lifecycle!Next]_Lifecycle!vars
<1>1. workloads \in [Keys -> [Types -> Workload]] /\ disks \in [Keys -> SUBSET Disks]
  BY DEF TypeOK, ApiTypeOK
<1>2. ASSUME NEW k \in Keys, UNCHANGED <<sandboxes, born, expired, w>>, k \in Owning,
             \A j \in Keys : j # k => workloads'[j] = workloads[j] /\ disks'[j] = disks[j]
      PROVE  [Lifecycle!Next]_Lifecycle!vars
  <2>1. PICK n \in Names, i \in Incarnations : k = <<n, i>>
    BY DEF Keys
  <2>2. QED BY <1>2, <2>1, ChildrenLive
<1>3. ASSUME NEW k \in Keys, NEW t \in Types, NEW to, ChangeWorkload(k, t, to)
      PROVE  [Lifecycle!Next]_Lifecycle!vars
  <2>1. k \in Owning
    BY <1>3 DEF ChangeWorkload, Owning, Present
  <2>2. \A j \in Keys : j # k => workloads'[j] = workloads[j] /\ disks'[j] = disks[j]
    BY <1>1, <1>3 DEF ChangeWorkload, WriteWorkload
  <2>3. QED BY <1>2, <1>3, <2>1, <2>2 DEF ChangeWorkload, world
<1>4. ASSUME NEW k \in Keys, NEW t \in Types,
             WorkloadPhase(k, t) \/ EvictWorkload(k, t) \/ WorkloadGone(k, t)
      PROVE  [Lifecycle!Next]_Lifecycle!vars
  BY <1>3, <1>4 DEF WorkloadPhase, EvictWorkload, WorkloadGone
<1>5. ASSUME NEW k \in Keys, CollectOrphans(k) PROVE [Lifecycle!Next]_Lifecycle!vars
  <2>1. k \in Owning
    <3>1. CASE disks[k] # {}
      BY <3>1 DEF Owning
    <3>2. CASE disks[k] = {}
      <4>1. PICK t \in Types : [workloads[k][t] EXCEPT !.del = @ \/ workloads[k][t].phase # Absent]
                                # workloads[k][t]
        BY <1>1, <1>5, <3>2 DEF CollectOrphans
      <4>2. workloads[k][t] \in Workload
        BY <1>1
      <4>3. workloads[k][t].phase # Absent
        BY <4>1, <4>2 DEF Workload
      <4>4. QED BY <4>3 DEF Owning, Present
    <3>3. QED BY <3>1, <3>2
  <2>2. \A j \in Keys : j # k => workloads'[j] = workloads[j] /\ disks'[j] = disks[j]
    BY <1>1, <1>5 DEF CollectOrphans
  <2>3. QED BY <1>2, <1>5, <2>1, <2>2 DEF CollectOrphans, world
<1>6. ASSUME NEW n \in Names, RunOut(n) PROVE [Lifecycle!Next]_Lifecycle!vars
  <2>1. UNCHANGED <<sandboxes, born, workloads, disks, w>> /\ expired \subseteq expired'
    BY <1>6 DEF RunOut, api
  <2>2. Lifecycle!RunOut
    BY <2>1 DEF Lifecycle!RunOut, Owning, Present
  <2>3. QED BY <2>2 DEF Lifecycle!Next
<1>7. QED BY <1>4, <1>5, <1>6 DEF Cluster

\* The change of one sandbox is one that its life allows, and what has gone has no
\* kind.
Lives(n) ==
    /\ LifeStep(sandboxes[n], born[n], sandboxes'[n], born'[n], Own, DueFor(n))
    /\ UNCHANGED expired
    /\ sandboxes'[n].uid = 0 => sandboxes'[n].type = NoType
    /\ \A m \in Names : m # n => sandboxes'[m] = sandboxes[m] /\ born'[m] = born[m]

LEMMA CreationLives ==
    ASSUME LifecycleInv, NEW n \in Names, CreateSandbox(n) PROVE Lives(n)
<1>1. sandboxes \in [Names -> Sandbox] /\ born \in [Names -> 0..MaxIncarnations]
  BY DEF LifecycleInv, ProtectionInv, TypeOK, ApiTypeOK, WorldTypeOK
<1>2. sandboxes[n].uid = 0 /\ sandboxes[n].type = NoType
  BY DEF CreateSandbox, LifecycleInv, KindInv
<1>3. PICK x : /\ sandboxes' = [sandboxes EXCEPT ![n] = x]
               /\ x.uid = born[n] + 1 /\ ~x.prot /\ ~x.del /\ x.type = NoType
  <2>1. ASSUME NEW t
        PROVE  LET x == [NoSandbox EXCEPT !.uid = born[n] + 1, !.tmpl = t] IN
               x.uid = born[n] + 1 /\ ~x.prot /\ ~x.del /\ x.type = NoType
    BY DEF NoSandbox
  <2>2. ASSUME NEW spec
        PROVE  LET x == [NoSandbox EXCEPT !.uid = born[n] + 1, !.inline = spec] IN
               x.uid = born[n] + 1 /\ ~x.prot /\ ~x.del /\ x.type = NoType
    BY DEF NoSandbox
  <2>3. QED BY <2>1, <2>2, ZenonT(60) DEF CreateSandbox
<1>4. sandboxes'[n] = x /\ born'[n] = born[n] + 1 /\ x.uid # 0
  <2>1. born[n] + 1 # 0
    BY Typed DEF LifecycleInv, ProtectionInv
  <2>2. born' = [born EXCEPT ![n] = born[n] + 1]
    BY DEF CreateSandbox
  <2>3. sandboxes'[n] = x /\ born'[n] = born[n] + 1
    BY <1>1, <1>3, <2>2
  <2>4. QED BY <1>3, <2>1, <2>3
<1>5. \A m \in Names : m # n => sandboxes'[m] = sandboxes[m] /\ born'[m] = born[m]
  BY <1>1, <1>3 DEF CreateSandbox
<1>6. Stage(sandboxes[n]) = "absent" /\ Stage(x) = "unprotected"
  BY <1>2, <1>3, <1>4 DEF Stage
<1>7. ~Own /\ UNCHANGED expired
  BY DEF CreateSandbox, Own
<1>8. QED BY <1>2, <1>3, <1>4, <1>5, <1>6, <1>7 DEF Lives, LifeStep

\* A deletion marks what is protected and ends what is not.
LEMMA DeletionLives ==
    ASSUME LifecycleInv, NEW n \in Names, sandboxes[n].uid # 0, UNCHANGED <<born, expired>>,
           Own => DueFor(n),
           sandboxes' = [sandboxes EXCEPT ![n] = Deleted(sandboxes[n], NoSandbox)]
    PROVE  Lives(n)
<1> DEFINE s == sandboxes[n]
<1>1. sandboxes \in [Names -> Sandbox]
  BY DEF LifecycleInv, ProtectionInv, TypeOK, ApiTypeOK
<1>2. s \in Sandbox /\ s.uid # 0 /\ (s.del => s.prot)
  BY <1>1 DEF LifecycleInv, ProtectionInv, NamesInv, ServerInv
<1>3. sandboxes'[n] = Deleted(s, NoSandbox) /\ \A m \in Names : m # n => sandboxes'[m] = sandboxes[m]
  BY <1>1
<1> HIDE DEF s
<1>4. CASE s.prot
  <2>1. Deleted(s, NoSandbox) = [s EXCEPT !.del = TRUE]
    BY <1>4 DEF Deleted
  <2>2. /\ Deleted(s, NoSandbox).uid = s.uid /\ Deleted(s, NoSandbox).type = s.type
        /\ Deleted(s, NoSandbox).del
    BY <1>2, <2>1 DEF Sandbox
  <2>3. Stage(Deleted(s, NoSandbox)) = "leaving" /\ Stage(s) \in {"protected", "leaving"}
    BY <1>2, <1>4, <2>2 DEF Stage
  <2>4. QED BY <1>2, <1>3, <2>2, <2>3 DEF Lives, LifeStep, s
<1>5. CASE ~s.prot
  <2>1. Deleted(s, NoSandbox) = NoSandbox
    BY <1>5 DEF Deleted
  <2>2. Stage(s) = "unprotected" /\ Stage(NoSandbox) = "absent" /\ NoSandbox.type = NoType
    BY <1>2, <1>5 DEF Stage, NoSandbox
  <2>3. QED BY <1>3, <2>1, <2>2 DEF Lives, LifeStep, s
<1>6. QED BY <1>4, <1>5

\* The status write comes from the version it replaces, so it can only decide a kind.
LEMMA StatusLives ==
    ASSUME LifecycleInv, UpdateStatus, sandboxes' # sandboxes PROVE Lives(w.name)
<1> DEFINE n == w.name
           s == sandboxes[n]
<1>1. sandboxes \in [Names -> Sandbox]
  BY DEF LifecycleInv, ProtectionInv, TypeOK, ApiTypeOK
<1>2. w.pc # "idle" /\ w \in Worker /\ n \in Names /\ w.old.uid # 0
  BY BusyTyped, KeyTyped DEF UpdateStatus, LifecycleInv, ProtectionInv, Incarnations
<1>0. Own
  BY <1>2, IdleTyped DEF UpdateStatus, Return, Worker, Own
<1>3. s = w.old /\ UNCHANGED <<born, expired>>
      /\ sandboxes' = [sandboxes EXCEPT ![n].type = w.new.type, ![n].cond = w.new.cond]
  BY DEF UpdateStatus, StatusConflict
<1>4. /\ sandboxes'[n].uid = s.uid /\ sandboxes'[n].prot = s.prot /\ sandboxes'[n].del = s.del
      /\ sandboxes'[n].type = w.new.type
      /\ \A m \in Names : m # n => sandboxes'[m] = sandboxes[m]
  BY <1>1, <1>2, <1>3 DEF Sandbox
<1>5. Stage(sandboxes'[n]) = Stage(s) /\ Stage(s) # "absent"
  BY <1>2, <1>3, <1>4 DEF Stage
<1>6. w.new.type \in Types \cup {NoType} /\ (s.type # NoType => w.new.type = s.type)
  BY <1>2, <1>3 DEF Worker, LifecycleInv, KindInv
<1>7. LifeStep(s, born[n], sandboxes'[n], born'[n], Own, DueFor(n))
  BY <1>0, <1>3, <1>4, <1>5, <1>6 DEF LifeStep
<1>8. QED BY <1>2, <1>3, <1>4, <1>7 DEF Lives

\* The patch of the finalizers protects what is unprotected or releases what leaves.
LEMMA PatchLives ==
    ASSUME LifecycleInv, UpdateMeta, sandboxes' # sandboxes PROVE Lives(w.name)
<1> DEFINE n == w.name
           s == sandboxes[n]
<1>1. sandboxes \in [Names -> Sandbox]
  BY DEF LifecycleInv, ProtectionInv, TypeOK, ApiTypeOK
<1>2. /\ n \in Names /\ s.uid # 0
      /\ \/ /\ ~s.prot /\ ~s.del
            /\ sandboxes' = [sandboxes EXCEPT ![n] = [s EXCEPT !.prot = TRUE]]
         \/ /\ s.prot /\ s.del
            /\ sandboxes' = [sandboxes EXCEPT ![n] = NoSandbox]
  BY MetaPatch DEF LifecycleInv
<1>0. Own
  BY IdleTyped DEF UpdateMeta, Return, Own
<1>3. UNCHANGED <<born, expired>>
  BY DEF UpdateMeta
<1>4. \A m \in Names : m # n => sandboxes'[m] = sandboxes[m]
  BY <1>1, <1>2
<1>5. CASE ~s.prot /\ ~s.del /\ sandboxes' = [sandboxes EXCEPT ![n] = [s EXCEPT !.prot = TRUE]]
  <2>1. /\ sandboxes'[n].uid = s.uid /\ sandboxes'[n].prot /\ sandboxes'[n].del = s.del
        /\ sandboxes'[n].type = s.type
    BY <1>1, <1>2, <1>5 DEF Sandbox
  <2>2. Stage(s) = "unprotected" /\ Stage(sandboxes'[n]) = "protected"
    BY <1>2, <1>5, <2>1 DEF Stage
  <2>3. QED BY <1>0, <1>2, <1>3, <1>4, <2>1, <2>2 DEF Lives, LifeStep
<1>6. CASE s.prot /\ s.del /\ sandboxes' = [sandboxes EXCEPT ![n] = NoSandbox]
  <2>1. sandboxes'[n] = NoSandbox
    BY <1>1, <1>2, <1>6
  <2>2. Stage(s) = "leaving" /\ Stage(NoSandbox) = "absent" /\ NoSandbox.type = NoType
    BY <1>2, <1>6, SMTT(30) DEF Stage, NoSandbox
  <2>3. QED BY <1>0, <1>3, <1>4, <2>1, <2>2 DEF Lives, LifeStep
<1>7. QED BY <1>2, <1>5, <1>6

\* A step changes the sandbox of one name as its life allows, or no sandbox at all.
LEMMA StepLives ==
    ASSUME LifecycleInv, Next
    PROVE  \/ UNCHANGED <<sandboxes, born>>
           \/ UNCHANGED <<workloads, disks>> /\ \E n \in Names : Lives(n)
<1>1. ASSUME NEW n \in Names, CreateSandbox(n) PROVE UNCHANGED <<workloads, disks>> /\ Lives(n)
  BY <1>1, CreationLives DEF CreateSandbox
<1>2. ASSUME NEW n \in Names, DeleteSandbox(n) PROVE UNCHANGED <<workloads, disks>> /\ Lives(n)
  BY <1>2, DeletionLives DEF DeleteSandbox, world, Own
<1>3. CASE Expire
  <2>1. w.name \in Names
    BY <1>3, KeyTyped DEF Expire, LifecycleInv, ProtectionInv
  <2>2. UNCHANGED <<born, expired>> /\ UNCHANGED <<workloads, disks>>
        /\ \/ UNCHANGED sandboxes
           \/ /\ sandboxes[w.name].uid # 0
              /\ sandboxes' = [sandboxes EXCEPT ![w.name] = Deleted(sandboxes[w.name], NoSandbox)]
    BY <1>3 DEF Expire, UnchangedButErrors
  <2>3. DueFor(w.name)
    BY <1>3, KeyBorn DEF Expire, LifecycleInv, ExpiryInv, DueFor
  <2>4. QED BY <2>1, <2>2, <2>3, DeletionLives
<1>4. CASE UpdateStatus \/ UpdateMeta
  <2>1. UNCHANGED <<workloads, disks, born>>
    BY <1>4 DEF UpdateStatus, UpdateMeta
  <2>2. w.name \in Names
    BY <1>4, KeyTyped DEF UpdateStatus, UpdateMeta, LifecycleInv, ProtectionInv
  <2>3. QED BY <1>4, <2>1, <2>2, StatusLives, PatchLives
<1>5. QED
  BY <1>1, <1>2, <1>3, <1>4, ZenonT(60)
  DEF Next, User, Cluster, Informers, Controller, WorkerStep, CreateTemplate, DeleteTemplate,
      WorkloadPhase, EvictWorkload, WorkloadGone, ChangeWorkload, CollectOrphans, RunOut,
      SyncSandbox, SyncTemplate, SyncWorkload, SyncDisks, FireTimer, Restart,
      Begin, BeginGone, BeginTerminating, BeginExpired, BeginWaiting, BeginManaging, Take,
      ProtectTemplate, ListDisks, CreateDisk, ReadWorkload, CreateWorkload, ReplaceWorkload,
      ReadStatus, FindWorkload, DeleteWorkload, ListOwned, DeleteDisk, UnprotectTemplate,
      DeletingWorkload, UnchangedButErrors, UnchangedButEvents, api, world

-----------------------------------------------------------------------------
(* The theorems *)

\* A worker turns to the end of a TTL only with a copy whose TTL has run out.
LEMMA ExpiryInvariant == Spec => []ExpiryInv
<1>1. Init => ExpiryInv
  BY IdleTyped DEF Init, ExpiryInv
<1>2. ASSUME ProtectionInv, ExpiryInv, Next PROVE ExpiryInv'
  <2>1. expired \subseteq expired'
    BY <1>2, ZenonT(60)
    DEF Next, User, Cluster, Informers, Controller, WorkerStep, CreateSandbox, DeleteSandbox,
        CreateTemplate, DeleteTemplate, WorkloadPhase, EvictWorkload, WorkloadGone,
        ChangeWorkload, CollectOrphans, RunOut, SyncSandbox, SyncTemplate, SyncWorkload,
        SyncDisks, FireTimer, Restart, Begin, BeginGone, BeginTerminating, BeginExpired,
        BeginWaiting, BeginManaging, Take, Expire, ProtectTemplate, ListDisks, CreateDisk,
        ReadWorkload, CreateWorkload, ReplaceWorkload, ReadStatus, FindWorkload, DeleteWorkload,
        ListOwned, DeleteDisk, UnprotectTemplate, DeletingWorkload, UpdateStatus, UpdateMeta,
        UnchangedButErrors, UnchangedButEvents, world
  <2>2. CASE UNCHANGED w
    BY <1>2, <2>1, <2>2 DEF ExpiryInv
  <2>3. ASSUME NEW n \in Names, Begin(n) PROVE ExpiryInv'
    <3>1. CASE BeginExpired(n)
      <4>1. Reading(n) \in Worker /\ Reading(n).old = cSandboxes[n] /\ Reading(n).name = n
        BY <1>2, <3>1, ReadingTyped DEF BeginExpired, Live, ProtectionInv, TypeOK
      <4>2. w'.old = cSandboxes[n] /\ w'.name = n
        BY <3>1, <4>1 DEF BeginExpired, Worker
      <4>3. QED BY <2>1, <3>1, <4>2 DEF BeginExpired, Live, TTLExpired, ExpiryInv
    <3>2. CASE ~BeginExpired(n)
      BY <1>2, <2>2, <2>3, <3>2, BeginsElsewhere DEF ProtectionInv, ExpiryInv
    <3>3. QED BY <3>1, <3>2
  <2>4. CASE WorkerStep /\ ~UpdateStatus /\ ~UpdateMeta
    BY <1>2, <2>4, WorkerKeepsKind DEF ProtectionInv, ExpiryInv
  <2>5. CASE UpdateStatus
    <3>1. w \in Worker
      BY <1>2 DEF ProtectionInv, TypeOK, WorkerTypeOK
    <3>2. w'.pc \in {"idle", "updateMeta"}
      BY <2>5, <3>1, IdleTyped DEF UpdateStatus, Return, Worker
    <3>3. QED BY <3>2 DEF ExpiryInv
  <2>6. CASE UpdateMeta \/ Restart
    BY <2>6, IdleTyped DEF UpdateMeta, Restart, Return, ExpiryInv
  <2>7. CASE User \/ Cluster \/ Informers \/ \E n \in Names : FireTimer(n)
    <3>1. UNCHANGED w
      BY <2>7 DEF User, Cluster, Informers, CreateSandbox, DeleteSandbox, CreateTemplate,
         DeleteTemplate, WorkloadPhase, EvictWorkload, WorkloadGone, ChangeWorkload,
         CollectOrphans, RunOut, SyncSandbox, SyncTemplate, SyncWorkload, SyncDisks, FireTimer
    <3>2. QED BY <2>2, <3>1
  <2>8. QED BY <1>2, <2>3, <2>4, <2>5, <2>6, <2>7 DEF Next, Controller, WorkerStep
<1>3. ASSUME UNCHANGED vars, ExpiryInv PROVE ExpiryInv'
  BY <1>3 DEF vars, world, ExpiryInv
<1>4. ProtectionInv /\ ExpiryInv /\ [Next]_vars => ExpiryInv'
  BY <1>2, <1>3
<1>5. QED BY <1>1, <1>4, Protection, PTL DEF Spec

\* The invariant holds in every reachable state.
LEMMA LifecycleInvariant == Spec => []LifecycleInv
<1>1. Init => KindInv
  <2>1. ASSUME Init PROVE w.pc = "idle" /\ \A n \in Names : sandboxes[n] = NoSandbox
    BY <2>1, IdleTyped DEF Init
  <2>2. QED BY <2>1 DEF KindInv, NoSandbox
<1>2. ASSUME LifecycleInv, Next PROVE KindInv'
  <2>1. \A n \in Names : sandboxes'[n].uid = 0 => sandboxes'[n].type = NoType
    BY <1>2, StepLives DEF LifecycleInv, KindInv, Lives
  <2>2. ASSUME w'.pc # "idle" PROVE w'.old.type # NoType => w'.new.type = w'.old.type
    <3>1. CASE UNCHANGED w
      BY <1>2, <2>2, <3>1 DEF LifecycleInv, KindInv
    <3>2. ASSUME NEW n \in Names, Begin(n) PROVE w'.old.type # NoType => w'.new.type = w'.old.type
      BY <1>2, <2>2, <3>2, BeginKeepsKind DEF LifecycleInv, ProtectionInv
    <3>3. CASE WorkerStep /\ ~UpdateStatus /\ ~UpdateMeta
      <4>1. w.pc # "idle" /\ w'.old = w.old /\ w'.new.type = w.new.type
        BY <1>2, <3>3, WorkerCarries, WorkerKeepsKind DEF LifecycleInv, ProtectionInv, Carries
      <4>2. QED BY <1>2, <4>1 DEF LifecycleInv, KindInv
    <3>4. CASE UpdateStatus
      <4>1. w.pc # "idle" /\ w \in Worker
        BY <1>2, <3>4, BusyTyped DEF UpdateStatus, LifecycleInv, ProtectionInv
      <4>2. w' = [w EXCEPT !.pc = "updateMeta", !.new.prot = @ \/ sandboxes[w.name].prot]
        BY <2>2, <3>4, IdleTyped DEF UpdateStatus, Return
      <4>3. w'.old = w.old /\ w'.new.type = w.new.type
        BY <4>1, <4>2 DEF Worker
      <4>4. QED BY <1>2, <4>1, <4>3 DEF LifecycleInv, KindInv
    <3>5. CASE UpdateMeta \/ Restart
      BY <2>2, <3>5, IdleTyped DEF UpdateMeta, Restart, Return
    <3>6. CASE User \/ Cluster \/ Informers \/ \E n \in Names : FireTimer(n)
      <4>1. UNCHANGED w
        BY <3>6 DEF User, Cluster, Informers, CreateSandbox, DeleteSandbox, CreateTemplate,
           DeleteTemplate, WorkloadPhase, EvictWorkload, WorkloadGone, ChangeWorkload,
           CollectOrphans, RunOut, SyncSandbox, SyncTemplate, SyncWorkload, SyncDisks, FireTimer
      <4>2. QED BY <3>1, <4>1
    <3>7. QED BY <1>2, <3>2, <3>3, <3>4, <3>5, <3>6 DEF Next, Controller, WorkerStep
  <2>3. QED BY <2>1, <2>2 DEF KindInv
<1>3. ASSUME LifecycleInv, UNCHANGED vars PROVE KindInv'
  BY <1>3 DEF vars, api, LifecycleInv, KindInv
<1>4. LifecycleInv /\ [Next]_vars => KindInv'
  BY <1>2, <1>3
<1>5. QED BY <1>1, <1>4, Protection, ExpiryInvariant, PTL DEF Spec, LifecycleInv

\* With stale caches, writes by name, two-part updates, lost answers and restarts,
\* every behaviour of the sandbox controller is a behaviour of the abstract life.
THEOREM Refinement == Spec => ImplementsLifecycle
<1>1. Init => Lifecycle!Init
  <2> SUFFICES ASSUME Init PROVE Lifecycle!Init
    OBVIOUS
  <2>1. \A n \in Names : sandboxes[n].uid = 0 /\ sandboxes[n].type = NoType
    BY DEF Init, NoSandbox
  <2>2. \A n \in Names : Stage(sandboxes[n]) = "absent"
    BY <2>1 DEF Stage
  <2>3. Owning = {}
    BY DEF Init, Owning, Present, NoWorkload
  <2>4. born = [n \in Names |-> 0] /\ expired = {}
    BY DEF Init
  <2>5. QED BY <2>1, <2>2, <2>3, <2>4 DEF Lifecycle!Init
<1>2. ASSUME LifecycleInv, LifecycleInv', Next PROVE [Lifecycle!Next]_Lifecycle!vars
  <2>1. TypeOK /\ TypeOK'
    BY <1>2 DEF LifecycleInv, ProtectionInv
  <2>2. ASSUME UNCHANGED <<workloads, disks>>, NEW n \in Names, Lives(n)
        PROVE  [Lifecycle!Next]_Lifecycle!vars
    BY <2>1, <2>2, SandboxLives DEF Lives
  <2>3. CASE UNCHANGED <<sandboxes, born, workloads, disks, expired>>
    <3>1. UNCHANGED <<[n \in Names |-> Stage(sandboxes[n])], born,
                      [n \in Names |-> sandboxes[n].type], Owning, expired>>
      BY <2>3 DEF Owning, Present
    <3>2. CASE UNCHANGED w
      BY <3>1, <3>2 DEF Lifecycle!vars
    <3>3. CASE w' # w
      <4>1. Lifecycle!Work
        BY <3>1, <3>3 DEF Lifecycle!Work, Lifecycle!ByController
      <4>2. QED BY <4>1 DEF Lifecycle!Next
    <3>4. QED BY <3>2, <3>3
  <2>4. CASE Cluster
    BY <2>1, <2>4, ClusterLives
  <2>5. CASE CreateDisk \/ DeleteDisk \/ CreateWorkload \/ ReplaceWorkload \/ DeleteWorkload
    BY <1>2, <2>5, ChildStepsLive DEF LifecycleInv
  <2>6. CASE UNCHANGED <<sandboxes, born>> /\ ~Cluster
             /\ ~(CreateDisk \/ DeleteDisk \/ CreateWorkload \/ ReplaceWorkload \/ DeleteWorkload)
    <3>1. UNCHANGED <<workloads, disks, expired>>
      BY <1>2, <2>6
      DEF Next, User, Informers, Controller, WorkerStep, CreateSandbox, DeleteSandbox,
          CreateTemplate, DeleteTemplate, SyncSandbox, SyncTemplate, SyncWorkload, SyncDisks,
          FireTimer, Restart, Begin, BeginGone, BeginTerminating, BeginExpired, BeginWaiting,
          BeginManaging, Take, Expire, ProtectTemplate, ListDisks, ReadWorkload, ReadStatus,
          FindWorkload, ListOwned, UnprotectTemplate, UpdateStatus, UpdateMeta, UnchangedButErrors,
          UnchangedButEvents, api, world
    <3>2. QED BY <2>3, <2>6, <3>1, SMTT(30)
  <2>7. QED BY <1>2, <2>2, <2>4, <2>5, <2>6, StepLives
<1>3. ASSUME UNCHANGED vars PROVE UNCHANGED Lifecycle!vars
  BY <1>3 DEF vars, api, world, Lifecycle!vars, Owning, Present
<1>4. LifecycleInv /\ LifecycleInv' /\ [Next]_vars => [Lifecycle!Next]_Lifecycle!vars
  BY <1>2, <1>3
<1>5. QED BY <1>1, <1>4, LifecycleInvariant, PTL DEF Spec, ImplementsLifecycle, Lifecycle!Spec

\* The kind of a sandbox is decided once, whatever becomes of its template and however
\* stale a later pass is (Reconcile, statusUpdater.Update).
THEOREM TypeDecidedOnce == Spec => TypeNeverChanges
<1> DEFINE Kept(n) ==
      sandboxes[n].type # NoType /\ sandboxes'[n].uid = sandboxes[n].uid
      => sandboxes'[n].type = sandboxes[n].type
<1>1. ASSUME LifecycleInv, Next, NEW n \in Names PROVE Kept(n)
  <2>1. CASE UNCHANGED sandboxes
    BY <2>1
  <2>2. ASSUME NEW m \in Names, Lives(m) PROVE Kept(n)
    <3>1. CASE n # m
      BY <2>2, <3>1 DEF Lives
    <3>2. CASE n = m
      <4>1. /\ sandboxes[n].uid = 0 => sandboxes[n].type = NoType
            /\ sandboxes[n].uid # 0 => Stage(sandboxes[n]) # "absent"
            /\ sandboxes'[n].uid # 0 => Stage(sandboxes'[n]) # "absent"
        BY <1>1 DEF LifecycleInv, KindInv, Stage
      <4>2. QED BY <2>2, <3>2, <4>1 DEF Lives, LifeStep
    <3>3. QED BY <3>1, <3>2
  <2>3. QED BY <1>1, <2>1, <2>2, StepLives
<1>2. LifecycleInv /\ [Next]_vars => [\A n \in Names : Kept(n)]_vars
  BY <1>1
<1>3. QED BY <1>2, LifecycleInvariant, PTL DEF Spec, TypeNeverChanges

\* A delete by name at the end of a TTL, from a copy that carries the finalizer, marks
\* the incarnation that was read and whose TTL has run out (deleteSandbox).
THEOREM ExpiryMarks == Spec => ExpiryMarksWhatItRead
<1> DEFINE Marks(n) ==
      w.pc = "expire" /\ w.old.prot /\ sandboxes'[n] # sandboxes[n] /\ w' # w
      => /\ w.name = n /\ sandboxes'[n] = [sandboxes[n] EXCEPT !.del = TRUE]
         /\ <<n, sandboxes'[n].uid>> \in expired
<1>1. ASSUME LifecycleInv, Next, NEW n \in Names PROVE Marks(n)
  <2> SUFFICES ASSUME w.pc = "expire", w.old.prot, sandboxes'[n] # sandboxes[n], w' # w
               PROVE  /\ w.name = n /\ sandboxes'[n] = [sandboxes[n] EXCEPT !.del = TRUE]
                      /\ <<n, sandboxes'[n].uid>> \in expired
    BY SMTT(30)
  <2>1. Expire
    BY <1>1, ZenonT(60)
    DEF Next, User, Cluster, Informers, Controller, WorkerStep, CreateSandbox, DeleteSandbox,
        CreateTemplate, DeleteTemplate, WorkloadPhase, EvictWorkload, WorkloadGone,
        ChangeWorkload, CollectOrphans, RunOut, SyncSandbox, SyncTemplate, SyncWorkload,
        SyncDisks, FireTimer, Restart, Begin, BeginGone, BeginTerminating, BeginExpired,
        BeginWaiting, BeginManaging, Take, ProtectTemplate, ListDisks, CreateDisk,
        ReadWorkload, CreateWorkload, ReplaceWorkload, ReadStatus, FindWorkload, DeleteWorkload,
        ListOwned, DeleteDisk, UnprotectTemplate, UpdateStatus, UpdateMeta, api
  <2>2. sandboxes \in [Names -> Sandbox] /\ w.name \in Names
    BY <1>1, KeyTyped DEF LifecycleInv, ProtectionInv, TypeOK, ApiTypeOK
  <2>3. /\ w.name = n
        /\ sandboxes'[n] = Deleted(sandboxes[n], NoSandbox)
    BY <2>1, <2>2 DEF Expire
  <2>4. sandboxes[n].uid = w.old.uid /\ sandboxes[n].prot
    BY <1>1, <2>3 DEF LifecycleInv, ProtectionInv, WorkerInv, CopyInv, ExpiryInv
  <2>5. sandboxes'[n] = [sandboxes[n] EXCEPT !.del = TRUE] /\ sandboxes'[n].uid = w.old.uid
    BY <2>2, <2>3, <2>4 DEF Deleted, Sandbox
  <2>6. QED BY <1>1, <2>3, <2>5 DEF LifecycleInv, ExpiryInv
<1>2. LifecycleInv /\ [Next]_vars => [\A n \in Names : Marks(n)]_vars
  BY <1>1
<1>3. QED BY <1>2, LifecycleInvariant, PTL DEF Spec, ExpiryMarksWhatItRead
=============================================================================
