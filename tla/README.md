# Verification of sandbox-mommy

TLA+ models of sandbox-mommy, a Kubernetes controller and API server that
create short-lived sandboxes (a pod, a KubeVirt VMI or a DVP virtual machine,
with disks), delete them when their TTL is over and let their users attach a
terminal to them. TLC checks small instances; TLAPS proves the safety
properties for all values of the constants. Paths below are relative to `src/`.

## 1. The system

| Part | Where | State it keeps | Operations | Modelled |
|---|---|---|---|---|
| Sandbox reconciler | `internal/controller/sandbox/sandbox_reconciler.go` | none of its own; `Status.Type`, the Ready condition, finalizers | `Reconcile`, `handleTemplateSpec`, `handleTerminating`, `Setup`, `nextSync` | yes |
| Base reconciler, updaters | `pkg/controller/reconciler`, `pkg/patch` | the copy read and the copy changed | `Reconcile`, `update` (status, then metadata) | yes |
| Sandboxers | `internal/controller/sandbox/{pod,kubevirt,dvp,pvc}.go` | children of a sandbox, named by its UID | `Create`, `Delete`, `Status`, `mutate*` | yes |
| Template protection | `pkg/controller/util/protect.go` | one finalizer on a template, shared by its users | `ProtectObjects`, `UnprotectObject` | yes, without others' finalizers |
| Feature gates | `internal/featuregate` | a set fixed at start-up | `Enabled` | yes |
| SandboxTemplate reconciler | `internal/controller/sandboxtemplate` | a template's type and condition | `Reconcile` | yes |
| Admission | `*_webhook.go`, `*_validator.go`, `internal/controller/service`, `pkg/controller/validator`, CEL rules | none | validators, defaulter | yes |
| Attach subresource | `internal/apiserver/registry/sandbox`, `internal/apiserver/server` | informer and lister, shared token and CA | `Get`, `Connect`, `load`, start-up | yes, output left out |
| Attach client | `api/client/kubeclient` | round tripper, `Done`/`Connection` channels, ticker | `Attach`, `Stream` | yes, output left out |
| `attach` command | `internal/sandbox/cmds/attach` | pipes, terminal mode, channels | `Run`, `connect`, `attachTerm` | yes, output left out |
| `create`, `delete` | `internal/sandbox/cmds` | none | one call each | yes |
| Start-up, generated code, configuration | `cmd`, `api/client/generated` | factory, lister | wiring | in part |
| REST plumbing, CRDs | `api/client/kubeclient/{client,config,request}.go` | | | no |

**How the parts interact.** The two controllers never call each other. All
they share is the API server: the sandbox controller reads sandboxes,
templates, workloads and disks from informer caches of its own process and
writes through separate calls. What a call changes comes back later as watch
events; an event of a sandbox, or the appearance, phase change or disappearance
of an owned workload, puts the sandbox's name in the work queue. Templates and
disks are not watched by it; the template controller watches templates. The API
server's attach subresource reads sandboxes from its own informer, looks the
workload up by the name the controller gave it and streams to it; the command
line reconnects through it.

**What is hard in it.**

* The worker acts on copies that may be arbitrarily old, and three of its
  writes go by name with no UID or resource version: the TTL delete, the
  finalizer patch of the sandbox and the patch of the template. A name may be
  deleted and created anew meanwhile.
* One reconcile is a sequence of up to a dozen calls; each may fail, or succeed
  and lose its answer, and the process may stop between any two.
* `BaseReconciler.update` is two writes. The answer of the first overwrites the
  worker's copy, finalizers included.
* Progress hangs on events and on one timer; a lost wake-up is a sandbox that
  stays as it is.
* One finalizer on a template stands for any number of users.
* What a cache hands out is changed in place: disks are renamed inside bodies
  that all sandboxes of a template share but for a deep copy.
* The API server serves concurrent requests that load their secrets without a
  lock, and decides on a cached sandbox what it then does to a fresh workload.
* The attach command is eight goroutines per session besides its own; they end,
  or do not, at different times, and the next session begins while those of the
  last are there.

**What makes it correct.** The finalizer patch by name releases only what was read.
The TTL delete by name marks only what was read, if the copy it was made from carries
the finalizer; from an unprotected copy it may hit a later sandbox of that name
(section 6). The type of a sandbox is decided once; a workload never runs without its
disks, nor that of a template's only user while the template is unprotected; deletion,
expiry and the collection of children complete; the controller never comes to rest
with work left, and the condition it leaves tells the truth. What admission lets
through can be made, and a sandboxer gives a workload no disks of another sandbox. An
attach reaches the workload of the sandbox that was asked for, with whole secrets; what
is typed last arrives, the escape ends the first session, no connection is left behind,
and refused attempts come to an end. The full list of hazards, each with its line and
the properties that cover it or the reason why none does, is in `PROJECT.json`.

## 2. The modules

| Module | What it is |
|---|---|
| `Sandboxer` | Pure operators common to the three sandboxers: type detection, owned classes of disks, gates, phase maps |
| `SandboxController` | The state machine: API server, caches, queue, timers, worker, surroundings |
| `SandboxProperties` | Its invariants, action and liveness properties, and the refinement mapping |
| `SandboxLifecycle` | The abstract specification: the life of a sandbox with neither caches nor worker |
| `Admission` | CEL rules, defaulter, validators, the request of the create command, as operators on specs |
| `Rendering` | What a sandboxer makes of the body of a template: names of disks, renaming |
| `TemplateLifecycle` | Admission, the template controller and the rendering of workloads, composed |
| `ApiServer` | Start-up of the extension API server, its informer, requests for sandboxes and attach |
| `AttachSession` | The abstract specification: an attach that is decided in one step |
| `AttachClient` | The attach command and the client library under it, goroutine by goroutine |
| `MCSandboxController`, `MCTemplateLifecycle`, `MCApiServer` | Specs, gate sets and phases for TLC; one `.cfg` per run. `AttachClient` needs only numbers |
| `SandboxController_proofs` | Type correctness of the controller |
| `SandboxProtection_proofs` | Protection: what a stale copy may be relied on for |
| `SandboxLifecycle_proofs` | The controller implements `SandboxLifecycle`; type and expiry |
| `SandboxDisks_proofs` | What a workload rests on: its disks, and the finalizer on its template |
| `SandboxRest_proofs` | The controller does not rest too early: `NoStuck`, `Settles` |
| `TemplateLifecycle_proofs`, `ApiServer_proofs`, `AttachClient_proofs` | The other components |

### State of `SandboxController`

| Variables | Stand for |
|---|---|
| `sandboxes`, `templates`, `workloads`, `disks` | what the API server holds. A key `<<n, i>>` is incarnation `i` of name `n`: the UID from which children take their names. A namespaced name is one name |
| `cSandboxes`, `cTemplates`, `cWorkloads`, `cDisks` | the informer caches, each an earlier state of the above |
| `queue`, `timers`, `events` | work queue, delayed queue, owned-workload events not delivered yet |
| `w` | the worker: step, name, the copy read (`old`), the template read, what it will write (`new`), disks to do, error, whether `nextSync` asked for a timer |
| `gates`, `born`, `expired`, `errors`, `restarts` | gates of the running process, incarnations so far, TTLs run out, budget of faults used |

### Actions and code

| Action | Code |
|---|---|
| `BeginGone` … `BeginManaging` | `BaseReconciler.Reconcile` up to the first call: read, `handleTemplateSpec`, type, and the early returns in their order |
| `Expire` | `r.client.Delete` of an expired sandbox (`sandbox_reconciler.go:86`) |
| `ProtectTemplate`, `UnprotectTemplate` | `protect.go`: patch by name that tests the finalizers read |
| `ListDisks`, `CreateDisk` | listing and making the missing disks. The KubeVirt sandboxer finishes its DataVolumes and then lists its claims afresh; pods have claims only, DVP machines virtual disks only |
| `ReadWorkload`, `CreateWorkload`, `ReplaceWorkload` | the rest of `Create` |
| `ReadStatus` | `Status`, `nextSync` |
| `FindWorkload`, `DeleteWorkload`, `ListOwned`, `DeleteDisk` | `Delete` |
| `UpdateStatus`, `UpdateMeta` | `statusUpdater.Update`, `metaUpdater.Update` and the return of the reconcile |
| `SyncSandbox`, `SyncTemplate`, `SyncWorkload`, `SyncDisks`, `FireTimer`, `Restart` | informers with the predicates of `Setup`, the delayed queue, the process |
| `CreateSandbox`, `DeleteSandbox`, `CreateTemplate`, `DeleteTemplate` | users |
| `WorkloadPhase`, `EvictWorkload`, `WorkloadGone`, `CollectOrphans`, `RunOut` | kubelet and virt operators, garbage collector, clock (external) |

Every call of the worker is a step of its own, so that any other action may
come between two calls. A call has up to four outcomes: refused by the server,
failed before it got there, done, done with the answer lost. The second and the
last use up `MaxErrors`.

### Abstractions of `SandboxController`

* A spec keeps which kinds of workload it sets and which volumes it lists. All
  specs are immutable, by the CEL rules of the API types.
* `prot` and `del` stand for the controller's finalizer and the deletion
  timestamp. Finalizers of others are left out; with them,
  `UnprotectObject` sends one more patch that changes nothing
  (`protect.go:68` sets `containsFinalizer` for any finalizer).
* Contents of a sandbox stand for its resource version. This is sound because
  no contents come back: the finalizer and the deletion mark are each set once,
  and a status write is made from the version that it replaces.
* The answer of a status write brings back a finalizer that the server holds
  and leaves one alone that it does not hold yet, as decoding into an existing
  object does.
* A `Sync` brings one entry of one cache to the present. Intermediate versions
  add nothing but earlier wake-ups, except for workloads, whose phase may change
  and change back: a change that must wake the owner is kept in `events`.
* Disks vanish when deleted; users do not delete disks or workloads of a live
  sandbox apart from eviction. Nothing watches disks.
* The periodic resync of informers (ten hours by default) and back-off delays
  are left out: an error puts the name back at once, and a resync would only
  hide a lost wake-up for hours.
* Every sandbox has a TTL: the defaulter sets one hour where there is none.
  `Expiring` names the incarnations whose TTL may run out; for the others it is
  longer than the behaviour.
* Of two delayed additions of a name the queue keeps the earlier. TTLs of two
  incarnations are not comparable in the model, so either may stay.
* The order of disks within a class is open. One worker reconciles, the default
  of controller-runtime; leader election keeps a second process out.
* A condition is its reason, with the message where two causes share a reason.

### `SandboxLifecycle`, the abstract specification

An incarnation starts unprotected, has its kind decided once, becomes protected,
is marked and goes; children belong to incarnations that were created. Each step is
somebody's. Kind, protection, release and children are the controller's alone. A life
is ended (`Mark`, or `Go` if unprotected) by a user at any time, and by the controller
only when a TTL has run out under that name (`Due`).

The mapping in `SandboxProperties` reads `stage` off what the API server holds
(`uid`, `del`, `prot`), `kind` off `Status.Type`, `owning` off workloads and disks,
and `due` off the TTLs that have run out. `hand` is the worker: what it holds does not
matter, but a step that changes it is the controller's, and any other is not. Caches,
queue and lost answers map to nothing: every step of theirs must be a step of that life
or none. It is a non-trivial claim because three writes go by name: each is a place
where the finalizer, the deletion mark or the type of one incarnation could land on
another.

`Due(n)` is of the name and not of the present incarnation, and that is a concession:
with `<<n, incarnation[n]>> \in due` the controller does not implement the
specification, because of a flaw in the TTL delete (section 6).

### `Admission`, `Rendering` and `TemplateLifecycle`

| State | Stands for |
|---|---|
| `templates`, `cTemplates` | templates on the server and in the one cache that both controllers share |
| `tQueue`, `tw`, `late` | queue and worker of the template controller; a status write still under way from a controller that was replaced |
| `sandboxes`, `workloads`, `disks`, `sw` | sandboxes, what was rendered for them, and the worker of the sandbox controller |
| `used`, `gates`, `restarts` | incarnations of a template, gates of the processes, replacements |

| Action | Code |
|---|---|
| `CreateTemplate`, `CreateSandbox` | CEL rules, defaulter and validators in the order of the API server; `CommandRequest` is what `create.go` sends |
| `SyncTemplate`, `Reconcile`, `UpdateStatus` | the template controller: watch, `Reconcile` on a copy, the status under the version read |
| `Replace`, `LateUpdate` | leader election and restart (`cmd/controller/app/app.go`): caches are listed afresh, a write under way still arrives |
| `BeginSandbox`, `Protect`, `Create`, `Terminate` | the sandbox controller as far as templates are concerned, in three steps where `SandboxController` has a dozen |
| `DeleteTemplate`, `DeleteSandbox`, `CollectOrphans` | users and garbage collector |

A body is the set of its references (what a volume is called inside the workload,
its class, the object it stands for) and of the names its mounts use. A name is a
sequence of parts, so that a full name (class, UID, name) is never a name a user
could give to a volume. A reference may be to any name, though, and so to the full name
of a disk of a sandbox whose UID is known: the Pods of `admission` have such a reference
(`SeenDisk`), which stays as the user wrote it. CEL's handling of absent fields is
modelled with a third truth value, because rule 2 of `SandboxSpec` rests on it.
`Copied` lists what the generated deep copy copies; what it left out would be
shared with the cache, and `WrittenThrough` and `Before` say what a write to a
shared part does.

The gates are the same in all processes and lives of this module; changing gates
belongs to `SandboxController`. After a change, a template admitted before it may
need a closed gate, and the sandbox then reports `CreateFailed`.

### `ApiServer`

| State | Stands for |
|---|---|
| `sandboxes`, `born`, `workloads` | the cluster, changed by users and the sandbox controller |
| `server`, `stores` | the process, the informers its factory has made and what each has listed |
| `memory` | the words of token and CA that are stored. Go stores a string and a slice word by word and gives no order to a race, so a reader may see a length without bytes |
| `requests` | requests under way: the cached copy decided on, the workload found, the secrets used, the answer |

`Configure`, `Complete`, `StartInformer`, `Serve` are `options.go`, `config.go`
and `Server.Run`; `List`, `Watch` the reflector (external); `Get` and `Connect`
… `Dial` the storage and `AttachREST`, with a step wherever another request, the
controller or a restart can come between. `Restart` strikes at any time.

`AttachSession` is what callers may rely on: a call is bound once, to a child of an
incarnation that was created; it is opened in one step to that child, alive at that
step, or refused because there is none, or fails; an open session is never moved,
and no call outlives the server. A request is bound from the moment `Connect`
has accepted the cached sandbox until `Dial` decides it, and is mapped to the child
that the UID and type of that copy stand for (`CallOf`). `Lookup` finds a workload
and may refuse, but decides nothing else: what it found may be gone by the time the
caller has upgraded the connection. Secrets, memory and informers map to nothing.
What the name of the children is for shows here: it contains the UID, so a lookup by
name can neither miss a child that lives nor find that of a later sandbox.

### `AttachClient`

| State | Stands for |
|---|---|
| `main`, `signal` | `Run`, `connect`, `attachTerm`; the interrupt channel and the goroutine that waits on it |
| `attach`, `made` | `Attach` with its ticker, the helper of an attempt; connections so far |
| `session` | for each connection the round tripper, `Stream`, both copies, terminal reader and writer, their shared buffer, the wire and the shell |
| `tty`, `typed` | what is typed and not read; keys so far |

Each goroutine is a field of its session, and each channel or pipe operation a
step. An unbuffered channel is a joint step of both ends; a goroutine that nobody
will ever meet stays where it is, as in the program. `PassChunk` hands over
positions in the reader's buffer and not their contents, so that a later read
changes what the writer passes on: this is the race of `attach.go:161-177`. Of
the ways in which a racing copy may come out, those of whole items are modelled.

## 3. The runs

Bounds are the constants of each `.cfg`. All runs say `CHECK_DEADLOCK FALSE`:
with nothing to do and the bounds used up, the system rests. States are distinct
ones.

| Run | Instance | Shows | States |
|---|---|---|---|
| `inline_faults` | one KubeVirt sandbox with a DataVolume and a claim, a machine that may fail, one error, one restart, gate on or off in each life of the process | `TypeOK`; `DisksBackWorkload`; `NoStuckDeletion`; `Settled` | 2.1 M |
| `reborn` | one name, two incarnations, the first may expire, one error | `ReadProtectedIsPresent`, `ReleasesWhatItRead`, `ExpiryMarksWhatItRead`, `ImplementsLifecycle` | 984 k |
| `template` | one sandbox, one template that is deleted and created anew as another kind | `NoStuckDeletion`, `WorkloadUnderProtection`, `TypeNeverChanges` | 1.5 M |
| `live` | one pod, one lost or failed call, TTL may end, with fairness | `DeletionCompletes`, `OrphansGo`, `ExpiredGoes`, `ConditionFollowsPhase` | 195 k |
| `admission` | one template of seven specs, two sandboxes, all gate sets, one replacement of the controller | `TypeOK`, `AdmittedSpecsRun`, `OwnDisksOnly`, `ReferencesResolve`, `TemplateReportSettles`, `TerminatingNeverUndone` | 556 k |
| `apiserver` | one name twice, two requests, any number of restarts, with fairness | `TypeOK`, `KnowsWhatWasThere`, `RightWorkload`, `ForwardsWholeSecrets`, `ImplementsAttach`, `AcceptedAtLast` | 505 k |
| `attach` | one session accepted, two keys, two interrupts, buffers of two items, with fairness | `TypeOK`, `NothingTruncated`, `LastInputArrives`, `FirstEscapeObeyed`, `InterruptEndsRetries`, `ConnectionGoes`, `RefusedAttemptsEnd` | 179 k |
| `template_in_use` | two users of a template | violation of `TemplateOutlivesUsers` | |
| `template_leak` | one user of a template | violation of `TerminatingTemplateHasUser` | |
| `expiry_restart` | restart, then the TTL ends during the first pass | violation of `ExpiryNeverMissed` | |
| `volumes` | one pod whose volume is named like its claim | violation of `VolumesAreMounted` | |
| `attach_escape` | two sessions, one key | violation of `EscapeObeyed` | |

### Why the bounds suffice

* Controller: one name suffices wherever a property speaks of one sandbox, as
  sandboxes meet only in templates and in the queue; two incarnations let a
  stale copy outlive what it shows; one error and one restart can each strike at
  any step.
* `admission`: two sandboxes are what one copy of a body can be mixed up between;
  seven specs have each kind, two kinds, two backings, three kinds and a name
  used twice, so each rule and each case of each validator decides something.
* `apiserver`: two requests are what a race needs; a name used twice lets a
  cached copy outlive its sandbox. Restarts are not bounded, as they return to
  few states.
* `attach`: two items fill a buffer, one leaves an older item behind it, so
  every length there is a difference between is there. Before and after the one
  session come any number of refused attempts. Two interrupts reach the closed
  channel. The goroutines left behind by a session that was followed by another
  are the subject of `attach_escape`; the safety properties are proved for any
  number of sessions.

`NoStuckDeletion`, `Settled`, `ExpiryNeverMissed`, `TerminatingTemplateHasUser`
and `TemplateReportSettles` speak of quiescent states: worker idle, queue empty,
caches current, no timer due. A lost wake-up is a quiescent state with work left,
so these invariants find it without any fairness. `Settled` and
`ExpiryNeverMissed` are about inline specs, since sandboxes that wait for
templates really are left waiting (section 6). `WorkloadUnderProtection` is
claimed for the only user that a template has had, in a state from which no sandbox
has gone yet: with two users there is `template_in_use`, and after the first has
gone the cache may still show its finalizer (section 6). The run has one sandbox;
the proof has any number, with inline specs and with other templates. `ExpiredGoes` makes an
exception for failing calls: a pass that fails arms no timer, and its retry may lose
the expiry as in `expiry_restart`. `ReferencesResolve` leaves out
the claims of a VMI, which keep the name they were given. `LastInputArrives`
speaks of what was read last: keys read while the writer is still at work do
overwrite the ones before.

### Fairness

* Controller: weak fairness of the worker's steps, of each informer, of due
  timers, of the clock for incarnations in `Expiring`, of the end of a marked
  workload and of the garbage collector; strong fairness of `Begin(n)`, as the
  queue is first in, first out and a name in it has its turn even if other names
  come and go. Nobody has to create, delete, evict or change the phase of
  anything, and restarts and errors are bounded, so a persistent outage is
  excluded and nothing else.
* API server: the start goes on, informers list and watch, a request goes on and
  its client leaves in the end. Nobody has to ask for anything; restarts stay
  possible at any time.
* Attach: goroutines that can go on do, messages are delivered, the ticker ticks.
  Nobody has to type, interrupt or end the input, and no shell has to end. Nor need
  a dial be answered, since the dialer has no timeout for the handshake
  (`async.go:121`) and `Attach` looks at its own only between attempts
  (`sandbox.go:40`). What can be said of attempts and interrupts is therefore said
  under a condition, `DialsAnswered`: `RefusedAttemptsEnd` and `InterruptEndsRetries`
  are false without it, and section 6 says what happens then.

## 4. Disagreements between code and documentation

1. `template_in_use`: the first user that is deleted takes the finalizer off a
   template that others still use (`sandbox_reconciler.go:182`); the template's
   status message promises that it stays until all have terminated.
2. `template_leak`: the template is protected one call before the sandbox is
   (`:94`). A sandbox deleted in between goes at once, and its template keeps
   the finalizer with nobody left to remove it.
3. `expiry_restart`: if the TTL runs out between `isTTLExpired` and `nextSync`
   in the first pass after a restart, `RequeueAfter` is not positive, nothing is
   queued, and the sandbox outlives its TTL until another event or the resync.
4. `volumes`: mounts of a pod are renamed if their own name is that of a declared
   claim, the volumes they mount are not (`pod.go:163`); a pod whose volume has
   the name of its claim is refused by the cluster.
5. `attach_escape`: after a reconnection the reader of the old session still
   waits on the terminal and may take the escape (`attach.go:164`), which the
   message at `:148` says ends the session.

## 5. The proofs

All theorems are about `Spec`, without fairness, for every value of the constants
that satisfies the assumptions of the module: names, templates and requests are
any sets, bounds any natural numbers, specs whatever the schema allows.

### The sandbox controller

**`TypeCorrect`**: `Spec => []TypeOK`. Besides types, `TypeOK` says that a busy
worker holds what its step uses (`Holding`): a sandbox that exists in its copy,
a known type at the steps that touch children, a template at the steps that
patch one. Without these the types of `workloads` and `templates` would not be
inductive. There is one lemma per group of actions, `NextTyped` puts them
together.

**`Protection`**: `Spec => []ProtectionInv`. The facts wanted are
`ReadProtectedIsPresent` (a copy that shows a sandbox as protected and not
deleted shows one that exists and is protected) and `ReleasesWhatItRead` (the
finalizer comes off only while the worker holds a copy of that incarnation that
is being deleted). Neither is inductive: the finalizer patch goes by name and
tests nothing but the finalizers. The invariant relates three views of a name.

* The server (`ServerInv`): deletion is marked on protected objects only, for
  an unprotected one is gone at once.
* A copy against the server (`CopyInv`), once for the cache and once for the
  worker: it is an earlier state of the same incarnation, or that incarnation
  has gone after its deletion was marked; and as long as a copy shows a deletion
  and the incarnation is gone, no later one has been protected. The last clause
  is what makes a late removal of the finalizer harmless: the patch tests for a
  finalizer that nothing carries.
* The worker against the cache (`WorkerInv`): if the worker holds a live copy,
  a deletion that the cache shows has not been completed, because only the
  worker completes deletions; if it holds a deleted one, the cache has not gone
  back to before the mark. A worker with a live, protected copy keeps the
  finalizer in what it writes, and a worker at a releasing step holds a deleted
  copy.

The second of these needs the third: a new incarnation becomes protected only
by a worker that read it live, and `Pending` says that the cache then shows no
completed deletion of an older one. The steps of the worker reduce to two lemmas:
until its updates the worker carries name, copy and finalizer along
(`WorkerCarries`), and the server moves a sandbox forward only (`ServerStepKeeps`,
`PatchKeeps`, `Forward`). `ReadProtected` and `Releases` follow.

**`Refinement`**: `Spec => ImplementsLifecycle`. To `ProtectionInv` it adds
`KindInv`, that the worker goes on with the kind that its copy has and that what
is not there has none. `StepLives` has a case per action that touches the server:
a status write is `Decide` or nothing (`StatusLives`, from the version it names),
the finalizer patch `Protect`, `Go` or nothing (`PatchLives`, from
`ProtectionInv`), the TTL delete `Mark` or `Go`, children `Bear` and `Bury`
(`ChildrenLive`). That the TTL delete comes only when a TTL has run out is `ExpiryInv`,
the third part of `LifecycleInv`: a worker at the delete holds a copy of an incarnation
that has expired. Every step of the worker moves it (`ChildStepsMove`), so that none
passes for somebody else's. **`TypeDecidedOnce`** follows from the optimistic lock;
**`ExpiryMarks`** from `ReadProtected` and from the fact that only a reconcile
that has just seen a TTL run out gets to the delete.

**`DisksBack`**: `Spec => []DisksBackWorkload`. The disks are listed from a cache,
made one at a time and counted off in the worker's hands, so the invariant follows
them there: nothing belongs to an incarnation that is not born (`UnbornInv`), a copy
of a living sandbox shows its spec (`SpecInv`), the disks that the cache shows of a
living sandbox are there (`ListedInv`), and what the worker has yet to make is all
that is missing (`ProgressInv`: while one class is made the others may be, and the
KubeVirt sandboxer turns to claims only when no DataVolume is). That nobody takes a
disk away is the point of `DeletesNoLiving`: a worker that deletes holds a deleted
copy, by `ProtectionInv`, and the garbage collector goes by UID. The property is
stated for inline specs; a template may be another one by the time it is read.

**`UnderProtection`**: `Spec => []WorkloadUnderProtection`. The worker decides from
the cache whether it has to protect a template, so what has to be invariant is that
the cache cannot mislead it. `GuardInv` says so in two halves. As long as a template
has had no user, neither it nor the cache shows the finalizer. And if anything that
takes the worker past the protection, or shows that it is past it, is true of the only
user (`Past`: the cache shows the finalizer, the worker is building that user's
children, the workload is there), then the finalizer really is on the template.
Nothing else puts it there or takes it off but the worker's two patches
(`TemplateFate`: who deletes a protected template only marks it), and by
`HeldIsThere` the worker's copy is of a sandbox that is there, so that a patch is
for the template of that sandbox. The release is excluded by `DeletesNoLiving`
(`ReleasesOwn`), and the start of the building comes after an accepted patch or
after a look at the cache (`BuildingBegins`, `ManagesProtected`, `PastProtected`).
`NamingInv` says that copies show the template a sandbox names, `AbsentInv` that a
template that is not there has no spec to be used. Every step gives a sandbox one of
three fates (`SandboxFate`), from which it follows that users only come (`UsersCome`).

**`NoStuck`**: `Spec => []NoStuckDeletion`. A name on which server and cache agree,
and which is not in the queue, is `Calm`. `DeletionInv` says that a calm deletion is
in the worker's hands, and that when it comes to the patch, the patch takes the
finalizer off or an error puts the name back. It needs `ReadInv` (what the worker
has read and the cache no longer shows will be queued again) and `TurnInv` (a
status is written only if it differs). Together they settle the case that a test
would not reach: the answer of the status write puts the finalizer back in the
worker's copy and the patch is left out; but what was written differs from what the
cache shows, so the event of that very write is still to come (`StatusWrites`).

**`Settles`**: `Spec => []Settled`, the invariant that relates most of the state. A
living sandbox with an inline spec that is calm and has no event under way is either
`AtRest`, which is what `Settled` asks of it, or in the worker's hands (`RestedInv`).
For the second, `WorkInv` says how far the worker has come (`Fit`): past the gate and
with the finalizer to be written while it makes children; standing on all its disks
when it reads the status; and at the end without an error, a condition that is the
reason of the phase the workload really has, unless an event says otherwise. A failed
pass promises nothing but its own repetition. The rest supports these: `EventInv` (the
cache shows the phase of a workload of an enabled kind, or an event is under way), for
which every write of a workload has to be gone through (`PhaseChanges`, `EventsKeep`);
`OwnInv` (a living sandbox has no children but those its spec asks for), `TodoInv` (nor
has the worker planned any) and `KindsInv` (the kind in a copy is that of its spec).
`CalmBefore` carries the argument: a step other than the start of a reconcile leaves a
living sandbox calm only if it was so and is untouched, since whoever writes it makes
the cache differ. So the event of a phase change that comes between the read of the
status and the write of the condition is still there when the worker is done. The disks
come from `DisksInv`.

### Templates

`TInv` has five parts: types; `AdmissionInv`, that what is stored, cached and
worked with has been admitted; `ReportInv`; `RenderedInv`, what the children of a
sandbox were made from; and `AdmittedSpecsRun`.

* **`AdmittedCanRun`**: a spec that passes rules and validators has a kind, its
  gate is open, and no disk is named twice (`AdmittedCanBeMade`), although the
  validators stop at the first kind that is set and `DetectSandboxType` has an
  order of its own: the two orders agree.
* **`ReferencesAreMet`** and **`OwnDisks`** rest on `RenderedInv`: the disks and the
  workload of a sandbox are those of one and the same spec, rendered whole for that
  sandbox, and while the worker is busy with a sandbox that has no workload yet, so
  is nobody else. The spec is not kept anywhere, and the template it came from may
  have been created anew with another body since, so the invariant can only say
  that there is one (`RenderedFor`). For such a spec, every reference of a rendered
  body that is to a declared disk names one that was made (`RenderedResolves`), and
  every reference is as in the spec or renamed to a disk that was made for that sandbox
  (`RenderedRefs`), since the cached body it was made from is as submitted; that is
  part of `TypeOK` and holds because the deep copy is complete. Specs may refer to
  whatever names they like, those of other sandboxes' disks included. That a step keeps
  what was rendered for every other sandbox is `RenderedKept`.
* **`ReportsSettle`**: a template whose report is out of date is queued, being
  worked on, or not yet in the cache (`DueKept`); at rest none of these is so. A
  conflict puts the name back in the queue; a replaced controller's queue is
  rebuilt by the list.
* **`TerminatingStays`**: a worker's report is that of its copy, and a status that
  is written replaces exactly that copy.

### The API server

`ApiInv` says that a process that was wired has one informer, that what a store
that has listed does not show has gone, that a child's name determines its owner,
and what a request has done so far in terms of the memory it shares.
**`KnowsTheFirst`**, **`ReachesItsOwn`** and **`WholeSecrets`** follow. The last
rests on lengths: a request goes past `load` only when the length of both secrets
is stored, and uses them only whole, for a torn one faults.

**`Sessions`**: `Spec => ImplementsAttach`. `KnownInv` is added: what the cluster and
the stores have of a sandbox is an incarnation that was created, and a ready one has
its type. `FoundIffLiving` turns a lookup by name into a question about the abstract
state; it needs both directions, as a session needs a child that lives and a refusal
the lack of one. Each step of a request then is a step of its call or none
(`Decides`, one lemma per handler); a `bound` request keeps its copy and its name
(`StaysBound`) and may fail at any time (`MayFail`). A child is lost by
exactly one workload, since its name and kind are determined by owner and kind.

### The attach command

`AttachInv` says of every session where what was read last is now (`Follows`):
with the writer, with the copy, on the wire, in the shell. **`LastArrives`** is
its last case, and holds although reader and writer share a buffer: the reader
gets to its next read only after the writer has taken over, and if it does read
again it is that read that counts. **`Whole`** needs `TermBuf <= CopyBuf`; the
program has 1024 bytes and 32 KiB. `MainInv` says that a session is untouched
until `Attach` has answered with it.

### Only model-checked

* Liveness, which is outside what the prover handles: `DeletionCompletes`,
  `OrphansGo`, `ExpiredGoes`, `ConditionFollowsPhase`, `AcceptedAtLast`,
  `FirstEscapeObeyed`, `InterruptEndsRetries`, `ConnectionGoes`,
  `RefusedAttemptsEnd`.

Every invariant and every action property of the passing runs is proved.

## 6. Observations that no run states

* The TTL delete goes by name, without UID or resource version
  (`sandbox_reconciler.go:86`). Made from a cached copy of an expired sandbox that had
  no finalizer yet, it hits whatever sandbox now bears the name, although "TTL is the
  time after which the sandbox will be automatically deleted" (`sandbox_types.go:36`)
  and that time has not come for the later one. TLC shows it in seven steps if
  `Due(n)` in `SandboxLifecycle` is made to ask for the present incarnation:
  `CreateSandbox`, `RunOut`, `SyncSandbox`, `DeleteSandbox`, `CreateSandbox`,
  `BeginExpired`, `Expire`. If the copy does carry the finalizer, the incarnation it
  shows is still there (`ReadProtectedIsPresent`), and the delete marks that one
  (`ExpiryMarksWhatItRead`). A precondition on the UID would close it.
* A dial that hangs keeps `Attach` for ever, and with it the command: the first
  interrupt is taken by the goroutine of `attach.go:58`, and nobody looks at its
  channel before the attempt has ended; only a second one ends the command, by a panic.
* Listed as hazards without a property, each with what the code does: the goroutine
  that keeps the result of `Stream`, a connection that a caller does not stream, keys
  overwritten in the shared buffer, messages longer than the buffer of the reader, the
  claims of a VMI, which are not renamed.
* A sandbox whose template does not exist says that it is waiting
  (`sandbox_reconciler.go:142`), but no watch, error or timer wakes it when the
  template comes; only the resync of the informers does.
* Rule 2 of `SandboxSpec` (`sandbox_types.go:29`): `template` is omitted when
  empty, an absent field is an error in CEL, and `!(error && true)` is an error, so
  a sandbox with an inline spec has to give the empty name explicitly. The Go
  client cannot.
* The rules "Only one of" admit two of three kinds or backings.
* `create.go:99` assigns a pointer to the `TTL` field, which is not one.
* `UnprotectObject` sends a patch that changes nothing when the object has
  finalizers of others only.
* Leader election has no fencing; late status writes are harmless because of the
  resource version, late patches because of `Protection`, and so are late deletes from
  protected copies. A late delete from an unprotected copy is the flaw named first.
* A sandbox that is created again under a name whose first bearer has just gone may
  run under an unprotected template: the release goes unseen in the cache, which
  still shows the finalizer, so `ProtectTemplate` is left out. With
  `MaxIncarnations = 2` in `template`, and no assumption that nobody has gone,
  `WorkloadUnderProtection` is violated so.
* The token is read once; a service account token that is rotated is not read
  again. The model has one version of each secret.
* "Not ready" reaches the client as an internal error, so `Attach` does not try
  again; `Run` does.
* The attach command: a second interrupt after the first was collected is sent on
  a closed channel and ends it by a panic; an escape typed after other keys that
  come with the same read is passed on; an interrupt is not looked at while an
  attempt is under way or while sessions end without an error; if the terminal
  cannot be made raw, the stream goes on.
* Without callers: `vmiInformerFactory` in `informer.go`, the throttled proxy
  handler, `kubevirtVMIHandler`, `AsConn`, most of the informer factory.

## 7. Not modelled

* REST client plumbing, CRDs and manifests, the wording of logs, messages and
  help: no state and no step anything could come between.
* Generated clientset, fakes, OpenAPI and registration: data and single calls.
  Of the generated code the factory, the lister and the deep copy are modelled,
  as correctness rests on them.
* Finalizers that others put on templates and sandboxes.
* Start-up of the controllers beyond their being started anew or replaced.
* The output direction of a session: it changes no state that is kept, and ends a
  session only through `ReadStop` and `CopyFromEnds`, which are there.
* What of these is left open: proofs of liveness, and rotation of secrets, which the
  code does not handle.
