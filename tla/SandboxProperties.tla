------------------------- MODULE SandboxProperties -------------------------
(***************************************************************************)
(* What the sandbox controller has to guarantee, apart from its types.     *)
(***************************************************************************)
EXTENDS SandboxController

-----------------------------------------------------------------------------
(* A copy of a sandbox that is read as protected and not deleted *)

ShownProtected(copy, n) ==
    copy.prot /\ ~copy.del => sandboxes[n].uid = copy.uid /\ sandboxes[n].prot

\* However stale a copy is (in the cache, or in the hands of the worker), if it
\* shows a sandbox that carries the finalizer and is not being deleted, then that
\* very incarnation still exists and is still protected.  It is what lets
\* Reconcile create children and delete by name from a cached copy.
ReadProtectedIsPresent ==
    /\ \A n \in Names : ShownProtected(cSandboxes[n], n)
    /\ w.pc # "idle" => ShownProtected(w.old, w.name)

\* The finalizer is taken off a sandbox only while the worker holds a copy of that
\* incarnation that is being deleted: the JSON patch goes by name and tests the
\* finalizers alone, and still never releases a later sandbox of the same name
\* (metaUpdater.Update, handleTerminating).
ReleasesWhatItRead ==
    [][\A n \in Names :
         sandboxes[n].prot /\ (sandboxes'[n].uid # sandboxes[n].uid \/ ~sandboxes'[n].prot)
         => w.name = n /\ w.old.uid = sandboxes[n].uid /\ w.old.del]_vars

\* The TTL delete goes by name too; from a copy that carries the finalizer it can
\* only mark the incarnation whose TTL has run out.
ExpiryMarksWhatItRead ==
    [][\A n \in Names :
         w.pc = "expire" /\ w.old.prot /\ sandboxes'[n] # sandboxes[n] /\ w' # w
         => /\ w.name = n /\ sandboxes'[n] = [sandboxes[n] EXCEPT !.del = TRUE]
            /\ <<n, sandboxes'[n].uid>> \in expired]_vars

\* Status.Type is decided once: a reconcile that read an older copy, or a template
\* created anew with another kind, never replaces it (Reconcile, statusUpdater).
TypeNeverChanges ==
    [][\A n \in Names :
         sandboxes[n].type # NoType /\ sandboxes'[n].uid = sandboxes[n].uid
         => sandboxes'[n].type = sandboxes[n].type]_vars

-----------------------------------------------------------------------------
(* The children of a sandbox *)

Present(k) == {t \in Types : workloads[k][t].phase # Absent}
Alive(n) == sandboxes[n].uid # 0 /\ ~sandboxes[n].del
KeyOf(n) == <<n, sandboxes[n].uid>>

\* The workload of a sandbox with an inline spec that is not being deleted stands on
\* all the disks the spec asks for: Create makes the volumes first and gives up on the
\* first error.  What a template asks for may be another thing by the time it is read.
DisksBackWorkload ==
    \A n \in Names : Alive(n) /\ sandboxes[n].inline # NoSpec => \A t \in Present(KeyOf(n)) :
        OwnedDisks(t, sandboxes[n].inline.disks) \subseteq disks[KeyOf(n)]

\* No sandbox that was created is gone yet.
NoneGone == \A n \in Names : born[n] <= 1 /\ sandboxes[n].uid = born[n]
Users(t) == {n \in Names : sandboxes[n].uid # 0 /\ sandboxes[n].tmpl = t}

\* As long as the only user a template has had has a workload and is not being deleted,
\* the template is there and carries the finalizer, however old the copies are that the
\* controller works from: ProtectObjects comes before Create.  Once a sandbox that used
\* it is gone, nothing of the kind holds: the cache may still show the finalizer that was
\* taken off for its sake.
WorkloadUnderProtection ==
    NoneGone => \A t \in Templates, n \in Names :
        Users(t) = {n} /\ Alive(n) /\ Present(KeyOf(n)) # {}
        => templates[t].there /\ templates[t].prot

-----------------------------------------------------------------------------
(* The abstract life of a sandbox *)

\* Only what the API server holds counts: not the caches, not the worker.
Stage(s) ==
    CASE s.uid = 0 -> "absent"
      [] s.uid # 0 /\ s.del -> "leaving"
      [] s.uid # 0 /\ ~s.del /\ s.prot -> "protected"
      [] OTHER -> "unprotected"
Owning == {k \in Keys : disks[k] # {} \/ Present(k) # {}}

Lifecycle == INSTANCE SandboxLifecycle WITH
    Kinds <- Types, NoKind <- NoType,
    stage <- [n \in Names |-> Stage(sandboxes[n])], incarnation <- born,
    kind <- [n \in Names |-> sandboxes[n].type], owning <- Owning,
    due <- expired, hand <- w

\* With stale copies, writes that go by name and two-part updates, every step of the
\* controller and of its surroundings is a step of that life or none: no write of the
\* controller takes the protection or the kind of an incarnation that lives, and none
\* ends a life but at the end of a TTL.  Whose TTL is another matter: a delete by name
\* from an unprotected copy of an expired incarnation may hit a later one of that name,
\* whose own TTL has not run out (deleteSandbox, sandbox_reconciler.go:86).
ImplementsLifecycle == Lifecycle!Spec

-----------------------------------------------------------------------------
(* What holds when the controller has nothing left to do: a wake-up that is *)
(* lost shows as a state where it rests and should not.                     *)

Quiescent ==
    /\ w.pc = "idle" /\ queue = {} /\ events = {}
    /\ cSandboxes = sandboxes /\ cTemplates = templates
    /\ cWorkloads = workloads /\ cDisks = disks
    /\ \A n \in Names : timers[n] # 0 => <<n, timers[n]>> \notin expired

\* The controller never rests on a sandbox that is being deleted, although the
\* answer of the status write puts the finalizer back and a second pass, woken by
\* that write alone, has to take it off.
NoStuckDeletion == Quiescent => \A n \in Names : ~sandboxes[n].del

\* At rest, a sandbox with an inline spec is protected, has its disks and its
\* workload, and its condition says what phase the workload is in: no phase change
\* is lost between the read of Status and the write of the condition.
Settled ==
    Quiescent => \A n \in Names : Alive(n) /\ sandboxes[n].inline # NoSpec =>
        LET t == sandboxes[n].type  wl == workloads[KeyOf(n)][t] IN
        /\ sandboxes[n].prot
        /\ t = DetectSandboxType(sandboxes[n].inline)
        /\ Present(KeyOf(n)) = {t}
        /\ OwnedDisks(t, sandboxes[n].inline.disks) = disks[KeyOf(n)]
        /\ sandboxes[n].cond = ReasonOf(t, wl.phase)

\* At rest no sandbox with an inline spec has outlived its TTL (nextSync).
ExpiryNeverMissed ==
    Quiescent => \A n \in Names :
        Alive(n) /\ sandboxes[n].inline # NoSpec => KeyOf(n) \notin expired

\* At rest, a template that is being deleted still has a sandbox that uses it
\* (the message of the SandboxTemplate reconciler promises as much).
TerminatingTemplateHasUser ==
    Quiescent => \A t \in Templates :
        templates[t].del => \E n \in Names : sandboxes[n].uid # 0 /\ sandboxes[n].tmpl = t

\* A template is there as long as a sandbox that is protected, not being deleted
\* and has a workload uses it (the same message).
TemplateOutlivesUsers ==
    \A n \in Names :
        /\ Alive(n) /\ sandboxes[n].prot /\ sandboxes[n].tmpl # NoTemplate
        /\ Present(KeyOf(n)) # {}
        => templates[sandboxes[n].tmpl].there

-----------------------------------------------------------------------------
(* Under Fairness *)

\* A sandbox that is being deleted goes in the end: its children are deleted, its
\* template released, and the finalizer survives neither lost calls nor the
\* answer of the status write (handleTerminating).
DeletionCompletes ==
    \A k \in Keys : KeyOf(k[1]) = k /\ sandboxes[k[1]].del ~> sandboxes[k[1]].uid # k[2]

\* An inline sandbox whose TTL has run out goes in the end, through the delayed
\* queue, the delete by name and the two passes of the deletion (nextSync); a call
\* that fails meanwhile takes the delayed queue's entry with it.
ExpiredGoes ==
    \A k \in Keys : KeyOf(k[1]) = k /\ k \in expired /\ sandboxes[k[1]].inline # NoSpec
                   ~> sandboxes[k[1]].uid # k[2] \/ errors > 0

\* What a gone sandbox has left behind goes too, children that the worker creates
\* from an old copy included.
OrphansGo ==
    \A k \in Keys : k[2] <= born[k[1]] /\ sandboxes[k[1]].uid # k[2]
                   ~> Present(k) = {} /\ disks[k] = {}

\* If the workload of a sandbox comes to rest in a phase, the condition comes to
\* rest on the reason of that phase (Status, the phase-change predicates of Setup).
ConditionFollowsPhase ==
    \A n \in Names, t \in Types, p \in Phases :
        <>[](Alive(n) /\ workloads[KeyOf(n)][t].phase = p)
        => <>[](sandboxes[n].cond = ReasonOf(t, p))
=============================================================================
