-------------------------- MODULE SandboxLifecycle --------------------------
(***************************************************************************)
(* What the sandbox controller promises of a sandbox, seen through the API *)
(* server: an incarnation starts unprotected, its kind of workload is      *)
(* decided once, and from the moment it is protected it can only leave     *)
(* through a deletion that is marked first and completed later.  Nobody    *)
(* but the controller decides, protects, releases or bears children, and   *)
(* it ends a life of its own accord only when a TTL has run out.  Children *)
(* belong to incarnations that were created, and may outlive them.         *)
(*                                                                         *)
(* There is no cache, no copy, no two-part update and no lost answer here; *)
(* SandboxController implements this with all of them.                     *)
(***************************************************************************)
EXTENDS Naturals

CONSTANTS Names, Kinds, NoKind

VARIABLES
    stage,        \* name -> where the present incarnation is in its life
    incarnation,  \* name -> incarnations so far
    kind,         \* name -> the kind of workload decided for the present one
    owning,       \* the incarnations that have children
    due,          \* the incarnations whose TTL has run out
    hand          \* what the controller is at: its own steps change it, no others

vars == <<stage, incarnation, kind, owning, due, hand>>

Init ==
    /\ stage = [n \in Names |-> "absent"]
    /\ incarnation = [n \in Names |-> 0]
    /\ kind = [n \in Names |-> NoKind]
    /\ owning = {} /\ due = {}

ByController == hand' # hand /\ UNCHANGED due
ByOthers == UNCHANGED <<due, hand>>

\* The TTL of an incarnation that bore this name has run out.  It should be that of the
\* present one, but the controller deletes by name and may have read an earlier one.
Due(n) == \E i \in 1..incarnation[n] : <<n, i>> \in due
\* Users may end a life at any time, the controller at the end of a TTL.
Ended(n) == ByOthers \/ (ByController /\ Due(n))

Create(n) ==
    /\ stage[n] = "absent" /\ ByOthers
    /\ stage' = [stage EXCEPT ![n] = "unprotected"]
    /\ incarnation' = [incarnation EXCEPT ![n] = @ + 1]
    /\ UNCHANGED <<kind, owning>>

Decide(n) ==
    /\ stage[n] # "absent" /\ kind[n] = NoKind /\ ByController
    /\ \E k \in Kinds : kind' = [kind EXCEPT ![n] = k]
    /\ UNCHANGED <<stage, incarnation, owning>>

Protect(n) ==
    /\ stage[n] = "unprotected" /\ ByController
    /\ stage' = [stage EXCEPT ![n] = "protected"]
    /\ UNCHANGED <<incarnation, kind, owning>>

Mark(n) ==
    /\ stage[n] = "protected" /\ Ended(n)
    /\ stage' = [stage EXCEPT ![n] = "leaving"]
    /\ UNCHANGED <<incarnation, kind, owning>>

\* What is not protected goes at once, what is leaving when it is released.
Go(n) ==
    /\ \/ stage[n] = "unprotected" /\ Ended(n)
       \/ stage[n] = "leaving" /\ ByController
    /\ stage' = [stage EXCEPT ![n] = "absent"]
    /\ kind' = [kind EXCEPT ![n] = NoKind]
    /\ UNCHANGED <<incarnation, owning>>

Bear(n, i) ==
    /\ ByController
    /\ owning' = owning \cup {<<n, i>>}
    /\ UNCHANGED <<stage, incarnation, kind>>

Bury(k) ==
    /\ (ByController \/ ByOthers)
    /\ owning' = owning \ {k}
    /\ UNCHANGED <<stage, incarnation, kind>>

Work == ByController /\ UNCHANGED <<stage, incarnation, kind, owning>>

RunOut ==
    /\ due \subseteq due'
    /\ UNCHANGED <<stage, incarnation, kind, owning, hand>>

Next ==
    \/ \E n \in Names :
          \/ Create(n) \/ Decide(n) \/ Protect(n) \/ Mark(n) \/ Go(n)
          \/ \E i \in 1..incarnation[n] : Bear(n, i)
    \/ \E k \in owning : Bury(k)
    \/ Work \/ RunOut

Spec == Init /\ [][Next]_vars
=============================================================================
