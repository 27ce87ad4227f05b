--------------------------- MODULE AttachSession ---------------------------
(***************************************************************************)
(* What the attach subresource promises to those who call it.  A call is   *)
(* bound once, to a child of an incarnation that was created, and is       *)
(* decided in one step: it is opened to that child, which is alive at that *)
(* step, or refused because no such child is.  An open session is never    *)
(* moved, and no call outlives the server.                                 *)
(*                                                                         *)
(* There is no cache, no name to look up twice and no secret to load here; *)
(* ApiServer implements this with all of them.                             *)
(***************************************************************************)
EXTENDS Naturals

CONSTANTS
    Names, Kinds, Callers,
    Nobody      \* what a call is bound to that is not under way

VARIABLES
    up,           \* the server takes calls
    incarnation,  \* name -> incarnations so far
    living,       \* the children that are there: of which incarnation, of which kind
    calls         \* caller -> where its call is, and the child it is bound to

vars == <<up, incarnation, living, calls>>

Child(n, i, k) == [owner |-> <<n, i>>, kind |-> k]
Call(state, of) == [state |-> state, of |-> of]
Idle == Call("idle", Nobody)

Init ==
    /\ up = FALSE
    /\ incarnation = [n \in Names |-> 1]
    /\ living = {}
    /\ calls = [c \in Callers |-> Idle]

-----------------------------------------------------------------------------
Create(n) ==
    /\ incarnation' = [incarnation EXCEPT ![n] = @ + 1]
    /\ UNCHANGED <<up, living, calls>>

Bear ==
    /\ UNCHANGED <<up, incarnation, calls>>
    /\ \E n \in Names : \E i \in 1..incarnation[n], k \in Kinds :
         living' = living \cup {Child(n, i, k)}

Bury ==
    /\ UNCHANGED <<up, incarnation, calls>>
    /\ \E child \in living : living' = living \ {child}

Serve ==
    /\ ~up /\ up' = TRUE
    /\ UNCHANGED <<incarnation, living, calls>>

Stop ==
    /\ up' = FALSE
    /\ calls' = [c \in Callers |-> Idle]
    /\ UNCHANGED <<incarnation, living>>

-----------------------------------------------------------------------------
Become(c, call) ==
    /\ calls' = [calls EXCEPT ![c] = call]
    /\ UNCHANGED <<up, incarnation, living>>

Bind(c) ==
    /\ up /\ calls[c] = Idle
    /\ \E n \in Names : \E i \in 1..incarnation[n], k \in Kinds :
         Become(c, Call("bound", Child(n, i, k)))

\* Answered from what the server knows of sandboxes, without turning to a child.
TurnAway(c) ==
    /\ up /\ calls[c] = Idle
    /\ Become(c, Call("answered", Nobody))

Open(c) ==
    /\ calls[c].state = "bound" /\ calls[c].of \in living
    /\ Become(c, Call("open", calls[c].of))

Refuse(c) ==
    /\ calls[c].state = "bound" /\ calls[c].of \notin living
    /\ Become(c, Call("refused", Nobody))

Fail(c) ==
    /\ calls[c].state = "bound"
    /\ Become(c, Call("answered", Nobody))

Leave(c) ==
    /\ calls[c].state \in {"open", "refused", "answered"}
    /\ Become(c, Idle)

Next ==
    \/ \E n \in Names : Create(n)
    \/ Bear \/ Bury \/ Serve \/ Stop
    \/ \E c \in Callers :
          Bind(c) \/ TurnAway(c) \/ Open(c) \/ Refuse(c) \/ Fail(c) \/ Leave(c)

Spec == Init /\ [][Next]_vars
=============================================================================
