----------------------------- MODULE ApiServer -----------------------------
(***************************************************************************)
(* The extension API server: its start, the informer behind its lister,    *)
(* and the requests it serves at the same time, each up to the session it  *)
(* opens to the workload of a sandbox.  The sandbox controller appears     *)
(* only by its effect on sandboxes and workloads.                          *)
(*                                                                         *)
(* The requests share the token and the CA of the process and load them    *)
(* without a lock.  A Go string (a slice) is stored word by word, so       *)
(* another request may see one word of it and not the other.               *)
(***************************************************************************)
EXTENDS Sandboxer

CONSTANTS
    Names,             \* sandboxes of the one namespace
    NoName,            \* what a request that is not there asks for
    Requests,          \* requests served at the same time
    GateSets,          \* the gates a process may be started with
    MaxIncarnations    \* bound: how often a name is used

ASSUME ConstantsAssumption ==
    /\ NoName \notin Names
    /\ GateSets \subseteq SUBSET Gated /\ GateSets # {}
    /\ MaxIncarnations \in Nat \ {0}

VARIABLES
    sandboxes, born, workloads,   \* the cluster; born: the incarnations so far
    server,                       \* the process: where it is, and what it was wired to
    stores,                       \* informer -> what it has listed and watched
    memory,                       \* secret -> the words of it that are stored
    requests

cluster == <<sandboxes, born, workloads>>
process == <<server, stores, memory, requests>>
vars    == <<cluster, process>>

Incarnations == 0..MaxIncarnations
Words == {"len", "ptr"}
Secrets == {"token", "ca"}
Informers == 0..2

NoSandbox == [uid |-> 0, type |-> NoType, ready |-> FALSE]
NoWorkload == [name |-> <<>>, kind |-> NoType, owner |-> <<>>]
Unlisted == [synced |-> FALSE, running |-> FALSE, copies |-> [n \in Names |-> NoSandbox]]
Stopped == [pc |-> "stopped", lister |-> 0, controller |-> 0, gates |-> {}]
Idle == [pc |-> "idle", name |-> NoName, copy |-> NoSandbox, secret |-> "token", wrote |-> {},
         ca |-> {}, token |-> {}, to |-> NoWorkload, result |-> "none"]

\* Mutant: children are named after the sandbox.
FullNameByName(n, uid) == <<"sandbox", n>>
\* The UID alone names the children of a sandbox.
FullName(n, uid) == <<"sandbox", n, uid>>

-----------------------------------------------------------------------------
(* The cluster: what users and the sandbox controller do *)

Others == UNCHANGED process

CreateSandbox(n) ==
    /\ sandboxes[n].uid = 0 /\ born[n] < MaxIncarnations
    /\ born' = [born EXCEPT ![n] = @ + 1]
    /\ sandboxes' = [sandboxes EXCEPT ![n] = [NoSandbox EXCEPT !.uid = born[n] + 1]]
    /\ UNCHANGED workloads /\ Others

DeleteSandbox(n) ==
    /\ sandboxes[n].uid # 0
    /\ sandboxes' = [sandboxes EXCEPT ![n] = NoSandbox]
    /\ UNCHANGED <<born, workloads>> /\ Others

\* The type is decided with the first workload and kept.
MakeWorkload(n, t) ==
    LET wl == [name |-> FullName(n, sandboxes[n].uid), kind |-> t, owner |-> <<n, sandboxes[n].uid>>] IN
    /\ sandboxes[n].uid # 0 /\ sandboxes[n].type \in {NoType, t}
    /\ ~\E other \in workloads : other.name = wl.name /\ other.kind = t
    /\ sandboxes' = [sandboxes EXCEPT ![n].type = t]
    /\ workloads' = workloads \cup {wl}
    /\ UNCHANGED born /\ Others

LoseWorkload(wl) ==
    /\ workloads' = workloads \ {wl}
    /\ UNCHANGED <<sandboxes, born>> /\ Others

ReportReady(n, ready) ==
    /\ sandboxes[n].type # NoType /\ sandboxes[n].ready # ready
    /\ ready => \E wl \in workloads : wl.owner = <<n, sandboxes[n].uid>>
    /\ sandboxes' = [sandboxes EXCEPT ![n].ready = ready]
    /\ UNCHANGED <<born, workloads>> /\ Others

-----------------------------------------------------------------------------
(* The start of the process *)

Stage(pc) == server' = [server EXCEPT !.pc = pc]

\* The flags are parsed and checked; without a service account the process ends.
Configure ==
    /\ server.pc = "stopped"
    /\ \E account \in BOOLEAN, gates \in GateSets :
         server' = [Stopped EXCEPT !.pc = IF account THEN "configured" ELSE "failed",
                                   !.gates = gates]
    /\ UNCHANGED <<cluster, stores, memory, requests>>

\* Mutant: every caller gets an informer of its own.
InformerAnew(made) == made + 1
\* The factory hands out one informer per type: a new one only if it has none (0).
InformerFor(made) == IF made # 0 THEN made ELSE made + 1

\* A new factory has made no informer.
NewFactory == 0

\* The group is served from this lister from now on; the storage keeps it.
Install(lister) == [server EXCEPT !.pc = "installed", !.lister = lister]

\* A client that cannot be built or a group that cannot be installed ends the process.
Complete ==
    /\ server.pc = "configured"
    /\ \/ LET lister == InformerFor(NewFactory) IN
          server' = [Install(lister) EXCEPT !.controller = InformerFor(lister)]
       \/ Stage("failed")
    /\ UNCHANGED <<cluster, stores, memory, requests>>

\* Run: the informer starts in a goroutine of its own.
StartInformer ==
    /\ server.pc = "installed"
    /\ Stage("syncing")
    /\ stores' = [stores EXCEPT ![server.controller].running = TRUE]
    /\ UNCHANGED <<cluster, memory, requests>>

\* Mutant: the informer has only to be running.
CacheStarted == stores[server.controller].running
CacheSynced == stores[server.controller].synced

Serve ==
    /\ server.pc = "syncing" /\ CacheSynced
    /\ Stage("serving")
    /\ UNCHANGED <<cluster, stores, memory, requests>>

\* The informer lists everything at once, and then follows one sandbox at a time.
List(i) ==
    /\ stores[i].running /\ ~stores[i].synced
    /\ stores' = [stores EXCEPT ![i] = [@ EXCEPT !.synced = TRUE, !.copies = sandboxes]]
    /\ UNCHANGED <<cluster, server, memory, requests>>

Watch(i, n) ==
    /\ stores[i].synced /\ stores[i].copies[n] # sandboxes[n]
    /\ stores' = [stores EXCEPT ![i].copies[n] = sandboxes[n]]
    /\ UNCHANGED <<cluster, server, memory, requests>>

\* The process ends, at a signal or because its start failed, and is started anew.
Restart ==
    /\ server.pc # "stopped"
    /\ server' = Stopped
    /\ stores' = [i \in Informers |-> Unlisted]
    /\ memory' = [s \in Secrets |-> {}]
    /\ requests' = [r \in Requests |-> Idle]
    /\ UNCHANGED cluster

-----------------------------------------------------------------------------
(* A request *)

RequestStep == UNCHANGED <<cluster, server, stores>>
\* Mutant: the answer forgets what was asked for.
AnswerToNobody(q, result) == [Idle EXCEPT !.pc = "answered", !.result = result]
Answer(q, result) == [Idle EXCEPT !.pc = "answered", !.name = q.name, !.result = result]
Become(r, q) == requests' = [requests EXCEPT ![r] = q]

\* The sandbox the lister of the process has under a name.
Listed(n) == stores[server.lister].copies[n]

\* Storage.Get: the metadata of the cached sandbox.
Get(r, n) ==
    /\ server.pc = "serving" /\ requests[r].pc = "idle"
    /\ LET copy == Listed(n) IN
       Become(r, Answer([Idle EXCEPT !.name = n, !.copy = copy],
                        IF copy.uid = 0 THEN "NoSandbox" ELSE "Object"))
    /\ UNCHANGED memory /\ RequestStep

\* Connect, up to load: the cached sandbox has to be there and to be ready.
Connect(r, n) ==
    /\ server.pc = "serving" /\ requests[r].pc = "idle"
    /\ LET copy == Listed(n)
           q == [Idle EXCEPT !.name = n, !.copy = copy]
       IN Become(r, IF copy.uid = 0 THEN Answer(q, "NoSandbox")
                    ELSE IF ~copy.ready THEN Answer(q, "NotReady")
                    ELSE [q EXCEPT !.pc = "load"])
    /\ UNCHANGED memory /\ RequestStep

\* load: the token, then the CA; each only if its length is zero.
Loaded(q) ==
    IF q.secret = "token" THEN [q EXCEPT !.pc = "load", !.secret = "ca", !.wrote = {}]
    ELSE [q EXCEPT !.pc = "lookup", !.secret = "token", !.wrote = {}]

IsEmpty(words) == "len" \notin words
IsTorn(words) == "len" \in words /\ "ptr" \notin words

\* Mutant: the error of a file that cannot be read is dropped.
LoadOrGoOn(r) ==
    LET q == requests[r] IN
    /\ q.pc = "load"
    /\ Become(r, Loaded(q)) \/ (IsEmpty(memory[q.secret]) /\ Become(r, [q EXCEPT !.pc = "store"]))
    /\ UNCHANGED memory /\ RequestStep

Load(r) ==
    LET q == requests[r] IN
    /\ q.pc = "load"
    /\ IF IsEmpty(memory[q.secret])
       THEN \/ Become(r, [q EXCEPT !.pc = "store"])
            \/ Become(r, Answer(q, "Internal"))         \* the file cannot be read
       ELSE Become(r, Loaded(q))
    /\ UNCHANGED memory /\ RequestStep

\* One word of what was read is stored; which comes first is up to the compiler.
Store(r, word) ==
    LET q == requests[r]  wrote == q.wrote \cup {word} IN
    /\ q.pc = "store" /\ word \notin q.wrote
    /\ memory' = [memory EXCEPT ![q.secret] = @ \cup {word}]
    /\ Become(r, IF wrote = Words THEN Loaded(q) ELSE [q EXCEPT !.wrote = wrote])
    /\ RequestStep

\* The workload a name leads to now.
Found(kind, name) == {wl \in workloads : wl.kind = kind /\ wl.name = name}

\* What getTransportWithClusterCA makes of the CA: an error, a fault of the process'
\* memory that the server turns into an answer, or a transport.
Transport(q, words) ==
    IF IsEmpty(words) THEN Answer(q, "Internal")
    ELSE IF IsTorn(words) THEN Answer(q, "Panic")
    ELSE [q EXCEPT !.pc = "handle", !.ca = words]

\* There is no client for a type whose gate is closed.
HasClient(kind) == kind # NoType /\ GateOpen(kind, server.gates)

\* The rest of Connect: the client for the type, the workload by name, its location;
\* asking for the workload may fail for other reasons than its absence.
Lookup(r) ==
    LET q == requests[r]  kind == q.copy.type
        found == Found(kind, FullName(q.name, q.copy.uid))
    IN
    /\ q.pc = "lookup"
    /\ \/ Become(r, Answer(q, "Internal"))
       \/ /\ HasClient(kind)
          /\ Become(r,
               IF found = {} THEN Answer(q, "NoWorkload")
               ELSE LET p == [q EXCEPT !.to = CHOOSE wl \in found : TRUE] IN
                    IF kind = "Pod" THEN [p EXCEPT !.pc = "handle"] ELSE Transport(p, memory["ca"]))
    /\ UNCHANGED memory /\ RequestStep

\* The handler: setHeaders reads the token again, whatever the type.
Handle(r) ==
    LET q == [requests[r] EXCEPT !.token = memory["token"]] IN
    /\ q.pc = "handle"
    /\ \E upgrade \in BOOLEAN :
         Become(r, IF IsTorn(memory["token"]) THEN Answer(q, "Panic")
                   ELSE IF ~upgrade THEN Answer(q, "BadRequest")
                   ELSE [q EXCEPT !.pc = "dial"])
    /\ UNCHANGED memory /\ RequestStep

\* Mutant: the workload found before the upgrade is taken to be still there.
DialWhatWasFound(r) ==
    /\ requests[r].pc = "dial"
    /\ Become(r, [requests[r] EXCEPT !.pc = "session"])
    /\ UNCHANGED memory /\ RequestStep

\* exec of the Pod, or console of the machine: by name, once more, which may fail for
\* other reasons, too.
Dial(r) ==
    LET q == requests[r]  found == Found(q.to.kind, q.to.name) IN
    /\ q.pc = "dial"
    /\ \/ Become(r, Answer(q, "Internal"))
       \/ Become(r, IF found = {} THEN Answer(q, "NoWorkload")
                    ELSE [q EXCEPT !.pc = "session", !.to = CHOOSE wl \in found : TRUE])
    /\ UNCHANGED memory /\ RequestStep

\* A session ends from either side; the client of an answered request goes.
Leave(r) ==
    /\ requests[r].pc \in {"session", "answered"}
    /\ Become(r, Idle)
    /\ UNCHANGED memory /\ RequestStep

-----------------------------------------------------------------------------
\* The process starts beside sandboxes that are already there.
Init ==
    /\ sandboxes = [n \in Names |-> [NoSandbox EXCEPT !.uid = 1]]
    /\ born = [n \in Names |-> 1] /\ workloads = {}
    /\ server = Stopped /\ stores = [i \in Informers |-> Unlisted]
    /\ memory = [s \in Secrets |-> {}]
    /\ requests = [r \in Requests |-> Idle]

Controller ==
    \/ \E n \in Names : CreateSandbox(n) \/ DeleteSandbox(n)
    \/ \E n \in Names, t \in Types : MakeWorkload(n, t)
    \/ \E n \in Names, ready \in BOOLEAN : ReportReady(n, ready)
    \/ \E wl \in workloads : LoseWorkload(wl)

Start == Configure \/ Complete \/ StartInformer \/ Serve
Informer(i) == List(i) \/ \E n \in Names : Watch(i, n)
Advance(r) == Load(r) \/ (\E word \in Words : Store(r, word)) \/ Lookup(r) \/ Handle(r) \/ Dial(r)
Request(r) == (\E n \in Names : Get(r, n) \/ Connect(r, n)) \/ Advance(r) \/ Leave(r)

Next ==
    \/ Controller \/ Start \/ Restart
    \/ \E i \in Informers : Informer(i)
    \/ \E r \in Requests : Request(r)

Spec == Init /\ [][Next]_vars

\* The start, the informers and the requests go on; nobody has to ask for anything.
Fairness ==
    /\ WF_vars(Start)
    /\ \A i \in Informers : WF_vars(Informer(i))
    /\ \A r \in Requests : WF_vars(Advance(r)) /\ WF_vars(Leave(r))

FairSpec == Spec /\ Fairness

-----------------------------------------------------------------------------
Sandboxes == [uid : Incarnations, type : Types \cup {NoType}, ready : BOOLEAN]
Owners == Names \X Incarnations
Workloads == [name : {FullName(o[1], o[2]) : o \in Owners}, kind : Types, owner : Owners]
Requested ==
    [pc : {"idle", "load", "store", "lookup", "handle", "dial", "session", "answered"},
     name : Names \cup {NoName}, copy : Sandboxes, secret : Secrets, wrote : SUBSET Words,
     ca : SUBSET Words, token : SUBSET Words, to : Workloads \cup {NoWorkload},
     result : {"none", "NoSandbox", "Object", "NotReady", "Internal", "NoWorkload", "Panic",
               "BadRequest"}]

\* Every variable keeps its type; only a request under way names a sandbox.
TypeOK ==
    /\ sandboxes \in [Names -> Sandboxes] /\ born \in [Names -> Incarnations]
    /\ workloads \subseteq Workloads
    /\ server \in [pc : {"stopped", "failed", "configured", "installed", "syncing", "serving"},
                   lister : Informers, controller : Informers, gates : SUBSET Gated]
    /\ stores \in [Informers -> [synced : BOOLEAN, running : BOOLEAN, copies : [Names -> Sandboxes]]]
    /\ memory \in [Secrets -> SUBSET Words]
    /\ requests \in [Requests -> Requested]
    /\ \A r \in Requests : requests[r].pc # "idle" => requests[r].name \in Names

\* Nobody is told that a sandbox does not exist which was there before the process
\* started: the lister and the informer that runs are the same one, and nothing is
\* served before it has listed (InformerFor, Complete, Server.Run).
KnowsWhatWasThere ==
    \A r \in Requests : requests[r].result = "NoSandbox" => sandboxes[requests[r].name].uid # 1

\* However old the cached sandbox, a session reaches a workload of that incarnation
\* and of its type, although the workload is looked up by name and then dialled by
\* name, and a sandbox of the same name may have taken its place (Connect).
RightWorkload ==
    \A r \in Requests : LET q == requests[r] IN
        q.pc = "session" => q.to.owner = <<q.name, q.copy.uid>> /\ q.to.kind = q.copy.type

\* What goes to the console of a machine carries the whole token and was made with
\* the whole CA, whatever the requests that load them at the same time have stored
\* by then (load, setHeaders, getTransportWithClusterCA).
ForwardsWholeSecrets ==
    \A r \in Requests : LET q == requests[r] IN
        q.pc \in {"dial", "session"} /\ q.to.kind # "Pod" => q.token = Words /\ q.ca = Words

\* What a request is to its caller: bound from the moment its sandbox was accepted.
State(q) ==
    CASE q.pc = "idle" -> "idle"
      [] q.pc = "session" -> "open"
      [] q.pc = "answered" /\ q.result = "NoWorkload" -> "refused"
      [] q.pc = "answered" /\ q.result # "NoWorkload" -> "answered"
      [] OTHER -> "bound"
Child(owner, kind) == [owner |-> owner, kind |-> kind]
Nobody == Child(<<>>, NoType)
Bound(q) ==
    CASE State(q) = "bound" -> Child(<<q.name, q.copy.uid>>, q.copy.type)
      [] State(q) = "open" -> Child(q.to.owner, q.to.kind)
      [] OTHER -> Nobody
CallOf(q) == [state |-> State(q), of |-> Bound(q)]
Living == {Child(wl.owner, wl.kind) : wl \in workloads}

Attach == INSTANCE AttachSession WITH
    Kinds <- Types, Callers <- Requests, Nobody <- Nobody,
    up <- server.pc = "serving", incarnation <- born, living <- Living,
    calls <- [r \in Requests |-> CallOf(requests[r])]

\* With a cached sandbox, two lookups by name, memory shared without a lock and a
\* server that may be replaced, every request is decided as if in one step: it is
\* opened to a living child of the incarnation it was accepted for, or refused for
\* want of one when there is none (Connect, spdyStream, proxyHandler).
ImplementsAttach == Attach!Spec

\* A sandbox that stays ready is at last neither unknown nor unready to anybody: the
\* informer catches up, and the lister shows what it has (SandboxInformer.Lister).
AcceptedAtLast ==
    \A n \in Names :
        <>[](sandboxes[n].ready)
        => <>[](\A r \in Requests :
                  requests[r].name = n => requests[r].result \notin {"NoSandbox", "NotReady"})
=============================================================================
