-------------------------- MODULE ApiServer_proofs --------------------------
(***************************************************************************)
(* Proofs about the API server for any number of sandboxes, requests and   *)
(* incarnations: what it tells of sandboxes, which workload a session      *)
(* reaches, and what becomes of the secrets that requests share.           *)
(***************************************************************************)
EXTENDS ApiServer, TLAPS

USE ConstantsAssumption

\* A process that has been wired has one informer, and serves once that has listed.
ServerInv ==
    /\ server.pc \in {"installed", "syncing", "serving"} => server.lister = 1 /\ server.controller = 1
    /\ server.pc = "serving" => stores[1].synced

\* The first sandbox of a name does not come back, and what a store does not show of
\* it has gone.
ClusterInv ==
    /\ \A n \in Names : born[n] >= 1
    /\ \A i \in Informers, n \in Names :
         stores[i].synced /\ stores[i].copies[n].uid = 0 => sandboxes[n].uid # 1
    /\ \A wl \in workloads : wl.name = FullName(wl.owner[1], wl.owner[2])

\* What a request has done so far, given the memory it shares and the sandboxes.
RequestInv(q, mem, sb) ==
    /\ q.pc = "load" => q.wrote = {}
    /\ q.pc = "store" => q.wrote \subseteq mem[q.secret] /\ q.wrote # Words
    /\ q.pc \in {"load", "store"} /\ q.secret = "ca" => "len" \in mem["token"]
    /\ q.pc \in {"lookup", "handle", "dial", "session"} => "len" \in mem["token"]
    /\ q.pc \in {"handle", "dial", "session"} =>
         /\ q.to.kind = q.copy.type /\ q.to.owner = <<q.name, q.copy.uid>>
         /\ q.to.name = FullName(q.name, q.copy.uid)
         /\ q.to.kind # "Pod" => q.ca = Words
    /\ q.pc \in {"dial", "session"} => q.token = Words
    /\ q.result = "NoSandbox" => q.name \in Names /\ sb[q.name].uid # 1

ApiInv ==
    /\ TypeOK /\ ServerInv /\ ClusterInv
    /\ \A r \in Requests : RequestInv(requests[r], memory, sandboxes)

-----------------------------------------------------------------------------
(* Types *)

\* The records that requests are made of are typed.
LEMMA PartsTyped ==
    /\ NoSandbox \in Sandboxes /\ Idle \in Requested /\ Idle.pc = "idle"
    /\ Unlisted \in [synced : BOOLEAN, running : BOOLEAN, copies : [Names -> Sandboxes]]
<1>1. NoSandbox \in Sandboxes
  BY DEF NoSandbox, Sandboxes, Incarnations, ConstantsAssumption
<1>2. QED BY <1>1 DEF Idle, Requested, Secrets, Unlisted

\* An answer is typed, and names what was asked for.
LEMMA AnswerTyped ==
    ASSUME NEW q \in Requested, q.name \in Names,
           NEW result \in {"NoSandbox", "Object", "NotReady", "Internal", "NoWorkload", "Panic",
                           "BadRequest"}
    PROVE  /\ Answer(q, result) \in Requested
           /\ Answer(q, result).pc = "answered" /\ Answer(q, result).result = result
           /\ Answer(q, result).name = q.name
BY PartsTyped DEF Answer, Requested, Idle

\* A request that has been given a typed new state keeps the state typed.
LEMMA BecomeTyped ==
    ASSUME TypeOK, NEW r \in Requests, NEW q \in Requested, q.pc # "idle" => q.name \in Names,
           Become(r, q), RequestStep, memory' \in [Secrets -> SUBSET Words]
    PROVE  TypeOK'
BY DEF TypeOK, Become, RequestStep, cluster

\* Users and the sandbox controller keep the types.
LEMMA ControllerTyped == ASSUME TypeOK, Controller PROVE TypeOK'
<1> USE DEF TypeOK, Others, process
<1>1. ASSUME NEW n \in Names, CreateSandbox(n) PROVE TypeOK'
  <2>1. born[n] + 1 \in Incarnations
    <3>1. born[n] \in 0..MaxIncarnations /\ born[n] < MaxIncarnations /\ MaxIncarnations \in Nat
      BY <1>1 DEF CreateSandbox, Incarnations, ConstantsAssumption
    <3>2. QED BY <3>1 DEF Incarnations
  <2>2. [NoSandbox EXCEPT !.uid = born[n] + 1] \in Sandboxes
    BY <2>1 DEF NoSandbox, Sandboxes
  <2>3. QED BY <1>1, <2>1, <2>2 DEF CreateSandbox
<1>2. ASSUME NEW n \in Names, DeleteSandbox(n) PROVE TypeOK'
  BY <1>2, PartsTyped DEF DeleteSandbox
<1>3. ASSUME NEW n \in Names, NEW t \in Types, MakeWorkload(n, t) PROVE TypeOK'
  <2> DEFINE wl == [name |-> FullName(n, sandboxes[n].uid), kind |-> t,
                    owner |-> <<n, sandboxes[n].uid>>]
  <2>1. sandboxes[n].uid \in Incarnations
    BY DEF Sandboxes
  <2>2. <<n, sandboxes[n].uid>> \in Owners
    BY <2>1 DEF Owners
  <2>3. \E o \in Owners : FullName(n, sandboxes[n].uid) = FullName(o[1], o[2])
    BY <2>2
  <2>4. wl \in Workloads
    BY <2>2, <2>3 DEF Workloads
  <2>5. sandboxes' \in [Names -> Sandboxes]
    <3>1. \A x \in Sandboxes : [x EXCEPT !.type = t] \in Sandboxes
      BY DEF Sandboxes
    <3>2. sandboxes' = [sandboxes EXCEPT ![n] = [sandboxes[n] EXCEPT !.type = t]]
      BY <1>3 DEF MakeWorkload
    <3>3. QED BY <3>1, <3>2
  <2>6. workloads' = workloads \cup {wl} /\ UNCHANGED born
    BY <1>3 DEF MakeWorkload
  <2> HIDE DEF wl
  <2>7. QED BY <1>3, <2>4, <2>5, <2>6 DEF MakeWorkload
<1>4. ASSUME NEW n \in Names, NEW ready \in BOOLEAN, ReportReady(n, ready) PROVE TypeOK'
  <2>1. \A x \in Sandboxes : [x EXCEPT !.ready = ready] \in Sandboxes
    BY DEF Sandboxes
  <2>2. sandboxes' = [sandboxes EXCEPT ![n] = [sandboxes[n] EXCEPT !.ready = ready]]
    BY <1>4 DEF ReportReady
  <2>3. sandboxes' \in [Names -> Sandboxes]
    BY <2>1, <2>2
  <2>4. QED BY <1>4, <2>3 DEF ReportReady
<1>5. ASSUME NEW wl \in workloads, LoseWorkload(wl) PROVE TypeOK'
  BY <1>5 DEF LoseWorkload
<1>6. QED BY <1>1, <1>2, <1>3, <1>4, <1>5 DEF Controller

\* What a store may hold.
Listing == [synced : BOOLEAN, running : BOOLEAN, copies : [Names -> Sandboxes]]

\* A store that takes over copies is typed.
LEMMA ListingTyped ==
    ASSUME NEW x \in Listing, NEW copies \in [Names -> Sandboxes]
    PROVE  /\ [x EXCEPT !.synced = TRUE, !.copies = copies] \in Listing
           /\ [x EXCEPT !.copies = copies] \in Listing
BY DEF Listing

\* So do the start of the process, its informers and its end.
LEMMA ProcessTyped ==
    ASSUME TypeOK, Start \/ Restart \/ \E i \in Informers : Informer(i) PROVE TypeOK'
<1> USE DEF TypeOK, cluster
<1>1. Stopped.pc = "stopped" /\ Stopped \in
        [pc : {"stopped", "failed", "configured", "installed", "syncing", "serving"},
         lister : Informers, controller : Informers, gates : SUBSET Gated]
  BY DEF Stopped, Informers
<1>2. CASE Configure
  <2>1. ASSUME NEW account \in BOOLEAN, NEW g \in GateSets
        PROVE  [Stopped EXCEPT !.pc = IF account THEN "configured" ELSE "failed", !.gates = g] \in
        [pc : {"stopped", "failed", "configured", "installed", "syncing", "serving"},
         lister : Informers, controller : Informers, gates : SUBSET Gated]
    BY <1>1 DEF ConstantsAssumption
  <2>2. QED BY <1>2, <2>1 DEF Configure
<1>3. CASE Complete \/ Serve
  <2>1. InformerFor(NewFactory) = 1 /\ InformerFor(1) = 1 /\ 1 \in Informers
    BY DEF NewFactory, InformerFor, Informers
  <2>2. \/ server' = [server EXCEPT !.pc = "installed", !.lister = 1, !.controller = 1]
        \/ server' = [server EXCEPT !.pc = "failed"]
        \/ server' = [server EXCEPT !.pc = "serving"]
    BY <1>3, <2>1 DEF Complete, Install, Serve, Stage
  <2>3. server' \in
        [pc : {"stopped", "failed", "configured", "installed", "syncing", "serving"},
         lister : Informers, controller : Informers, gates : SUBSET Gated]
    BY <2>1, <2>2
  <2>4. QED BY <1>3, <2>3 DEF Complete, Install, Serve
<1>4. CASE StartInformer
  <2>1. server' \in
        [pc : {"stopped", "failed", "configured", "installed", "syncing", "serving"},
         lister : Informers, controller : Informers, gates : SUBSET Gated]
    BY <1>4 DEF StartInformer, Stage
  <2>2. stores' = [stores EXCEPT ![server.controller] = [@ EXCEPT !.running = TRUE]]
    BY <1>4 DEF StartInformer
  <2>3. stores' \in [Informers -> [synced : BOOLEAN, running : BOOLEAN,
                                   copies : [Names -> Sandboxes]]]
    BY <2>2
  <2>4. QED BY <1>4, <2>1, <2>3 DEF StartInformer
<1>5. ASSUME NEW i \in Informers, Informer(i) PROVE TypeOK'
  <2>1. stores \in [Informers -> Listing] /\ sandboxes \in [Names -> Sandboxes]
    BY DEF Listing
  <2>2. CASE List(i)
    <3>1. [stores[i] EXCEPT !.synced = TRUE, !.copies = sandboxes] \in Listing
      BY <2>1, ListingTyped
    <3>2. stores' = [stores EXCEPT ![i] = [stores[i] EXCEPT !.synced = TRUE, !.copies = sandboxes]]
      BY <2>2 DEF List
    <3>3. stores' \in [Informers -> Listing]
      BY <2>1, <3>1, <3>2
    <3>4. QED BY <2>2, <3>3 DEF List, Listing
  <2>3. ASSUME NEW n \in Names, Watch(i, n) PROVE TypeOK'
    <3> DEFINE copies == [stores[i].copies EXCEPT ![n] = sandboxes[n]]
    <3>1. copies \in [Names -> Sandboxes]
      BY <2>1
    <3>2. stores' = [stores EXCEPT ![i] = [stores[i] EXCEPT !.copies = copies]]
      BY <2>3 DEF Watch
    <3> HIDE DEF copies
    <3>3. [stores[i] EXCEPT !.copies = copies] \in Listing
      BY <2>1, <3>1, ListingTyped
    <3>4. stores' \in [Informers -> Listing]
      BY <2>1, <3>2, <3>3
    <3>5. QED BY <2>3, <3>4 DEF Watch, Listing
  <2>4. QED BY <1>5, <2>2, <2>3 DEF Informer
<1>6. CASE Restart
  BY <1>1, <1>6, PartsTyped DEF Restart
<1>7. QED BY <1>2, <1>3, <1>4, <1>5, <1>6 DEF Start

\* Every step of a request leaves a typed request, which names a sandbox if it is
\* under way.
LEMMA RequestTyped == ASSUME TypeOK, NEW r \in Requests, Request(r) PROVE TypeOK'
<1> DEFINE q == requests[r]
           Good(x) == x \in Requested /\ (x.pc # "idle" => x.name \in Names)
<1>1. Good(q) /\ memory \in [Secrets -> SUBSET Words] /\ server.lister \in Informers
  BY DEF TypeOK
<1>2. ASSUME NEW x, Good(x), Become(r, x), RequestStep, memory' \in [Secrets -> SUBSET Words]
      PROVE  TypeOK'
  BY <1>2, BecomeTyped
<1>3. ASSUME NEW x \in Requested, x.name \in Names,
             NEW result \in {"NoSandbox", "Object", "NotReady", "Internal", "NoWorkload", "Panic",
                             "BadRequest"}
      PROVE  Good(Answer(x, result))
  BY <1>3, AnswerTyped
<1>4. q.name \in Names => Good(Loaded(q))
  BY <1>1 DEF Loaded, Requested, Secrets
<1>5. ASSUME NEW n \in Names, Get(r, n) \/ Connect(r, n) PROVE TypeOK'
  <2> DEFINE copy == stores[server.lister].copies[n]
             x == [Idle EXCEPT !.name = n, !.copy = copy]
  <2>1. copy \in Sandboxes
    BY <1>1 DEF TypeOK
  <2>2. x \in Requested /\ x.name = n
    BY <2>1, PartsTyped DEF Requested, Idle
  <2>3. Good([x EXCEPT !.pc = "load"])
    BY <2>2 DEF Requested
  <2>4. \/ \E result \in {"NoSandbox", "Object", "NotReady"} : Become(r, Answer(x, result))
        \/ Become(r, [x EXCEPT !.pc = "load"])
    BY <1>5 DEF Listed, Get, Connect
  <2>5. UNCHANGED memory /\ RequestStep
    BY <1>5 DEF Listed, Get, Connect
  <2> HIDE DEF x
  <2>6. QED BY <1>1, <1>2, <1>3, <2>2, <2>3, <2>4, <2>5
<1>6. CASE Load(r)
  <2>1. Good([q EXCEPT !.pc = "store"]) /\ q.name \in Names
    BY <1>1, <1>6 DEF Load, Requested
  <2>2. /\ \/ Become(r, [q EXCEPT !.pc = "store"]) \/ Become(r, Answer(q, "Internal"))
           \/ Become(r, Loaded(q))
        /\ UNCHANGED memory /\ RequestStep
    BY <1>6 DEF Load
  <2> HIDE DEF Good
  <2>3. QED BY <1>1, <1>2, <1>3, <1>4, <2>1, <2>2 DEF Good
<1>7. ASSUME NEW word \in Words, Store(r, word) PROVE TypeOK'
  <2>1. /\ q.name \in Names /\ q.secret \in Secrets
        /\ Good([q EXCEPT !.wrote = q.wrote \cup {word}])
    BY <1>1, <1>7 DEF Store, Requested
  <2>2. memory' \in [Secrets -> SUBSET Words]
    BY <1>1, <1>7, <2>1 DEF Store
  <2>3. /\ Become(r, Loaded(q)) \/ Become(r, [q EXCEPT !.wrote = q.wrote \cup {word}])
        /\ RequestStep
    BY <1>7 DEF Store
  <2> HIDE DEF Good
  <2>4. QED BY <1>2, <1>4, <2>1, <2>2, <2>3
<1>8. CASE Lookup(r)
  <2> DEFINE found == Found(q.copy.type, FullName(q.name, q.copy.uid))
             wl == CHOOSE wl \in found : TRUE
             x == [q EXCEPT !.to = wl]
  <2>1. q.name \in Names
    BY <1>1, <1>8 DEF Lookup
  <2>2. ASSUME found # {}
        PROVE  x \in Requested /\ x.name = q.name /\ Good([x EXCEPT !.pc = "handle"])
    <3>1. wl \in Workloads
      BY <2>2 DEF TypeOK, Found
    <3> HIDE DEF wl
    <3>2. QED BY <1>1, <2>1, <3>1 DEF Requested
  <2>3. found # {} => Good([x EXCEPT !.pc = "handle", !.ca = memory["ca"]])
    <3>1. memory["ca"] \in SUBSET Words
      BY <1>1 DEF Secrets
    <3> HIDE DEF wl
    <3>2. QED BY <2>1, <2>2, <3>1 DEF Requested
  <2>4. /\ \/ \E result \in {"Internal", "NoWorkload"} : Become(r, Answer(q, result))
           \/ /\ found # {}
              /\ \/ Become(r, [x EXCEPT !.pc = "handle"])
                 \/ Become(r, [x EXCEPT !.pc = "handle", !.ca = memory["ca"]])
                 \/ \E result \in {"Internal", "Panic"} : Become(r, Answer(x, result))
        /\ UNCHANGED memory /\ RequestStep
    BY <1>8 DEF Lookup, Transport
  <2> HIDE DEF x, found
  <2>5. QED BY <1>1, <1>2, <1>3, <2>1, <2>2, <2>3, <2>4
<1>9. CASE Handle(r)
  <2> DEFINE x == [q EXCEPT !.token = memory["token"]]
  <2>1. x \in Requested /\ x.name \in Names /\ Good([x EXCEPT !.pc = "dial"])
    <3>1. memory["token"] \in SUBSET Words
      BY <1>1 DEF Secrets
    <3>2. QED BY <1>1, <1>9, <3>1 DEF Handle, Requested
  <2>2. /\ \/ \E result \in {"Panic", "BadRequest"} : Become(r, Answer(x, result))
           \/ Become(r, [x EXCEPT !.pc = "dial"])
        /\ UNCHANGED memory /\ RequestStep
    BY <1>9 DEF Handle
  <2> HIDE DEF x
  <2>3. QED BY <1>1, <1>2, <1>3, <2>1, <2>2
<1>10. CASE Dial(r)
  <2> DEFINE found == Found(q.to.kind, q.to.name)
             wl == CHOOSE wl \in found : TRUE
  <2>1. q.name \in Names
    BY <1>1, <1>10 DEF Dial
  <2>2. found # {} => Good([q EXCEPT !.pc = "session", !.to = wl])
    <3>1. found # {} => wl \in Workloads
      BY DEF TypeOK, Found
    <3> HIDE DEF wl
    <3>2. QED BY <1>1, <2>1, <3>1 DEF Requested
  <2>3. /\ \/ \E result \in {"Internal", "NoWorkload"} : Become(r, Answer(q, result))
           \/ found # {} /\ Become(r, [q EXCEPT !.pc = "session", !.to = wl])
        /\ UNCHANGED memory /\ RequestStep
    BY <1>10 DEF Dial
  <2> HIDE DEF found, wl
  <2>4. QED BY <1>1, <1>2, <1>3, <2>1, <2>2, <2>3
<1>11. CASE Leave(r)
  BY <1>1, <1>2, <1>11, PartsTyped DEF Leave
<1>12. QED BY <1>5, <1>6, <1>7, <1>8, <1>9, <1>10, <1>11 DEF Request, Advance

\* Every variable of the API server keeps its type.
THEOREM TypeCorrect == Spec => []TypeOK
<1>1. Init => TypeOK
  <2>1. 1 \in Incarnations
    BY DEF Incarnations, ConstantsAssumption
  <2>2. [NoSandbox EXCEPT !.uid = 1] \in Sandboxes
    BY <2>1 DEF NoSandbox, Sandboxes
  <2>3. QED BY <2>1, <2>2, PartsTyped DEF Init, TypeOK, Stopped, Informers
<1>2. TypeOK /\ [Next]_vars => TypeOK'
  <2>1. ASSUME TypeOK, UNCHANGED vars PROVE TypeOK'
    BY <2>1 DEF TypeOK, vars, cluster, process
  <2>2. QED BY <2>1, ControllerTyped, ProcessTyped, RequestTyped DEF Next
<1>3. QED BY <1>1, <1>2, PTL DEF Spec

-----------------------------------------------------------------------------
(* The invariant *)

\* The names of children tell incarnations apart.
LEMMA NamesApart ==
    \A n, u, m, v : FullName(n, u) = FullName(m, v) => n = m /\ u = v
BY DEF FullName

\* A request keeps what it has when memory grows and no first sandbox comes back.
LEMMA Grows ==
    ASSUME NEW q \in Requested, NEW mem, NEW mem2, NEW sb, NEW sb2,
           RequestInv(q, mem, sb),
           \A s \in Secrets : mem[s] \subseteq mem2[s],
           \A n \in Names : sb[n].uid # 1 => sb2[n].uid # 1
    PROVE  RequestInv(q, mem2, sb2)
BY DEF RequestInv, Requested, Secrets

\* A request that is idle, or answered with anything but that there is no sandbox,
\* has nothing to keep.
LEMMA NothingKept ==
    ASSUME NEW q \in Requested, q.pc \in {"idle", "answered"}, q.result # "NoSandbox", NEW mem, NEW sb
    PROVE  RequestInv(q, mem, sb)
BY DEF RequestInv

\* Starting an informer changes nothing of what the stores hold, and what a store comes
\* to hold it takes from the cluster.
LEMMA StoresFollow ==
    ASSUME TypeOK
    PROVE  /\ StartInformer => \A i \in Informers :
                stores'[i].synced = stores[i].synced /\ stores'[i].copies = stores[i].copies
           /\ \A j \in Informers : Informer(j) => \A i \in Informers, n \in Names :
                /\ stores[i].synced => stores'[i].synced
                /\ \/ stores'[i].synced = stores[i].synced
                      /\ stores'[i].copies[n] = stores[i].copies[n]
                   \/ stores'[i].copies[n] = sandboxes[n]
<1>1. stores \in [Informers -> Listing] /\ server.controller \in Informers
  BY DEF TypeOK, Listing
<1>2. ASSUME StartInformer, NEW i \in Informers
      PROVE  stores'[i].synced = stores[i].synced /\ stores'[i].copies = stores[i].copies
  <2>1. stores' = [stores EXCEPT ![server.controller] = [stores[server.controller] EXCEPT !.running = TRUE]]
    BY <1>2 DEF StartInformer
  <2>2. \A x \in Listing : [x EXCEPT !.running = TRUE].synced = x.synced
                           /\ [x EXCEPT !.running = TRUE].copies = x.copies
    BY DEF Listing
  <2>3. QED BY <1>1, <2>1, <2>2
<1>3. ASSUME NEW j \in Informers, List(j), NEW i \in Informers, NEW n \in Names
      PROVE  /\ stores[i].synced => stores'[i].synced
             /\ \/ stores'[i].synced = stores[i].synced /\ stores'[i].copies[n] = stores[i].copies[n]
                \/ stores'[i].copies[n] = sandboxes[n]
  <2>1. stores' = [stores EXCEPT ![j] = [stores[j] EXCEPT !.synced = TRUE, !.copies = sandboxes]]
    BY <1>3 DEF List
  <2>2. \A x \in Listing : [x EXCEPT !.synced = TRUE, !.copies = sandboxes].synced
                           /\ [x EXCEPT !.synced = TRUE, !.copies = sandboxes].copies = sandboxes
    BY DEF Listing
  <2>3. CASE i = j
    BY <1>1, <2>1, <2>2, <2>3
  <2>4. CASE i # j
    BY <1>1, <2>1, <2>4
  <2>5. QED BY <2>3, <2>4
<1>4. ASSUME NEW j \in Informers, NEW m \in Names, Watch(j, m), NEW i \in Informers, NEW n \in Names
      PROVE  /\ stores[i].synced => stores'[i].synced
             /\ \/ stores'[i].synced = stores[i].synced /\ stores'[i].copies[n] = stores[i].copies[n]
                \/ stores'[i].copies[n] = sandboxes[n]
  <2> DEFINE copies == [stores[j].copies EXCEPT ![m] = sandboxes[m]]
  <2>1. stores' = [stores EXCEPT ![j] = [stores[j] EXCEPT !.copies = copies]]
    BY <1>4 DEF Watch
  <2>2. copies[n] \in {stores[j].copies[n], sandboxes[n]}
    BY <1>1 DEF Listing
  <2> HIDE DEF copies
  <2>3. \A x \in Listing : [x EXCEPT !.copies = copies].synced = x.synced
                           /\ [x EXCEPT !.copies = copies].copies = copies
    BY DEF Listing
  <2>4. CASE i = j
    BY <1>1, <2>1, <2>2, <2>3, <2>4
  <2>5. CASE i # j
    BY <1>1, <2>1, <2>5
  <2>6. QED BY <2>4, <2>5
<1>5. QED BY <1>2, <1>3, <1>4 DEF Informer

\* The sandboxes, the workloads and the stores.
LEMMA ClusterKept == ASSUME ApiInv, TypeOK', Next PROVE ClusterInv'
<1>1. ASSUME NEW n \in Names
      PROVE  /\ born[n] \in Nat /\ born[n] >= 1 /\ sandboxes[n].uid \in Nat
             /\ NoSandbox.uid # 1
  BY DEF ApiInv, TypeOK, ClusterInv, Incarnations, Sandboxes, NoSandbox
<1>2. /\ sandboxes \in [Names -> Sandboxes] /\ born \in [Names -> Incarnations]
      /\ stores \in [Informers -> [synced : BOOLEAN, running : BOOLEAN, copies : [Names -> Sandboxes]]]
  BY DEF ApiInv, TypeOK
<1>3. ASSUME \A n \in Names : sandboxes[n].uid # 1 => sandboxes'[n].uid # 1,
             \A n \in Names : born'[n] >= 1, UNCHANGED stores,
             \A wl \in workloads' : wl.name = FullName(wl.owner[1], wl.owner[2])
      PROVE  ClusterInv'
  BY <1>3 DEF ApiInv, ClusterInv
<1>4. \A wl \in workloads : wl.name = FullName(wl.owner[1], wl.owner[2])
  BY DEF ApiInv, ClusterInv
<1>5. ASSUME NEW n \in Names, CreateSandbox(n) PROVE ClusterInv'
  <2>1. [NoSandbox EXCEPT !.uid = born[n] + 1].uid # 1
    BY <1>1 DEF NoSandbox
  <2>2. \A m \in Names : sandboxes[m].uid # 1 => sandboxes'[m].uid # 1
    BY <1>2, <1>5, <2>1 DEF CreateSandbox
  <2>3. \A m \in Names : born'[m] >= 1
    BY <1>1, <1>2, <1>5 DEF CreateSandbox
  <2>4. QED BY <1>3, <1>4, <1>5, <2>2, <2>3 DEF CreateSandbox, Others, process
<1>6. ASSUME NEW n \in Names, DeleteSandbox(n) PROVE ClusterInv'
  BY <1>1, <1>2, <1>3, <1>4, <1>6 DEF DeleteSandbox, Others, process
<1>7. ASSUME NEW n \in Names, NEW t \in Types, MakeWorkload(n, t) PROVE ClusterInv'
  <2>1. \A m \in Names : sandboxes'[m].uid = sandboxes[m].uid
    BY <1>2, <1>7 DEF MakeWorkload, Sandboxes
  <2>2. \A wl \in workloads' : wl.name = FullName(wl.owner[1], wl.owner[2])
    BY <1>4, <1>7 DEF MakeWorkload
  <2>3. QED BY <1>1, <1>3, <1>7, <2>1, <2>2 DEF MakeWorkload, Others, process
<1>8. ASSUME NEW n \in Names, NEW ready \in BOOLEAN, ReportReady(n, ready) PROVE ClusterInv'
  <2>1. \A m \in Names : sandboxes'[m].uid = sandboxes[m].uid
    BY <1>2, <1>8 DEF ReportReady, Sandboxes
  <2>2. QED BY <1>1, <1>3, <1>4, <1>8, <2>1 DEF ReportReady, Others, process
<1>9. ASSUME NEW wl \in workloads, LoseWorkload(wl) PROVE ClusterInv'
  BY <1>1, <1>3, <1>4, <1>9 DEF LoseWorkload, Others, process
<1>10. CASE Start \/ \E r \in Requests : Request(r)
  <2>1. UNCHANGED cluster
    BY <1>10 DEF Start, Configure, Complete, Install, StartInformer, Serve, Request, Advance, Get, Connect,
       Load, Store, Lookup, Handle, Dial, Leave, RequestStep
  <2>2. \A i \in Informers : stores'[i].synced = stores[i].synced /\ stores'[i].copies = stores[i].copies
    <3>1. UNCHANGED stores \/ StartInformer
      BY <1>10 DEF Start, Configure, Complete, Install, Serve, Request, Advance, Get, Connect, Load, Store,
         Lookup, Handle, Dial, Leave, RequestStep
    <3>2. QED BY <3>1, StoresFollow DEF ApiInv
  <2>3. QED BY <2>1, <2>2 DEF ApiInv, ClusterInv, cluster
<1>11. ASSUME NEW i \in Informers, Informer(i) PROVE ClusterInv'
  <2>1. UNCHANGED cluster
    BY <1>11 DEF Informer, List, Watch
  <2>2. \A j \in Informers, n \in Names :
           \/ stores'[j].synced = stores[j].synced /\ stores'[j].copies[n] = stores[j].copies[n]
           \/ stores'[j].copies[n] = sandboxes[n]
    BY <1>11, StoresFollow DEF ApiInv
  <2>3. QED BY <1>1, <2>1, <2>2 DEF ApiInv, ClusterInv, cluster
<1>12. CASE Restart
  BY <1>12 DEF Restart, ApiInv, ClusterInv, cluster, Unlisted
<1>13. QED BY <1>5, <1>6, <1>7, <1>8, <1>9, <1>10, <1>11, <1>12 DEF Next, Controller

\* The process and its one informer.
LEMMA ServerKept == ASSUME ApiInv, Next PROVE ServerInv'
<1>1. /\ server.pc \in {"stopped", "failed", "configured", "installed", "syncing", "serving"}
      /\ server \in [pc : {"stopped", "failed", "configured", "installed", "syncing", "serving"},
                     lister : Informers, controller : Informers, gates : SUBSET Gated]
      /\ stores \in [Informers -> Listing] /\ 1 \in Informers
  BY DEF ApiInv, TypeOK, Listing, Informers
<1>2. ServerInv
  BY DEF ApiInv
<1>3. CASE Controller \/ \E r \in Requests : Request(r)
  <2>1. UNCHANGED <<server, stores>>
    BY <1>3 DEF Controller, CreateSandbox, DeleteSandbox, MakeWorkload, ReportReady, LoseWorkload,
       Others, process, Request, Advance, Get, Connect, Load, Store, Lookup, Handle, Dial, Leave,
       RequestStep
  <2>2. QED BY <1>2, <2>1 DEF ServerInv
<1>4. CASE Configure
  <2>1. server'.pc \in {"configured", "failed"}
    BY <1>4 DEF Configure, Stopped
  <2>2. QED BY <2>1 DEF ServerInv
<1>5. CASE Complete
  <2>1. server'.pc = "failed" \/ (server'.pc = "installed" /\ server'.lister = 1 /\ server'.controller = 1)
    <3>1. InformerFor(NewFactory) = 1 /\ InformerFor(1) = 1
      BY DEF NewFactory, InformerFor
    <3>2. server' = [server EXCEPT !.pc = "failed"]
          \/ server' = [server EXCEPT !.pc = "installed", !.lister = 1, !.controller = 1]
      BY <1>5, <3>1 DEF Complete, Install, Stage
    <3>3. QED BY <1>1, <3>2
  <2>2. QED BY <2>1 DEF ServerInv
<1>6. CASE StartInformer \/ Serve
  <2>1. server.pc \in {"installed", "syncing"}
    BY <1>6 DEF StartInformer, Serve
  <2>2. server'.lister = 1 /\ server'.controller = 1
    BY <1>1, <1>2, <1>6, <2>1 DEF StartInformer, Serve, Stage, ServerInv
  <2>3. server'.pc = "syncing" \/ (server'.pc = "serving" /\ stores'[1].synced)
    BY <1>1, <1>2, <1>6 DEF StartInformer, Serve, Stage, CacheSynced, ServerInv
  <2>4. QED BY <2>2, <2>3 DEF ServerInv
<1>7. ASSUME NEW i \in Informers, Informer(i) PROVE ServerInv'
  <2>1. UNCHANGED server
    BY <1>7 DEF Informer, List, Watch
  <2>2. stores[1].synced => stores'[1].synced
    <3>1. CASE Names = {}
      BY <1>1, <1>7, <3>1 DEF Informer, List, Watch, Listing
    <3>2. CASE Names # {}
      BY <1>1, <1>7, <3>2, StoresFollow DEF ApiInv
    <3>3. QED BY <3>1, <3>2
  <2>3. QED BY <1>2, <2>1, <2>2 DEF ServerInv
<1>8. CASE Restart
  BY <1>8 DEF Restart, Stopped, ServerInv
<1>9. QED BY <1>3, <1>4, <1>5, <1>6, <1>7, <1>8 DEF Next, Start

\* A step of a request lets its memory grow and leaves the cluster and the others alone.
LEMMA RequestFrame ==
    ASSUME ApiInv, NEW r \in Requests, Request(r)
    PROVE  /\ UNCHANGED <<cluster, server, stores>>
           /\ \A s \in Secrets : memory[s] \subseteq memory'[s]
           /\ \A p \in Requests \ {r} : requests'[p] = requests[p]
           /\ requests[r] \in Requested /\ memory \in [Secrets -> SUBSET Words]
           /\ \A q : Become(r, q) => requests'[r] = q
<1>1. requests[r] \in Requested /\ requests \in [Requests -> Requested]
      /\ memory \in [Secrets -> SUBSET Words]
  BY DEF ApiInv, TypeOK
<1>2. /\ UNCHANGED <<cluster, server, stores>>
      /\ \E q : Become(r, q)
      /\ UNCHANGED memory \/ \E word \in Words : Store(r, word)
  BY DEF Request, Advance, Get, Connect, Load, Store, Lookup, Handle, Dial, Leave, RequestStep
<1>3. ASSUME NEW word \in Words, Store(r, word), NEW s \in Secrets
      PROVE  memory[s] \subseteq memory'[s]
  BY <1>1, <1>3 DEF Store
<1>4. QED BY <1>1, <1>2, <1>3 DEF Become

\* A request that looks its sandbox up: the one it does not find has not been there
\* from the start.
LEMMA LookedUp ==
    ASSUME ApiInv, NEW r \in Requests, NEW n \in Names, Get(r, n) \/ Connect(r, n)
    PROVE  RequestInv(requests'[r], memory', sandboxes')
<1> DEFINE copy == stores[server.lister].copies[n]
           x == [Idle EXCEPT !.name = n, !.copy = copy]
<1>1. /\ requests'[r] = IF copy.uid = 0 THEN Answer(x, "NoSandbox") ELSE requests'[r]
      /\ copy.uid # 0 => \/ requests'[r] \in {Answer(x, "Object"), Answer(x, "NotReady")}
                         \/ requests'[r] = [x EXCEPT !.pc = "load"]
      /\ UNCHANGED <<cluster, memory>>
  BY DEF Listed, Get, Connect, Become, RequestStep, ApiInv, TypeOK
<1>2. copy.uid = 0 => sandboxes[n].uid # 1
  BY DEF Listed, Get, Connect, ApiInv, ServerInv, ClusterInv, Informers
<1>3. CASE copy.uid = 0
  BY <1>1, <1>2, <1>3 DEF RequestInv, Answer, Idle, cluster
<1>4. CASE requests'[r] \in {Answer(x, "Object"), Answer(x, "NotReady")}
  BY <1>4 DEF RequestInv, Answer, Idle
<1>5. CASE requests'[r] = [x EXCEPT !.pc = "load"]
  BY <1>5 DEF RequestInv, Idle
<1>6. QED BY <1>1, <1>3, <1>4, <1>5

\* A request that is past a secret has its length, which nobody takes back.
LEMMA PastSecret ==
    ASSUME NEW q \in Requested, q.pc \in {"load", "store"}, NEW mem, NEW mem2, NEW sb,
           RequestInv(q, mem, sb), \A s \in Secrets : mem[s] \subseteq mem2[s],
           "len" \in mem2[q.secret]
    PROVE  RequestInv(Loaded(q), mem2, sb)
<1>1. CASE q.secret = "token"
  BY <1>1 DEF RequestInv, Loaded, Requested
<1>2. CASE q.secret # "token"
  <2>1. q.secret = "ca"
    BY <1>2 DEF Requested, Secrets
  <2>2. "len" \in mem2["token"]
    BY <2>1 DEF RequestInv, Secrets
  <2>3. QED BY <2>1, <2>2 DEF RequestInv, Loaded, Requested
<1>3. QED BY <1>1, <1>2

\* A request that loads a secret, or stores a word of it.
LEMMA LoadedWell ==
    ASSUME ApiInv, NEW r \in Requests, Load(r) \/ \E word \in Words : Store(r, word)
    PROVE  RequestInv(requests'[r], memory', sandboxes')
<1> DEFINE q == requests[r]
<1>1. /\ RequestInv(q, memory, sandboxes) /\ q.name \in Names /\ q.pc \in {"load", "store"}
      /\ q.result # "NoSandbox" \/ sandboxes[q.name].uid # 1
  BY DEF ApiInv, TypeOK, Load, Store, RequestInv
<1>2. /\ UNCHANGED cluster /\ q \in Requested /\ memory \in [Secrets -> SUBSET Words]
      /\ \A s \in Secrets : memory[s] \subseteq memory'[s]
      /\ \A x : Become(r, x) => requests'[r] = x
  BY RequestFrame DEF Request, Advance
<1>3. UNCHANGED sandboxes /\ q.secret \in Secrets
  BY <1>2 DEF cluster, Requested
<1>4. CASE Load(r)
  <2>1. \/ requests'[r] = [q EXCEPT !.pc = "store"] /\ q.pc = "load"
        \/ requests'[r] = Answer(q, "Internal")
        \/ requests'[r] = Loaded(q) /\ "len" \in memory[q.secret]
    BY <1>2, <1>4 DEF Load, IsEmpty
  <2>2. UNCHANGED memory
    BY <1>4 DEF Load
  <2>3. CASE requests'[r] = [q EXCEPT !.pc = "store"] /\ q.pc = "load"
    <3>1. q.wrote = {}
      BY <1>1, <2>3 DEF RequestInv
    <3>2. QED BY <1>1, <1>2, <1>3, <2>2, <2>3, <3>1 DEF RequestInv, Requested, Words
  <2>4. CASE requests'[r] = Answer(q, "Internal")
    BY <2>4 DEF RequestInv, Answer, Idle
  <2>5. QED BY <1>1, <1>2, <1>3, <2>1, <2>2, <2>3, <2>4, PastSecret
<1>5. ASSUME NEW word \in Words, Store(r, word)
      PROVE  RequestInv(requests'[r], memory', sandboxes')
  <2> DEFINE wrote == q.wrote \cup {word}
  <2>1. /\ requests'[r] = IF wrote = Words THEN Loaded(q) ELSE [q EXCEPT !.wrote = wrote]
        /\ memory'[q.secret] = memory[q.secret] \cup {word}
    BY <1>2, <1>3, <1>5 DEF Store
  <2>2. wrote \subseteq memory'[q.secret]
    BY <1>1, <1>5, <2>1 DEF Store, RequestInv
  <2>3. CASE wrote = Words
    BY <1>1, <1>2, <1>3, <2>1, <2>2, <2>3, PastSecret DEF Words
  <2>4. CASE wrote # Words
    <3>1. q.secret = "ca" => "len" \in memory'["token"]
      BY <1>1, <1>2 DEF RequestInv, Secrets
    <3>2. requests'[r] = [q EXCEPT !.wrote = wrote] /\ q.pc = "store"
      BY <1>5, <2>1, <2>4 DEF Store
    <3> HIDE DEF wrote
    <3>3. QED BY <1>1, <1>2, <1>3, <2>2, <2>4, <3>1, <3>2 DEF RequestInv, Requested
  <2>5. QED BY <2>3, <2>4
<1>6. QED BY <1>4, <1>5

\* A request that looks its workload up has found that of the sandbox it saw.
LEMMA FoundOwn ==
    ASSUME ApiInv, NEW kind, NEW n, NEW u, Found(kind, FullName(n, u)) # {}
    PROVE  LET wl == CHOOSE wl \in Found(kind, FullName(n, u)) : TRUE
           IN  wl.kind = kind /\ wl.owner = <<n, u>> /\ wl.name = FullName(n, u)
<1> DEFINE wl == CHOOSE wl \in Found(kind, FullName(n, u)) : TRUE
<1>1. wl \in workloads /\ wl.kind = kind /\ wl.name = FullName(n, u)
  BY DEF Found
<1>2. wl.name = FullName(wl.owner[1], wl.owner[2]) /\ wl \in Workloads
  BY <1>1 DEF ApiInv, ClusterInv, TypeOK
<1>3. wl.owner \in Owners
  BY <1>2 DEF Workloads
<1> HIDE DEF wl
<1>4. wl.owner[1] = n /\ wl.owner[2] = u
  <2>1. FullName(wl.owner[1], wl.owner[2]) = FullName(n, u)
    BY <1>1, <1>2
  <2>2. QED BY <2>1, NamesApart
<1>5. wl.owner = <<n, u>>
  BY <1>3, <1>4 DEF Owners
<1>6. QED BY <1>1, <1>5 DEF wl

\* Memory that is neither empty nor torn is whole.
LEMMA WholeMemory ==
    ASSUME NEW words \in SUBSET Words, ~IsEmpty(words), ~IsTorn(words) PROVE words = Words
BY DEF IsEmpty, IsTorn, Words

\* A request that looks its workload up, and makes a transport with the CA.
LEMMA FoundWell ==
    ASSUME ApiInv, NEW r \in Requests, Lookup(r)
    PROVE  RequestInv(requests'[r], memory', sandboxes')
<1> DEFINE q == requests[r]
           found == Found(q.copy.type, FullName(q.name, q.copy.uid))
           wl == CHOOSE wl \in found : TRUE
           p == [q EXCEPT !.to = wl]
           made == [p EXCEPT !.pc = "handle", !.ca = memory["ca"]]
<1>1. /\ RequestInv(q, memory, sandboxes) /\ q \in Requested /\ q.pc = "lookup"
      /\ UNCHANGED memory /\ UNCHANGED sandboxes /\ memory["ca"] \in SUBSET Words
      /\ \A x : Become(r, x) => requests'[r] = x
  BY RequestFrame DEF Request, Advance, Lookup, ApiInv, cluster, Secrets
<1>2. \/ \E x : \E result \in {"Internal", "NoWorkload", "Panic"} : requests'[r] = Answer(x, result)
      \/ /\ found # {}
         /\ \/ requests'[r] = [p EXCEPT !.pc = "handle"] /\ q.copy.type = "Pod"
            \/ requests'[r] = made /\ ~IsEmpty(memory["ca"]) /\ ~IsTorn(memory["ca"])
  <2> HIDE DEF found, p, made
  <2>1. Transport(p, memory["ca"]) \in {Answer(p, "Internal"), Answer(p, "Panic")}
        \/ (Transport(p, memory["ca"]) = made /\ ~IsEmpty(memory["ca"]) /\ ~IsTorn(memory["ca"]))
    BY DEF Transport, made
  <2>2. \/ Become(r, Answer(q, "Internal")) \/ Become(r, Answer(q, "NoWorkload"))
        \/ /\ found # {}
           /\ \/ Become(r, [p EXCEPT !.pc = "handle"]) /\ q.copy.type = "Pod"
              \/ Become(r, Transport(p, memory["ca"]))
    BY DEF Lookup, found, p
  <2>3. \/ requests'[r] = Answer(q, "Internal") \/ requests'[r] = Answer(q, "NoWorkload")
        \/ /\ found # {}
           /\ \/ requests'[r] = [p EXCEPT !.pc = "handle"] /\ q.copy.type = "Pod"
              \/ requests'[r] = Transport(p, memory["ca"])
    BY <1>1, <2>2, Zenon
  <2>4. QED BY <2>1, <2>3
<1>3. found # {} => wl.kind = q.copy.type /\ wl.owner = <<q.name, q.copy.uid>>
                    /\ wl.name = FullName(q.name, q.copy.uid)
  BY FoundOwn
<1> HIDE DEF wl, found
<1>4. CASE \E x : \E result \in {"Internal", "NoWorkload", "Panic"} : requests'[r] = Answer(x, result)
  BY <1>4 DEF RequestInv, Answer, Idle
<1>5. CASE found # {} /\ requests'[r] = [p EXCEPT !.pc = "handle"] /\ q.copy.type = "Pod"
  BY <1>1, <1>3, <1>5 DEF RequestInv, Requested
<1>6. CASE /\ found # {} /\ requests'[r] = made
           /\ ~IsEmpty(memory["ca"]) /\ ~IsTorn(memory["ca"])
  <2>1. memory["ca"] = Words
    BY <1>1, <1>6, WholeMemory
  <2>2. QED BY <1>1, <1>3, <1>6, <2>1 DEF RequestInv, Requested
<1>7. QED BY <1>2, <1>4, <1>5, <1>6

\* A request whose handler reads the token, dials the workload, or is over.
LEMMA HandledWell ==
    ASSUME ApiInv, NEW r \in Requests, Handle(r) \/ Dial(r) \/ Leave(r)
    PROVE  RequestInv(requests'[r], memory', sandboxes')
<1> DEFINE q == requests[r]
<1>1. /\ RequestInv(q, memory, sandboxes) /\ q \in Requested
      /\ UNCHANGED memory /\ UNCHANGED sandboxes /\ memory["token"] \in SUBSET Words
      /\ \A x : Become(r, x) => requests'[r] = x
  BY RequestFrame DEF Request, Advance, Handle, Dial, Leave, ApiInv, cluster, Secrets
<1>2. CASE Handle(r)
  <2> DEFINE took == [q EXCEPT !.token = memory["token"]]
  <2>1. /\ q.pc = "handle"
        /\ \/ \E x : \E result \in {"Panic", "BadRequest"} : requests'[r] = Answer(x, result)
           \/ requests'[r] = [took EXCEPT !.pc = "dial"] /\ ~IsTorn(memory["token"])
    <3>1. q.pc = "handle" <=> took.pc = "handle"
      BY <1>1 DEF Requested
    <3> HIDE DEF took
    <3>2. /\ took.pc = "handle"
          /\ \/ Become(r, Answer(took, "Panic")) \/ Become(r, Answer(took, "BadRequest"))
             \/ Become(r, [took EXCEPT !.pc = "dial"]) /\ ~IsTorn(memory["token"])
      BY <1>2 DEF Handle, took
    <3>3. \/ requests'[r] = Answer(took, "Panic") \/ requests'[r] = Answer(took, "BadRequest")
          \/ requests'[r] = [took EXCEPT !.pc = "dial"] /\ ~IsTorn(memory["token"])
      BY <1>1, <3>2, Zenon
    <3>4. QED BY <3>1, <3>2, <3>3
  <2>2. CASE \E x : \E result \in {"Panic", "BadRequest"} : requests'[r] = Answer(x, result)
    BY <2>2 DEF RequestInv, Answer, Idle
  <2>3. CASE requests'[r] = [took EXCEPT !.pc = "dial"] /\ ~IsTorn(memory["token"])
    <3>1. memory["token"] = Words
      BY <1>1, <2>1, <2>3, WholeMemory DEF RequestInv, IsEmpty
    <3>2. QED BY <1>1, <2>1, <2>3, <3>1 DEF RequestInv, Requested
  <2>4. QED BY <2>1, <2>2, <2>3
<1>3. CASE Dial(r)
  <2> DEFINE found == Found(q.to.kind, q.to.name)
             wl == CHOOSE wl \in found : TRUE
  <2>1. /\ q.pc = "dial"
        /\ \/ \E result \in {"Internal", "NoWorkload"} : requests'[r] = Answer(q, result)
           \/ found # {} /\ requests'[r] = [q EXCEPT !.pc = "session", !.to = wl]
    BY <1>1, <1>3 DEF Dial
  <2>2. q.to.kind = q.copy.type /\ q.to.name = FullName(q.name, q.copy.uid)
    BY <1>1, <2>1 DEF RequestInv
  <2>3. found # {} => wl.kind = q.copy.type /\ wl.owner = <<q.name, q.copy.uid>>
                      /\ wl.name = FullName(q.name, q.copy.uid)
    BY <2>2, FoundOwn
  <2> HIDE DEF wl, found
  <2>4. CASE \E result \in {"Internal", "NoWorkload"} : requests'[r] = Answer(q, result)
    BY <2>4 DEF RequestInv, Answer, Idle
  <2>5. CASE found # {} /\ requests'[r] = [q EXCEPT !.pc = "session", !.to = wl]
    BY <1>1, <2>1, <2>2, <2>3, <2>5 DEF RequestInv, Requested
  <2>6. QED BY <2>1, <2>4, <2>5
<1>4. CASE Leave(r)
  BY <1>1, <1>4 DEF Leave, RequestInv, Idle
<1>5. QED BY <1>2, <1>3, <1>4

\* No step brings a first sandbox back.
LEMMA FirstGone ==
    ASSUME ApiInv, Next, NEW n \in Names, sandboxes[n].uid # 1 PROVE sandboxes'[n].uid # 1
<1>1. /\ sandboxes \in [Names -> Sandboxes] /\ NoSandbox.uid # 1
      /\ \A m \in Names : [NoSandbox EXCEPT !.uid = born[m] + 1].uid # 1
  BY DEF ApiInv, TypeOK, ClusterInv, NoSandbox, Incarnations
<1>2. CASE ~Controller
  <2>1. UNCHANGED sandboxes
    BY <1>2 DEF Next, Start, Configure, Complete, Install, StartInformer, Serve, Restart, Informer, List,
       Watch, Request, Advance, Get, Connect, Load, Store, Lookup, Handle, Dial, Leave,
       RequestStep, cluster
  <2>2. QED BY <2>1
<1>3. ASSUME NEW m \in Names, CreateSandbox(m) \/ DeleteSandbox(m) PROVE sandboxes'[n].uid # 1
  BY <1>1, <1>3 DEF CreateSandbox, DeleteSandbox
<1>4. ASSUME NEW m \in Names, NEW t \in Types, MakeWorkload(m, t) PROVE sandboxes'[n].uid # 1
  BY <1>1, <1>4 DEF MakeWorkload, Sandboxes
<1>5. ASSUME NEW m \in Names, NEW ready \in BOOLEAN, ReportReady(m, ready)
      PROVE  sandboxes'[n].uid # 1
  BY <1>1, <1>5 DEF ReportReady, Sandboxes
<1>6. ASSUME NEW wl \in workloads, LoseWorkload(wl) PROVE sandboxes'[n].uid # 1
  BY <1>6 DEF LoseWorkload
<1>7. QED BY <1>2, <1>3, <1>4, <1>5, <1>6 DEF Controller

\* Every request keeps what it has done so far.
LEMMA RequestsKept ==
    ASSUME ApiInv, TypeOK', Next
    PROVE  \A p \in Requests : RequestInv(requests'[p], memory', sandboxes')
<1>1. \A n \in Names : sandboxes[n].uid # 1 => sandboxes'[n].uid # 1
  BY FirstGone
<1>2. \A p \in Requests : requests[p] \in Requested /\ RequestInv(requests[p], memory, sandboxes)
  BY DEF ApiInv, TypeOK
<1>3. ASSUME NEW p \in Requests, requests'[p] = requests[p],
             \A s \in Secrets : memory[s] \subseteq memory'[s]
      PROVE  RequestInv(requests'[p], memory', sandboxes')
  BY <1>1, <1>2, <1>3, Grows
<1>4. CASE Controller \/ Start \/ \E i \in Informers : Informer(i)
  <2>1. UNCHANGED <<memory, requests>>
    BY <1>4 DEF Controller, CreateSandbox, DeleteSandbox, MakeWorkload, ReportReady, LoseWorkload,
       Others, process, Start, Configure, Complete, Install, StartInformer, Serve, Informer, List, Watch
  <2>2. QED BY <1>3, <2>1
<1>5. CASE Restart
  <2>1. \A p \in Requests : requests'[p] = Idle
    BY <1>5 DEF Restart
  <2>2. Idle \in Requested /\ Idle.pc = "idle" /\ Idle.result # "NoSandbox"
    BY PartsTyped DEF Idle
  <2>3. QED BY <2>1, <2>2, NothingKept
<1>6. ASSUME NEW r \in Requests, Request(r), NEW p \in Requests
      PROVE  RequestInv(requests'[p], memory', sandboxes')
  <2>1. CASE p = r
    BY <1>6, <2>1, LookedUp, LoadedWell, FoundWell, HandledWell DEF Request, Advance
  <2>2. CASE p # r
    BY <1>3, <1>6, <2>2, RequestFrame
  <2>3. QED BY <2>1, <2>2
<1>7. QED BY <1>4, <1>5, <1>6 DEF Next

\* The invariant holds at the start and is kept by every step.
LEMMA ApiInvInductive ==
    /\ Init => ApiInv
    /\ ApiInv /\ [Next]_vars => ApiInv'
<1>1. Init => ApiInv
  <2> SUFFICES ASSUME Init PROVE ApiInv
    OBVIOUS
  <2>1. TypeOK
    <3>1. 1 \in Incarnations
      BY DEF Incarnations, ConstantsAssumption
    <3>2. [NoSandbox EXCEPT !.uid = 1] \in Sandboxes
      BY <3>1 DEF NoSandbox, Sandboxes
    <3>3. QED BY <3>1, <3>2, PartsTyped DEF Init, TypeOK, Stopped, Informers
  <2>2. ServerInv /\ ClusterInv
    BY DEF Init, ServerInv, ClusterInv, Stopped, Unlisted
  <2>3. \A r \in Requests : RequestInv(requests[r], memory, sandboxes)
    <3>1. \A r \in Requests : requests[r] = Idle
      BY DEF Init
    <3>2. Idle \in Requested /\ Idle.pc = "idle" /\ Idle.result # "NoSandbox"
      BY PartsTyped DEF Idle
    <3>3. QED BY <3>1, <3>2, NothingKept
  <2>4. QED BY <2>1, <2>2, <2>3 DEF ApiInv
<1>2. ASSUME ApiInv, UNCHANGED vars PROVE ApiInv'
  <2>1. UNCHANGED <<sandboxes, born, workloads, server, stores, memory, requests>>
    BY <1>2 DEF vars, cluster, process
  <2>2. TypeOK' /\ ServerInv' /\ ClusterInv'
    BY <1>2, <2>1 DEF ApiInv, TypeOK, ServerInv, ClusterInv
  <2>3. \A r \in Requests : RequestInv(requests'[r], memory', sandboxes')
    BY <1>2, <2>1 DEF ApiInv
  <2>4. QED BY <2>2, <2>3 DEF ApiInv
<1>3. ASSUME ApiInv, Next PROVE ApiInv'
  <2>1. TypeOK'
    BY <1>3, ControllerTyped, ProcessTyped, RequestTyped DEF ApiInv, Next
  <2>2. QED BY <1>3, <2>1, ServerKept, ClusterKept, RequestsKept DEF ApiInv
<1>4. QED BY <1>1, <1>2, <1>3

-----------------------------------------------------------------------------
(* The theorems *)

\* Nobody is told that a sandbox does not exist which was there before the process
\* started.
THEOREM KnowsTheFirst == Spec => []KnowsWhatWasThere
<1>1. ApiInv => KnowsWhatWasThere
  BY DEF ApiInv, KnowsWhatWasThere, RequestInv
<1>2. QED BY <1>1, ApiInvInductive, PTL DEF Spec

\* A session reaches the workload of the incarnation that was looked up, of its type.
THEOREM ReachesItsOwn == Spec => []RightWorkload
<1>1. ApiInv => RightWorkload
  BY DEF ApiInv, RightWorkload, RequestInv
<1>2. QED BY <1>1, ApiInvInductive, PTL DEF Spec

\* Whatever the requests store at the same time, what goes to a console is whole.
THEOREM WholeSecrets == Spec => []ForwardsWholeSecrets
<1>1. ApiInv => ForwardsWholeSecrets
  BY DEF ApiInv, ForwardsWholeSecrets, RequestInv
<1>2. QED BY <1>1, ApiInvInductive, PTL DEF Spec

-----------------------------------------------------------------------------
(* A request is decided as if in one step *)

\* What is known of a sandbox, by the cluster or by a store: an incarnation that was
\* created, and the type that a ready one was given.
Known(copy, n) == copy.uid <= born[n] /\ (copy.ready => copy.type \in Types)
KnownInv ==
    /\ \A n \in Names : Known(sandboxes[n], n)
    /\ \A i \in Informers, n \in Names : Known(stores[i].copies[n], n)

\* A copy that is known stays known: no incarnation is forgotten.
LEMMA BornGrows == ASSUME TypeOK, Next PROVE \A n \in Names : born[n] \in Nat /\ born[n] <= born'[n]
<1>1. born \in [Names -> Incarnations] /\ \A n \in Names : born[n] \in Nat
  BY DEF TypeOK, Incarnations
<1>2. CASE UNCHANGED born
  BY <1>1, <1>2
<1>3. ASSUME NEW m \in Names, CreateSandbox(m) PROVE \A n \in Names : born[n] <= born'[n]
  BY <1>1, <1>3 DEF CreateSandbox
<1>4. CASE ~\E m \in Names : CreateSandbox(m)
  <2>1. UNCHANGED born
    BY <1>4 DEF Next, Controller, DeleteSandbox, MakeWorkload, ReportReady, LoseWorkload, Start,
       Configure, Complete, Install, StartInformer, Serve, Restart, Informer, List, Watch, Request, Advance,
       Get, Connect, Load, Store, Lookup, Handle, Dial, Leave, RequestStep, cluster
  <2>2. QED BY <1>2, <2>1, Zenon
<1>5. QED BY <1>1, <1>3, <1>4

\* What the cluster holds stays known.
LEMMA SandboxesKnown ==
    ASSUME TypeOK, TypeOK', KnownInv, Next
    PROVE  \A n \in Names : sandboxes'[n].uid <= born'[n]
                            /\ (sandboxes'[n].ready => sandboxes'[n].type \in Types)
<1> SUFFICES ASSUME NEW n \in Names
             PROVE  sandboxes'[n].uid <= born'[n]
                    /\ (sandboxes'[n].ready => sandboxes'[n].type \in Types)
  OBVIOUS
<1>1. /\ sandboxes \in [Names -> Sandboxes] /\ born \in [Names -> Incarnations]
      /\ \A m \in Names : sandboxes[m].uid \in Nat /\ born[m] \in Nat
      /\ \A m \in Names : sandboxes[m].type \in Types \cup {NoType}
  BY DEF TypeOK, Sandboxes, Incarnations
<1>2. sandboxes[n].uid <= born[n] /\ (sandboxes[n].ready => sandboxes[n].type \in Types)
  BY DEF KnownInv, Known
<1>3. born[n] <= born'[n] /\ born'[n] \in Nat
  BY BornGrows DEF TypeOK, Incarnations
<1>4. CASE UNCHANGED sandboxes[n]
  BY <1>1, <1>2, <1>3, <1>4
<1>5. ASSUME NEW m \in Names, CreateSandbox(m) \/ DeleteSandbox(m)
      PROVE  sandboxes'[n].uid <= born'[n]
             /\ (sandboxes'[n].ready => sandboxes'[n].type \in Types)
  <2>1. CASE m # n
    BY <1>1, <1>4, <1>5, <2>1 DEF CreateSandbox, DeleteSandbox
  <2>2. CASE m = n /\ CreateSandbox(n)
    BY <1>1, <2>2 DEF CreateSandbox, NoSandbox
  <2>3. CASE m = n /\ DeleteSandbox(n)
    BY <1>1, <2>3 DEF DeleteSandbox, NoSandbox
  <2>4. QED BY <1>5, <2>1, <2>2, <2>3
<1>6. ASSUME NEW m \in Names, NEW t \in Types, MakeWorkload(m, t)
      PROVE  sandboxes'[n].uid <= born'[n]
             /\ (sandboxes'[n].ready => sandboxes'[n].type \in Types)
  <2>1. sandboxes' = [sandboxes EXCEPT ![m] = [sandboxes[m] EXCEPT !.type = t]]
    BY <1>6 DEF MakeWorkload
  <2>2. [sandboxes[m] EXCEPT !.type = t].uid = sandboxes[m].uid
        /\ [sandboxes[m] EXCEPT !.type = t].type = t
    BY <1>1 DEF Sandboxes
  <2>3. QED BY <1>1, <1>2, <1>3, <1>4, <2>1, <2>2
<1>7. ASSUME NEW m \in Names, NEW ready \in BOOLEAN, ReportReady(m, ready)
      PROVE  sandboxes'[n].uid <= born'[n]
             /\ (sandboxes'[n].ready => sandboxes'[n].type \in Types)
  <2>1. sandboxes' = [sandboxes EXCEPT ![m] = [sandboxes[m] EXCEPT !.ready = ready]]
        /\ sandboxes[m].type # NoType
    BY <1>7 DEF ReportReady
  <2>2. [sandboxes[m] EXCEPT !.ready = ready].uid = sandboxes[m].uid
        /\ [sandboxes[m] EXCEPT !.ready = ready].type = sandboxes[m].type
    BY <1>1 DEF Sandboxes
  <2>3. QED BY <1>1, <1>2, <1>3, <1>4, <2>1, <2>2
<1>8. CASE UNCHANGED sandboxes
  BY <1>4, <1>8
<1>9. CASE ~Controller \/ \E wl \in workloads : LoseWorkload(wl)
  BY <1>8, <1>9 DEF Next, LoseWorkload, Start, Configure, Complete, Install, StartInformer, Serve,
     Restart, Informer, List, Watch, Request, Advance, Get, Connect, Load, Store, Lookup,
     Handle, Dial, Leave, RequestStep, cluster
<1>10. QED BY <1>5, <1>6, <1>7, <1>9 DEF Controller

\* What the cluster holds and what the stores have of it stays known.
LEMMA KnownKept == ASSUME TypeOK, TypeOK', KnownInv, Next PROVE KnownInv'
<1>1. \A n \in Names : sandboxes'[n].uid <= born'[n]
                       /\ (sandboxes'[n].ready => sandboxes'[n].type \in Types)
  BY SandboxesKnown
<1>2. ASSUME NEW n \in Names
      PROVE  /\ born[n] \in Nat /\ born'[n] \in Nat /\ born[n] <= born'[n]
             /\ \A i \in Informers : stores[i].copies[n].uid \in Nat
                                     /\ stores[i].copies[n].uid <= born[n]
                                     /\ (stores[i].copies[n].ready => stores[i].copies[n].type \in Types)
  <2>1. \A i \in Informers : stores[i].copies[n] \in Sandboxes
    BY DEF TypeOK
  <2>2. QED BY <2>1, BornGrows DEF TypeOK, Incarnations, KnownInv, Known, Sandboxes
<1>3. ASSUME NEW i \in Informers, NEW n \in Names
      PROVE  /\ stores'[i].copies[n].uid <= born'[n]
             /\ stores'[i].copies[n].ready => stores'[i].copies[n].type \in Types
  <2>1. CASE stores'[i].copies[n] = stores[i].copies[n]
    BY <1>2, <2>1
  <2>2. ASSUME NEW j \in Informers, Informer(j)
        PROVE  stores'[i].copies[n] = stores[i].copies[n]
               \/ (stores'[i].copies[n] = sandboxes[n] /\ UNCHANGED <<sandboxes, born>>)
    <3>1. UNCHANGED <<sandboxes, born>>
      BY <2>2 DEF Informer, List, Watch, cluster
    <3>2. QED BY <2>2, <3>1, StoresFollow
  <2>3. CASE \E j \in Informers : Informer(j)
    BY <1>1, <2>1, <2>2, <2>3
  <2>4. CASE Restart
    <3>1. stores'[i].copies[n] = NoSandbox
      BY <2>4 DEF Restart, Unlisted
    <3>2. QED BY <1>2, <3>1 DEF NoSandbox
  <2>5. CASE StartInformer
    BY <2>1, <2>5, StoresFollow
  <2>6. CASE UNCHANGED stores
    BY <2>1, <2>6
  <2>7. \/ \E j \in Informers : Informer(j)
        \/ Restart \/ StartInformer \/ UNCHANGED stores
    BY DEF Next, Controller, CreateSandbox, DeleteSandbox, MakeWorkload, ReportReady, LoseWorkload,
       Others, process, Start, Configure, Complete, Install, Serve, Request, Advance, Get, Connect, Load,
       Store, Lookup, Handle, Dial, Leave, RequestStep
  <2>8. QED BY <2>3, <2>4, <2>5, <2>6, <2>7
<1>4. QED BY <1>1, <1>3 DEF KnownInv, Known

SessionInv == ApiInv /\ KnownInv

\* The two invariants together are inductive.
LEMMA SessionInvariant == Spec => []SessionInv
<1>1. Init => SessionInv
  <2>1. ASSUME Init PROVE KnownInv
    <3>1. /\ [NoSandbox EXCEPT !.uid = 1].uid <= 1 /\ ~[NoSandbox EXCEPT !.uid = 1].ready
          /\ NoSandbox.uid <= 1 /\ ~NoSandbox.ready
      BY DEF NoSandbox
    <3>2. \A n \in Names : /\ sandboxes[n] = [NoSandbox EXCEPT !.uid = 1] /\ born[n] = 1
                          /\ \A i \in Informers : stores[i].copies[n] = NoSandbox
      BY <2>1 DEF Init, Unlisted
    <3> HIDE DEF NoSandbox
    <3>3. QED BY <3>1, <3>2 DEF KnownInv, Known
  <2>2. QED BY <2>1, ApiInvInductive DEF SessionInv
<1>2. SessionInv /\ [Next]_vars => SessionInv'
  <2>1. ASSUME SessionInv, Next PROVE SessionInv'
    BY <2>1, KnownKept, ApiInvInductive DEF SessionInv, ApiInv
  <2>2. ASSUME SessionInv, UNCHANGED vars PROVE SessionInv'
    <3>1. KnownInv'
      BY <2>2 DEF SessionInv, KnownInv, Known, vars, cluster, process
    <3>2. QED BY <2>2, <3>1, ApiInvInductive DEF SessionInv
  <2>3. QED BY <2>1, <2>2
<1>3. QED BY <1>1, <1>2, PTL DEF Spec

\* What a request is to its caller, case by case.
LEMMA CallCases ==
    ASSUME NEW q
    PROVE  /\ q.pc = "idle" => CallOf(q) = [state |-> "idle", of |-> Nobody]
           /\ q.pc = "session" => CallOf(q) = [state |-> "open", of |-> Child(q.to.owner, q.to.kind)]
           /\ q.pc = "answered" => CallOf(q) =
                [state |-> IF q.result = "NoWorkload" THEN "refused" ELSE "answered", of |-> Nobody]
           /\ q.pc \in {"load", "store", "lookup", "handle", "dial"} => CallOf(q) =
                [state |-> "bound", of |-> Child(<<q.name, q.copy.uid>>, q.copy.type)]
<1>1. /\ q.pc = "idle" => State(q) = "idle"
      /\ q.pc = "session" => State(q) = "open"
      /\ q.pc = "answered" /\ q.result = "NoWorkload" => State(q) = "refused"
      /\ q.pc = "answered" /\ q.result # "NoWorkload" => State(q) = "answered"
      /\ q.pc \in {"load", "store", "lookup", "handle", "dial"} => State(q) = "bound"
  BY DEF State
<1>2. /\ State(q) = "bound" => Bound(q) = Child(<<q.name, q.copy.uid>>, q.copy.type)
      /\ State(q) = "open" => Bound(q) = Child(q.to.owner, q.to.kind)
      /\ State(q) \in {"idle", "refused", "answered"} => Bound(q) = Nobody
  BY DEF Bound
<1>3. QED BY <1>1, <1>2 DEF CallOf

\* An answer is to its caller a refusal or an answer, whatever the request was.
LEMMA AnswersEnd ==
    ASSUME NEW q, NEW result
    PROVE  CallOf(Answer(q, result)) =
             [state |-> IF result = "NoWorkload" THEN "refused" ELSE "answered", of |-> Nobody]
<1>1. Answer(q, result).pc = "answered" /\ Answer(q, result).result = result
  BY DEF Answer, Idle
<1>2. QED BY <1>1, CallCases

\* A lookup by the name that the UID gives finds a workload just if a child of that
\* incarnation and of that kind lives.
LEMMA FoundIffLiving ==
    ASSUME ApiInv, NEW kind, NEW n, NEW u
    PROVE  Found(kind, FullName(n, u)) # {} <=> Child(<<n, u>>, kind) \in Living
<1>1. ASSUME Found(kind, FullName(n, u)) # {} PROVE Child(<<n, u>>, kind) \in Living
  <2>1. PICK wl \in workloads : wl.kind = kind /\ wl.name = FullName(n, u)
    BY <1>1 DEF Found
  <2>2. wl.name = FullName(wl.owner[1], wl.owner[2]) /\ wl.owner \in Owners
    BY <2>1 DEF ApiInv, ClusterInv, TypeOK, Workloads
  <2>3. wl.owner[1] = n /\ wl.owner[2] = u
    <3>1. FullName(wl.owner[1], wl.owner[2]) = FullName(n, u)
      BY <2>1, <2>2
    <3>2. QED BY <3>1, NamesApart
  <2>4. wl.owner = <<n, u>>
    BY <2>2, <2>3 DEF Owners
  <2>5. QED BY <2>1, <2>4 DEF Living
<1>2. ASSUME Child(<<n, u>>, kind) \in Living PROVE Found(kind, FullName(n, u)) # {}
  <2>1. PICK wl \in workloads : Child(<<n, u>>, kind) = Child(wl.owner, wl.kind)
    BY <1>2 DEF Living
  <2>2. wl.owner = <<n, u>> /\ wl.kind = kind
    BY <2>1 DEF Child
  <2>3. wl.name = FullName(n, u)
    BY <2>2 DEF ApiInv, ClusterInv
  <2>4. QED BY <2>1, <2>2, <2>3 DEF Found
<1>3. QED BY <1>1, <1>2

\* What a step of a request is to its caller.
Decides(q, p) ==
    LET old == CallOf(q)  new == CallOf(p) IN
    \/ new = old
    \/ /\ old = [state |-> "idle", of |-> Nobody] /\ server.pc = "serving"
       /\ \/ new = [state |-> "answered", of |-> Nobody]
          \/ \E n \in Names : \E i \in 1..born[n], k \in Types :
               new = [state |-> "bound", of |-> Child(<<n, i>>, k)]
    \/ /\ old.state = "bound"
       /\ \/ old.of \in Living /\ new = [state |-> "open", of |-> old.of]
          \/ old.of \notin Living /\ new = [state |-> "refused", of |-> Nobody]
          \/ new = [state |-> "answered", of |-> Nobody]
    \/ old.state \in {"open", "refused", "answered"} /\ new = [state |-> "idle", of |-> Nobody]

\* A request that looks its sandbox up is turned away, or bound to a child of an
\* incarnation that was created.
LEMMA LooksUp ==
    ASSUME SessionInv, NEW r \in Requests, NEW n \in Names, Get(r, n) \/ Connect(r, n)
    PROVE  Decides(requests[r], requests'[r])
<1> DEFINE copy == stores[server.lister].copies[n]
           x == [Idle EXCEPT !.name = n, !.copy = copy]
<1>1. /\ requests[r].pc = "idle" /\ server.pc = "serving"
      /\ \/ \E result \in {"NoSandbox", "Object", "NotReady"} : requests'[r] = Answer(x, result)
         \/ requests'[r] = [x EXCEPT !.pc = "load"] /\ copy.uid # 0 /\ copy.ready
  BY DEF Listed, Get, Connect, Become, SessionInv, ApiInv, TypeOK
<1>2. /\ copy \in Sandboxes /\ born[n] \in Nat
      /\ copy.uid <= born[n] /\ (copy.ready => copy.type \in Types)
  <2>1. server.lister \in Informers
    BY DEF SessionInv, ApiInv, TypeOK
  <2>2. QED BY <2>1 DEF SessionInv, ApiInv, TypeOK, Incarnations, KnownInv, Known
<1>3. CallOf(requests[r]) = [state |-> "idle", of |-> Nobody]
  BY <1>1, CallCases
<1>4. CASE \E result \in {"NoSandbox", "Object", "NotReady"} : requests'[r] = Answer(x, result)
  <2>1. CallOf(requests'[r]) = [state |-> "answered", of |-> Nobody]
    BY <1>4, AnswersEnd
  <2>2. QED BY <1>1, <1>3, <2>1 DEF Decides
<1>5. CASE requests'[r] = [x EXCEPT !.pc = "load"] /\ copy.uid # 0 /\ copy.ready
  <2>1. requests'[r].pc = "load" /\ requests'[r].name = n /\ requests'[r].copy = copy
    BY <1>5 DEF Idle
  <2> HIDE DEF copy
  <2>2. CallOf(requests'[r]) = [state |-> "bound", of |-> Child(<<n, copy.uid>>, copy.type)]
    BY <2>1, CallCases
  <2>3. copy.uid \in 1..born[n] /\ copy.type \in Types
    BY <1>2, <1>5 DEF Sandboxes, Incarnations
  <2>4. QED BY <1>1, <1>3, <2>2, <2>3 DEF Decides
<1>6. QED BY <1>1, <1>4, <1>5

\* A request that is bound stays bound to the same child as long as it is not decided.
LEMMA StaysBound ==
    \A q, p :
      /\ q.pc \in {"load", "store", "lookup", "handle", "dial"}
      /\ p.pc \in {"load", "store", "lookup", "handle", "dial"}
      /\ p.name = q.name /\ p.copy = q.copy
      => Decides(q, p)
BY CallCases DEF Decides

\* A request that is bound may fail at any time.
LEMMA MayFail ==
    ASSUME NEW q, NEW x, NEW result, q.pc \in {"load", "store", "lookup", "handle", "dial"},
           result # "NoWorkload"
    PROVE  Decides(q, Answer(x, result))
<1>1. CallOf(q) = [state |-> "bound", of |-> Child(<<q.name, q.copy.uid>>, q.copy.type)]
  BY CallCases
<1>2. CallOf(Answer(x, result)) = [state |-> "answered", of |-> Nobody]
  BY AnswersEnd
<1>3. QED BY <1>1, <1>2 DEF Decides

\* A request that is bound is refused when the workload it is bound to is not found.
LEMMA MayBeRefused ==
    ASSUME ApiInv, NEW q, q.pc \in {"load", "store", "lookup", "handle", "dial"},
           Found(q.copy.type, FullName(q.name, q.copy.uid)) = {}
    PROVE  Decides(q, Answer(q, "NoWorkload"))
<1>1. CallOf(q) = [state |-> "bound", of |-> Child(<<q.name, q.copy.uid>>, q.copy.type)]
  BY CallCases
<1>2. CallOf(q).of \notin Living
  BY <1>1, FoundIffLiving
<1>3. CallOf(Answer(q, "NoWorkload")) = [state |-> "refused", of |-> Nobody]
  BY AnswersEnd
<1>4. QED BY <1>1, <1>2, <1>3 DEF Decides

\* Loading and storing the secrets decide nothing but a failure.
LEMMA LoadsOn ==
    ASSUME SessionInv, NEW r \in Requests, Load(r) \/ \E word \in Words : Store(r, word)
    PROVE  Decides(requests[r], requests'[r])
<1> DEFINE q == requests[r]
<1>1. q \in Requested /\ q.pc \in {"load", "store"} /\ \A x : Become(r, x) => requests'[r] = x
  BY RequestFrame DEF SessionInv, Load, Store, Request, Advance
<1>2. /\ Loaded(q).pc \in {"load", "lookup"} /\ Loaded(q).name = q.name /\ Loaded(q).copy = q.copy
      /\ [q EXCEPT !.pc = "store"].pc = "store" /\ [q EXCEPT !.pc = "store"].name = q.name
      /\ [q EXCEPT !.pc = "store"].copy = q.copy
  BY <1>1 DEF Loaded, Requested
<1>3. ASSUME NEW wrote
      PROVE  /\ [q EXCEPT !.wrote = wrote].pc = q.pc /\ [q EXCEPT !.wrote = wrote].name = q.name
             /\ [q EXCEPT !.wrote = wrote].copy = q.copy
  BY <1>1 DEF Requested
<1>4. CASE Load(r)
  <2>1. requests'[r] \in {[q EXCEPT !.pc = "store"], Answer(q, "Internal"), Loaded(q)}
    BY <1>1, <1>4 DEF Load
  <2>2. Decides(q, Answer(q, "Internal"))
    BY <1>1, MayFail
  <2>3. Decides(q, [q EXCEPT !.pc = "store"]) /\ Decides(q, Loaded(q))
    BY <1>1, <1>2, StaysBound
  <2>4. QED BY <2>1, <2>2, <2>3
<1>5. ASSUME NEW word \in Words, Store(r, word) PROVE Decides(q, requests'[r])
  <2> DEFINE stored == [q EXCEPT !.wrote = q.wrote \cup {word}]
  <2>1. requests'[r] \in {Loaded(q), stored}
    BY <1>1, <1>5 DEF Store
  <2>2. stored.pc = q.pc /\ stored.name = q.name /\ stored.copy = q.copy
    BY <1>3
  <2> HIDE DEF stored
  <2>3. Decides(q, Loaded(q))
    BY <1>1, <1>2, StaysBound
  <2>4. Decides(q, stored)
    BY <1>1, <2>2, StaysBound
  <2>5. QED BY <2>1, <2>3, <2>4
<1>6. QED BY <1>4, <1>5

\* A request that looks its workload up is refused when it finds none, fails, or goes on
\* with the child it is bound to.
LEMMA FindsIt ==
    ASSUME SessionInv, NEW r \in Requests, Lookup(r)
    PROVE  Decides(requests[r], requests'[r])
<1> DEFINE q == requests[r]
           found == Found(q.copy.type, FullName(q.name, q.copy.uid))
           p == [q EXCEPT !.to = CHOOSE wl \in found : TRUE]
<1>1. q \in Requested /\ q.pc = "lookup" /\ \A x : Become(r, x) => requests'[r] = x
  BY RequestFrame DEF SessionInv, Lookup, Request, Advance
<1>2. \A y \in {[p EXCEPT !.pc = "handle"], [p EXCEPT !.pc = "handle", !.ca = memory["ca"]]} :
         y.pc = "handle" /\ y.name = q.name /\ y.copy = q.copy
  BY <1>1 DEF Requested
<1> HIDE DEF p
<1>3. \/ Become(r, Answer(q, "Internal"))
      \/ found = {} /\ Become(r, Answer(q, "NoWorkload"))
      \/ Become(r, [p EXCEPT !.pc = "handle"]) \/ Become(r, Transport(p, memory["ca"]))
  BY DEF Lookup, p
<1> HIDE DEF found
<1>4. Transport(p, memory["ca"]) \in {Answer(p, "Internal"), Answer(p, "Panic"),
                                      [p EXCEPT !.pc = "handle", !.ca = memory["ca"]]}
  BY DEF Transport
<1>5. \/ found = {} /\ requests'[r] = Answer(q, "NoWorkload")
      \/ requests'[r] \in {Answer(q, "Internal"), Answer(p, "Internal"), Answer(p, "Panic"),
                           [p EXCEPT !.pc = "handle"],
                           [p EXCEPT !.pc = "handle", !.ca = memory["ca"]]}
  <2>1. \/ requests'[r] = Answer(q, "Internal")
        \/ found = {} /\ requests'[r] = Answer(q, "NoWorkload")
        \/ requests'[r] = [p EXCEPT !.pc = "handle"] \/ requests'[r] = Transport(p, memory["ca"])
    BY <1>1, <1>3, Zenon
  <2>2. QED BY <1>4, <2>1
<1>6. CASE found = {} /\ requests'[r] = Answer(q, "NoWorkload")
  BY <1>1, <1>6, MayBeRefused DEF found, SessionInv
<1>7. CASE requests'[r] \in {[p EXCEPT !.pc = "handle"],
                             [p EXCEPT !.pc = "handle", !.ca = memory["ca"]]}
  BY <1>1, <1>2, <1>7, StaysBound
<1>8. CASE requests'[r] \in {Answer(q, "Internal"), Answer(p, "Internal"), Answer(p, "Panic")}
  BY <1>1, <1>8, MayFail
<1>9. QED BY <1>5, <1>6, <1>7, <1>8, Zenon

\* The handler fails or goes on with the child the request is bound to.
LEMMA GoesOn ==
    ASSUME SessionInv, NEW r \in Requests, Handle(r)
    PROVE  Decides(requests[r], requests'[r])
<1> DEFINE q == requests[r]
           took == [q EXCEPT !.token = memory["token"]]
           dialling == [took EXCEPT !.pc = "dial"]
<1>1. q \in Requested /\ \A x : Become(r, x) => requests'[r] = x
  BY RequestFrame DEF SessionInv, Request, Advance
<1>2. /\ took.pc = q.pc /\ dialling.pc = "dial" /\ dialling.name = q.name
      /\ dialling.copy = q.copy
  BY <1>1 DEF Requested
<1> HIDE DEF dialling
<1>3. /\ took.pc = "handle"
      /\ \/ Become(r, Answer(took, "Panic")) \/ Become(r, Answer(took, "BadRequest"))
         \/ Become(r, dialling)
  BY DEF Handle, dialling
<1> HIDE DEF took
<1>4. \/ requests'[r] = Answer(took, "Panic") \/ requests'[r] = Answer(took, "BadRequest")
      \/ requests'[r] = dialling
  BY <1>1, <1>3, Zenon
<1>5. CASE requests'[r] \in {Answer(took, "Panic"), Answer(took, "BadRequest")}
  <2>1. q.pc = "handle"
    BY <1>2, <1>3
  <2>2. Decides(q, Answer(took, "Panic")) /\ Decides(q, Answer(took, "BadRequest"))
    BY <2>1, MayFail
  <2>3. QED BY <1>5, <2>2
<1>6. CASE requests'[r] = dialling
  BY <1>2, <1>3, <1>6, StaysBound
<1>7. QED BY <1>4, <1>5, <1>6

\* A request that dials is opened to the child it is bound to, which lives, or refused
\* because that one does not.
LEMMA DialsIt ==
    ASSUME SessionInv, NEW r \in Requests, Dial(r)
    PROVE  Decides(requests[r], requests'[r])
<1> DEFINE q == requests[r]
           found == Found(q.copy.type, FullName(q.name, q.copy.uid))
           wl == CHOOSE wl \in found : TRUE
           opened == [q EXCEPT !.pc = "session", !.to = wl]
<1>1. /\ q \in Requested /\ q.pc = "dial" /\ \A x : Become(r, x) => requests'[r] = x
      /\ q.to.kind = q.copy.type /\ q.to.name = FullName(q.name, q.copy.uid)
  BY RequestFrame DEF SessionInv, ApiInv, RequestInv, Dial, Request, Advance
<1>2. \/ requests'[r] = Answer(q, "Internal")
      \/ found = {} /\ requests'[r] = Answer(q, "NoWorkload")
      \/ found # {} /\ requests'[r] = opened
  BY <1>1 DEF Dial
<1>3. CASE found = {} /\ requests'[r] = Answer(q, "NoWorkload")
  BY <1>1, <1>3, MayBeRefused DEF SessionInv
<1>4. CASE found # {} /\ requests'[r] = opened
  <2>1. wl.kind = q.copy.type /\ wl.owner = <<q.name, q.copy.uid>>
    BY <1>4, FoundOwn DEF SessionInv
  <2>2. Child(<<q.name, q.copy.uid>>, q.copy.type) \in Living
    BY <1>4, FoundIffLiving DEF SessionInv
  <2>3. opened.pc = "session" /\ opened.to = wl
    BY <1>1 DEF Requested
  <2> HIDE DEF wl, found, opened
  <2>4. CallOf(opened) = [state |-> "open", of |-> Child(<<q.name, q.copy.uid>>, q.copy.type)]
    BY <2>1, <2>3, CallCases
  <2>5. CallOf(q) = [state |-> "bound", of |-> Child(<<q.name, q.copy.uid>>, q.copy.type)]
    BY <1>1, CallCases
  <2>6. QED BY <1>4, <2>2, <2>4, <2>5 DEF Decides
<1>5. CASE requests'[r] = Answer(q, "Internal")
  BY <1>1, <1>5, MayFail
<1>6. QED BY <1>2, <1>3, <1>4, <1>5

\* Every step of a request is a step of its call, or none.
LEMMA RequestDecides ==
    ASSUME SessionInv, NEW r \in Requests, Request(r)
    PROVE  Decides(requests[r], requests'[r])
<1>1. ASSUME Leave(r) PROVE Decides(requests[r], requests'[r])
  <2>1. requests'[r] = Idle /\ requests[r].pc \in {"session", "answered"}
    <3>1. Become(r, Idle) /\ requests[r].pc \in {"session", "answered"}
      BY <1>1 DEF Leave
    <3>2. Request(r)
      BY <1>1 DEF Request
    <3>3. \A q : Become(r, q) => requests'[r] = q
      BY <3>2, RequestFrame DEF SessionInv
    <3>4. QED BY <3>1, <3>3
  <2>2. CallOf(requests'[r]) = [state |-> "idle", of |-> Nobody]
    BY <2>1, PartsTyped, CallCases
  <2>3. \/ CallOf(requests[r]) = [state |-> "open",
                                  of |-> Child(requests[r].to.owner, requests[r].to.kind)]
        \/ CallOf(requests[r]) = [state |-> "refused", of |-> Nobody]
        \/ CallOf(requests[r]) = [state |-> "answered", of |-> Nobody]
    BY <2>1, CallCases
  <2>4. QED BY <2>2, <2>3 DEF Decides
<1>2. QED BY <1>1, LooksUp, LoadsOn, FindsIt, GoesOn, DialsIt DEF Request, Advance

\* With stale copies, lookups by name and memory that is shared, a request is decided as
\* if in one step: the API server implements the abstract attach session.
THEOREM Sessions == Spec => ImplementsAttach
<1>1. Init => Attach!Init
  <2> SUFFICES ASSUME Init PROVE Attach!Init
    OBVIOUS
  <2>1. \A r \in Requests : CallOf(requests[r]) = [state |-> "idle", of |-> Nobody]
    BY CallCases DEF Init, Idle
  <2>2. server.pc # "serving" /\ Living = {} /\ born = [n \in Names |-> 1]
    BY DEF Init, Stopped, Living
  <2>3. QED BY <2>1, <2>2 DEF Attach!Init, Attach!Idle, Attach!Call
<1>2. ASSUME SessionInv, Next PROVE [Attach!Next]_Attach!vars
  <2>1. ASSUME NEW r \in Requests, Request(r) PROVE [Attach!Next]_Attach!vars
    <3> DEFINE calls == [p \in Requests |-> CallOf(requests[p])]
               old == CallOf(requests[r])
               new == CallOf(requests'[r])
    <3>1. /\ UNCHANGED <<cluster, server, stores>>
          /\ \A p \in Requests \ {r} : requests'[p] = requests[p]
      BY <1>2, <2>1, RequestFrame DEF SessionInv
    <3>2. calls' = [calls EXCEPT ![r] = new] /\ calls[r] = old
      BY <3>1
    <3>3. UNCHANGED <<server.pc = "serving", born, Living>>
      BY <3>1 DEF cluster, Living
    <3>4. Decides(requests[r], requests'[r])
      BY <1>2, <2>1, RequestDecides
    <3>5. ASSUME NEW call, new = call PROVE Attach!Become(r, call)
      BY <3>2, <3>3, <3>5 DEF Attach!Become
    <3>6. CASE new = old
      BY <3>2, <3>3, <3>6 DEF Attach!vars
    <3>7. CASE new # old
      <4> HIDE DEF new, old
      <4>1. \/ old = [state |-> "idle", of |-> Nobody] /\ server.pc = "serving"
               /\ new = [state |-> "answered", of |-> Nobody]
            \/ old = [state |-> "idle", of |-> Nobody] /\ server.pc = "serving"
               /\ \E n \in Names : \E i \in 1..born[n], k \in Types :
                     new = [state |-> "bound", of |-> Child(<<n, i>>, k)]
            \/ old.state = "bound" /\ old.of \in Living /\ new = [state |-> "open", of |-> old.of]
            \/ old.state = "bound" /\ old.of \notin Living
               /\ new = [state |-> "refused", of |-> Nobody]
            \/ old.state = "bound" /\ new = [state |-> "answered", of |-> Nobody]
            \/ old.state \in {"open", "refused", "answered"}
               /\ new = [state |-> "idle", of |-> Nobody]
        BY <3>4, <3>7 DEF Decides, new, old
      <4>2. CASE old = [state |-> "idle", of |-> Nobody] /\ server.pc = "serving"
                 /\ new = [state |-> "answered", of |-> Nobody]
        <5>1. Attach!TurnAway(r)
          BY <3>2, <3>5, <4>2 DEF Attach!TurnAway, Attach!Idle, Attach!Call
        <5>2. QED BY <5>1 DEF Attach!Next
      <4>3. CASE old = [state |-> "idle", of |-> Nobody] /\ server.pc = "serving"
                 /\ \E n \in Names : \E i \in 1..born[n], k \in Types :
                       new = [state |-> "bound", of |-> Child(<<n, i>>, k)]
        <5>1. PICK n \in Names : \E i \in 1..born[n], k \in Types :
                new = [state |-> "bound", of |-> Child(<<n, i>>, k)]
          BY <4>3
        <5>2. PICK i \in 1..born[n], k \in Types :
                new = [state |-> "bound", of |-> Child(<<n, i>>, k)]
          BY <5>1
        <5>3. Attach!Become(r, Attach!Call("bound", Attach!Child(n, i, k)))
          BY <3>5, <5>2 DEF Attach!Call, Attach!Child, Child
        <5>4. Attach!Bind(r)
          BY <3>2, <4>3, <5>3 DEF Attach!Bind, Attach!Idle, Attach!Call
        <5>5. QED BY <5>4 DEF Attach!Next
      <4>4. CASE old.state = "bound" /\ old.of \in Living /\ new = [state |-> "open", of |-> old.of]
        <5>1. Attach!Open(r)
          BY <3>2, <3>5, <4>4 DEF Attach!Open, Attach!Call
        <5>2. QED BY <5>1 DEF Attach!Next
      <4>5. CASE old.state = "bound" /\ old.of \notin Living
                 /\ new = [state |-> "refused", of |-> Nobody]
        <5>1. Attach!Refuse(r)
          BY <3>2, <3>5, <4>5 DEF Attach!Refuse, Attach!Call
        <5>2. QED BY <5>1 DEF Attach!Next
      <4>6. CASE old.state = "bound" /\ new = [state |-> "answered", of |-> Nobody]
        <5>1. Attach!Fail(r)
          BY <3>2, <3>5, <4>6 DEF Attach!Fail, Attach!Call
        <5>2. QED BY <5>1 DEF Attach!Next
      <4>7. CASE old.state \in {"open", "refused", "answered"}
                 /\ new = [state |-> "idle", of |-> Nobody]
        <5>1. Attach!Leave(r)
          BY <3>2, <3>5, <4>7 DEF Attach!Leave, Attach!Idle, Attach!Call
        <5>2. QED BY <5>1 DEF Attach!Next
      <4>8. QED BY <4>1, <4>2, <4>3, <4>4, <4>5, <4>6, <4>7
    <3>8. QED BY <3>6, <3>7
  <2>2. CASE Controller
    <3>1. UNCHANGED process
      BY <2>2 DEF Controller, CreateSandbox, DeleteSandbox, MakeWorkload, ReportReady,
         LoseWorkload, Others
    <3>2. UNCHANGED <<server.pc = "serving", [r \in Requests |-> CallOf(requests[r])]>>
      BY <3>1 DEF process
    <3>3. CASE UNCHANGED <<born, workloads>>
      BY <3>2, <3>3 DEF Attach!vars, Living
    <3>4. ASSUME NEW n \in Names, CreateSandbox(n) PROVE Attach!Next
      BY <3>2, <3>4 DEF CreateSandbox, Living, Attach!Create, Attach!Next
    <3>5. ASSUME NEW n \in Names, NEW t \in Types, MakeWorkload(n, t) PROVE Attach!Next
      <4>1. sandboxes[n].uid \in 1..born[n]
        <5>1. sandboxes[n] \in Sandboxes /\ born[n] \in Nat /\ sandboxes[n].uid <= born[n]
          BY <1>2 DEF SessionInv, ApiInv, TypeOK, Incarnations, KnownInv, Known
        <5>2. QED BY <3>5, <5>1 DEF MakeWorkload, Sandboxes, Incarnations
      <4>2. Living' = Living \cup {Child(<<n, sandboxes[n].uid>>, t)}
        <5> DEFINE wl == [name |-> FullName(n, sandboxes[n].uid), kind |-> t,
                          owner |-> <<n, sandboxes[n].uid>>]
        <5>1. workloads' = workloads \cup {wl}
          BY <3>5 DEF MakeWorkload
        <5>2. wl.owner = <<n, sandboxes[n].uid>> /\ wl.kind = t
          OBVIOUS
        <5> HIDE DEF wl
        <5>3. QED BY <5>1, <5>2 DEF Living
      <4>3. UNCHANGED born
        BY <3>5 DEF MakeWorkload
      <4>4. Attach!Bear
        BY <3>2, <4>1, <4>2, <4>3 DEF Attach!Bear, Attach!Child, Child
      <4>5. QED BY <4>4 DEF Attach!Next
    <3>6. ASSUME NEW wl \in workloads, LoseWorkload(wl) PROVE Attach!Next
      <4>1. ASSUME NEW x \in workloads, Child(x.owner, x.kind) = Child(wl.owner, wl.kind)
            PROVE  x = wl
        <5>1. x.owner = wl.owner /\ x.kind = wl.kind
          BY <4>1 DEF Child
        <5>2. x.name = wl.name
          BY <1>2, <5>1 DEF SessionInv, ApiInv, ClusterInv
        <5>3. x \in Workloads /\ wl \in Workloads
          BY <1>2 DEF SessionInv, ApiInv, TypeOK
        <5>4. QED BY <5>1, <5>2, <5>3 DEF Workloads
      <4>2. Living' = Living \ {Child(wl.owner, wl.kind)} /\ Child(wl.owner, wl.kind) \in Living
        BY <3>6, <4>1 DEF LoseWorkload, Living
      <4>3. Attach!Bury
        BY <3>2, <3>6, <4>2 DEF LoseWorkload, Attach!Bury
      <4>4. QED BY <4>3 DEF Attach!Next
    <3>7. QED BY <2>2, <3>3, <3>4, <3>5, <3>6 DEF Controller, DeleteSandbox, ReportReady
  <2>3. CASE Start \/ \E i \in Informers : Informer(i)
    <3>1. UNCHANGED <<born, Living, [r \in Requests |-> CallOf(requests[r])]>>
      BY <2>3 DEF Start, Configure, Complete, Install, StartInformer, Serve, Informer, List, Watch,
         cluster, Living
    <3>2. CASE Serve
      <4>1. server.pc # "serving" /\ server'.pc = "serving"
        BY <1>2, <3>2 DEF Serve, Stage, SessionInv, ApiInv, TypeOK
      <4>2. Attach!Serve
        BY <3>1, <4>1 DEF Attach!Serve
      <4>3. QED BY <4>2 DEF Attach!Next
    <3>3. CASE ~Serve
      <4>1. (server.pc # "serving" /\ server'.pc # "serving") \/ UNCHANGED server
        BY <1>2, <2>3, <3>3 DEF Start, Configure, Complete, Install, StartInformer, Stage, Stopped,
           Informer, List, Watch, SessionInv, ApiInv, TypeOK
      <4>2. QED BY <3>1, <4>1 DEF Attach!vars
    <3>4. QED BY <3>2, <3>3
  <2>4. CASE Restart
    <3>1. \A r \in Requests : CallOf(requests'[r]) = [state |-> "idle", of |-> Nobody]
      BY <2>4, CallCases DEF Restart, Idle
    <3>2. server'.pc # "serving" /\ UNCHANGED <<born, Living>>
      BY <2>4 DEF Restart, Stopped, cluster, Living
    <3>3. Attach!Stop
      BY <3>1, <3>2 DEF Attach!Stop, Attach!Idle, Attach!Call
    <3>4. QED BY <3>3 DEF Attach!Next
  <2>5. QED BY <1>2, <2>1, <2>2, <2>3, <2>4 DEF Next
<1>3. ASSUME UNCHANGED vars PROVE UNCHANGED Attach!vars
  BY <1>3 DEF vars, cluster, process, Attach!vars, Living
<1>4. SessionInv /\ [Next]_vars => [Attach!Next]_Attach!vars
  BY <1>2, <1>3
<1>5. QED BY <1>1, <1>4, SessionInvariant, PTL DEF Spec, ImplementsAttach, Attach!Spec
=============================================================================
