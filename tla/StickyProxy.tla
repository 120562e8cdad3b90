----------------------------- MODULE StickyProxy -----------------------------
(***************************************************************************)
(* The session-affinity reverse proxy: replicas of the Go program          *)
(* (proxy/*.go) and of the Node program it replaces                        *)
(* (k8s/proxy/sticky-proxy.js), side by side behind one Service.           *)
(*                                                                         *)
(* What a replica knows of a tenant's pods is behind the cluster twice:    *)
(* the EndpointSlices follow the pods, and the cache of a Go replica       *)
(* follows the EndpointSlices.  (A Node replica reads the API for each     *)
(* request.)  A request runs in two steps, the choice of a pod and the     *)
(* round trip to it; pods, slices, caches and replicas may change between. *)
(***************************************************************************)
EXTENDS Naturals

CONSTANTS
    Tenants, Addrs,     \* tenant ids; pod IP addresses
    Go, Node,           \* replicas of either program
    Clients, Requests,  \* clients, and the requests they may have under way
    ClientOf,           \* the client of each request
    MaxChanges,         \* bound on what happens to pods
    Faults              \* the kinds of failure the environment may inject

Replicas == Go \cup Node
FaultKinds == {"stop",      \* a replica is told to terminate
               "crash",     \* a replica dies
               "refuse",    \* a pod that is there cannot be reached
               "api",       \* a Node replica's read of the Endpoints fails
               "edit"}      \* a client drops, damages or exchanges its cookies

ASSUME ClientAssumption == ClientOf \in [Requests -> Clients]
ASSUME BoundAssumption == MaxChanges \in Nat
ASSUME FaultAssumption == Faults \subseteq FaultKinds
ASSUME NameAssumption ==
    "none" \notin Tenants /\ "none" \notin Addrs /\ "none" \notin Replicas /\ Go \cap Node = {}

VARIABLES
    pod,        \* who holds an address: a tenant's pod, and whether it is ready
    slices,     \* the EndpointSlices of each tenant's tenant-app, at the API server
    cache,      \* EndpointCache of each Go replica
    proc,       \* life of each replica's process
    inService,  \* replicas that the proxy's own Service sends requests to
    req,        \* the requests, each with the local variables of its handler
    jar,        \* the affinity cookie each client has for each tenant
    changes,    \* changes of pods so far
    ever,       \* history: addresses that were once a ready pod of the tenant
    last        \* history: the pod that served the client last

vars == <<pod, slices, cache, proc, inService, req, jar, changes, ever, last>>
cluster == <<pod, slices, changes, ever>>
clients == <<jar, last>>

NoPod == [tenant |-> "none", up |-> FALSE]
NoCookie == [addr |-> "none", signed |-> FALSE]
NoReq == [pc |-> "idle", tenant |-> "none", via |-> "none", cookie |-> NoCookie,
          target |-> "none", event |-> "none", code |-> 0]
Empty == [t \in Tenants |-> {}]

Init ==
    /\ pod = [a \in Addrs |-> NoPod]
    /\ slices = Empty
    /\ cache = [p \in Go |-> Empty]
    /\ proc = [p \in Replicas |-> "down"]
    /\ inService = {}
    /\ req = [r \in Requests |-> NoReq]
    /\ jar = [c \in Clients |-> [t \in Tenants |-> NoCookie]]
    /\ changes = 0
    /\ ever = Empty
    /\ last = [c \in Clients |-> [t \in Tenants |-> "none"]]

-----------------------------------------------------------------------------
(* The cluster.                                                             *)

SetPod(a, x) ==
    /\ changes < MaxChanges
    /\ changes' = changes + 1
    /\ pod' = [pod EXCEPT ![a] = x]
    /\ UNCHANGED <<slices, cache, proc, inService, req, jar, last>>

\* A pod of the tenant gets a free address; another tenant's pod may have had it.
PodStarts(t, a) ==
    /\ pod[a] = NoPod
    /\ SetPod(a, [tenant |-> t, up |-> FALSE])
    /\ UNCHANGED ever

PodReady(a) ==
    /\ pod[a] # NoPod /\ ~pod[a].up
    /\ SetPod(a, [tenant |-> pod[a].tenant, up |-> TRUE])
    /\ ever' = [ever EXCEPT ![pod[a].tenant] = @ \cup {a}]

PodUnready(a) ==
    /\ pod[a].up
    /\ SetPod(a, [tenant |-> pod[a].tenant, up |-> FALSE])
    /\ UNCHANGED ever

PodGone(a) ==
    /\ pod[a] # NoPod
    /\ SetPod(a, NoPod)
    /\ UNCHANGED ever

PodsOf(t) == {a \in Addrs : pod[a].tenant = t}
ReadyPods(t) == {a \in PodsOf(t) : pod[a].up}

\* The endpoints of a tenant's Service as they ought to be listed now.  The
\* condition Ready of a ready pod is true or left out; only false matters.
Listed(t) == {[addr |-> a, notReady |-> ~pod[a].up] : a \in PodsOf(t)}

\* The endpoint controller brings the slices of one tenant up to date.
Publish(t) ==
    /\ slices[t] # Listed(t)
    /\ slices' = [slices EXCEPT ![t] = Listed(t)]
    /\ UNCHANGED <<pod, changes, ever, cache, proc, inService, req, clients>>

-----------------------------------------------------------------------------
(* The life of a replica.                                                   *)

\* /readyz.  The Node proxy has no probe and nothing to load.
Readyz(p) == proc[p] = "serving"

\* The container starts: the Go program listens, and loads its cache meanwhile.
Start(p) ==
    /\ proc[p] = "down"
    /\ proc' = [proc EXCEPT ![p] = IF p \in Go THEN "loading" ELSE "serving"]
    /\ UNCHANGED <<cluster, cache, inService, req, clients>>

\* The first full list has arrived.
Sync(p) ==
    /\ proc[p] = "loading"
    /\ proc' = [proc EXCEPT ![p] = "serving"]
    /\ cache' = [cache EXCEPT ![p] = slices]
    /\ UNCHANGED <<cluster, inService, req, clients>>

\* The kubelet's probe succeeds and the replica joins the Service.
Probe(p) ==
    /\ p \notin inService
    /\ Readyz(p)
    /\ inService' = inService \cup {p}
    /\ UNCHANGED <<cluster, cache, proc, req, clients>>

\* The cluster has noticed that the replica is not ready, or not there.  Until
\* then it is sent requests: also one that was restarted in place and is loading.
Leave(p) ==
    /\ p \in inService
    /\ ~Readyz(p)
    /\ inService' = inService \ {p}
    /\ UNCHANGED <<cluster, cache, proc, req, clients>>

\* The watch brings the cache up to date.  It ends with the process's context.
Watch(p) ==
    /\ proc[p] = "serving"
    /\ cache[p] # slices
    /\ cache' = [cache EXCEPT ![p] = slices]
    /\ UNCHANGED <<cluster, proc, inService, req, clients>>

InFlight(p) == {r \in Requests : req[r].pc \in {"read", "chosen"} /\ req[r].via = p}

\* SIGTERM: Shutdown closes the listener and waits for the requests under way.
Terminate(p) ==
    /\ "stop" \in Faults
    /\ p \in Go
    /\ proc[p] \in {"loading", "serving"}
    /\ proc' = [proc EXCEPT ![p] = "draining"]
    /\ UNCHANGED <<cluster, cache, inService, req, clients>>

\* A request that is over; code 0 if its replica went away without an answer.
Finished(t, code) ==
    [pc |-> "done", tenant |-> t, via |-> "none", cookie |-> NoCookie,
     target |-> "none", event |-> "none", code |-> code]

\* The process is gone, and with it its cache and the requests it was serving.
Gone(p) ==
    /\ proc' = [proc EXCEPT ![p] = "down"]
    /\ cache' = [q \in Go |-> IF q = p THEN Empty ELSE cache[q]]
    /\ req' = [r \in Requests |->
                  IF r \in InFlight(p) THEN Finished("none", 0) ELSE req[r]]
    /\ UNCHANGED <<cluster, inService, clients>>

\* Shutdown returns: nothing is under way any more, or 15 seconds have passed.
Exit(p) == proc[p] = "draining" /\ Gone(p)

Crash(p) == "crash" \in Faults /\ proc[p] # "down" /\ Gone(p)

-----------------------------------------------------------------------------
(* The handler.                                                             *)

\* A variant that the checks must reject: the condition is not looked at.
ReadyAddressesAll(l) == {e.addr : e \in l}

\* readyAddresses
ReadyAddresses(l) == {e.addr : e \in {x \in l : ~x.notReady}}

\* getEndpointIPs: the API lists the addresses of ready pods apart; 404 is none.
GetEndpointIPs(t) == ReadyAddresses(slices[t])

\* What a replica is told of a tenant's pods when it asks.
Endpoints(p, t) == IF p \in Go THEN ReadyAddresses(cache[p][t]) ELSE GetEndpointIPs(t)

\* The cookie's value with its signature.  All replicas have the same secret.
Sign(a) == [addr |-> a, signed |-> TRUE]

\* A variant that the checks must reject: the programs sign differently.
VerifyByKind(p, c) == c.signed /\ p \in Go

\* The signature was made with the secret of this replica.
Verify(p, c) == c.signed

\* A variant that the checks must reject: any signed address will do.
ChooseUnlisted(p, c, ips) ==
    IF Verify(p, c)
    THEN {[target |-> c.addr, event |-> "sticky_hit"]}
    ELSE {[target |-> a, event |-> IF c = NoCookie THEN "new_assignment" ELSE "rejected"] : a \in ips}

\* choose: the pod of the cookie if it is still listed, otherwise any.
Choose(p, c, ips) ==
    IF Verify(p, c) /\ c.addr \in ips
    THEN {[target |-> c.addr, event |-> "sticky_hit"]}
    ELSE {[target |-> a, event |-> IF c = NoCookie THEN "new_assignment" ELSE "rejected"] : a \in ips}

Free(r) == req[r].pc \in {"idle", "done"}
Listening(p) == p \in inService /\ proc[p] \in {"loading", "serving"}
Done(r, t, code) == req' = [req EXCEPT ![r] = Finished(t, code)]

\* No pod is listed.
Refuse(r, t) == Done(r, t, 503) /\ UNCHANGED clients

\* The pods of the tenant are looked up and one is chosen.
Route(r, t, p, c) ==
    \/ /\ Endpoints(p, t) = {}
       /\ Refuse(r, t)
    \/ /\ Endpoints(p, t) # {}
       /\ \E x \in Choose(p, c, Endpoints(p, t)) :
             req' = [req EXCEPT ![r] = [pc |-> "chosen", tenant |-> t, via |-> p, cookie |-> NoCookie,
                                        target |-> x.target, event |-> x.event, code |-> 0]]
       /\ UNCHANGED clients

\* ServeHTTP of a Go replica, up to the round trip.
Serve(r, t, p) ==
    /\ Free(r) /\ p \in Go /\ Listening(p)
    /\ Route(r, t, p, jar[ClientOf[r]][t])
    /\ UNCHANGED <<cluster, cache, proc, inService>>

\* A Node replica asks the API server, and waits.
Ask(r, t, p) ==
    /\ Free(r) /\ p \in Node /\ Listening(p)
    /\ req' = [req EXCEPT ![r] = [pc |-> "read", tenant |-> t, via |-> p, cookie |-> jar[ClientOf[r]][t],
                                  target |-> "none", event |-> "none", code |-> 0]]
    /\ UNCHANGED <<cluster, cache, proc, inService, clients>>

\* The answer arrives, or the read fails: the catch block answers 500, but an
\* error of the API server that is JSON looks like a tenant without pods (503).
Told(r) ==
    /\ req[r].pc = "read"
    /\ \/ Route(r, req[r].tenant, req[r].via, req[r].cookie)
       \/ /\ "api" \in Faults
          /\ \E code \in {500, 503} : Done(r, req[r].tenant, code)
          /\ UNCHANGED clients
    /\ UNCHANGED <<cluster, cache, proc, inService>>

\* A path without a tenant.
BadPath(r, p) ==
    /\ Free(r) /\ Listening(p)
    /\ Done(r, "none", 404)
    /\ UNCHANGED <<cluster, cache, proc, inService, clients>>

\* A variant that the checks must reject: the cookie is set for new clients
\* only.
SetsCookieWhenNew(event) == event = "new_assignment"

\* Whether the response carries a new cookie.
SetsCookie(event) == event # "sticky_hit"

\* Whoever holds the address now answers, and the response goes to the client.
Answered(r) ==
    LET q == req[r]  c == ClientOf[r] IN
    /\ q.pc = "chosen"
    /\ pod[q.target] # NoPod
    /\ Done(r, q.tenant, 200)
    /\ jar' = IF SetsCookie(q.event) THEN [jar EXCEPT ![c][q.tenant] = Sign(q.target)] ELSE jar
    /\ last' = [last EXCEPT ![c][q.tenant] = q.target]
    /\ UNCHANGED <<cluster, cache, proc, inService>>

\* Nobody answers at the address: 502, and no cookie.  Without "refuse", the
\* network lets the proxy reach every ready pod.
Unreachable(r) ==
    LET q == req[r] IN
    /\ q.pc = "chosen"
    /\ "refuse" \in Faults \/ q.target \notin ReadyPods(pod[q.target].tenant)
    /\ Done(r, q.tenant, 502)
    /\ UNCHANGED <<cluster, cache, proc, inService, clients>>

\* Between two requests a client loses a cookie, damages it, or has the value
\* of the one it was given for another tenant in it.
EditCookie(c, t) ==
    /\ "edit" \in Faults
    /\ \A r \in Requests : ClientOf[r] = c => Free(r)
    /\ \E x \in {NoCookie} \cup {[addr |-> a, signed |-> FALSE] : a \in Addrs}
                           \cup {jar[c][u] : u \in Tenants} :
          jar' = [jar EXCEPT ![c][t] = x]
    /\ last' = [last EXCEPT ![c][t] = "none"]
    /\ UNCHANGED <<cluster, cache, proc, inService, req>>

Next ==
    \/ \E t \in Tenants, a \in Addrs : PodStarts(t, a)
    \/ \E a \in Addrs : PodReady(a) \/ PodUnready(a) \/ PodGone(a)
    \/ \E t \in Tenants : Publish(t)
    \/ \E p \in Replicas : Start(p) \/ Probe(p) \/ Leave(p) \/ Exit(p) \/ Crash(p)
    \/ \E p \in Go : Sync(p) \/ Watch(p) \/ Terminate(p)
    \/ \E r \in Requests, t \in Tenants, p \in Replicas : Serve(r, t, p) \/ Ask(r, t, p)
    \/ \E r \in Requests, p \in Replicas : BadPath(r, p)
    \/ \E r \in Requests : Told(r) \/ Answered(r) \/ Unreachable(r)
    \/ \E c \in Clients, t \in Tenants : EditCookie(c, t)

Spec == Init /\ [][Next]_vars

\* The endpoint controller and the watches deliver in the end, and an informer
\* lists again until it has succeeded.  No client has to send anything, and no
\* round trip has to end: the Node program sets no timeouts.
Fairness ==
    /\ \A t \in Tenants : WF_vars(Publish(t))
    /\ \A p \in Go : WF_vars(Sync(p)) /\ WF_vars(Watch(p))

FairSpec == Spec /\ Fairness

-----------------------------------------------------------------------------
(* Properties.                                                              *)

Listing == SUBSET [addr : Addrs, notReady : BOOLEAN]
Cookies == [addr : Addrs, signed : BOOLEAN] \cup {NoCookie}

\* Every variable keeps its type; a request under way has a tenant and a
\* replica, and a target once it was chosen.
TypeOK ==
    /\ pod \in [Addrs -> [tenant : Tenants, up : BOOLEAN] \cup {NoPod}]
    /\ slices \in [Tenants -> Listing]
    /\ cache \in [Go -> [Tenants -> Listing]]
    /\ proc \in [Replicas -> {"down", "loading", "serving", "draining"}]
    /\ inService \subseteq Replicas
    /\ req \in [Requests -> [pc : {"idle", "read", "chosen", "done"},
                             tenant : Tenants \cup {"none"}, via : Replicas \cup {"none"},
                             cookie : Cookies, target : Addrs \cup {"none"},
                             event : {"none", "new_assignment", "rejected", "sticky_hit"},
                             code : {0, 200, 404, 500, 502, 503}]]
    /\ \A r \in Requests :
          /\ req[r].pc \in {"read", "chosen"} => req[r].tenant \in Tenants /\ req[r].via \in Replicas
          /\ req[r].pc = "chosen" => req[r].target \in Addrs
    /\ jar \in [Clients -> [Tenants -> Cookies]]
    /\ changes \in 0..MaxChanges
    /\ ever \in [Tenants -> SUBSET Addrs]
    /\ last \in [Clients -> [Tenants -> Addrs \cup {"none"}]]

\* A request for a tenant is sent only to an address that was a ready pod of
\* that tenant, whatever cookie it carries and however far the cache, the slices
\* and the pods are apart.  (handler.go: "routes /t/<tenant id>/... to one of
\* that tenant's pods".)
NeverStranger ==
    \A r \in Requests : req[r].pc = "chosen" => req[r].target \in ever[req[r].tenant]

Sequential(c) == \A r, s \in Requests : ClientOf[r] = c /\ ClientOf[s] = c => r = s

\* A client that sends one request at a time holds a valid cookie of the pod
\* that served it last, whichever program served it: it was moved only together
\* with its cookie.
JarNamesServer ==
    \A c \in Clients, t \in Tenants :
        Sequential(c) /\ last[c][t] # "none" => jar[c][t] = Sign(last[c][t])

\* Once the pods stay as they are, every client comes to rest on one pod for
\* each tenant, also when it has several requests under way at different
\* replicas of either program, and while replicas go on being restarted.
Settles ==
    \A c \in Clients, t \in Tenants : \E x \in Cookies : <>[](jar[c][t] = x)

\* Once the pods stay as they are and replicas stop being restarted, no request
\* for a tenant that has a ready pod is refused or sent into the void: no cookie
\* and no cached address keeps a client on a pod that is gone, and a replica
\* that got requests before its cache was loaded answers 503 for a while only.
FailuresEnd ==
    <>[][\A p \in Replicas : ~Exit(p) /\ ~Crash(p)]_vars =>
    <>[][\A r \in Requests :
            req'[r] # req[r] /\ req'[r].code \in {502, 503}
                => ReadyPods(req'[r].tenant) = {}]_vars
=============================================================================
