-------------------------- MODULE StickyProxyProofs --------------------------
(***************************************************************************)
(* Proofs about StickyProxy for any number of tenants, addresses, clients, *)
(* requests and replicas of either program, any number of changes of pods  *)
(* and any kinds of fault.                                                 *)
(***************************************************************************)
EXTENDS StickyProxy, TLAPS

\* An address that is listed as ready was a ready pod of the tenant.
Backed(l, t) == \A e \in l : ~e.notReady => e.addr \in ever[t]

\* The three places where readiness is kept, each behind the one before.
Listings ==
    /\ \A a \in Addrs : pod[a].up => a \in ever[pod[a].tenant]
    /\ \A t \in Tenants : Backed(slices[t], t)
    /\ \A p \in Go, t \in Tenants : Backed(cache[p][t], t)

\* A request of a sequential client carries the cookie the client still holds,
\* and one that was kept on its pod goes where that cookie points.
Carried(r) ==
    LET held == jar[ClientOf[r]][req[r].tenant] IN
    Sequential(ClientOf[r]) =>
        /\ req[r].pc = "read" => req[r].cookie = held
        /\ req[r].pc = "chosen" /\ req[r].event = "sticky_hit" => held = Sign(req[r].target)

\* The inductive invariant.
IInv ==
    /\ TypeOK
    /\ Listings
    /\ NeverStranger
    /\ JarNamesServer
    /\ \A r \in Requests : Carried(r)

-----------------------------------------------------------------------------
\* Before the first request the invariant holds.
LEMMA InitIInv == Init => IInv
<1> SUFFICES ASSUME Init PROVE IInv
  OBVIOUS
<1>1. TypeOK
  BY BoundAssumption DEF Init, TypeOK, NoPod, Empty, Listing, NoReq, NoCookie, Cookies
<1>2. Listings
  BY DEF Init, Listings, Backed, NoPod, Empty
<1>3. NeverStranger
  BY DEF Init, NeverStranger, NoReq
<1>4. JarNamesServer
  BY ClientAssumption DEF Init, JarNamesServer
<1>5. \A r \in Requests : Carried(r)
  BY DEF Init, Carried, NoReq
<1> QED
  BY <1>1, <1>2, <1>3, <1>4, <1>5 DEF IInv

-----------------------------------------------------------------------------
(* Steps of the cluster.                                                    *)

\* A step of a pod keeps the invariant.
LEMMA PodSteps ==
    ASSUME IInv,
           \/ \E t \in Tenants, a \in Addrs : PodStarts(t, a)
           \/ \E a \in Addrs : PodReady(a) \/ PodUnready(a) \/ PodGone(a)
    PROVE  IInv'
<1> USE DEF IInv
<1>0. PICK a \in Addrs : \/ \E t \in Tenants : PodStarts(t, a)
                         \/ PodReady(a) \/ PodUnready(a) \/ PodGone(a)
  OBVIOUS
<1>1. /\ UNCHANGED <<slices, cache, proc, inService, req, jar, last>>
      /\ changes' \in 0..MaxChanges
  BY <1>0, BoundAssumption DEF PodStarts, PodReady, PodUnready, PodGone, SetPod, TypeOK
<1>2. /\ pod' \in [Addrs -> [tenant : Tenants, up : BOOLEAN] \cup {NoPod}]
      /\ ever' \in [Tenants -> SUBSET Addrs]
      /\ \A t \in Tenants : ever[t] \subseteq ever'[t]
      /\ \A b \in Addrs : pod'[b].up => b \in ever'[pod'[b].tenant]
  <2>0. /\ pod \in [Addrs -> [tenant : Tenants, up : BOOLEAN] \cup {NoPod}]
        /\ ever \in [Tenants -> SUBSET Addrs]
        /\ \A b \in Addrs : pod[b].up => b \in ever[pod[b].tenant]
        /\ \A b \in Addrs : pod[b].up => pod[b] # NoPod
    BY DEF TypeOK, Listings, NoPod
  <2>1. CASE \E t \in Tenants : PodStarts(t, a)
    BY <2>0, <2>1 DEF PodStarts, SetPod, NoPod
  <2>2. CASE PodReady(a)
    <3>1. pod[a].tenant \in Tenants /\ pod[a] \in [tenant : Tenants, up : BOOLEAN]
      BY <2>0, <2>2 DEF PodReady
    <3> QED
      BY <2>0, <2>2, <3>1 DEF PodReady, SetPod, NoPod
  <2>3. CASE PodUnready(a)
    <3>1. pod[a] \in [tenant : Tenants, up : BOOLEAN]
      BY <2>0, <2>3 DEF PodUnready
    <3> QED
      BY <2>0, <2>3, <3>1 DEF PodUnready, SetPod, NoPod
  <2>4. CASE PodGone(a)
    BY <2>0, <2>4 DEF PodGone, SetPod, NoPod
  <2> QED
    BY <1>0, <2>1, <2>2, <2>3, <2>4
<1>3. TypeOK'
  BY <1>1, <1>2 DEF TypeOK
<1>4. Listings'
  BY <1>1, <1>2 DEF Listings, Backed
<1>5. NeverStranger'
  BY <1>1, <1>2 DEF NeverStranger, TypeOK
<1>6. JarNamesServer' /\ (\A r \in Requests : Carried(r))'
  BY <1>1 DEF JarNamesServer, Carried, Sequential
<1> QED
  BY <1>3, <1>4, <1>5, <1>6

\* Bringing the slices up to date keeps the invariant.
LEMMA PublishStep ==
    ASSUME IInv, NEW t \in Tenants, Publish(t)
    PROVE  IInv'
<1> USE DEF IInv
<1>1. /\ slices' = [slices EXCEPT ![t] = Listed(t)]
      /\ UNCHANGED <<pod, changes, ever, cache, proc, inService, req, jar, last>>
  BY DEF Publish, clients
<1>2. Listed(t) \in Listing /\ Backed(Listed(t), t)
  <2>1. ASSUME NEW a \in Addrs PROVE pod[a].up \in BOOLEAN
    <3>1. pod[a] \in [tenant : Tenants, up : BOOLEAN] \/ pod[a] = NoPod
      BY DEF TypeOK
    <3>2. NoPod.up \in BOOLEAN
      BY DEF NoPod
    <3>3. CASE pod[a] \in [tenant : Tenants, up : BOOLEAN]
      BY <3>3
    <3> QED
      BY <3>1, <3>2, <3>3
  <2>2. \A a \in PodsOf(t) : a \in Addrs /\ (pod[a].up => a \in ever[t])
    BY DEF PodsOf, Listings
  <2>3. \A e \in Listed(t) : \E a \in PodsOf(t) : e = [addr |-> a, notReady |-> ~pod[a].up]
    BY DEF Listed
  <2>4. ASSUME NEW e \in Listed(t)
        PROVE  e \in [addr : Addrs, notReady : BOOLEAN] /\ (~e.notReady => e.addr \in ever[t])
    <3>1. PICK a \in PodsOf(t) : e = [addr |-> a, notReady |-> ~pod[a].up]
      BY <2>3
    <3> QED
      BY <2>1, <2>2, <3>1
  <2> QED
    BY <2>4 DEF Listing, Backed
<1>3. TypeOK'
  BY <1>1, <1>2 DEF TypeOK
<1>4. Listings'
  BY <1>1, <1>2 DEF Listings, Backed, TypeOK
<1>5. NeverStranger' /\ JarNamesServer' /\ (\A r \in Requests : Carried(r))'
  BY <1>1 DEF NeverStranger, JarNamesServer, Carried, Sequential
<1> QED
  BY <1>3, <1>4, <1>5

-----------------------------------------------------------------------------
(* Steps of a replica.                                                      *)

\* A replica that starts, loads, joins or leaves the Service, follows the slices
\* or is told to terminate keeps the invariant.
LEMMA ReplicaSteps ==
    ASSUME IInv,
           \/ \E p \in Replicas : Start(p) \/ Probe(p) \/ Leave(p)
           \/ \E p \in Go : Sync(p) \/ Watch(p) \/ Terminate(p)
    PROVE  IInv'
<1> USE DEF IInv
<1>0. PICK p \in Replicas : \/ Start(p) \/ Probe(p) \/ Leave(p)
                            \/ p \in Go /\ (Sync(p) \/ Watch(p) \/ Terminate(p))
  BY DEF Replicas
<1>1. UNCHANGED <<pod, slices, changes, ever, req, jar, last>>
  BY <1>0 DEF Start, Probe, Leave, Sync, Watch, Terminate, cluster, clients
<1>2. cache' = cache \/ (p \in Go /\ cache' = [cache EXCEPT ![p] = slices])
  BY <1>0 DEF Start, Probe, Leave, Sync, Watch, Terminate
<1>3. /\ proc' \in [Replicas -> {"down", "loading", "serving", "draining"}]
      /\ inService' \subseteq Replicas
  BY <1>0 DEF Start, Probe, Leave, Sync, Watch, Terminate, TypeOK
<1>4. TypeOK'
  <2>1. cache' \in [Go -> [Tenants -> Listing]]
    BY <1>2 DEF TypeOK
  <2> QED
    BY <1>1, <1>3, <2>1 DEF TypeOK
<1>5. Listings'
  <2>1. \A q \in Go, t \in Tenants : cache'[q][t] = cache[q][t] \/ cache'[q][t] = slices[t]
    BY <1>2 DEF TypeOK
  <2> QED
    BY <1>1, <2>1 DEF Listings, Backed
<1>6. NeverStranger' /\ JarNamesServer' /\ (\A r \in Requests : Carried(r))'
  BY <1>1 DEF NeverStranger, JarNamesServer, Carried, Sequential
<1> QED
  BY <1>4, <1>5, <1>6

\* A replica that goes away keeps the invariant.
LEMMA GoneStep ==
    ASSUME IInv, NEW p \in Replicas, Gone(p)
    PROVE  IInv'
<1> USE DEF IInv
<1>1. /\ UNCHANGED <<pod, slices, changes, ever, jar, last>>
      /\ proc' = [proc EXCEPT ![p] = "down"]
      /\ inService' = inService
      /\ cache' = [q \in Go |-> IF q = p THEN Empty ELSE cache[q]]
      /\ \A r \in Requests : req'[r] = req[r] \/ req'[r] = Finished("none", 0)
      /\ DOMAIN req' = Requests /\ req' = [r \in Requests |-> req'[r]]
  BY DEF Gone, cluster, clients
<1>2. Empty \in [Tenants -> Listing] /\ \A t \in Tenants : Backed(Empty[t], t)
  BY DEF Empty, Listing, Backed
<1>3. TypeOK'
  BY <1>1, <1>2 DEF TypeOK, Finished, Cookies
<1>4. Listings'
  BY <1>1, <1>2 DEF Listings, Backed
<1>5. NeverStranger' /\ JarNamesServer'
  BY <1>1 DEF NeverStranger, JarNamesServer, Sequential, Finished
<1>6. (\A r \in Requests : Carried(r))'
  BY <1>1 DEF Carried, Sequential, Finished
<1> QED
  BY <1>3, <1>4, <1>5, <1>6

-----------------------------------------------------------------------------
(* Steps of the handler.                                                    *)

\* The cookie a request of a sequential client carries is the one in the jar.
\* Whatever is chosen is listed, and it is the cookie's pod on a sticky hit.
LEMMA ChooseListed ==
    ASSUME NEW p, NEW c, NEW ips, NEW x \in Choose(p, c, ips),
           c \in Cookies
    PROVE  /\ x.target \in ips
           /\ x.event \in {"new_assignment", "rejected", "sticky_hit"}
           /\ x.event = "sticky_hit" => c = Sign(x.target)
BY DEF Choose, Verify, Cookies, NoCookie, Sign

\* What a replica is told was ready once.
LEMMA EndpointsBacked ==
    ASSUME IInv, NEW p \in Replicas, NEW t \in Tenants
    PROVE  Endpoints(p, t) \subseteq ever[t] /\ ever[t] \subseteq Addrs
BY DEF IInv, Listings, Backed, Endpoints, GetEndpointIPs, ReadyAddresses, Replicas, TypeOK

\* What the invariant asks of the record of a request that got under way.
Sound(r, q) ==
    /\ q \in [pc : {"read", "chosen", "done"},
              tenant : Tenants \cup {"none"}, via : Replicas \cup {"none"},
              cookie : Cookies, target : Addrs \cup {"none"},
              event : {"none", "new_assignment", "rejected", "sticky_hit"},
              code : {0, 200, 404, 500, 502, 503}]
    /\ q.pc \in {"read", "chosen"} => q.tenant \in Tenants /\ q.via \in Replicas
    /\ q.pc = "chosen" => q.target \in Addrs /\ q.target \in ever[q.tenant]
    /\ q.pc = "read" => q.cookie = jar[ClientOf[r]][q.tenant]
    /\ Sequential(ClientOf[r]) /\ q.pc = "chosen" /\ q.event = "sticky_hit"
          => jar[ClientOf[r]][q.tenant] = Sign(q.target)

\* A request that is over is sound.
LEMMA FinishedSound ==
    ASSUME NEW r \in Requests, NEW t \in Tenants \cup {"none"},
           NEW code \in {0, 200, 404, 500, 502, 503}
    PROVE  Sound(r, Finished(t, code))
BY DEF Sound, Finished, Cookies

\* A step that changes one request, and neither clients nor replicas.
LEMMA OneRequest ==
    ASSUME IInv, NEW r \in Requests, NEW q, Sound(r, q),
           req' = [req EXCEPT ![r] = q],
           UNCHANGED <<pod, slices, changes, ever, cache, proc, inService, jar, last>>
    PROVE  IInv'
<1> USE DEF IInv, Sound
<1>1. \A s \in Requests : req'[s] = IF s = r THEN q ELSE req[s]
  BY DEF TypeOK
<1>2. TypeOK'
  BY <1>1 DEF TypeOK
<1>3. Listings' /\ JarNamesServer'
  BY DEF Listings, Backed, JarNamesServer, Sequential
<1>4. NeverStranger'
  BY <1>1 DEF NeverStranger
<1>5. (\A s \in Requests : Carried(s))'
  BY <1>1 DEF Carried, Sequential
<1> QED
  BY <1>2, <1>3, <1>4, <1>5

\* The lookup and the choice, by either program.
LEMMA RouteStep ==
    ASSUME IInv, NEW r \in Requests, NEW t \in Tenants, NEW p \in Replicas, NEW c \in Cookies,
           Route(r, t, p, c),
           Sequential(ClientOf[r]) => c = jar[ClientOf[r]][t],
           UNCHANGED <<pod, slices, changes, ever, cache, proc, inService>>
    PROVE  IInv'
<1>0. UNCHANGED <<jar, last>>
  BY DEF Route, Refuse, clients
<1>1. CASE Refuse(r, t)
  <2>1. req' = [req EXCEPT ![r] = Finished(t, 503)]
    BY <1>1 DEF Refuse, Done
  <2>2. Sound(r, Finished(t, 503))
    BY FinishedSound
  <2> QED
    BY <1>0, <2>1, <2>2, OneRequest
<1>2. CASE \E x \in Choose(p, c, Endpoints(p, t)) :
             req' = [req EXCEPT ![r] = [pc |-> "chosen", tenant |-> t, via |-> p, cookie |-> NoCookie,
                                        target |-> x.target, event |-> x.event, code |-> 0]]
  <2>1. PICK x \in Choose(p, c, Endpoints(p, t)) :
             req' = [req EXCEPT ![r] = [pc |-> "chosen", tenant |-> t, via |-> p, cookie |-> NoCookie,
                                        target |-> x.target, event |-> x.event, code |-> 0]]
    BY <1>2
  <2>2. /\ x.target \in Addrs /\ x.target \in ever[t]
        /\ x.event \in {"new_assignment", "rejected", "sticky_hit"}
        /\ x.event = "sticky_hit" => c = Sign(x.target)
    BY ChooseListed, EndpointsBacked
  <2> DEFINE q == [pc |-> "chosen", tenant |-> t, via |-> p, cookie |-> NoCookie,
                   target |-> x.target, event |-> x.event, code |-> 0]
  <2>3. Sound(r, q)
    BY <2>2 DEF Sound, Cookies
  <2>4. req' = [req EXCEPT ![r] = q]
    BY <2>1
  <2> HIDE DEF q
  <2> QED
    BY <1>0, <2>3, <2>4, OneRequest
<1> QED
  BY <1>1, <1>2 DEF Route

\* A request that arrives, hears from the API server or fails.
LEMMA HandlerSteps ==
    ASSUME IInv, NEW r \in Requests,
           \/ \E t \in Tenants, p \in Replicas : Serve(r, t, p) \/ Ask(r, t, p)
           \/ \E p \in Replicas : BadPath(r, p)
           \/ Told(r)
           \/ Unreachable(r)
    PROVE  IInv'
<1>0. /\ ClientOf[r] \in Clients
      /\ \A t \in Tenants : jar[ClientOf[r]][t] \in Cookies
      /\ req[r].pc \in {"read", "chosen"} => req[r].tenant \in Tenants /\ req[r].via \in Replicas
      /\ req[r].cookie \in Cookies
  BY ClientAssumption DEF IInv, TypeOK
<1>1. ASSUME NEW t \in Tenants, NEW p \in Replicas, Serve(r, t, p) PROVE IInv'
  BY <1>0, <1>1, RouteStep DEF Serve, cluster
<1>2. ASSUME NEW t \in Tenants, NEW p \in Replicas, Ask(r, t, p) PROVE IInv'
  <2> DEFINE q == [pc |-> "read", tenant |-> t, via |-> p, cookie |-> jar[ClientOf[r]][t],
                   target |-> "none", event |-> "none", code |-> 0]
  <2>1. Sound(r, q)
    BY <1>0, <1>2 DEF Sound, Ask
  <2>2. /\ req' = [req EXCEPT ![r] = q]
        /\ UNCHANGED <<pod, slices, changes, ever, cache, proc, inService, jar, last>>
    BY <1>2 DEF Ask, cluster, clients
  <2> HIDE DEF q
  <2> QED
    BY <2>1, <2>2, OneRequest
<1>3. ASSUME NEW t \in Tenants \cup {"none"}, NEW code \in {0, 200, 404, 500, 502, 503},
             Done(r, t, code),
             UNCHANGED <<cluster, cache, proc, inService, clients>>
      PROVE  IInv'
  <2>1. Sound(r, Finished(t, code))
    BY FinishedSound
  <2> QED
    BY <1>3, <2>1, OneRequest DEF Done, cluster, clients
<1>4. ASSUME NEW p \in Replicas, BadPath(r, p) PROVE IInv'
  BY <1>3, <1>4 DEF BadPath
<1>5. CASE Told(r)
  <2>1. req[r].tenant \in Tenants /\ req[r].via \in Replicas
    BY <1>0, <1>5 DEF Told
  <2>2. CASE Route(r, req[r].tenant, req[r].via, req[r].cookie)
    <3>1. Sequential(ClientOf[r]) => req[r].cookie = jar[ClientOf[r]][req[r].tenant]
      BY <1>5 DEF Told, IInv, Carried
    <3> QED
      BY <1>0, <1>5, <2>1, <2>2, <3>1, RouteStep DEF Told, cluster
  <2>3. CASE (\E code \in {500, 503} : Done(r, req[r].tenant, code)) /\ UNCHANGED clients
    BY <1>3, <1>5, <2>1, <2>3 DEF Told
  <2> QED
    BY <1>5, <2>2, <2>3 DEF Told
<1>6. CASE Unreachable(r)
  BY <1>0, <1>3, <1>6 DEF Unreachable
<1> QED
  BY <1>1, <1>2, <1>4, <1>5, <1>6

\* The answer of a pod and the cookie that comes with it.
LEMMA AnsweredStep ==
    ASSUME IInv, NEW r \in Requests, Answered(r)
    PROVE  IInv'
<1> USE DEF IInv
<1> DEFINE c == ClientOf[r]
           t == req[r].tenant
           a == req[r].target
<1>1. /\ c \in Clients /\ t \in Tenants /\ a \in Addrs /\ req[r].via \in Replicas
      /\ req[r].pc = "chosen"
  BY ClientAssumption DEF Answered, TypeOK
<1>2. /\ req' = [req EXCEPT ![r] = Finished(t, 200)]
      /\ last' = [last EXCEPT ![c][t] = a]
      /\ jar' = IF req[r].event # "sticky_hit" THEN [jar EXCEPT ![c][t] = Sign(a)] ELSE jar
      /\ UNCHANGED <<pod, slices, changes, ever, cache, proc, inService>>
  BY DEF Answered, Done, SetsCookie, cluster
<1>3. Sequential(c) => jar'[c][t] = Sign(a)
  <2>1. Sequential(c) /\ req[r].event = "sticky_hit" => jar[c][t] = Sign(a)
    BY <1>1 DEF Carried
  <2> QED
    BY <1>1, <1>2, <2>1 DEF TypeOK
<1>4. \A d \in Clients, u \in Tenants :
         ~(d = c /\ u = t) => jar'[d][u] = jar[d][u] /\ last'[d][u] = last[d][u]
  BY <1>1, <1>2 DEF TypeOK
<1>5. last'[c][t] = a
  BY <1>1, <1>2 DEF TypeOK
<1>6. \A s \in Requests : req'[s] = IF s = r THEN Finished(t, 200) ELSE req[s]
  BY <1>2 DEF TypeOK
<1>7. TypeOK'
  <2>1. Sign(a) \in Cookies
    BY <1>1 DEF Sign, Cookies
  <2>2. Finished(t, 200) \in
            [pc : {"idle", "read", "chosen", "done"},
             tenant : Tenants \cup {"none"}, via : Replicas \cup {"none"},
             cookie : Cookies, target : Addrs \cup {"none"},
             event : {"none", "new_assignment", "rejected", "sticky_hit"},
             code : {0, 200, 404, 500, 502, 503}]
    BY <1>1 DEF Finished, Cookies
  <2>3. jar' \in [Clients -> [Tenants -> Cookies]]
    BY <1>1, <1>2, <2>1 DEF TypeOK
  <2>4. last' \in [Clients -> [Tenants -> Addrs \cup {"none"}]]
    BY <1>1, <1>2 DEF TypeOK
  <2>5. Finished(t, 200).pc = "done"
    BY DEF Finished
  <2> QED
    BY <1>2, <1>6, <2>2, <2>3, <2>4, <2>5 DEF TypeOK
<1>8. Listings'
  BY <1>2 DEF Listings, Backed
<1>9. NeverStranger'
  BY <1>2, <1>6 DEF NeverStranger, Finished
<1>10. JarNamesServer'
  BY <1>3, <1>4, <1>5 DEF JarNamesServer, Sequential
<1>11. (\A s \in Requests : Carried(s))'
  <2> SUFFICES ASSUME NEW s \in Requests, Sequential(ClientOf[s])
               PROVE  Carried(s)'
    BY DEF Carried, Sequential
  <2>1. CASE s = r
    BY <1>6, <2>1 DEF Carried, Finished
  <2>2. CASE s # r
    <3>1. ClientOf[s] # c /\ ClientOf[s] \in Clients
      BY <2>2, ClientAssumption DEF Sequential
    <3>2. req'[s] = req[s]
      BY <1>6, <2>2
    <3>3. req[s].pc \in {"read", "chosen"} => req[s].tenant \in Tenants
      BY DEF TypeOK
    <3> QED
      BY <1>4, <3>1, <3>2, <3>3 DEF Carried
  <2> QED
    BY <2>1, <2>2
<1> QED
  BY <1>7, <1>8, <1>9, <1>10, <1>11

\* A client that edits a cookie has no request under way.
LEMMA EditStep ==
    ASSUME IInv, NEW c \in Clients, NEW t \in Tenants, EditCookie(c, t)
    PROVE  IInv'
<1> USE DEF IInv
<1>1. PICK x \in Cookies : jar' = [jar EXCEPT ![c][t] = x]
  <2>1. PICK x \in {NoCookie} \cup {[addr |-> a, signed |-> FALSE] : a \in Addrs}
                               \cup {jar[c][u] : u \in Tenants} :
           jar' = [jar EXCEPT ![c][t] = x]
    BY DEF EditCookie
  <2>2. x = NoCookie \/ (\E a \in Addrs : x = [addr |-> a, signed |-> FALSE])
                     \/ (\E u \in Tenants : x = jar[c][u])
    BY <2>1
  <2>3. (\E u \in Tenants : x = jar[c][u]) => x \in Cookies
    BY DEF TypeOK
  <2>4. x = NoCookie \/ (\E a \in Addrs : x = [addr |-> a, signed |-> FALSE]) => x \in Cookies
    <3>1. \A a \in Addrs : [addr |-> a, signed |-> FALSE] \in [addr : Addrs, signed : BOOLEAN]
      OBVIOUS
    <3> QED
      BY <3>1 DEF Cookies
  <2> QED
    BY <2>1, <2>2, <2>3, <2>4
<1>2. /\ last' = [last EXCEPT ![c][t] = "none"]
      /\ UNCHANGED <<pod, slices, changes, ever, cache, proc, inService, req>>
      /\ \A r \in Requests : ClientOf[r] = c => req[r].pc \in {"idle", "done"}
  BY DEF EditCookie, Free, cluster
<1>3. TypeOK'
  BY <1>1, <1>2 DEF TypeOK
<1>4. Listings' /\ NeverStranger'
  BY <1>2 DEF Listings, Backed, NeverStranger
<1>5. JarNamesServer'
  BY <1>1, <1>2 DEF JarNamesServer, Sequential, TypeOK
<1>6. (\A r \in Requests : Carried(r))'
  <2> SUFFICES ASSUME NEW r \in Requests, Sequential(ClientOf[r])
               PROVE  Carried(r)'
    BY DEF Carried, Sequential
  <2>1. CASE ClientOf[r] = c
    BY <1>2, <2>1 DEF Carried
  <2>2. CASE ClientOf[r] # c
    <3>1. jar'[ClientOf[r]] = jar[ClientOf[r]]
      BY <1>1, <2>2, ClientAssumption DEF TypeOK
    <3> QED
      BY <1>2, <3>1 DEF Carried
  <2> QED
    BY <2>1, <2>2
<1> QED
  BY <1>3, <1>4, <1>5, <1>6

-----------------------------------------------------------------------------
\* The invariant of the proxy: it holds initially and every step keeps it.
THEOREM Invariance == Spec => []IInv
<1>1. ASSUME IInv, [Next]_vars PROVE IInv'
  <2>1. CASE UNCHANGED vars
    BY <1>1, <2>1
       DEF vars, IInv, TypeOK, Listings, Backed, NeverStranger, JarNamesServer, Sequential, Carried
  <2>2. ASSUME NEW p \in Replicas, Exit(p) \/ Crash(p) PROVE IInv'
    BY <1>1, <2>2, GoneStep DEF Exit, Crash
  <2>3. CASE Next
    BY <1>1, <2>2, <2>3, PodSteps, PublishStep, ReplicaSteps, HandlerSteps, AnsweredStep, EditStep
       DEF Next
  <2> QED
    BY <1>1, <2>1, <2>3
<1> QED
  BY <1>1, InitIInv, PTL DEF Spec

\* Type correctness of both programs' handlers, replicas and the cluster.
THEOREM TypeCorrect == Spec => []TypeOK
<1>1. IInv => TypeOK
  BY DEF IInv
<1> QED
  BY <1>1, Invariance, PTL

\* handler.go and sticky-proxy.js send a request only to an address that was a
\* ready pod of the tenant in its path.
THEOREM NeverStrangerAlways == Spec => []NeverStranger
<1>1. IInv => NeverStranger
  BY DEF IInv
<1> QED
  BY <1>1, Invariance, PTL

\* The cookie of a sequential client names the pod that served it last.
THEOREM JarAlwaysNamesServer == Spec => []JarNamesServer
<1>1. IInv => JarNamesServer
  BY DEF IInv
<1> QED
  BY <1>1, Invariance, PTL
=============================================================================
