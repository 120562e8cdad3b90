------------------------------ MODULE Webhooks ------------------------------
(***************************************************************************)
(* Webhook registrations (services/webhook_registrations.py), the signed   *)
(* delivery of an event to every registration of a tenant                  *)
(* (shared/webhook_dispatcher.py), and a tenant's receiver                 *)
(* (scripts/webhook_test_receiver.py).                                     *)
(*                                                                         *)
(* A post is one call of dispatch_tenant_webhooks by a poller.  Its awaits *)
(* (the query, each HTTP request, the commit) are where other coroutines   *)
(* and the outside world run.  HMAC is symbolic: a signature is what it    *)
(* was computed from, and equal only if all of that is.                    *)
(***************************************************************************)
EXTENDS Integers, FiniteSets

CONSTANTS
    Tenants,   \* ids of the tenants in the database at start
    Regs,      \* POST /tenants/{id}/webhooks/ requests, one row and one secret each
    Owner,     \* the tenant of each registration
    SecretAt,  \* the registration whose secret the receiver at r's URL was given
    Skew,      \* how far that receiver's clock is ahead of the platform's
    Posts,     \* calls of dispatch_tenant_webhooks
    TenantOf,  \* the tenant each of them is for
    Window,    \* REPLAY_WINDOW_SECONDS, in clock ticks
    MaxTime,   \* bound on the clock
    MaxReceipts,  \* bound on the requests receivers handle
    Faults     \* the kinds of failure the environment may inject

FaultKinds == {"net",     \* a request is repeated, late, or has its timestamp changed
               "db",      \* the database connection fails during a commit or a query
               "drip",    \* a receiver sends its answer byte by byte
               "crash"}   \* the control-plane process stops and is restarted

ASSUME OwnerAssumption == Owner \in [Regs -> Tenants]
ASSUME SecretAssumption == SecretAt \in [Regs -> Regs]
ASSUME SkewAssumption == Skew \in [Regs -> Int]
ASSUME TenantOfAssumption == TenantOf \in [Posts -> Tenants]
ASSUME ClockAssumption == Window \in Nat /\ MaxTime \in Nat /\ MaxReceipts \in Nat
ASSUME FaultsAssumption == Faults \subseteq FaultKinds

VARIABLES
    tenants,   \* rows of table tenants
    regs,      \* rows of table webhook_registrations (is_active is never cleared)
    told,      \* registrations whose secret was returned to the tenant
    job,       \* where each call of the dispatcher is
    todo,      \* registrations its loop has still to visit
    cur,       \* registration whose answer it awaits
    held,      \* WebhookDelivery objects added to its session
    rows,      \* rows of table webhook_deliveries
    wire,      \* requests that left the dispatcher
    verdicts,  \* what receivers decided about which request, and when
    now        \* the platform's clock

vars == <<tenants, regs, told, job, todo, cur, held, rows, wire, verdicts, now>>
dbVars == <<tenants, regs, told, rows>>
jobVars == <<job, todo, cur, held>>
netVars == <<wire, verdicts, now>>

Times == 0..MaxTime
Awaiting == {"waiting", "dripping"}
Live == {"looping"} \cup Awaiting
JobPCs == Live \cup {"idle", "done", "dead", "lost"}

\* at is the time the request was made; the other fields are what it carries.
Requests == [post : Posts, reg : Regs, ts : Times, at : Times, sig : Regs \X Times \X Posts]
Verdicts == [req : Requests, clock : Times, ok : BOOLEAN]
Deliveries == [post : Posts, reg : Regs, status : {"success", "failed"}]

Init ==
    /\ tenants = Tenants
    /\ regs = {}
    /\ told = {}
    /\ job = [p \in Posts |-> "idle"]
    /\ todo = [p \in Posts |-> {}]
    /\ cur = [p \in Posts |-> {}]
    /\ held = [p \in Posts |-> {}]
    /\ rows = {}
    /\ wire = {}
    /\ verdicts = {}
    /\ now = 0

-----------------------------------------------------------------------------
(* Registrations.                                                           *)

\* The foreign key refuses the row of a deleted tenant.  A commit whose answer
\* is lost may leave a row whose secret nobody was told.
CreateRegistration(r) ==
    /\ r \notin regs
    /\ Owner[r] \in tenants
    /\ \/ /\ regs' = regs \cup {r}
          /\ told' = told \cup {r}
       \/ /\ "db" \in Faults
          /\ regs' = regs \cup {r}
          /\ UNCHANGED told
    /\ UNCHANGED <<tenants, rows, jobVars, netVars>>

-----------------------------------------------------------------------------
(* dispatch_tenant_webhooks.                                                *)

JobGoes(p, pc) == job' = [job EXCEPT ![p] = pc]

RegistrationsOf(t) == {r \in regs : Owner[r] = t}

\* The query; without registrations there is nothing to commit.
Query(p) ==
    /\ job[p] = "idle"
    /\ \/ /\ todo' = [todo EXCEPT ![p] = RegistrationsOf(TenantOf[p])]
          /\ JobGoes(p, IF RegistrationsOf(TenantOf[p]) = {} THEN "done" ELSE "looping")
       \/ /\ "db" \in Faults
          /\ JobGoes(p, "dead")
          /\ UNCHANGED todo
    /\ UNCHANGED <<dbVars, cur, held, netVars>>

\* A variant that the checks must reject: only the body is signed.
SignBodyOnly(r, ts, p) == <<r, 0, p>>

sign_payload(r, ts, p) == <<r, ts, p>>

\* A variant that the checks must reject: one timestamp for the whole loop.
StampOnce(p) == IF \E m \in wire : m.post = p THEN (CHOOSE m \in wire : m.post = p).ts ELSE now

\* The timestamp is taken anew for each registration.
Stamp(p) == now

\* One turn of the loop up to the await: stamp, sign, send.
Send(p) ==
    /\ job[p] = "looping"
    /\ \E r \in todo[p] :
          /\ wire' = wire \cup {[post |-> p, reg |-> r, ts |-> Stamp(p), at |-> now,
                                 sig |-> sign_payload(r, Stamp(p), p)]}
          /\ todo' = [todo EXCEPT ![p] = @ \ {r}]
          /\ cur' = [cur EXCEPT ![p] = {r}]
    /\ JobGoes(p, "waiting")
    /\ UNCHANGED <<dbVars, held, verdicts, now>>

Held(p, r, s) == held' = [held EXCEPT ![p] = @ \cup {[post |-> p, reg |-> r, status |-> s]}]

\* A variant that the checks must reject: any answer counts as delivered.
SuccessIfAnswered(ok) == "success"

\* 200 is the only answer below 300 of the receiver, its rejection is a 401.
StatusOf(ok) == IF ok THEN "success" ELSE "failed"

\* The answer has begun to arrive, a little at a time.  The timeout of 15 seconds
\* is one for each read, so it does not end this: post() reads the whole body.
Trickle(p) ==
    /\ "drip" \in Faults
    /\ job[p] = "waiting"
    /\ JobGoes(p, "dripping")
    /\ UNCHANGED <<dbVars, todo, cur, held, netVars>>

\* The whole answer has arrived.
Answered(p) ==
    /\ job[p] \in Awaiting
    /\ \E v \in verdicts :
          /\ v.req.post = p /\ v.req.reg \in cur[p]
          /\ Held(p, v.req.reg, StatusOf(v.ok))
    /\ cur' = [cur EXCEPT ![p] = {}]
    /\ JobGoes(p, "looping")
    /\ UNCHANGED <<dbVars, todo, netVars>>

\* A variant that the checks must reject: the exception leaves the loop.
RaisedUncaught(p) ==
    /\ job[p] \in Awaiting
    /\ cur' = [cur EXCEPT ![p] = {}]
    /\ JobGoes(p, "dead")
    /\ UNCHANGED <<dbVars, todo, held, netVars>>

\* A variant that the checks must reject: a request that raised is not added.
RaisedUnrecorded(p) ==
    /\ job[p] \in Awaiting
    /\ cur' = [cur EXCEPT ![p] = {}]
    /\ JobGoes(p, "looping")
    /\ UNCHANGED <<dbVars, todo, held, netVars>>

\* No connection, no byte for 15 seconds, or a connection that breaks: the
\* receiver may have the request, or get it later, all the same.
Raised(p) ==
    /\ job[p] \in Awaiting
    /\ \E r \in cur[p] : Held(p, r, "failed")
    /\ cur' = [cur EXCEPT ![p] = {}]
    /\ JobGoes(p, "looping")
    /\ UNCHANGED <<dbVars, todo, netVars>>

\* One commit for the whole loop; the foreign keys refuse it when the tenant,
\* and with it the registrations, went away meanwhile.
Commit(p) ==
    /\ job[p] = "looping" /\ todo[p] = {}
    /\ \/ /\ \A d \in held[p] : d.reg \in regs
          /\ rows' = rows \cup held[p]
          /\ JobGoes(p, "done")
       \/ /\ \E d \in held[p] : d.reg \notin regs
          /\ JobGoes(p, "dead")
          /\ UNCHANGED rows
       \/ /\ "db" \in Faults
          /\ \A d \in held[p] : d.reg \in regs
          /\ rows' \in {rows, rows \cup held[p]}
          /\ JobGoes(p, "dead")
    /\ UNCHANGED <<tenants, regs, told, todo, cur, held, netVars>>

-----------------------------------------------------------------------------
(* The receiver, the network (external), the tenants route and restarts.    *)

OutsideWindow(clock, ts) == clock - ts > Window \/ ts - clock > Window

\* do_POST: first the window, by the receiver's own clock, then the signature.
Accepts(m) ==
    /\ ~OutsideWindow(now + Skew[m.reg], m.ts)
    /\ m.sig = sign_payload(SecretAt[m.reg], m.ts, m.post)

\* A request is delivered now: for the first time and while the dispatcher
\* waits, or later, or again, or with another timestamp header.
Receive(m) ==
    /\ SecretAt[m.reg] \in told
    /\ Cardinality(verdicts) < MaxReceipts
    /\ \E t \in Times :
          LET got == [post |-> m.post, reg |-> m.reg, ts |-> t, at |-> m.at, sig |-> m.sig] IN
          /\ \/ t = m.ts /\ job[m.post] \in Awaiting /\ m.reg \in cur[m.post]
             \/ "net" \in Faults
          /\ verdicts' = verdicts \cup {[req |-> got, clock |-> now, ok |-> Accepts(got)]}
    /\ UNCHANGED <<dbVars, jobVars, wire, now>>

Tick ==
    /\ now < MaxTime
    /\ now' = now + 1
    /\ UNCHANGED <<dbVars, jobVars, wire, verdicts>>

\* DELETE /tenants/{id}: registrations and deliveries go by ON DELETE CASCADE.
DeleteTenant(t) ==
    /\ t \in tenants
    /\ tenants' = tenants \ {t}
    /\ regs' = {r \in regs : Owner[r] # t}
    /\ rows' = {d \in rows : Owner[d.reg] # t}
    /\ UNCHANGED <<told, jobVars, netVars>>

\* Sessions and background tasks exist only in memory.
Crash ==
    /\ "crash" \in Faults
    /\ \E p \in Posts : job[p] \in Live
    /\ job' = [p \in Posts |-> IF job[p] \in Live THEN "lost" ELSE job[p]]
    /\ UNCHANGED <<dbVars, todo, cur, held, netVars>>

JobStep(p) == Send(p) \/ Answered(p) \/ Raised(p) \/ Commit(p)

Next ==
    \/ \E r \in Regs : CreateRegistration(r)
    \/ \E p \in Posts : Query(p) \/ JobStep(p) \/ Trickle(p)
    \/ \E m \in wire : Receive(m)
    \/ \E t \in Tenants : DeleteTenant(t)
    \/ Tick
    \/ Crash

Spec == Init /\ [][Next]_vars

\* The event loop resumes the dispatcher, which waits for the first byte of an
\* answer for 15 seconds at most.  Nothing makes a receiver answer, and nothing
\* ends an answer that has begun.
FairSpec == Spec /\ \A p \in Posts : WF_vars(job[p] # "dripping" /\ JobStep(p))

-----------------------------------------------------------------------------
(* Properties.                                                              *)

\* Every variable keeps its type.
TypeOK ==
    /\ tenants \subseteq Tenants
    /\ regs \subseteq Regs
    /\ told \subseteq Regs
    /\ job \in [Posts -> JobPCs]
    /\ todo \in [Posts -> SUBSET Regs]
    /\ cur \in [Posts -> SUBSET Regs]
    /\ held \in [Posts -> SUBSET Deliveries]
    /\ rows \subseteq Deliveries
    /\ wire \subseteq Requests
    /\ verdicts \subseteq Verdicts
    /\ now \in Times

\* What a receiver accepts was made by the platform for a tenant's own
\* registration, with that receiver's secret, and is no older than the window
\* (plus the receiver's clock error), however often the network repeats it and
\* whatever timestamp it puts on it: signing "{timestamp}.{body}" is what makes
\* the replay window work.
AcceptedIsFresh ==
    \A v \in verdicts : v.ok =>
        /\ v.clock + Skew[v.req.reg] - v.req.at <= Window
        /\ SecretAt[v.req.reg] = v.req.reg
        /\ Owner[v.req.reg] = TenantOf[v.req.post]

\* A receiver that has the right secret rejects a request that came as it was
\* sent only if the request was made outside the window by that receiver's
\* clock: the time that other registrations took before it does not count
\* against it.
OnlyStaleRejected ==
    \A v \in verdicts :
        ~v.ok /\ v.req \in wire /\ SecretAt[v.req.reg] = v.req.reg
        => v.clock + Skew[v.req.reg] - v.req.at \notin (-Window)..Window

\* A delivery row that says success stands for a request that its receiver
\* accepted, through timeouts, late answers and deletions.
SuccessMeansAccepted ==
    \A d \in rows : d.status = "success" =>
        \E v \in verdicts : v.ok /\ v.req.post = d.post /\ v.req.reg = d.reg

Attempted(p, r) == \E m \in wire : m.post = p /\ m.reg = r
Recorded(p, r) == \E d \in rows : d.post = p /\ d.reg = r

\* The audit trail of a call that returned normally is complete and keeps
\* complete: every registration it sent to that still exists has its row,
\* whether the request succeeded, was rejected or raised, and rows never
\* outlive the registration.
DoneIsRecorded ==
    /\ \A p \in Posts, r \in regs :
          job[p] = "done" /\ Attempted(p, r) /\ Owner[r] \in tenants => Recorded(p, r)
    /\ \A d \in rows : d.reg \in regs /\ Owner[d.reg] \in tenants

\* Every registration the query found is sent to: receivers that cannot be
\* reached, say nothing, reject or break off keep none of the later ones from
\* their turn.  A restart does, and so does a receiver whose answer never ends.
EveryoneIsTried ==
    \A p \in Posts, r \in Regs :
        (job[p] = "looping" /\ r \in todo[p])
            ~> Attempted(p, r) \/ job[p] \in {"lost", "dripping"}
=============================================================================
