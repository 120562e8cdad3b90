--------------------------- MODULE TenantRegistry ---------------------------
(***************************************************************************)
(* The tenants and their API keys (services/tenants.py, services/          *)
(* api_keys.py and their routes), and the two checks in front of every     *)
(* route (dependencies.py, main.py).                                       *)
(*                                                                         *)
(* A call is one request coroutine; it may be used again when its request  *)
(* is answered.  Its pc is the await it stands at, or the answer it gave.  *)
(* The check of the key and the effects of the handler are separate        *)
(* statements of one session, so other requests commit between them.       *)
(***************************************************************************)
EXTENDS Naturals, FiniteSets

CONSTANTS
    Calls,       \* request coroutines
    Names,       \* names a tenant may give to a key, "primary" among them
    MaxTenants,  \* bound on the ids the tenants sequence hands out
    MaxKeys,     \* bound on the ids the api_keys sequence hands out
    Faults       \* the kinds of failure the environment may inject

FaultKinds == {"db",      \* the database connection fails during a statement
               "crash"}   \* the control-plane process stops and is restarted

ASSUME CallsAssumption == IsFiniteSet(Calls)
ASSUME NamesAssumption == "primary" \in Names
ASSUME BoundsAssumption == MaxTenants \in Nat /\ MaxKeys \in Nat
ASSUME FaultsAssumption == Faults \subseteq FaultKinds

VARIABLES
    tenants,  \* ids in table tenants
    active,   \* those whose is_active is true
    ns,       \* k8s_namespace: n for tenant-{n}, 0 for the placeholder
    keys,     \* ids in table api_keys
    revoked,  \* those whose revoked_at is set
    owner,    \* tenant_id of each key row, also after the row is gone
    name,     \* name of each key row
    shown,    \* keys whose raw value was returned to a caller
    nextT,    \* next id of the tenants sequence
    nextK,    \* next id of the api_keys sequence
    pc,       \* where each call stands
    arg,      \* what it has at hand there
    effects   \* what was done in the name of a tenant, by which key

dbVars == <<tenants, active, ns, keys, revoked, owner, name>>
vars == <<dbVars, nextT, nextK, pc, arg, shown, effects>>

TIds == 1..MaxTenants
KIds == 1..MaxKeys

\* The handlers behind verify_tenant that the check lets through: two of the
\* keys router, and any state-changing one of the other routers.
Handlers == {"addkey", "revoke", "work"}
Awaits == Handlers \cup {"create", "flushed", "created", "delete", "update", "loaded",
                         "keyed", "revoking"}
\* "refused" is any 4xx but the 409 of a creation, "error" a 500 or no answer.
Answers == {"idle", "ok", "refused", "conflict", "error"}
Finished(c) == pc[c] \in Answers

\* Fields of PUT /tenants/{id}.
Bodies == {"active", "inactive", "name", "nothing"}

\* tid: the tenant of the request; kid: the key it created or loaded; cred: the
\* key it was authorised by; body, loaded: of an update, what it asks for and
\* the is_active it read.
Args == [tid : 0..MaxTenants, kid : 0..MaxKeys, cred : 0..MaxKeys,
         body : Bodies, loaded : BOOLEAN]
Arg(t, k, a) == [tid |-> t, kid |-> k, cred |-> a, body |-> "nothing", loaded |-> FALSE]
UpdateArg(t, b, l) == [tid |-> t, kid |-> 0, cred |-> 0, body |-> b, loaded |-> l]
Blank == Arg(0, 0, 0)

Init ==
    /\ tenants = {} /\ active = {} /\ keys = {} /\ revoked = {} /\ shown = {}
    /\ ns = [t \in TIds |-> 0]
    /\ owner = [k \in KIds |-> 0]
    /\ name = [k \in KIds |-> "none"]
    /\ nextT = 1 /\ nextK = 1
    /\ pc = [c \in Calls |-> "idle"]
    /\ arg = [c \in Calls |-> Blank]
    /\ effects = {}

Goes(c, at, a) == pc' = [pc EXCEPT ![c] = at] /\ arg' = [arg EXCEPT ![c] = a]
Ends(c, answer) == Goes(c, answer, Blank)
Fails(c) == "db" \in Faults /\ Ends(c, "error")

\* The model's ids last for the calls that are under way.
Creating == {c \in Calls : pc[c] = "create"}
Keying == {c \in Calls : pc[c] \in {"create", "flushed", "addkey"}}
IdsLeft ==
    /\ nextT + Cardinality(Creating) <= MaxTenants
    /\ nextK + Cardinality(Keying) <= MaxKeys

-----------------------------------------------------------------------------
(* The tenants routes, behind verify_admin.                                 *)

verify_admin(c) ==
    /\ Finished(c)
    /\ \/ Ends(c, "refused")
       \/ IdsLeft /\ Goes(c, "create", Blank)
       \/ \E t \in TIds : Goes(c, "delete", Arg(t, 0, 0))
       \/ \E t \in TIds, b \in Bodies : Goes(c, "update", UpdateArg(t, b, FALSE))
    /\ UNCHANGED <<dbVars, nextT, nextK, shown, effects>>

\* A variant that the checks must reject: a creation waits for every other one,
\* not only for the one that has the placeholder.
FlushTenantWaitsForAll(c) ==
    /\ pc[c] = "create"
    /\ \A o \in Calls \ {c} : pc[o] \notin {"create", "flushed"}
    /\ nextT' = nextT + 1
    /\ Goes(c, "flushed", Arg(nextT, 0, 0))
    /\ UNCHANGED <<dbVars, nextK, shown, effects>>

\* A variant that the checks must reject: a creation that finds another one's
\* placeholder does not wait for it to go away.
FlushTenantNoWait(c) ==
    /\ pc[c] = "create"
    /\ IF \E o \in Calls : pc[o] = "flushed"
       THEN Ends(c, "conflict") /\ UNCHANGED nextT
       ELSE nextT' = nextT + 1 /\ Goes(c, "flushed", Arg(nextT, 0, 0))
    /\ UNCHANGED <<dbVars, nextK, shown, effects>>

\* INSERT of the placeholder namespace.  The unique index makes it wait for an
\* open transaction that has inserted the same value, and refuses it if a
\* committed row has it.
FlushTenant(c) ==
    /\ pc[c] = "create"
    /\ \A o \in Calls : pc[o] # "flushed"
    /\ \/ IF \E t \in tenants : ns[t] = 0
          THEN Ends(c, "conflict") /\ UNCHANGED nextT
          ELSE nextT' = nextT + 1 /\ Goes(c, "flushed", Arg(nextT, 0, 0))
       \/ Fails(c) /\ UNCHANGED nextT
    /\ UNCHANGED <<dbVars, nextK, shown, effects>>

InsertKeyRow(t, n) ==
    /\ keys' = keys \cup {nextK}
    /\ owner' = [owner EXCEPT ![nextK] = t]
    /\ name' = [name EXCEPT ![nextK] = n]

\* A variant that the checks must reject: the key is left to a later request.
TenantRowsKeyless(t) ==
    /\ tenants' = tenants \cup {t}
    /\ active' = active \cup {t}
    /\ ns' = [ns EXCEPT ![t] = t]
    /\ UNCHANGED <<keys, owner, name>>

\* The UPDATE of the namespace and the INSERT of the first key.
TenantRows(t) ==
    /\ tenants' = tenants \cup {t}
    /\ active' = active \cup {t}
    /\ ns' = [ns EXCEPT ![t] = t]
    /\ InsertKeyRow(t, "primary")

\* A failed commit is rolled back and raised, so the 409 of the route is never
\* this one's; whether the rows are there is open when only the answer is lost.
CommitTenant(c) ==
    /\ pc[c] = "flushed"
    /\ nextK' = nextK + 1
    /\ \/ TenantRows(arg[c].tid) /\ Goes(c, "created", Arg(arg[c].tid, nextK, 0))
       \/ TenantRows(arg[c].tid) /\ Fails(c)
       \/ Fails(c) /\ UNCHANGED <<tenants, active, ns, keys, owner, name>>
    /\ UNCHANGED <<revoked, nextT, shown, effects>>

\* The raw key leaves the process only if the new row can be read back.
RefreshTenant(c) ==
    /\ pc[c] = "created"
    /\ \/ arg[c].tid \in tenants /\ Ends(c, "ok") /\ shown' = shown \cup {arg[c].kid}
       \/ arg[c].tid \notin tenants /\ Ends(c, "error") /\ UNCHANGED shown
       \/ Fails(c) /\ UNCHANGED shown
    /\ UNCHANGED <<dbVars, nextT, nextK, effects>>

\* A variant that the checks must reject: the foreign key does not cascade.
DeleteRowsOnly(t) ==
    /\ tenants' = tenants \ {t}
    /\ active' = active \ {t}
    /\ UNCHANGED keys

\* The keys of the tenant go by ON DELETE CASCADE.
DeleteRows(t) ==
    /\ tenants' = tenants \ {t}
    /\ active' = active \ {t}
    /\ keys' = {k \in keys : owner[k] # t}

DeleteTenant(c) ==
    /\ pc[c] = "delete"
    /\ \/ /\ DeleteRows(arg[c].tid)
          /\ Ends(c, IF arg[c].tid \in tenants THEN "ok" ELSE "refused")
       \/ DeleteRows(arg[c].tid) /\ Fails(c)
       \/ Fails(c) /\ UNCHANGED <<tenants, active, keys>>
    /\ UNCHANGED <<ns, revoked, owner, name, nextT, nextK, shown, effects>>

LoadTenant(c) ==
    /\ pc[c] = "update"
    /\ \/ /\ arg[c].tid \notin tenants \/ arg[c].body = "nothing"
          /\ Ends(c, "refused")
       \/ /\ arg[c].tid \in tenants /\ arg[c].body # "nothing"
          /\ Goes(c, "loaded", UpdateArg(arg[c].tid, arg[c].body, arg[c].tid \in active))
       \/ Fails(c)
    /\ UNCHANGED <<dbVars, nextT, nextK, shown, effects>>

\* A variant that the checks must reject: the column is always written.
WrittenAlways(a) ==
    IF a.body = "active" THEN active \cup {a.tid}
    ELSE IF a.body = "inactive" THEN active \ {a.tid} ELSE active

\* The session writes a column only if the value differs from the loaded one.
Written(a) ==
    IF a.body = "active" /\ ~a.loaded THEN active \cup {a.tid}
    ELSE IF a.body = "inactive" /\ a.loaded THEN active \ {a.tid} ELSE active

\* Commit and refresh; a row that went away meanwhile fails one or the other.
CommitUpdate(c) ==
    /\ pc[c] = "loaded"
    /\ \/ arg[c].tid \in tenants /\ active' = Written(arg[c]) /\ Ends(c, "ok")
       \/ arg[c].tid \notin tenants /\ UNCHANGED active /\ Ends(c, "error")
       \/ arg[c].tid \in tenants /\ active' \in {active, Written(arg[c])} /\ Fails(c)
    /\ UNCHANGED <<tenants, ns, keys, revoked, owner, name, nextT, nextK, shown, effects>>

-----------------------------------------------------------------------------
(* The routes of a tenant, behind verify_tenant.                            *)

Valid(k) == k \in keys \ revoked /\ owner[k] \in tenants

\* A variant that the checks must reject: the tenant of the URL is not asked
\* about.
MayPassAnyTenant(k, t) == Valid(k) /\ owner[k] \in active

\* A variant that the checks must reject: revoked_at is not looked at.
MayPassRevoked(k, t) == k \in keys /\ owner[k] = t /\ t \in active

MayPass(k, t) == Valid(k) /\ owner[k] = t /\ t \in active

\* A raw key that somebody was given is presented under any tenant's URL.
verify_tenant(c) ==
    /\ Finished(c)
    /\ \E k \in shown, t \in TIds :
          \/ /\ MayPass(k, t)
             /\ \E h \in Handlers : (h = "addkey" => IdsLeft) /\ Goes(c, h, Arg(t, 0, k))
          \/ ~MayPass(k, t) /\ Ends(c, "refused")
          \/ Fails(c)
    /\ UNCHANGED <<dbVars, nextT, nextK, shown, effects>>

Does(c) == effects' = effects \cup {[tenant |-> arg[c].tid, cred |-> arg[c].cred]}

\* The name must be new for the tenant, among the revoked keys too; a tenant
\* that went away is refused by the foreign key, with the same answer.
InsertKey(c) ==
    LET t == arg[c].tid
        Free(n) == t \in tenants /\ \A k \in keys : owner[k] = t => name[k] # n
    IN
    /\ pc[c] = "addkey"
    /\ nextK' = nextK + 1
    /\ \E n \in Names :
          \/ /\ Free(n) /\ InsertKeyRow(t, n) /\ Does(c)
             /\ Goes(c, "keyed", Arg(t, nextK, arg[c].cred)) \/ Fails(c)
          \/ ~Free(n) /\ Ends(c, "refused") /\ UNCHANGED <<keys, owner, name, effects>>
          \/ Fails(c) /\ UNCHANGED <<keys, owner, name, effects>>
    /\ UNCHANGED <<tenants, active, ns, revoked, nextT, shown>>

RefreshKey(c) ==
    /\ pc[c] = "keyed"
    /\ \/ arg[c].kid \in keys /\ Ends(c, "ok") /\ shown' = shown \cup {arg[c].kid}
       \/ arg[c].kid \notin keys /\ Ends(c, "error") /\ UNCHANGED shown
       \/ Fails(c) /\ UNCHANGED shown
    /\ UNCHANGED <<dbVars, nextT, nextK, effects>>

\* get_api_key_service looks among the keys of the tenant of the URL only.
LoadKey(c) ==
    /\ pc[c] = "revoke"
    /\ \/ \E k \in keys :
             owner[k] = arg[c].tid /\ Goes(c, "revoking", Arg(arg[c].tid, k, arg[c].cred))
       \/ Ends(c, "refused")
       \/ Fails(c)
    /\ UNCHANGED <<dbVars, nextT, nextK, shown, effects>>

\* A variant that the checks must reject: revoking a revoked key toggles it.
RevokeToggles(k) == IF k \in revoked THEN revoked \ {k} ELSE revoked \cup {k}

\* revoked_at is set, or set anew.
Revoke(k) == revoked \cup {k}

CommitRevoke(c) ==
    /\ pc[c] = "revoking"
    /\ \/ /\ arg[c].kid \in keys /\ revoked' = Revoke(arg[c].kid) /\ Does(c)
          /\ Ends(c, "ok") \/ Fails(c)
       \/ arg[c].kid \notin keys /\ Ends(c, "error") /\ UNCHANGED <<revoked, effects>>
       \/ Fails(c) /\ UNCHANGED <<revoked, effects>>
    /\ UNCHANGED <<tenants, active, ns, keys, owner, name, nextT, nextK, shown>>

\* A build, a deployment, a webhook registration or a kubeconfig; what it does
\* to a tenant that went away meanwhile is the business of those modules.
Work(c) ==
    /\ pc[c] = "work"
    /\ \/ Does(c) /\ Ends(c, "ok")
       \/ Ends(c, "error") /\ UNCHANGED effects
    /\ UNCHANGED <<dbVars, nextT, nextK, shown>>

-----------------------------------------------------------------------------
\* A restart ends every request; the database rolls back what was not
\* committed when the connection closes.
Crash ==
    /\ "crash" \in Faults
    /\ \E c \in Calls : ~Finished(c)
    /\ pc' = [c \in Calls |-> IF Finished(c) THEN pc[c] ELSE "error"]
    /\ arg' = [c \in Calls |-> Blank]
    /\ UNCHANGED <<dbVars, nextT, nextK, shown, effects>>

CallStep(c) ==
    \/ FlushTenant(c) \/ CommitTenant(c) \/ RefreshTenant(c) \/ DeleteTenant(c)
    \/ LoadTenant(c) \/ CommitUpdate(c)
    \/ InsertKey(c) \/ RefreshKey(c) \/ LoadKey(c) \/ CommitRevoke(c) \/ Work(c)

Next ==
    \/ \E c \in Calls : verify_admin(c) \/ verify_tenant(c) \/ CallStep(c)
    \/ Crash

Spec == Init /\ [][Next]_vars

\* The event loop resumes every request whose statement completes; nothing
\* makes a client call.
FairSpec == Spec /\ \A c \in Calls : WF_vars(CallStep(c))

-----------------------------------------------------------------------------
(* Properties.                                                              *)

\* Every variable keeps its type.
TypeOK ==
    /\ tenants \subseteq TIds /\ active \subseteq tenants
    /\ keys \subseteq KIds /\ revoked \subseteq KIds /\ shown \subseteq KIds
    /\ ns \in [TIds -> 0..MaxTenants]
    /\ owner \in [KIds -> 0..MaxTenants]
    /\ name \in [KIds -> Names \cup {"none"}]
    /\ nextT \in 1..(MaxTenants + 1) /\ nextK \in 1..(MaxKeys + 1)
    /\ pc \in [Calls -> Answers \cup Awaits]
    /\ arg \in [Calls -> Args]
    /\ effects \subseteq [tenant : TIds, cred : KIds]

\* What the database shows of a tenant is always complete: its own namespace,
\* never the placeholder, and a key, whichever creation failed or was cut off.
TenantsComplete ==
    \A t \in tenants : ns[t] = t /\ \E k \in keys : owner[k] = t

\* The placeholder of one creation never makes another one fail, however they
\* interleave: create_tenant_service flushes it, but no commit ever has it.
CreationsNeverConflict == \A c \in Calls : pc[c] # "conflict"

\* A raw key that a caller was given exists in the database as a key of the
\* same tenant until that tenant is deleted, and a key row never outlives its
\* tenant.
ShownKeysExist ==
    /\ \A k \in shown : k \in keys \/ (owner[k] \in TIds /\ owner[k] \notin tenants)
    /\ \A k \in keys : owner[k] \in tenants

\* Whatever was deleted, revoked or created between the check and the effect,
\* nothing is done in the name of a tenant by another tenant's key.
EffectsScoped == \A e \in effects : owner[e.cred] = e.tenant

\* A key that was revoked or deleted never becomes valid again: re-creation,
\* a second revocation and the reuse of a name do not bring it back.
ValidityIsOneWay == [][\A k \in KIds : k < nextK /\ ~Valid(k) => ~Valid(k)']_vars

\* The phase of each id in the two tables.  The id of a creation under way is
\* not used yet, the id of one that failed never will be.
TenantPhase == [t \in TIds |->
    IF t \in active THEN "active"
    ELSE IF t \in tenants THEN "inactive"
    ELSE IF t >= nextT \/ \E c \in Calls : pc[c] = "flushed" /\ arg[c].tid = t THEN "unused"
    ELSE "gone"]
KeyPhase == [k \in KIds |->
    IF k \in keys \cap revoked THEN "revoked"
    ELSE IF k \in keys THEN "valid"
    ELSE IF k >= nextK THEN "unused" ELSE "gone"]

Directory == INSTANCE TenantDirectory WITH tenant <- TenantPhase, key <- KeyPhase

\* The registry implements TenantDirectory: however the statements of requests
\* interleave and wherever one of them fails, every step is one operation of
\* the directory or changes nothing in it.
ImplementsDirectory == Directory!DSpec

\* A deactivated tenant becomes active only by an update that found it
\* inactive: one that was under way when it was deactivated does not undo that.
NoBlindReactivation ==
    [][\A t \in tenants \ active : t \in active' =>
          \E c \in Calls : pc[c] = "loaded" /\ arg[c].tid = t /\ ~arg[c].loaded /\ pc'[c] # pc[c]]_vars

Uses(k) == \E c \in Calls : ~Finished(c) /\ arg[c].cred = k

\* The check is not repeated, so a request that has passed it goes on after its
\* key was revoked; but from some moment on no request runs on that key.
RevocationTakesHold == \A k \in KIds : [](k \in revoked => <>[]~Uses(k))

\* A creation always ends, also when it waits for the placeholder of another
\* one that fails.
CreationEnds == \A c \in Calls : pc[c] = "create" ~> Finished(c)
=============================================================================
