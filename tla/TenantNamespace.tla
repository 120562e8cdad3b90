--------------------------- MODULE TenantNamespace ---------------------------
(***************************************************************************)
(* The cluster calls of the control plane (k8s_resources.py), one API call *)
(* at a time: ensure_tenant_namespace, create_kpack_image,                 *)
(* ensure_tenant_rbac, mint_tenant_kubeconfig, create_tenant_deployment.   *)
(*                                                                         *)
(* The client blocks the only thread of the process, so one sequence of    *)
(* calls runs at a time; but any call may be refused, its answer may be    *)
(* lost after it took effect, and the process may stop between two calls.  *)
(* What was created stays, and the next request starts over.               *)
(***************************************************************************)
EXTENDS Naturals, Sequences

CONSTANTS
    Tenants,   \* tenants, each with its namespace tenant-{id}
    Faults     \* the kinds of failure the environment may inject

FaultKinds == {"create",   \* a call is refused, or its answer is lost
               "dns",      \* the kube-dns Service cannot be read
               "crash"}    \* the control-plane process stops

ASSUME FaultsAssumption == Faults \subseteq FaultKinds

VARIABLES
    objs,    \* objects that exist in each tenant's namespace, and the namespace
    dns,     \* egress rule of the default-deny policy: "open" lets DNS through
    busy,    \* the sequence of calls that is running, and the next call of it
    last,    \* how the last sequence ended
    tokens   \* tenants to whom a kubeconfig was handed out

vars == <<objs, dns, busy, last, tokens>>

\* ensure_tenant_namespace
NsCalls == <<"namespace", "quota", "limitRange", "networkPolicy",
             "registrySecret", "buildServiceAccount">>
\* A variant that the checks must reject: the binding comes before the Role.
RbacCallsReordered == <<"viewerServiceAccount", "viewerBinding", "viewerRole">>

\* ensure_tenant_rbac
RbacCalls == <<"viewerServiceAccount", "viewerRole", "viewerBinding">>

\* The calls that a build request, a kubeconfig download and a deployment
\* request make.
Plans == [build      |-> NsCalls \o <<"kpackImage">>,
          kubeconfig |-> NsCalls \o RbacCalls \o <<"token">>,
          deploy     |-> <<"deployment", "service">>]
Kinds == {"build", "kubeconfig", "deploy"}

ElementsOf(s) == {s[i] : i \in DOMAIN s}
Objects == UNION {ElementsOf(Plans[k]) : k \in Kinds}
Guardrails == ElementsOf(NsCalls)

Idle == [kind |-> "none", tenant |-> "none", step |-> 0]
None == [kind |-> "none", tenant |-> "none", outcome |-> "none"]

Init ==
    /\ objs = [t \in Tenants |-> {}]
    /\ dns = [t \in Tenants |-> "unset"]
    /\ busy = Idle
    /\ last = None
    /\ tokens = {}

-----------------------------------------------------------------------------
Call == Plans[busy.kind][busy.step]

\* A variant that the checks must reject: a deployment does not ask for a
\* build first.
MayStartAlways(k, t) == TRUE

\* A deployment needs a build of the tenant that succeeded, so an Image of the
\* tenant has been created; create_tenant_deployment relies on that and does
\* not call ensure_tenant_namespace.
MayStart(k, t) == k = "deploy" => "kpackImage" \in objs[t]

\* A request reaches its blocking cluster calls.
Begin(k, t) ==
    /\ busy = Idle
    /\ MayStart(k, t)
    /\ busy' = [kind |-> k, tenant |-> t, step |-> 1]
    /\ UNCHANGED <<objs, dns, last, tokens>>

\* The API server knows the namespace, and the account a token is asked for.
Accepts(t, o) ==
    /\ o # "namespace" => "namespace" \in objs[t]
    /\ o = "token" => "viewerServiceAccount" \in objs[t]

\* The object is created if it is missing; if it is there the call answers 409
\* and the code goes on (and patches, for the Deployment).  The DNS rule is
\* decided by the call that creates the policy, never by a later one.
Effect(t, o) ==
    /\ objs' = [objs EXCEPT ![t] = @ \cup {o}]
    /\ \/ /\ o = "networkPolicy" /\ o \notin objs[t]
          /\ \/ dns' = [dns EXCEPT ![t] = "open"]
             \/ /\ "dns" \in Faults
                /\ dns' = [dns EXCEPT ![t] = "closed"]
       \/ /\ o # "networkPolicy" \/ o \in objs[t]
          /\ UNCHANGED dns

Ends(outcome) ==
    /\ busy' = Idle
    /\ last' = [kind |-> busy.kind, tenant |-> busy.tenant, outcome |-> outcome]

\* What comes after a call that answered: the next one, or the return.
Continues ==
    IF busy.step < Len(Plans[busy.kind])
    THEN /\ busy' = [kind |-> busy.kind, tenant |-> busy.tenant, step |-> busy.step + 1]
         /\ UNCHANGED last
    ELSE Ends("ok")

CallAnswers ==
    /\ busy # Idle
    /\ Accepts(busy.tenant, Call)
    /\ Effect(busy.tenant, Call)
    /\ Continues
    /\ tokens' = IF Call = "token" THEN tokens \cup {busy.tenant} ELSE tokens

\* Any other error leaves the sequence; the call may have taken effect.
CallRaises ==
    /\ busy # Idle
    /\ Ends("raised")
    /\ \/ /\ "create" \in Faults \/ ~Accepts(busy.tenant, Call)
          /\ UNCHANGED <<objs, dns>>
       \/ /\ "create" \in Faults /\ Accepts(busy.tenant, Call)
          /\ Effect(busy.tenant, Call)
    /\ UNCHANGED tokens

Crash ==
    /\ "crash" \in Faults
    /\ busy # Idle
    /\ Ends("crashed")
    /\ UNCHANGED <<objs, dns, tokens>>

Next ==
    \/ \E k \in Kinds, t \in Tenants : Begin(k, t)
    \/ CallAnswers
    \/ CallRaises
    \/ Crash

Spec == Init /\ [][Next]_vars

-----------------------------------------------------------------------------
(* Properties.                                                              *)

\* Every variable keeps its type.
TypeOK ==
    /\ objs \in [Tenants -> SUBSET Objects]
    /\ dns \in [Tenants -> {"unset", "open", "closed"}]
    /\ busy \in [kind : Kinds, tenant : Tenants, step : Nat] \cup {Idle}
    /\ busy # Idle => busy.step \in DOMAIN Plans[busy.kind]
    /\ last \in [kind : Kinds, tenant : Tenants, outcome : {"ok", "raised", "crashed"}]
                    \cup {None}
    /\ tokens \subseteq Tenants

\* What runs in a tenant's namespace (kpack's build pods, the tenant's own pods)
\* runs behind the Pod Security label, the quota, the limits and the
\* default-deny policy, after any history of failed and repeated requests.
WorkloadsGuarded ==
    \A t \in Tenants :
        (objs[t] \cap {"kpackImage", "deployment", "service"} # {}) => Guardrails \subseteq objs[t]

\* However often ensure_tenant_namespace stopped half way, the registry
\* credentials and the account that carries them are in the namespace only
\* together with everything that is created before them.
GuardrailsInOrder ==
    \A t \in Tenants : \A i, k \in DOMAIN NsCalls :
        i < k /\ NsCalls[k] \in objs[t] => NsCalls[i] \in objs[t]

\* A kubeconfig that was handed out has its read-only Role and RoleBinding
\* behind it, and the binding never names a Role that is missing.
TokensScoped ==
    \A t \in Tenants :
        /\ t \in tokens => ElementsOf(RbacCalls) \subseteq objs[t]
        /\ "viewerBinding" \in objs[t] => {"viewerRole", "viewerServiceAccount"} \subseteq objs[t]

\* A sequence that returned has everything it was asked for in place: tolerating
\* 409 skips no object, also when the one that was found is the leftover of a
\* request that failed.
ReturnedIsComplete ==
    last.outcome = "ok" => ElementsOf(Plans[last.kind]) \subseteq objs[last.tenant]

\* README.md:28: "default-deny NetworkPolicy that still allows DNS".
PolicyAllowsDNS ==
    \A t \in Tenants : "networkPolicy" \in objs[t] => dns[t] = "open"
=============================================================================
