------------------------ MODULE TenantNamespaceProofs ------------------------
(***************************************************************************)
(* Proofs about TenantNamespace for any set of tenants and any kinds of    *)
(* fault.                                                                  *)
(***************************************************************************)
EXTENDS TenantNamespace, TLAPS

\* Everything the running sequence has called so far is there, and a deployment
\* runs only where an Image has been created.
Progress ==
    busy # Idle =>
        /\ \A i \in DOMAIN Plans[busy.kind] :
              i < busy.step => Plans[busy.kind][i] \in objs[busy.tenant]
        /\ busy.kind = "deploy" => "kpackImage" \in objs[busy.tenant]

\* The inductive invariant.
IInv ==
    /\ TypeOK
    /\ Progress
    /\ GuardrailsInOrder
    /\ WorkloadsGuarded
    /\ TokensScoped
    /\ ReturnedIsComplete

-----------------------------------------------------------------------------
(* The sequences of calls.                                                  *)

\* The sequences written out.
LEMMA PlansAre ==
  /\ Len(Plans["build"]) = 7 /\ DOMAIN Plans["build"] = 1..7
  /\ \A i \in 1..6 : Plans["build"][i] = NsCalls[i]
  /\ Plans["build"][7] = "kpackImage"
  /\ Len(Plans["kubeconfig"]) = 10 /\ DOMAIN Plans["kubeconfig"] = 1..10
  /\ \A i \in 1..6 : Plans["kubeconfig"][i] = NsCalls[i]
  /\ Plans["kubeconfig"][7] = "viewerServiceAccount"
  /\ Plans["kubeconfig"][8] = "viewerRole"
  /\ Plans["kubeconfig"][9] = "viewerBinding"
  /\ Plans["kubeconfig"][10] = "token"
  /\ Len(Plans["deploy"]) = 2 /\ DOMAIN Plans["deploy"] = 1..2
  /\ Plans["deploy"][1] = "deployment" /\ Plans["deploy"][2] = "service"
BY DEF Plans, NsCalls, RbacCalls

\* The names of the guardrails and of the RBAC objects.
LEMMA Names ==
  /\ Guardrails = {"namespace", "quota", "limitRange", "networkPolicy", "registrySecret",
                   "buildServiceAccount"}
  /\ ElementsOf(RbacCalls) = {"viewerServiceAccount", "viewerRole", "viewerBinding"}
<1>1. DOMAIN NsCalls = {1, 2, 3, 4, 5, 6}
  BY DEF NsCalls
<1>2. DOMAIN RbacCalls = {1, 2, 3}
  BY DEF RbacCalls
<1> QED BY <1>1, <1>2 DEF Guardrails, ElementsOf, NsCalls, RbacCalls

\* What a running sequence is about to call, and what is there before it: a
\* guardrail after the guardrails before it, an Image after all of them, a
\* binding after Role and account, a token after all three.
LEMMA CallFacts ==
  ASSUME TypeOK, Progress, busy # Idle
  PROVE  /\ Call \in Objects
         /\ \A i, k \in 1..6 : i < k /\ NsCalls[k] = Call => NsCalls[i] \in objs[busy.tenant]
         /\ Call = "kpackImage" => Guardrails \subseteq objs[busy.tenant]
         /\ Call \in {"deployment", "service"} => busy.kind = "deploy"
         /\ Call = "viewerBinding" =>
               {"viewerServiceAccount", "viewerRole"} \subseteq objs[busy.tenant]
         /\ Call = "token" => ElementsOf(RbacCalls) \subseteq objs[busy.tenant]
<1>1. busy.kind \in Kinds /\ busy.step \in DOMAIN Plans[busy.kind]
  BY DEF TypeOK
<1>2. Call \in Objects
  BY <1>1 DEF Call, Objects, ElementsOf
<1>3. /\ NsCalls[1] = "namespace" /\ NsCalls[2] = "quota" /\ NsCalls[3] = "limitRange"
      /\ NsCalls[4] = "networkPolicy" /\ NsCalls[5] = "registrySecret"
      /\ NsCalls[6] = "buildServiceAccount"
  BY DEF NsCalls
<1> DEFINE before == \A i \in DOMAIN Plans[busy.kind] :
                        i < busy.step => Plans[busy.kind][i] \in objs[busy.tenant]
<1>4. before
  BY DEF Progress
<1>5. CASE busy.kind = "build"
  <2>1. busy.step \in 1..7 /\ \A i \in 1..7 : i < busy.step => Plans["build"][i] \in objs[busy.tenant]
    BY <1>1, <1>4, <1>5, PlansAre
  <2>2. CASE busy.step \in 1..6
    <3>1. Call = NsCalls[busy.step]
      BY <1>5, <2>2, PlansAre DEF Call
    <3>2. \A i \in 1..6 : i < busy.step => NsCalls[i] \in objs[busy.tenant]
      BY <2>1, PlansAre
    <3>3. \A k \in 1..6 : NsCalls[k] = NsCalls[busy.step] => k = busy.step
      BY <1>3, <2>2
    <3>4. Call \notin {"kpackImage", "deployment", "service", "viewerBinding", "token"}
      BY <1>3, <2>2, <3>1
    <3> QED BY <1>2, <3>1, <3>2, <3>3, <3>4
  <2>3. CASE busy.step = 7
    <3>1. Call = "kpackImage"
      BY <1>5, <2>3, PlansAre DEF Call
    <3>2. \A i \in 1..6 : NsCalls[i] \in objs[busy.tenant]
      BY <2>1, <2>3, PlansAre
    <3>3. Guardrails \subseteq objs[busy.tenant]
      BY <1>3, <3>2, Names
    <3> QED BY <1>2, <3>1, <3>2, <3>3
  <2> QED BY <2>1, <2>2, <2>3
<1>6. CASE busy.kind = "kubeconfig"
  <2>1. /\ busy.step \in 1..10
        /\ \A i \in 1..10 : i < busy.step => Plans["kubeconfig"][i] \in objs[busy.tenant]
    BY <1>1, <1>4, <1>6, PlansAre
  <2>2. CASE busy.step \in 1..6
    <3>1. Call = NsCalls[busy.step]
      BY <1>6, <2>2, PlansAre DEF Call
    <3>2. \A i \in 1..6 : i < busy.step => NsCalls[i] \in objs[busy.tenant]
      BY <2>1, PlansAre
    <3>3. \A k \in 1..6 : NsCalls[k] = NsCalls[busy.step] => k = busy.step
      BY <1>3, <2>2
    <3>4. Call \notin {"kpackImage", "deployment", "service", "viewerBinding", "token"}
      BY <1>3, <2>2, <3>1
    <3> QED BY <1>2, <3>1, <3>2, <3>3, <3>4
  <2>3. CASE busy.step \in 7..10
    <3>1. Call = Plans["kubeconfig"][busy.step]
      BY <1>6 DEF Call
    <3>8. \/ busy.step = 7 /\ Call = "viewerServiceAccount"
          \/ busy.step = 8 /\ Call = "viewerRole"
          \/ busy.step = 9 /\ Call = "viewerBinding"
          \/ busy.step = 10 /\ Call = "token"
      <4>1. busy.step = 7 \/ busy.step = 8 \/ busy.step = 9 \/ busy.step = 10
        BY <2>3
      <4> QED BY <3>1, <4>1, PlansAre
    <3>2. \A k \in 1..6 : NsCalls[k] # Call
      BY <1>3, <3>8
    <3>3. Call \notin {"kpackImage", "deployment", "service"}
      BY <3>8
    <3>4. Call = "viewerBinding" =>
             {"viewerServiceAccount", "viewerRole"} \subseteq objs[busy.tenant]
      <4>1. Call = "viewerBinding" => busy.step = 9
        BY <3>8
      <4>2. busy.step = 9 => /\ Plans["kubeconfig"][7] \in objs[busy.tenant]
                             /\ Plans["kubeconfig"][8] \in objs[busy.tenant]
        BY <2>1
      <4> QED BY <4>1, <4>2, PlansAre
    <3>5. Call = "token" => ElementsOf(RbacCalls) \subseteq objs[busy.tenant]
      <4>1. Call = "token" => busy.step = 10
        BY <3>8
      <4>2. busy.step = 10 => /\ Plans["kubeconfig"][7] \in objs[busy.tenant]
                              /\ Plans["kubeconfig"][8] \in objs[busy.tenant]
                              /\ Plans["kubeconfig"][9] \in objs[busy.tenant]
        BY <2>1
      <4> QED BY <4>1, <4>2, PlansAre, Names
    <3> QED BY <1>2, <3>2, <3>3, <3>4, <3>5
  <2> QED BY <2>1, <2>2, <2>3
<1>7. CASE busy.kind = "deploy"
  <2>1. Call \in {"deployment", "service"}
    BY <1>1, <1>7, PlansAre DEF Call
  <2>2. \A k \in 1..6 : NsCalls[k] # Call
    BY <1>3, <2>1
  <2> QED BY <1>2, <1>7, <2>1, <2>2
<1> QED BY <1>1, <1>5, <1>6, <1>7 DEF Kinds

\* The plan of a running sequence is not empty and its positions are numbers.
LEMMA PlanShape ==
  ASSUME NEW k \in Kinds
  PROVE  /\ Len(Plans[k]) \in Nat \ {0}
         /\ DOMAIN Plans[k] = 1..Len(Plans[k])
BY PlansAre DEF Kinds

-----------------------------------------------------------------------------
(* One call.                                                                *)

\* A call that takes effect adds its object, and nothing else.
LEMMA EffectAdds ==
  ASSUME TypeOK, Progress, busy # Idle, Effect(busy.tenant, Call)
  PROVE  /\ busy.tenant \in Tenants
         /\ objs' \in [Tenants -> SUBSET Objects]
         /\ dns' \in [Tenants -> {"unset", "open", "closed"}]
         /\ objs'[busy.tenant] = objs[busy.tenant] \cup {Call}
         /\ \A u \in Tenants \ {busy.tenant} : objs'[u] = objs[u]
<1>1. busy.tenant \in Tenants
  BY DEF TypeOK
<1>2. Call \in Objects
  BY CallFacts
<1>3. objs' = [objs EXCEPT ![busy.tenant] = objs[busy.tenant] \cup {Call}]
  BY <1>1 DEF Effect, TypeOK
<1>4. dns' \in [Tenants -> {"unset", "open", "closed"}]
  BY <1>1 DEF Effect, TypeOK
<1> HIDE DEF Call
<1> QED BY <1>1, <1>2, <1>3, <1>4 DEF TypeOK

\* What is in a namespace stays in order, guarded and bound to its Role, because
\* of what was called before.
LEMMA EffectKeeps ==
  ASSUME IInv, busy # Idle, Effect(busy.tenant, Call)
  PROVE  /\ GuardrailsInOrder'
         /\ WorkloadsGuarded'
         /\ \A t \in Tenants : "viewerBinding" \in objs'[t] =>
               {"viewerRole", "viewerServiceAccount"} \subseteq objs'[t]
         /\ \A t \in Tenants : objs[t] \subseteq objs'[t]
<1> DEFINE t0 == busy.tenant
<1>1. /\ t0 \in Tenants
      /\ objs'[t0] = objs[t0] \cup {Call}
      /\ \A u \in Tenants \ {t0} : objs'[u] = objs[u]
  BY EffectAdds DEF IInv
<1>2. /\ \A i, k \in 1..6 : i < k /\ NsCalls[k] = Call => NsCalls[i] \in objs[t0]
      /\ Call = "kpackImage" => Guardrails \subseteq objs[t0]
      /\ Call \in {"deployment", "service"} => busy.kind = "deploy"
      /\ Call = "viewerBinding" => {"viewerServiceAccount", "viewerRole"} \subseteq objs[t0]
  BY CallFacts DEF IInv
<1>3. busy.kind = "deploy" => Guardrails \subseteq objs[t0]
  BY <1>1 DEF IInv, Progress, WorkloadsGuarded
<1> HIDE DEF Call, t0
<1>4. DOMAIN NsCalls = 1..6
  BY DEF NsCalls
<1>5. GuardrailsInOrder'
  BY <1>1, <1>2, <1>4 DEF GuardrailsInOrder, IInv
<1>6. WorkloadsGuarded'
  <2>1. ASSUME NEW t \in Tenants, objs'[t] \cap {"kpackImage", "deployment", "service"} # {}
        PROVE  Guardrails \subseteq objs'[t]
    <3>1. CASE objs[t] \cap {"kpackImage", "deployment", "service"} # {}
      BY <1>1, <3>1 DEF IInv, WorkloadsGuarded
    <3>2. CASE objs[t] \cap {"kpackImage", "deployment", "service"} = {}
      <4>1. t = t0 /\ Call \in {"kpackImage", "deployment", "service"}
        BY <1>1, <2>1, <3>2
      <4> QED BY <1>1, <1>2, <1>3, <4>1
    <3> QED BY <3>1, <3>2
  <2> QED BY <2>1 DEF WorkloadsGuarded
<1>7. \A t \in Tenants : "viewerBinding" \in objs'[t] =>
          {"viewerRole", "viewerServiceAccount"} \subseteq objs'[t]
  BY <1>1, <1>2 DEF IInv, TokensScoped
<1> QED BY <1>1, <1>5, <1>6, <1>7

\* A call that answers.
LEMMA AnswersStep == ASSUME IInv, CallAnswers PROVE IInv'
<1> DEFINE k == busy.kind  t0 == busy.tenant  s == busy.step
<1>1. /\ busy # Idle /\ Effect(busy.tenant, Call) /\ Continues
      /\ tokens' = IF Call = "token" THEN tokens \cup {busy.tenant} ELSE tokens
  BY DEF CallAnswers
<1>2. /\ t0 \in Tenants
      /\ objs' \in [Tenants -> SUBSET Objects]
      /\ dns' \in [Tenants -> {"unset", "open", "closed"}]
      /\ objs'[t0] = objs[t0] \cup {Call}
      /\ \A u \in Tenants \ {t0} : objs'[u] = objs[u]
  BY <1>1, EffectAdds DEF IInv
<1>3. /\ GuardrailsInOrder' /\ WorkloadsGuarded'
      /\ \A t \in Tenants : "viewerBinding" \in objs'[t] =>
               {"viewerRole", "viewerServiceAccount"} \subseteq objs'[t]
      /\ \A t \in Tenants : objs[t] \subseteq objs'[t]
  BY <1>1, EffectKeeps
<1>4. Call = "token" => ElementsOf(RbacCalls) \subseteq objs[t0]
  BY <1>1, CallFacts DEF IInv
<1>5. TokensScoped'
  <2> HIDE DEF Call
  <2> QED BY <1>1, <1>2, <1>3, <1>4 DEF IInv, TokensScoped
<1>6. /\ k \in Kinds /\ s \in DOMAIN Plans[k] /\ s \in Nat /\ Call = Plans[k][s]
      /\ busy = [kind |-> k, tenant |-> t0, step |-> s]
  BY <1>1 DEF IInv, TypeOK, Call
<1>7. Len(Plans[k]) \in Nat \ {0} /\ DOMAIN Plans[k] = 1..Len(Plans[k])
  BY <1>6, PlanShape
<1>8. /\ \A i \in DOMAIN Plans[k] : i < s + 1 => Plans[k][i] \in objs'[t0]
      /\ k = "deploy" => "kpackImage" \in objs'[t0]
  BY <1>1, <1>2, <1>6, <1>7 DEF IInv, Progress
<1>9. CASE s < Len(Plans[k])
  <2>1. busy' = [kind |-> k, tenant |-> t0, step |-> s + 1] /\ last' = last
    BY <1>1, <1>9 DEF Continues
  <2>2. busy'.kind = k /\ busy'.tenant = t0 /\ busy'.step = s + 1
    BY <2>1
  <2>3. s + 1 \in DOMAIN Plans[k] /\ s + 1 \in Nat
    BY <1>6, <1>7, <1>9
  <2>4. TypeOK'
    <3>1. busy' \in [kind : Kinds, tenant : Tenants, step : Nat]
      BY <1>2, <1>6, <2>1, <2>3
    <3>2. tokens' \subseteq Tenants
      BY <1>1, <1>2 DEF IInv, TypeOK
    <3> HIDE DEF k, t0, s
    <3> QED BY <1>2, <2>1, <2>2, <2>3, <3>1, <3>2 DEF IInv, TypeOK
  <2>5. Progress'
    <3> HIDE DEF k, t0, s
    <3> QED BY <1>8, <2>2 DEF Progress
  <2>6. ReturnedIsComplete'
    <3>1. last \in [kind : Kinds, tenant : Tenants, outcome : {"ok", "raised", "crashed"}]
                      \cup {None}
      BY DEF IInv, TypeOK
    <3>2. last.outcome = "ok" => last.tenant \in Tenants
      BY <3>1 DEF None
    <3> QED BY <1>3, <2>1, <3>2 DEF IInv, ReturnedIsComplete
  <2> QED BY <1>3, <1>5, <2>4, <2>5, <2>6 DEF IInv
<1>10. CASE ~(s < Len(Plans[k]))
  <2>1. busy' = Idle /\ last' = [kind |-> k, tenant |-> t0, outcome |-> "ok"]
    BY <1>1, <1>10 DEF Continues, Ends
  <2>2. last'.kind = k /\ last'.tenant = t0 /\ last'.outcome = "ok"
    BY <2>1
  <2>3. TypeOK'
    <3>1. last' \in [kind : Kinds, tenant : Tenants, outcome : {"ok", "raised", "crashed"}]
      BY <1>2, <1>6, <2>1
    <3>2. tokens' \subseteq Tenants
      BY <1>1, <1>2 DEF IInv, TypeOK
    <3> QED BY <1>2, <2>1, <3>1, <3>2 DEF IInv, TypeOK
  <2>4. Progress'
    BY <2>1 DEF Progress
  <2>5. \A i \in DOMAIN Plans[k] : Plans[k][i] \in objs'[t0]
    BY <1>6, <1>7, <1>8, <1>10
  <2>6. ReturnedIsComplete'
    <3> HIDE DEF k, t0, s
    <3> QED BY <2>2, <2>5 DEF ReturnedIsComplete, ElementsOf
  <2> QED BY <1>3, <1>5, <2>3, <2>4, <2>6 DEF IInv
<1> QED BY <1>9, <1>10

\* A sequence that ends without returning: what holds of the namespaces is kept
\* and nothing is claimed of the sequence.
LEMMA EndsStep ==
  ASSUME IInv, busy # Idle, NEW outcome \in {"raised", "crashed"}, Ends(outcome),
         tokens' = tokens,
         UNCHANGED <<objs, dns>> \/ Effect(busy.tenant, Call)
  PROVE  IInv'
<1>1. /\ objs' \in [Tenants -> SUBSET Objects]
      /\ dns' \in [Tenants -> {"unset", "open", "closed"}]
  BY EffectAdds DEF IInv, TypeOK
<1>2. /\ GuardrailsInOrder' /\ WorkloadsGuarded'
      /\ \A t \in Tenants : "viewerBinding" \in objs'[t] =>
               {"viewerRole", "viewerServiceAccount"} \subseteq objs'[t]
      /\ \A t \in Tenants : objs[t] \subseteq objs'[t]
  <2>1. CASE UNCHANGED <<objs, dns>>
    BY <2>1 DEF IInv, GuardrailsInOrder, WorkloadsGuarded, TokensScoped
  <2>2. CASE Effect(busy.tenant, Call)
    BY <2>2, EffectKeeps
  <2> QED BY <2>1, <2>2
<1>3. busy' = Idle /\ last' = [kind |-> busy.kind, tenant |-> busy.tenant, outcome |-> outcome]
  BY DEF Ends
<1>4. busy.kind \in Kinds /\ busy.tenant \in Tenants
  BY DEF IInv, TypeOK
<1>5. last' \in [kind : Kinds, tenant : Tenants, outcome : {"ok", "raised", "crashed"}]
  BY <1>3, <1>4
<1>6. TypeOK'
  BY <1>1, <1>3, <1>5 DEF IInv, TypeOK
<1>7. Progress' /\ ReturnedIsComplete'
  BY <1>3 DEF Progress, ReturnedIsComplete
<1>8. TokensScoped'
  BY <1>2 DEF IInv, TypeOK, TokensScoped
<1> QED BY <1>2, <1>6, <1>7, <1>8 DEF IInv

\* A request that begins has called nothing yet; a deployment begins behind an
\* Image.
LEMMA BeginStep ==
  ASSUME IInv, NEW k \in Kinds, NEW t \in Tenants, Begin(k, t)
  PROVE  IInv'
<1>1. /\ busy' = [kind |-> k, tenant |-> t, step |-> 1] /\ MayStart(k, t)
      /\ UNCHANGED <<objs, dns, last, tokens>>
  BY DEF Begin
<1>2. busy'.kind = k /\ busy'.tenant = t /\ busy'.step = 1
  BY <1>1
<1>3. 1 \in DOMAIN Plans[k] /\ \A i \in DOMAIN Plans[k] : ~(i < 1)
  BY PlanShape
<1>4. TypeOK'
  <2>1. busy' \in [kind : Kinds, tenant : Tenants, step : Nat]
    BY <1>1
  <2> QED BY <1>1, <1>2, <1>3, <2>1 DEF IInv, TypeOK
<1>5. Progress'
  BY <1>1, <1>2, <1>3 DEF Progress, MayStart
<1> QED BY <1>1, <1>4, <1>5
        DEF IInv, GuardrailsInOrder, WorkloadsGuarded, TokensScoped, ReturnedIsComplete

\* The initial state satisfies the invariant.
LEMMA InitIInv == ASSUME Init PROVE IInv
<1>1. TypeOK
  BY DEF Init, TypeOK
<1>2. Progress /\ GuardrailsInOrder /\ WorkloadsGuarded /\ TokensScoped
  BY DEF Init, Progress, GuardrailsInOrder, WorkloadsGuarded, TokensScoped
<1>3. ReturnedIsComplete
  BY DEF Init, ReturnedIsComplete, None
<1> QED BY <1>1, <1>2, <1>3 DEF IInv

\* The invariant is inductive.
LEMMA IInvStep == ASSUME IInv, [Next]_vars PROVE IInv'
<1>1. CASE CallRaises
  <2>1. UNCHANGED <<objs, dns>> \/ Effect(busy.tenant, Call)
    BY <1>1 DEF CallRaises
  <2> QED BY <1>1, <2>1, EndsStep DEF CallRaises
<1>2. CASE Crash
  BY <1>2, EndsStep DEF Crash
<1>3. CASE UNCHANGED vars
  BY <1>3 DEF vars, IInv, TypeOK, Progress, GuardrailsInOrder, WorkloadsGuarded, TokensScoped,
              ReturnedIsComplete
<1> QED BY <1>1, <1>2, <1>3, BeginStep, AnswersStep DEF Next

\* Every reachable state satisfies the inductive invariant, for every set of
\* tenants and every kind of fault.
THEOREM Invariance == Spec => []IInv
BY InitIInv, IInvStep, PTL DEF Spec

-----------------------------------------------------------------------------
(* The safety properties of TenantNamespace.                                *)

\* Every variable keeps its type; a sequence never runs past its last call.
THEOREM TypeCorrect == Spec => []TypeOK
<1>1. IInv => TypeOK
  BY DEF IInv
<1> QED BY Invariance, <1>1, PTL

\* Build pods and tenant pods run behind every guardrail of the namespace, after
\* any history of failed, repeated and interrupted requests.
THEOREM WorkloadsAlwaysGuarded == Spec => []WorkloadsGuarded
<1>1. IInv => WorkloadsGuarded
  BY DEF IInv
<1> QED BY Invariance, <1>1, PTL

\* A guardrail is there only with those that are created before it.
THEOREM GuardrailsAlwaysInOrder == Spec => []GuardrailsInOrder
<1>1. IInv => GuardrailsInOrder
  BY DEF IInv
<1> QED BY Invariance, <1>1, PTL

\* A kubeconfig is handed out only with its Role and its RoleBinding in place.
THEOREM TokensAlwaysScoped == Spec => []TokensScoped
<1>1. IInv => TokensScoped
  BY DEF IInv
<1> QED BY Invariance, <1>1, PTL

\* A sequence that returned has everything it was asked for in place.
THEOREM ReturnedAlwaysComplete == Spec => []ReturnedIsComplete
<1>1. IInv => ReturnedIsComplete
  BY DEF IInv
<1> QED BY Invariance, <1>1, PTL
=============================================================================
