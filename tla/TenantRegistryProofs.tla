------------------------ MODULE TenantRegistryProofs ------------------------
(***************************************************************************)
(* Proofs about TenantRegistry for any number of requests, any names and   *)
(* bounds, and any kinds of fault.                                         *)
(***************************************************************************)
EXTENDS TenantRegistry, FiniteSetTheorems, TLAPS

\* The ids that are left suffice for the requests under way.
Budget ==
    /\ nextT + Cardinality(Creating) <= MaxTenants + 1
    /\ nextK + Cardinality(Keying) <= MaxKeys + 1

\* The committed rows: ids come from the sequences, foreign keys hold, and a
\* tenant has its namespace and a key.
RowsOK ==
    /\ \A t \in tenants : t < nextT
    /\ \A k \in keys : k < nextK /\ owner[k] \in tenants
    /\ \A k \in KIds : owner[k] < nextT
    /\ TenantsComplete

\* A key that was handed out is there until its tenant goes.
Kept(k) == k \in keys \/ owner[k] \notin tenants

\* What a request relies on between two statements.
Hands(c) ==
    /\ pc[c] = "flushed" =>
          /\ arg[c].tid \in TIds /\ arg[c].tid < nextT /\ arg[c].tid \notin tenants
          /\ \A k \in KIds : owner[k] # arg[c].tid
    /\ pc[c] = "created" =>
          /\ arg[c].tid \in TIds /\ arg[c].kid \in KIds /\ arg[c].kid < nextK
          /\ owner[arg[c].kid] = arg[c].tid /\ Kept(arg[c].kid)
    /\ pc[c] \in Handlers \cup {"keyed", "revoking"} =>
          /\ arg[c].tid \in TIds /\ arg[c].cred \in KIds /\ arg[c].cred < nextK
          /\ owner[arg[c].cred] = arg[c].tid
    /\ pc[c] = "keyed" => arg[c].kid \in KIds /\ arg[c].kid < nextK
    /\ pc[c] = "revoking" => arg[c].kid \in KIds

\* The placeholder is in one open transaction at most.
OneFlushed ==
    \A c, o \in Calls : pc[c] = "flushed" /\ pc[o] = "flushed" => c = o

ShownOK == \A k \in shown : k < nextK /\ owner[k] \in TIds /\ Kept(k)
EffectsOK == \A e \in effects : e.cred < nextK /\ owner[e.cred] = e.tenant

\* The inductive invariant.
IInv ==
    /\ TypeOK
    /\ Budget
    /\ RowsOK
    /\ \A c \in Calls : Hands(c)
    /\ OneFlushed
    /\ ShownOK
    /\ EffectsOK
    /\ CreationsNeverConflict

-----------------------------------------------------------------------------
(* The operators the steps are made of.                                     *)

\* The fields of what a request has at hand.
LEMMA ArgIs ==
  ASSUME NEW t \in 0..MaxTenants, NEW k \in 0..MaxKeys, NEW a \in 0..MaxKeys
  PROVE  /\ Arg(t, k, a) \in Args
         /\ Arg(t, k, a).tid = t /\ Arg(t, k, a).kid = k /\ Arg(t, k, a).cred = a
BY DEF Arg, Args, Bodies

\* A request that is answered has nothing at hand.
LEMMA BlankIs == Blank \in Args
BY ArgIs, BoundsAssumption DEF Blank

\* What an update has at hand.
LEMMA UpdateArgIs ==
  ASSUME NEW t \in 0..MaxTenants, NEW b \in Bodies, NEW l \in BOOLEAN
  PROVE  UpdateArg(t, b, l) \in Args /\ UpdateArg(t, b, l).tid = t
BY BoundsAssumption DEF UpdateArg, Args

\* A request moves and the others stay where they are.
LEMMA GoesFacts ==
  ASSUME TypeOK, NEW c \in Calls, NEW at \in Answers \cup Awaits, NEW a \in Args, Goes(c, at, a)
  PROVE  /\ pc' = [pc EXCEPT ![c] = at]
         /\ pc' \in [Calls -> Answers \cup Awaits] /\ arg' \in [Calls -> Args]
         /\ pc'[c] = at /\ arg'[c] = a
         /\ \A o \in Calls : o # c => pc'[o] = pc[o] /\ arg'[o] = arg[o]
BY DEF TypeOK, Goes

\* The requests that will take an id, counted.
LEMMA Counts ==
  /\ IsFiniteSet(Creating) /\ Cardinality(Creating) \in Nat
  /\ IsFiniteSet(Keying) /\ Cardinality(Keying) \in Nat
<1>1. Creating \in SUBSET Calls /\ Keying \in SUBSET Calls
  BY DEF Creating, Keying
<1>2. IsFiniteSet(Creating) /\ IsFiniteSet(Keying)
  BY <1>1, CallsAssumption, FS_Subset
<1> QED BY <1>2, FS_CardinalityType

\* At most one element comes or goes.
LEMMA OneMoves ==
  ASSUME NEW S, NEW T, NEW c, IsFiniteSet(S), \A o : o # c => (o \in S <=> o \in T)
  PROVE  /\ Cardinality(S) \in Nat /\ Cardinality(T) \in Nat
         /\ c \in S /\ c \notin T => Cardinality(T) = Cardinality(S) - 1
         /\ c \notin S /\ c \in T => Cardinality(T) = Cardinality(S) + 1
         /\ (c \in S <=> c \in T) => Cardinality(T) = Cardinality(S)
<1>1. Cardinality(S) \in Nat
  BY FS_CardinalityType
<1>2. CASE c \in S /\ c \notin T
  <2>1. T = S \ {c}
    BY <1>2
  <2>2. IsFiniteSet(T) /\ Cardinality(T) = Cardinality(S) - 1
    BY <1>2, <2>1, FS_RemoveElement
  <2> QED BY <1>1, <1>2, <2>2, FS_CardinalityType
<1>3. CASE c \notin S /\ c \in T
  <2>1. T = S \cup {c}
    BY <1>3
  <2>2. IsFiniteSet(T) /\ Cardinality(T) = Cardinality(S) + 1
    BY <1>3, <2>1, FS_AddElement
  <2> QED BY <1>1, <1>3, <2>2, FS_CardinalityType
<1>4. CASE c \in S <=> c \in T
  <2>1. T = S
    BY <1>4
  <2> QED BY <1>1, <1>4, <2>1
<1> QED BY <1>2, <1>3, <1>4

\* Ids are taken by the requests that were counted, and no request is counted
\* unless there is an id for it.
LEMMA BudgetKept ==
  ASSUME TypeOK, Budget, NEW c \in Calls, NEW at, pc' = [pc EXCEPT ![c] = at],
         \/ nextT' = nextT
         \/ nextT' = nextT + 1 /\ pc[c] = "create" /\ at # "create",
         \/ nextK' = nextK
         \/ nextK' = nextK + 1 /\ pc[c] \in {"flushed", "addkey"}
            /\ at \notin {"create", "flushed", "addkey"},
         at \in {"create", "addkey"} => IdsLeft,
         at = "flushed" => pc[c] = "create"
  PROVE  Budget'
<1>1. /\ \A o : o # c => (o \in Creating <=> o \in Creating')
      /\ c \in Creating <=> pc[c] = "create"
      /\ c \in Creating' <=> at = "create"
  BY DEF Creating, TypeOK
<1>2. /\ \A o : o # c => (o \in Keying <=> o \in Keying')
      /\ c \in Keying <=> pc[c] \in {"create", "flushed", "addkey"}
      /\ c \in Keying' <=> at \in {"create", "flushed", "addkey"}
  BY DEF Keying, TypeOK
<1>3. nextT \in Nat /\ nextK \in Nat /\ MaxTenants \in Nat /\ MaxKeys \in Nat
  BY BoundsAssumption DEF TypeOK
<1> DEFINE nt == Cardinality(Creating)
           nt1 == Cardinality(Creating')
           nk == Cardinality(Keying)
           nk1 == Cardinality(Keying')
<1>4. /\ nt \in Nat /\ nt1 \in Nat
      /\ pc[c] = "create" /\ at # "create" => nt1 = nt - 1
      /\ pc[c] # "create" /\ at = "create" => nt1 = nt + 1
      /\ (pc[c] = "create" <=> at = "create") => nt1 = nt
  <2>1. IsFiniteSet(Creating)
    BY Counts
  <2> HIDE DEF nt, nt1
  <2> QED BY <1>1, <2>1, OneMoves DEF nt, nt1
<1>5. /\ nk \in Nat /\ nk1 \in Nat
      /\ c \in Keying /\ c \notin Keying' => nk1 = nk - 1
      /\ c \notin Keying /\ c \in Keying' => nk1 = nk + 1
      /\ (c \in Keying <=> c \in Keying') => nk1 = nk
  <2>1. IsFiniteSet(Keying)
    BY Counts
  <2> HIDE DEF nk, nk1
  <2> QED BY <1>2, <2>1, OneMoves DEF nk, nk1
<1>6. nextT + nt <= MaxTenants + 1 /\ nextK + nk <= MaxKeys + 1
  BY DEF Budget
<1>7. at \in {"create", "addkey"} => nextT + nt <= MaxTenants /\ nextK + nk <= MaxKeys
  BY DEF IdsLeft
<1> HIDE DEF nt, nt1, nk, nk1
<1>8. nextT' + nt1 <= MaxTenants + 1
  BY <1>3, <1>4, <1>6, <1>7
<1>9. nextK' + nk1 <= MaxKeys + 1
  <2>1. CASE nextK' = nextK
    <3>1. CASE at \in {"create", "addkey"}
      BY <1>3, <1>5, <1>7, <2>1, <3>1
    <3>2. CASE at \notin {"create", "addkey"}
      <4>1. c \in Keying' => c \in Keying
        BY <1>2, <3>2
      <4> QED BY <1>3, <1>5, <1>6, <2>1, <4>1
    <3> QED BY <3>1, <3>2
  <2>2. CASE nextK' = nextK + 1 /\ pc[c] \in {"flushed", "addkey"}
             /\ at \notin {"create", "flushed", "addkey"}
    BY <1>2, <1>3, <1>5, <1>6, <2>2
  <2> QED BY <2>1, <2>2
<1> QED BY <1>8, <1>9 DEF Budget, nt1, nk1

\* There is an id for a request that will take one.
LEMMA FreshIds ==
  ASSUME TypeOK, Budget, NEW c \in Calls
  PROVE  /\ nextT \in Nat /\ nextK \in Nat /\ nextT >= 1 /\ nextK >= 1
         /\ pc[c] = "create" => nextT \in TIds
         /\ pc[c] \in {"create", "flushed", "addkey"} => nextK \in KIds
<1>1. nextT \in Nat /\ nextK \in Nat /\ nextT >= 1 /\ nextK >= 1
  BY BoundsAssumption DEF TypeOK
<1>2. pc[c] = "create" => Cardinality(Creating) >= 1
  BY Counts, FS_EmptySet DEF Creating
<1>3. pc[c] \in {"create", "flushed", "addkey"} => Cardinality(Keying) >= 1
  BY Counts, FS_EmptySet DEF Keying
<1> QED BY <1>1, <1>2, <1>3, Counts, BoundsAssumption DEF Budget, TIds, KIds

-----------------------------------------------------------------------------
(* Changes of the tables.                                                   *)

\* What a statement of request c may do to the rows the other requests, the
\* clients and the history rely on.
Moves(c) ==
    /\ nextT' \in Nat /\ nextK' \in Nat /\ nextT <= nextT' /\ nextK <= nextK'
    /\ \A k \in KIds : /\ k < nextK => owner'[k] = owner[k]
                       /\ owner'[k] = owner[k] \/ owner'[k] \in tenants'
    /\ \A k \in keys : k \in keys' \/ owner[k] \notin tenants'
    /\ \A t \in tenants' : t \in tenants \/ (pc[c] = "flushed" /\ t = arg[c].tid)

\* Under such a change, a key that was kept is kept.
LEMMA KeptKept ==
  ASSUME IInv, NEW c \in Calls, Moves(c), NEW k \in KIds, k < nextK, Kept(k)
  PROVE  Kept(k)'
<1>1. owner'[k] = owner[k]
  BY DEF Moves
<1>2. CASE k \in keys
  BY <1>1, <1>2 DEF Kept, Moves
<1>3. CASE owner[k] \notin tenants
  <2>1. pc[c] = "flushed" => owner[k] # arg[c].tid
    BY DEF IInv, Hands
  <2> QED BY <1>1, <1>3, <2>1 DEF Kept, Moves
<1> QED BY <1>2, <1>3 DEF Kept

\* What the other requests, the clients and the history rely on stays.
LEMMA OthersKeep ==
  ASSUME IInv, NEW c \in Calls, Moves(c)
  PROVE  /\ \A o \in Calls : o # c /\ pc'[o] = pc[o] /\ arg'[o] = arg[o] => Hands(o)'
         /\ shown' = shown => ShownOK'
         /\ effects' = effects => EffectsOK'
<1>1. nextT \in Nat /\ nextK \in Nat /\ nextT' \in Nat /\ nextK' \in Nat
      /\ nextT <= nextT' /\ nextK <= nextK'
  BY BoundsAssumption DEF IInv, TypeOK, Moves
<1>2. \A k \in KIds : k < nextK => k < nextK' /\ owner'[k] = owner[k]
  BY <1>1 DEF Moves, KIds
<1>3. ASSUME NEW o \in Calls, o # c, pc'[o] = pc[o], arg'[o] = arg[o]
      PROVE  Hands(o)'
  <2>1. Hands(o)
    BY DEF IInv
  <2>2. pc[o] = "flushed" =>
           /\ arg[o].tid \in TIds /\ arg[o].tid < nextT' /\ arg[o].tid \notin tenants'
           /\ \A k \in KIds : owner'[k] # arg[o].tid
    <3> SUFFICES ASSUME pc[o] = "flushed"
                 PROVE  /\ arg[o].tid \in TIds /\ arg[o].tid < nextT' /\ arg[o].tid \notin tenants'
                        /\ \A k \in KIds : owner'[k] # arg[o].tid
      OBVIOUS
    <3>1. /\ arg[o].tid \in TIds /\ arg[o].tid < nextT /\ arg[o].tid \notin tenants
          /\ \A k \in KIds : owner[k] # arg[o].tid
      BY <2>1 DEF Hands
    <3>2. pc[c] # "flushed"
      BY <1>3 DEF IInv, OneFlushed
    <3>3. arg[o].tid \notin tenants'
      BY <3>1, <3>2 DEF Moves
    <3>4. arg[o].tid < nextT'
      BY <1>1, <3>1 DEF TIds
    <3> QED BY <3>1, <3>3, <3>4 DEF Moves
  <2>3. pc[o] = "created" =>
           /\ arg[o].tid \in TIds /\ arg[o].kid \in KIds /\ arg[o].kid < nextK'
           /\ owner'[arg[o].kid] = arg[o].tid /\ Kept(arg[o].kid)'
    <3> SUFFICES ASSUME pc[o] = "created"
                 PROVE  /\ arg[o].tid \in TIds /\ arg[o].kid \in KIds /\ arg[o].kid < nextK'
                        /\ owner'[arg[o].kid] = arg[o].tid /\ Kept(arg[o].kid)'
      OBVIOUS
    <3>1. /\ arg[o].tid \in TIds /\ arg[o].kid \in KIds /\ arg[o].kid < nextK
          /\ owner[arg[o].kid] = arg[o].tid /\ Kept(arg[o].kid)
      BY <2>1 DEF Hands
    <3>2. PICK k \in KIds : k = arg[o].kid
      BY <3>1
    <3>3. Kept(k)'
      BY <3>1, <3>2, KeptKept
    <3>4. arg'[o].kid = k
      BY <1>3, <3>2
    <3> QED BY <1>2, <1>3, <3>1, <3>2, <3>3, <3>4 DEF Kept
  <2>4. pc[o] \in Handlers \cup {"keyed", "revoking"} =>
           /\ arg[o].tid \in TIds /\ arg[o].cred \in KIds /\ arg[o].cred < nextK'
           /\ owner'[arg[o].cred] = arg[o].tid
    BY <1>2, <2>1 DEF Hands
  <2>5. pc[o] = "keyed" => arg[o].kid \in KIds /\ arg[o].kid < nextK'
    BY <1>2, <2>1 DEF Hands
  <2>6. pc[o] = "revoking" => arg[o].kid \in KIds
    BY <2>1 DEF Hands
  <2> QED BY <1>3, <2>2, <2>3, <2>4, <2>5, <2>6 DEF Hands, Kept
<1>4. ASSUME shown' = shown PROVE ShownOK'
  <2>1. \A k \in shown : k \in KIds /\ k < nextK /\ owner[k] \in TIds /\ Kept(k)
    BY DEF IInv, TypeOK, ShownOK
  <2>2. \A k \in shown : Kept(k)'
    BY <2>1, KeptKept
  <2> QED BY <1>2, <1>4, <2>1, <2>2 DEF ShownOK
<1>5. ASSUME effects' = effects PROVE EffectsOK'
  <2>1. \A e \in effects : e.cred \in KIds
    BY DEF IInv, TypeOK
  <2> QED BY <1>2, <1>5, <2>1 DEF IInv, EffectsOK
<1> QED BY <1>3, <1>4, <1>5

\* The tables and sequences keep their types.
DbTyped ==
    /\ tenants \subseteq TIds /\ active \subseteq tenants
    /\ keys \subseteq KIds /\ revoked \subseteq KIds
    /\ ns \in [TIds -> 0..MaxTenants]
    /\ owner \in [KIds -> 0..MaxTenants]
    /\ name \in [KIds -> Names \cup {"none"}]
    /\ nextT \in 1..(MaxTenants + 1) /\ nextK \in 1..(MaxKeys + 1)

\* No row of tenants and api_keys comes, goes or changes its references.
LEMMA SameRows ==
  ASSUME IInv, NEW c \in Calls, UNCHANGED <<tenants, ns, keys, owner>>,
         nextT' \in {nextT, nextT + 1}, nextK' \in {nextK, nextK + 1}
  PROVE  RowsOK' /\ Moves(c)
<1>1. /\ nextT \in Nat /\ nextK \in Nat /\ tenants \subseteq Nat /\ keys \subseteq Nat
      /\ \A k \in KIds : owner[k] \in Nat
  BY BoundsAssumption DEF IInv, TypeOK, TIds, KIds
<1>2. RowsOK'
  BY <1>1 DEF IInv, RowsOK, TenantsComplete
<1>3. Moves(c)
  BY <1>1 DEF Moves
<1> QED BY <1>2, <1>3

\* The commit of a creation.
LEMMA TenantAdded ==
  ASSUME IInv, NEW c \in Calls, pc[c] = "flushed", TenantRows(arg[c].tid),
         nextK' = nextK + 1, UNCHANGED <<revoked, nextT>>
  PROVE  /\ RowsOK' /\ Moves(c) /\ DbTyped'
         /\ nextK \in KIds /\ nextK \in keys' /\ owner'[nextK] = arg[c].tid
<1>1. PICK t \in TIds : /\ t = arg[c].tid /\ t < nextT /\ t \notin tenants
                        /\ \A k \in KIds : owner[k] # t
  BY DEF IInv, Hands
<1>2. nextK \in KIds /\ nextK \in Nat /\ nextT \in Nat /\ nextK >= 1
  BY FreshIds DEF IInv
<1>3. /\ tenants' = tenants \cup {t} /\ active' = active \cup {t} /\ ns' = [ns EXCEPT ![t] = t]
      /\ keys' = keys \cup {nextK} /\ owner' = [owner EXCEPT ![nextK] = t]
      /\ name' = [name EXCEPT ![nextK] = "primary"]
  BY <1>1 DEF TenantRows, InsertKeyRow
<1>4. DbTyped'
  BY <1>2, <1>3, NamesAssumption, BoundsAssumption DEF IInv, TypeOK, DbTyped, TIds, KIds
<1>5. /\ owner'[nextK] = t /\ ns'[t] = t
      /\ \A k \in KIds : k # nextK => owner'[k] = owner[k]
      /\ \A u \in tenants : ns'[u] = ns[u] \/ u = t
  BY <1>2, <1>3 DEF IInv, TypeOK
<1>6. \A k \in KIds : k \in keys => k < nextK /\ k # nextK
  BY <1>2 DEF IInv, RowsOK, KIds
<1>7. tenants \subseteq TIds /\ keys \subseteq KIds
  BY DEF IInv, TypeOK
<1>8. RowsOK'
  <2>1. \A u \in tenants' : u < nextT'
    BY <1>1, <1>3 DEF IInv, RowsOK
  <2>2. \A k \in keys' : k < nextK' /\ owner'[k] \in tenants'
    BY <1>2, <1>3, <1>5, <1>6, <1>7 DEF IInv, RowsOK, KIds
  <2>3. \A k \in KIds : owner'[k] < nextT'
    BY <1>1, <1>5 DEF IInv, RowsOK
  <2>4. ASSUME NEW u \in tenants' PROVE ns'[u] = u /\ \E k \in keys' : owner'[k] = u
    <3>1. CASE u = t
      BY <1>3, <1>5, <3>1
    <3>2. CASE u # t
      <4>1. PICK k \in keys : owner[k] = u
        BY <1>3, <3>2 DEF IInv, RowsOK, TenantsComplete
      <4>2. k \in keys' /\ owner'[k] = u
        BY <1>3, <1>5, <1>6, <1>7, <4>1
      <4>3. ns'[u] = u
        BY <1>3, <1>5, <3>2 DEF IInv, RowsOK, TenantsComplete
      <4> QED BY <4>2, <4>3
    <3> QED BY <3>1, <3>2
  <2> QED BY <2>1, <2>2, <2>3, <2>4 DEF RowsOK, TenantsComplete
<1>9. Moves(c)
  BY <1>1, <1>2, <1>3, <1>5 DEF Moves
<1> QED BY <1>1, <1>2, <1>3, <1>4, <1>5, <1>8, <1>9

\* The commit of another key.
LEMMA KeyAdded ==
  ASSUME IInv, NEW c \in Calls, pc[c] = "addkey", NEW t \in tenants, NEW n \in Names,
         InsertKeyRow(t, n), nextK' = nextK + 1, UNCHANGED <<tenants, active, ns, revoked, nextT>>
  PROVE  /\ RowsOK' /\ Moves(c) /\ DbTyped'
         /\ nextK \in KIds /\ nextK \in keys' /\ owner'[nextK] = t
<1>1. nextK \in KIds /\ nextK \in Nat /\ nextT \in Nat /\ nextK >= 1 /\ t \in TIds /\ t < nextT
  BY FreshIds DEF IInv, TypeOK, RowsOK
<1>2. /\ keys' = keys \cup {nextK} /\ owner' = [owner EXCEPT ![nextK] = t]
      /\ name' = [name EXCEPT ![nextK] = n]
  BY DEF InsertKeyRow
<1>3. DbTyped'
  BY <1>1, <1>2, BoundsAssumption DEF IInv, TypeOK, DbTyped, TIds, KIds
<1>4. owner'[nextK] = t /\ \A k \in KIds : k # nextK => owner'[k] = owner[k]
  BY <1>1, <1>2 DEF IInv, TypeOK
<1>5. \A k \in keys : k \in KIds /\ k < nextK /\ k # nextK
  BY <1>1 DEF IInv, TypeOK, RowsOK, KIds
<1>6. RowsOK'
  <2>1. \A k \in keys' : k < nextK' /\ owner'[k] \in tenants'
    BY <1>1, <1>2, <1>4, <1>5 DEF IInv, RowsOK, KIds
  <2>2. \A k \in KIds : owner'[k] < nextT'
    BY <1>1, <1>4 DEF IInv, RowsOK
  <2>3. TenantsComplete'
    BY <1>2, <1>4, <1>5 DEF IInv, RowsOK, TenantsComplete
  <2> QED BY <2>1, <2>2, <2>3 DEF IInv, RowsOK
<1>7. Moves(c)
  BY <1>1, <1>2, <1>4 DEF Moves
<1> QED BY <1>1, <1>2, <1>3, <1>4, <1>6, <1>7

\* The commit of a deletion.
LEMMA TenantDeleted ==
  ASSUME IInv, NEW c \in Calls, NEW t, DeleteRows(t),
         UNCHANGED <<ns, revoked, owner, name, nextT, nextK>>
  PROVE  RowsOK' /\ Moves(c) /\ DbTyped'
<1>1. /\ tenants' = tenants \ {t} /\ active' = active \ {t}
      /\ keys' = {k \in keys : owner[k] # t}
  BY DEF DeleteRows
<1>2. nextK \in Nat /\ nextT \in Nat
  BY BoundsAssumption DEF IInv, TypeOK
<1>3. DbTyped'
  BY <1>1 DEF IInv, TypeOK, DbTyped
<1>4. RowsOK'
  BY <1>1 DEF IInv, RowsOK, TenantsComplete
<1>5. Moves(c)
  BY <1>1, <1>2 DEF Moves
<1> QED BY <1>3, <1>4, <1>5

\* A statement of one request preserves the invariant if it treats the tables
\* as above and leaves the request with what it will rely on.
LEMMA StepKeeps ==
  ASSUME IInv, NEW c \in Calls, NEW at \in Answers \cup Awaits, NEW a \in Args, Goes(c, at, a),
         Moves(c), RowsOK', DbTyped', Hands(c)', at # "conflict",
         at = "flushed" => pc[c] = "create" /\ \A o \in Calls : pc[o] # "flushed",
         at \in {"create", "addkey"} => IdsLeft,
         \/ nextT' = nextT
         \/ nextT' = nextT + 1 /\ pc[c] = "create" /\ at # "create",
         \/ nextK' = nextK
         \/ nextK' = nextK + 1 /\ pc[c] \in {"flushed", "addkey"}
            /\ at \notin {"create", "flushed", "addkey"},
         shown' = shown \/ (shown' \subseteq KIds /\ ShownOK'),
         effects' = effects \/ (effects' \subseteq [tenant : TIds, cred : KIds] /\ EffectsOK')
  PROVE  IInv'
<1>1. TypeOK /\ Budget
  BY DEF IInv
<1>2. /\ pc' = [pc EXCEPT ![c] = at]
      /\ pc' \in [Calls -> Answers \cup Awaits] /\ arg' \in [Calls -> Args]
      /\ pc'[c] = at /\ arg'[c] = a
      /\ \A o \in Calls : o # c => pc'[o] = pc[o] /\ arg'[o] = arg[o]
  BY <1>1, GoesFacts
<1>3. TypeOK'
  BY <1>1, <1>2 DEF TypeOK, DbTyped
<1>4. Budget'
  BY <1>1, <1>2, BudgetKept
<1>5. ASSUME NEW o \in Calls PROVE Hands(o)'
  BY <1>2, OthersKeep
<1>6. OneFlushed'
  BY <1>2 DEF IInv, OneFlushed
<1>7. ShownOK' /\ EffectsOK'
  BY OthersKeep
<1>8. CreationsNeverConflict'
  BY <1>2 DEF IInv, CreationsNeverConflict
<1> QED BY <1>3, <1>4, <1>5, <1>6, <1>7, <1>8 DEF IInv

\* The same for a statement after which the request is answered.
LEMMA EndKeeps ==
  ASSUME IInv, NEW c \in Calls, NEW x \in {"ok", "refused", "error"}, Ends(c, x),
         Moves(c), RowsOK', DbTyped', nextT' = nextT,
         nextK' = nextK \/ (nextK' = nextK + 1 /\ pc[c] \in {"flushed", "addkey"}),
         shown' = shown \/ (shown' \subseteq KIds /\ ShownOK'),
         effects' = effects \/ (effects' \subseteq [tenant : TIds, cred : KIds] /\ EffectsOK')
  PROVE  IInv'
<1>1. Goes(c, x, Blank) /\ Blank \in Args /\ x \in Answers \cup Awaits
  BY BlankIs DEF Ends, Answers
<1>2. x \notin Handlers \cup {"flushed", "created", "keyed", "revoking", "conflict", "create"}
  BY DEF Handlers
<1>3. pc'[c] = x
  BY <1>1, GoesFacts DEF IInv
<1>4. Hands(c)'
  BY <1>2, <1>3 DEF Hands
<1>5. x \notin {"create", "flushed", "addkey"}
  OBVIOUS
<1> QED BY <1>1, <1>2, <1>4, <1>5, StepKeeps

\* A statement that only reads.
LEMMA Reads ==
  ASSUME IInv, NEW c \in Calls, UNCHANGED <<dbVars, nextT, nextK>>
  PROVE  RowsOK' /\ Moves(c) /\ DbTyped'
<1>1. UNCHANGED <<tenants, active, ns, keys, revoked, owner, name>> /\ UNCHANGED <<nextT, nextK>>
  BY DEF dbVars
<1>2. DbTyped'
  BY <1>1 DEF IInv, TypeOK, DbTyped
<1> QED BY <1>1, <1>2, SameRows

\* A request that is not answered goes on to an await that relies on nothing.
LEMMA FreeKeeps ==
  ASSUME IInv, NEW c \in Calls, NEW at \in {"create", "delete", "update", "loaded"},
         NEW a \in Args, Goes(c, at, a), UNCHANGED <<dbVars, nextT, nextK, shown, effects>>,
         at = "create" => IdsLeft
  PROVE  IInv'
<1>1. at \in Answers \cup Awaits /\ at \notin Handlers
  BY DEF Awaits, Handlers
<1>2. pc'[c] = at
  BY <1>1, GoesFacts DEF IInv
<1>3. Hands(c)'
  BY <1>1, <1>2 DEF Hands
<1>4. RowsOK' /\ Moves(c) /\ DbTyped'
  BY Reads
<1> QED BY <1>1, <1>3, <1>4, StepKeeps

-----------------------------------------------------------------------------
(* The steps.                                                               *)

\* The admin key is checked.
LEMMA AdminStep ==
  ASSUME IInv, NEW c \in Calls, verify_admin(c)
  PROVE  IInv'
<1>1. UNCHANGED <<dbVars, nextT, nextK, shown, effects>>
  BY DEF verify_admin
<1>2. RowsOK' /\ Moves(c) /\ DbTyped'
  BY <1>1, Reads
<1>3. CASE Ends(c, "refused")
  BY <1>1, <1>2, <1>3, EndKeeps
<1>4. CASE IdsLeft /\ Goes(c, "create", Blank)
  BY <1>1, <1>4, BlankIs, FreeKeeps
<1>5. CASE \E t \in TIds : Goes(c, "delete", Arg(t, 0, 0))
  <2>1. PICK t \in TIds : Goes(c, "delete", Arg(t, 0, 0))
    BY <1>5
  <2>2. Arg(t, 0, 0) \in Args
    BY ArgIs, BoundsAssumption DEF TIds
  <2> QED BY <1>1, <2>1, <2>2, FreeKeeps
<1>6. CASE \E t \in TIds, b \in Bodies : Goes(c, "update", UpdateArg(t, b, FALSE))
  <2>1. PICK t \in TIds, b \in Bodies : Goes(c, "update", UpdateArg(t, b, FALSE))
    BY <1>6
  <2>2. t \in 0..MaxTenants /\ FALSE \in BOOLEAN
    BY BoundsAssumption DEF TIds
  <2>3. UpdateArg(t, b, FALSE) \in Args
    BY <2>2, UpdateArgIs, Zenon
  <2> QED BY <1>1, <2>1, <2>3, FreeKeeps
<1> QED BY <1>3, <1>4, <1>5, <1>6 DEF verify_admin

\* The placeholder is inserted: no committed row has it, so the 409 is out.
LEMMA FlushStep ==
  ASSUME IInv, NEW c \in Calls, FlushTenant(c)
  PROVE  IInv'
<1>1. /\ pc[c] = "create" /\ \A o \in Calls : pc[o] # "flushed"
      /\ UNCHANGED <<dbVars, nextK, shown, effects>>
  BY DEF FlushTenant
<1>2. ~\E t \in tenants : ns[t] = 0
  BY DEF IInv, TypeOK, RowsOK, TenantsComplete, TIds
<1>3. CASE Fails(c) /\ nextT' = nextT
  <2>1. RowsOK' /\ Moves(c) /\ DbTyped'
    BY <1>1, <1>3, Reads
  <2>2. Ends(c, "error")
    BY <1>3 DEF Fails
  <2> QED BY <1>1, <1>3, <2>1, <2>2, EndKeeps
<1>4. CASE nextT' = nextT + 1 /\ Goes(c, "flushed", Arg(nextT, 0, 0))
  <2>1. nextT \in TIds /\ nextT \in Nat
    BY <1>1, FreshIds DEF IInv
  <2>2. PICK a \in Args : a = Arg(nextT, 0, 0) /\ a.tid = nextT
    BY <2>1, ArgIs, BoundsAssumption DEF TIds
  <2>3. Goes(c, "flushed", a) /\ "flushed" \in Answers \cup Awaits
    BY <1>4, <2>2 DEF Awaits
  <2>4. UNCHANGED <<tenants, active, ns, keys, revoked, owner, name>>
    BY <1>1 DEF dbVars
  <2>5. RowsOK' /\ Moves(c)
    BY <1>1, <1>4, <2>4, SameRows
  <2>6. DbTyped'
    BY <1>1, <1>4, <2>1, <2>4, BoundsAssumption DEF IInv, TypeOK, DbTyped, TIds
  <2>7. pc'[c] = "flushed" /\ arg'[c] = a
    BY <2>3, GoesFacts DEF IInv
  <2>8. nextT \notin tenants /\ \A k \in KIds : owner[k] # nextT
    BY <2>1 DEF IInv, RowsOK
  <2>9. Hands(c)'
    BY <1>4, <2>1, <2>2, <2>4, <2>7, <2>8 DEF Hands, Handlers
  <2> QED BY <1>1, <1>4, <2>3, <2>5, <2>6, <2>9, StepKeeps
<1> QED BY <1>2, <1>3, <1>4 DEF FlushTenant

\* Tenant, namespace and key become visible together, or nothing does.
LEMMA CommitTenantStep ==
  ASSUME IInv, NEW c \in Calls, CommitTenant(c)
  PROVE  IInv'
<1>1. /\ pc[c] = "flushed" /\ nextK' = nextK + 1
      /\ UNCHANGED <<revoked, nextT, shown, effects>>
  BY DEF CommitTenant
<1>2. CASE TenantRows(arg[c].tid) /\ Goes(c, "created", Arg(arg[c].tid, nextK, 0))
  <2>1. /\ RowsOK' /\ Moves(c) /\ DbTyped'
        /\ nextK \in KIds /\ nextK \in keys' /\ owner'[nextK] = arg[c].tid
    BY <1>1, <1>2, TenantAdded
  <2>2. arg[c].tid \in TIds
    BY <1>1 DEF IInv, Hands
  <2>3. PICK a \in Args : a = Arg(arg[c].tid, nextK, 0) /\ a.tid = arg[c].tid /\ a.kid = nextK
    BY <2>1, <2>2, ArgIs, BoundsAssumption DEF TIds, KIds
  <2>4. Goes(c, "created", a) /\ "created" \in Answers \cup Awaits
    BY <1>2, <2>3 DEF Awaits
  <2>5. pc'[c] = "created" /\ arg'[c] = a
    BY <2>4, GoesFacts DEF IInv
  <2>6. Hands(c)'
    BY <1>1, <2>1, <2>2, <2>3, <2>5 DEF Hands, Handlers, Kept, KIds
  <2> QED BY <1>1, <2>1, <2>4, <2>6, StepKeeps
<1>3. CASE TenantRows(arg[c].tid) /\ Fails(c)
  <2>1. RowsOK' /\ Moves(c) /\ DbTyped'
    BY <1>1, <1>3, TenantAdded
  <2>2. Ends(c, "error")
    BY <1>3 DEF Fails
  <2> QED BY <1>1, <2>1, <2>2, EndKeeps
<1>4. CASE Fails(c) /\ UNCHANGED <<tenants, active, ns, keys, owner, name>>
  <2>1. RowsOK' /\ Moves(c)
    BY <1>1, <1>4, SameRows
  <2>2. nextK \in KIds
    BY <1>1, FreshIds DEF IInv
  <2>3. DbTyped'
    BY <1>1, <1>4, <2>2, BoundsAssumption DEF IInv, TypeOK, DbTyped, KIds
  <2>4. Ends(c, "error")
    BY <1>4 DEF Fails
  <2> QED BY <1>1, <2>1, <2>3, <2>4, EndKeeps
<1> QED BY <1>2, <1>3, <1>4 DEF CommitTenant

\* The first key is shown after its row was read back.
LEMMA RefreshTenantStep ==
  ASSUME IInv, NEW c \in Calls, RefreshTenant(c)
  PROVE  IInv'
<1>1. pc[c] = "created" /\ UNCHANGED <<dbVars, nextT, nextK, effects>>
  BY DEF RefreshTenant
<1>2. RowsOK' /\ Moves(c) /\ DbTyped'
  BY <1>1, Reads
<1>3. PICK x \in {"ok", "error"} :
         Ends(c, x) /\ (shown' = shown \/ shown' = shown \cup {arg[c].kid})
  BY DEF RefreshTenant, Fails
<1>4. shown' = shown \/ (shown' \subseteq KIds /\ ShownOK')
  <2>1. /\ arg[c].kid \in KIds /\ arg[c].kid < nextK
        /\ owner[arg[c].kid] \in TIds /\ Kept(arg[c].kid)
    BY <1>1 DEF IInv, Hands
  <2>2. UNCHANGED <<tenants, keys, owner, nextK>>
    BY <1>1 DEF dbVars
  <2> QED BY <1>3, <2>1, <2>2 DEF IInv, TypeOK, ShownOK, Kept
<1> QED BY <1>1, <1>2, <1>3, <1>4, EndKeeps

\* A tenant and its keys go.
LEMMA DeleteStep ==
  ASSUME IInv, NEW c \in Calls, DeleteTenant(c)
  PROVE  IInv'
<1>1. UNCHANGED <<ns, revoked, owner, name, nextT, nextK, shown, effects>>
  BY DEF DeleteTenant
<1>2. PICK x \in {"ok", "refused", "error"} : Ends(c, x)
  BY DEF DeleteTenant, Fails
<1>3. RowsOK' /\ Moves(c) /\ DbTyped'
  <2>1. CASE DeleteRows(arg[c].tid)
    BY <1>1, <2>1, TenantDeleted
  <2>2. CASE UNCHANGED <<tenants, active, keys>>
    BY <1>1, <2>2, Reads DEF dbVars
  <2> QED BY <2>1, <2>2 DEF DeleteTenant
<1> QED BY <1>1, <1>2, <1>3, EndKeeps

\* An update loads the row.
LEMMA LoadTenantStep ==
  ASSUME IInv, NEW c \in Calls, LoadTenant(c)
  PROVE  IInv'
<1>1. UNCHANGED <<dbVars, nextT, nextK, shown, effects>>
  BY DEF LoadTenant
<1>2. RowsOK' /\ Moves(c) /\ DbTyped'
  BY <1>1, Reads
<1>3. CASE Ends(c, "refused") \/ Fails(c)
  BY <1>1, <1>2, <1>3, EndKeeps DEF Fails
<1>4. CASE Goes(c, "loaded", UpdateArg(arg[c].tid, arg[c].body, arg[c].tid \in active))
  <2>1. arg[c] \in Args
    BY DEF IInv, TypeOK
  <2>2. arg[c].tid \in 0..MaxTenants /\ arg[c].body \in Bodies /\ (arg[c].tid \in active) \in BOOLEAN
    BY <2>1 DEF Args
  <2>3. UpdateArg(arg[c].tid, arg[c].body, arg[c].tid \in active) \in Args
    BY <2>2, UpdateArgIs
  <2> QED BY <1>1, <1>4, <2>3, FreeKeeps
<1> QED BY <1>3, <1>4 DEF LoadTenant

\* An update changes is_active of a row that is there.
LEMMA CommitUpdateStep ==
  ASSUME IInv, NEW c \in Calls, CommitUpdate(c)
  PROVE  IInv'
<1>1. UNCHANGED <<tenants, ns, keys, revoked, owner, name, nextT, nextK, shown, effects>>
  BY DEF CommitUpdate
<1>2. PICK x \in {"ok", "error"} : Ends(c, x)
  BY DEF CommitUpdate, Fails
<1>3. RowsOK' /\ Moves(c)
  BY <1>1, SameRows
<1>4. active' \subseteq tenants
  BY DEF CommitUpdate, Written, IInv, TypeOK
<1>5. DbTyped'
  BY <1>1, <1>4 DEF IInv, TypeOK, DbTyped
<1> QED BY <1>1, <1>2, <1>3, <1>5, EndKeeps

\* A raw key is checked; what is let through has a key of its tenant.
LEMMA TenantCheckStep ==
  ASSUME IInv, NEW c \in Calls, verify_tenant(c)
  PROVE  IInv'
<1>1. UNCHANGED <<dbVars, nextT, nextK, shown, effects>>
  BY DEF verify_tenant
<1>2. RowsOK' /\ Moves(c) /\ DbTyped'
  BY <1>1, Reads
<1>3. CASE Ends(c, "refused") \/ Fails(c)
  BY <1>1, <1>2, <1>3, EndKeeps DEF Fails
<1>4. CASE \E k \in shown, t \in TIds, h \in Handlers :
              MayPass(k, t) /\ (h = "addkey" => IdsLeft) /\ Goes(c, h, Arg(t, 0, k))
  <2>1. PICK k \in shown, t \in TIds, h \in Handlers :
              MayPass(k, t) /\ (h = "addkey" => IdsLeft) /\ Goes(c, h, Arg(t, 0, k))
    BY <1>4
  <2>2. k \in KIds /\ k < nextK /\ owner[k] = t
    BY <2>1 DEF IInv, TypeOK, ShownOK, MayPass
  <2>3. PICK a \in Args : a = Arg(t, 0, k) /\ a.tid = t /\ a.cred = k
    BY <2>2, ArgIs, BoundsAssumption DEF TIds, KIds
  <2>4. Goes(c, h, a) /\ h \in Answers \cup Awaits
    BY <2>1, <2>3 DEF Awaits
  <2>5. pc'[c] = h /\ arg'[c] = a
    BY <2>4, GoesFacts DEF IInv
  <2>6. h \notin {"flushed", "created", "keyed", "revoking", "conflict", "create"}
    BY DEF Handlers
  <2>7. UNCHANGED <<owner, nextK>>
    BY <1>1 DEF dbVars
  <2>8. Hands(c)'
    BY <2>2, <2>3, <2>5, <2>6, <2>7 DEF Hands
  <2> QED BY <1>1, <1>2, <2>1, <2>4, <2>6, <2>8, StepKeeps
<1> QED BY <1>3, <1>4 DEF verify_tenant

\* What is done in the name of a tenant is done with a key of it.
LEMMA DoesScoped ==
  ASSUME IInv, NEW c \in Calls, pc[c] \in Handlers \cup {"keyed", "revoking"}, Does(c), Moves(c)
  PROVE  effects' \subseteq [tenant : TIds, cred : KIds] /\ EffectsOK'
<1> DEFINE e == [tenant |-> arg[c].tid, cred |-> arg[c].cred]
<1>1. /\ arg[c].tid \in TIds /\ arg[c].cred \in KIds /\ arg[c].cred < nextK
      /\ owner[arg[c].cred] = arg[c].tid
  BY DEF IInv, Hands
<1>2. /\ e \in [tenant : TIds, cred : KIds] /\ e.cred \in KIds /\ e.cred < nextK
      /\ owner[e.cred] = e.tenant
  BY <1>1
<1>3. effects' = effects \cup {e}
  BY DEF Does
<1> HIDE DEF e
<1>4. \A f \in effects' : f.cred \in KIds /\ f.cred < nextK /\ owner[f.cred] = f.tenant
  BY <1>2, <1>3 DEF IInv, TypeOK, EffectsOK
<1>5. \A k \in KIds : k < nextK => k < nextK' /\ owner'[k] = owner[k]
  BY BoundsAssumption DEF Moves, IInv, TypeOK, KIds
<1>6. EffectsOK'
  BY <1>4, <1>5 DEF EffectsOK
<1> QED BY <1>2, <1>3, <1>6 DEF IInv, TypeOK

\* Another key of the tenant is committed, or refused.
LEMMA InsertKeyStep ==
  ASSUME IInv, NEW c \in Calls, InsertKey(c)
  PROVE  IInv'
<1>1. /\ pc[c] = "addkey" /\ nextK' = nextK + 1 /\ pc[c] \in Handlers
      /\ UNCHANGED <<tenants, active, ns, revoked, nextT, shown>>
  BY DEF InsertKey, Handlers
<1>2. CASE /\ UNCHANGED <<keys, owner, name, effects>>
           /\ Ends(c, "refused") \/ Fails(c)
  <2>1. RowsOK' /\ Moves(c)
    BY <1>1, <1>2, SameRows
  <2>2. nextK \in KIds
    BY <1>1, FreshIds DEF IInv
  <2>3. DbTyped'
    BY <1>1, <1>2, <2>2, BoundsAssumption DEF IInv, TypeOK, DbTyped, KIds
  <2> QED BY <1>1, <1>2, <2>1, <2>3, EndKeeps DEF Fails
<1>3. CASE \E n \in Names : /\ arg[c].tid \in tenants /\ InsertKeyRow(arg[c].tid, n) /\ Does(c)
                            /\ Goes(c, "keyed", Arg(arg[c].tid, nextK, arg[c].cred)) \/ Fails(c)
  <2>1. /\ RowsOK' /\ Moves(c) /\ DbTyped'
        /\ nextK \in KIds /\ nextK \in keys' /\ owner'[nextK] = arg[c].tid
    BY <1>1, <1>3, KeyAdded
  <2>2. Does(c)
    BY <1>3
  <2>3. effects' \subseteq [tenant : TIds, cred : KIds] /\ EffectsOK'
    BY <1>1, <2>1, <2>2, DoesScoped
  <2>4. CASE Fails(c)
    BY <1>1, <2>1, <2>3, <2>4, EndKeeps DEF Fails
  <2>5. CASE Goes(c, "keyed", Arg(arg[c].tid, nextK, arg[c].cred))
    <3>1. /\ arg[c].tid \in TIds /\ arg[c].cred \in KIds /\ arg[c].cred < nextK
          /\ owner[arg[c].cred] = arg[c].tid
      BY <1>1 DEF IInv, Hands
    <3>2. PICK a \in Args : /\ a = Arg(arg[c].tid, nextK, arg[c].cred)
                            /\ a.tid = arg[c].tid /\ a.kid = nextK /\ a.cred = arg[c].cred
      BY <2>1, <3>1, ArgIs, BoundsAssumption DEF TIds, KIds
    <3>3. Goes(c, "keyed", a) /\ "keyed" \in Answers \cup Awaits
      BY <2>5, <3>2 DEF Awaits
    <3>4. pc'[c] = "keyed" /\ arg'[c] = a
      BY <3>3, GoesFacts DEF IInv
    <3>5. nextK < nextK' /\ arg[c].cred < nextK' /\ owner'[arg[c].cred] = arg[c].tid
      BY <1>1, <2>1, <3>1 DEF Moves, KIds
    <3>6. Hands(c)'
      BY <2>1, <3>1, <3>2, <3>4, <3>5 DEF Hands
    <3> QED BY <1>1, <2>1, <2>3, <3>3, <3>6, StepKeeps
  <2> QED BY <1>3, <2>4, <2>5
<1> QED BY <1>2, <1>3 DEF InsertKey

\* A key is shown after its row was read back.
LEMMA RefreshKeyStep ==
  ASSUME IInv, NEW c \in Calls, RefreshKey(c)
  PROVE  IInv'
<1>1. pc[c] = "keyed" /\ UNCHANGED <<dbVars, nextT, nextK, effects>>
  BY DEF RefreshKey
<1>2. RowsOK' /\ Moves(c) /\ DbTyped'
  BY <1>1, Reads
<1>3. PICK x \in {"ok", "error"} :
         /\ Ends(c, x)
         /\ shown' = shown \/ (shown' = shown \cup {arg[c].kid} /\ arg[c].kid \in keys)
  BY DEF RefreshKey, Fails
<1>4. shown' = shown \/ (shown' \subseteq KIds /\ ShownOK')
  <2>1. arg[c].kid \in keys => /\ arg[c].kid \in KIds /\ arg[c].kid < nextK
                               /\ owner[arg[c].kid] \in TIds /\ Kept(arg[c].kid)
    BY DEF IInv, TypeOK, RowsOK, Kept
  <2>2. UNCHANGED <<tenants, keys, owner, nextK>>
    BY <1>1 DEF dbVars
  <2> QED BY <1>3, <2>1, <2>2 DEF IInv, TypeOK, ShownOK, Kept
<1> QED BY <1>1, <1>2, <1>3, <1>4, EndKeeps

\* A key of the tenant of the URL is loaded for revocation.
LEMMA LoadKeyStep ==
  ASSUME IInv, NEW c \in Calls, LoadKey(c)
  PROVE  IInv'
<1>1. pc[c] = "revoke" /\ UNCHANGED <<dbVars, nextT, nextK, shown, effects>>
  BY DEF LoadKey
<1>2. RowsOK' /\ Moves(c) /\ DbTyped'
  BY <1>1, Reads
<1>3. CASE Ends(c, "refused") \/ Fails(c)
  BY <1>1, <1>2, <1>3, EndKeeps DEF Fails
<1>4. CASE \E k \in keys : Goes(c, "revoking", Arg(arg[c].tid, k, arg[c].cred))
  <2>1. PICK k \in keys : Goes(c, "revoking", Arg(arg[c].tid, k, arg[c].cred))
    BY <1>4
  <2>2. /\ arg[c].tid \in TIds /\ arg[c].cred \in KIds /\ arg[c].cred < nextK
        /\ owner[arg[c].cred] = arg[c].tid /\ k \in KIds
    BY <1>1 DEF IInv, TypeOK, Hands, Handlers
  <2>3. PICK a \in Args : /\ a = Arg(arg[c].tid, k, arg[c].cred)
                          /\ a.tid = arg[c].tid /\ a.kid = k /\ a.cred = arg[c].cred
    BY <2>2, ArgIs, BoundsAssumption DEF TIds, KIds
  <2>4. Goes(c, "revoking", a) /\ "revoking" \in Answers \cup Awaits
    BY <2>1, <2>3 DEF Awaits
  <2>5. pc'[c] = "revoking" /\ arg'[c] = a
    BY <2>4, GoesFacts DEF IInv
  <2>6. UNCHANGED <<owner, nextK>>
    BY <1>1 DEF dbVars
  <2>7. Hands(c)'
    BY <2>2, <2>3, <2>5, <2>6 DEF Hands
  <2> QED BY <1>1, <1>2, <2>4, <2>7, StepKeeps
<1> QED BY <1>3, <1>4 DEF LoadKey

\* The revocation is committed, or the row is gone.
LEMMA CommitRevokeStep ==
  ASSUME IInv, NEW c \in Calls, CommitRevoke(c)
  PROVE  IInv'
<1>1. /\ pc[c] = "revoking"
      /\ UNCHANGED <<tenants, active, ns, keys, owner, name, nextT, nextK, shown>>
  BY DEF CommitRevoke
<1>2. PICK x \in {"ok", "error"} : Ends(c, x)
  BY DEF CommitRevoke, Fails
<1>3. RowsOK' /\ Moves(c)
  BY <1>1, SameRows
<1>4. revoked' = revoked \/ revoked' = revoked \cup {arg[c].kid}
  BY DEF CommitRevoke, Revoke
<1>5. arg[c].kid \in KIds
  BY <1>1 DEF IInv, Hands
<1>6. DbTyped'
  BY <1>1, <1>4, <1>5 DEF IInv, TypeOK, DbTyped
<1>7. effects' = effects \/ Does(c)
  BY DEF CommitRevoke
<1>8. effects' = effects \/ (effects' \subseteq [tenant : TIds, cred : KIds] /\ EffectsOK')
  BY <1>1, <1>3, <1>7, DoesScoped
<1> QED BY <1>1, <1>2, <1>3, <1>6, <1>8, EndKeeps

\* A handler of another router does its work.
LEMMA WorkStep ==
  ASSUME IInv, NEW c \in Calls, Work(c)
  PROVE  IInv'
<1>1. pc[c] \in Handlers /\ UNCHANGED <<dbVars, nextT, nextK, shown>>
  BY DEF Work, Handlers
<1>2. RowsOK' /\ Moves(c) /\ DbTyped'
  BY <1>1, Reads
<1>3. PICK x \in {"ok", "error"} : Ends(c, x)
  BY DEF Work
<1>4. effects' = effects \/ Does(c)
  BY DEF Work
<1>5. effects' = effects \/ (effects' \subseteq [tenant : TIds, cred : KIds] /\ EffectsOK')
  BY <1>1, <1>2, <1>4, DoesScoped
<1> QED BY <1>1, <1>2, <1>3, <1>5, EndKeeps

\* A restart ends every request.
LEMMA CrashStep ==
  ASSUME IInv, Crash
  PROVE  IInv'
<1>1. /\ UNCHANGED <<dbVars, nextT, nextK, shown, effects>>
      /\ pc' = [c \in Calls |-> IF Finished(c) THEN pc[c] ELSE "error"]
      /\ arg' = [c \in Calls |-> Blank]
  BY DEF Crash
<1>2. /\ UNCHANGED <<tenants, active, ns, keys, revoked, owner, name>>
      /\ UNCHANGED <<nextT, nextK, shown, effects>>
  BY <1>1 DEF dbVars
<1>3. \A c \in Calls : pc'[c] \in Answers /\ pc'[c] # "conflict"
  BY <1>1 DEF IInv, CreationsNeverConflict, Finished, Answers
<1>4. TypeOK'
  <2>1. pc' \in [Calls -> Answers \cup Awaits]
    BY <1>1 DEF Finished, Answers
  <2> QED BY <1>1, <1>2, <2>1, BlankIs DEF IInv, TypeOK
<1>5. Budget'
  <2>1. Creating' = {} /\ Keying' = {}
    BY <1>3 DEF Creating, Keying, Answers
  <2>2. Cardinality(Creating') = 0 /\ Cardinality(Keying') = 0
    BY <2>1, FS_EmptySet
  <2>3. nextT <= MaxTenants + 1 /\ nextK <= MaxKeys + 1 /\ nextT \in Nat /\ nextK \in Nat
    BY BoundsAssumption DEF IInv, TypeOK
  <2> QED BY <1>2, <2>2, <2>3 DEF Budget
<1>6. RowsOK'
  BY <1>2 DEF IInv, RowsOK, TenantsComplete
<1>7. \A c \in Calls : Hands(c)'
  BY <1>3 DEF Hands, Answers, Handlers
<1>8. OneFlushed' /\ CreationsNeverConflict'
  BY <1>3 DEF OneFlushed, CreationsNeverConflict, Answers
<1>9. ShownOK' /\ EffectsOK'
  BY <1>2 DEF IInv, ShownOK, EffectsOK, Kept
<1> QED BY <1>4, <1>5, <1>6, <1>7, <1>8, <1>9 DEF IInv

\* The invariant holds at the start.
LEMMA InitHolds == Init => IInv
<1> SUFFICES ASSUME Init PROVE IInv
  OBVIOUS
<1>1. TypeOK
  BY BlankIs, BoundsAssumption DEF Init, TypeOK, Answers
<1>2. \A c \in Calls : pc[c] = "idle"
  BY DEF Init
<1>3. Budget
  <2>1. Creating = {} /\ Keying = {}
    BY <1>2 DEF Creating, Keying
  <2> QED BY <2>1, FS_EmptySet, BoundsAssumption DEF Init, Budget
<1>4. RowsOK
  BY DEF Init, RowsOK, TenantsComplete
<1>5. (\A c \in Calls : Hands(c)) /\ OneFlushed /\ CreationsNeverConflict
  BY <1>2 DEF Hands, Handlers, OneFlushed, CreationsNeverConflict
<1>6. ShownOK /\ EffectsOK
  BY DEF Init, ShownOK, EffectsOK
<1> QED BY <1>1, <1>3, <1>4, <1>5, <1>6 DEF IInv

-----------------------------------------------------------------------------
(* The theorems.                                                            *)

\* The invariant holds in every reachable state.
THEOREM Invariance == Spec => []IInv
<1>1. Init => IInv
  BY InitHolds
<1>2. IInv /\ [Next]_vars => IInv'
  <2> SUFFICES ASSUME IInv, [Next]_vars PROVE IInv'
    OBVIOUS
  <2>1. ASSUME NEW c \in Calls, verify_admin(c) \/ verify_tenant(c) PROVE IInv'
    BY <2>1, AdminStep, TenantCheckStep
  <2>2. ASSUME NEW c \in Calls, CallStep(c) PROVE IInv'
    BY <2>2, FlushStep, CommitTenantStep, RefreshTenantStep, DeleteStep, LoadTenantStep,
       CommitUpdateStep, InsertKeyStep, RefreshKeyStep, LoadKeyStep, CommitRevokeStep, WorkStep
       DEF CallStep
  <2>3. CASE Crash
    BY <2>3, CrashStep
  <2>4. CASE UNCHANGED vars
    BY <2>4 DEF vars, dbVars, IInv, TypeOK, Budget, Creating, Keying, RowsOK, TenantsComplete,
       Hands, Kept, OneFlushed, ShownOK, EffectsOK, CreationsNeverConflict
  <2> QED BY <2>1, <2>2, <2>3, <2>4 DEF Next
<1> QED BY <1>1, <1>2, PTL DEF Spec

\* Every variable keeps its type.
THEOREM TypeCorrect == Spec => []TypeOK
<1>1. IInv => TypeOK
  BY DEF IInv
<1> QED BY <1>1, Invariance, PTL

\* Every committed tenant has its own namespace and a key, for any number of
\* concurrent creations, deletions and failures.
THEOREM TenantsAlwaysComplete == Spec => []TenantsComplete
<1>1. IInv => TenantsComplete
  BY DEF IInv, RowsOK
<1> QED BY <1>1, Invariance, PTL

\* The placeholder namespace never makes a creation fail.
THEOREM PlaceholderNeverConflicts == Spec => []CreationsNeverConflict
<1>1. IInv => CreationsNeverConflict
  BY DEF IInv
<1> QED BY <1>1, Invariance, PTL

\* A raw key that was returned is in the database until its tenant is deleted.
THEOREM ShownKeysAlwaysExist == Spec => []ShownKeysExist
<1>1. IInv => ShownKeysExist
  BY DEF IInv, ShownOK, Kept, RowsOK, ShownKeysExist
<1> QED BY <1>1, Invariance, PTL

\* Nothing is done in the name of a tenant by another tenant's key.
THEOREM EffectsAlwaysScoped == Spec => []EffectsScoped
<1>1. IInv => EffectsScoped
  BY DEF IInv, EffectsOK, EffectsScoped
<1> QED BY <1>1, Invariance, PTL

\* No step un-revokes a key, and the only key row that can appear has the next
\* id of the sequence.
LEMMA NoRevival ==
  ASSUME IInv, [Next]_vars
  PROVE  revoked \subseteq revoked' /\ \A k \in keys' : k \in keys \/ k = nextK
<1>1. CASE UNCHANGED <<keys, revoked>>
  BY <1>1
<1>2. ASSUME NEW c \in Calls, CommitTenant(c)
      PROVE  revoked' = revoked /\ \A k \in keys' : k \in keys \/ k = nextK
  BY <1>2 DEF CommitTenant, TenantRows, InsertKeyRow
<1>3. ASSUME NEW c \in Calls, DeleteTenant(c)
      PROVE  revoked' = revoked /\ keys' \subseteq keys
  BY <1>3 DEF DeleteTenant, DeleteRows
<1>4. ASSUME NEW c \in Calls, InsertKey(c)
      PROVE  revoked' = revoked /\ \A k \in keys' : k \in keys \/ k = nextK
  BY <1>4 DEF InsertKey, InsertKeyRow
<1>5. ASSUME NEW c \in Calls, CommitRevoke(c)
      PROVE  revoked \subseteq revoked' /\ keys' = keys
  BY <1>5 DEF CommitRevoke, Revoke
<1>6. ASSUME NEW c \in Calls,
             \/ verify_admin(c) \/ verify_tenant(c) \/ FlushTenant(c) \/ RefreshTenant(c)
             \/ LoadTenant(c) \/ CommitUpdate(c) \/ RefreshKey(c) \/ LoadKey(c) \/ Work(c)
      PROVE  UNCHANGED <<keys, revoked>>
  BY <1>6 DEF verify_admin, verify_tenant, FlushTenant, RefreshTenant, LoadTenant, CommitUpdate,
              RefreshKey, LoadKey, Work, dbVars
<1>7. ASSUME Crash \/ UNCHANGED vars PROVE UNCHANGED <<keys, revoked>>
  BY <1>7 DEF Crash, vars, dbVars
<1> QED BY <1>1, <1>2, <1>3, <1>4, <1>5, <1>6, <1>7 DEF Next, CallStep

\* A key that was revoked or deleted never becomes valid again.
THEOREM ValidityAlwaysOneWay == Spec => ValidityIsOneWay
<1>1. ASSUME IInv, [Next]_vars, NEW k \in KIds, k < nextK, ~Valid(k)
      PROVE  ~Valid(k)'
  <2>1. k \notin keys \/ k \in revoked
    BY <1>1 DEF IInv, RowsOK, Valid
  <2>2. revoked \subseteq revoked' /\ (k \in keys' => k \in keys \/ k = nextK)
    BY <1>1, NoRevival
  <2>3. k # nextK
    BY <1>1 DEF IInv, TypeOK, KIds
  <2> QED BY <2>1, <2>2, <2>3 DEF Valid
<1>2. IInv /\ [Next]_vars => [\A k \in KIds : k < nextK /\ ~Valid(k) => ~Valid(k)']_vars
  BY <1>1
<1> QED BY <1>2, Invariance, PTL DEF Spec, ValidityIsOneWay

\* Only an update that found the tenant inactive activates it again.
THEOREM NeverBlindReactivation == Spec => NoBlindReactivation
<1>1. ASSUME IInv, [Next]_vars, NEW t \in tenants \ active, t \in active'
      PROVE  \E c \in Calls : /\ pc[c] = "loaded" /\ arg[c].tid = t /\ ~arg[c].loaded
                              /\ pc'[c] # pc[c]
  <2>1. CASE UNCHANGED active
    BY <1>1, <2>1
  <2>2. ASSUME NEW c \in Calls, CommitTenant(c)
        PROVE  FALSE
    <3>1. arg[c].tid \notin tenants
      BY <1>1, <2>2 DEF IInv, Hands, CommitTenant
    <3> QED BY <1>1, <2>2, <3>1 DEF CommitTenant, TenantRows
  <2>3. ASSUME NEW c \in Calls, DeleteTenant(c)
        PROVE  FALSE
    BY <1>1, <2>3 DEF DeleteTenant, DeleteRows
  <2>4. ASSUME NEW c \in Calls, CommitUpdate(c)
        PROVE  pc[c] = "loaded" /\ arg[c].tid = t /\ ~arg[c].loaded /\ pc'[c] # pc[c]
    <3>1. pc[c] = "loaded" /\ active' \in {active, Written(arg[c])}
      BY <2>4 DEF CommitUpdate
    <3>2. arg[c].tid = t /\ ~arg[c].loaded
      BY <1>1, <3>1 DEF Written
    <3>3. PICK x \in {"ok", "error"} : Ends(c, x)
      BY <2>4 DEF CommitUpdate, Fails
    <3>4. pc'[c] = x
      BY <1>1, <3>3 DEF Ends, Goes, IInv, TypeOK
    <3> QED BY <3>1, <3>2, <3>4
  <2>5. ASSUME NEW c \in Calls,
               \/ verify_admin(c) \/ verify_tenant(c) \/ FlushTenant(c) \/ RefreshTenant(c)
               \/ LoadTenant(c) \/ InsertKey(c) \/ RefreshKey(c) \/ LoadKey(c)
               \/ CommitRevoke(c) \/ Work(c)
        PROVE  UNCHANGED active
    BY <2>5 DEF verify_admin, verify_tenant, FlushTenant, RefreshTenant, LoadTenant, InsertKey,
                RefreshKey, LoadKey, CommitRevoke, Work, dbVars
  <2>6. ASSUME Crash \/ UNCHANGED vars PROVE UNCHANGED active
    BY <2>6 DEF Crash, vars, dbVars
  <2> QED BY <1>1, <2>1, <2>2, <2>3, <2>4, <2>5, <2>6 DEF Next, CallStep
<1>2. IInv /\ [Next]_vars =>
         [\A t \in tenants \ active : t \in active' =>
             \E c \in Calls : pc[c] = "loaded" /\ arg[c].tid = t /\ ~arg[c].loaded /\ pc'[c] # pc[c]]_vars
  BY <1>1
<1> QED BY <1>2, Invariance, PTL DEF Spec, NoBlindReactivation

-----------------------------------------------------------------------------
(* The registry implements TenantDirectory.                                 *)

\* A creation under way has the placeholder and this id.
Flushed(t) == \E c \in Calls : pc[c] = "flushed" /\ arg[c].tid = t

\* The phases, id by id.
TPhaseOf(t) ==
    IF t \in active THEN "active"
    ELSE IF t \in tenants THEN "inactive"
    ELSE IF t >= nextT \/ Flushed(t) THEN "unused"
    ELSE "gone"
KPhaseOf(k) ==
    IF k \in keys \cap revoked THEN "revoked"
    ELSE IF k \in keys THEN "valid"
    ELSE IF k >= nextK THEN "unused" ELSE "gone"

\* A key is revoked only after its row was inserted, so a new one is valid.
RevokedOld == \A k \in revoked : k < nextK

\* The invariant under which every step is a step of the directory.
RInv == IInv /\ RevokedOld

\* A key that is new is not revoked.
LEMMA RevokedStep == ASSUME RInv, [Next]_vars PROVE RevokedOld'
<1>1. /\ nextK \in Nat /\ keys \subseteq KIds /\ revoked \subseteq KIds
      /\ \A k \in keys : k < nextK
      /\ \A k \in revoked : k < nextK
  BY BoundsAssumption DEF RInv, RevokedOld, IInv, TypeOK, RowsOK
<1>2. CASE revoked' = revoked /\ nextK' \in {nextK, nextK + 1}
  BY <1>1, <1>2 DEF RevokedOld, KIds
<1>3. ASSUME NEW c \in Calls, CommitRevoke(c) PROVE RevokedOld'
  <2>1. /\ nextK' = nextK
        /\ \/ revoked' = revoked
           \/ revoked' = revoked \cup {arg[c].kid} /\ arg[c].kid \in keys
    BY <1>3 DEF CommitRevoke, Revoke
  <2> QED BY <1>1, <2>1 DEF RevokedOld
<1>4. ASSUME NEW c \in Calls, CommitTenant(c) \/ InsertKey(c)
      PROVE  revoked' = revoked /\ nextK' = nextK + 1
  BY <1>4 DEF CommitTenant, InsertKey
<1>5. ASSUME NEW c \in Calls,
             \/ verify_admin(c) \/ verify_tenant(c) \/ FlushTenant(c) \/ RefreshTenant(c)
             \/ DeleteTenant(c) \/ LoadTenant(c) \/ CommitUpdate(c) \/ RefreshKey(c)
             \/ LoadKey(c) \/ Work(c)
      PROVE  revoked' = revoked /\ nextK' = nextK
  BY <1>5 DEF verify_admin, verify_tenant, FlushTenant, RefreshTenant, DeleteTenant, LoadTenant,
              CommitUpdate, RefreshKey, LoadKey, Work, dbVars
<1>6. ASSUME Crash \/ UNCHANGED vars PROVE revoked' = revoked /\ nextK' = nextK
  BY <1>6 DEF Crash, vars, dbVars
<1> QED BY <1>2, <1>3, <1>4, <1>5, <1>6 DEF Next, CallStep

\* Every key that was revoked had been handed out before, in every state.
THEOREM RevokedAlwaysOld == Spec => []RInv
<1>1. Init => RevokedOld
  BY DEF Init, RevokedOld
<1>2. IInv /\ RevokedOld /\ [Next]_vars => RevokedOld'
  BY RevokedStep DEF RInv
<1>3. IInv /\ RevokedOld => RInv
  BY DEF RInv
<1> QED BY <1>1, <1>2, <1>3, Invariance, PTL DEF Spec

\* The phase of a tenant.
LEMMA TenantPhaseAt ==
  /\ TenantPhase = [t \in TIds |-> TPhaseOf(t)]
  /\ TenantPhase' = [t \in TIds |-> TPhaseOf(t)']
BY DEF TenantPhase, TPhaseOf, Flushed

\* The phase of a key.
LEMMA KeyPhaseAt ==
  /\ KeyPhase = [k \in KIds |-> KPhaseOf(k)]
  /\ KeyPhase' = [k \in KIds |-> KPhaseOf(k)']
BY DEF KeyPhase, KPhaseOf

\* A step changes the phase of one tenant.
LEMMA TenantMoves ==
  ASSUME NEW s, NEW t \in TIds,
         \A u \in TIds : TPhaseOf(u)' = IF u = t THEN s ELSE TPhaseOf(u)
  PROVE  TenantPhase' = [TenantPhase EXCEPT ![t] = s]
BY TenantPhaseAt

\* A step changes the phase of one key.
LEMMA KeyMoves ==
  ASSUME NEW s, NEW k \in KIds,
         \A u \in KIds : KPhaseOf(u)' = IF u = k THEN s ELSE KPhaseOf(u)
  PROVE  KeyPhase' = [KeyPhase EXCEPT ![k] = s]
BY KeyPhaseAt

\* A request that has no placeholder before and after its step.
LEMMA FlushedStays ==
  ASSUME TypeOK, NEW c \in Calls, NEW at, NEW a, Goes(c, at, a),
         pc[c] # "flushed", at # "flushed", NEW t
  PROVE  Flushed(t)' <=> Flushed(t)
BY DEF TypeOK, Goes, Flushed

\* The one request that has the placeholder gives it up.
LEMMA FlushedEnds ==
  ASSUME TypeOK, OneFlushed, NEW c \in Calls, NEW at, NEW a, Goes(c, at, a),
         pc[c] = "flushed", at # "flushed", NEW t
  PROVE  /\ Flushed(t) <=> t = arg[c].tid
         /\ ~Flushed(t)'
BY DEF TypeOK, Goes, Flushed, OneFlushed

\* The keys and the tenants as the directory has them when neither table nor
\* sequence is touched.
LEMMA SameTenantPhase ==
  ASSUME UNCHANGED <<tenants, active, nextT>>, \A t \in TIds : Flushed(t)' <=> Flushed(t)
  PROVE  TenantPhase' = TenantPhase
<1>1. \A t \in TIds : TPhaseOf(t)' = TPhaseOf(t)
  BY DEF TPhaseOf
<1> QED BY <1>1, TenantPhaseAt

\* The same for the keys.
LEMMA SameKeyPhase ==
  ASSUME UNCHANGED <<keys, revoked, nextK>>
  PROVE  KeyPhase' = KeyPhase
BY DEF KeyPhase

\* A new key row has an id that was not used, and makes it valid.
LEMMA NewKeyPhase ==
  ASSUME RInv, nextK \in KIds, nextK' = nextK + 1, revoked' = revoked
  PROVE  /\ KeyPhase[nextK] = "unused"
         /\ keys' = keys \cup {nextK} => KeyPhase' = [KeyPhase EXCEPT ![nextK] = "valid"]
         /\ keys' = keys => KeyPhase' = [k \in KIds |-> IF k \in {nextK} THEN "gone" ELSE KeyPhase[k]]
<1>1. /\ nextK \in Nat /\ keys \subseteq KIds /\ nextK \notin keys /\ nextK \notin revoked
  BY DEF RInv, RevokedOld, IInv, TypeOK, RowsOK, KIds
<1>2. KPhaseOf(nextK) = "unused"
  BY <1>1 DEF KPhaseOf
<1>3. \A k \in KIds : k # nextK => (k >= nextK' <=> k >= nextK)
  BY <1>1 DEF KIds
<1>4. ASSUME keys' = keys \cup {nextK}
      PROVE  \A k \in KIds : KPhaseOf(k)' = IF k = nextK THEN "valid" ELSE KPhaseOf(k)
  BY <1>1, <1>3, <1>4 DEF KPhaseOf
<1>5. ASSUME keys' = keys
      PROVE  \A k \in KIds : KPhaseOf(k)' = IF k = nextK THEN "gone" ELSE KPhaseOf(k)
  BY <1>1, <1>3, <1>5 DEF KPhaseOf
<1>6. keys' = keys \cup {nextK} => KeyPhase' = [KeyPhase EXCEPT ![nextK] = "valid"]
  BY <1>4, KeyPhaseAt
<1>7. keys' = keys => KeyPhase' = [k \in KIds |-> IF k \in {nextK} THEN "gone" ELSE KeyPhase[k]]
  BY <1>5, KeyPhaseAt
<1> QED BY <1>2, <1>6, <1>7, KeyPhaseAt

\* The statements that only read, and those that fail before they write.
LEMMA QuietStep ==
  ASSUME RInv, NEW c \in Calls, NEW at, NEW a, Goes(c, at, a), pc[c] # "flushed", at # "flushed",
         UNCHANGED <<tenants, active, keys, revoked, owner, nextT, nextK>>
  PROVE  UNCHANGED <<TenantPhase, KeyPhase, owner>>
<1>1. \A t \in TIds : Flushed(t)' <=> Flushed(t)
  BY FlushedStays DEF RInv, IInv
<1> QED BY <1>1, SameTenantPhase, SameKeyPhase

\* The checks, the refreshes and the loads change nothing in the directory.
LEMMA ReadingRefines ==
  ASSUME RInv, NEW c \in Calls,
         \/ verify_admin(c) \/ verify_tenant(c) \/ RefreshTenant(c) \/ LoadTenant(c)
         \/ RefreshKey(c) \/ LoadKey(c) \/ Work(c)
  PROVE  UNCHANGED <<TenantPhase, KeyPhase, owner>>
<1>1. UNCHANGED <<tenants, active, keys, revoked, owner, nextT, nextK>>
  BY DEF verify_admin, verify_tenant, RefreshTenant, LoadTenant, RefreshKey, LoadKey, Work, dbVars
<1>2. pc[c] # "flushed"
  BY DEF verify_admin, verify_tenant, RefreshTenant, LoadTenant, RefreshKey, LoadKey, Work,
         Finished, Answers
<1>3. \E at \in {"ok", "refused", "error", "create", "delete", "update", "loaded", "revoking"}
                \cup Handlers : \E a : Goes(c, at, a)
  BY DEF verify_admin, verify_tenant, RefreshTenant, LoadTenant, RefreshKey, LoadKey, Work,
         Ends, Fails
<1> QED BY <1>1, <1>2, <1>3, QuietStep DEF Handlers

\* The id of a creation that has inserted its placeholder stays unused.
LEMMA FlushRefines ==
  ASSUME RInv, NEW c \in Calls, FlushTenant(c)
  PROVE  UNCHANGED <<TenantPhase, KeyPhase, owner>>
<1>1. pc[c] = "create" /\ UNCHANGED <<tenants, active, keys, revoked, owner, nextK>>
  BY DEF FlushTenant, dbVars
<1>2. CASE nextT' = nextT /\ \E at \in {"conflict", "error"} : Goes(c, at, Blank)
  BY <1>1, <1>2, QuietStep
<1>3. CASE nextT' = nextT + 1 /\ Goes(c, "flushed", Arg(nextT, 0, 0))
  <2>1. /\ TypeOK
        /\ nextT \in TIds /\ nextT \in Nat /\ nextT \notin tenants /\ nextT \notin active
    BY <1>1, FreshIds DEF RInv, IInv, TypeOK, RowsOK
  <2>2. PICK n \in TIds : n = nextT
    BY <2>1
  <2>3. pc'[c] = "flushed" /\ arg'[c].tid = n
    BY <1>3, <2>1, <2>2, ArgIs, BoundsAssumption DEF Goes, TypeOK, TIds
  <2>4. \A o \in Calls : o # c => pc'[o] = pc[o] /\ arg'[o] = arg[o]
    BY <1>3, <2>1 DEF Goes, TypeOK
  <2>5. \A t \in TIds : t # n => (Flushed(t)' <=> Flushed(t))
    BY <1>1, <2>3, <2>4 DEF Flushed
  <2>6. Flushed(n)'
    BY <2>3 DEF Flushed
  <2>7. \A t \in TIds : t # n => (t >= nextT' <=> t >= nextT)
    BY <1>3, <2>1, <2>2 DEF TIds
  <2>8. \A t \in TIds : TPhaseOf(t)' = TPhaseOf(t)
    <3>1. TPhaseOf(n)' = "unused" /\ TPhaseOf(n) = "unused"
      BY <1>1, <2>1, <2>2, <2>6 DEF TPhaseOf
    <3>2. \A t \in TIds : t # n => TPhaseOf(t)' = TPhaseOf(t)
      BY <1>1, <2>5, <2>7 DEF TPhaseOf
    <3> QED BY <3>1, <3>2
  <2> QED BY <1>1, <2>8, TenantPhaseAt, SameKeyPhase
<1> QED BY <1>2, <1>3 DEF FlushTenant, Ends, Fails

\* The commit of a creation enrols the tenant with its first key, or skips the
\* two ids.
LEMMA CreationRefines ==
  ASSUME RInv, NEW c \in Calls, CommitTenant(c)
  PROVE  Directory!DNext
<1>1. /\ TypeOK /\ OneFlushed /\ pc[c] = "flushed" /\ nextK' = nextK + 1
      /\ nextK \in KIds /\ UNCHANGED <<revoked, nextT>>
  BY FreshIds DEF CommitTenant, RInv, IInv
<1>2. PICK t \in TIds : t = arg[c].tid /\ t < nextT /\ t \notin tenants /\ t \notin active
  BY DEF CommitTenant, RInv, IInv, Hands, TypeOK
<1>3. \E at \in {"created", "error"} : \E a : Goes(c, at, a)
  BY DEF CommitTenant, Ends, Fails
<1>4. \A u : (Flushed(u) <=> u = t) /\ ~Flushed(u)'
  BY <1>1, <1>2, <1>3, FlushedEnds
<1>5. TenantPhase[t] = "unused"
  BY <1>2, <1>4, TenantPhaseAt DEF TPhaseOf
<1>6. CASE TenantRows(t)
  <2>1. /\ tenants' = tenants \cup {t} /\ active' = active \cup {t}
        /\ keys' = keys \cup {nextK} /\ owner' = [owner EXCEPT ![nextK] = t]
    BY <1>6 DEF TenantRows, InsertKeyRow
  <2>2. \A u \in TIds : TPhaseOf(u)' = IF u = t THEN "active" ELSE TPhaseOf(u)
    BY <1>1, <1>4, <2>1 DEF TPhaseOf
  <2>3. TenantPhase' = [TenantPhase EXCEPT ![t] = "active"]
    BY <2>2, TenantMoves
  <2>4. Directory!Enrol(t, nextK)
    BY <1>1, <1>5, <2>1, <2>3, NewKeyPhase DEF Directory!Enrol, Directory!IssueKey
  <2> QED BY <1>1, <2>4 DEF Directory!DNext
<1>7. CASE UNCHANGED <<tenants, active, keys, owner>>
  <2>1. \A u \in TIds : TPhaseOf(u)' = IF u = t THEN "gone" ELSE TPhaseOf(u)
    BY <1>1, <1>2, <1>4, <1>7 DEF TPhaseOf, TIds, TypeOK
  <2>2. TenantPhase' = [u \in TIds |-> IF u \in {t} THEN "gone" ELSE TenantPhase[u]]
    BY <2>1, TenantPhaseAt
  <2>3. Directory!Skip({t}, {nextK})
    BY <1>1, <1>5, <1>7, <2>2, NewKeyPhase DEF Directory!Skip
  <2> QED BY <1>1, <2>3 DEF Directory!DNext
<1> QED BY <1>2, <1>6, <1>7 DEF CommitTenant

\* A deletion dissolves the tenant, keys and all, or finds none.
LEMMA DeletionRefines ==
  ASSUME RInv, NEW c \in Calls, DeleteTenant(c)
  PROVE  Directory!DNext \/ UNCHANGED <<TenantPhase, KeyPhase, owner>>
<1>1. /\ TypeOK /\ pc[c] = "delete" /\ UNCHANGED <<revoked, owner, nextT, nextK>>
      /\ \A k \in keys : owner[k] \in tenants /\ k < nextK
      /\ \A t \in tenants : t < nextT
  BY DEF DeleteTenant, RInv, IInv, RowsOK
<1>2. \E at \in {"ok", "refused", "error"} : \E a : Goes(c, at, a)
  BY DEF DeleteTenant, Ends, Fails
<1>3. \A t \in TIds : Flushed(t)' <=> Flushed(t)
  BY <1>1, <1>2, FlushedStays
<1>4. CASE UNCHANGED <<tenants, active, keys>>
  BY <1>1, <1>3, <1>4, SameTenantPhase, SameKeyPhase
<1>5. CASE DeleteRows(arg[c].tid) /\ arg[c].tid \notin tenants
  <2>1. UNCHANGED <<tenants, active, keys>>
    BY <1>1, <1>5 DEF DeleteRows, TypeOK
  <2> QED BY <1>1, <1>3, <2>1, SameTenantPhase, SameKeyPhase
<1>6. CASE DeleteRows(arg[c].tid) /\ arg[c].tid \in tenants
  <2>1. PICK t \in TIds : t = arg[c].tid /\ t \in tenants /\ t < nextT
    BY <1>1, <1>6 DEF TypeOK
  <2>2. /\ tenants' = tenants \ {t} /\ active' = active \ {t}
        /\ keys' = {k \in keys : owner[k] # t}
    BY <1>6, <2>1 DEF DeleteRows
  <2>3. ~Flushed(t)
    BY <2>1 DEF RInv, IInv, Hands, Flushed
  <2>4. \A u \in TIds : TPhaseOf(u)' = IF u = t THEN "gone" ELSE TPhaseOf(u)
    BY <1>1, <1>3, <2>1, <2>2, <2>3 DEF TPhaseOf, TypeOK, TIds
  <2>5. TenantPhase' = [TenantPhase EXCEPT ![t] = "gone"]
    BY <2>4, TenantMoves
  <2>6. \A k \in KIds : KPhaseOf(k)' =
            IF KPhaseOf(k) \in Directory!KeyLive /\ owner[k] = t THEN "gone" ELSE KPhaseOf(k)
    BY <1>1, <2>2 DEF KPhaseOf, Directory!KeyLive, TypeOK, KIds
  <2>7. KeyPhase' = [k \in KIds |-> IF KeyPhase[k] \in Directory!KeyLive /\ owner[k] = t
                                    THEN "gone" ELSE KeyPhase[k]]
    BY <2>6, KeyPhaseAt
  <2>8. TenantPhase[t] \in Directory!TenantLive
    BY <2>1, TenantPhaseAt DEF TPhaseOf, Directory!TenantLive
  <2>9. Directory!Dissolve(t)
    BY <1>1, <2>5, <2>7, <2>8 DEF Directory!Dissolve
  <2> QED BY <2>9 DEF Directory!DNext
<1> QED BY <1>4, <1>5, <1>6 DEF DeleteTenant

\* An update switches a tenant that is there, or changes nothing.
LEMMA UpdateRefines ==
  ASSUME RInv, NEW c \in Calls, CommitUpdate(c)
  PROVE  Directory!DNext \/ UNCHANGED <<TenantPhase, KeyPhase, owner>>
<1>1. TypeOK /\ pc[c] = "loaded" /\ UNCHANGED <<tenants, keys, revoked, owner, nextT, nextK>>
  BY DEF CommitUpdate, RInv, IInv
<1>2. \E at \in {"ok", "error"} : \E a : Goes(c, at, a)
  BY DEF CommitUpdate, Ends, Fails
<1>3. \A t \in TIds : Flushed(t)' <=> Flushed(t)
  BY <1>1, <1>2, FlushedStays
<1>4. CASE UNCHANGED active
  BY <1>1, <1>3, <1>4, SameTenantPhase, SameKeyPhase
<1>5. CASE arg[c].tid \in tenants /\ active' = Written(arg[c])
  <2>1. PICK t \in TIds : t = arg[c].tid /\ t \in tenants
    BY <1>1, <1>5 DEF TypeOK
  <2>2. active' = active \/ active' = active \cup {t} \/ active' = active \ {t}
    BY <1>5, <2>1 DEF Written
  <2>3. PICK s \in Directory!TenantLive : s = TPhaseOf(t)'
    BY <1>1, <2>1 DEF TPhaseOf, Directory!TenantLive
  <2>4. \A u \in TIds : u # t => TPhaseOf(u)' = TPhaseOf(u)
    BY <1>1, <1>3, <2>2 DEF TPhaseOf
  <2>5. \A u \in TIds : TPhaseOf(u)' = IF u = t THEN s ELSE TPhaseOf(u)
    BY <2>3, <2>4
  <2>6. TenantPhase' = [TenantPhase EXCEPT ![t] = s]
    BY <2>5, TenantMoves
  <2>7. TenantPhase[t] \in Directory!TenantLive
    BY <2>1, TenantPhaseAt DEF TPhaseOf, Directory!TenantLive
  <2>8. Directory!Switch(t, s)
    BY <1>1, <2>6, <2>7, SameKeyPhase DEF Directory!Switch
  <2> QED BY <2>8 DEF Directory!DNext
<1> QED BY <1>4, <1>5 DEF CommitUpdate

\* The insert of another key issues it, or skips its id.
LEMMA KeyRefines ==
  ASSUME RInv, NEW c \in Calls, InsertKey(c)
  PROVE  Directory!DNext
<1>1. /\ TypeOK /\ pc[c] = "addkey" /\ nextK' = nextK + 1 /\ nextK \in KIds
      /\ UNCHANGED <<tenants, active, revoked, nextT>>
  BY FreshIds DEF InsertKey, RInv, IInv
<1>2. \E at \in {"keyed", "refused", "error"} : \E a : Goes(c, at, a)
  BY DEF InsertKey, Ends, Fails
<1>3. \A t \in TIds : Flushed(t)' <=> Flushed(t)
  BY <1>1, <1>2, FlushedStays
<1>4. TenantPhase' = TenantPhase
  BY <1>1, <1>3, SameTenantPhase
<1>5. CASE UNCHANGED <<keys, owner>>
  <2>1. TenantPhase' = [t \in TIds |-> IF t \in {} THEN "gone" ELSE TenantPhase[t]]
    BY <1>4, TenantPhaseAt
  <2>2. Directory!Skip({}, {nextK})
    BY <1>1, <1>5, <2>1, NewKeyPhase DEF Directory!Skip
  <2> QED BY <1>1, <2>2 DEF Directory!DNext
<1>6. CASE \E n \in Names : arg[c].tid \in tenants /\ InsertKeyRow(arg[c].tid, n)
  <2>1. PICK t \in TIds : t = arg[c].tid /\ t \in tenants
    BY <1>1, <1>6 DEF TypeOK
  <2>2. keys' = keys \cup {nextK} /\ owner' = [owner EXCEPT ![nextK] = t]
    BY <1>6, <2>1 DEF InsertKeyRow
  <2>3. TenantPhase[t] \in Directory!TenantLive
    BY <2>1, TenantPhaseAt DEF TPhaseOf, Directory!TenantLive
  <2>4. Directory!AddKey(t, nextK)
    BY <1>1, <1>4, <2>2, <2>3, NewKeyPhase DEF Directory!AddKey, Directory!IssueKey
  <2> QED BY <1>1, <2>4 DEF Directory!DNext
<1> QED BY <1>5, <1>6 DEF InsertKey

\* A revocation withdraws a key that is there, or finds none.
LEMMA RevocationRefines ==
  ASSUME RInv, NEW c \in Calls, CommitRevoke(c)
  PROVE  Directory!DNext \/ UNCHANGED <<TenantPhase, KeyPhase, owner>>
<1>1. TypeOK /\ pc[c] = "revoking" /\ UNCHANGED <<tenants, active, keys, owner, nextT, nextK>>
  BY DEF CommitRevoke, RInv, IInv
<1>2. \E at \in {"ok", "error"} : \E a : Goes(c, at, a)
  BY DEF CommitRevoke, Ends, Fails
<1>3. \A t \in TIds : Flushed(t)' <=> Flushed(t)
  BY <1>1, <1>2, FlushedStays
<1>4. TenantPhase' = TenantPhase
  BY <1>1, <1>3, SameTenantPhase
<1>5. CASE UNCHANGED revoked
  BY <1>1, <1>4, <1>5, SameKeyPhase
<1>6. CASE arg[c].kid \in keys /\ revoked' = revoked \cup {arg[c].kid}
  <2>1. PICK k \in KIds : k = arg[c].kid /\ k \in keys
    BY <1>1, <1>6 DEF TypeOK
  <2>2. \A u \in KIds : KPhaseOf(u)' = IF u = k THEN "revoked" ELSE KPhaseOf(u)
    BY <1>1, <1>6, <2>1 DEF KPhaseOf
  <2>3. KeyPhase' = [KeyPhase EXCEPT ![k] = "revoked"]
    BY <2>2, KeyMoves
  <2>4. KeyPhase[k] \in Directory!KeyLive
    BY <2>1, KeyPhaseAt DEF KPhaseOf, Directory!KeyLive
  <2>5. Directory!Withdraw(k)
    BY <1>1, <1>4, <2>3, <2>4 DEF Directory!Withdraw
  <2> QED BY <2>5 DEF Directory!DNext
<1> QED BY <1>5, <1>6 DEF CommitRevoke, Revoke

\* A restart skips the id of the creation it cuts off.
LEMMA CrashRefines ==
  ASSUME RInv, Crash
  PROVE  Directory!DNext
<1>1. /\ TypeOK /\ UNCHANGED <<tenants, active, keys, revoked, owner, nextT, nextK>>
      /\ \A c \in Calls : pc'[c] # "flushed"
  BY DEF Crash, RInv, IInv, dbVars, Finished, Answers
<1> DEFINE T == {t \in TIds : Flushed(t)}
<1>2. \A t \in TIds : Flushed(t) => t < nextT /\ t \notin tenants /\ t \notin active
  BY <1>1 DEF RInv, IInv, Hands, Flushed, TypeOK
<1>3. \A t : ~Flushed(t)'
  BY <1>1 DEF Flushed
<1>4. \A t \in TIds : TPhaseOf(t)' = IF t \in T THEN "gone" ELSE TPhaseOf(t)
  BY <1>1, <1>2, <1>3 DEF TPhaseOf, TypeOK, TIds
<1>5. \A t \in T : TPhaseOf(t) = "unused"
  BY <1>2 DEF TPhaseOf
<1>6. T \in SUBSET TIds
  OBVIOUS
<1> HIDE DEF T
<1>7. TenantPhase' = [t \in TIds |-> IF t \in T THEN "gone" ELSE TenantPhase[t]]
  BY <1>4, TenantPhaseAt
<1>8. KeyPhase' = [k \in KIds |-> IF k \in {} THEN "gone" ELSE KeyPhase[k]]
  BY <1>1, SameKeyPhase, KeyPhaseAt
<1>9. Directory!Skip(T, {})
  BY <1>1, <1>5, <1>6, <1>7, <1>8, TenantPhaseAt DEF Directory!Skip
<1> QED BY <1>6, <1>9 DEF Directory!DNext

\* The registry implements TenantDirectory, for any number of requests: every
\* request is one atomic operation on the directory or none, although it is
\* several statements that may fail, wait or be cut off one by one.
THEOREM RegistryRefinesDirectory == Spec => ImplementsDirectory
<1>1. Init => Directory!DInit
  BY DEF Init, TenantPhase, KeyPhase, TIds, KIds, Directory!DInit
<1>2. ASSUME RInv, [Next]_vars
      PROVE  [Directory!DNext]_<<TenantPhase, KeyPhase, owner>>
  <2>1. CASE UNCHANGED vars
    BY <2>1 DEF vars, dbVars, TenantPhase, KeyPhase
  <2>2. ASSUME NEW c \in Calls, verify_admin(c) \/ verify_tenant(c) \/ CallStep(c)
        PROVE  Directory!DNext \/ UNCHANGED <<TenantPhase, KeyPhase, owner>>
    BY <1>2, <2>2, ReadingRefines, FlushRefines, CreationRefines, DeletionRefines, UpdateRefines,
       KeyRefines, RevocationRefines DEF CallStep
  <2> QED BY <1>2, <2>1, <2>2, CrashRefines DEF Next
<1> QED BY RevokedAlwaysOld, <1>1, <1>2, PTL DEF Spec, ImplementsDirectory, Directory!DSpec

-----------------------------------------------------------------------------
(* Requests end, and a revoked key is used up: the safety halves of         *)
(* CreationEnds and RevocationTakesHold.                                    *)

\* How many statements a request has ahead of it at most, by the await it
\* stands at.
Ahead == [create |-> 3, flushed |-> 2, created |-> 1, delete |-> 1, update |-> 2, loaded |-> 1,
          addkey |-> 2, keyed |-> 1, revoke |-> 2, revoking |-> 1, work |-> 1]
StepsFrom(at) == IF at \in Answers THEN 0 ELSE Ahead[at]
StepsLeft(c) == StepsFrom(pc[c])

\* Every statement of a request brings it nearer to its answer, and nothing
\* that others do sets it back; a request is answered when nothing is left.
RequestsRunOut ==
    [][\A c \in Calls :
          /\ StepsLeft(c) \in 0..3 /\ (StepsLeft(c) = 0 <=> Finished(c))
          /\ CallStep(c) => StepsLeft(c)' < StepsLeft(c)
          /\ ~Finished(c) => StepsLeft(c)' <= StepsLeft(c)]_vars

\* No request starts on a key that is revoked: one that uses it did so before,
\* and has no more statements ahead of it than it had.
NoNewUses ==
    [][\A c \in Calls, k \in revoked :
          ~Finished(c)' /\ arg'[c].cred = k =>
              ~Finished(c) /\ arg[c].cred = k /\ StepsLeft(c)' <= StepsLeft(c)]_vars

\* The number of statements at each await.
LEMMA StepsAt ==
  ASSUME NEW at \in Answers \cup Awaits
  PROVE  /\ at \in Answers => StepsFrom(at) = 0
         /\ at = "create" => StepsFrom(at) = 3
         /\ at \in {"flushed", "update", "addkey", "revoke"} => StepsFrom(at) = 2
         /\ at \in {"created", "delete", "loaded", "keyed", "revoking", "work"} => StepsFrom(at) = 1
         /\ StepsFrom(at) \in 0..3 /\ (StepsFrom(at) = 0 <=> at \in Answers)
<1>1. /\ Ahead["create"] = 3
      /\ Ahead["flushed"] = 2 /\ Ahead["update"] = 2 /\ Ahead["addkey"] = 2 /\ Ahead["revoke"] = 2
      /\ Ahead["created"] = 1 /\ Ahead["delete"] = 1 /\ Ahead["loaded"] = 1
      /\ Ahead["keyed"] = 1 /\ Ahead["revoking"] = 1 /\ Ahead["work"] = 1
  BY DEF Ahead
<1> QED BY <1>1 DEF StepsFrom, Answers, Awaits, Handlers

\* A statement moves its request forward, keeping the key it runs on.
LEMMA CallAdvances ==
  ASSUME TypeOK, TypeOK', NEW c \in Calls, CallStep(c)
  PROVE  /\ StepsLeft(c)' < StepsLeft(c)
         /\ ~Finished(c)
         /\ ~Finished(c)' => arg'[c].cred = arg[c].cred \/ arg'[c].cred = 0
<1>1. pc[c] \in Answers \cup Awaits /\ pc'[c] \in Answers \cup Awaits
  BY DEF TypeOK
<1>2. arg[c].tid \in 0..MaxTenants /\ arg[c].cred \in 0..MaxKeys /\ arg[c].body \in Bodies
  BY DEF TypeOK, Args
<1>3. ASSUME NEW x \in {"ok", "refused", "conflict", "error"}, Ends(c, x)
      PROVE  pc'[c] \in Answers
  BY <1>3 DEF Ends, Goes, TypeOK, Answers
<1>4. ASSUME NEW x, NEW a, Goes(c, x, a)
      PROVE  pc'[c] = x /\ arg'[c] = a
  BY <1>4 DEF Goes, TypeOK
<1>5. \A x \in {"ok", "refused", "conflict", "error"} :
         pc[c] \notin Answers /\ Ends(c, x) =>
             /\ StepsLeft(c)' < StepsLeft(c)
             /\ ~Finished(c)
             /\ ~Finished(c)' => arg'[c].cred = arg[c].cred \/ arg'[c].cred = 0
  BY <1>1, <1>3, StepsAt DEF StepsLeft, Finished
<1>6. \A t, k, a : Arg(t, k, a).cred = a
  BY DEF Arg
<1>7. CASE FlushTenant(c)
  <2>1. \/ \E x \in {"conflict", "error"} : Ends(c, x)
        \/ Goes(c, "flushed", Arg(nextT, 0, 0))
    BY <1>7 DEF FlushTenant, Fails
  <2>2. pc[c] = "create"
    BY <1>7 DEF FlushTenant
  <2> QED BY <1>1, <1>4, <1>5, <1>6, <2>1, <2>2, StepsAt DEF StepsLeft, Finished, Answers
<1>8. CASE CommitTenant(c)
  <2>1. Ends(c, "error") \/ Goes(c, "created", Arg(arg[c].tid, nextK, 0))
    BY <1>8 DEF CommitTenant, Fails
  <2>2. pc[c] = "flushed"
    BY <1>8 DEF CommitTenant
  <2> QED BY <1>1, <1>4, <1>5, <1>6, <2>1, <2>2, StepsAt DEF StepsLeft, Finished, Answers
<1>9. CASE RefreshTenant(c) \/ DeleteTenant(c) \/ CommitUpdate(c) \/ RefreshKey(c)
           \/ CommitRevoke(c) \/ Work(c)
  <2>1. \E x \in {"ok", "refused", "error"} : Ends(c, x)
    BY <1>9 DEF RefreshTenant, DeleteTenant, CommitUpdate, RefreshKey, CommitRevoke, Work, Fails
  <2>2. pc[c] \in {"created", "delete", "loaded", "keyed", "revoking", "work"}
    BY <1>9 DEF RefreshTenant, DeleteTenant, CommitUpdate, RefreshKey, CommitRevoke, Work
  <2> QED BY <1>5, <2>1, <2>2 DEF Answers
<1>10. CASE LoadTenant(c)
  <2>1. \/ \E x \in {"refused", "error"} : Ends(c, x)
        \/ \E l : Goes(c, "loaded", UpdateArg(arg[c].tid, arg[c].body, l))
    BY <1>10 DEF LoadTenant, Fails
  <2>2. pc[c] = "update"
    BY <1>10 DEF LoadTenant
  <2>3. \A t, d, l : UpdateArg(t, d, l).cred = 0
    BY DEF UpdateArg
  <2> QED BY <1>1, <1>4, <1>5, <2>1, <2>2, <2>3, StepsAt DEF StepsLeft, Finished, Answers
<1>11. CASE InsertKey(c)
  <2>1. \/ \E x \in {"refused", "error"} : Ends(c, x)
        \/ \E t, k : Goes(c, "keyed", Arg(t, k, arg[c].cred))
    BY <1>11 DEF InsertKey, Fails
  <2>2. pc[c] = "addkey"
    BY <1>11 DEF InsertKey
  <2> QED BY <1>1, <1>4, <1>5, <1>6, <2>1, <2>2, StepsAt DEF StepsLeft, Finished, Answers
<1>12. CASE LoadKey(c)
  <2>1. \/ \E x \in {"refused", "error"} : Ends(c, x)
        \/ \E t, k : Goes(c, "revoking", Arg(t, k, arg[c].cred))
    BY <1>12 DEF LoadKey, Fails
  <2>2. pc[c] = "revoke"
    BY <1>12 DEF LoadKey
  <2> QED BY <1>1, <1>4, <1>5, <1>6, <2>1, <2>2, StepsAt DEF StepsLeft, Finished, Answers
<1> QED BY <1>7, <1>8, <1>9, <1>10, <1>11, <1>12 DEF CallStep

\* A step of anybody else, or a restart, does not move a request unless to end
\* it, and a request that starts is not on a revoked key.
LEMMA OthersAdvance ==
  ASSUME IInv, IInv', [Next]_vars, NEW c \in Calls, ~CallStep(c)
  PROVE  \/ pc'[c] = pc[c] /\ arg'[c] = arg[c]
         \/ Finished(c)'
         \/ Finished(c) /\ arg'[c].cred \notin revoked
<1>1. TypeOK
  BY DEF IInv
<1>2. ASSUME NEW o \in Calls, o # c, verify_admin(o) \/ verify_tenant(o) \/ CallStep(o)
      PROVE  pc'[c] = pc[c] /\ arg'[c] = arg[c]
  <2>1. \E x, a : Goes(o, x, a)
    BY <1>2 DEF verify_admin, verify_tenant, CallStep, FlushTenant, CommitTenant, RefreshTenant,
                DeleteTenant, LoadTenant, CommitUpdate, InsertKey, RefreshKey, LoadKey,
                CommitRevoke, Work, Ends, Fails
  <2> QED BY <1>1, <1>2, <2>1 DEF Goes, TypeOK
<1>3. ASSUME verify_admin(c)
      PROVE  Finished(c)' \/ (Finished(c) /\ arg'[c].cred \notin revoked)
  <2>1. \/ Ends(c, "refused")
        \/ \E x, t : Goes(c, x, Arg(t, 0, 0))
        \/ \E x, t, d : Goes(c, x, UpdateArg(t, d, FALSE))
    BY <1>3 DEF verify_admin, Blank
  <2>2. 0 \notin revoked /\ Finished(c)
    BY <1>1, <1>3 DEF TypeOK, KIds, verify_admin
  <2>3. CASE Ends(c, "refused")
    BY <1>1, <2>3 DEF Ends, Goes, TypeOK, Finished, Answers
  <2>4. CASE \E x, t : Goes(c, x, Arg(t, 0, 0))
    BY <1>1, <2>2, <2>4 DEF Goes, TypeOK, Arg
  <2>5. CASE \E x, t, d : Goes(c, x, UpdateArg(t, d, FALSE))
    BY <1>1, <2>2, <2>5 DEF Goes, TypeOK, UpdateArg
  <2> QED BY <2>1, <2>3, <2>4, <2>5
<1>4. ASSUME verify_tenant(c)
      PROVE  Finished(c)' \/ (Finished(c) /\ arg'[c].cred \notin revoked)
  <2>1. \/ \E x \in {"refused", "error"} : Ends(c, x)
        \/ \E k \in shown, t \in TIds, h \in Handlers : MayPass(k, t) /\ Goes(c, h, Arg(t, 0, k))
    BY <1>4 DEF verify_tenant, Fails
  <2>2. CASE \E x \in {"refused", "error"} : Ends(c, x)
    BY <1>1, <2>2 DEF Ends, Goes, TypeOK, Finished, Answers
  <2>3. CASE \E k \in shown, t \in TIds, h \in Handlers : MayPass(k, t) /\ Goes(c, h, Arg(t, 0, k))
    <3>1. PICK k \in shown, t \in TIds, h \in Handlers : MayPass(k, t) /\ Goes(c, h, Arg(t, 0, k))
      BY <2>3
    <3>2. k \notin revoked
      BY <3>1 DEF MayPass, Valid
    <3>3. arg'[c].cred = k
      BY <1>1, <3>1 DEF Goes, TypeOK, Arg
    <3> QED BY <1>4, <3>2, <3>3 DEF verify_tenant
  <2> QED BY <2>1, <2>2, <2>3
<1>5. CASE Crash
  BY <1>5 DEF Crash, Finished, Answers
<1>6. CASE UNCHANGED vars
  BY <1>6 DEF vars
<1> QED BY <1>2, <1>3, <1>4, <1>5, <1>6 DEF Next

\* Every request is answered after at most three statements of its own, if it
\* gets to take them; that it does is left to the fairness of FairSpec.
THEOREM RequestsAlwaysRunOut == Spec => RequestsRunOut
<1>1. ASSUME IInv, IInv', [Next]_vars
      PROVE  \A c \in Calls :
                /\ StepsLeft(c) \in 0..3 /\ (StepsLeft(c) = 0 <=> Finished(c))
                /\ CallStep(c) => StepsLeft(c)' < StepsLeft(c)
                /\ ~Finished(c) => StepsLeft(c)' <= StepsLeft(c)
  <2> TAKE c \in Calls
  <2>1. /\ TypeOK /\ TypeOK'
        /\ pc[c] \in Answers \cup Awaits /\ pc'[c] \in Answers \cup Awaits
    BY <1>1 DEF IInv, TypeOK
  <2>2. StepsLeft(c) \in 0..3 /\ StepsLeft(c)' \in 0..3 /\ (StepsLeft(c) = 0 <=> Finished(c))
    BY <2>1, StepsAt DEF StepsLeft, Finished
  <2>3. pc'[c] = pc[c] => StepsLeft(c)' = StepsLeft(c)
    BY DEF StepsLeft
  <2>4. Finished(c)' => StepsLeft(c)' = 0
    BY <2>1, StepsAt DEF StepsLeft, Finished
  <2> QED BY <1>1, <2>1, <2>2, <2>3, <2>4, CallAdvances, OthersAdvance
<1> QED BY <1>1, Invariance, PTL DEF Spec, RequestsRunOut

\* From the moment a key is revoked, verify_tenant lets nobody through on it,
\* and the requests it had let through only come nearer to their ends.
THEOREM NeverNewUses == Spec => NoNewUses
<1>1. ASSUME IInv, IInv', [Next]_vars
      PROVE  \A c \in Calls, k \in revoked :
                ~Finished(c)' /\ arg'[c].cred = k =>
                    ~Finished(c) /\ arg[c].cred = k /\ StepsLeft(c)' <= StepsLeft(c)
  <2> SUFFICES ASSUME NEW c \in Calls, NEW k \in revoked, ~Finished(c)', arg'[c].cred = k
               PROVE  ~Finished(c) /\ arg[c].cred = k /\ StepsLeft(c)' <= StepsLeft(c)
    OBVIOUS
  <2>a. TypeOK /\ TypeOK'
    BY <1>1 DEF IInv
  <2>b. k # 0
    BY <2>a DEF TypeOK, KIds
  <2>c. pc[c] \in Answers \cup Awaits /\ pc'[c] \in Answers \cup Awaits
    BY <2>a DEF TypeOK
  <2>1. /\ TypeOK /\ TypeOK' /\ k # 0
        /\ pc[c] \in Answers \cup Awaits /\ pc'[c] \in Answers \cup Awaits
    BY <2>a, <2>b, <2>c
  <2>2. StepsLeft(c) \in 0..3 /\ StepsLeft(c)' \in 0..3
    BY <2>1, StepsAt DEF StepsLeft
  <2>3. CASE CallStep(c)
    BY <2>1, <2>2, <2>3, CallAdvances
  <2>4. CASE ~CallStep(c)
    <3>1. pc'[c] = pc[c] /\ arg'[c] = arg[c]
      BY <1>1, <2>4, OthersAdvance
    <3>2. StepsLeft(c)' = StepsLeft(c) /\ (Finished(c)' <=> Finished(c))
      BY <3>1 DEF StepsLeft, Finished
    <3> QED BY <2>2, <3>1, <3>2
  <2> QED BY <2>3, <2>4
<1> QED BY <1>1, Invariance, PTL DEF Spec, NoNewUses
=============================================================================
