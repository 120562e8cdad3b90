-------------------------- MODULE MigrationsProofs --------------------------
(***************************************************************************)
(* Proofs about Migrations: along every path of upgrades and downgrades,   *)
(* cut off anywhere, the version tells the schema.                         *)
(***************************************************************************)
EXTENDS Migrations, SequenceTheorems, TLAPS

\* What the first k operations of a revision name.
Named(ops, k) == UNION {ops[i].what : i \in 1..k}

\* What they leave of schema s if they drop: a table takes what is of it along.
Spared(s, ops, k) ==
    {e \in s : e \notin Named(ops, k) /\ Table(e.table) \notin Named(ops, k)}

\* The draft after the first k operations from version v towards version g.
DraftAt(v, g, k) ==
    LET ops == StepOps(v, g) IN
    IF v < g THEN SchemaAt(v) \cup Named(ops, k) ELSE Spared(SchemaAt(v), ops, k)

\* A command that runs is between two versions, after k operations of the
\* revision that leads from one towards the other.
Underway ==
    /\ goal \in Versions /\ at \in Versions /\ at # goal
    /\ LET ops == StepOps(at, goal) IN
       \E k \in 0..Len(ops) :
           draft = DraftAt(at, goal, k) /\ left = SubSeq(ops, k + 1, Len(ops))

\* The inductive invariant.
MInv ==
    /\ version \in Versions
    /\ VersionTellsSchema
    /\ EveryStepApplies
    /\ goal # NoGoal => Underway

-----------------------------------------------------------------------------
(* Elements and operations.                                                 *)

\* What each kind of element is made of.
LEMMA Parts ==
  /\ \A t : Table(t).kind = "table" /\ Table(t).table = t
  /\ \A t, to, r : /\ ForeignKey(t, to, r).kind = "fk" /\ ForeignKey(t, to, r).table = t
                   /\ ForeignKey(t, to, r).on = to /\ ForeignKey(t, to, r).rule = r
  /\ \A t, c : Unique(t, c).kind = "unique" /\ Unique(t, c).table = t
  /\ \A t, c : Index(t, c).kind = "index" /\ Index(t, c).table = t /\ Index(t, c).on = c
  /\ \A t, c : Column(t, c).kind = "column" /\ Column(t, c).table = t
BY DEF Table, ForeignKey, Unique, Index, Column, Element

\* What each kind of operation is made of.
LEMMA OpParts ==
  /\ \A S : create(S).do = "add" /\ create(S).what = S
  /\ \A e : drop(e).do = "drop" /\ drop(e).what = {e}
BY DEF create, drop

\* One more operation names what it names.
LEMMA NamedNext ==
  /\ \A ops : Named(ops, 0) = {}
  /\ \A ops : \A k \in Nat : Named(ops, k + 1) = Named(ops, k) \cup ops[k + 1].what
<1>1. \A k \in Nat : 1..(k + 1) = 1..k \cup {k + 1}
  OBVIOUS
<1>2. ASSUME NEW ops, NEW k \in Nat PROVE Named(ops, k + 1) = Named(ops, k) \cup ops[k + 1].what
  BY <1>1 DEF Named
<1> QED BY <1>2 DEF Named

\* The first revision, operation by operation.
LEMMA CreateTablesOps ==
  /\ Len(CreateTables) = 11
  /\ CreateTables[1] = create({Table("tenants"), Unique("tenants", "k8s_namespace")})
  /\ CreateTables[2] = create(
            {Table("api_keys"), ForeignKey("api_keys", "tenants", "CASCADE"),
             Unique("api_keys", "tenant_id+name")})
  /\ CreateTables[3] = create({Index("api_keys", "key_hash!")})
  /\ CreateTables[4] = create({Index("api_keys", "tenant_id")})
  /\ CreateTables[5] = create({Table("build_jobs"), ForeignKey("build_jobs", "tenants", "CASCADE")})
  /\ CreateTables[6] = create({Index("build_jobs", "tenant_id")})
  /\ CreateTables[7] = create(
            {Table("webhook_registrations"),
             ForeignKey("webhook_registrations", "tenants", "CASCADE")})
  /\ CreateTables[8] = create({Index("webhook_registrations", "tenant_id")})
  /\ CreateTables[9] = create(
            {Table("deployments"), ForeignKey("deployments", "tenants", "CASCADE"),
             ForeignKey("deployments", "build_jobs", "RESTRICT")})
  /\ CreateTables[10] = create({Index("deployments", "build_job_id")})
  /\ CreateTables[11] = create({Index("deployments", "tenant_id")})
BY DEF CreateTables, TenantTable

\* Its downgrade.
LEMMA DropTablesOps ==
  /\ Len(DropTables) = 11
  /\ DropTables[1] = drop(Index("deployments", "tenant_id"))
  /\ DropTables[2] = drop(Index("deployments", "build_job_id"))
  /\ DropTables[3] = drop(Table("deployments"))
  /\ DropTables[4] = drop(Index("webhook_registrations", "tenant_id"))
  /\ DropTables[5] = drop(Table("webhook_registrations"))
  /\ DropTables[6] = drop(Index("build_jobs", "tenant_id"))
  /\ DropTables[7] = drop(Table("build_jobs"))
  /\ DropTables[8] = drop(Index("api_keys", "tenant_id"))
  /\ DropTables[9] = drop(Index("api_keys", "key_hash!"))
  /\ DropTables[10] = drop(Table("api_keys"))
  /\ DropTables[11] = drop(Table("tenants"))
BY DEF DropTables

\* Tuples of the lengths of the revisions are sequences.
LEMMA TuplesAreSeqs ==
  /\ \A a : <<a>> \in Seq({a})
  /\ \A a, b, c : <<a, b, c>> \in Seq({a, b, c})
  /\ \A a, b, c, d, e, f, g, h, i, j, k :
        <<a, b, c, d, e, f, g, h, i, j, k>> \in Seq({a, b, c, d, e, f, g, h, i, j, k})
OBVIOUS

\* Every revision is a sequence of operations.
LEMMA OpsAreSeqs ==
  \A v, g \in Versions : v # g => \E S : StepOps(v, g) \in Seq(S)
<1>1. (\E S : CreateTables \in Seq(S)) /\ (\E S : DropTables \in Seq(S))
  BY TuplesAreSeqs, Zenon DEF CreateTables, DropTables
<1>2. (\E S : AddSubPath \in Seq(S)) /\ (\E S : DropSubPath \in Seq(S))
  BY TuplesAreSeqs, Zenon DEF AddSubPath, DropSubPath
<1>3. (\E S : AddDeliveries \in Seq(S)) /\ (\E S : DropDeliveries \in Seq(S))
  BY TuplesAreSeqs, Zenon DEF AddDeliveries, DropDeliveries
<1> QED BY <1>1, <1>2, <1>3 DEF Versions, StepOps, Upgrades, Downgrades

-----------------------------------------------------------------------------
(* The schemas, and the revisions between them.                              *)

\* The column that the second revision adds.
SubPath == Column("build_jobs", "git_sub_path")

\* The schema of each version as the sum of what the models declare.
First == Tenant \cup APIKey \cup Owned("build_jobs") \cup Deployment \cup WebhookRegistration

\* Nothing in the first schema is of a later revision.
LEMMA LaterIsNew ==
  /\ SubPath \notin First
  /\ \A e \in WebhookDelivery : e.table = "webhook_deliveries"
  /\ \A e \in First \cup {SubPath} : e.table # "webhook_deliveries"
BY Parts DEF First, SubPath, Tenant, APIKey, Deployment, WebhookRegistration, WebhookDelivery, Owned

\* Each version adds to the one before it.
LEMMA Schemas ==
  /\ SchemaAt(0) = {}
  /\ SchemaAt(1) = First
  /\ SchemaAt(2) = First \cup {SubPath}
  /\ SchemaAt(3) = First \cup {SubPath} \cup WebhookDelivery
<1>1. AddSubPath[1].what = {SubPath}
  BY OpParts DEF AddSubPath, SubPath
<1>2. Metadata = First \cup {SubPath} \cup WebhookDelivery
  BY DEF Metadata, First, BuildJob, SubPath
<1> QED BY <1>1, <1>2, LaterIsNew DEF SchemaAt

\* The revision of each step.
LEMMA Chain ==
  \A g \in Versions :
    /\ 0 < g => StepOps(0, g) = CreateTables
    /\ 1 < g => StepOps(1, g) = AddSubPath
    /\ 2 < g => StepOps(2, g) = AddDeliveries
    /\ g < 1 => StepOps(1, g) = DropTables
    /\ g < 2 => StepOps(2, g) = DropSubPath
    /\ g < 3 => StepOps(3, g) = DropDeliveries
BY DEF Versions, StepOps, Upgrades, Downgrades

\* What the first operations of a revision of eleven, three or one name.
LEMMA NamedUpTo ==
  ASSUME NEW ops
  PROVE  /\ Named(ops, 0) = {}
         /\ Named(ops, 1) = Named(ops, 0) \cup ops[1].what
         /\ Named(ops, 2) = Named(ops, 1) \cup ops[2].what
         /\ Named(ops, 3) = Named(ops, 2) \cup ops[3].what
         /\ Named(ops, 4) = Named(ops, 3) \cup ops[4].what
         /\ Named(ops, 5) = Named(ops, 4) \cup ops[5].what
         /\ Named(ops, 6) = Named(ops, 5) \cup ops[6].what
         /\ Named(ops, 7) = Named(ops, 6) \cup ops[7].what
         /\ Named(ops, 8) = Named(ops, 7) \cup ops[8].what
         /\ Named(ops, 9) = Named(ops, 8) \cup ops[9].what
         /\ Named(ops, 10) = Named(ops, 9) \cup ops[10].what
         /\ Named(ops, 11) = Named(ops, 10) \cup ops[11].what
BY NamedNext

\* Every operation of an upgrade or of a downgrade is admitted where it stands,
\* and together they lead from schema s to schema r.
RunsUp(s, ops, r) ==
    /\ \A k \in 0..(Len(ops) - 1) :
          ops[k + 1].do = "add" /\ Admits(s \cup Named(ops, k), ops[k + 1])
    /\ s \cup Named(ops, Len(ops)) = r
RunsDown(s, ops, r) ==
    /\ \A k \in 0..(Len(ops) - 1) :
          ops[k + 1].do = "drop" /\ Admits(Spared(s, ops, k), ops[k + 1])
    /\ Spared(s, ops, Len(ops)) = r

\* CREATE TABLE comes after the tables it refers to, CREATE INDEX after its
\* table, nothing is created twice, and together they make the first schema.
LEMMA CreateTablesRuns == RunsUp({}, CreateTables, First)
<1>1. Named(CreateTables, 11) = First
  BY NamedUpTo, CreateTablesOps, OpParts
     DEF First, Tenant, APIKey, Deployment, WebhookRegistration, Owned
<1>2. ASSUME NEW k \in 0..10 PROVE Admits(Named(CreateTables, k), CreateTables[k + 1])
  BY NamedUpTo, CreateTablesOps, OpParts, Parts DEF Admits
<1>3. ASSUME NEW k \in 0..10 PROVE CreateTables[k + 1].do = "add"
  BY CreateTablesOps, OpParts
<1>4. Len(CreateTables) - 1 = 10 /\ \A k : {} \cup Named(CreateTables, k) = Named(CreateTables, k)
  BY CreateTablesOps
<1> QED BY <1>1, <1>2, <1>3, <1>4, CreateTablesOps DEF RunsUp

\* DROP TABLE comes after the tables that refer to it, what is dropped is there,
\* and nothing is left.
LEMMA DropTablesRuns == RunsDown(First, DropTables, {})
<1> USE DEF First, Tenant, APIKey, Deployment, WebhookRegistration, Owned
<1>1. Spared(First, DropTables, 11) = {}
  BY NamedUpTo, DropTablesOps, OpParts, Parts DEF Spared
<1>2. ASSUME NEW k \in 0..10 PROVE Admits(Spared(First, DropTables, k), DropTables[k + 1])
  BY NamedUpTo, DropTablesOps, OpParts, Parts DEF Admits, Spared
<1>3. ASSUME NEW k \in 0..10 PROVE DropTables[k + 1].do = "drop"
  BY DropTablesOps, OpParts
<1> HIDE DEF First
<1>4. Len(DropTables) - 1 = 10
  BY DropTablesOps
<1> QED BY <1>1, <1>2, <1>3, <1>4, DropTablesOps DEF RunsDown

\* The second revision adds a column to a table that is there, and takes only
\* the column away again.
LEMMA SubPathRuns ==
  /\ RunsUp(First, AddSubPath, First \cup {SubPath})
  /\ RunsDown(First \cup {SubPath}, DropSubPath, First)
<1>1. /\ Len(AddSubPath) = 1 /\ AddSubPath[1] = create({SubPath})
      /\ Len(DropSubPath) = 1 /\ DropSubPath[1] = drop(SubPath)
  BY DEF AddSubPath, DropSubPath, SubPath
<1>2. /\ Named(AddSubPath, 0) = {} /\ Named(DropSubPath, 0) = {}
      /\ Named(AddSubPath, 1) = {SubPath} /\ Named(DropSubPath, 1) = {SubPath}
  BY <1>1, NamedUpTo, OpParts
<1>3. /\ SubPath.kind = "column" /\ SubPath.table = "build_jobs"
      /\ Table("build_jobs") \in First /\ SubPath \notin First
  BY Parts, LaterIsNew DEF SubPath, First, Owned
<1>4. AddSubPath[1].do = "add" /\ Admits(First \cup {}, AddSubPath[1])
  BY <1>1, <1>3, OpParts DEF Admits
<1>5. /\ DropSubPath[1].do = "drop"
      /\ Admits(Spared(First \cup {SubPath}, DropSubPath, 0), DropSubPath[1])
  BY <1>1, <1>2, <1>3, OpParts DEF Admits, Spared
<1>6. Spared(First \cup {SubPath}, DropSubPath, 1) = First
  BY <1>2, <1>3, Parts DEF Spared
<1>7. \A k \in 0..(1 - 1) : k = 0 /\ k + 1 = 1
  OBVIOUS
<1>8. RunsUp(First, AddSubPath, First \cup {SubPath})
  BY <1>1, <1>2, <1>4, <1>7 DEF RunsUp
<1>9. RunsDown(First \cup {SubPath}, DropSubPath, First)
  BY <1>1, <1>5, <1>6, <1>7 DEF RunsDown
<1> QED BY <1>8, <1>9

\* The third revision adds a table nothing else refers to, and its downgrade
\* drops its indexes before it.
LEMMA DeliveriesRuns ==
  /\ RunsUp(First \cup {SubPath}, AddDeliveries, First \cup {SubPath} \cup WebhookDelivery)
  /\ RunsDown(First \cup {SubPath} \cup WebhookDelivery, DropDeliveries, First \cup {SubPath})
<1> DEFINE Second == First \cup {SubPath}
           Deliveries == "webhook_deliveries"
<1>1. /\ AddDeliveries[1] =
            create({Table(Deliveries), ForeignKey(Deliveries, "tenants", "CASCADE"),
                    ForeignKey(Deliveries, "webhook_registrations", "CASCADE")})
      /\ AddDeliveries[2] = create({Index(Deliveries, "tenant_id")})
      /\ AddDeliveries[3] = create({Index(Deliveries, "webhook_registration_id")})
      /\ DropDeliveries[1] = drop(Index(Deliveries, "webhook_registration_id"))
      /\ DropDeliveries[2] = drop(Index(Deliveries, "tenant_id"))
      /\ DropDeliveries[3] = drop(Table(Deliveries))
      /\ Len(AddDeliveries) = 3 /\ Len(DropDeliveries) = 3
  BY DEF AddDeliveries, DropDeliveries
<1>2. /\ Table("tenants") \in Second /\ Table("webhook_registrations") \in Second
      /\ \A e \in Second : e.table # Deliveries
      /\ \A e \in Second : e.kind = "fk" => e.on # Deliveries
  BY Parts DEF First, SubPath, Tenant, APIKey, Deployment, WebhookRegistration, Owned
<1> HIDE DEF Second
<1>3. Named(AddDeliveries, 3) = WebhookDelivery
  BY <1>1, NamedUpTo, OpParts DEF WebhookDelivery, Owned
<1>4. ASSUME NEW k \in 0..2 PROVE Admits(Second \cup Named(AddDeliveries, k), AddDeliveries[k + 1])
  BY <1>1, <1>2, NamedUpTo, OpParts, Parts DEF Admits
<1>5. ASSUME NEW k \in 0..2
      PROVE  Admits(Spared(Second \cup WebhookDelivery, DropDeliveries, k), DropDeliveries[k + 1])
  BY <1>1, <1>2, NamedUpTo, OpParts, Parts DEF Admits, Spared, WebhookDelivery, Owned
<1>6. Spared(Second \cup WebhookDelivery, DropDeliveries, 3) = Second
  BY <1>1, <1>2, NamedUpTo, OpParts, Parts DEF Spared, WebhookDelivery, Owned
<1>7. ASSUME NEW k \in 0..2
      PROVE  AddDeliveries[k + 1].do = "add" /\ DropDeliveries[k + 1].do = "drop"
  BY <1>1, OpParts
<1>8. 0..(3 - 1) = 0..2
  OBVIOUS
<1>9. RunsUp(Second, AddDeliveries, Second \cup WebhookDelivery)
  BY <1>1, <1>3, <1>4, <1>7, <1>8 DEF RunsUp
<1>10. RunsDown(Second \cup WebhookDelivery, DropDeliveries, Second)
  BY <1>1, <1>5, <1>6, <1>7, <1>8 DEF RunsDown
<1> QED BY <1>9, <1>10 DEF Second

\* Every step between two neighbouring versions runs from the schema of one to
\* the schema of the other.
LEMMA StepsRun ==
  ASSUME NEW v \in Versions, NEW g \in Versions
  PROVE  /\ v < g => RunsUp(SchemaAt(v), StepOps(v, g), SchemaAt(v + 1))
         /\ g < v => RunsDown(SchemaAt(v), StepOps(v, g), SchemaAt(v - 1))
<1>1. CASE v = 0
  BY <1>1, Chain, Schemas, CreateTablesRuns DEF Versions
<1>2. CASE v = 1
  BY <1>2, Chain, Schemas, SubPathRuns, DropTablesRuns DEF Versions
<1>3. CASE v = 2
  BY <1>3, Chain, Schemas, SubPathRuns, DeliveriesRuns DEF Versions
<1>4. CASE v = 3
  BY <1>4, Chain, Schemas, DeliveriesRuns DEF Versions
<1> QED BY <1>1, <1>2, <1>3, <1>4 DEF Versions

-----------------------------------------------------------------------------
(* A command, operation by operation.                                        *)

\* A step starts from the schema of its version.
LEMMA StepStarts ==
  ASSUME NEW v \in Versions, NEW g \in Versions PROVE DraftAt(v, g, 0) = SchemaAt(v)
BY NamedNext DEF DraftAt, Spared

\* Every operation of it is admitted and leads to the next draft.
LEMMA StepAdmitted ==
  ASSUME NEW v \in Versions, NEW g \in Versions, v # g,
         NEW k \in 0..(Len(StepOps(v, g)) - 1)
  PROVE  /\ Admits(DraftAt(v, g, k), StepOps(v, g)[k + 1])
         /\ Effect(DraftAt(v, g, k), StepOps(v, g)[k + 1]) = DraftAt(v, g, k + 1)
<1> DEFINE ops == StepOps(v, g)
<1>1. k \in Nat /\ Named(ops, k + 1) = Named(ops, k) \cup ops[k + 1].what
  BY NamedNext
<1>2. CASE v < g
  <2>1. ops[k + 1].do = "add" /\ Admits(SchemaAt(v) \cup Named(ops, k), ops[k + 1])
    BY <1>2, StepsRun DEF RunsUp
  <2>2. Effect(SchemaAt(v) \cup Named(ops, k), ops[k + 1]) = SchemaAt(v) \cup Named(ops, k + 1)
    BY <1>1, <2>1 DEF Effect
  <2> QED BY <1>2, <2>1, <2>2 DEF DraftAt
<1>3. CASE g < v
  <2>1. ops[k + 1].do = "drop" /\ Admits(Spared(SchemaAt(v), ops, k), ops[k + 1])
    BY <1>3, StepsRun DEF RunsDown
  <2>2. Effect(Spared(SchemaAt(v), ops, k), ops[k + 1]) = Spared(SchemaAt(v), ops, k + 1)
    BY <1>1, <2>1 DEF Effect, Spared
  <2>3. ~(v < g)
    BY <1>3 DEF Versions
  <2> QED BY <2>1, <2>2, <2>3 DEF DraftAt
<1> QED BY <1>2, <1>3 DEF Versions

\* It ends in the schema of the next version.
LEMMA StepEnds ==
  ASSUME NEW v \in Versions, NEW g \in Versions, v # g
  PROVE  DraftAt(v, g, Len(StepOps(v, g))) = SchemaAt(IF v < g THEN v + 1 ELSE v - 1)
<1>1. CASE v < g
  BY <1>1, StepsRun DEF DraftAt, RunsUp
<1>2. CASE g < v
  <2>1. ~(v < g)
    BY <1>2 DEF Versions
  <2> QED BY <1>2, <2>1, StepsRun DEF DraftAt, RunsDown
<1> QED BY <1>1, <1>2 DEF Versions

\* A command that stands between two versions is underway.
LEMMA StepBegins ==
  ASSUME NEW v \in Versions, NEW g \in Versions, v # g
  PROVE  \E k \in 0..Len(StepOps(v, g)) :
            /\ SchemaAt(v) = DraftAt(v, g, k)
            /\ StepOps(v, g) = SubSeq(StepOps(v, g), k + 1, Len(StepOps(v, g)))
<1>1. PICK S : StepOps(v, g) \in Seq(S)
  BY OpsAreSeqs
<1>2. Len(StepOps(v, g)) \in Nat /\ SubSeq(StepOps(v, g), 1, Len(StepOps(v, g))) = StepOps(v, g)
  BY <1>1, LenProperties, SubSeqFull
<1>3. SchemaAt(v) = DraftAt(v, g, 0) /\ 0 + 1 = 1 /\ 0 \in 0..Len(StepOps(v, g))
  BY <1>2, StepStarts
<1> QED BY <1>2, <1>3

\* The invariant holds of an empty database.
LEMMA InitMInv == Init => MInv
BY Schemas DEF Init, MInv, VersionTellsSchema, EveryStepApplies, Versions, NoGoal

\* Every step keeps it.
LEMMA MInvStep == ASSUME MInv, [Next]_vars PROVE MInv'
<1> USE DEF VersionTellsSchema, EveryStepApplies
<1>0. NoGoal \notin Versions
  BY DEF NoGoal, Versions
<1>1. ASSUME NEW g \in Versions, Begin(g) PROVE MInv'
  <2>1. /\ goal' = g /\ at' = version /\ draft' = SchemaAt(version)
        /\ left' = StepOps(version, g) /\ g # version /\ UNCHANGED <<version, schema, failed>>
    BY <1>1 DEF Begin, MInv
  <2>2. Underway'
    BY <2>1, StepBegins DEF Underway, MInv
  <2> QED BY <2>1, <2>2 DEF MInv
<1>2. CASE Apply
  <2> DEFINE ops == StepOps(at, goal)
  <2>1. PICK k \in 0..Len(ops) : draft = DraftAt(at, goal, k) /\ left = SubSeq(ops, k + 1, Len(ops))
    BY <1>2 DEF Apply, MInv, Underway
  <2>2. goal \in Versions /\ at \in Versions /\ at # goal
    BY <1>2 DEF Apply, MInv, Underway
  <2>3. PICK S : ops \in Seq(S)
    BY <2>2, OpsAreSeqs
  <2>4. Len(ops) \in Nat
    BY <2>3, LenProperties
  <2>5. k \in 0..(Len(ops) - 1)
    <3>1. left # <<>>
      BY <1>2 DEF Apply
    <3>2. k = Len(ops) => left = <<>>
      BY <2>1, <2>4, SubSeqEmpty
    <3> QED BY <2>4, <3>1, <3>2
  <2>6. Head(left) = ops[k + 1] /\ Tail(left) = SubSeq(ops, k + 1 + 1, Len(ops))
    BY <2>1, <2>3, <2>4, <2>5, HeadTailOfSubSeq
  <2>7. Admits(draft, Head(left)) /\ Effect(draft, Head(left)) = DraftAt(at, goal, k + 1)
    BY <2>1, <2>2, <2>5, <2>6, StepAdmitted
  <2>8. /\ draft' = DraftAt(at, goal, k + 1) /\ left' = SubSeq(ops, k + 1 + 1, Len(ops))
        /\ UNCHANGED <<goal, at, failed, version, schema>>
    BY <1>2, <2>6, <2>7 DEF Apply
  <2>9. k + 1 \in 0..Len(ops)
    BY <2>4, <2>5
  <2>10. Underway'
    BY <2>2, <2>8, <2>9 DEF Underway
  <2> QED BY <2>8, <2>10 DEF MInv
<1>3. CASE Finish
  <2> DEFINE ops == StepOps(at, goal)
             reached == IF at < goal THEN at + 1 ELSE at - 1
  <2>1. PICK k \in 0..Len(ops) : draft = DraftAt(at, goal, k) /\ left = SubSeq(ops, k + 1, Len(ops))
    BY <1>3 DEF Finish, MInv, Underway
  <2>2. goal \in Versions /\ at \in Versions /\ at # goal
    BY <1>3 DEF Finish, MInv, Underway
  <2>3. PICK S : ops \in Seq(S)
    BY <2>2, OpsAreSeqs
  <2>4. Len(ops) \in Nat /\ \A i \in 1..Len(ops) : ops[i] \in S
    BY <2>3, LenProperties, ElementOfSeq
  <2>5. k = Len(ops)
    <3>1. ASSUME k < Len(ops) PROVE FALSE
      <4>1. Len(left) = Len(ops) - (k + 1) + 1
        BY <2>1, <2>4, <3>1, SubSeqProperties
      <4>2. Len(left) = 0
        BY <1>3 DEF Finish
      <4> QED BY <2>4, <3>1, <4>1, <4>2
    <3> QED BY <2>4, <3>1
  <2>6. reached \in Versions /\ draft = SchemaAt(reached)
    <3>1. draft = SchemaAt(reached)
      BY <2>1, <2>2, <2>5, StepEnds
    <3>2. reached \in Versions
      BY <2>2 DEF Versions
    <3> QED BY <3>1, <3>2
  <2>7. CASE reached = goal
    <3>1. version' = goal /\ schema' = draft /\ goal' = NoGoal /\ failed' = failed
      BY <1>3, <2>7 DEF Finish, Ends
    <3> QED BY <2>2, <2>6, <2>7, <3>1 DEF MInv
  <2>8. CASE reached # goal
    <3>1. /\ at' = reached /\ left' = StepOps(reached, goal)
          /\ UNCHANGED <<version, schema, goal, draft, failed>>
      BY <1>3, <2>8 DEF Finish
    <3>2. Underway'
      <4> HIDE DEF reached
      <4> QED BY <2>2, <2>6, <2>8, <3>1, StepBegins DEF Underway
    <3> QED BY <3>1, <3>2 DEF MInv
  <2> QED BY <2>7, <2>8
<1>4. CASE Abort
  BY <1>4 DEF Abort, Ends, MInv
<1>5. CASE UNCHANGED vars
  BY <1>5 DEF vars, MInv, Underway
<1> QED BY <1>1, <1>2, <1>3, <1>4, <1>5 DEF Next

-----------------------------------------------------------------------------
(* The theorems.                                                            *)

\* Every reachable state satisfies the inductive invariant.
THEOREM Invariance == Spec => []MInv
BY InitMInv, MInvStep, PTL DEF Spec

\* The database refuses no operation of any upgrade or downgrade.
THEOREM StepsAlwaysApply == Spec => []EveryStepApplies
<1>1. MInv => EveryStepApplies
  BY DEF MInv
<1> QED BY Invariance, <1>1, PTL

\* The version tells the schema after any sequence of commands, whatever was cut
\* off in between.
THEOREM VersionAlwaysTells == Spec => []VersionTellsSchema
<1>1. MInv => VersionTellsSchema
  BY DEF MInv
<1> QED BY Invariance, <1>1, PTL

\* At every version every table cascades from tenants, and a RESTRICT stands
\* only between tables that do.
THEOREM DeletionNeverBlocked == Spec => []DeletionIsNeverBlocked
<1>1. ASSUME MInv PROVE DeletionIsNeverBlocked
  <2> DEFINE Cascades(t) == ForeignKey(t, "tenants", "CASCADE")
  <2>1. /\ \A e \in First \cup {SubPath} :
              /\ e.kind = "table" /\ e.table # "tenants" => Cascades(e.table) \in First
              /\ e.kind = "fk" /\ e.rule = "RESTRICT" =>
                    {Cascades(e.table), Cascades(e.on)} \subseteq First
        /\ \A e \in WebhookDelivery :
              /\ e.kind = "table" => Cascades(e.table) \in WebhookDelivery
              /\ ~(e.kind = "fk" /\ e.rule = "RESTRICT")
    BY Parts DEF First, SubPath, Tenant, APIKey, Deployment, WebhookRegistration, WebhookDelivery,
                 Owned
  <2>2. schema \in {{}, First, First \cup {SubPath}, First \cup {SubPath} \cup WebhookDelivery}
    BY <1>1, Schemas DEF MInv, VersionTellsSchema, Versions
  <2> QED BY <2>1, <2>2 DEF DeletionIsNeverBlocked
<1> QED BY Invariance, <1>1, PTL
=============================================================================
