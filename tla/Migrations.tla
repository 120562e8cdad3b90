----------------------------- MODULE Migrations -----------------------------
(***************************************************************************)
(* The database schema and its three Alembic revisions (alembic/versions), *)
(* run by alembic/env.py: upgrades and downgrades between any two          *)
(* versions, one DDL operation at a time in one transaction that a failing *)
(* operation or a lost process rolls back.                                 *)
(*                                                                         *)
(* A schema is a set of elements: tables, and what of their definition the *)
(* services rely on (foreign keys, unique constraints, indexes, and the    *)
(* one column that came later).                                            *)
(***************************************************************************)
EXTENDS Naturals, Sequences, FiniteSets

VARIABLES
    version,  \* alembic_version, as the number of revisions applied
    schema,   \* the schema that is committed
    goal,     \* version the running command goes to, NoGoal when none runs
    at,       \* version reached inside its transaction
    draft,    \* schema inside its transaction
    left,     \* operations of the current revision still to run
    failed    \* an operation of some command was refused by the database

vars == <<version, schema, goal, at, draft, left, failed>>

NoGoal == 9
Versions == 0..3

Element(k, t, on, rule) == [kind |-> k, table |-> t, on |-> on, rule |-> rule]
Table(t) == Element("table", t, "", "")
ForeignKey(t, to, rule) == Element("fk", t, to, rule)
Unique(t, column) == Element("unique", t, column, "")
Index(t, column) == Element("index", t, column, "")
Column(t, column) == Element("column", t, column, "")

create(elements) == [do |-> "add", what |-> elements]
drop(element) == [do |-> "drop", what |-> {element}]

TenantTable(t) == create({Table(t), ForeignKey(t, "tenants", "CASCADE")})

\* 2010d588dd5e, upgrade
CreateTables ==
    << create({Table("tenants"), Unique("tenants", "k8s_namespace")}),
       create({Table("api_keys"), ForeignKey("api_keys", "tenants", "CASCADE"),
               Unique("api_keys", "tenant_id+name")}),
       create({Index("api_keys", "key_hash!")}), create({Index("api_keys", "tenant_id")}),
       TenantTable("build_jobs"), create({Index("build_jobs", "tenant_id")}),
       TenantTable("webhook_registrations"),
       create({Index("webhook_registrations", "tenant_id")}),
       create({Table("deployments"), ForeignKey("deployments", "tenants", "CASCADE"),
               ForeignKey("deployments", "build_jobs", "RESTRICT")}),
       create({Index("deployments", "build_job_id")}),
       create({Index("deployments", "tenant_id")}) >>

\* A variant that the checks must reject: build_jobs goes before deployments.
DropTablesReordered ==
    << drop(Index("build_jobs", "tenant_id")), drop(Table("build_jobs")),
       drop(Table("deployments")), drop(Table("webhook_registrations")),
       drop(Table("api_keys")), drop(Table("tenants")) >>

\* 2010d588dd5e, downgrade
DropTables ==
    << drop(Index("deployments", "tenant_id")), drop(Index("deployments", "build_job_id")),
       drop(Table("deployments")),
       drop(Index("webhook_registrations", "tenant_id")),
       drop(Table("webhook_registrations")),
       drop(Index("build_jobs", "tenant_id")), drop(Table("build_jobs")),
       drop(Index("api_keys", "tenant_id")), drop(Index("api_keys", "key_hash!")),
       drop(Table("api_keys")), drop(Table("tenants")) >>

\* 28b60868b4a0
AddSubPath == << create({Column("build_jobs", "git_sub_path")}) >>

\* A variant that the checks must reject: the downgrade is left empty.
DropSubPathForgotten == << >>

DropSubPath == << drop(Column("build_jobs", "git_sub_path")) >>

\* A variant that the checks must reject: the table has only the foreign key
\* to the registration.
AddDeliveriesUnowned ==
    << create({Table("webhook_deliveries"),
               ForeignKey("webhook_deliveries", "webhook_registrations", "CASCADE")}),
       create({Index("webhook_deliveries", "tenant_id")}),
       create({Index("webhook_deliveries", "webhook_registration_id")}) >>

\* 43258ce16fea
AddDeliveries ==
    << create({Table("webhook_deliveries"),
               ForeignKey("webhook_deliveries", "tenants", "CASCADE"),
               ForeignKey("webhook_deliveries", "webhook_registrations", "CASCADE")}),
       create({Index("webhook_deliveries", "tenant_id")}),
       create({Index("webhook_deliveries", "webhook_registration_id")}) >>
DropDeliveries ==
    << drop(Index("webhook_deliveries", "webhook_registration_id")),
       drop(Index("webhook_deliveries", "tenant_id")), drop(Table("webhook_deliveries")) >>

\* The chain that down_revision makes of the three.
Upgrades == << CreateTables, AddSubPath, AddDeliveries >>
Downgrades == << DropTables, DropSubPath, DropDeliveries >>

\* The operations that lead from version v one step towards version g.
StepOps(v, g) == IF v < g THEN Upgrades[v + 1] ELSE Downgrades[v]

Init ==
    /\ version = 0 /\ schema = {}
    /\ goal = NoGoal /\ at = 0 /\ draft = {} /\ left = <<>>
    /\ failed = FALSE

-----------------------------------------------------------------------------
\* What the database demands of an operation: nothing twice, nothing without
\* its table, no foreign key to or from nothing (external).
Admits(s, op) ==
    IF op.do = "add"
    THEN /\ op.what \cap s = {}
         /\ \A e \in op.what : Table(e.table) \in s \cup op.what
         /\ \A e \in op.what : e.kind = "fk" => Table(e.on) \in s \cup op.what
    ELSE /\ op.what \subseteq s
         /\ \A e \in op.what : e.kind = "table" =>
               \A f \in s : f.kind = "fk" /\ f.on = e.table => f.table = e.table

Effect(s, op) ==
    IF op.do = "add" THEN s \cup op.what
    ELSE {e \in s \ op.what : Table(e.table) \notin op.what}

\* alembic upgrade or downgrade: connect, begin, look up the version.
Begin(g) ==
    /\ goal = NoGoal
    /\ g # version
    /\ goal' = g /\ at' = version /\ draft' = schema
    /\ left' = StepOps(version, g)
    /\ UNCHANGED <<version, schema, failed>>

Ends == goal' = NoGoal /\ at' = 0 /\ draft' = {} /\ left' = <<>>

\* An operation that is refused raises, and the transaction is rolled back.
Apply ==
    /\ goal # NoGoal /\ left # <<>>
    /\ IF Admits(draft, Head(left))
       THEN /\ draft' = Effect(draft, Head(left))
            /\ left' = Tail(left)
            /\ UNCHANGED <<goal, at, failed>>
       ELSE Ends /\ failed' = TRUE
    /\ UNCHANGED <<version, schema>>

\* The revision is done: the next one, or the commit.
Finish ==
    /\ goal # NoGoal /\ left = <<>>
    /\ LET reached == IF at < goal THEN at + 1 ELSE at - 1 IN
       IF reached = goal
       THEN version' = goal /\ schema' = draft /\ Ends
       ELSE /\ at' = reached /\ left' = StepOps(reached, goal)
            /\ UNCHANGED <<version, schema, goal, draft>>
    /\ UNCHANGED failed

\* The process or the connection is lost; the transaction is rolled back.
Abort ==
    /\ goal # NoGoal
    /\ Ends
    /\ UNCHANGED <<version, schema, failed>>

Next == (\E g \in Versions : Begin(g)) \/ Apply \/ Finish \/ Abort

Spec == Init /\ [][Next]_vars

-----------------------------------------------------------------------------
(* What the models declare (control_plane/app/models).                      *)

\* A table of a tenant's rows: they go with the tenant and are found by it.
Owned(t) == {Table(t), ForeignKey(t, "tenants", "CASCADE"), Index(t, "tenant_id")}

Tenant == {Table("tenants"), Unique("tenants", "k8s_namespace")}
APIKey == Owned("api_keys")
              \cup {Unique("api_keys", "tenant_id+name"), Index("api_keys", "key_hash!")}
BuildJob == Owned("build_jobs") \cup {Column("build_jobs", "git_sub_path")}
Deployment == Owned("deployments")
              \cup {ForeignKey("deployments", "build_jobs", "RESTRICT"),
                    Index("deployments", "build_job_id")}
WebhookRegistration == Owned("webhook_registrations")
WebhookDelivery == Owned("webhook_deliveries")
              \cup {ForeignKey("webhook_deliveries", "webhook_registrations", "CASCADE"),
                    Index("webhook_deliveries", "webhook_registration_id")}

Metadata == Tenant \cup APIKey \cup BuildJob \cup Deployment
              \cup WebhookRegistration \cup WebhookDelivery

(* Properties.                                                              *)

\* No operation of an upgrade or a downgrade is ever refused: tables come after
\* the ones they refer to and go before them, along every path of versions.
EveryStepApplies == ~failed

\* What the models declare, without the revisions after version v.
SchemaAt(v) ==
    CASE v = 0 -> {}
      [] v = 1 -> Metadata \ (WebhookDelivery \cup AddSubPath[1].what)
      [] v = 2 -> Metadata \ WebhookDelivery
      [] v = 3 -> Metadata

\* The version says what the schema is, whatever commands ran, failed or were
\* cut off before: every downgrade undoes exactly what its upgrade did, and at
\* the head the schema is the one the models declare.
VersionTellsSchema == schema = SchemaAt(version)

\* At every version a DELETE of a tenant takes everything of it along: every
\* other table cascades from tenants, and a RESTRICT stands only between tables
\* whose rows go in the same statement.
DeletionIsNeverBlocked ==
    \A e \in schema :
        /\ e.kind = "table" /\ e.table # "tenants" =>
              ForeignKey(e.table, "tenants", "CASCADE") \in schema
        /\ e.kind = "fk" /\ e.rule = "RESTRICT" =>
              {ForeignKey(e.table, "tenants", "CASCADE"),
               ForeignKey(e.on, "tenants", "CASCADE")} \subseteq schema
=============================================================================
