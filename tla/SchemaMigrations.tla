--------------------------- MODULE SchemaMigrations ---------------------------
(***************************************************************************)
(* The migration runner (db/migrate.py) on the FEATURES schema: scripts    *)
(* applied in version order, each recorded in SCHEMA_MIGRATIONS after its  *)
(* statements, by processes that may overlap, come from different          *)
(* checkouts, meet an account whose roles do not exist yet, or die.  The   *)
(* session is autocommit: every statement is in effect when it returns.    *)
(***************************************************************************)
EXTENDS Naturals, Sequences

CONSTANTS
    Script,     \* version -> its statements, in the order of the file
    Runners     \* processes of the runner

Versions == 1 .. Len(Script)

ASSUME ScriptAssumption == Script \in Seq(Seq([kind : {"column", "table"}, name : STRING]
                                     \cup [kind : {"all", "future"}, role : STRING, priv : STRING]))

VARIABLES
    columns,    \* the nullable columns FACT_FEATURE_SNAPSHOTS has got so far
    tables,     \* the tables of the schema
    roles,      \* the roles that exist
    granted,    \* <<role, privilege, table>>
    future,     \* <<role, privilege>> every new table is born with
    recorded,   \* the rows of SCHEMA_MIGRATIONS
    runner      \* r -> what apply_all has in its hands

schemaVars == <<columns, tables, roles, granted, future, recorded, runner>>
database == <<columns, tables, roles, granted, future>>

-----------------------------------------------------------------------------
\* The scripts of the repository, as far as they are about this schema.

Fact == "FACT_FEATURE_SNAPSHOTS"
Staging == "STG_FEATURE_SNAPSHOTS"
GroundTruth == {"IS_SYNTHETIC_FRAUD", "FRAUD_PATTERN"}
Readers == {"BI_ROLE", "AGENT_ROLE", "PIPELINE_ROLE"}

AddColumn(c) == [kind |-> "column", name |-> c]
CreateTable(t) == [kind |-> "table", name |-> t]
GrantAll(r, p) == [kind |-> "all", role |-> r, priv |-> p]
GrantFuture(r, p) == [kind |-> "future", role |-> r, priv |-> p]

V001 == <<AddColumn("IS_SYNTHETIC_FRAUD"), AddColumn("FRAUD_PATTERN")>>

\* Mutated form: grants on ALL TABLES alone, a snapshot of the tables of then.
V002_Snapshot == <<GrantAll("BI_ROLE", "SELECT"), GrantAll("AGENT_ROLE", "SELECT")>>

V002 == <<GrantFuture("BI_ROLE", "SELECT"), GrantAll("BI_ROLE", "SELECT"),
          GrantFuture("AGENT_ROLE", "SELECT"), GrantAll("AGENT_ROLE", "SELECT"),
          GrantFuture("PIPELINE_ROLE", "INSERT")>>

V003 == <<CreateTable(Staging)>>

V004 == <<GrantAll("PIPELINE_ROLE", "SELECT"), GrantFuture("PIPELINE_ROLE", "SELECT")>>

RepositoryScript == <<V001, V002, V003, V004>>

\* What rbac.sql grants on the tables that exist when it runs.
RbacGrants == (Readers \X {"SELECT"}) \cup {<<"PIPELINE_ROLE", "INSERT">>}

-----------------------------------------------------------------------------

Idle == [at |-> "idle", todo |-> {}, k |-> 1]

\* An account after schema.sql, or an older one whose fact table has the
\* columns already, or not yet.
SchemaInit ==
    /\ columns \in {{}, GroundTruth}
    /\ tables = {Fact}
    /\ roles = {}
    /\ granted = {}
    /\ future = {}
    /\ recorded = {}
    /\ runner = [r \in Runners |-> Idle]

\* rbac.sql, by hand: the roles, and grants on ALL TABLES, which is those of now.
Rbac ==
    /\ roles' = roles \cup Readers
    /\ granted' = granted \cup {<<g[1], g[2], t>> : g \in RbacGrants, t \in tables}
    /\ UNCHANGED <<columns, tables, future, recorded, runner>>

\* pending: the versions of this checkout that are not recorded, decided once.
Pending(all, applied) == all \ applied

\* apply_all up to its loop: discover_migrations, applied_versions, pending.
\* The checkout may be of any release.
Start(r) ==
    /\ runner[r].at = "idle"
    /\ \E n \in Versions :
        LET todo == Pending(1 .. n, recorded)
        IN  /\ todo # {}
            /\ runner' = [runner EXCEPT ![r] = [at |-> "run", todo |-> todo, k |-> 1]]
    /\ UNCHANGED <<database, recorded>>

\* The migration the loop is at: pending() keeps the order of the versions.
IsCurrent(r, v) == v \in runner[r].todo /\ \A w \in runner[r].todo : v <= w

\* GRANT ... TO ROLE: "Role does not exist".
Raises(s) == s.kind \in {"all", "future"} /\ s.role \notin roles

\* The database after statement s.  IF NOT EXISTS and GRANT repeat harmlessly;
\* ALL TABLES is a snapshot; a new table takes the future grants with it.
Effect(s) ==
    /\ columns' = columns \cup (IF s.kind = "column" THEN {s.name} ELSE {})
    /\ tables' = tables \cup (IF s.kind = "table" THEN {s.name} ELSE {})
    /\ future' = future \cup (IF s.kind = "future" THEN {<<s.role, s.priv>>} ELSE {})
    /\ granted' = granted
        \cup (IF s.kind = "all" THEN {<<s.role, s.priv, t>> : t \in tables} ELSE {})
        \cup (IF s.kind = "table" /\ s.name \notin tables
              THEN {<<g[1], g[2], s.name>> : g \in future} ELSE {})
    /\ UNCHANGED roles

\* execute_string: the file's statements one after the other, until one raises.
Execute(r, v) ==
    LET k == runner[r].k
    IN  /\ runner[r].at = "run" /\ IsCurrent(r, v) /\ k <= Len(Script[v])
        /\ ~Raises(Script[v][k])
        /\ Effect(Script[v][k])
        /\ runner' = [runner EXCEPT ![r].k = k + 1]
        /\ UNCHANGED recorded

\* Mutated form: the error of a statement is logged and the script goes on.
Raise_Swallowed(r, v) ==
    LET k == runner[r].k
    IN  /\ runner[r].at = "run" /\ IsCurrent(r, v) /\ k <= Len(Script[v])
        /\ Raises(Script[v][k])
        /\ runner' = [runner EXCEPT ![r].k = k + 1]
        /\ UNCHANGED <<database, recorded>>

Raise(r, v) ==
    LET k == runner[r].k
    IN  /\ runner[r].at = "run" /\ IsCurrent(r, v) /\ k <= Len(Script[v])
        /\ Raises(Script[v][k])
        /\ runner' = [runner EXCEPT ![r] = Idle]
        /\ UNCHANGED <<database, recorded>>

\* INSERT INTO SCHEMA_MIGRATIONS, and on to the next.  PRIMARY KEY is not
\* enforced: a second runner's row of the same version is accepted.
Record(r, v) ==
    /\ runner[r].at = "run" /\ IsCurrent(r, v) /\ runner[r].k = Len(Script[v]) + 1
    /\ recorded' = recorded \cup {v}
    /\ LET todo == runner[r].todo \ {v}
       IN  runner' = [runner EXCEPT ![r] = IF todo = {} THEN Idle
                                           ELSE [at |-> "run", todo |-> todo, k |-> 1]]
    /\ UNCHANGED database

\* The process, or its connection, dies between two statements.
Die(r) ==
    /\ runner[r].at = "run"
    /\ runner' = [runner EXCEPT ![r] = Idle]
    /\ UNCHANGED <<database, recorded>>

SchemaNext ==
    \/ Rbac
    \/ \E r \in Runners : Start(r) \/ Die(r)
    \/ \E r \in Runners, v \in Versions : Execute(r, v) \/ Raise(r, v) \/ Record(r, v)

-----------------------------------------------------------------------------

RunnerState == [at : {"idle", "run"}, todo : SUBSET Versions, k : Nat \ {0}]

SchemaTypeOK ==
    /\ recorded \subseteq Versions
    /\ runner \in [Runners -> RunnerState]

\* What statement s promises, whatever came after it.
InEffect(s) ==
    /\ s.kind = "column" => s.name \in columns
    /\ s.kind = "table"  => s.name \in tables
    /\ s.kind = "future" => <<s.role, s.priv>> \in future
    /\ s.kind = "all"    => <<s.role, s.priv, Fact>> \in granted

\* "recorded only after its statements succeed, so a failure stops the run with
\* a clear 'applied up to N' state rather than a half-recorded mess" (apply_all):
\* the recorded versions are 1 .. N, and each of their statements is in effect,
\* through deaths, missing roles, and runners that overlap on stale reads.
AppliedUpToN ==
    /\ \A v \in recorded : 1 .. v \subseteq recorded
    /\ \A v \in recorded : \A k \in DOMAIN Script[v] : InEffect(Script[v][k])

\* V002, "close the 'new table is invisible' gap": once everything is recorded,
\* every role that reads the schema can read every table in it, whenever the
\* table was created and however often the runs were interrupted.
ReadersSeeEveryTable ==
    recorded = Versions => \A r \in Readers, t \in tables : <<r, "SELECT", t>> \in granted
=============================================================================
