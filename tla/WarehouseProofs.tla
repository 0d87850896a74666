---------------------------- MODULE WarehouseProofs ----------------------------
(***************************************************************************)
(* For any scripts and runners, and any transactions and files: the        *)
(* recorded migrations are a prefix that is in effect, a transaction gets  *)
(* no second row, and a loader that owns its staging table loses nothing   *)
(* of files that come in order.                                            *)
(***************************************************************************)
EXTENDS Warehouse, TLAPS

\* A transaction's rows get newer from file to file.
InOrder ==
    \A i, j \in 1 .. Len(Files) : i < j =>
        \A old \in Files[i], new \in Files[j] : old.txn = new.txn => old.at <= new.at

-----------------------------------------------------------------------------
(* Migrations *)

\* What is in todo is what the checkout has above a recorded prefix; of the
\* version a runner is at, the statements before k are in effect.
RunnerOK(r) ==
    runner[r].at = "run" =>
        /\ \A v \in runner[r].todo : 1 .. v \subseteq runner[r].todo \cup recorded
        /\ \A v \in Versions : IsCurrent(r, v) =>
              \A j \in DOMAIN Script[v] : j < runner[r].k => InEffect(Script[v][j])

SchemaInv ==
    /\ SchemaTypeOK
    /\ Fact \in tables
    /\ AppliedUpToN
    /\ \A r \in Runners : RunnerOK(r)

\* Nothing the code does takes an effect back.
LEMMA EffectsStay ==
    ASSUME columns \subseteq columns', tables \subseteq tables',
           future \subseteq future', granted \subseteq granted',
           NEW s, InEffect(s)
    PROVE  InEffect(s)'
BY DEF InEffect

LEMMA EffectGrows ==
    ASSUME NEW s, Effect(s)
    PROVE  /\ columns \subseteq columns' /\ tables \subseteq tables'
           /\ future \subseteq future' /\ granted \subseteq granted'
BY DEF Effect

\* A statement is in effect once it was executed.
LEMMA EffectHolds ==
    ASSUME NEW s, Effect(s), Fact \in tables
    PROVE  InEffect(s)'
BY DEF Effect, InEffect

\* A step that only adds to the database and leaves the records and all runners
\* but r as they are, and r with the invariant.
LEMMA SchemaFrame ==
    ASSUME SchemaInv,
           columns \subseteq columns', tables \subseteq tables',
           future \subseteq future', granted \subseteq granted',
           recorded' = recorded, NEW r \in Runners, NEW s \in RunnerState,
           runner' = [runner EXCEPT ![r] = s], RunnerOK(r)'
    PROVE  SchemaInv'
<1>1. SchemaTypeOK' /\ (Fact \in tables)'
    BY DEF SchemaInv, SchemaTypeOK
<1>2. AppliedUpToN'
    BY EffectsStay DEF SchemaInv, AppliedUpToN
<1>3. ASSUME NEW q \in Runners, q # r PROVE RunnerOK(q)'
    <2>1. runner'[q] = runner[q] /\ RunnerOK(q)
        BY <1>3 DEF SchemaInv, SchemaTypeOK
    <2>2. QED
        BY <2>1, EffectsStay DEF RunnerOK, IsCurrent
<1>4. QED
    BY <1>1, <1>2, <1>3 DEF SchemaInv

LEMMA IdleType == Idle \in RunnerState
BY DEF Idle, RunnerState

LEMMA RbacInv == SchemaInv /\ Rbac => SchemaInv'
<1> SUFFICES ASSUME SchemaInv, Rbac PROVE SchemaInv'
    OBVIOUS
<1>1. /\ columns \subseteq columns' /\ tables \subseteq tables'
      /\ future \subseteq future' /\ granted \subseteq granted'
      /\ recorded' = recorded /\ runner' = runner
    BY DEF Rbac
<1>2. SchemaTypeOK' /\ (Fact \in tables)'
    BY <1>1 DEF SchemaInv, SchemaTypeOK
<1>3. AppliedUpToN'
    BY <1>1, EffectsStay DEF SchemaInv, AppliedUpToN
<1>4. \A q \in Runners : RunnerOK(q)'
    BY <1>1, EffectsStay DEF SchemaInv, RunnerOK, IsCurrent
<1>5. QED
    BY <1>2, <1>3, <1>4 DEF SchemaInv

LEMMA StartInv ==
    ASSUME SchemaInv, NEW r \in Runners, Start(r)
    PROVE  SchemaInv'
<1>1. PICK n \in Versions :
          runner' = [runner EXCEPT ![r] =
              [at |-> "run", todo |-> Pending(1 .. n, recorded), k |-> 1]]
    BY DEF Start
<1> DEFINE todo == Pending(1 .. n, recorded)
           s == [at |-> "run", todo |-> todo, k |-> 1]
<1>2. n \in Nat /\ n <= Len(Script) /\ 1 .. n \subseteq Versions
    BY ScriptAssumption DEF Versions
<1>3. s \in RunnerState
    BY <1>2 DEF RunnerState, Pending
<1>4. runner'[r] = s
    BY <1>1 DEF SchemaInv, SchemaTypeOK
<1>5. \A v \in todo : 1 .. v \subseteq todo \cup recorded
    BY <1>2 DEF Pending
<1>6. recorded' = recorded /\ UNCHANGED database
    BY DEF Start
<1>7. \A v \in Versions : \A j \in DOMAIN Script[v] : ~(j < 1)
    BY ScriptAssumption DEF Versions
<1>8. RunnerOK(r)'
    BY <1>4, <1>5, <1>6, <1>7 DEF RunnerOK
<1>9. QED
    BY <1>1, <1>3, <1>6, <1>8, SchemaFrame DEF database

LEMMA StopInv ==
    ASSUME SchemaInv, NEW r \in Runners,
           runner' = [runner EXCEPT ![r] = Idle], UNCHANGED <<database, recorded>>
    PROVE  SchemaInv'
<1>1. RunnerOK(r)'
    BY DEF SchemaInv, SchemaTypeOK, RunnerOK, Idle
<1>2. QED
    BY <1>1, IdleType, SchemaFrame DEF database

LEMMA ExecuteInv ==
    ASSUME SchemaInv, NEW r \in Runners, NEW v \in Versions, Execute(r, v)
    PROVE  SchemaInv'
<1>1. runner[r] \in RunnerState
    BY DEF SchemaInv, SchemaTypeOK
<1>2. PICK k \in Nat : k = runner[r].k
    BY <1>1 DEF RunnerState
<1> DEFINE after == [runner[r] EXCEPT !.k = k + 1]
<1>0. after \in RunnerState /\ after.todo = runner[r].todo /\ after.k = k + 1
    BY <1>1, <1>2 DEF RunnerState
<1> HIDE DEF after
<1>3. PICK s \in RunnerState : s = after /\ s.todo = runner[r].todo /\ s.k = k + 1
    BY <1>0
<1>4. runner' = [runner EXCEPT ![r] = s] /\ runner'[r] = s /\ recorded' = recorded
    BY <1>2, <1>3 DEF Execute, SchemaInv, SchemaTypeOK, after
<1>5. Effect(Script[v][k]) /\ Fact \in tables
    BY <1>2 DEF Execute, SchemaInv
<1>6. /\ columns \subseteq columns' /\ tables \subseteq tables'
      /\ future \subseteq future' /\ granted \subseteq granted'
    BY <1>5, EffectGrows
<1>7. InEffect(Script[v][k])'
    BY <1>5, EffectHolds
<1>8. \A w \in Versions : IsCurrent(r, w)' => w = v
    BY <1>3, <1>4 DEF Execute, IsCurrent, Versions
<1>9. \A j \in DOMAIN Script[v] : j < k => InEffect(Script[v][j])'
    BY <1>2, <1>6, EffectsStay DEF SchemaInv, RunnerOK, Execute
<1>10. \A j \in DOMAIN Script[v] : j < k + 1 => j < k \/ j = k
    BY ScriptAssumption DEF Versions
<1>11. \A w \in Versions : IsCurrent(r, w)' =>
          \A j \in DOMAIN Script[w] : j < s.k => InEffect(Script[w][j])'
    BY <1>3, <1>7, <1>8, <1>9, <1>10
<1>12. \A w \in s.todo : 1 .. w \subseteq s.todo \cup recorded'
    BY <1>3, <1>4 DEF RunnerOK, SchemaInv, Execute
<1>13. RunnerOK(r)'
    BY <1>4, <1>11, <1>12 DEF RunnerOK
<1>14. QED
    BY <1>4, <1>6, <1>13, SchemaFrame

LEMMA RecordInv ==
    ASSUME SchemaInv, NEW r \in Runners, NEW v \in Versions, Record(r, v)
    PROVE  SchemaInv'
<1> DEFINE todo == runner[r].todo \ {v}
           s == IF todo = {} THEN Idle ELSE [at |-> "run", todo |-> todo, k |-> 1]
<1>1. runner[r] \in RunnerState
    BY DEF SchemaInv, SchemaTypeOK
<1>2. s \in RunnerState
    BY <1>1, IdleType DEF RunnerState
<1>3. /\ runner' = [runner EXCEPT ![r] = s] /\ runner'[r] = s
      /\ recorded' = recorded \cup {v} /\ UNCHANGED database
    BY DEF Record, SchemaInv, SchemaTypeOK
<1>4. \A x : InEffect(x)' <=> InEffect(x)
    BY <1>3 DEF InEffect, database
<1>5. \A w \in 1 .. v - 1 : w \in recorded
    <2> SUFFICES ASSUME NEW w \in 1 .. v - 1 PROVE w \in recorded
        OBVIOUS
    <2>1. v \in runner[r].todo /\ \A x \in runner[r].todo : v <= x
        BY DEF Record, IsCurrent
    <2>2. w \in runner[r].todo \cup recorded
        BY <2>1 DEF SchemaInv, RunnerOK, Record, Versions
    <2>3. v \in Nat /\ w \in Nat /\ w < v
        BY DEF Versions
    <2>4. QED
        BY <2>1, <2>2, <2>3
<1>6. 1 .. v \subseteq recorded'
    BY <1>3, <1>5 DEF Versions
<1>7. \A j \in DOMAIN Script[v] : InEffect(Script[v][j])
    <2>1. \A j \in DOMAIN Script[v] : j < Len(Script[v]) + 1
        BY ScriptAssumption DEF Versions
    <2>2. QED
        BY <2>1 DEF SchemaInv, RunnerOK, Record
<1>8. AppliedUpToN'
    BY <1>3, <1>4, <1>6, <1>7 DEF AppliedUpToN, SchemaInv
<1>9. ASSUME NEW q \in Runners PROVE RunnerOK(q)'
    <2>1. CASE q # r
        <3>1. runner'[q] = runner[q]
            BY <1>3, <2>1 DEF SchemaInv, SchemaTypeOK
        <3>2. QED
            BY <1>3, <1>4, <3>1 DEF SchemaInv, RunnerOK, IsCurrent
    <2>2. CASE q = r
        <3>1. CASE todo = {}
            BY <1>3, <2>2, <3>1 DEF RunnerOK, Idle
        <3>2. CASE todo # {}
            <4>1. runner'[q] = [at |-> "run", todo |-> todo, k |-> 1]
                BY <1>3, <2>2, <3>2
            <4>2. \A w \in todo : 1 .. w \subseteq todo \cup recorded'
                BY <1>3 DEF SchemaInv, RunnerOK, Record
            <4>3. \A w \in Versions : \A j \in DOMAIN Script[w] : ~(j < 1)
                BY ScriptAssumption DEF Versions
            <4>4. QED
                BY <4>1, <4>2, <4>3 DEF RunnerOK
        <3>3. QED
            BY <3>1, <3>2
    <2>3. QED
        BY <2>1, <2>2
<1>10. SchemaTypeOK' /\ (Fact \in tables)'
    BY <1>2, <1>3 DEF SchemaInv, SchemaTypeOK, database
<1>11. QED
    BY <1>8, <1>9, <1>10 DEF SchemaInv

LEMMA SchemaNextInv == SchemaInv /\ SchemaNext => SchemaInv'
<1> SUFFICES ASSUME SchemaInv, SchemaNext PROVE SchemaInv'
    OBVIOUS
<1>1. CASE Rbac
    BY <1>1, RbacInv
<1>2. ASSUME NEW r \in Runners, Start(r) \/ Die(r) PROVE SchemaInv'
    BY <1>2, StartInv, StopInv DEF Die
<1>3. ASSUME NEW r \in Runners, NEW v \in Versions, Execute(r, v) \/ Raise(r, v) \/ Record(r, v)
      PROVE  SchemaInv'
    BY <1>3, ExecuteInv, StopInv, RecordInv DEF Raise
<1>4. QED
    BY <1>1, <1>2, <1>3 DEF SchemaNext

LEMMA SchemaStutters == SchemaInv /\ UNCHANGED schemaVars => SchemaInv'
BY DEF SchemaInv, schemaVars, SchemaTypeOK, AppliedUpToN, InEffect, RunnerOK, IsCurrent

LEMMA SchemaInitInv == SchemaInit => SchemaInv
BY IdleType DEF SchemaInit, SchemaInv, SchemaTypeOK, AppliedUpToN, RunnerOK, Idle

\* "a failure stops the run with a clear 'applied up to N' state": for any
\* scripts and any number of runners, overlapping, dying, and restarted.
THEOREM AppliedInOrder == Spec => []AppliedUpToN
<1>1. Init => SchemaInv
    BY SchemaInitInv DEF Init
<1>2. SchemaInv /\ [Next]_vars => SchemaInv'
    BY SchemaNextInv, SchemaStutters DEF Next, vars
<1>3. SchemaInv => AppliedUpToN
    BY DEF SchemaInv
<1>4. QED
    BY <1>1, <1>2, <1>3, PTL DEF Spec

-----------------------------------------------------------------------------
(* The scripts of the repository *)

Select(role, table) == <<role, "SELECT", table>>

\* The staging table came after the future grants of V002, and V004's snapshot
\* of the tables after the staging table.
ReadInv ==
    /\ tables \subseteq {Fact, Staging}
    /\ Staging \in tables =>
          Select("BI_ROLE", Staging) \in granted /\ Select("AGENT_ROLE", Staging) \in granted
    /\ 4 \in recorded => Select("PIPELINE_ROLE", Staging) \in granted
    /\ \A r \in Runners :
          runner[r].at = "run" /\ IsCurrent(r, 4) /\ runner[r].k > 1
              => Select("PIPELINE_ROLE", Staging) \in granted

LEMMA ScriptText ==
    ASSUME Script = RepositoryScript
    PROVE  /\ Versions = 1 .. 4
           /\ Script[1] = V001 /\ Script[2] = V002 /\ Script[3] = V003 /\ Script[4] = V004
BY DEF Versions, RepositoryScript

LEMMA StatementText ==
    ASSUME Script = RepositoryScript, NEW v \in Versions,
           NEW k \in Nat \ {0}, k <= Len(Script[v])
    PROVE  /\ k \in DOMAIN Script[v]
           /\ v \in {1, 2} => Script[v][k].kind # "table"
           /\ v = 3 => Script[v][k] = CreateTable(Staging)
           /\ v = 4 => Script[v][k].kind # "table"
           /\ v = 4 /\ k = 1 => Script[v][k] = GrantAll("PIPELINE_ROLE", "SELECT")
<1>1. v \in 1 .. 4
    BY ScriptText
<1>2. CASE v = 1
    <2>1. Script[v] = V001
        BY <1>2, ScriptText
    <2>2. Len(V001) = 2 /\ \A j \in 1 .. 2 : V001[j].kind = "column"
        BY DEF V001, AddColumn
    <2>3. DOMAIN V001 = 1 .. 2
        BY DEF V001
    <2>4. QED
        BY <1>2, <2>1, <2>2, <2>3
<1>3. CASE v = 2
    <2>1. Script[v] = V002
        BY <1>3, ScriptText
    <2>2. Len(V002) = 5 /\ \A j \in 1 .. 5 : V002[j].kind \in {"all", "future"}
        BY DEF V002, GrantAll, GrantFuture
    <2>3. DOMAIN V002 = 1 .. 5
        BY DEF V002
    <2>4. QED
        BY <1>3, <2>1, <2>2, <2>3
<1>4. CASE v = 3
    <2>1. Script[v] = V003
        BY <1>4, ScriptText
    <2>2. Len(V003) = 1 /\ V003[1] = CreateTable(Staging) /\ DOMAIN V003 = 1 .. 1
        BY DEF V003
    <2>3. QED
        BY <1>4, <2>1, <2>2
<1>5. CASE v = 4
    <2>1. Script[v] = V004
        BY <1>5, ScriptText
    <2>2. /\ Len(V004) = 2 /\ \A j \in 1 .. 2 : V004[j].kind \in {"all", "future"}
          /\ V004[1] = GrantAll("PIPELINE_ROLE", "SELECT")
        BY DEF V004, GrantAll, GrantFuture
    <2>3. DOMAIN V004 = 1 .. 2
        BY DEF V004
    <2>4. QED
        BY <1>5, <2>1, <2>2, <2>3
<1>6. QED
    BY <1>1, <1>2, <1>3, <1>4, <1>5

\* While a runner is at v, the versions before v are recorded and in effect.
LEMMA EarlierRecorded ==
    ASSUME SchemaInv, NEW r \in Runners, NEW v \in Versions, NEW w \in 1 .. v - 1,
           runner[r].at = "run", IsCurrent(r, v)
    PROVE  w \in recorded /\ \A j \in DOMAIN Script[w] : InEffect(Script[w][j])
<1>1. v \in runner[r].todo /\ \A x \in runner[r].todo : v <= x
    BY DEF IsCurrent
<1>2. w \in runner[r].todo \cup recorded
    BY <1>1 DEF SchemaInv, RunnerOK, Versions
<1>3. v \in Nat /\ w \in Nat /\ w < v
    BY DEF Versions
<1>4. w \in recorded
    BY <1>1, <1>2, <1>3
<1>5. QED
    BY <1>4 DEF SchemaInv, AppliedUpToN

\* Where V002 is in effect, so are its grants; where V003 is, there is its table.
LEMMA InEffectText ==
    ASSUME Script = RepositoryScript, NEW w \in Versions,
           \A j \in DOMAIN Script[w] : InEffect(Script[w][j])
    PROVE  /\ w = 2 => /\ <<"BI_ROLE", "SELECT">> \in future
                       /\ <<"AGENT_ROLE", "SELECT">> \in future
                       /\ Select("BI_ROLE", Fact) \in granted
                       /\ Select("AGENT_ROLE", Fact) \in granted
           /\ w = 3 => Staging \in tables
           /\ w = 4 => Select("PIPELINE_ROLE", Fact) \in granted
<1>1. CASE w = 2
    <2>1. \A j \in 1 .. 5 : InEffect(V002[j])
        BY <1>1, ScriptText DEF V002
    <2>2. /\ InEffect(GrantFuture("BI_ROLE", "SELECT"))
          /\ InEffect(GrantAll("BI_ROLE", "SELECT"))
          /\ InEffect(GrantFuture("AGENT_ROLE", "SELECT"))
          /\ InEffect(GrantAll("AGENT_ROLE", "SELECT"))
        BY <2>1 DEF V002
    <2>3. QED
        BY <1>1, <2>2 DEF InEffect, GrantFuture, GrantAll, Select
<1>2. CASE w = 3
    <2>1. InEffect(CreateTable(Staging))
        BY <1>2, ScriptText DEF V003
    <2>2. QED
        BY <1>2, <2>1 DEF InEffect, CreateTable
<1>3. CASE w = 4
    <2>1. InEffect(GrantAll("PIPELINE_ROLE", "SELECT"))
        BY <1>3, ScriptText DEF V004
    <2>2. QED
        BY <1>3, <2>1 DEF InEffect, GrantAll, Select
<1>4. QED
    BY <1>1, <1>2, <1>3

LEMMA ExecuteReads ==
    ASSUME Script = RepositoryScript, SchemaInv, ReadInv,
           NEW r \in Runners, NEW v \in Versions, Execute(r, v)
    PROVE  ReadInv'
<1>1. PICK k \in Nat \ {0} : k = runner[r].k
    BY DEF SchemaInv, SchemaTypeOK, RunnerState
<1>2. PICK s : s = Script[v][k]
    OBVIOUS
<1>3. /\ runner[r].at = "run" /\ IsCurrent(r, v) /\ k <= Len(Script[v])
      /\ Effect(s) /\ recorded' = recorded
    BY <1>1, <1>2 DEF Execute
<1>4. granted \subseteq granted'
    BY <1>3, EffectGrows
<1>5. \A q \in Runners : /\ runner'[q].at = runner[q].at /\ runner'[q].todo = runner[q].todo
                         /\ q # r => runner'[q].k = runner[q].k
                         /\ q = r => runner'[q].k = k + 1
    BY <1>1 DEF Execute, SchemaInv, SchemaTypeOK, RunnerState
<1>6. \A q \in Runners : IsCurrent(q, 4)' <=> IsCurrent(q, 4)
    BY <1>5 DEF IsCurrent
<1>7. \A w \in 1 .. v - 1 : w \in Versions /\ \A j \in DOMAIN Script[w] : InEffect(Script[w][j])
    BY <1>3, EarlierRecorded DEF Versions
<1>8. /\ tables' \subseteq {Fact, Staging}
      /\ Staging \in tables' =>
             Select("BI_ROLE", Staging) \in granted' /\ Select("AGENT_ROLE", Staging) \in granted'
    <2>1. CASE v = 3
        <3>1. <<"BI_ROLE", "SELECT">> \in future /\ <<"AGENT_ROLE", "SELECT">> \in future
            BY <1>7, <2>1, InEffectText
        <3>2. s.kind = "table" /\ s.name = Staging
            BY <1>2, <1>3, <2>1, StatementText DEF CreateTable
        <3>3. tables' = tables \cup {Staging}
              /\ (Staging \notin tables => {<<g[1], g[2], Staging>> : g \in future} \subseteq granted')
            BY <1>3, <3>2 DEF Effect
        <3>4. Staging \notin tables =>
                Select("BI_ROLE", Staging) \in granted' /\ Select("AGENT_ROLE", Staging) \in granted'
            BY <3>1, <3>3 DEF Select
        <3>5. QED
            BY <1>4, <3>3, <3>4 DEF ReadInv
    <2>2. CASE v # 3
        <3>1. s.kind # "table"
            BY <1>2, <1>3, <2>2, ScriptText, StatementText
        <3>2. tables' = tables
            BY <1>3, <3>1 DEF Effect
        <3>3. QED
            BY <1>4, <3>2 DEF ReadInv
    <2>3. QED
        BY <2>1, <2>2
<1>9. ASSUME NEW q \in Runners, runner'[q].at = "run", IsCurrent(q, 4)', runner'[q].k > 1
      PROVE  Select("PIPELINE_ROLE", Staging) \in granted'
    <2>1. CASE q # r \/ k > 1
        BY <1>1, <1>4, <1>5, <1>6, <1>9, <2>1 DEF ReadInv
    <2>2. CASE q = r /\ k = 1
        <3>1. v = 4
            BY <1>3, <1>6, <1>9, <2>2, ScriptText DEF IsCurrent
        <3>2. s = GrantAll("PIPELINE_ROLE", "SELECT")
            BY <1>2, <1>3, <2>2, <3>1, StatementText
        <3>3. Staging \in tables
            BY <1>7, <3>1, InEffectText
        <3>4. {<<"PIPELINE_ROLE", "SELECT", t>> : t \in tables} \subseteq granted'
            BY <1>3, <3>2 DEF Effect, GrantAll
        <3>5. QED
            BY <3>3, <3>4 DEF Select
    <2>3. QED
        BY <1>1, <2>1, <2>2
<1>10. 4 \in recorded' => Select("PIPELINE_ROLE", Staging) \in granted'
    BY <1>3, <1>4 DEF ReadInv
<1>11. QED
    BY <1>8, <1>9, <1>10 DEF ReadInv

\* A step that leaves the tables and adds only grants, and keeps r's place or
\* puts it at the beginning of a version.
LEMMA OtherReads ==
    ASSUME ReadInv, tables' = tables, granted \subseteq granted', recorded' = recorded,
           \A q \in Runners : runner'[q] = runner[q] \/ runner'[q].at = "idle"
                             \/ runner'[q].k = 1
    PROVE  ReadInv'
<1>1. ASSUME NEW q \in Runners, runner'[q].at = "run", IsCurrent(q, 4)', runner'[q].k > 1
      PROVE  Select("PIPELINE_ROLE", Staging) \in granted'
    <2>1. runner'[q] = runner[q]
        BY <1>1
    <2>2. QED
        BY <1>1, <2>1 DEF ReadInv, IsCurrent
<1>2. QED
    BY <1>1 DEF ReadInv

LEMMA RecordReads ==
    ASSUME Script = RepositoryScript, SchemaInv, ReadInv,
           NEW r \in Runners, NEW v \in Versions, Record(r, v)
    PROVE  ReadInv'
<1>1. tables' = tables /\ granted' = granted /\ recorded' = recorded \cup {v}
      /\ IsCurrent(r, v) /\ runner[r].at = "run" /\ runner[r].k = Len(Script[v]) + 1
    BY DEF Record, database
<1>2. \A q \in Runners : runner'[q] = runner[q] \/ runner'[q].at = "idle" \/ runner'[q].k = 1
    BY DEF Record, SchemaInv, SchemaTypeOK, Idle
<1>3. v = 4 => Select("PIPELINE_ROLE", Staging) \in granted
    BY <1>1, ScriptText DEF ReadInv, V004
<1>4. ASSUME NEW q \in Runners, runner'[q].at = "run", IsCurrent(q, 4)', runner'[q].k > 1
      PROVE  Select("PIPELINE_ROLE", Staging) \in granted'
    <2>1. runner'[q] = runner[q]
        BY <1>2, <1>4
    <2>2. QED
        BY <1>1, <1>4, <2>1 DEF ReadInv, IsCurrent
<1>5. QED
    BY <1>1, <1>3, <1>4 DEF ReadInv

LEMMA NextReads ==
    ASSUME Script = RepositoryScript, SchemaInv, ReadInv, SchemaNext
    PROVE  ReadInv'
<1>1. CASE Rbac
    BY <1>1, OtherReads DEF Rbac
<1>2. ASSUME NEW r \in Runners, Start(r) PROVE ReadInv'
    BY <1>2, OtherReads DEF Start, SchemaInv, SchemaTypeOK, database
<1>3. ASSUME NEW r \in Runners, NEW v \in Versions, Die(r) \/ Raise(r, v) PROVE ReadInv'
    BY <1>3, OtherReads DEF Die, Raise, Idle, SchemaInv, SchemaTypeOK, database
<1>4. ASSUME NEW r \in Runners, NEW v \in Versions, Execute(r, v) \/ Record(r, v) PROVE ReadInv'
    BY <1>4, ExecuteReads, RecordReads
<1>5. 1 \in Versions
    BY ScriptText
<1>6. QED
    BY <1>1, <1>2, <1>3, <1>4, <1>5 DEF SchemaNext

\* "close the 'new table is invisible' gap": with the repository's scripts,
\* every reader reads every table once all of them are recorded, for any number
\* of runners, and of tables created between interrupted runs.
THEOREM EveryTableIsRead ==
    ASSUME Script = RepositoryScript PROVE Spec => []ReadersSeeEveryTable
<1>1. Init => SchemaInv /\ ReadInv
    <2>1. Init => ReadInv
        BY DEF Init, SchemaInit, ReadInv, Idle, Fact, Staging
    <2>2. QED
        BY <2>1, SchemaInitInv DEF Init
<1>2. SchemaInv /\ ReadInv /\ [Next]_vars => (SchemaInv /\ ReadInv)'
    <2> SUFFICES ASSUME SchemaInv, ReadInv, [Next]_vars PROVE (SchemaInv /\ ReadInv)'
        OBVIOUS
    <2>1. CASE SchemaNext
        BY <2>1, SchemaNextInv, NextReads
    <2>2. CASE UNCHANGED schemaVars
        BY <2>2, SchemaStutters, OtherReads DEF schemaVars
    <2>3. QED
        BY <2>1, <2>2 DEF Next, vars
<1>3. SchemaInv /\ ReadInv => ReadersSeeEveryTable
    <2> SUFFICES ASSUME SchemaInv, ReadInv, recorded = Versions
                 PROVE  \A r \in Readers, t \in tables : <<r, "SELECT", t>> \in granted
        BY DEF ReadersSeeEveryTable
    <2>1. 2 \in Versions /\ 4 \in Versions
        BY ScriptText
    <2>2. /\ Select("BI_ROLE", Fact) \in granted /\ Select("AGENT_ROLE", Fact) \in granted
          /\ Select("PIPELINE_ROLE", Fact) \in granted
        BY <2>1, InEffectText DEF SchemaInv, AppliedUpToN
    <2>3. QED
        BY <2>1, <2>2 DEF ReadInv, Readers, Select
<1>4. QED
    BY <1>1, <1>2, <1>3, PTL DEF Spec

-----------------------------------------------------------------------------
(* Loads *)

FileRows == UNION {Files[i] : i \in 1 .. Len(Files)}

\* A transaction keeps the number of rows it began with, or gets its first.
RowsInv ==
    /\ ReplayTypeOK
    /\ OneRowPerTransaction

LEMMA UpsertedRows ==
    ASSUME NEW rows \in Seq(Nat), NEW at \in Nat
    PROVE  /\ Upserted(rows, at) \in Seq(Nat)
           /\ Upserted(rows, at) # <<>>
           /\ DOMAIN Upserted(rows, at) = IF rows = <<>> THEN {1} ELSE DOMAIN rows
           /\ Len(Upserted(rows, at)) = IF rows = <<>> THEN 1 ELSE Len(rows)
           /\ \A j \in DOMAIN Upserted(rows, at) : Upserted(rows, at)[j] = at
<1>1. CASE rows = <<>>
    BY <1>1 DEF Upserted
<1>2. CASE rows # <<>>
    <2> DEFINE n == Len(rows)
               new == [i \in 1 .. n |-> at]
    <2>1. DOMAIN rows = 1 .. n /\ n \in Nat /\ n # 0
        BY <1>2
    <2>2. new \in Seq(Nat) /\ Len(new) = n /\ DOMAIN new = 1 .. n
        BY <2>1
    <2>3. Upserted(rows, at) = new
        BY <1>2, <2>1 DEF Upserted
    <2>4. new # <<>>
        BY <2>1, <2>2
    <2>5. \A j \in DOMAIN new : new[j] = at
        OBVIOUS
    <2> HIDE DEF new, n
    <2>6. QED
        BY <1>2, <2>1, <2>2, <2>3, <2>4, <2>5 DEF n
<1>3. QED
    BY <1>1, <1>2

\* What the MERGE leaves in the fact table.
LEMMA MergeRows ==
    ASSUME ReplayTypeOK, MergeEffect
    PROVE  \E at \in [Txns -> Nat] :
              /\ \A t \in Txns : StagedAt(t) # {} => IsKept(t, at[t])
              /\ fact' = [t \in Txns |-> IF StagedAt(t) = {} THEN fact[t]
                                       ELSE Upserted(fact[t], at[t])]
<1> DEFINE keys == {row.txn : row \in staged}
<1>1. PICK kept \in [keys -> {row.at : row \in staged}] :
          /\ \A t \in DOMAIN kept : IsKept(t, kept[t])
          /\ fact' = [t \in Txns |-> IF t \in DOMAIN kept THEN Upserted(fact[t], kept[t])
                                    ELSE fact[t]]
    BY DEF MergeEffect
<1>2. \A row \in staged : row.at \in Nat /\ row.txn \in Txns
    BY DEF ReplayTypeOK
<1>3. \A t \in Txns : t \in keys <=> StagedAt(t) # {}
    BY DEF StagedAt
<1>4. DOMAIN kept = keys /\ \A t \in keys : kept[t] \in Nat
    BY <1>2
<1> DEFINE at == [t \in Txns |-> IF t \in keys THEN kept[t] ELSE 0]
<1>5. at \in [Txns -> Nat]
    BY <1>4
<1>6. \A t \in Txns : StagedAt(t) # {} => IsKept(t, at[t])
    BY <1>1, <1>3, <1>4
<1>7. fact' = [t \in Txns |-> IF StagedAt(t) = {} THEN fact[t] ELSE Upserted(fact[t], at[t])]
    BY <1>1, <1>3, <1>4
<1> HIDE DEF at
<1>8. QED
    BY <1>5, <1>6, <1>7

LEMMA MergeKeepsRows ==
    ASSUME RowsInv, MergeEffect
    PROVE  /\ fact' \in [Txns -> Seq(Nat)]
           /\ \A t \in Txns : Len(fact'[t]) \in
                 {appended[t]} \cup (IF appended[t] = 0 THEN {1} ELSE {})
<1>1. ReplayTypeOK
    BY DEF RowsInv
<1>2. PICK at \in [Txns -> Nat] :
              fact' = [t \in Txns |-> IF StagedAt(t) = {} THEN fact[t]
                                       ELSE Upserted(fact[t], at[t])]
    BY <1>1, MergeRows
<1>3. ASSUME NEW t \in Txns
      PROVE  /\ fact'[t] \in Seq(Nat)
             /\ Len(fact'[t]) \in {appended[t]} \cup (IF appended[t] = 0 THEN {1} ELSE {})
    <2>1. fact[t] \in Seq(Nat) /\ at[t] \in Nat
        BY <1>1 DEF ReplayTypeOK
    <2>2. Len(fact[t]) \in {appended[t]} \cup (IF appended[t] = 0 THEN {1} ELSE {})
        BY DEF RowsInv, OneRowPerTransaction
    <2>3. fact[t] = <<>> <=> Len(fact[t]) = 0
        BY <2>1
    <2>4. fact'[t] = IF StagedAt(t) = {} THEN fact[t] ELSE Upserted(fact[t], at[t])
        BY <1>2
    <2>5. appended[t] \in Nat
        BY <1>1 DEF ReplayTypeOK
    <2>6. QED
        BY <2>1, <2>2, <2>3, <2>4, <2>5, UpsertedRows
<1>4. QED
    BY <1>2, <1>3

LEMMA FilesType ==
    /\ Len(Files) \in Nat
    /\ \A i \in 1 .. Len(Files) : Files[i] \subseteq [txn : Txns, at : Nat]
BY FilesAssumption

LEMMA CopyType ==
    ASSUME ReplayTypeOK, next <= Len(Files)
    PROVE  /\ next + 1 \in 1 .. Len(Files) + 1
           /\ staged \cup Files[next] \subseteq [txn : Txns, at : Nat]
BY FilesType DEF ReplayTypeOK

LEMMA ReplayRows == RowsInv /\ ReplayNext => RowsInv'
<1> SUFFICES ASSUME RowsInv, ReplayNext PROVE RowsInv'
    OBVIOUS
<1>1. ReplayTypeOK
    BY DEF RowsInv
<1>2. CASE Copy \/ Snowpipe
    BY <1>1, <1>2, CopyType DEF Copy, Snowpipe, CopyFile, RowsInv, ReplayTypeOK,
       OneRowPerTransaction, LoaderStates
<1>3. CASE LoaderDies
    BY <1>1, <1>3, CopyType DEF LoaderDies, RowsInv, ReplayTypeOK, OneRowPerTransaction,
       LoaderStates
<1>4. CASE Truncate \/ Wake \/ LoaderRestarts \/ MergeRefused
    BY <1>1, <1>4 DEF Truncate, Wake, LoaderRestarts, MergeRefused, RowsInv, ReplayTypeOK,
       OneRowPerTransaction, LoaderStates
<1>5. CASE Merge \/ MergeRaises
    <2>1. UNCHANGED <<copier, next, staged, appended>> /\ loader' \in LoaderStates
        BY <1>5 DEF Merge, MergeRaises, LoaderStates
    <2>2. CASE MergeEffect
        BY <1>1, <2>1, <2>2, MergeKeepsRows DEF RowsInv, ReplayTypeOK, OneRowPerTransaction
    <2>3. CASE UNCHANGED fact
        BY <1>1, <2>1, <2>3 DEF RowsInv, ReplayTypeOK, OneRowPerTransaction
    <2>4. QED
        BY <1>5, <2>2, <2>3 DEF Merge, MergeRaises
<1>6. QED
    BY <1>2, <1>3, <1>4, <1>5 DEF ReplayNext

LEMMA RowsStutter == RowsInv /\ UNCHANGED replayVars => RowsInv'
BY DEF RowsInv, replayVars, ReplayTypeOK, OneRowPerTransaction

LEMMA RowsInit == ReplayInit => RowsInv
<1> SUFFICES ASSUME ReplayInit PROVE RowsInv
    OBVIOUS
<1>1. appended \in [Txns -> Nat]
    BY DEF ReplayInit
<1>2. ASSUME NEW t \in Txns
      PROVE  fact[t] \in Seq(Nat) /\ Len(fact[t]) = appended[t]
    <2>1. appended[t] \in Nat /\ fact[t] = [i \in 1 .. appended[t] |-> 0]
        BY <1>1 DEF ReplayInit
    <2>2. QED
        BY <2>1
<1>3. fact \in [Txns -> Seq(Nat)]
    BY <1>2 DEF ReplayInit
<1>4. OneRowPerTransaction
    BY <1>2 DEF OneRowPerTransaction
<1>5. QED
    BY <1>1, <1>3, <1>4, FilesType DEF ReplayInit, RowsInv, ReplayTypeOK, LoaderStates

\* "a restart / backfill / reprocess" re-emits transactions: for any files and
\* any order of copies, merges, failures and retries, none gets a second row.
THEOREM NoDuplicateRow == Spec => []OneRowPerTransaction
<1>1. Init => RowsInv
    BY RowsInit DEF Init
<1>2. RowsInv /\ [Next]_vars => RowsInv'
    BY ReplayRows, RowsStutter DEF Next, vars
<1>3. RowsInv => OneRowPerTransaction
    BY DEF RowsInv
<1>4. QED
    BY <1>1, <1>2, <1>3, PTL DEF Spec

-----------------------------------------------------------------------------

\* Of the rows copied so far: those no longer staged are folded and no newer
\* than a staged one of their transaction; after a MERGE the staged ones are
\* folded too.
FoldInv ==
    copier = "loader" =>
        /\ NothingLost
        /\ \A i \in 1 .. next - 1 : \A old \in Files[i] : \A new \in staged :
              old \notin staged /\ old.txn = new.txn => old.at <= new.at
        /\ loader = "truncate" => \A row \in staged : Folded(row)

KeptInv == RowsInv /\ FoldInv

LEMMA CopyFolds ==
    ASSUME InOrder, RowsInv, FoldInv, CopyFile, fact' = fact, loader' # "truncate"
    PROVE  FoldInv'
<1>1. next \in 1 .. Len(Files) /\ Len(Files) \in Nat
    BY FilesType DEF CopyFile, RowsInv, ReplayTypeOK
<1>2. next' = next + 1 /\ staged' = staged \cup Files[next] /\ copier' = copier
    BY DEF CopyFile
<1>3. SUFFICES ASSUME copier = "loader" PROVE FoldInv'
    BY <1>2 DEF FoldInv
<1>4. \A i \in 1 .. next' - 1 : i \in 1 .. next - 1 \/ i = next
    BY <1>1, <1>2
<1>5. \A row : Folded(row) => Folded(row)'
    BY DEF Folded
<1>6. NothingLost'
    BY <1>2, <1>3, <1>4, <1>5 DEF FoldInv, NothingLost
<1>7. ASSUME NEW i \in 1 .. next' - 1, NEW old \in Files[i], NEW new \in staged',
             old \notin staged', old.txn = new.txn
      PROVE  old.at <= new.at
    <2>1. i \in 1 .. next - 1
        BY <1>2, <1>4, <1>7
    <2>2. CASE new \in staged
        BY <1>2, <1>3, <1>7, <2>1, <2>2 DEF FoldInv
    <2>3. CASE new \in Files[next]
        BY <1>1, <1>7, <2>1, <2>3 DEF InOrder
    <2>4. QED
        BY <1>2, <2>2, <2>3
<1>8. QED
    BY <1>6, <1>7 DEF FoldInv

LEMMA MergeFolds ==
    ASSUME RowsInv, FoldInv, MergeEffect, copier = "loader",
           UNCHANGED <<copier, next, staged>>
    PROVE  FoldInv' /\ \A row \in staged : Folded(row)'
<1>1. ReplayTypeOK
    BY DEF RowsInv
<1>2. PICK at \in [Txns -> Nat] :
              /\ \A t \in Txns : StagedAt(t) # {} => IsKept(t, at[t])
              /\ fact' = [t \in Txns |-> IF StagedAt(t) = {} THEN fact[t]
                                       ELSE Upserted(fact[t], at[t])]
    BY <1>1, MergeRows
<1>3. \A t \in Txns : StagedAt(t) # {} =>
          fact'[t] # <<>> /\ \A j \in DOMAIN fact'[t] : fact'[t][j] = at[t]
    BY <1>1, <1>2, UpsertedRows DEF ReplayTypeOK
<1>4. \A row \in staged : row.txn \in Txns /\ row.at \in StagedAt(row.txn)
    BY <1>1 DEF StagedAt, ReplayTypeOK
<1>5. ASSUME NEW row \in staged PROVE Folded(row)'
    BY <1>2, <1>3, <1>4 DEF Folded, IsKept
<1>6. ASSUME NEW i \in 1 .. next - 1, NEW old \in Files[i], old \notin staged
      PROVE  Folded(old)'
    <2>1. Folded(old)
        BY <1>6 DEF FoldInv, NothingLost
    <2>2. old.txn \in Txns /\ old.at \in Nat
        <3>1. i \in 1 .. Len(Files)
            BY <1>1, FilesType DEF ReplayTypeOK
        <3>2. QED
            BY <3>1, FilesType
    <2>3. CASE StagedAt(old.txn) = {}
        BY <1>2, <2>1, <2>2, <2>3 DEF Folded
    <2>4. CASE StagedAt(old.txn) # {}
        <3>1. PICK new \in staged : new.txn = old.txn /\ new.at = at[old.txn]
            BY <1>2, <2>2, <2>4 DEF IsKept, StagedAt
        <3>2. old.at <= at[old.txn]
            BY <1>6, <3>1 DEF FoldInv
        <3>3. QED
            BY <1>3, <2>2, <2>4, <3>2 DEF Folded
    <2>5. QED
        BY <2>3, <2>4
<1>7. NothingLost'
    BY <1>6 DEF NothingLost
<1>8. QED
    BY <1>5, <1>7 DEF FoldInv

LEMMA ReplayFolds == InOrder /\ KeptInv /\ ReplayNext => FoldInv'
<1> SUFFICES ASSUME InOrder, KeptInv, ReplayNext PROVE FoldInv'
    OBVIOUS
<1>0. copier' = copier
    BY DEF ReplayNext, Copy, Snowpipe, CopyFile, LoaderDies, Truncate, Merge,
       MergeRaises, MergeRefused, Wake, LoaderRestarts
<1> SUFFICES ASSUME copier = "loader" PROVE FoldInv'
    BY <1>0 DEF FoldInv
<1> USE DEF KeptInv
<1>1. CASE Copy
    BY <1>1, CopyFolds DEF Copy, CopyFile
<1>2. CASE Truncate \/ (LoaderDies /\ loader = "truncate" /\ staged' = {})
    <2>1. staged' = {} /\ UNCHANGED <<copier, next, fact>> /\ loader = "truncate"
          /\ loader' # "truncate"
        BY <1>2, Zenon DEF Truncate, LoaderDies
    <2>2. NothingLost'
        BY <2>1 DEF FoldInv, NothingLost, Folded
    <2>3. QED
        BY <2>1, <2>2 DEF FoldInv
<1>3. CASE LoaderDies /\ ~(loader = "truncate" /\ staged' = {})
    <2>1. loader' # "truncate" /\ fact' = fact /\ copier' = copier
        BY <1>3 DEF LoaderDies
    <2>2. CASE UNCHANGED <<next, staged>>
        BY <2>1, <2>2 DEF FoldInv, NothingLost, Folded
    <2>3. CASE next <= Len(Files) /\ staged' = staged \cup Files[next] /\ next' = next + 1
        BY <1>3, <2>1, <2>3, CopyFolds DEF CopyFile, LoaderDies
    <2>4. QED
        BY <1>3, <2>2, <2>3 DEF LoaderDies
<1>4. CASE LoaderRestarts \/ MergeRefused \/ (MergeRaises /\ UNCHANGED fact)
    <2>1. UNCHANGED <<copier, next, staged, fact>> /\ loader' # "truncate"
        BY <1>4 DEF LoaderRestarts, MergeRefused, MergeRaises
    <2>2. QED
        BY <2>1 DEF FoldInv, NothingLost, Folded
<1>5. CASE Merge \/ (MergeRaises /\ MergeEffect)
    BY <1>5, MergeFolds DEF Merge, MergeRaises
<1>6. CASE Snowpipe \/ Wake
    BY <1>6 DEF Snowpipe, Wake
<1>7. MergeRaises => (MergeRaises /\ MergeEffect) \/ (MergeRaises /\ UNCHANGED fact)
    BY DEF MergeRaises
<1>8. CASE LoaderDies
    BY <1>2, <1>3, <1>8
<1>9. CASE Merge \/ MergeRaises
    BY <1>4, <1>5, <1>7, <1>9
<1>10. QED
    BY <1>1, <1>2, <1>4, <1>6, <1>8, <1>9 DEF ReplayNext

\* "a failed merge leaves the staged data for retry", "latest wins": a loader
\* that copies, merges and truncates, and may die anywhere, loses nothing of
\* files whose rows come in the order they were computed.
THEOREM LatestKept == ASSUME InOrder PROVE Spec => []LatestIsKept
<1>1. Init => KeptInv
    BY RowsInit DEF Init, KeptInv, FoldInv, ReplayInit, NothingLost
<1>2. KeptInv /\ [Next]_vars => KeptInv'
    <2> SUFFICES ASSUME KeptInv, [Next]_vars PROVE KeptInv'
        OBVIOUS
    <2>1. CASE ReplayNext
        BY <2>1, InOrder, ReplayRows, ReplayFolds DEF KeptInv
    <2>2. CASE UNCHANGED replayVars
        BY <2>2, RowsStutter DEF KeptInv, FoldInv, replayVars, NothingLost, Folded
    <2>3. QED
        BY <2>1, <2>2 DEF Next, vars
<1>3. KeptInv => LatestIsKept
    BY DEF KeptInv, FoldInv, LatestIsKept
<1>4. QED
    BY <1>1, <1>2, <1>3, PTL DEF Spec
=============================================================================
