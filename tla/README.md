# The fraud-decisioning platform in TLA+

This directory specifies the parts of the platform (`src/fraud_platform/`) whose
correctness depends on *order*: which call commits before which, who reads what
somebody else is about to change, and what is left when a process dies between two
calls. Each part is a TLA+ module translated from the Python, TLC checks it on small
instances, and TLAPS proves the properties that matter most for every instance.

Contents: [the system](#the-system) · [modules](#modules-and-what-they-stand-for) ·
[runs](#what-is-checked) · [disagreements](#where-the-code-and-its-documents-disagree) ·
[fairness](#fairness) · [proofs](#what-is-proved) ·
[not modelled](#what-is-not-modelled) · [plan](#plan) · [how to run](#how-to-run-it)

## The system

Synthetic card transactions flow through a streaming engine into an online store and
a history; a team of LLM agents decides the suspicious ones; decisions below the
autonomy floor wait for a human; and a workflow engine runs plans over the resulting
data, once, on events, or on a schedule. Beside them stand a single agent that decides
one snapshot in a loop of tool calls, the knowledge base of fraud policies both kinds of
agent search, and the migrations and loads of the warehouse's schema.

```
 generator --Kafka--> feature engine --> Redis (online features, velocity, baseline)
                           |    \-----> Snowflake FACT_FEATURE_SNAPSHOTS
                           |             (direct, or S3 files + Snowpipe)
                           v
       eval_runner --> agent team (router, 3 specialists, decision) --> tier
            |                                                            |
            +--> FACT_DECISIONS, AUDIT_TRACES, scores <--- reviewers (HITL inbox)
                                |
       workflow engine: request -> plan -> feasibility -> approval -> run -> outbox
                        scheduler: due fires -> report runs

 documents --> chunks --> Qdrant collection <-- get_policy_context <-- single agent
 V001..V004 --> FEATURES schema;  S3 files --> staging --MERGE--> FACT_FEATURE_SNAPSHOTS
```

| component | state it keeps | operations | hard behaviour | what makes it correct |
|---|---|---|---|---|
| workflow store (`workflow_engine/state.py`) | SQLite tables `workflows`, `workflow_runs`, `step_results`, `outbox`; per process one connection and its transaction | one commit per method; `transition` is a read and a later write | handlers of several threads interleave between commits; a statement that fails leaves the transaction, and the file's lock, behind | a run's rows tell one story; one run per period |
| workflow API, executor (`api.py`, `executor.py`) | nothing but the store: locals of the request's thread | create, approve, execute, event, deliver | crash between two commits; two requests on one workflow | no plan runs unchecked or unapproved; logs ordered; effects match logs; RUNNING ends |
| scheduler (`scheduler.py`) | jobs in memory, per process | register, reload, fire, pause, resume | two processes fire the same period; pause races a fire; restart | no duplicate report; RUNNING ends; jobs survive restarts |
| schedules (`schedule.py`) | none (a function of time) | next fire, run key, window | local zone vs UTC key, late fires, DST | windows meet; a due day is reported once |
| planner, feasibility, executor's data flow | the plan; results and skips of one run | check, resolve, guard, skip, run | plans are written by a model: any numbers and references | a feasible plan never reads what is not there |
| agent team (`agents/multi_agent/`) | a checkpointed blackboard per thread id | route, work, decide | any answer of the router's model; node failures; threads reused | decisions grounded in policy; a thread is decided once; it ends |
| single agent (`agents/single_agent/`) | the messages of each thread, in a MemorySaver | evaluate, call the model, run its tools, finalize | the cap counts the *thread's* messages; an evaluation that raised leaves them, and an open tool call, behind | it ends; a call is left open only by the cap, or by what raised before |
| feature engine (`stream_processing/feature_engine.py`, `scoring.py`) | Spark checkpoint; Redis; S3 buffer in memory | micro-batch: read, score, write online, write history, commit | death between any two writes, replays, late events, keys that expire | history kept; nothing stored twice; no false geo flags |
| velocity query (`velocity_engine.py`, same file) | Spark window state and checkpoint; Redis keys | micro-batch: count, write, commit | replayed batches, late rows, watermark shared by all users, last write wins | open windows exact; flags earned; no live row late |
| transaction generator (`data_generator/`) | producer queue, burst thread, backfill batch | send, burst, flush, collect, close | burst thread beside the main loop, one flush for both, lost deliveries | a live burst is seen; a backfill is whole |
| governance and review (`governance/`, `db/validators.py`) | `FACT_DECISIONS` rows, reviewers' inboxes | tier, insert, list, review | two reviewers on one decision; lost acknowledgements | a recorded review stands |
| evaluation batch (`observability/eval_runner.py`, `audit_logger.py`) | rows it has written so far | sample, decide, persist, trace, score, summarise | a call fails or the process dies between two commits | the summary counts only what is durable |
| retrieval (`retrieval/chunker.py`, `ingest.py`) | the Qdrant collection | chunk, delete, create, upload, search | three separate calls and no lock: a death, an edit or a search in between | chunks fit the model and keep the words; a search finds one edition |
| migrations (`db/migrate.py`, `src/snowflake/migrations/`) | `SCHEMA_MIGRATIONS`, tables, grants | read what is applied, run each script's statements, record it | autocommit: every statement stands alone; runners overlap, die, come from other releases, meet missing roles | what is recorded is in effect; every reader sees every table |
| replay (`db/replay.py`) | staging table, fact table | copy, merge, truncate | a MERGE that raised may have happened; Snowpipe copies beside the loader | one row per transaction, the latest |
| database roles (`src/snowflake/rbac.sql`, run by hand) | roles and grants | create the roles, grant on the tables of now | run before, between or after the migrations, or not yet | see migrations |

How they interact: the generator and the engine share only the topic; the engine and
the agents share Redis and the snapshots table; the batch and the reviewers share
`FACT_DECISIONS`; the API's handlers, its event endpoint and the scheduler share the
workflow store and call one executor; an ingest and the agents share the collection; the
migrations' runners and the loader share the FEATURES schema. There is no other shared
memory, so each of these interfaces is where two components are composed (in one module, by
interleaving).
The complete list, with the parts left out, is in `PROJECT.json` under `components`;
each hard behaviour is listed under `hazards` at its line.

## Modules and what they stand for

### Workflow engine

* `WorkflowStates`: the states and `ALLOWED_TRANSITIONS` (`state.py:60-75`), and the
  states `_arm` and `workflows_for_trigger` accept.
* `WorkflowStore`: the rows and one operator per committing method. A plan is reduced
  to what the engine branches on (`none`, `infeasible`, `auto`, `approval`), a run to
  its workflow, period key, status and the status of each step.
* `WorkflowEngine`: every handler that changes a stored workflow, **one step per
  commit**, and per read whose answer a later call uses. `pc[t]`/`loc[t]` are the next
  call and the locals of thread `t`. `transition()` is `TransitionCheck` then
  `TransitionWrite`, because `state.py:320-331` reads, decides in Python and issues an
  unconditional UPDATE. A `Crash` loses the process's threads and jobs; a `Restart`
  is the lifespan handler, whose `reload()` reads the persisted schedules and then
  registers them one by one (`ReloadNext`), while jobs already registered may fire and the
  other process goes on.
  Each process has one connection. `sqlite3` opens a transaction at the first INSERT or
  UPDATE, and only `checkpoint_step` rolls back when a statement fails, so `txn` says what a
  failed one left: a held write lock after a duplicate's INSERT was refused (`"write"`,
  in `Start`), a pending one after a COMMIT met a reader (`"pending"`), or a transaction
  that reads with a shared lock (`"open"`). Each lasts until the process's next commit.
  A call that meets the lock of another process raises "database is locked": the `Refuse*`
  actions and the second branch of `Commits`, which end the handler where the code does, or
  fail the step when it was the tool's. `refused` remembers at which workflows.
  Time is counted in half periods, so that a fire and its period's end are apart.
* `WorkflowProperties`: the properties. `WorkflowInvariants`: the inductive invariants.
* `ReportLedger`: the abstract specification of the scheduler's header ("NO DUPLICATE
  REPORTS"): each notification of a (workflow, period) gets at most one sender, ever.
  `WorkflowProperties!Ledger` is the refinement mapping (senders read off the outbox
  and the run keys).
* `PlanRun`: what `WorkflowEngine` abstracts of a plan. `check_plan`'s verdict, then
  `Executor.execute` over the steps: guards, references, skips and the row of each.
  `WorkflowEngine` numbers steps 1..NumSteps, all distinct; `PlanRun` lets the model
  repeat numbers and shows what follows.
* `SchedulePeriods`: what `WorkflowEngine` abstracts of time: local fire hours, the UTC
  run key and window, grace and DST. Of several missed fires the latest runs, if within grace.

### Agents, stream and decisions

* `AgentTeam`: the supervisor graph, one action per specialist. `RouteByModel` lets the
  model answer *any* agent and applies the code's guardrails; `invoked` is
  `agents_invoked` with its appending reducer, which the MemorySaver keeps per thread,
  while `board` is reset by `evaluate()`. `Evaluations` is the batch's list of threads:
  `eval_runner.py:287` names the thread after the transaction, so a transaction sampled twice
  is a thread used twice. `Raise` is an exception of any node; it ends the batch.
* `FeatureEngine`: the main query for one user. One action per effect of
  `process_batch`: compute against the baseline read once, write Redis, write history
  (`Insert`, or `AddBatch`/`Flush` in snowpipe mode), commit. Spark's checkpoint is
  `planned` and `committed`: what was planned and not committed is run again with the
  same offsets. `Die` is possible anywhere; `DieAfterWrite` is a write that took effect
  and raised. `Forget` is a key that expired (24 hours) or was evicted (allkeys-lru), and
  a read of `LastLocations` may fail open. Places are classes of points that are not a
  jump apart, so the geo hard rule is "another known place, later than the baseline".
  `blind` remembers that a fraud's row was scored while no baseline was read.
* `DecisionLedger`: the decisions table, the evaluation batch that writes it and the
  reviewers that act on inboxes read earlier. Every call may raise before or after it
  took effect. A review is the one conditional UPDATE of `hitl_handler.py`, of any decision
  not reviewed yet: an inbox is where a reviewer looks, not a condition of the call.

### The single agent and the policies it searches

* `Chunker`: how one section becomes chunks. A word is `<<paragraph, position>>`, so that a
  lost, repeated or reordered word shows; a section is the length of its heading and of
  its paragraphs, which is all `split_section` looks at. The overhead every chunk repeats,
  the paragraph-wise packing and the hard split of an overlong paragraph are the code's.
* `KnowledgeBase`: `ingest.main()` call by call. All documents are read and chunked first
  (a document without a title ends the run before anything is touched); then the collection
  is deleted, looked for, created and filled, separate calls on a server that others search.
  `Upload` needs the collection to exist, for it is another process that may have deleted it.
  `Edit` changes a document at any time, `IngestDies` ends an ingest anywhere.
* `SingleAgent`: the graph's three nodes for the evaluations of one process, one after the
  other. `spoken` and `unanswered` are what the MemorySaver keeps of a thread; an evaluation
  that raises in any node ends with both as they are. That a tool's exception ends the
  evaluation is how the pinned `langgraph` behaves (its ToolNode re-raises what is not a
  wrong call).
* `PolicySearch`: both. `get_policy_context` raises while there is no collection.

### The warehouse's schema and its loads

* `SchemaMigrations`: `apply_all` for any number of runners. A script is a sequence of
  statements (a column, a table, a grant on all or on future tables); `RepositoryScript` is
  V001 to V004 as far as they are about this schema. The session commits by itself, so one
  step is one statement, and the row in `SCHEMA_MIGRATIONS` is a later one. A runner decides
  once, from what it read, which versions it owes. A runner may be an older checkout that
  knows fewer scripts, and the roles are created by hand, at any time, or missing.
* `FeatureReplay`: the MERGE (`IsKept`, `Upserted`) over a staging table. The loader around it
  is external: it is the one `replay.py`'s docstring and `docs/REPLAY_STRATEGY.md`
  describe. `merge` may raise after it took effect and is tried again.
* `Warehouse`: both. There is a table to copy into once V003 ran, and the MERGE compiles once
  V001 ran too (`CanStage`, `CanMerge`).

### Generator, topic and velocity query

* `TransactionTopic`: the Kafka topic, one partition per user (the message key), because
  nothing orders two users for a reader of several partitions. Event times are counted
  in slides (minutes).
* `TransactionStream`: the generator. `pc[Main]` and `pc[Injector]` are the main loop, or
  the backfill, and the daemon burst thread. `_produce` is `Enqueue` into librdkafka's
  queue; `Deliver` and `Expire` are what librdkafka does with it (a message that was stored
  though its acknowledgement was lost is a `Deliver`: the code looks at neither);
  `FlushReturns` waits for an empty queue, the other thread's messages included. `Tick`
  respects what the code bounds: `message.timeout.ms`, and the pauses between a burst's rows.
* `VelocityQuery`: the streaming count. Of Spark it keeps what the query is exposed to:
  a batch is planned, handed to the sink, committed; a batch planned and not committed is
  run again with the same offsets from the last committed state; state is dropped and rows
  are late by two watermarks, one batch apart. `LastWritten` is any of a user's updated
  windows, because all are written to one key in the order a shuffle left them.
* `StreamPipeline`: both around the topic, by interleaving; `QuerySpec` is the query
  beside *any* producer, which the pipeline refines.

`MC*` modules hold the constants of the instances, and nothing else.

## What is checked

| run | question | instance | why it is enough |
|---|---|---|---|
| `wf_concurrent` | do runs, checkpoints, notifications and outcomes agree when two requests race on one workflow and the process dies anywhere? does an unchecked or unapproved plan run? is anything left RUNNING when nothing dies? | 2 threads of 1 process, 1 workflow, 3 runs, 2 steps (the second notifies), 1 crash | every hazard is a pair of handlers or a handler and a crash; two steps separate "first", "later" and "notifying" |
| `wf_schedule` | one report per period, from two processes on one database file, with pause, resume, crash and reload? does the engine implement `ReportLedger`? does RUNNING end? | 2 processes of 1 thread, 1 workflow, clock to 2 (half periods), 2 runs, 1 crash, fair threads, no symmetry | both jobs fall due at tick 1; a fire that comes at tick 2 is stamped with the second period, so two fires of one period and two of different ones both occur, with a run each |
| `plan_data_flow` | does the checker agree with the executor? | every plan of up to 3 permitted steps over 3 numbers, listings and repetitions included, 2-step plans with ill-formed steps, one plan over the limit | a reference, what it names and what lies between are three steps |
| `sched_periods` | one report per due day? do the windows of neighbouring days meet? | 3 processes, 4 days of 6 hours, grace 2 | neighbouring days, and a day with neighbours on both sides |
| `stream_engine` | history, online store and flags through crashes, replays, lost keys and reads, both modes | 5 topics of 4 rows, batches of up to 2, 3 starts | two batches and a flush between them; a batch replayed twice |
| `stream_pipeline` | are counts exact and earned through replays? is a live row ever late? is a burst seen, a backfill whole? | 2 users, 1 burst of 2 rows (threshold 1), windows of 2 slides, lead, span and timeout of 1 slide each against a delay of 3, clock to 3, batches of 2, 1 stop | a burst spans two windows; two users' clocks drift as far apart as the bounds let them; a batch is split and replayed |
| `team_batch` | grounded, one decision per thread, ends, whatever the model answers? | a sample of 3, the third the transaction of the first; cap 6 (the code's) | all answers at every turn, on new threads and on a used one |
| `decisions` | do reviews stand, is the summary true? | 2 snapshots, 4 answers (one per tier and an invalid one), 2 reviewers, 2 batches, 2 rows | a second batch writes beside reviewers with stale inboxes, each of whom may review the same row |
| `warehouse` | is what is recorded in effect, whoever else migrates? is there one row, the latest, per transaction? | 2 runners, the 4 scripts of the repository, 2 files over 2 transactions: the second replays a row of the first; rows of before for either | two runners have every overlap of one script; a replayed row and a new one are both in a MERGE |
| `policy_search` | do chunks fit and keep the words? what can a search find? does the agent end? | 1 ingest that dies and starts again, 2 files of 3 and 2 versions, 1 edit, 2 evaluations on one thread with a cap of 2; every section of up to 3 paragraphs of 1 to 7 words under headings of 0 to 5 words, limit 8 | budgets from 5 words to none, paragraphs below, at and above each; a version without a title |

`CHECK_DEADLOCK FALSE` is set where the instance may really stop: a bound is reached
(ticks, runs, starts, batches, topics are finite) and no client asks for anything.
Symmetry is used in safety runs over run ids, workflows and reviewers, which the
specifications never order or name; the runs with liveness properties use none. No run
checks a module's `TypeOK`: each is proved, or part of an invariant that is.

Properties worth explaining:

* `OutcomeMatchesLog`, `EffectsMatchLog`, `LogInOrder` relate three tables written in
  separate commits. They hold although `transition()` races, because only the thread
  that opened a run writes its rows: the proofs make that argument precise.
* `NoLiveRowIsLate` is about *other* users: the watermark is the latest event time of
  anyone, less ten minutes. What keeps a slow user's rows in time is that a burst's rows
  lead its thread by at most 108 s (12 s for each of up to 9 delays), sending takes at most
  about 90 s and a message lives 300 s in the queue: `DelaySuffices` in the proofs.
* `BurstIsSeen` says that *some* update of the burst's user was over the threshold, which
  is all the code ensures: the key keeps whichever window was written last (see below).
* `NoStrandedWorkflow`: two executions race so that the state goes
  RUNNING, COMPLETED, RUNNING...; the last writer of RUNNING still has its own final
  transition ahead, so without crashes nothing stays RUNNING. A *run* may stay RUNNING
  without a crash: `start_run` committed and the transition behind it was refused.
  `StrandedRunIsBlank` says that such a run did nothing.
  Both, and `RunningSettles`, leave out the workflows in `refused`: a second process whose
  duplicate fire lost holds the write lock until it commits something, and a handler that
  meets it ends wherever it is. `NeverRefused` says when this cannot be (one process), and it
  is proved; in `wf_schedule` the provisos are exercised.
* `GateButForTheWindow` says how far the approval gate holds with everything racing and
  dying: there is one way round `approve()`, the window of `wf_gate_crash`, in which a
  workflow was at FEASIBLE when a handler armed it (`slipped`). A second request can use the
  window too; a crash only makes it last. `OnlyCheckedPlansRun` has no exception.
* What the repository's tests, which run one handler at a time, take for granted is more:
  `LegalEdges`, `ParkedUntilApproved`, `NoStrandedRun` and `PausedHasNoNextRun`. Two
  threads of one process are enough to break each of them (see below); no lock in the code
  prevents it.
* `WindowsMeet` is about reports sent late and across a change of the clock:
  `compute_window` counts back from the hour of the fire, so a gap is at most how late the
  later report was, an overlap how late the earlier one.
* `OneDecisionPerThread`: on a thread decided before, `agents_invoked` names the decision
  agent and every agent that ran for it. A second evaluation runs those the first left out, if
  any; then the router has nobody to fall back on and raises. Nothing is decided twice, or on
  policy guidance of another evaluation; the price is that the batch ends there.
* `OnlineIsNewest`, `NoFalseFlags`, `JumpsAreFlagged` are conditional on `Orderly`, a
  topic in event order with coordinates, and the last two on `~blind`: no fraud was scored
  while its baseline was expired, evicted or unread. Each proviso is needed: see below.
* `AppliedUpToN` is `migrate.py`'s "applied up to N": the recorded versions are 1 to N and
  every statement of them is in effect, although a second runner may run the same
  statements late: they are idempotent, and their order never undoes one.
  `ReadersSeeEveryTable` then says what V002 and V004 are for, tables born between two
  grants included.
* `LatestIsKept` is conditional on files copied in the order their rows were computed, and on
  a loader that is alone with its staging table. Both provisos are needed: see below.
* `CollectionIsAnEdition`: what a search finds comes from one version of each document, no
  chunk twice, also while an ingest is dead half-way; and no fewer chunks than the ingest
  reported inserted, all of what it read.
* `ToolsAnswered`: a decision leaves a tool call open only at the cap, which counts the
  messages of the *thread*, or on a thread where an evaluation raised before, whose open call
  stays. It is checked on a thread used twice, and proved for all.
* `HistoryCompletes` is claimed of direct mode alone. In snowpipe mode the rows of a
  quiet topic's last batches wait for a batch that does not come.

## Where the code and its documents disagree

Two runs are expected to fail; `PROJECT.json` quotes the lines (`findings`).

1. `wf_gate_crash`: `create_workflow` commits FEASIBLE and AWAITING_APPROVAL apart. A
   crash between them leaves a workflow that needs approval in a state `execute()` arms.
   Without a crash a second request that comes in between does the same (`wf_concurrent.cfg`
   with `MaxCrashes = 0` and `ApprovalGate`).
2. `stream_false_flags`: a fraud's event that arrives late has its distance nulled by the
   ordering guard, is not suspect, and so becomes the baseline: the chain of false flags
   the poisoning guard is there to stop.

More holds only under a proviso. Take the configuration, make the change and check the
named property in place of its own: TLC finds it violated.

| configuration (module) | change | violated | what happens |
|---|---|---|---|
| `wf_concurrent` (`MCWorkflow`) | | `LegalEdges` | between `transition()`'s read and its write a second thread moves the workflow: an edge outside the table is written |
| `wf_concurrent` (`MCWorkflow`) | | `ParkedUntilApproved` | the same race: a handler that read FEASIBLE writes READY over AWAITING_APPROVAL |
| `wf_concurrent` (`MCWorkflow`) | | `NoStrandedRun` | two handlers open a run each; the transition behind the second is refused, and its row says RUNNING for ever |
| `wf_schedule` (`MCWorkflow`) | `MaxCrashes = 0` | `RunningSettlesUnlessCrash` | "raced and was rejected — no-op" (`scheduler.py:195-198`): the rejected INSERT's transaction stays open, the other process's next commit finds the database locked, and its workflow stays RUNNING |
| `wf_schedule` (`MCWorkflow`) | | `RunningAlwaysSettles` | a crash leaves a workflow RUNNING; `last_completed_step` has no caller that resumes it |
| `wf_schedule` (`MCWorkflow`) | | `PausedHasNoNextRun` | a fire that passed its check before `pause()` sets the next run afterwards |
| `wf_resume_race` (`MCWorkflow`) | none: it checks it | `SchedulesAreRegistered` | `pause()` and `resume()` interleave: the flag of one stays with the job of the other |
| `plan_data_flow` (`MCPlanRun`) | | `EveryStepRecorded` | two steps with one number: the second row replaces the first |
| `sched_midnight` (`MCSchedulePeriods`) | none: it checks it | `ReportedOnce` | a fire up to an hour late crosses UTC midnight: two processes, two keys, two reports |
| `sched_dst` (`MCSchedulePeriods`) | none: it checks it | `FiresReport` | clocks go forward: two local days fall on one UTC day, and one is dropped |
| `decisions` (`MCDecisionLedger`) | | `ReviewedWereHeld` | `record_review` takes any `decision_id` not reviewed yet: an AUTO_APPROVE decision gets a verdict, though its docstring speaks of a queued one |
| `decisions` (`MCDecisionLedger`) | | `ConflictMeansSomeoneElse` | a review that committed and raised is tried again: the "someone else" is the reviewer |
| `stream_engine` (`MCFeatureEngine`) | | `NoBlindFlagChain` | the baseline is gone or unread when a fraud comes: its place becomes the baseline, and the user's own purchases are flagged |
| `stream_pipeline` (`MCStreamPipeline`) | | `BurstIsFlagged` | the window written last holds only the burst's tail: the key says "not flagged" although `transaction_stream_generator.py:314-318` has the burst flagged |
| `backfill_bursts` (`MCStreamPipeline`) | none: it checks it | `BackfillBurstIsSeen` | a backfill's rows come in no order of time: the watermark has passed some burst's windows, for all that `:773-775` promises the "same detectability logic" |
| `live_backlog` (`MCStreamPipeline`) | none: it checks it | `NoRowIsLate` | after a pause, batches are cut by `maxOffsetsPerTrigger`; one user's rows may be cut far behind another's. The model allows any cut, Spark's is proportional to the partitions' backlogs |
| `warehouse` (`MCWarehouse`) | `Files <- OldFileLast` | `LatestIsKept` | a file that was held up is merged after the replay of its rows: the MERGE overwrites without comparing `COMPUTED_AT`, so the older features win |
| `warehouse` (`MCWarehouse`) | | `NothingLostToSnowpipe` | Snowpipe stages a file between the MERGE and the loader's TRUNCATE, and its rows are dropped unmerged |
| `policy_search` (`MCPolicySearch`) | `Ingests <- TwoIngests` | `CollectionIsAnEdition` | two ingests overlap: both upload into the collection the later one created |

## Fairness

* Handlers (`wf_schedule`): `WF` on the calls of each thread, on the restart of a
  crashed process and on the loop of its `reload()`, whose calls return or raise.
  A request, a fire or a tick is never forced. FastAPI and APScheduler run a handler to
  its return; nothing in the code makes a client come.
* Agent graph: `WF` on its next step: LangGraph runs node after node by itself.
* Single agent (`SearchFairness`): `WF` on the calls of an evaluation under way, each of
  which returns or raises. No evaluation is forced to begin, and no ingest to run.
* Feature engine: `WF` on the steps of a batch (`Processing`): Spark triggers while rows
  are waiting. Nobody is obliged to start the engine again, so `HistoryCompletes` exempts
  an engine that stays down.

## What is proved

With TLAPS, for all values of the constants that satisfy the named assumptions
(`StoreAssumption`, `EngineAssumption`, ...: typing of the constants, `None` not an id).

* `WorkflowProofs`. The properties are not inductive: that a run's rows agree rests on where
  the one thread inside the run stands. `RunInv` adds exactly that: `HoldOK` (the run is
  RUNNING, earlier steps are passed, later ones are blank, and a notification is ahead of
  its row only at `record`), `OneOwner` (no two threads inside one run) and `RowOK` (rows
  nobody is inside of). From it: `OneRunPerPeriod` however many processes fire,
  `LogInOrder`, `OutcomeMatchesLog`, `EffectsMatchLog`, `FinishedRunIsFinal`, and the
  refinement `ImplementsLedger` (each step is a `Send` or a stutter of `ReportLedger`).
  `NothingStranded` (`StrandInv`): while nothing has crashed, a workflow that says RUNNING has
  a thread that will still write its end (`CarriedOn`), and a run that says RUNNING is held
  or blank (`HeldOrBlank`), or a call was refused there; when all threads are idle the first
  two are no excuse. `AloneIsNotRefused` says when the third is none either: the processes'
  locks only ever stop each other, so one process, whatever its threads do, is never refused
  a call, and `AloneNothingStranded` needs no proviso about locks.
  `GateInv` ties a workflow's state and each handler's next call to its plan: from READY on,
  and for any thread about to start or finish a run, the plan is `Cleared` (checked, and
  approved unless it was armed in the window). `transition()` may overwrite a state, but a
  stale writer's goal is as good as it was when it read, for nothing takes a plan's clearance
  back; only the maker changes the plan, and there is one (`OneMaker`). Hence `OnlyCheckedRuns`
  and `GateHolds`, with no proviso on threads, processes, crashes or locks.
* `PlanRunProofs`. `CheckIsSound`: for plans of any length and numbering, a plan the check
  passes never meets a missing source. The argument needs that the executor's order
  (number, then position) puts every step a reference names before the step that reads.
* `SchedulePeriodProofs`. Under `Calm` (no fire, on time or late, leaves its period, and
  no two are due in one) every period is reported once and none dropped; `FixedZoneIsCalm`
  shows when a zone satisfies it. The two cfgs above show it is needed. `WindowsAlwaysMeet`
  needs no `Calm`: a report was sent between its due time and the grace time after (`InGrace`).
* `AgentProofs`. For any list of threads, repetitions included: `TeamInv` ties
  `agents_invoked` to the board of an evaluation (`LogIsThisRun`) unless the thread was
  decided before, and then the decision agent is no longer a choice (`Settled`, `PickIsLegal`);
  so decisions are grounded, and a thread is decided once, for any cap with room for the four
  specialists (`CapAssumption`). `CapIsEarned`: a call that is open between evaluations was left
  at the cap or by an exception (`CallsAreExcused`). `OneEdition`, under `OneIngestOnly`: the
  collection is part of what the one ingest read, each chunk once; the lemmas about chunks
  show that two places of one edition never give one chunk.
  `SectionsFit`, and from it `LoadedChunksFit`, for a section of any length: the chunker's two
  loops are folds, so the proof follows the accumulators of a fold (`FoldExists`), places one
  paragraph (`PlaceFits`) and goes on by `SeqInduction`. That is a lemma of this module about
  a *set* of lengths: a set that is not all of `Nat` misses a least element. It stands in for
  the library's induction theorems, whose operator parameters the provers cannot instantiate.
* `FeatureEngineProofs`. `KeepInv` (what a committed offset's row may be in at each `pc`)
  gives `CommittedRowsKept`. `CleanInv` gives `NoFalseFlags`: on an orderly topic the
  baseline is an own place or none (`BaselineIsOwn`), the batch under way was scored
  against such a baseline (`ScoredAgainst`), so a jump in it is suspect unless the engine
  was blind, and a suspect row never becomes the baseline. `RowsStoredOnce` (`OnceInv`): a
  stored row bears the process that computed it, and each process writes an offset once, so
  a replayed row is another row. `OnlineNewest` (`NewestInv`): on an orderly topic nothing
  stored or buffered is newer than what Redis holds, because Redis is written first and a
  replay writes at least the same rows. `JumpsFlagged` (`JumpInv`, in the first process): the
  baseline is of a row already seen (`BaselineIsSeen`), so a jump in the next batch is newer
  than it and suspect.
* `StreamPipelineProofs`. `QueryInv` ties the offsets log to the state: what is planned is
  recorded until it is committed, so a replay counts the same rows from the same state.
  From it, beside any producer, `OpenWindowsExact` and `FlagIsEarned`; `PipelineIsAQuery`
  carries both to the pipeline. `LiveInv` bounds every row of a live stream by the clock
  (`TimelyInv`: in a thread, in the queue or in the backlog it is at most lead + span +
  timeout old) and the watermark by the newest row less the delay; with `DelaySuffices`,
  which the code's figures satisfy, no live row is late. `BackfillSendsAll` (`BookInv`): a
  collected row is in the batch, with the thread, in the queue, delivered or given up, and
  the budget is what is not yet collected; sets of places stand for sums, so no induction
  is needed. `BurstsAreSeen` (`SeenInv`), with `DelaySuffices` and `BurstFits` (a burst is
  shorter than a window and has more rows than the threshold: 8 to 10 rows over at most
  108 s, against 5 in 15 minutes): the rows of a burst are dated within one window wherever
  they are on their way (`BurstDated`), none is late, so the batch that brings the last one
  counts them all; the alarm is raised before the offsets are committed, hence `AlarmedUpTo`.
* `DecisionLedgerProofs`. `LedgerInv`: a recorded verdict's row is untouched by every
  later write, batch or review. `SummaryDurable` adds `RowUnderWay`: the row being traced and
  scored is the last one, and holds the snapshot and the answer the batch has in its hands.
* `WarehouseProofs`. `AppliedInOrder`, for any scripts and any number of runners: what a
  runner still owes leaves no gap behind what is recorded, the statements it has run of its
  script are in effect (`RunnerOK`), and no statement takes anything back.
  `EveryTableIsRead`, for the scripts of the repository: a grant on all tables that was
  run before a table was born is made good by the grant on future ones. `NoDuplicateRow` and
  `LatestKept` for any transactions and files, the second under `InOrder`.

Type correctness of every component is proved too (`TypeCorrect`, `EngineTypeCorrect`,
`LedgerTypeCorrect`, `PipelineTypeCorrect`, and as a part of the other invariants).

Only model-checked: liveness (`RunningSettles`, `EvaluationEnds`, `HistoryCompletes`,
`LoopEnds`), because liveness under fairness and ENABLED are out of the prover's reach.

## What is not modelled

* Data: plan texts, prompts, tool results, report formatting, the judge's scores, metrics.
  A model's answer is any answer; a tool's call returns or raises.
* Feature engine: Snowpipe's own loading of files (how often and in which order it copies is
  any in `FeatureReplay`), the risk score's other factors; other users (every key is per user).
* Generator: a backfill that is interrupted, a full producer queue (100 000 messages, which
  the pauses and flushes keep it from), Spark's proportional cut of a backlog, user profiles.
* The approval of a *rejected* workflow, and other handlers that only read.
* SQLite's lock is modelled as what a transaction left open holds between two calls. Inside
  one call the five seconds a connection waits are enough for the other's commit. Of a write
  whose COMMIT was refused and whose transaction the next commit publishes, the model takes the
  effect at once (`Commits`), or never (`LeavesOpen`), not at that later commit. A transaction
  that began with a refused statement may or may not have read since, so whether a commit
  meets it is open.
* Retries and the circuit breaker (`common/resilience.py`): no caller in the code yet.
* Retrieval: the Markdown syntax (a document is its sections), the embedder, and how a search
  ranks; a search finds any of what is in the collection.
* Migrations: the other schemas' tables and grants, which have the same form.
* Metrics, redaction and tracing set-up: functions of finished results. Tools and the report
  catalogue: tables and formatting. The BI dashboard, the settings and the user
  interfaces: one query or one call each, no protocol of their own. The feature store's
  clients are empty files.

## Plan

Done, in this order: the workflow engine and its store (most state, most interleavings),
plans, schedules, the agent team, the feature engine, the decision ledger, the generator and
the velocity query around the topic, the warehouse's migrations and loads, the single agent
and the policies it searches, and the proofs of their safety properties.

Next:

1. `OnlineReads`: `FeatureEngine` and `VelocityQuery` over one Redis, with the agents and
   `process_batch` reading the velocity key one query wrote and the other is replaying.
2. `Breaker`: concurrent callers of the lock-free breaker, once the code has a caller.

## How to run it

```
tlc -workers 2 -config wf_concurrent.cfg MCWorkflow
tlapm WorkflowProofs.tla
```

The slowest runs are `stream_pipeline` (1.5 million states), `wf_schedule` (0.4 million, with
liveness), `wf_concurrent` (0.9 million) and `policy_search` (0.4 million, with liveness), each
under a minute. The slowest proof is `WorkflowProofs`, some minutes.
