# RevEng: TLA+ models, model checking and proofs

RevEng analyses source repositories and lets *agents* run small workflows of
*capabilities* over files.  This directory models the platform around the
analysis (how runs are created and executed, who may run what on which file,
how capabilities are written, published and resolved, what a workflow's code may
call), the workflow of an analysis (its stages, its thread pool and its output
directory), what these stages compute (relations, clusters, flows, meaning), and the
database underneath (connections and migrations).  In this text `P/`
stands for `src/reveng/platform/services/`, `F/` for `src/reveng/framework/`
and `E/` for `src/reveng/analysis_engine/`; other paths start at `src/reveng/`.

The program is one Python process.  FastAPI runs request handlers in threads, a
`ThreadPoolExecutor` of four threads executes runs, and all of them share one
SQLite file in WAL mode.  Almost every service method is a handful of short
transactions with ordinary Python between them, so the interesting behaviour
lies between the transactions: other threads, an exception, or the end of the
process may come there.  That is the granularity of the models: **a step is one
transaction, or the reads of one helper that decides on them**; in an analysis,
which works on files, one access to a file.  `StaticAnalysis` is the exception:
what a stage computes is a function of what the stages before it wrote, so there a
step is a stage.

## 1. Inventory

| component | source | state it keeps | operations and interaction | what is hard | what makes it correct |
|---|---|---|---|---|---|
| run engine | `P/analysis_bridge.py`, `P/agent_workflow_bridge.py`, `P/run_service.py`, `P/event_service.py`, `P/output_service.py` | rows of `analysis_runs`, `run_events`, `run_outputs`; the executor's queue | handlers create runs and call `executor.submit`; pool threads execute them and write status, events and outputs; `set_current_run` writes into the agent | handlers and threads interleave; every write is a transaction of its own and may raise; a stop of the process loses the queue | a run is executed by one task; its status follows pending, running, final; events do not contradict the row; every run ends |
| agents | `P/agent_service.py`, `agents/spec.py` | `agents`, `agent_sections` | `set_active`, the gate `get_active_or_raise`, `set_current_run` called by the run engine | read-modify-write of a JSON section in two transactions; `set_active` takes four | `is_active`, the activation section and the pointer agree when nobody is at work |
| agent permissions | `P/agent_keycard_service.py`, `P/agent_tool_assignment_service.py`, `P/agent_tool_file_permission_service.py`, `P/agent_capability_access_service.py` | Keycard entries, granted tools, per-tool file permissions, two projections of the granted tools | routes change one table, then bring the others up to date; a running workflow asks before every tool call | the tables are related but not written together; two syncs overlap; a row outlives its revocation | a revoked tool is refused at once; no permission outlives what it rests on; a sync leaves nothing out |
| drafts | `P/draft_service.py`, `P/capability_package_service.py` | drafts, items, draft versions, publications | edit, validate, publish, roll back; publishing installs into the catalog | check and installation are different transactions; a verdict is about older content | what is installed was checked; a rollback restores all of what it was asked |
| catalog | `P/capability_catalog_service.py`, `platform/capability_published_artifacts.py` | catalog rows, event ledger, published files | builtin packs are merged in at every start and by every analysis; publications are installed | a new release meets capabilities that were replaced; files are not transactional | publications survive a start; nothing unresolvable is installed; file and row agree |
| capability intake | `packs/capability_intake.py` | none of its own | asks a provider for code, then creates, validates and publishes or deletes a draft | may fail after it created the draft | no orphaned draft |
| shared registry | `P/shared_capability_registry.py` | the process's cache of definitions | `get` fills it from the catalog; nothing empties it | staleness | a workflow gets what is installed |
| workflow runtime | `F/runtime.py`, `F/host.py` | the host of one run: artifacts, invocation records, logs | `invoke`: permission, lookup, handler, record | a call fails between its file and its record | a denied call has no effect; each invocation leaves one record |
| workflow runner, combinations | `coordination/agent_workflow_runner.py`, `F/capability_proxy.py`, `platform/capability_combination_logic.py` | the stack of calls of one run | a workflow's code calls `capability_registry.<id>(...)`; a combination invokes its components and merges what they return | a failure or a revocation in the middle of a nested combination; a combination that contains itself | all of a combination or nothing; a revocation bites at every depth |
| parallel executor | `coordination/execution.py` | none | runs calls in a bounded pool, results in call order | exceptions of several calls; bounds | order, first failure, nothing left running |
| analysis workflow | `E/workflows/repo_analysis.py`, `E/coordination/orchestrator.py`, `E/packs/*` | the output directory of a run | a fixed graph of stages, some parallel, some skipped when their output file is there | a run cut off half way; a directory used again | reuse only of what a finished stage wrote for the same sources |
| cache and artifacts | `F/cache.py`, `F/artifacts.py`, `storage/artifacts.py` | files | written by every stage, read by the next run | a file that is cut off | as above |
| static analysis | `E/analysis/*` | the artifacts of one analysis | scan, extract, resolve names to definitions, cluster, follow flows, count, validate | corner cases of names and graphs: shadowing, relative imports, packages below the root, cycles, a dominant directory | agreement with what Python binds and with reference definitions; the artifacts count the same things |
| meaning layer | `E/meaning/*`, `E/agentic/*` | records per call, function, file, workflow, module, subsystem, system | each layer is derived from the one below | a record that no layer takes over, or two do; names that are not unique | evidence is accounted for from the call up to the system |
| database connections | `storage/db_connection.py`, `storage/system_db.py` | thread-local connections, the list of all of them, a generation | `get_db` in every thread; `close_db_connections` closes them for everybody | a connection closed under another thread | no thread keeps a closed connection that passes for a current one |
| database migrations | `storage/db_migrations.py` | `schema_versions`, the schema | at every start and by every analysis, the migrations above the recorded version | DDL commits at once, the version row last; several callers | recorded means applied, without gaps; a start after a stop goes on where it can |
| event stream, logs | `P/event_service.py`, `F/logging.py`, `storage/framework_logs.py` | `run_events`, log tables | appended by runs, polled by clients with a timestamp cursor | two events in one millisecond | nothing lost or delivered twice |
| agent workflows, blueprints | `P/agent_workflow_service.py`, `P/agent_workflow_bridge.py`, `P/agent_blueprint_service.py` | rows of workflows, the manual run order, blueprints | create, change, order, delete; fire a trigger, which makes a batch of runs; apply a blueprint, a sequence of permission and workflow calls | the order and the rows are written apart; a batch refused half way; an apply that fails half way and is repeated | a batch is one whole request in the stored order; a blueprint converges |
| model providers | `integration/providers/*` | none | HTTP clients of external services | external | not modelled |
| surfaces, web application, desktop shell | `execution_environment/*`, `platform/web/*`, `desktop/*` | settings in single rows | translate requests to service calls | presentation | not modelled |
| reports, file tools, trusted code | `E/output/*`, `packs/file_tools.py`, `F/trusted_code.py` | files, texts | write texts; load Python code | formatting | abstracted or not modelled |

`PROJECT.json` lists the components with their source files and, under
`hazards`, what in this code is hard to test, at its line, with the properties
that are about it.

## 2. Modules and plan

| order | module | with | stands for | state of the work |
|---|---|---|---|---|
| 1 | `RunLifecycle` | `RunContract` (abstract), `MCRunLifecycle`, `RunLifecycleProofs` | run engine and the agent's sections | done |
| 2 | `AgentPermissions` | `MCAgentPermissions`, `AgentPermissionsProofs` | permissions of one agent | done |
| 3 | `CapabilityCatalog` | `MCCapabilityCatalog`, `CapabilityCatalogProofs` | drafts, catalog, intake, registry, start of the process | done |
| 4 | `AnalysisWorkflow` | `MCAnalysisWorkflow`, `AnalysisWorkflowProofs` | the stages of an analysis, capability host, executor, cache, artifacts | done for analyses one after the other |
| 5 | `DbMigrations` | `SchemaMigrations` (the migrations as data), `MCDbMigrations`, `DbMigrationsProofs` | migrations of the database file | done |
| 6 | `DbConnections` | `MCDbConnections`, `DbConnectionsProofs` | connections per thread, closed for all threads | done |
| 7 | `StaticAnalysis` | `PythonSource` (texts and extraction), `RelationMap`, `ArchitectureMap` (clusters and flows), `MeaningLayer`, `MCStaticAnalysis`, `StaticAnalysisProofs` | what the stages of an analysis compute | done |
| 8 | `AgentWorkflows` | `CapabilityCalls` (the calls of running code), `MCAgentWorkflows`, `AgentWorkflowsProofs` | workflows of an agent, blueprints, batches, combinations | done |
| 9 | two analyses in one directory | in `AnalysisWorkflow` | | planned |
| 10 | `EventPolling` | MC | event cursor of the clients | planned |

How they fit together.  `AgentWorkflows` EXTENDS `CapabilityCalls`: the request handlers
and the running code share the permissions and the runs.  It hands batches to an
executor whose own life is `RunLifecycle`; it changes permissions in whole requests
whose transactions are `AgentPermissions`; the definitions it calls come from
`CapabilityCatalog`.  `AnalysisWorkflow` says in which order stages run, overlap, fail
and are skipped, and knows of a result only what it was made from; `StaticAnalysis`
says what they compute, and knows nothing of order.  `DbMigrations` and
`DbConnections` are below all of them: a transaction that raises (`Fault` in several
modules) is among others one whose connection `DbConnections` closed.

The abstract specification is `RunContract` (what a client may see of a run), which
`RunLifecycle` refines.  In the other modules the references are definitions beside
the code's: Python's own binding of names for the relation map, sets of paths for the
flows, `Meaning` (the value of a combination by recursion on its definition) for the
calls.  Every safety property that a run checks is a theorem by now; what is planned are the
two components at the end of the table.

## 3. Module by module

### 3.1 RunLifecycle, RunContract

*State.*  `status`, `agentOf`, `log`, `outputs` are the columns and tables of a
run; `isActive`, `activation` and `section` are the three places where an agent
says whether it is active (`agents.is_active`, the section `activation`, the
section `current_state` that also holds `current_run_id`); `queue` is the
executor's queue; `client` and `worker` are the threads with their local
variables.  Run ids are numbers in order of creation: `uuid4` never repeats, and
"in order" is only used to say which target of a batch comes first.

*Actions.*  A handler: `Submit`, `Gate` (`get_active_or_raise`), `Create`,
`Note`, `Refuse`, `Dispatch`; `ToggleCall` and the four transactions of
`set_active`.  A pool thread: `Take` to `Return`, one action per transaction of
`execute_analysis_run` and `execute_agent_workflow_run`.  The two functions take
the same steps in different orders (an analysis clears the agent's pointer
before it stores a failure, a workflow in its `finally` block); the operators
`AfterStart` to `AfterLastEvent` are the two orders.  `Work` is the analysis or
the workflow itself: it returns or fails.  `SubmitFault`, `ToggleFault` and
`TaskFault` are a transaction that raises, sent where the code's `try` blocks
send it; `Crash` is the end of the process and its next start.

*Contract.*  `RunContract` is what a client sees: none, pending, running, final,
with the one exception the code has, a completed run that becomes failed because
the event after `mark_completed` could not be written.  `StatusContract` is
`RunContract`'s specification, checked and proved as a refinement.

*Runs.*
- `runs_threads`: one handler, two pool threads, one agent, all kinds of
  submission, no faults, two runs.  Every interleaving of the handler and the
  threads: `SingleOwner`, `WaitingIsPending`, `PointerAtRest`; and `EveryRunEnds`, with weak fairness of each pool thread's
  `Progress`.  The pool's threads are ordinary threads that the operating system
  schedules, and the calls they make return (the analysis is finite, providers
  have time-outs); the handler owes nothing.  Two runs are what two threads can
  have at once; a third would only wait.  The proofs have any number of handlers,
  threads and runs.
- `runs_faults`: one handler, one thread, all kinds of submission, one output,
  one `set_active`, one transaction that raises, one crash.  `EventsAreTrue`,
  `ActivationSectionInSync`, `StatusContract`, `BatchIsSequential`, and `RunningHasThread`: a row says "running" without a
  thread only if the task ended with an exception (`raised`) or the process stopped.
  One fault reaches every `except` and `finally`; the proofs below have any number
  of both.

### 3.2 AgentPermissions

*State.*  For one agent (its tables have no row in common with another's):
`visible` and `eligible` are the Keycard's `visibility_state` and
`global_tool_eligible`; `granted` and `scope` the tool assignments; `rows` and
`allowed` the permissions that have a row, and those in state granted;
`bindings` and `access` the two projections.  `Inside[d]` is what lies below a
folder on disk, which no call changes.

*Actions.*  Every route that changes one of these, transaction by transaction:
`Assign`, `AssignToTool`, `Remove`, `SetEligible`, `Allow`, `Deny`, `GrantTool`,
`RevokeTool`, `Update` with `ReplaceNext` (`replace_grants`), `SetScope`, and
the steps they share (`EnsureTool` to `WriteRow` are
`set_allowed`, with the `SELECT` and the `INSERT` apart because two syncs can
meet there).  `BeginCheck` to `CheckFile` are `is_capability_allowed_for_agent`,
asked by a running workflow.  `Fault` is a transaction that raises.  The operators `IsVisible`,
`IsEligible`, `IsAllowed`, `GrantedFiles`, `VisibleFiles` and `Targets` are the
queries of the services.

*Runs.*
- `perms_sequential`: one handler, every route, five calls, two tools, two files
  and a folder that holds one of them.  `RowsFollowGrants`, `ProjectionsInSync`,
  `LonePathsAreBounded`: whatever sequence of calls, when the last one is
  answered the tables agree.
- `perms_sync`: two handlers that enable files and grant tools at the same time.
  `SyncComplete`: whoever comes second sees what the first wrote.  Revocations
  are not in this run on purpose: `clear_for_tool` runs after the revocation is
  committed, so it can delete what a grant in between has just written.
- `perms_revoke`: two handlers, one checker, one fault.  `RevokedIsRefused`.

Four or five calls are enough for every pair of operations to meet in every
order with the set-up they need (assign, enable, grant come first).

### 3.3 CapabilityCatalog

*State.*  `draft`, `items`, `made`, `snapshots` are the draft tables (`made`
counts item ids; a snapshot is a saved version or a publication); `record`,
`ledger`, `artifact` are the catalog rows, the contents its event ledger knows,
and the published Python files; `release` is which builtin packs the running
process ships, `cache` its registry.  The content of a capability is a model
value: what matters is whether it can be installed (`Installable`), passes
`validate_capability` (`Valid`) and brings source text (`WithCode`).

*Actions.*  Every call on drafts and items, in its transactions: `validate_draft`
reads all items once and writes each verdict in a transaction of its own;
`publish_draft` reads and checks in one transaction and installs in another;
rollbacks and changesets copy old items into a new draft one by one.
`Intake` is `_validate_and_publish_draft`.  `Restart` is a stop and a start, of
the same or another release, with the merge of the builtin packs; `Resync` is
the same merge, repeated by every analysis and list.  `Lookup` fills the cache.
A `Fault` in the publishing transaction may leave some of the files written.

*Runs.*
- `catalog_sequential`: one handler, every operation, five calls on two drafts
  with up to four items for two capabilities: `ValidatedIsValid`,
  `RollbackRestores`, `NoOrphans`.
- `catalog_race`: two handlers and the intake on one draft, one fault or lost
  file, one restart under another release: `InstalledIsInstallable`,
  `ArtifactIsCurrent`, `PublicationSurvives`.

### 3.4 AnalysisWorkflow

*State.*  `disk` is the JSON file of each capability that has one: absent, empty,
cut off, or whole with a value; `views` are those whose Markdown and detail files
are there.  `version` counts the edits of the sources.  `run` is the analysis:
its workflow, the stage it is in, the width of the stage's pool, the state of
each call (`pc`) and the results in memory (`val`, the `ArtifactStore`).  `kinds`,
`hurt` and `upsets` are history: the analyses so far, the files whose writer was
interrupted, and how many exceptions, edits and stops there were.

*Values.*  What a result says is left out; what is kept is what it was made from.
An inventory is the set of files it has, each in the version that was read; a
later result is the set of inventories that went into it, through the `Needs` of
its capability.  So "all results are about one inventory" is an equation.

*Actions.*  `Submit` is the orchestrator's `run`, for one of the workflows (`Base`,
`Narration`, `Meaning` are their stages).  `Advance` is the workflow function going
on when `invoke_parallel` has returned, to the next stage, past a fan-out whose
gathered file is ready, to the end, or out with an exception.  A call, in a thread
of the pool: `Begin` is `invoke` and the handler's `is_ready`; then either `Load`,
or `Open`, `Spill`, `Finish` (truncate, some pieces, the end of `write_text`) and
`View`; `Answer` is a call without a file.  `Raise`, `Edit` and `Stop` are the
upsets.

*Run* `analysis`: two analyses of any kinds in one directory, the second of which
sees one file of the two the first sees (a narrower Keycard), pool sizes asked for
of 0 and -1, one exception, edit or stop at any point (two of these when both are
base analyses).  Two analyses are what it takes for one to find what another left;
a third would find one of the same four states of each file.
`Coherent`, `Delivered` and `FailsForCause` say what an analysis is worth that
follows another, however that one ended; `ResultsStay` what may be written when;
`EveryAnalysisEnds` assumes weak fairness of `RunStep`: the threads of an analysis
keep running and their calls return, as in 3.1.

### 3.5 DbMigrations, SchemaMigrations

*State.*  `schema` is what `sqlite_master` holds: tables, indices, and the columns
that some migration adds or renames; `recorded` the rows of `schema_versions`;
`release` how many migrations the running code knows.  `caller` is each thread or
process inside `apply_migrations` with its local variables, the migration and
statement it is at.  `cut` (migrations stopped half way) and `alone` (no other
caller has been at work during this call) are history.

*The migrations.*  `SchemaMigrations` is `_MIGRATIONS` as data, a sequence of
statements for each version; `DbMigrations` takes any such list as a constant.  A
statement says what object its `IF [NOT] EXISTS` asks for, what must be there, what
it takes away and what it makes.  `CREATE INDEX IF NOT EXISTS` fails when its table
is gone even if the index is there (`on`); the indices one migration makes of one
table are one statement.

*Actions.*  `Begin` is the call up to the query of `MAX(version)`; `Execute` one
statement, which sqlite3 commits by itself; `Record` the version row, in one
transaction with the rows that migrations 38, 61 and 63 rewrite; `Finish` the
return.  `Stop` is the end of the process, or an error from outside, before any
statement.  A refused statement, or a version recorded by somebody else, raises.

*Run* `db_start`: the real list.  A file starts with any third version (`Bases`)
and the running release is 10 migrations ahead (`Ahead`), so every migration is
applied in several windows, and a slow caller still at 14, which creates
`capability_bundles`, meets a fast one that has renamed it in 23.  Two callers,
three calls and one stop are a stopped start, a start that finds its remains, and
one that overlaps either.  `RecordedIsApplied`, `ReadyIsComplete`, `RaisesForCause`.
The proofs have any number of callers, calls and stops, and any list; what is said of
the schema assumes `MigrationsMakeOnce` and `MigrationsFollow` of it.

### 3.6 StaticAnalysis, PythonSource, RelationMap, ArchitectureMap, MeaningLayer

*State.*  One variable per artifact of an analysis: `repo` (the files on disk), `scan`,
`inventory`, `relations`, `breakdowns`, `enriched`, `clusters`, `flows`, `context`,
`dossier`, `checks`, `meaning`; each is `None` until its stage has run.

*Programs.*  A text is its syntax tree in source order, a sequence of nodes each with
the index of the one it stands in: `def` (with one parameter and its annotation),
`class` (with one base), `import`, `from`, assignment, call, decorator, and `if` (which
may be the main block).  A name is atomic, a dotted name or a path is a sequence of
names.  `PythonSource!Bodies` gives each node the scope it stands in, `FileRecord`
is what `FileExtractor` records.

*Actions.*  `Write` and `Break` are the author: any statement of the project's
vocabulary at any place, or a file that no longer parses.  Then one action per stage:
`ScanRepo` (of the files the run may see), `ExtractFiles`, `BuildRelations`,
`BuildBreakdowns`, `EnrichAndCluster`, `BuildFlows`, `BuildReports` (context, dossier,
validation), `DeriveMeaning`.  The stages are operators of the other modules:
`RelationMap!BuildRelationMap` resolves a call in the code's order of attempts,
`ArchitectureMap` chooses the depth of the clusters and searches the flows breadth
first, `MeaningLayer` is `run_system_breakdown` with its eight derivations, its
cross-reference index and its validation.

*Run* `static_analysis`: all programs that add up to three statements to five small
repositories (about imports, about classes and variables, about chains of calls, about
meaning, about a package below the root with a second of the same or another name), and
all sets of four files over five directories.  One file of each may be denied to the
run.  Three statements are an import, a definition that gets in its way, and a call:
what a wrong resolution takes.  362,933 states.
- `CallsReachTheirMeaning` compares the call edges with what Python binds, where that is
  certain: the name is bound once, to one definition, or to an object of one class.  Its
  meaning (`Meant`, `MeantMethod`) is read off the texts and the directories alone, without
  the module index, the import tables and the hints of the code.  It is about repositories
  without a file or directory `__root__` at the top (`RootIsUnnamed`), since the analysis
  gives that name to the root package.
- `NothingIsLost`: a call or import of a file that parses is an edge, external, or
  unresolved, exactly one of these, and every edge has two ends.
- `FlowsAreShortestPaths`: the breadth-first search with its hubs and its depth limit
  finds what is reachable, at its distance.
- `DominanceIsUnavoidable`: a cluster of three quarters of the files is accepted only if
  every depth has one.
- `ArtifactsAgree`: edges counted by file, by cluster, by context, by flow and in the
  dossier are the same edges.
- `ChecksMeanSomething`: the validation of a dossier built from its own inputs passes,
  but for one check whose cause is spelled out.
- `EvidenceIsAccounted`: each piece of evidence reaches one action, one function, its
  file, module, subsystem and the system.
- `WorkflowsHaveTheirSteps`: a workflow has the actions of all that its flow reaches, but
  for namesakes.

### 3.7 AgentWorkflows, CapabilityCalls

*State.*  `rows` and `order` are the table `agent_workflows` and the stored manual
order; `granted`, `scope`, `permitted`, `keycard` the permissions as far as these
modules need them (one Keycard folder, which holds all targets); `handler` a request with
what it has read; `runs` and `batches` what was submitted; `worker`, `stack`, `reply` the
pool thread that executes a batch, with the calls its code is in.  `late`, `disturbed` and
what a batch keeps of the tables its trigger saw are history.

*Actions.*  Requests: `Create`, `Change`, `Delete`, `SetOrder`; `CountRows` and `Promote`,
the old single-workflow section that the first list turns into a row; `Insert` and
`Write`, the second halves of a change; `List`, `ReadOrder`, `Submit`, `Dispatch`, which fire
the manual trigger; `Apply` to `Applied`, the steps of a blueprint: tools, folder,
workflows.  `EditAccess` is a request that changes permissions.  The worker: `StartRun`, `CallTool`, `Ask` (the check of
`WorkflowRuntime.invoke`), `RunFunction`, `BeginCombination`, `InvokeComponent`,
`EndCombination` (merge by the combination's logic), `Resume`, `EndRun`.

*Run* `agent_workflows`: two handlers, three requests between them, two functions, four
combinations (of both, of a combination, of a missing component, of itself), codes that
call these in both syntaxes, are empty, or do not parse; a blueprint with two workflows.
Three requests are what two need with the set-up of one; 470,283 states.
- `BatchIsTheRequest`: what is handed to the executor is one whole request, in the order.
- `ApplyConverges`: an undisturbed apply leaves what the blueprint says, and a second
  one changes nothing.
- `ResultsAreWhole`: a call that returns a value returns the one its definition means, at
  any depth, whatever was revoked meanwhile.
- `RevocationBites`: after a revocation a tool runs at most once more on that file.

### 3.8 DbConnections

*State.*  `open` and `listed` connections, the `generation`, each thread's `own` connection
with the generation noted for it, and the local variables of `get_db` and
`close_db_connections`.  The path of the database is the same at every call; the
migrations that follow a call of `ensure_system_db_ready` are `DbMigrations`.

*Run* `connections` refutes a sentence of the code (section 6) with two threads, two calls
and four connections.  What does hold, `NoneIsLost` and `NoneIsShared`, is proved.

## 4. Proofs

Each `...Proofs` module extends its component's module.  All theorems hold for
any sets of threads, agents, paths, tools, contents and releases, and for any
value of the bounds; they assume the named `ASSUME` of the component's module
(`RunConstants`, `PermissionConstants`, `CatalogConstants`, `AnalysisConstants`,
`MigrationConstants`, `MigrationsMakeOnce`, `MigrationsFollow`, `CallConstants`,
`WorkflowConstants`, `BlueprintConstants`, `DepthAssumption`, `ProjectsAssumption`), or state their assumption
themselves (`ConnectionConstants`).  Three of them say what the code's data are and are
evaluated by TLC on those data: the two about migrations on the whole list of
`storage/db_migrations.py`, and `ProjectsAssumption` on the projects of the run (finitely
many files with different paths, each a syntax tree in source order, numbered from 1 so that
`a.py` comes before `a/__init__.py`, as `scan_repo` sorts them, `packs/python_static.py:70`).

Some theorems have a hypothesis, because without it the statement is false; section 6
says what happens then.
- `OneToggle` (calls of `set_active` do not overlap), for `ActivationFollows`: two of them
  can write the row in one order and the section in the other.
- `OneAtATime` (one handler, no transaction that raises), for three theorems on
  permissions: `clear_for_tool` and the two projections are transactions of their own, and a
  request in between sees or overwrites what is half done.
- `OnlyAdding` (nothing is removed, disabled, denied, replaced or revoked), for
  `SyncsMeet`: any number of handlers overlap.  Whatever is taken away while a sync runs
  may be written back by it, or be cleared after it.
- `Sequential` (at most one handler), for three theorems on drafts, and no fault for
  `IntakeLeavesNothing`: an item changes between the reading and the writing of a
  concurrent request.
- `Sighted` (no analysis is denied every file), for `ResultsAgree`: an analysis without
  files has no texts to agree about.
They are the conditions of the runs that check the same properties, or weaker ones; the
number of calls, the sizes of all sets and the history before are left free.

*Induction.*  The theorems of the library that take an operator as a parameter cannot be
used, so induction on the natural numbers is by their well-foundedness, over a set
(`NatInduct`, `LeastElement`).  A recursive function is a CHOOSE, so before anything is said
of it, a function that satisfies its equation is built, one argument after the other
(`BodiesExist`, `ChainsExist`, `UpToExists`, `FoldExists`), or as the least set of pairs of
an argument and a result that is closed under the equation (`SearchExists`).

**RunLifecycleProofs.**  The inductive invariant is `IInv == TypeOK /\ Shape /\
SingleOwner /\ WaitingIsPending /\ Rows`.  `Shape` says what a program counter
says about the other local variables of a thread.  `SingleOwner` is inductive
because every transfer (handler to queue, queue to thread, thread to its next
run) moves a set of runs that no other place holds.  `WaitingIsPending` needs
it: a thread that changes the status of its run must not change that of one that
waits.  `Rows` says what a program counter says about the row of the run; it is
what makes `ImplementsContract` true, since a thread writes a status without
looking at the old one.  On top of `IInv`, `Ended` (a thread that leaves its run
without an exception leaves it final) gives `BatchInOrder`, and `Announced` (what
the log says about the thread that still has the run) gives `TrueEvents`.
`Ended` also gives `NoRunIsLost`: a thread turns away from a running run only with
an exception.
`PointersCleared` is about duties: `Pointed` says that a section that points at a run is
one that some thread still has to clear (`ClearAhead`, true of every program counter from
which a clearing step lies ahead on each way out), and `DutyKept` that a thread gives the
duty up only by doing it.  Two threads may have it for one agent; it is enough that one
does.  `ActivationFollows` adds `Followed`: between its transactions the one call of
`set_active` accounts for the difference between row and section.

**AgentPermissionsProofs.**  `Barring == TypeOK /\ BarHolds /\ BarredCheckStops`:
a barred tool is not granted, and a check that began while one of its tools was
barred can only end in "no".  It gives `RevocationHolds`.  `FilesOff` is an
action property and follows from the type invariant.  `ListAgreesWithCheck`
and `TargetsAreAllowed` are about the queries alone: the list of files computed
for a run and the check of a single file decide the same for every nesting of
folders, and the targets chosen for a workflow pass the check of each tool.
With one request at a time `Tidy == Cleared /\ Ensured /\ Projected` says of each step what
is not in order yet and that the rest of the request puts it right: a permission of a tool
that is not granted is one that the revocation under way will clear, a projection differs
from the grants only before its own step.  It gives `RowsAreOfGrants`,
`LonePathsAreShown` and `ProjectionsFollow`.  For handlers that only add, `SyncInv`
contains `Owed`: each permission that is missing, of a granted tool on an enabled file, is
owed by some handler, which has it in its list or has not made its list yet.  Each step
pays what it no longer owes and owes what it makes missing (`Pays`), so of two requests
that meet, the second one to write has seen the first (`SyncsMeet`).

**CapabilityCatalogProofs.**  `IInv` joins `TypeOK`, `IdsSpent` (fresh ids),
`ReadyToInstall` (what a handler is about to publish was found installable),
`RecordsHaveContent`, `InstalledIsInstallable` and `ArtifactIsCurrent`.
`ReadyToInstall` is the reason why the race between check and installation does
no harm: the rows travel in the handler, not in the table.  `Survives` follows
from the merge itself, `SyncHasSettled` from two lemmas: the merge is idempotent
(`SyncTwice`), and an installation keeps a settled catalog settled
(`InstallSettled`).
With one handler at a time, `AInv` says at every step what the handler knows of the
tables: what it has read is still there (`Checked`, `Offered`), the rows it makes are
what it was asked for (`Copied`).  It gives `ValidatedStaysValid`; `RollbackIsWhole`, where
a rollback that reaches its publication has copied the snapshot; and `IntakeLeavesNothing`,
where nothing that was validated can be refused.

**AnalysisWorkflowProofs.**  `IInv == Shape /\ OneWriter /\ RestIsOver /\ NotThere`:
the calls of a stage have different files (each capability with a file has one call),
a call that writes has found no whole file and nobody else writes it, and an
analysis that is not running has no call left in the middle.  It gives
`ResultsStay` and `NoLateWrite` (no file changes once its analysis is over), and needs neither the stage graph nor its order.
`CInv` follows a text that is cut off to its cause: whenever a file is cut and not
being written, its writer was interrupted (`CutIsHurt`), a call that could not read
its file has met such a text (`CutIsCut`), which gives `FailsForCause`.
`DInv` follows a result from the call to the directory: a result that an analysis remembers
is what its file holds (`SameAsFile`), whatever a stage needs is remembered before the
stage begins (`Placed`, from the stage graph `Plan`), the composed report comes last; so an
analysis that ends well delivers what it has (`ResultsAreDelivered`).  `VInv` adds what the
results are about: there is one whole inventory (`OneInventory`), every value is made from
it (`ValuesAgree`), and a call that gathers has gathered parts of it (`Gathering`).  A later
analysis takes the first one's inventory over, so this holds across analyses, edits and
stops (`ResultsAgree`).  The stage graph enters by lemmas on `Plan`: what a call needs is
the result of an earlier stage.

**DbMigrationsProofs.**  `IInv == TypeOK /\ Prefix /\ Follows`: the recorded versions
are 1 to some m, and each caller at work has at most recorded versions behind it.
So the version a caller inserts is either there already, and it raises, or m + 1: no
gap, whoever is slow or stopped.  Nothing is assumed of the migrations for this.
`KInv` adds what they do.  `Kept`: what a statement that ran has made is in the schema,
unless a later statement that takes it away has run too.  It is kept by every caller's
step, because no two statements make the same thing and nothing is taken away before it
is made (`MigrationsMakeOnce`): the slow caller that repeats a migration of long ago finds
it done or fails.  `RecordedIsThere` follows.  `Lone` says that a caller whom
nobody disturbed is the only one at work, at a version that is not recorded; so what its
statement needs is there (`MigrationsFollow`), and only what an interrupted call left of
the same migration can be in its way (`NoRaiseWithoutCause`).

**StaticAnalysisProofs.**  `DominanceIsUnavoidable` is an invariant because every later
stage leaves `repo`, `scan` and the clusters alone (`ClustersOfScan`), and by
`DeeperIsFiner`: files together at some depth are together at every smaller one.  So the
loop of `_select_cluster_depth` may stop where a deeper split changes nothing: a deeper
one can only have smaller clusters.  `PackageIsDirectory` and `RelativeImportStartsAbove`
are about the names of modules: the package of a file is its directory, `__init__` or
not, and a relative import of level 1, 2, ... starts at the directory of the file, the
one above, and so on.
The relation map is proved about from the texts up.  `BodiesEquation` gives the scopes of
a text, `InventoryIs` and `CallIsAt` the records, `ModuleFiles`, `ImportEnds` and `FromEnds`
the import tables (every entry names a file that parses, or definitions of one),
`CallResolves` and `HintedDefined` the ways a call is attributed: each ends in definitions
of the inventory, and so in nodes (`MapNodes`).  An edge from a class to its method needs
that the scope a method stands in is a class of the same file (`ClassOfMethod`).
`EdgesJoinNodes` collects them; `OneCallAtAPlace` (one call per statement) makes the edges
as many as the calls that were resolved, `CallsAccounted` and `ImportsAccounted` add the
rest.  `FlowsCiteNodes` holds for any map; `NoEdges` says when a map is empty.  The
invariant `Stages` says that each artifact is what its stage computes from what the run
sees, and that texts stay texts while they are written (`OneStatementMore`); from it
follow `NothingIsEverLost`, `ChecksAlwaysMeanSomething` and the theorems below.
The search of a flow ends because each turn of its loop leaves fewer nodes unseen, or as
many and a shorter queue (`SearchInduct`).  Its invariant is `BreadthFirst`: what is found
is at its level, what is queued is reached at its depth, the queue is in the order of the
depths and holds at most two, and the calls of what is found are visited or queued one
deeper.  From it follows that what is reached in fewer steps than anything queued is
visited (`BelowIsVisited`); that is why a node that leaves the queue unseen leaves it at the
length of its shortest way (`FoundKeeps`), in whatever order the calls of one node were
queued, and why at the end every level is complete (`EndsShortest`).
`WorkflowsAlwaysHaveTheirSteps` starts there: the nodes of a flow are nodes of the map, and
the table that gives each name one file (the last node of that name, `LastNodeIs`) gives the
right one if the flow reaches no other; the rest of the derivation only adds steps.
`EvidenceIsAlwaysAccounted` goes up the meaning layer level by level, each lemma saying
which evidence a level holds (`ActionsAre`, `FunctionsAre`, `PurposesAre`, `BehaviorsAre`,
`ModulesAre`, `SubsystemsAre`, `SystemHasAll`): no level adds evidence or drops any, and the
actions of one ability have disjoint evidence.
`CallsAlwaysReachTheirMeaning` compares two ways to read a program.  On the side of Python a
call has a meaning only if the name it begins with is bound once in its file (`BoundBy`), so
each table of the code has at most one entry for the name: one definition (`NamedAre`), one
import (`OneAlias`), or one statement that says of which class it is (`HintsAre`, and
`HintIs` for the scopes around the call).  `ModuleIsThere` shows that the module index finds
the file that the directories lead to: it keeps the last of two files with one module name,
and `Numbered` (paths differ and are numbered as they sort, an invariant because nothing
renames a file) makes that the package, which Python prefers too.  `ImportBinds` and
`FromBinds` follow an import to the entry it makes, `ReferenceIs` a relative one to its
directory.  Then each order of attempts of `_resolve_call_target` stops at the right one
(`MeantResolves`), or at none, and the hint decides (`MeantMethodResolves`).  The node an
edge starts from has the scope of the call because every scope is opened by a definition or
a class of the file (`ScopeIsOpened`, `SourceIsScope`), and there is no second edge because a
place holds one call (`OneEdge`).  Left
out of the property, because the code does not or Python need not decide them so: a name
that is a parameter too, `self`, a class nested where a method would be, and an import from
the root package itself (section 6).
`ArtifactsAlwaysAgree` rests on one lemma about sums, `TotalOfParts`: if a finite set is
divided by what a function maps its elements to, the sizes of the parts add up to the size
of the set, in whatever order the fold adds them.  Every count of the cluster map, the
context, the flow matrix and the dossier is such a part, of the edges (`EdgesFinite`), of the
edges between clusters, of the flows (one of each root, `OneFlowOfRoot`) or of the unresolved
calls; and an edge that says what contains what never leaves a file (`EdgesBetweenFiles`).

**AgentWorkflowsProofs.**  `BitesInv == CallInv /\ BetweenRuns`.  `CallInv` says that a
tool that is allowed has no late execution (`AllowedIsNotLate`), neither has the one that
has asked and was answered yes (`AskedIsNotLate`), that `late` is 0 or 1 (`Counts`), that
the stack is one of frames (`Frames`), and that all but the top of it wait for their parts
(`CallersWait`), so at most one capability is between its question and its execution.
`BetweenRuns` says that a change of target finds an empty stack.  An execution whose tool
is not allowed counts once; then the frame is gone, and the next question is answered no.
`WholeInv` compares the stack with `Meaning`, the value of a capability by recursion on the
depth to which combinations nest: a frame holds the results of the parts it is past, in
the order of execution, and the frame above it is the part it waits for; so what it
returns is the meaning of its capability or an error (`ResultsAlwaysWhole`).  `BatchInv`
follows a batch from the request to the worker: the list a handler goes through is the
manual order of the rows it has read, the runs it has made are those of the part of the
list it is past (`Submitting`, `Covers`), and what the worker has begun is in a batch
(`BatchesAreRequests`).  It rests on lemmas about sorting: a finite set of numbers has one
increasing enumeration, and the manual order lists each workflow once, those of the order
first.  `ApplyInv` follows an apply nobody else has written during (`Progress`): the tools,
the folder and the workflows it is past are as the blueprint asks; what it has read of the
row it is about to write is still so (`ReadProgress`), as only its own steps wrote since;
and if everything was there at the start, nothing has changed.  A new row is younger than
all others of the table (`StoredOK`, `WritesRow`), so it takes no name from a workflow that
is done (`SpecAdded`); a row written back keeps its name, and names differ, so it undoes
none either (`SpecReplaced`) (`ApplyAlwaysConverges`).

**DbConnectionsProofs.**  `ConnInv == TypeOK /\ InHand /\ NoneIsShared /\ NoneIsLost`.
`InHand` (what a thread has just made is nobody's yet) carries both: the missing lock
around the generation costs a thread its connection, but none leaks and none is shared.

| theorem | states |
|---|---|
| `RunLifecycleProofs!TypeCorrect`, `OneOwner`, `Unstarted` | `[]TypeOK`, `[]SingleOwner`, `[]WaitingIsPending` |
| `RunLifecycleProofs!ImplementsContract` | `Spec => RunContract!Spec`, faults and crashes included |
| `RunLifecycleProofs!BatchInOrder`, `TrueEvents`, `NoRunIsLost` | `BatchIsSequential`, `[]EventsAreTrue`, `[]RunningHasThread` |
| `RunLifecycleProofs!PointersCleared`, `ActivationFollows` | `[]PointerAtRest`; `[]OneToggle => []ActivationSectionInSync` |
| `AgentPermissionsProofs!TypeCorrect`, `RevocationHolds`, `FilesOff` | `[]TypeOK`, `[]RevokedIsRefused`, `FilesStartOff` |
| `AgentPermissionsProofs!ListAgreesWithCheck`, `TargetsAreAllowed` | the queries agree |
| `AgentPermissionsProofs!RowsAreOfGrants`, `LonePathsAreShown`, `ProjectionsFollow` | if `OneAtATime`: `[]RowsFollowGrants`, `[]LonePathsAreBounded`, `[]ProjectionsInSync` |
| `AgentPermissionsProofs!SyncsMeet` | if `OnlyAdding`: `[]SyncComplete` |
| `CapabilityCatalogProofs!TypeCorrect`, `LiveIsInstallable`, `FilesAreCurrent` | `[]TypeOK`, `[]InstalledIsInstallable`, `[]ArtifactIsCurrent` |
| `CapabilityCatalogProofs!Survives`, `SyncHasSettled` | `PublicationSurvives`, `[]Settled` |
| `CapabilityCatalogProofs!ValidatedStaysValid`, `RollbackIsWhole`, `IntakeLeavesNothing` | if `Sequential`: `[]ValidatedIsValid`, `RollbackRestores`, and without faults `NoOrphans` |
| `AnalysisWorkflowProofs!ResultsAreKept`, `WritersEnd`, `FailuresHaveCauses` | `ResultsStay`, `NoLateWrite`, `[]FailsForCause` |
| `AnalysisWorkflowProofs!ResultsAreDelivered`, `ResultsAgree` | `[]Delivered`; if `Sighted`: `[]Coherent` |
| `DbMigrationsProofs!TypeCorrect`, `RecordedWithoutGaps`, `ReturnsWhenComplete` | `[]TypeOK`, `[]NoGaps`, `[]ReadyIsComplete` |
| `DbMigrationsProofs!RecordedIsThere`, `NoRaiseWithoutCause` | `[]RecordedIsApplied`, `[]RaisesForCause` |
| `StaticAnalysisProofs!DominanceIsUnavoidableAlways` | `[]DominanceIsUnavoidable` |
| `StaticAnalysisProofs!DeeperIsFiner`, `PackageIsDirectory`, `RelativeImportStartsAbove` | clusters and module names |
| `StaticAnalysisProofs!NothingIsEverLost`, `ChecksAlwaysMeanSomething` | `[]NothingIsLost`, `[]ChecksMeanSomething` |
| `StaticAnalysisProofs!FlowsAlwaysAreShortestPaths`, `ArtifactsAlwaysAgree` | `[]FlowsAreShortestPaths`, `[]ArtifactsAgree` |
| `StaticAnalysisProofs!WorkflowsAlwaysHaveTheirSteps`, `EvidenceIsAlwaysAccounted` | `[]WorkflowsHaveTheirSteps`, `[]EvidenceIsAccounted` |
| `StaticAnalysisProofs!CallsAlwaysReachTheirMeaning` | `[]CallsReachTheirMeaning` |
| `StaticAnalysisProofs!EdgesJoinNodes` | the edges of a relation map |
| `AgentWorkflowsProofs!RevocationAlwaysBites`, `ResultsAlwaysWhole` | `[]RevocationBites`, `[]ResultsAreWhole` |
| `AgentWorkflowsProofs!BatchesAreRequests`, `ApplyAlwaysConverges` | `[]BatchIsTheRequest`, `[]ApplyConverges` |
| `DbConnectionsProofs!NoConnectionIsLost`, `NoConnectionIsShared` | `[]NoneIsLost`, `[]NoneIsShared` |

`FilesOff`, `SyncHasSettled`, `WritersEnd` and the two theorems about connections state
properties that no run checks: the theorem says more than a run could.

*Only model-checked:* `EveryRunEnds` and `EveryAnalysisEnds` (liveness is out of the
prover's reach).  Every invariant and every action property of a passing run is a theorem,
some of them under a hypothesis of those above.

## 5. Bounds, fairness, deadlock

Every bound is a constant whose comment says so (`MaxRuns`, `MaxCalls`,
`MaxFaults`, `MaxItems`, `Kinds`, `Ops`, `Sights`, `Requests`, `MaxUpsets`,
`Bases`, `Ahead`, `MaxRequests`, `MaxRows`, `MaxConnections`, the `budget` of a project,
...).  Model values have no order, so
threads are symmetric; tools and drafts are where a run uses their symmetry.
Every configuration has `CHECK_DEADLOCK FALSE`: a server with no request to
serve is idle, and the bounded requests are used up at the end of a behaviour.
Only `runs_threads` and `analysis` assume fairness, described in 3.1 and 3.4.

*Abstractions.*
- The reads of one helper are one step when no write comes between them.
- The lookup and the insert of a tool assignment or a Keycard entry are one
  step: a collision raises, which `Fault` has.
- Whether an agent is active and a package installed is a free choice in
  AgentPermissions.
- A fault stands for whatever makes a transaction raise: an integrity error,
  a database locked for thirty seconds, a connection closed by another
  thread's `ensure_system_db_ready`.
- The dependency check of a composite capability is a part of `Valid`, version
  strings are always fresh, and code without the Python form counts as none.
- `propose` is create and add; `discard` is delete.
- The sync is one step: its first statement writes, which takes SQLite's lock.
- In StaticAnalysis a name is atomic, so tests on the letters of a name (a capital, a
  substring) are sets of names; loops, returns, raises, async functions and a second base
  are left out, file ids are in the order of the paths, and the parsing itself is `ast`'s.
- In MeaningLayer the pattern tables are functions given as constants (`CallAbility`,
  `DecoratorAbility`, `BaseAbility`, `ImportAbility`, `SideEffects`, `IgnoredCallees`), the
  instance takes entries of the real tables; lists are not cut to ten or twenty
  references; of the dimensions only whether a module has one is kept.
- In AgentWorkflows ids grow with `created_at`, a request on permissions is one step, the
  read of a row after its change is left out, there is one worker, and how a run ends is
  `RunLifecycle`'s.  `RecursionLimit` stands for Python's.
- An analysis: the clusters, and the flows, of a repository are one call each (the
  code makes one for each of them, in the same pool); the report that composes the
  meaning layer counts as one file; time stamps inside a file are left out; analyses
  of one directory follow one another.

## 6. Where the code and its words differ

One run is refuted by the behaviour of the code; `PROJECT.json` quotes the sentence.
- `connections`: `get_db` notes the generation after the connection is in the list
  (`storage/db_connection.py:83`).  If `close_db_connections` comes between, the thread
  keeps a closed connection as a current one and is handed it at every call, against
  "created on first use and reused" (`:60`).

Other differences met on the way, without a run of their own.

*Platform.*
- A pointer update that began before `set_active` and ends after it writes the old
  `activation_status` back (`P/agent_service.py:315`, against `:231` and `:308`).
- A permission on a file inside a folder outlives the folder's removal from the Keycard
  (`P/agent_keycard_service.py:247`), the "broad boundary" of
  `P/agent_workflow_bridge.py:23`.
- Nobody calls `invalidate` (`P/draft_service.py:545`), so workflows go on with the
  definition cached before a publication
  (`P/shared_capability_registry.py:17-18`).
- Removing a published item deletes its candidates (`storage/db_migrations.py:321`), so a
  later rollback to that publication restores the rest only.
- Eligibility is checked and written in two transactions
  (`P/agent_keycard_service.py:261`).
- Two analyses of one directory at once each look for the inventory
  (`E/workflows/repo_analysis.py:64`).
- Clients poll with `created_at > since` at a resolution of a millisecond
  (`P/event_service.py:40`): an event written in the millisecond of the last one seen is
  never delivered.
- `execute_analysis_run` and `execute_agent_workflow_run` "do not raise"
  (`P/analysis_bridge.py:47`, `P/agent_workflow_bridge.py:419`), but a transaction
  outside the `try` block, or in an `except` block, ends the task with an exception
  in a future nobody reads, and the run stays as it is: `raised` in `RunLifecycle`.
- `apply_migrations` is "idempotent" and "safe to call multiple times"
  (`storage/db_migrations.py:2`, `:776`).  A stop between the `ALTER TABLE` of 18, 34,
  51, 54, 55, 56, 62, 64 or 65 and its version row, or half way through 23, makes
  every later start raise until somebody repairs the file by hand; `RaisesForCause`
  says that there is no other such place.  Of two callers that start at once on a
  file that is behind, one usually raises (`schema_versions.version` is a primary
  key); the file is whole all the same.
- The two projections can lose a tool when two grants overlap
  (`ProjectionsInSync` is checked for one handler).
- `clear_for_tool` after a revocation can delete the permissions of a grant made
  in between.
- A folder assigned again keeps its eligibility, a file does not.
- The intake leaves its draft behind when `publish_draft` itself fails.
- An item validated between the read and the transaction of `publish_draft` is
  marked published and not installed.
- `publish_changeset` adds items in state draft and never validates, so
  `publish_draft` refuses it.
- An update of a builtin does not replace its code and is entered in the ledger
  at every start; a pack of `register_source` is deactivated by the next sync.
- Ids that differ only in `.`, `-` or `_` share one directory of files.
- A composite whose component was retired makes `hydrate_registry` raise
  (`P/capability_catalog_service.py:268`).
- `README.md:28` of the repository wants a new output directory for each analysis;
  `P/analysis_bridge.py:156-160` uses `<repo>/output` every time.  There, an analysis
  after an edit, or under a narrower Keycard, takes the earlier inventory over as it is.
- A JSON file that is cut off makes every later analysis of that directory fail
  until somebody deletes it.
- After a stop between a JSON file and its Markdown, later analyses name a Markdown
  file that is not there.
- The pending rows made before a `ValueError` for a later workflow of the same
  trigger are never executed, and no startup code repairs rows left by a crash.

*Workflows.*
- `AgentWorkflowEntry.from_row` (`agents/spec.py:166`) reads empty `assigned_triggers` as
  `["manual"]`, so a workflow taken off its trigger (`P/agent_workflow_service.py:38`) is
  back on it; the model has this as `Entry`.
- "One-time lazy migration — runs on first access, never again"
  (`P/agent_workflow_service.py:250`): after the last row is deleted the next list makes
  the old workflow again, and two first lists make it twice.
- An update may make a combination contain itself (`P/draft_service.py:427`); calling it
  ends in a `RecursionError`.
- `capability_registry["dotted.id"]` is not seen by `_extract_invoked_capability_ids`.
- A `SyntaxError` of the code at submission is no `ValueError`: the request ends with a
  500, and the runs made for earlier workflows stay pending.
- Target resolution by intersection does not ask for the folder's global eligibility.
- Applying a blueprint again does not activate a workflow that was deactivated.
- Errors of an apply "are collected and raised together", but those of grants and folders
  are swallowed, and `applied_at` is written all the same.  Nobody constructs
  `AgentBlueprintService`.
- An update reads a row and writes all its columns: of two at once, one is lost.

*Static analysis.*
- The second pass makes entry points of files and classes too (against
  `E/analysis/flow_builder.py:84-88`).
- A method of a file is taken before an imported name; `import a.b` binds the head; a
  `from pkg import sub` has no edge to `pkg/sub.py`; packages without `__init__` are not
  resolved; a relative import that leaves the repository is clamped to its root; a call
  by the name of a builtin is never resolved, even to a definition of that name.
- In the root package `from . import x` looks for a module `__root__.x`, which no file is
  (`E/analysis/relations.py:1061`, with the name of `:195`), so the import of a module next
  to it stays unresolved; a file `__root__.py` at the top shares that name with the package.
- Two flows with roots of one name have one `flow_id`.
- A repository of scripts with only external imports fails `relation_map_not_empty`;
  `ChecksMeanSomething` states exactly when.
- A file that is not UTF-8 fails the whole analysis
  (`E/packs/analysis_pipeline.py:42-52`), one that does not parse only itself.

*Meaning layer* (`E/agentic/tasks/`).
- `ActionRecord` has no dimension, so what `function_meaning.py:217-272` and the layers
  above derive of dimensions is always empty.
- A call never raises the confidence of evidence an import gave before
  (`abilities.py:612-614`, "Upgrade confidence if we found a higher one"), so it depends
  on the order of the files.
- The test for a side effect is a substring of a text that names the scope too
  (`abilities.py:589-591`).
- A function with a namesake in its file may have no record
  (`function_meaning.py:155`, against its `:4-5`).
- A decorator is recorded in the scope around its function (`E/analysis/extractor.py:305`),
  so the handler of a route is "discovered", not resolved; plain imports have no module and
  match no pattern; `file_purpose.py:101` reads `type` where the records have
  `symbol_type`.
- `workflows.py` keeps one file per name (against `:3-4`) and takes a file `f.py` of the
  root and `p/f.py` for one (`:33-37`).
- A module can have medium confidence without evidence and count as not inferred.

## 7. What is not modelled

- *Drafts and catalog:* names, descriptions and version strings,
  `set_draft_lifecycle_state` (no caller), package objects, source registrations, JSON and
  text forms of published files; `invalidate` and `register` of the registry (no caller
  outside tests); the dialogue of the intake with a provider, its file tools and its
  code generation.
- *Agents:* creation and deletion (single rows); storing and editing a blueprint (single
  statements on a table nothing else reads); host composition, roles and the contract of a
  capability's result (put together once, before anything runs).
- *Analysis:* two analyses of one directory at the same time, `NoCachePolicy`, which of
  several exceptions of a stage is raised, the execution log of combinations; texts,
  layout and writers of reports; narration by a provider beyond its stages.
- *Events:* the cursor of the clients, which reads the wall clock, and the framework's own
  log tables.
- *Providers, surfaces, web routing and pages, desktop shell, loading of trusted code:*
  no state beyond single rows or the request, presentation, or external.
