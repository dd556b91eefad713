---------------------------- MODULE RunLifecycle ----------------------------
(***************************************************************************)
(* The platform's run engine: the request handlers that create runs        *)
(* (submit_analysis_run, submit_agent_workflow_run) and toggle an agent    *)
(* (AgentService.set_active), the thread pool that executes runs           *)
(* (execute_analysis_run, execute_agent_workflow_run), and the SQLite rows *)
(* they share.  A step is one database transaction, or one call that       *)
(* touches no shared state; any transaction may raise (Fault...), and the  *)
(* process may stop at any point (Crash).                                  *)
(***************************************************************************)
EXTENDS Integers, Sequences, FiniteSets

CONSTANTS
    Agents,       \* agent ids
    NoAgent,      \* agent_id = None: a headless analysis
    Clients,      \* request-handler threads
    Workers,      \* threads of the pool (four in the application)
    Kinds,        \* bound: the kinds of submission the clients make
    MaxRuns,      \* bound: run ids handed out
    MaxOutputs,   \* bound: outputs one run records
    MaxToggles,   \* bound: calls of set_active
    MaxFaults,    \* bound: transactions that raise
    MaxCrashes    \* bound: stops of the process

Kind == {"analysis", "manual", "trigger"}

ASSUME RunConstants ==
    /\ NoAgent \notin Agents /\ Kinds \subseteq Kind
    /\ MaxRuns \in Nat /\ MaxOutputs \in Nat /\ MaxToggles \in Nat
    /\ MaxFaults \in Nat /\ MaxCrashes \in Nat

Runs   == 1 .. MaxRuns
NoRun  == 0
Owners == Agents \cup {NoAgent}

Terminal == {"completed", "failed"}
Status   == {"none", "pending", "running"} \cup Terminal
Event    == {"info", "running", "output_ready", "completed", "failed",
             "error", "warning"}

(* An agent's current_state section: activation_status and current_run_id. *)
Section == [mode : {"active", "inactive"}, run : Runs \cup {NoRun}]

(* One call handed to executor.submit; only an analysis may be headless.   *)
Task == {t \in [kind : Kind, agent : Owners, runs : SUBSET Runs] :
           t.kind = "analysis" \/ t.agent \in Agents}

SubmitStep == {"gate", "create", "note", "dispatch"}
ToggleStep == {"row", "spec", "activation", "state"}

(* made: runs this request created; want, seen: set_active's argument and  *)
(* the spec it read.                                                       *)
Client == [pc : {"idle"} \cup SubmitStep \cup ToggleStep,
           kind : Kind, agent : Owners, made : SUBSET Runs,
           fresh : Runs \cup {NoRun}, want : BOOLEAN, seen : Section]

WorkStep == {"announce", "start", "lookup", "setRead", "setWrite", "setWarn",
             "work", "record", "ready", "complete", "doneEvent", "clearRead",
             "clearWrite", "clearWarn", "fail", "failEvent", "errorEvent",
             "done"}

(* run: the run being executed; todo: the later runs of a manual batch;    *)
(* result: what the work returned; raising: an exception is leaving the    *)
(* function through its finally block.                                     *)
Worker == [pc : {"idle"} \cup WorkStep, kind : Kind, agent : Owners,
           run : Runs \cup {NoRun}, todo : SUBSET Runs, seen : Section,
           result : {"ok", "err"}, raising : BOOLEAN]

VARIABLES
    status, agentOf,      \* analysis_runs: status, agent_id
    log, outputs,         \* run_events in order, number of run_outputs
    isActive,             \* agents.is_active
    activation, section,  \* the sections "activation" and "current_state"
    queue,                \* the executor's work queue
    client, worker,       \* the threads
    raised,               \* runs whose task ended with an exception
    toggles, faults, crashes

dbVars   == <<status, agentOf, log, outputs, isActive, activation, section>>
bounds   == <<toggles, faults, crashes>>
vars     == <<dbVars, queue, client, worker, raised, bounds>>

IdleClient == [pc |-> "idle", kind |-> "analysis", agent |-> NoAgent,
               made |-> {}, fresh |-> NoRun, want |-> FALSE,
               seen |-> [mode |-> "inactive", run |-> NoRun]]
IdleWorker == [pc |-> "idle", kind |-> "analysis", agent |-> NoAgent,
               run |-> NoRun, todo |-> {}, result |-> "ok", raising |-> FALSE,
               seen |-> [mode |-> "inactive", run |-> NoRun]]

Init ==
    /\ status   = [r \in Runs |-> "none"]
    /\ agentOf  = [r \in Runs |-> NoAgent]
    /\ log      = [r \in Runs |-> <<>>]
    /\ outputs  = [r \in Runs |-> 0]
    /\ isActive \in [Agents -> BOOLEAN]
    /\ activation = isActive
    /\ section  = [a \in Agents |->
                     [mode |-> IF isActive[a] THEN "active" ELSE "inactive",
                      run  |-> NoRun]]
    /\ queue    = <<>>
    /\ client   = [c \in Clients |-> IdleClient]
    /\ worker   = [w \in Workers |-> IdleWorker]
    /\ raised   = {}
    /\ toggles = 0 /\ faults = 0 /\ crashes = 0

IsLeast(r, S) == r \in S /\ \A q \in S : r <= q

Append1(r, e) == log' = [log EXCEPT ![r] = Append(@, e)]

-----------------------------------------------------------------------------
(* Submission, in a request-handler thread.                                *)

SetClient(c, x) == client' = [client EXCEPT ![c] = x]

Goto(c, p) == SetClient(c, [client[c] EXCEPT !.pc = p])
Answer(c)  == SetClient(c, IdleClient)

Submit(c, k, a) ==
    /\ client[c].pc = "idle"
    /\ a = NoAgent => k = "analysis"
    /\ SetClient(c, [IdleClient EXCEPT !.kind = k, !.agent = a,
                       !.pc = IF a = NoAgent THEN "create" ELSE "gate"])
    /\ UNCHANGED <<dbVars, queue, worker, raised, bounds>>

(* get_active_or_raise: an inactive agent is answered 409.                 *)
Gate(c) ==
    /\ client[c].pc = "gate"
    /\ IF isActive[client[c].agent] THEN Goto(c, "create") ELSE Answer(c)
    /\ UNCHANGED <<dbVars, queue, worker, raised, bounds>>

(* RunService.create; run ids are fresh and ordered by creation.           *)
Create(c) ==
    /\ client[c].pc = "create"
    /\ \E r \in Runs :
         /\ status[r] = "none"
         /\ \A q \in Runs : q < r => status[q] # "none"
         /\ status'  = [status EXCEPT ![r] = "pending"]
         /\ agentOf' = [agentOf EXCEPT ![r] = client[c].agent]
         /\ SetClient(c, [client[c] EXCEPT !.pc = "note", !.fresh = r])
    /\ UNCHANGED <<log, outputs, isActive, activation, section, queue, worker,
                   raised, bounds>>

(* The "queued" event; an agent workflow may have further targets.         *)
Note(c) ==
    /\ client[c].pc = "note"
    /\ Append1(client[c].fresh, "info")
    /\ \E p \in {"create", "dispatch"} :
         /\ client[c].kind = "analysis" => p = "dispatch"
         /\ SetClient(c, [client[c] EXCEPT !.pc = p, !.fresh = NoRun,
                                           !.made = @ \cup {client[c].fresh}])
    /\ UNCHANGED <<status, agentOf, outputs, isActive, activation, section,
                   queue, worker, raised, bounds>>

(* The provider of an analysis, or the targets of a workflow, cannot be    *)
(* resolved.  Runs made for earlier workflows stay in the table.           *)
Refuse(c) ==
    /\ client[c].pc = "create"
    /\ Answer(c)
    /\ UNCHANGED <<dbVars, queue, worker, raised, bounds>>

(* Defect: the call to executor.submit is inside the loop over the targets *)
(* and hands over all the runs made so far.                                *)
DispatchInLoop(c) ==
    /\ client[c].pc = "dispatch"
    /\ queue' = Append(queue, [kind |-> client[c].kind, agent |-> client[c].agent,
                               runs |-> client[c].made])
    /\ Goto(c, "create") \/ Answer(c)
    /\ UNCHANGED <<dbVars, worker, raised, bounds>>

(* executor.submit: one task for an analysis or a manual batch, one task   *)
(* per run, in order, for any other trigger.                               *)
Dispatch(c) ==
    /\ client[c].pc = "dispatch"
    /\ \E batch \in SUBSET client[c].made :
         /\ IF client[c].kind = "trigger"
              THEN \E r \in batch : IsLeast(r, client[c].made) /\ batch = {r}
              ELSE batch = client[c].made
         /\ queue' = Append(queue, [kind |-> client[c].kind,
                                    agent |-> client[c].agent, runs |-> batch])
         /\ IF batch = client[c].made
              THEN Answer(c)
              ELSE SetClient(c, [client[c] EXCEPT !.made = @ \ batch])
    /\ UNCHANGED <<dbVars, worker, raised, bounds>>

(* A transaction of the handler raises.  RunService.create reads its row   *)
(* back after the commit, so the row may be there all the same; an agent's *)
(* analysis reads its keycards before the task is handed over.             *)
SubmitFault(c) ==
    /\ faults < MaxFaults
    /\ \/ client[c].pc \in {"gate", "create", "note"}
       \/ client[c].pc = "dispatch" /\ client[c].kind = "analysis"
            /\ client[c].agent # NoAgent
    /\ faults' = faults + 1
    /\ Answer(c)
    /\ UNCHANGED <<dbVars, queue, worker, raised, toggles, crashes>>

-----------------------------------------------------------------------------
(* AgentService.set_active: four transactions.                             *)

ToggleCall(c, a, on) ==
    /\ client[c].pc = "idle" /\ toggles < MaxToggles
    /\ toggles' = toggles + 1
    /\ SetClient(c, [IdleClient EXCEPT !.pc = "row", !.agent = a, !.want = on])
    /\ UNCHANGED <<dbVars, queue, worker, raised, faults, crashes>>

ToggleRow(c) ==
    /\ client[c].pc = "row"
    /\ isActive' = [isActive EXCEPT ![client[c].agent] = client[c].want]
    /\ Goto(c, "spec")
    /\ UNCHANGED <<status, agentOf, log, outputs, activation, section, queue,
                   worker, raised, bounds>>

ToggleSpec(c) ==
    /\ client[c].pc = "spec"
    /\ SetClient(c, [client[c] EXCEPT !.pc = "activation",
                                      !.seen = section[client[c].agent]])
    /\ UNCHANGED <<dbVars, queue, worker, raised, bounds>>

(* Defect: writes back what the spec read a step before said.              *)
ToggleActivationBack(c) ==
    /\ client[c].pc = "activation"
    /\ activation' = [activation EXCEPT ![client[c].agent] =
                        client[c].seen.mode = "active"]
    /\ Goto(c, "state")
    /\ UNCHANGED <<status, agentOf, log, outputs, isActive, section, queue,
                   worker, raised, bounds>>

ToggleActivation(c) ==
    /\ client[c].pc = "activation"
    /\ activation' = [activation EXCEPT ![client[c].agent] = client[c].want]
    /\ Goto(c, "state")
    /\ UNCHANGED <<status, agentOf, log, outputs, isActive, section, queue,
                   worker, raised, bounds>>

ToggleState(c) ==
    /\ client[c].pc = "state"
    /\ section' = [section EXCEPT ![client[c].agent] =
                     [mode |-> IF client[c].want THEN "active" ELSE "inactive",
                      run  |-> client[c].seen.run]]
    /\ Answer(c)
    /\ UNCHANGED <<status, agentOf, log, outputs, isActive, activation, queue,
                   worker, raised, bounds>>

ToggleFault(c) ==
    /\ faults < MaxFaults
    /\ client[c].pc \in ToggleStep
    /\ faults' = faults + 1
    /\ Answer(c)
    /\ UNCHANGED <<dbVars, queue, worker, raised, toggles, crashes>>

-----------------------------------------------------------------------------
(* Execution, in a thread of the pool.  The two functions take the same    *)
(* steps in different orders: an analysis clears the agent's pointer       *)
(* before it stores a failure and before it announces completion, a        *)
(* workflow does so last, in its finally block.                            *)

(* Defect: a failed analysis clears the pointer and returns.               *)
AfterClearNoFail(k, result) ==
    IF k = "analysis" /\ result = "ok" THEN "doneEvent" ELSE "done"

AfterClear(k, result) ==
    IF k # "analysis" THEN "done"
    ELSE IF result = "ok" THEN "doneEvent" ELSE "fail"

Clear(k, a, result) == IF a = NoAgent THEN AfterClear(k, result) ELSE "clearRead"

AfterStart(k)           == IF k = "analysis" THEN "lookup" ELSE "setRead"
AfterLookup(a)          == IF a = NoAgent THEN "work" ELSE "setRead"
(* Defect: a failed analysis leaves the pointer alone.                     *)
AfterBadWorkNoClear(k, a) == "fail"
AfterBadWork(k, a)      == IF k = "analysis" THEN Clear(k, a, "err") ELSE "fail"
AfterComplete(k, a)     == IF k = "analysis" THEN Clear(k, a, "ok") ELSE "doneEvent"
AfterLastEvent(k)       == IF k = "analysis" THEN "done" ELSE "clearRead"

SetWorker(w, x) == worker' = [worker EXCEPT ![w] = x]

Step(w, p) == SetWorker(w, [worker[w] EXCEPT !.pc = p])

(* A free thread takes the oldest task.                                    *)
Begin(w, k, a, runs) ==
    \E r \in runs :
      /\ IsLeast(r, runs)
      /\ SetWorker(w, [IdleWorker EXCEPT !.pc = "announce", !.kind = k,
                         !.agent = a, !.run = r, !.todo = runs \ {r}])

Take(w) ==
    /\ worker[w].pc = "idle" /\ queue # <<>>
    /\ Begin(w, Head(queue).kind, Head(queue).agent, Head(queue).runs)
    /\ queue' = Tail(queue)
    /\ UNCHANGED <<dbVars, client, raised, bounds>>

Announce(w) ==
    /\ worker[w].pc = "announce"
    /\ Append1(worker[w].run, "running")
    /\ Step(w, "start")
    /\ UNCHANGED <<status, agentOf, outputs, isActive, activation, section,
                   queue, client, raised, bounds>>

(* Defect: the whole batch is marked running at once.                      *)
StartBatch(w) ==
    /\ worker[w].pc = "start"
    /\ status' = [r \in Runs |-> IF r \in worker[w].todo \cup {worker[w].run}
                                   THEN "running" ELSE status[r]]
    /\ Step(w, AfterStart(worker[w].kind))
    /\ UNCHANGED <<agentOf, log, outputs, isActive, activation, section,
                   queue, client, raised, bounds>>

Start(w) ==
    /\ worker[w].pc = "start"
    /\ status' = [status EXCEPT ![worker[w].run] = "running"]
    /\ Step(w, AfterStart(worker[w].kind))
    /\ UNCHANGED <<agentOf, log, outputs, isActive, activation, section,
                   queue, client, raised, bounds>>

(* run_service.get_or_raise: the agent is the one stored with the run.     *)
Lookup(w) ==
    LET a == agentOf[worker[w].run]
    IN  /\ worker[w].pc = "lookup"
        /\ SetWorker(w, [worker[w] EXCEPT !.pc = AfterLookup(a), !.agent = a])
        /\ UNCHANGED <<dbVars, queue, client, raised, bounds>>

(* set_current_run reads the whole spec ...                                *)
PointerRead(w) ==
    /\ worker[w].pc \in {"setRead", "clearRead"}
    /\ SetWorker(w, [worker[w] EXCEPT
                       !.pc = IF @ = "setRead" THEN "setWrite" ELSE "clearWrite",
                       !.seen = section[worker[w].agent]])
    /\ UNCHANGED <<dbVars, queue, client, raised, bounds>>

(* ... and writes the section back with the run id replaced.               *)
WriteSection(w, r) ==
    section' = [section EXCEPT ![worker[w].agent] =
                  [mode |-> worker[w].seen.mode, run |-> r]]

PointerWrite(w) ==
    /\ \/ /\ worker[w].pc = "setWrite"
          /\ WriteSection(w, worker[w].run)
          /\ Step(w, "work")
       \/ /\ worker[w].pc = "clearWrite"
          /\ WriteSection(w, NoRun)
          /\ Step(w, AfterClear(worker[w].kind, worker[w].result))
    /\ UNCHANGED <<status, agentOf, log, outputs, isActive, activation, queue,
                   client, raised, bounds>>

(* _set/_clear_agent_current_run report a failed pointer write as an event.*)
PointerWarn(w) ==
    /\ \/ worker[w].pc = "setWarn"   /\ Step(w, "work")
       \/ worker[w].pc = "clearWarn"
            /\ Step(w, AfterClear(worker[w].kind, worker[w].result))
    /\ Append1(worker[w].run, "warning")
    /\ UNCHANGED <<status, agentOf, outputs, isActive, activation, section,
                   queue, client, raised, bounds>>

(* The orchestrator, or the agent's workflow code: returns or fails.       *)
Work(w) ==
    /\ worker[w].pc = "work"
    /\ \E result \in {"ok", "err"} :
         SetWorker(w, [worker[w] EXCEPT
           !.result = result,
           !.pc = IF result = "ok" THEN "record"
                  ELSE AfterBadWork(worker[w].kind, worker[w].agent)])
    /\ UNCHANGED <<dbVars, queue, client, raised, bounds>>

(* output_service.record for each output; a file also gets an event.       *)
Record(w) ==
    /\ worker[w].pc = "record"
    /\ \/ /\ outputs[worker[w].run] < MaxOutputs
          /\ outputs' = [outputs EXCEPT ![worker[w].run] = @ + 1]
          /\ \E p \in {"record", "ready"} : Step(w, p)
       \/ /\ UNCHANGED outputs
          /\ Step(w, "complete")
    /\ UNCHANGED <<status, agentOf, log, isActive, activation, section, queue,
                   client, raised, bounds>>

Ready(w) ==
    /\ worker[w].pc = "ready"
    /\ Append1(worker[w].run, "output_ready")
    /\ Step(w, "record")
    /\ UNCHANGED <<status, agentOf, outputs, isActive, activation, section,
                   queue, client, raised, bounds>>

Complete(w) ==
    /\ worker[w].pc = "complete"
    /\ status' = [status EXCEPT ![worker[w].run] = "completed"]
    /\ Step(w, AfterComplete(worker[w].kind, worker[w].agent))
    /\ UNCHANGED <<agentOf, log, outputs, isActive, activation, section, queue,
                   client, raised, bounds>>

DoneEvent(w) ==
    /\ worker[w].pc = "doneEvent"
    /\ Append1(worker[w].run, "completed")
    /\ Step(w, AfterLastEvent(worker[w].kind))
    /\ UNCHANGED <<status, agentOf, outputs, isActive, activation, section,
                   queue, client, raised, bounds>>

Fail(w) ==
    /\ worker[w].pc = "fail"
    /\ status' = [status EXCEPT ![worker[w].run] = "failed"]
    /\ Step(w, "failEvent")
    /\ UNCHANGED <<agentOf, log, outputs, isActive, activation, section, queue,
                   client, raised, bounds>>

FailEvents(w) ==
    /\ \/ /\ worker[w].pc = "failEvent"
          /\ Append1(worker[w].run, "failed")
          /\ Step(w, "errorEvent")
       \/ /\ worker[w].pc = "errorEvent"
          /\ Append1(worker[w].run, "error")
          /\ Step(w, AfterLastEvent(worker[w].kind))
    /\ UNCHANGED <<status, agentOf, outputs, isActive, activation, section,
                   queue, client, raised, bounds>>

(* The function ends.  The batch goes on with its next run, unless an      *)
(* exception left the function: then the task is over, the rest of the     *)
(* batch with it, and the exception stays in a future nobody reads.        *)
NextRun(w) == Begin(w, worker[w].kind, worker[w].agent, worker[w].todo)

TaskOver(w) == SetWorker(w, IdleWorker)

(* Defect: the batch goes on after an exception.                           *)
ReturnAnyway(w) ==
    /\ worker[w].pc = "done"
    /\ IF worker[w].todo = {} THEN TaskOver(w) ELSE NextRun(w)
    /\ UNCHANGED <<dbVars, queue, client, raised, bounds>>

(* Defect: the batch stops after its first run.                            *)
ReturnFirst(w) ==
    /\ worker[w].pc = "done"
    /\ TaskOver(w)
    /\ UNCHANGED <<dbVars, queue, client, raised, bounds>>

Return(w) ==
    /\ worker[w].pc = "done"
    /\ IF worker[w].raising
         THEN TaskOver(w) /\ raised' = raised \cup {worker[w].run}
         ELSE /\ UNCHANGED raised
              /\ IF worker[w].todo = {} THEN TaskOver(w) ELSE NextRun(w)
    /\ UNCHANGED <<dbVars, queue, client, bounds>>

-----------------------------------------------------------------------------
(* A transaction of the task raises (locked or closed database, I/O error).*)

(* Nothing encloses the call: the exception ends the task.                 *)
Escape(w) ==
    /\ TaskOver(w)
    /\ raised' = raised \cup {worker[w].run}

AnalysisFault(w) ==
    /\ worker[w].kind = "analysis"
    /\ \/ worker[w].pc = "setRead"    /\ Step(w, "setWarn")   /\ UNCHANGED raised
       \/ worker[w].pc = "setWrite"   /\ Step(w, "setWarn")   /\ UNCHANGED raised
       \/ worker[w].pc = "clearRead"  /\ Step(w, "clearWarn") /\ UNCHANGED raised
       \/ worker[w].pc = "clearWrite" /\ Step(w, "clearWarn") /\ UNCHANGED raised
       \/ /\ worker[w].pc \in {"announce", "start", "lookup", "setWarn",
                               "record", "ready", "complete", "doneEvent",
                               "clearWarn", "fail", "failEvent", "errorEvent"}
          /\ Escape(w)

(* Defect: the pointer is cleared inside the try block.                    *)
WorkflowFaultClear(w) ==
    /\ worker[w].kind # "analysis"
    /\ worker[w].pc \in {"record", "ready", "complete", "doneEvent",
                         "clearRead", "clearWrite"}
    /\ SetWorker(w, [worker[w] EXCEPT !.pc = "fail", !.result = "err"])
    /\ UNCHANGED raised

(* Defect: the try block begins before mark_running.                       *)
WorkflowFaultEarly(w) ==
    /\ worker[w].kind # "analysis"
    /\ worker[w].pc \in {"announce", "start", "record", "ready", "complete",
                         "doneEvent"}
    /\ SetWorker(w, [worker[w] EXCEPT !.pc = "fail", !.result = "err"])
    /\ UNCHANGED raised

WorkflowFault(w) ==
    /\ worker[w].kind # "analysis"
    /\ \/ worker[w].pc \in {"announce", "start"} /\ Escape(w)
       \/ /\ worker[w].pc \in {"setRead", "setWrite"}
          /\ Step(w, "work") /\ UNCHANGED raised
       \/ /\ worker[w].pc \in {"record", "ready", "complete", "doneEvent"}
          /\ SetWorker(w, [worker[w] EXCEPT !.pc = "fail", !.result = "err"])
          /\ UNCHANGED raised
       \/ /\ worker[w].pc \in {"fail", "failEvent", "errorEvent"}
          /\ SetWorker(w, [worker[w] EXCEPT !.pc = "clearRead", !.raising = TRUE])
          /\ UNCHANGED raised
       \/ /\ worker[w].pc \in {"clearRead", "clearWrite"}
          /\ Step(w, "done") /\ UNCHANGED raised

TaskFault(w) ==
    /\ faults < MaxFaults
    /\ faults' = faults + 1
    /\ AnalysisFault(w) \/ WorkflowFault(w)
    /\ UNCHANGED <<dbVars, queue, client, toggles, crashes>>

(* The process stops and is started again: only the database is left.      *)
Crash ==
    /\ crashes < MaxCrashes
    /\ crashes' = crashes + 1
    /\ client' = [c \in Clients |-> IdleClient]
    /\ worker' = [w \in Workers |-> IdleWorker]
    /\ queue'  = <<>>
    /\ raised' = {}
    /\ UNCHANGED <<dbVars, toggles, faults>>

-----------------------------------------------------------------------------
ClientStep(c) ==
    \/ \E k \in Kinds, a \in Owners : Submit(c, k, a)
    \/ Gate(c) \/ Create(c) \/ Note(c) \/ Refuse(c) \/ Dispatch(c)
    \/ SubmitFault(c)
    \/ \E a \in Agents, on \in BOOLEAN : ToggleCall(c, a, on)
    \/ ToggleRow(c) \/ ToggleSpec(c) \/ ToggleActivation(c) \/ ToggleState(c)
    \/ ToggleFault(c)

(* The steps a pool thread takes when nothing raises.                      *)
Progress(w) ==
    \/ Take(w) \/ Announce(w) \/ Start(w) \/ Lookup(w)
    \/ PointerRead(w) \/ PointerWrite(w) \/ PointerWarn(w)
    \/ Work(w) \/ Record(w) \/ Ready(w) \/ Complete(w) \/ DoneEvent(w)
    \/ Fail(w) \/ FailEvents(w) \/ Return(w)

Next ==
    \/ \E c \in Clients : ClientStep(c)
    \/ \E w \in Workers : Progress(w) \/ TaskFault(w)
    \/ Crash

Spec == Init /\ [][Next]_vars

(* Pool threads keep running, and the work they call returns; clients and  *)
(* faults owe nothing.                                                     *)
FairSpec == Spec /\ \A w \in Workers : WF_vars(Progress(w))
-----------------------------------------------------------------------------
(* Properties.                                                             *)

TypeOK ==
    /\ status  \in [Runs -> Status]
    /\ agentOf \in [Runs -> Owners]
    /\ log     \in [Runs -> Seq(Event)]
    /\ outputs \in [Runs -> Nat]
    /\ isActive   \in [Agents -> BOOLEAN]
    /\ activation \in [Agents -> BOOLEAN]
    /\ section \in [Agents -> Section]
    /\ queue   \in Seq(Task)
    /\ client  \in [Clients -> Client]
    /\ worker  \in [Workers -> Worker]
    /\ raised  \subseteq Runs
    /\ toggles \in Nat /\ faults \in Nat /\ crashes \in Nat

(* Who will still execute a run: the handler that has just created it, the *)
(* queue, or a pool thread.                                                *)
WithClient(c) == client[c].made \cup ({client[c].fresh} \ {NoRun})
Waiting(w)    == worker[w].todo
Holding(w)    == Waiting(w) \cup ({worker[w].run} \ {NoRun})
QueuedIn(q)   == UNION {q[i].runs : i \in DOMAIN q}
Queued        == QueuedIn(queue)

Disjoint(q) == \A i, j \in DOMAIN q : i # j => q[i].runs \cap q[j].runs = {}

(* No run is executed twice: whatever the handlers and the pool do, a run  *)
(* has at most one place in the handlers, the queue and the pool together. *)
SingleOwner ==
    /\ \A c \in Clients : WithClient(c) \cap Queued = {}
    /\ \A w \in Workers : Holding(w) \cap Queued = {}
    /\ \A c \in Clients, w \in Workers : WithClient(c) \cap Holding(w) = {}
    /\ \A c, d \in Clients : c # d => WithClient(c) \cap WithClient(d) = {}
    /\ \A v, w \in Workers : v # w => Holding(v) \cap Holding(w) = {}
    /\ Disjoint(queue)

(* A run that waits for its turn, in a handler, in the queue or behind     *)
(* another run of its batch, is still pending and has announced nothing.   *)
WaitingIsPending ==
    \A r \in Runs :
      (\/ \E c \in Clients : r \in WithClient(c)
       \/ r \in Queued
       \/ \E w \in Workers : r \in Waiting(w))
      => status[r] = "pending"

Says(events, e) == \E i \in DOMAIN events : events[i] = e

Logged(r, e) == Says(log[r], e)

(* A status_change event is never a lie, at whatever step the task was cut *)
(* off: the log says "completed" or "failed" only of a run whose row says  *)
(* so, although row and event are written in separate transactions and a   *)
(* completed workflow may be turned into a failed one.                     *)
EventsAreTrue ==
    \A r \in Runs :
      /\ Logged(r, "completed") => status[r] = "completed"
      /\ Logged(r, "failed")    => status[r] = "failed"

(* A row says "running" only while a thread has the run, or if its task    *)
(* ended with an exception, or since the process stopped: no interleaving  *)
(* of handlers and threads, and no exception that the code catches, loses  *)
(* a run.                                                                  *)
RunningHasThread ==
    \A r \in Runs :
      status[r] = "running" =>
        (\E w \in Workers : worker[w].run = r) \/ r \in raised \/ crashes > 0

(* However the executions of runs of one agent overlap, when none is left  *)
(* the agent's current_run_id is empty (no set_active, fault or crash).    *)
PointerAtRest ==
    /\ toggles = 0 /\ faults = 0 /\ crashes = 0
    /\ \A w \in Workers : worker[w].pc = "idle"
    => \A a \in Agents : section[a].run = NoRun

(* "The next run only starts after the previous one finishes (or fails)":  *)
(* a thread begins the next run of a batch only when the row of the last   *)
(* one is terminal.                                                        *)
BatchIsSequential ==
    [][\A w \in Workers :
         worker'[w].run \in worker[w].todo => status[worker[w].run] \in Terminal]_vars

(* The status column obeys its contract, for every interleaving, fault and *)
(* crash.                                                                  *)
RC == INSTANCE RunContract WITH Runs <- Runs, status <- status
StatusContract == RC!Spec

(* Every run that was handed over to the executor reaches a final status,  *)
(* if no transaction raises and the process does not stop.                 *)
EveryRunEnds ==
    \A r \in Runs : (r \in Queued) ~> (status[r] \in Terminal)

(* The activation section follows agents.is_active although set_active     *)
(* writes the two in separate transactions while threads rewrite the       *)
(* agent's other section: with one set_active at a time they agree         *)
(* whenever none is under way.                                             *)
ActivationSectionInSync ==
    faults = 0 /\ crashes = 0 /\ (\A c \in Clients : client[c].pc \notin ToggleStep)
      => activation = isActive

-----------------------------------------------------------------------------
(* The inductive strengthening behind the theorems.                        *)

(* What the program counters say about the other fields of a thread.       *)
ClientForm(x) ==
    /\ x.pc = "note" => x.fresh \in Runs
    /\ x.pc # "note" => x.fresh = NoRun
    /\ x.pc \in {"idle"} \cup ToggleStep => x.made = {}
    /\ x.pc \in {"gate"} \cup ToggleStep => x.agent \in Agents
    /\ x.kind # "analysis" => x.agent \in Agents

WorkerForm(x) ==
    /\ x.pc # "idle" => x.run \in Runs
    /\ x.pc = "idle" => x.run = NoRun /\ x.todo = {}
    /\ x.run \notin x.todo
    /\ x.kind # "analysis" => x.agent \in Agents
    /\ x.pc = "lookup" => x.kind = "analysis"
    /\ x.pc \in {"setRead", "setWrite", "clearRead", "clearWrite"} => x.agent \in Agents

Shape ==
    /\ \A c \in Clients : ClientForm(client[c])
    /\ \A w \in Workers : WorkerForm(worker[w])

(* What the program counter of a thread says about the row of its run.     *)
RowAt(pc, k, result, st) ==
    CASE pc \in {"announce", "start"} -> st = "pending"
      [] pc \in {"lookup", "setRead", "setWrite", "setWarn", "work"} -> st = "running"
      [] pc \in {"record", "ready", "complete"} -> st = "running" /\ result = "ok"
      [] pc = "doneEvent" -> st = "completed" /\ result = "ok"
      [] pc = "fail" -> st = "running" \/ (k # "analysis" /\ st = "completed")
      [] pc \in {"failEvent", "errorEvent"} -> st = "failed"
      [] pc \in {"clearRead", "clearWrite", "clearWarn"} ->
           IF k # "analysis" THEN st \in {"running", "completed", "failed"}
           ELSE st = IF result = "ok" THEN "completed" ELSE "running"
      [] OTHER -> st \in {"running", "completed", "failed"}

Rows ==
    \A w \in Workers :
      worker[w].pc # "idle" =>
        RowAt(worker[w].pc, worker[w].kind, worker[w].result, status[worker[w].run])

(* A thread that leaves its run without an exception leaves it finished.   *)
Ending(x) ==
    \/ x.pc = "done"
    \/ x.kind # "analysis" /\ x.pc \in {"clearRead", "clearWrite", "clearWarn"}

Ended ==
    \A w \in Workers :
      Ending(worker[w]) => worker[w].raising \/ status[worker[w].run] \in Terminal

(* What an announced end says about the thread that still has the run.     *)
Announced ==
    \A r \in Runs :
      /\ Logged(r, "completed") =>
           /\ status[r] = "completed"
           /\ \A w \in Workers : worker[w].run = r => Ending(worker[w])
      /\ Logged(r, "failed") =>
           /\ status[r] = "failed"
           /\ \A w \in Workers :
                worker[w].run = r => worker[w].pc = "errorEvent" \/ Ending(worker[w])

(* A thread that has yet to clear the pointer of its agent.                *)
ClearAhead(x) ==
    /\ x.agent \in Agents
    /\ \/ x.pc \in {"work", "record", "ready", "complete", "clearRead", "clearWrite"}
       \/ x.kind # "analysis" /\ x.pc \in {"doneEvent", "fail", "failEvent", "errorEvent"}

(* While nothing raises or stops, a pointer that is set has a thread that  *)
(* will clear it; set_active, which writes it too, has not been called.    *)
Pointed ==
    /\ toggles = 0 => \A c \in Clients : client[c].pc \notin ToggleStep
    /\ toggles = 0 /\ faults = 0 /\ crashes = 0 =>
         \A a \in Agents : section[a].run # NoRun =>
           \E w \in Workers : worker[w].agent = a /\ ClearAhead(worker[w])

(* At most one call of set_active is under way.                            *)
OneToggle ==
    \A c, d \in Clients :
      client[c].pc \in ToggleStep /\ client[d].pc \in ToggleStep => c = d

(* Between its two writes, a call of set_active accounts for a difference. *)
Toggling(x) == x.pc \in {"spec", "activation"}

Followed ==
    /\ \A c \in Clients :
         Toggling(client[c]) => isActive[client[c].agent] = client[c].want
    /\ faults = 0 /\ crashes = 0 =>
         \A a \in Agents :
           \/ activation[a] = isActive[a]
           \/ \E c \in Clients : Toggling(client[c]) /\ client[c].agent = a

IInv == TypeOK /\ Shape /\ SingleOwner /\ WaitingIsPending /\ Rows
=============================================================================
