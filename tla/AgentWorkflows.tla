--------------------------- MODULE AgentWorkflows ---------------------------
(***************************************************************************)
(* The stored workflows of one agent, from the table to the tools: request *)
(* handlers create, change, order and delete them (agent_workflows, and    *)
(* the order in section manual_trigger), promote the workflow of the old   *)
(* single-workflow section, apply a blueprint, and fire the manual         *)
(* trigger, which makes one run per workflow and target and hands them to  *)
(* a worker as one batch; the worker executes their code, whose tool calls *)
(* are those of CapabilityCalls.  A step is one transaction of a handler.  *)
(***************************************************************************)
EXTENDS CapabilityCalls

CONSTANTS
    Codes,       \* instruction_code texts
    Blank,       \* those that are empty
    Broken,      \* those that do not parse
    Attributes,  \* code -> ids it names as capability_registry.<id>
    Calls,       \* code -> the ids it calls, in order, in either syntax
    Forms,       \* what create requests send: <<display_name, code>>
    Explicit,    \* the paths an explicit_paths trigger is configured with
    Legacy,      \* code of the old workflow section; Blank when there is none
    Blueprint,   \* [tools |-> sequence of [cap, scope], folder, eligible |->
                 \*  BOOLEAN, workflows |-> sequence of [name |-> ..] patches]
    Patches,     \* what update requests send: functions on some Columns
    Orders,      \* orders that clients store
    Handlers,    \* request-handler threads
    MaxRows,     \* bound: rows ever created
    MaxRequests  \* bound: requests

Columns  == {"name", "code", "kind", "assigned", "active"}

ASSUME WorkflowConstants ==
    /\ Blank \subseteq Codes /\ Broken \subseteq Codes \ Blank /\ Legacy \in Codes
    /\ Attributes \in [Codes -> SUBSET Ids] /\ Calls \in [Codes -> Seq(Ids)]
    /\ Explicit \subseteq Targets
    /\ Targets \subseteq Nat /\ IsFiniteSet(Targets)  \* numbered as their paths sort
    /\ Orders \subseteq Seq(Nat)
    /\ \A i, j \in DOMAIN Blueprint.workflows :
         Blueprint.workflows[i].name = Blueprint.workflows[j].name => i = j
    /\ \A i, j \in DOMAIN Blueprint.tools :
         Blueprint.tools[i].cap = Blueprint.tools[j].cap => i = j

(* A blueprint's workflows always come with a name, a code and triggers,   *)
(* which have defaults, and never say whether they are active.             *)
ASSUME BlueprintConstants ==
    /\ Blueprint.tools \in Seq([cap : Ids, scope : {"local", "global"}])
    /\ Blueprint.workflows \in Seq({Blueprint.workflows[k] : k \in DOMAIN Blueprint.workflows})
    /\ \A k \in DOMAIN Blueprint.workflows :
         /\ {"name", "code", "assigned"} \subseteq DOMAIN Blueprint.workflows[k]
         /\ DOMAIN Blueprint.workflows[k] \subseteq Columns \ {"active"}

VARIABLES
    rows,      \* agent_workflows: id -> row; ids grow with created_at
    order,     \* the stored manual run order
    stamps,    \* ids given out
    handler,
    disturbed, \* history: handlers during whose request others have written
    runs,      \* run records, as far as they matter here
    batches,   \* what was handed to the executor, oldest first
    worker,
    requests   \* bound: requests made

table   == <<rows, order>>
engine  == <<runs, batches, worker>>
vars    == <<table, stamps, handler, disturbed, engine, requests, callVars>>

NoRows == [i \in {} |-> {}]

(* A row as create makes it, and a row with some columns replaced.         *)
New(n, c) == [name |-> n, code |-> c, kind |-> "intersection",
              assigned |-> {"manual"}, active |-> TRUE]
Patched(p, row) == [c \in Columns |-> IF c \in DOMAIN p THEN p[c] ELSE row[c]]

(* list: the workflows still to be submitted, or the table as it was read; *)
(* made: runs created; failed: a step of the blueprint has; start: the     *)
(* configuration when an apply began.                                      *)
Idle == [pc |-> "idle", op |-> "list", id |-> 0, row |-> <<>>, seen |-> NoRows,
         order |-> <<>>, list |-> <<>>, at |-> 1, made |-> <<>>,
         failed |-> FALSE, start |-> <<>>]

Init ==
    /\ rows = NoRows /\ order = <<>> /\ stamps = 0
    /\ handler = [h \in Handlers |-> Idle]
    /\ disturbed = {}
    /\ runs = <<>> /\ batches = <<>>
    /\ worker = [batch |-> 1, at |-> 1, call |-> 0]
    /\ requests = 0
    /\ granted = Owned /\ scope = [c \in Ids |-> "local"]
    /\ permitted = {} /\ keycard = "none"
    /\ target = (CHOOSE t \in Targets : TRUE) /\ stack = <<>> /\ reply = NoReply
    /\ late = [p \in Ids \X Targets |-> 1]

-----------------------------------------------------------------------------
(* AgentWorkflowEntry.from_row: an empty list of triggers reads as the     *)
(* default one, so a workflow cannot be left without any.                  *)
Entry(row) == [row EXCEPT !.assigned = IF @ = {} THEN {"manual"} ELSE @]

Sorted(S) == CHOOSE s \in [1 .. Cardinality(S) -> S] :
               \A i, j \in DOMAIN s : i < j => s[i] < s[j]

(* list_active_for_agent, and the filter of list_for_activation_trigger.   *)
Eligible(table_) ==
    {i \in DOMAIN table_ : table_[i].active /\ "manual" \in Entry(table_[i]).assigned}

(* An id's index in the stored order: the last, if it is there twice.      *)
Index(ord, i) == CHOOSE k \in DOMAIN ord :
                   ord[k] = i /\ \A l \in DOMAIN ord : ord[l] = i => l <= k

(* Defect: the workflows nobody ordered come first.                        *)
ManualOrderReversed(S, ord) ==
    LET listed == {i \in S : \E k \in DOMAIN ord : ord[k] = i}
        places == Sorted({Index(ord, i) : i \in listed})
    IN  Sorted(S \ listed) \o [k \in DOMAIN places |-> ord[places[k]]]

(* list_for_activation_trigger(MANUAL): the stored order, the rest by age. *)
ManualOrder(S, ord) ==
    LET listed == {i \in S : \E k \in DOMAIN ord : ord[k] = i}
        places == Sorted({Index(ord, i) : i \in listed})
    IN  [k \in DOMAIN places |-> ord[places[k]]] \o Sorted(S \ listed)

(* _resolve_targets_for_trigger; the empty set stands for ValueError, or   *)
(* SyntaxError when the code has to be parsed and cannot be.               *)
Visible == IF keycard = "none" THEN {} ELSE Targets

Resolved(row) ==
    CASE row.kind = "explicit" -> Explicit
      [] row.kind = "keycard"  -> Visible
      [] OTHER ->
           IF row.code \in Broken THEN {}
           ELSE IF Attributes[row.code] = {} THEN Visible
           ELSE {t \in Targets : \A c \in Attributes[row.code] : <<c, t>> \in permitted}

-----------------------------------------------------------------------------
(* Steps of a handler.                                                     *)

Set(h, x)     == handler' = [handler EXCEPT ![h] = x]
Goto(h, p)    == Set(h, [handler[h] EXCEPT !.pc = p])
Writes(h)     == disturbed' = disturbed \cup (Handlers \ {h})
At(h, p)      == handler[h].pc = p /\ UNCHANGED requests

Request(h) ==
    /\ handler[h].pc = "idle"
    /\ requests < MaxRequests /\ requests' = requests + 1
    /\ UNCHANGED <<engine, callVars>>

(* Requests that read the list: its pages, firing the trigger.             *)
Read(h) ==
    /\ Request(h)
    /\ \E op \in {"list", "run"} : Set(h, [Idle EXCEPT !.pc = "count", !.op = op])
    /\ UNCHANGED <<table, stamps, disturbed>>

(* create takes its id and its time before its transaction.                *)
Stamp == stamps < MaxRows /\ stamps' = stamps + 1

Create(h) ==
    /\ Request(h) /\ Stamp
    /\ \E f \in Forms :
         Set(h, [Idle EXCEPT !.pc = "insert", !.op = "create", !.id = stamps + 1,
                             !.row = New(f[1], f[2])])
    /\ UNCHANGED <<table, disturbed>>

(* update reads the row before it writes all of it.                        *)
Change(h) ==
    /\ Request(h)
    /\ \E i \in DOMAIN rows, p \in Patches :
         Set(h, [Idle EXCEPT !.pc = "write", !.op = "update", !.id = i,
                             !.row = Patched(p, Entry(rows[i]))])
    /\ UNCHANGED <<table, stamps, disturbed>>

Delete(h) ==
    /\ Request(h)
    /\ \E i \in DOMAIN rows : rows' = [j \in DOMAIN rows \ {i} |-> rows[j]]
    /\ Writes(h)
    /\ UNCHANGED <<order, stamps, handler>>

SetOrder(h) ==
    /\ Request(h)
    /\ order' \in Orders
    /\ UNCHANGED <<rows, stamps, handler, disturbed>>

Configuration == <<rows, granted, scope, keycard>>

Apply(h) ==
    /\ Request(h)
    /\ Set(h, [Idle EXCEPT !.pc = "tool", !.op = "apply", !.start = Configuration])
    /\ disturbed' = disturbed \ {h}
    /\ UNCHANGED <<table, stamps>>

(* _migrate_legacy_if_needed: the table is counted, and when it is empty   *)
(* the old section read, in one transaction ...                            *)
CountRows(h) ==
    /\ At(h, "count")
    /\ IF DOMAIN rows # {} \/ Legacy \in Blank
       THEN Goto(h, "list") /\ UNCHANGED stamps
       ELSE /\ Stamp
            /\ Set(h, [handler[h] EXCEPT !.pc = "promote", !.id = stamps + 1,
                                         !.row = New("Workflow", Legacy)])
    /\ UNCHANGED <<table, disturbed, engine, callVars>>

(* ... and create inserts the row in another.                              *)
Promote(h) ==
    /\ At(h, "promote")
    /\ rows' = [i \in DOMAIN rows \cup {handler[h].id} |->
                  IF i = handler[h].id THEN handler[h].row ELSE rows[i]]
    /\ Goto(h, "list") /\ Writes(h)
    /\ UNCHANGED <<order, stamps, engine, callVars>>

(* A blueprint's next workflow, or its end.                                *)
NextSpec(x) == [x EXCEPT !.at = @ + 1,
                         !.pc = IF x.at < Len(Blueprint.workflows) THEN "count" ELSE "applied"]

Done(h) == Set(h, IF handler[h].op = "apply" THEN NextSpec(handler[h]) ELSE Idle)

Insert(h) ==
    /\ At(h, "insert")
    /\ rows' = [i \in DOMAIN rows \cup {handler[h].id} |->
                  IF i = handler[h].id THEN handler[h].row ELSE rows[i]]
    /\ Done(h) /\ Writes(h)
    /\ UNCHANGED <<order, stamps, engine, callVars>>

(* The whole row is written back; nothing happens to one that is gone, and *)
(* the get that follows raises.                                            *)
Write(h) ==
    /\ At(h, "write")
    /\ IF handler[h].id \in DOMAIN rows
       THEN rows' = [rows EXCEPT ![handler[h].id] = handler[h].row] /\ Done(h)
       ELSE /\ Set(h, IF handler[h].op = "apply"
                      THEN NextSpec([handler[h] EXCEPT !.failed = TRUE]) ELSE Idle)
            /\ UNCHANGED rows
    /\ Writes(h)
    /\ UNCHANGED <<order, stamps, engine, callVars>>

-----------------------------------------------------------------------------
(* Firing the manual trigger.                                              *)

List(h) ==
    /\ At(h, "list") /\ handler[h].op \in {"list", "run"}
    /\ IF handler[h].op = "list" \/ Eligible(rows) = {}
       THEN Set(h, Idle)
       ELSE Set(h, [handler[h] EXCEPT !.pc = "order", !.seen = rows])
    /\ UNCHANGED <<table, stamps, disturbed, engine, callVars>>

ReadOrder(h) ==
    /\ At(h, "order")
    /\ Set(h, [handler[h] EXCEPT !.pc = "submit", !.order = order,
                 !.list = ManualOrder(Eligible(handler[h].seen), order)])
    /\ UNCHANGED <<table, stamps, disturbed, engine, callVars>>

(* The runs of the next workflow, one per target; when the targets cannot  *)
(* be resolved the request is refused, and the runs made so far stay.      *)
Submit(h) ==
    LET x   == handler[h]
        i   == x.list[x.at]
        row == x.seen[i]
        ts  == Sorted(Resolved(row))
    IN  /\ At(h, "submit") /\ x.at <= Len(x.list)
        /\ \/ /\ row.code \in Blank
              /\ Set(h, [x EXCEPT !.at = @ + 1])
              /\ UNCHANGED runs
           \/ /\ row.code \notin Blank /\ Resolved(row) = {}
              /\ Set(h, Idle)
              /\ UNCHANGED runs
           \/ /\ row.code \notin Blank /\ Resolved(row) # {}
              /\ runs' = runs \o [k \in DOMAIN ts |->
                            [workflow |-> i, code |-> row.code, target |-> ts[k],
                             status |-> "pending"]]
              /\ Set(h, [x EXCEPT !.at = @ + 1,
                           !.made = @ \o [k \in DOMAIN ts |-> Len(runs) + k]])
        /\ UNCHANGED <<table, stamps, disturbed, batches, worker, callVars>>

(* Defect: the batch of a workflow is handed over before the next one's    *)
(* targets are resolved.                                                   *)
DispatchEarly(h) ==
    LET x == handler[h]
    IN  /\ At(h, "submit") /\ x.made # <<>>
        /\ batches' = Append(batches, [runs |-> x.made, seen |-> x.seen, order |-> x.order])
        /\ Set(h, IF x.at > Len(x.list) THEN Idle ELSE [x EXCEPT !.made = <<>>])
        /\ UNCHANGED <<table, stamps, disturbed, runs, worker, callVars>>

Dispatch(h) ==
    LET x == handler[h]
    IN  /\ At(h, "submit") /\ x.at > Len(x.list)
        /\ IF x.made = <<>> THEN UNCHANGED batches
           ELSE batches' = Append(batches, [runs |-> x.made, seen |-> x.seen,
                                            order |-> x.order])
        /\ Set(h, Idle)
        /\ UNCHANGED <<table, stamps, disturbed, runs, worker, callVars>>

-----------------------------------------------------------------------------
(* Applying the blueprint, step by step; no step stops the others.         *)

(* What comes after the tools and after the folder.                        *)
AfterTool(x) == [x EXCEPT !.at = IF @ < Len(Blueprint.tools) THEN @ + 1 ELSE 1,
                          !.pc = IF x.at < Len(Blueprint.tools) THEN "tool" ELSE "folder"]
AfterFolder(x) == [x EXCEPT !.at = 1, !.pc = IF Blueprint.workflows = <<>>
                                             THEN "applied" ELSE "count"]

Applies(h) ==
    /\ Writes(h) /\ Recount
    /\ UNCHANGED <<table, stamps, engine, callState>>

ApplyTool(h) ==
    LET x == handler[h]
    IN  /\ At(h, "tool")
        /\ IF Blueprint.tools = <<>>
           THEN Set(h, AfterTool(x)) /\ UNCHANGED access
           ELSE Goto(h, "scope") /\ GrantTool(Blueprint.tools[x.at].cap)
        /\ Applies(h)

ApplyScope(h) ==
    LET x    == handler[h]
        spec == Blueprint.tools[x.at]
    IN  /\ At(h, "scope")
        /\ IF spec.cap \in granted
           THEN SetScope(spec.cap, spec.scope) /\ Set(h, AfterTool(x))
           ELSE Set(h, AfterTool([x EXCEPT !.failed = TRUE])) /\ UNCHANGED access
        /\ Applies(h)

ApplyFolder(h) ==
    LET x == handler[h]
    IN  /\ At(h, "folder")
        /\ IF Blueprint.folder
           THEN /\ AssignFolder
                /\ Set(h, IF Blueprint.eligible THEN [x EXCEPT !.pc = "eligible"]
                          ELSE AfterFolder(x))
           ELSE Set(h, AfterFolder(x)) /\ UNCHANGED access
        /\ Applies(h)

ApplyEligible(h) ==
    LET x == handler[h]
    IN  /\ At(h, "eligible")
        /\ IF keycard = "none"
           THEN Set(h, AfterFolder([x EXCEPT !.failed = TRUE])) /\ UNCHANGED access
           ELSE Set(h, AfterFolder(x)) /\ SetEligible(TRUE)
        /\ Applies(h)

(* Defect: a workflow is looked for among the active ones.                 *)
NamedActive(n) == {i \in DOMAIN rows : rows[i].name = n /\ rows[i].active}

Named(n) == {i \in DOMAIN rows : rows[i].name = n}

(* _create_or_update_workflow_by_display_name: the oldest of that name is  *)
(* updated, or one is created.                                             *)
ApplyWorkflow(h) ==
    LET x    == handler[h]
        spec == Blueprint.workflows[x.at]
    IN  /\ At(h, "list") /\ x.op = "apply"
        /\ IF Named(spec.name) = {}
           THEN /\ Stamp
                /\ Set(h, [x EXCEPT !.pc = "insert", !.id = stamps + 1,
                             !.row = Patched(spec, New(spec.name, spec.code))])
           ELSE /\ Set(h, [x EXCEPT !.pc = "read", !.id = Sorted(Named(spec.name))[1]])
                /\ UNCHANGED stamps
        /\ UNCHANGED <<table, disturbed, engine, callVars>>

ReadMatch(h) ==
    LET x == handler[h]
    IN  /\ At(h, "read")
        /\ IF x.id \in DOMAIN rows
           THEN Set(h, [x EXCEPT !.pc = "write",
                          !.row = Patched(Blueprint.workflows[x.at], Entry(rows[x.id]))])
           ELSE Set(h, NextSpec([x EXCEPT !.failed = TRUE]))
        /\ UNCHANGED <<table, stamps, disturbed, engine, callVars>>

(* applied_at is set, also when steps have failed.                         *)
Applied(h) ==
    /\ At(h, "applied")
    /\ Set(h, Idle)
    /\ UNCHANGED <<table, stamps, disturbed, engine, callVars>>

-----------------------------------------------------------------------------
(* The worker: one batch after the other, one run after the other.         *)

Now == batches[worker.batch].runs[worker.at]
SetStatus(r, s) == runs' = [runs EXCEPT ![r].status = s]

StartRun ==
    /\ worker.call = 0 /\ worker.batch \in DOMAIN batches
    /\ worker.at <= Len(batches[worker.batch].runs)
    /\ SetStatus(Now, "running")
    /\ worker' = [worker EXCEPT !.call = 1]
    /\ target' = runs[Now].target /\ reply' = NoReply
    /\ UNCHANGED <<table, stamps, handler, disturbed, batches, requests, access,
                   stack, late>>

NextBatch ==
    /\ worker.call = 0 /\ worker.batch \in DOMAIN batches
    /\ worker.at > Len(batches[worker.batch].runs)
    /\ worker' = [batch |-> worker.batch + 1, at |-> 1, call |-> 0]
    /\ UNCHANGED <<table, stamps, handler, disturbed, runs, batches, requests, callVars>>

(* run() calls the next tool ...                                           *)
Script == Calls[runs[Now].code]

CallTool ==
    /\ worker.call > 0 /\ worker.call <= Len(Script)
    /\ runs[Now].code \notin Broken
    /\ Enter(Script[worker.call])
    /\ UNCHANGED <<table, stamps, handler, disturbed, engine, requests>>

(* ... and goes on when the call returns; it may also catch an exception.  *)
Resume ==
    /\ worker.call > 0 /\ reply # NoReply
    /\ reply' = NoReply
    /\ worker' = [worker EXCEPT !.call = @ + 1]
    /\ UNCHANGED <<table, stamps, handler, disturbed, runs, batches, requests,
                   access, target, stack, late>>

(* The code comes to its end, raises, or does not even parse; RunLifecycle  *)
(* has what becomes of the run.                                            *)
EndRun ==
    /\ worker.call > 0 /\ stack = <<>>
    /\ SetStatus(Now, "ended")
    /\ worker' = [worker EXCEPT !.at = @ + 1, !.call = 0]
    /\ UNCHANGED <<table, stamps, handler, disturbed, batches, requests, callVars>>

Tool == CallStep /\ UNCHANGED <<table, stamps, handler, disturbed, engine, requests>>

(* Another request changes what the agent is allowed.                      *)
EditAccess ==
    /\ requests < MaxRequests /\ requests' = requests + 1
    /\ Edit
    /\ disturbed' = Handlers
    /\ UNCHANGED <<table, stamps, handler, engine>>

Handle(h) ==
    \/ Read(h) \/ Create(h) \/ Change(h) \/ Delete(h) \/ SetOrder(h) \/ Apply(h)
    \/ CountRows(h) \/ Promote(h) \/ Insert(h) \/ Write(h)
    \/ List(h) \/ ReadOrder(h) \/ Submit(h) \/ Dispatch(h)
    \/ ApplyTool(h) \/ ApplyScope(h) \/ ApplyFolder(h) \/ ApplyEligible(h)
    \/ ApplyWorkflow(h) \/ ReadMatch(h) \/ Applied(h)

Work == StartRun \/ NextBatch \/ CallTool \/ Tool \/ Resume \/ EndRun

Next == (\E h \in Handlers : Handle(h)) \/ Work \/ EditAccess

Spec == Init /\ [][Next]_vars

-----------------------------------------------------------------------------
(* a comes before b: both in the stored order, a only, or neither.         *)
Listed(ord, i) == \E k \in DOMAIN ord : ord[k] = i

Before(ord, a, b) ==
    \/ Listed(ord, a) /\ Listed(ord, b) /\ \E k \in DOMAIN ord :
         ord[k] = b /\ \A l \in DOMAIN ord : ord[l] = a => l < k
    \/ Listed(ord, a) /\ ~Listed(ord, b)
    \/ ~Listed(ord, a) /\ ~Listed(ord, b) /\ a < b

(* The executor is handed whole requests: a batch has, in the manual run   *)
(* order, the runs of every workflow that was active, assigned and not     *)
(* empty when the trigger fired, each on each of its targets once; a run   *)
(* that has begun is in a batch, so none of a refused request ever begins. *)
BatchIsTheRequest ==
    /\ \A b \in DOMAIN batches :
         LET batch == batches[b]
             of(k) == runs[batch.runs[k]].workflow
             on(k) == runs[batch.runs[k]].target
         IN  /\ {of(k) : k \in DOMAIN batch.runs} =
                  {i \in Eligible(batch.seen) : batch.seen[i].code \notin Blank}
             /\ \A k, l \in DOMAIN batch.runs : k < l =>
                  \/ of(k) = of(l) /\ on(k) # on(l)
                  \/ Before(batch.order, of(k), of(l))
    /\ \A r \in DOMAIN runs : runs[r].status # "pending" =>
         \E b \in DOMAIN batches : \E k \in DOMAIN batches[b].runs : batches[b].runs[k] = r

(* What the blueprint asks for.                                            *)
Satisfied(c) ==
    LET rows_ == c[1]
    IN  /\ \A k \in DOMAIN Blueprint.tools :
             LET spec == Blueprint.tools[k] IN spec.cap \in c[2] /\ c[3][spec.cap] = spec.scope
        /\ Blueprint.folder => c[4] # "none"
        /\ Blueprint.folder /\ Blueprint.eligible => c[4] = "eligible"
        /\ \A k \in DOMAIN Blueprint.workflows :
             LET spec == Blueprint.workflows[k]
             IN  \E i \in DOMAIN rows_ :
                   /\ \A j \in DOMAIN rows_ : rows_[j].name = spec.name => i <= j
                   /\ \A col \in DOMAIN spec : rows_[i][col] = spec[col]

(* A blueprint converges: an apply during which nobody else wrote leaves   *)
(* what it asks for, and one that finds it changes nothing.                *)
ApplyConverges ==
    \A h \in Handlers : handler[h].pc = "applied" /\ h \notin disturbed =>
        /\ ~handler[h].failed /\ Satisfied(Configuration)
        /\ Satisfied(handler[h].start) => Configuration = handler[h].start
=============================================================================
