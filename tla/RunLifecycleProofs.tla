------------------------- MODULE RunLifecycleProofs -------------------------
(***************************************************************************)
(* Theorems about RunLifecycle, for any number of agents, request handlers *)
(* and pool threads, and any bounds.  Types and shapes of the threads come *)
(* first; on them rests the ownership of runs (SingleOwner and             *)
(* WaitingIsPending), on ownership the link between a thread's program     *)
(* counter and the row of its run (Rows), and on Rows the status contract  *)
(* and the truth of the events.                                            *)
(***************************************************************************)
EXTENDS RunLifecycle, TLAPS

(* Changing one thread of a pool changes nothing for the others.           *)
LEMMA Update ==
  ASSUME NEW S, NEW T, NEW f \in [S -> T], NEW s \in S, NEW x \in T,
         NEW g, g = [f EXCEPT ![s] = x]
  PROVE  /\ g \in [S -> T]
         /\ g[s] = x
         /\ \A t \in S \ {s} : g[t] = f[t]
OBVIOUS

-----------------------------------------------------------------------------
(* Pool threads.                                                           *)

Threads == worker' \in [Workers -> Worker] /\ \A v \in Workers : WorkerForm(worker'[v])

(* Thread w goes to p and keeps the run it executes.                       *)
Moves(w, p) ==
    /\ worker'[w].pc = p
    /\ worker'[w].run = worker[w].run
    /\ worker'[w].todo = worker[w].todo
    /\ worker'[w].kind = worker[w].kind
    /\ \A v \in Workers \ {w} : worker'[v] = worker[v]

Pointing == {"setRead", "setWrite", "clearRead", "clearWrite"}

LEMMA Idle == IdleWorker \in Worker /\ WorkerForm(IdleWorker)
              /\ IdleWorker.pc = "idle" /\ IdleWorker.run = NoRun /\ IdleWorker.todo = {}
BY DEF IdleWorker, Worker, WorkerForm, Section, NoRun, Kind, Owners

LEMMA SetWorkerOK ==
  ASSUME TypeOK, Shape, NEW w \in Workers, NEW x \in Worker, WorkerForm(x),
         SetWorker(w, x)
  PROVE  Threads /\ worker'[w] = x /\ \A v \in Workers \ {w} : worker'[v] = worker[v]
<1>1. worker \in [Workers -> Worker] BY DEF TypeOK
<1>2. worker' \in [Workers -> Worker] /\ worker'[w] = x
      /\ \A v \in Workers \ {w} : worker'[v] = worker[v]
  BY <1>1, Update DEF SetWorker
<1> QED
  BY <1>2 DEF Threads, Shape

(* Writing to a busy thread a record that keeps its run.                   *)
LEMMA PutOK ==
  ASSUME TypeOK, Shape, NEW w \in Workers, worker[w].pc # "idle",
         NEW y \in Worker, y.pc \in WorkStep,
         y.run = worker[w].run, y.todo = worker[w].todo, y.kind = worker[w].kind,
         y.pc = "lookup" => y.kind = "analysis",
         y.pc \in Pointing \/ y.kind # "analysis" => y.agent \in Agents,
         SetWorker(w, y)
  PROVE  Threads /\ Moves(w, y.pc) /\ worker'[w] = y
<1>1. WorkerForm(worker[w]) BY DEF Shape
<1>2. WorkerForm(y) BY <1>1 DEF WorkerForm, Pointing, WorkStep
<1> QED
  BY <1>2, SetWorkerOK DEF Moves

LEMMA StepOK ==
  ASSUME TypeOK, Shape, NEW w \in Workers, worker[w].pc # "idle",
         NEW p \in WorkStep, p \in Pointing => worker[w].agent \in Agents,
         p = "lookup" => worker[w].kind = "analysis",
         Step(w, p)
  PROVE  Threads /\ Moves(w, p) /\ worker'[w].result = worker[w].result
<1> DEFINE y == [worker[w] EXCEPT !.pc = p]
<1>1. worker[w] \in Worker /\ WorkerForm(worker[w]) BY DEF TypeOK, Shape
<1>2. y \in Worker /\ y.pc = p /\ y.run = worker[w].run /\ y.todo = worker[w].todo
      /\ y.kind = worker[w].kind /\ y.result = worker[w].result
      /\ y.agent = worker[w].agent
  BY <1>1 DEF Worker
<1>3. SetWorker(w, y) BY DEF Step
<1> HIDE DEF y
<1> QED
  BY <1>1, <1>2, <1>3, PutOK DEF WorkerForm

(* The result of the work, of an exception inside the try block.           *)
LEMMA ResultOK ==
  ASSUME TypeOK, Shape, NEW w \in Workers, worker[w].pc # "idle",
         NEW p \in WorkStep \ {"lookup"}, p \in Pointing => worker[w].agent \in Agents,
         NEW res \in {"ok", "err"},
         SetWorker(w, [worker[w] EXCEPT !.result = res, !.pc = p])
         \/ SetWorker(w, [worker[w] EXCEPT !.pc = p, !.result = res])
  PROVE  Threads /\ Moves(w, p) /\ worker'[w].result = res
<1>1. worker[w] \in Worker /\ WorkerForm(worker[w]) BY DEF TypeOK, Shape
<1>2. PICK y : /\ SetWorker(w, y)
               /\ \/ y = [worker[w] EXCEPT !.result = res, !.pc = p]
                  \/ y = [worker[w] EXCEPT !.pc = p, !.result = res]
  OBVIOUS
<1>3. y \in Worker /\ y.pc = p /\ y.run = worker[w].run /\ y.todo = worker[w].todo
      /\ y.kind = worker[w].kind /\ y.result = res /\ y.agent = worker[w].agent
  BY <1>1, <1>2 DEF Worker
<1> QED
  BY <1>1, <1>2, <1>3, PutOK DEF WorkerForm

LEMMA RaisingOK ==
  ASSUME TypeOK, Shape, NEW w \in Workers, worker[w].pc # "idle",
         worker[w].agent \in Agents,
         SetWorker(w, [worker[w] EXCEPT !.pc = "clearRead", !.raising = TRUE])
  PROVE  Threads /\ Moves(w, "clearRead")
<1> DEFINE y == [worker[w] EXCEPT !.pc = "clearRead", !.raising = TRUE]
<1>1. worker[w] \in Worker BY DEF TypeOK
<1>2. y \in Worker /\ y.pc = "clearRead" /\ y.run = worker[w].run
      /\ y.todo = worker[w].todo /\ y.kind = worker[w].kind
      /\ y.agent = worker[w].agent
  BY <1>1 DEF Worker, WorkStep
<1> HIDE DEF y
<1> QED
  BY <1>2, PutOK DEF y, WorkStep

LEMMA LookupOK ==
  ASSUME TypeOK, Shape, NEW w \in Workers, Lookup(w)
  PROVE  /\ Threads
         /\ Moves(w, AfterLookup(agentOf[worker[w].run]))
         /\ worker'[w].result = worker[w].result
<1> DEFINE a == agentOf[worker[w].run]
           y == [worker[w] EXCEPT !.pc = AfterLookup(a), !.agent = a]
<1>1. worker[w] \in Worker /\ WorkerForm(worker[w]) /\ worker[w].pc = "lookup"
  BY DEF TypeOK, Shape, Lookup
<1>2. a \in Owners BY <1>1 DEF TypeOK, WorkerForm
<1>3. AfterLookup(a) \in WorkStep /\ (AfterLookup(a) \in Pointing => a \in Agents)
  BY <1>2 DEF AfterLookup, WorkStep, Pointing, Owners
<1>4. y \in Worker /\ y.pc = AfterLookup(a) /\ y.run = worker[w].run
      /\ y.todo = worker[w].todo /\ y.kind = worker[w].kind /\ y.agent = a
      /\ y.result = worker[w].result
  BY <1>1, <1>2, <1>3 DEF Worker
<1>5. SetWorker(w, y) BY DEF Lookup
<1>6. y.kind = "analysis" BY <1>1, <1>4 DEF WorkerForm
<1> HIDE DEF y
<1> QED
  BY <1>1, <1>3, <1>4, <1>5, <1>6, PutOK

LEMMA PointerReadOK ==
  ASSUME TypeOK, Shape, NEW w \in Workers, PointerRead(w)
  PROVE  /\ Threads
         /\ worker'[w].result = worker[w].result
         /\ \/ worker[w].pc = "setRead" /\ Moves(w, "setWrite")
            \/ worker[w].pc = "clearRead" /\ Moves(w, "clearWrite")
<1> DEFINE p == IF worker[w].pc = "setRead" THEN "setWrite" ELSE "clearWrite"
           y == [worker[w] EXCEPT !.pc = p, !.seen = section[worker[w].agent]]
<1>1. worker[w] \in Worker /\ WorkerForm(worker[w])
      /\ worker[w].pc \in {"setRead", "clearRead"}
  BY DEF TypeOK, Shape, PointerRead
<1>2. worker[w].agent \in Agents BY <1>1 DEF WorkerForm
<1>3. section[worker[w].agent] \in Section BY <1>2 DEF TypeOK
<1>4. p \in WorkStep BY DEF WorkStep
<1>5. y \in Worker /\ y.pc = p /\ y.run = worker[w].run /\ y.todo = worker[w].todo
      /\ y.kind = worker[w].kind /\ y.agent = worker[w].agent
      /\ y.result = worker[w].result
  BY <1>1, <1>3, <1>4 DEF Worker
<1>6. SetWorker(w, y) BY DEF PointerRead
<1>7. worker[w].pc # "idle" BY <1>1
<1> HIDE DEF y
<1>8. Threads /\ Moves(w, p) /\ worker'[w] = y
  BY <1>2, <1>4, <1>5, <1>6, <1>7, PutOK
<1> QED
  BY <1>1, <1>5, <1>8

LEMMA BeginOK ==
  ASSUME TypeOK, Shape, NEW w \in Workers, NEW k \in Kind, NEW a \in Owners,
         k # "analysis" => a \in Agents, NEW runs \in SUBSET Runs,
         Begin(w, k, a, runs)
  PROVE  /\ Threads
         /\ worker'[w].pc = "announce" /\ worker'[w].kind = k
         /\ worker'[w].run \in runs
         /\ worker'[w].todo = runs \ {worker'[w].run}
         /\ \A v \in Workers \ {w} : worker'[v] = worker[v]
<1>1. PICK r \in runs :
        SetWorker(w, [IdleWorker EXCEPT !.pc = "announce", !.kind = k,
                        !.agent = a, !.run = r, !.todo = runs \ {r}])
  BY DEF Begin
<1> DEFINE y == [IdleWorker EXCEPT !.pc = "announce", !.kind = k,
                   !.agent = a, !.run = r, !.todo = runs \ {r}]
<1>2. y \in Worker /\ WorkerForm(y) /\ y.pc = "announce" /\ y.kind = k
      /\ y.run = r /\ y.todo = runs \ {r}
  BY DEF IdleWorker, Worker, WorkStep, Section, NoRun, WorkerForm
<1>3. SetWorker(w, y) BY <1>1
<1> HIDE DEF y
<1>4. Threads /\ worker'[w] = y /\ \A v \in Workers \ {w} : worker'[v] = worker[v]
  BY <1>2, <1>3, SetWorkerOK
<1> QED
  BY <1>2, <1>4

(* The thread becomes free.                                                *)
Frees(w) ==
    /\ worker'[w].pc = "idle" /\ worker'[w].run = NoRun /\ worker'[w].todo = {}
    /\ \A v \in Workers \ {w} : worker'[v] = worker[v]

LEMMA TaskOverOK ==
  ASSUME TypeOK, Shape, NEW w \in Workers, TaskOver(w)
  PROVE  Threads /\ Frees(w)
BY Idle, SetWorkerOK DEF TaskOver, Frees

-----------------------------------------------------------------------------
(* Request handlers.                                                       *)

Handlers == client' \in [Clients -> Client] /\ \A d \in Clients : ClientForm(client'[d])

Made(x) == x.made \cup ({x.fresh} \ {NoRun})

LEMMA SetClientOK ==
  ASSUME TypeOK, Shape, NEW c \in Clients, NEW x \in Client, ClientForm(x),
         SetClient(c, x)
  PROVE  Handlers /\ client'[c] = x /\ \A d \in Clients \ {c} : client'[d] = client[d]
<1>1. client \in [Clients -> Client] BY DEF TypeOK
<1>2. client' \in [Clients -> Client] /\ client'[c] = x
      /\ \A d \in Clients \ {c} : client'[d] = client[d]
  BY <1>1, Update DEF SetClient
<1> QED
  BY <1>2 DEF Handlers, Shape

LEMMA IdleHandler ==
  IdleClient \in Client /\ ClientForm(IdleClient) /\ Made(IdleClient) = {}
BY DEF IdleClient, Client, ClientForm, Section, NoRun, Kind, Owners, Made,
       SubmitStep, ToggleStep

(* The handler's runs become R, and nothing else of the pool changes.      *)
Has(c, R) ==
    /\ Made(client'[c]) = R
    /\ \A d \in Clients \ {c} : client'[d] = client[d]

LEMMA AnswerOK ==
  ASSUME TypeOK, Shape, NEW c \in Clients, Answer(c)
  PROVE  Handlers /\ Has(c, {})
BY IdleHandler, SetClientOK DEF Answer, Has

LEMMA GotoOK ==
  ASSUME TypeOK, Shape, NEW c \in Clients, NEW p \in SubmitStep \cup ToggleStep,
         p # "note", p \in SubmitStep <=> client[c].pc \in SubmitStep,
         client[c].pc \notin {"idle", "note"}, p # "gate",
         Goto(c, p)
  PROVE  Handlers /\ Has(c, Made(client[c]))
<1> DEFINE y == [client[c] EXCEPT !.pc = p]
<1>1. client[c] \in Client /\ ClientForm(client[c]) BY DEF TypeOK, Shape
<1>2. y \in Client /\ y.pc = p /\ y.made = client[c].made /\ y.fresh = client[c].fresh
      /\ y.agent = client[c].agent /\ y.kind = client[c].kind
  BY <1>1 DEF Client
<1>3. SetClient(c, y) BY DEF Goto
<1>4. p \in ToggleStep => client[c].pc \in ToggleStep
  BY <1>1 DEF Client, SubmitStep, ToggleStep
<1> HIDE DEF y
<1>5. ClientForm(y) BY <1>1, <1>2, <1>4 DEF ClientForm, SubmitStep, ToggleStep
<1> QED
  BY <1>2, <1>3, <1>5, SetClientOK DEF Has, Made

-----------------------------------------------------------------------------
(* Ownership.                                                              *)

(* A handler that gains no run leaves ownership alone.                     *)
LEMMA HandlerKeepsOwners ==
  ASSUME IInv, NEW c \in Clients, NEW R, R \subseteq Made(client[c]), Has(c, R),
         UNCHANGED <<queue, worker, status>>
  PROVE  SingleOwner' /\ WaitingIsPending' /\ Rows'
<1>1. \A d \in Clients : WithClient(d)' \subseteq WithClient(d)
  BY DEF Has, Made, WithClient
<1>2. UNCHANGED <<Queued, Rows>> /\ \A w \in Workers : UNCHANGED <<Holding(w), Waiting(w)>>
  BY DEF Queued, Holding, Waiting, Rows
<1>3. UNCHANGED Disjoint(queue) BY DEF Disjoint
<1> QED
  BY <1>1, <1>2, <1>3 DEF IInv, SingleOwner, WaitingIsPending

(* A thread that keeps its run or drops it leaves ownership alone, whatever *)
(* it writes into the row of that run.                                     *)
LEMMA ThreadKeepsOwners ==
  ASSUME IInv, NEW w \in Workers, worker[w].run \in Runs, UNCHANGED <<queue, client>>,
         \A v \in Workers \ {w} : worker'[v] = worker[v],
         \/ worker'[w].run = worker[w].run /\ worker'[w].todo = worker[w].todo
         \/ worker'[w].run = NoRun /\ worker'[w].todo = {},
         \A r \in Runs \ {worker[w].run} : status'[r] = status[r]
  PROVE  SingleOwner' /\ WaitingIsPending'
<1>1. UNCHANGED <<Queued, Disjoint(queue)>> /\ \A c \in Clients : UNCHANGED WithClient(c)
  BY DEF Queued, Disjoint, WithClient
<1>2. \A v \in Workers : Holding(v)' \subseteq Holding(v) /\ Waiting(v)' \subseteq Waiting(v)
  BY DEF Holding, Waiting
<1>3. SingleOwner'
  BY <1>1, <1>2 DEF IInv, SingleOwner
<1>4. worker[w].run \in Holding(w)
  BY DEF Holding, NoRun, Runs
<1>5. ~(\/ \E c \in Clients : worker[w].run \in WithClient(c)
        \/ worker[w].run \in Queued
        \/ \E v \in Workers : worker[w].run \in Waiting(v))
  BY <1>4 DEF IInv, SingleOwner, Shape, WorkerForm, Waiting, Holding
<1>6. WaitingIsPending'
  BY <1>1, <1>2, <1>5 DEF IInv, WaitingIsPending
<1> QED
  BY <1>3, <1>6

LEMMA OthersRows ==
  ASSUME IInv, NEW w \in Workers, worker[w].run \in Runs,
         \A v \in Workers \ {w} : worker'[v] = worker[v],
         \A r \in Runs \ {worker[w].run} : status'[r] = status[r],
         worker'[w].pc # "idle" =>
           RowAt(worker'[w].pc, worker'[w].kind, worker'[w].result,
                 status'[worker'[w].run])
  PROVE  Rows'
<1>1. ASSUME NEW v \in Workers \ {w}, worker[v].pc # "idle"
      PROVE  status'[worker[v].run] = status[worker[v].run]
  <2>1. worker[v].run \in Runs /\ worker[v].run \in Holding(v)
    BY <1>1 DEF IInv, Shape, WorkerForm, Holding, Runs, NoRun
  <2>2. worker[w].run \in Holding(w) BY DEF Holding, Runs, NoRun
  <2> QED BY <2>1, <2>2 DEF IInv, SingleOwner
<1>2. ASSUME NEW v \in Workers, worker'[v].pc # "idle"
      PROVE  RowAt(worker'[v].pc, worker'[v].kind, worker'[v].result,
                   status'[worker'[v].run])
  BY <1>1, <1>2 DEF IInv, Rows
<1> QED
  BY <1>2 DEF Rows

(* A step of a busy thread that keeps its run.                             *)
LEMMA MoveOK ==
  ASSUME IInv, NEW w \in Workers, NEW p \in WorkStep, worker[w].pc # "idle",
         Threads, Moves(w, p), UNCHANGED <<queue, client>>,
         \A r \in Runs \ {worker[w].run} : status'[r] = status[r],
         RowAt(p, worker[w].kind, worker'[w].result, status'[worker[w].run])
  PROVE  Shape' /\ SingleOwner' /\ WaitingIsPending' /\ Rows'
<1>1. worker[w].run \in Runs BY DEF IInv, Shape, WorkerForm
<1>2. Shape' BY DEF IInv, Shape, Threads
<1>3. SingleOwner' /\ WaitingIsPending' BY <1>1, ThreadKeepsOwners DEF Moves
<1>4. Rows' BY <1>1, OthersRows DEF Moves
<1> QED
  BY <1>2, <1>3, <1>4

(* A task that ends.                                                       *)
LEMMA FreeOK ==
  ASSUME IInv, NEW w \in Workers, worker[w].pc # "idle", Threads, Frees(w),
         UNCHANGED <<queue, client, status>>
  PROVE  Shape' /\ SingleOwner' /\ WaitingIsPending' /\ Rows'
<1>1. worker[w].run \in Runs BY DEF IInv, Shape, WorkerForm
<1>2. Shape' BY DEF IInv, Shape, Threads
<1>3. SingleOwner' /\ WaitingIsPending' BY <1>1, ThreadKeepsOwners DEF Frees
<1>4. Rows' BY <1>1, OthersRows DEF Frees
<1> QED
  BY <1>2, <1>3, <1>4

-----------------------------------------------------------------------------
(* The steps of a pool thread.                                             *)

Busy(w) ==
    /\ worker[w].pc # "idle"
    /\ worker[w].run \in Runs
    /\ RowAt(worker[w].pc, worker[w].kind, worker[w].result, status[worker[w].run])
    /\ worker[w].kind \in Kind
    /\ worker[w].result \in {"ok", "err"}
    /\ worker[w].agent \in Owners
    /\ WorkerForm(worker[w])

LEMMA BusyThread ==
  ASSUME IInv, NEW w \in Workers, worker[w].pc # "idle"
  PROVE  Busy(w)
<1>1. worker[w] \in Worker /\ WorkerForm(worker[w]) BY DEF IInv, TypeOK, Shape
<1>2. worker[w].kind \in Kind /\ worker[w].result \in {"ok", "err"}
      /\ worker[w].agent \in Owners
  BY <1>1 DEF Worker
<1> QED
  BY <1>1, <1>2 DEF Busy, IInv, Rows, WorkerForm

(* A thread whose step appends an event to the log of its run.             *)
LEMMA LogStep ==
  ASSUME IInv, NEW w \in Workers, worker[w].pc # "idle", NEW p \in WorkStep,
         p \in Pointing => worker[w].agent \in Agents,
         p = "lookup" => worker[w].kind = "analysis",
         NEW e \in Event, Step(w, p), Append1(worker[w].run, e),
         RowAt(p, worker[w].kind, worker[w].result, status[worker[w].run]),
         UNCHANGED <<status, agentOf, outputs, isActive, activation, section,
                     queue, client, raised, bounds>>
  PROVE  IInv' /\ Moves(w, p)
<1>1. TypeOK /\ Shape BY DEF IInv
<1>2. Threads /\ Moves(w, p) /\ worker'[w].result = worker[w].result
  BY <1>1, StepOK
<1>3. TypeOK'
  <2>1. log' \in [Runs -> Seq(Event)] BY <1>1, BusyThread DEF TypeOK, Append1, Busy
  <2> QED BY <1>1, <1>2, <2>1 DEF TypeOK, Threads, bounds
<1> QED
  BY <1>2, <1>3, MoveOK DEF IInv

(* A thread whose step writes the row of its run.                          *)
LEMMA RowStep ==
  ASSUME IInv, NEW w \in Workers, worker[w].pc # "idle", NEW p \in WorkStep,
         p \in Pointing => worker[w].agent \in Agents,
         p = "lookup" => worker[w].kind = "analysis",
         NEW st \in Status, Step(w, p),
         status' = [status EXCEPT ![worker[w].run] = st],
         RowAt(p, worker[w].kind, worker[w].result, st),
         UNCHANGED <<agentOf, log, outputs, isActive, activation, section,
                     queue, client, raised, bounds>>
  PROVE  IInv' /\ Moves(w, p)
<1>1. TypeOK /\ Shape BY DEF IInv
<1>2. Threads /\ Moves(w, p) /\ worker'[w].result = worker[w].result
  BY <1>1, StepOK
<1>3. worker[w].run \in Runs BY BusyThread DEF Busy
<1>4. status' \in [Runs -> Status] /\ status'[worker[w].run] = st
      /\ \A r \in Runs \ {worker[w].run} : status'[r] = status[r]
  BY <1>1, <1>3 DEF TypeOK
<1>5. TypeOK' BY <1>1, <1>2, <1>4 DEF TypeOK, Threads, bounds
<1> QED
  BY <1>2, <1>4, <1>5, MoveOK DEF IInv

(* A thread whose step touches neither row nor log of its run.             *)
LEMMA QuietStep ==
  ASSUME IInv, NEW w \in Workers, worker[w].pc # "idle", NEW p \in WorkStep,
         Threads, Moves(w, p),
         RowAt(p, worker[w].kind, worker'[w].result, status[worker[w].run]),
         section' \in [Agents -> Section], outputs' \in [Runs -> Nat],
         raised' \subseteq Runs, toggles' \in Nat, faults' \in Nat, crashes' \in Nat,
         UNCHANGED <<status, agentOf, log, isActive, activation, queue, client>>
  PROVE  IInv'
<1>1. TypeOK' BY DEF IInv, TypeOK, Threads
<1> QED
  BY <1>1, MoveOK DEF IInv

LEMMA EndStep ==
  ASSUME IInv, NEW w \in Workers, worker[w].pc # "idle", TaskOver(w),
         raised' \subseteq Runs, toggles' \in Nat, faults' \in Nat, crashes' \in Nat,
         UNCHANGED <<dbVars, queue, client>>
  PROVE  IInv' /\ Frees(w)
<1>1. Threads /\ Frees(w) BY TaskOverOK DEF IInv
<1>2. TypeOK' BY <1>1 DEF IInv, TypeOK, Threads, dbVars
<1>3. UNCHANGED <<queue, client, status>> BY DEF dbVars
<1> QED
  BY <1>1, <1>2, <1>3, FreeOK DEF IInv

(* One step per action of Progress that keeps the thread on its run.       *)
LEMMA WorkInv ==
  ASSUME IInv, NEW w \in Workers,
         \/ Announce(w) \/ Start(w) \/ Lookup(w)
         \/ PointerRead(w) \/ PointerWrite(w) \/ PointerWarn(w)
         \/ Work(w) \/ Record(w) \/ Ready(w) \/ Complete(w) \/ DoneEvent(w)
         \/ Fail(w) \/ FailEvents(w)
  PROVE  IInv'
<1> DEFINE x == worker[w]
<1>0. x.pc # "idle"
  BY DEF Announce, Start, Lookup, PointerRead, PointerWrite, PointerWarn, Work,
         Record, Ready, Complete, DoneEvent, Fail, FailEvents
<1>b. Busy(w) BY <1>0, BusyThread
<1>t. TypeOK /\ Shape BY DEF IInv
<1> USE <1>0, <1>b, <1>t
<1>1. CASE Announce(w)
  <2>1. x.pc = "announce" /\ Step(w, "start") BY <1>1 DEF Announce
  <2>2. RowAt("start", x.kind, x.result, status[x.run]) BY <2>1 DEF Busy, RowAt
  <2> QED BY <1>1, <2>1, <2>2, LogStep DEF Announce, WorkStep, Event, Pointing
<1>2. CASE Start(w)
  <2>1. x.pc = "start" /\ Step(w, AfterStart(x.kind)) BY <1>2 DEF Start
  <2>2. RowAt(AfterStart(x.kind), x.kind, x.result, "running") BY DEF AfterStart, RowAt
  <2>3. /\ AfterStart(x.kind) \in WorkStep
        /\ AfterStart(x.kind) = "lookup" => x.kind = "analysis"
        /\ AfterStart(x.kind) \in Pointing => x.agent \in Agents
    BY DEF AfterStart, WorkStep, Pointing, Busy, WorkerForm
  <2> QED BY <1>2, <2>1, <2>2, <2>3, RowStep DEF Start, Status
<1>3. CASE Lookup(w)
  <2>1. /\ Threads /\ Moves(w, AfterLookup(agentOf[x.run]))
        /\ worker'[w].result = x.result
    BY <1>3, LookupOK
  <2>2. RowAt(AfterLookup(agentOf[x.run]), x.kind, x.result, status[x.run])
    BY <1>3 DEF Lookup, AfterLookup, Busy, RowAt
  <2>3. AfterLookup(agentOf[x.run]) \in WorkStep BY DEF AfterLookup, WorkStep
  <2> QED BY <1>3, <2>1, <2>2, <2>3, QuietStep DEF Lookup, TypeOK, dbVars, bounds
<1>4. CASE PointerRead(w)
  <2>1. /\ Threads /\ worker'[w].result = x.result
        /\ \/ x.pc = "setRead" /\ Moves(w, "setWrite")
           \/ x.pc = "clearRead" /\ Moves(w, "clearWrite")
    BY <1>4, PointerReadOK
  <2>2. PICK p \in {"setWrite", "clearWrite"} :
          Moves(w, p) /\ RowAt(p, x.kind, x.result, status[x.run])
    BY <2>1 DEF Busy, RowAt
  <2> QED BY <1>4, <2>1, <2>2, QuietStep DEF PointerRead, TypeOK, dbVars, bounds, WorkStep
<1>5. CASE PointerWrite(w)
  <2>1. PICK p \in WorkStep \ ({"lookup"} \cup Pointing) :
          Step(w, p) /\ RowAt(p, x.kind, x.result, status[x.run])
    BY <1>5 DEF PointerWrite, AfterClear, WorkStep, Pointing, Busy, RowAt
  <2>2. Threads /\ Moves(w, p) /\ worker'[w].result = x.result BY <2>1, StepOK
  <2>3. section' \in [Agents -> Section]
    <3>1. x.agent \in Agents /\ x.run \in Runs
      BY <1>5 DEF PointerWrite, Busy, WorkerForm
    <3>2. x.seen \in Section BY DEF TypeOK, Worker
    <3>3. PICK r \in Runs \cup {NoRun} : WriteSection(w, r)
      BY <1>5, <3>1 DEF PointerWrite
    <3>4. [mode |-> x.seen.mode, run |-> r] \in Section BY <3>2, <3>3 DEF Section
    <3> QED BY <3>1, <3>3, <3>4 DEF TypeOK, WriteSection
  <2> QED BY <1>5, <2>1, <2>2, <2>3, QuietStep DEF PointerWrite, TypeOK, bounds
<1>6. CASE PointerWarn(w)
  <2>1. PICK p \in WorkStep \ ({"lookup"} \cup Pointing) :
          Step(w, p) /\ RowAt(p, x.kind, x.result, status[x.run])
    BY <1>6 DEF PointerWarn, AfterClear, WorkStep, Pointing, Busy, RowAt
  <2> QED BY <1>6, <2>1, LogStep DEF PointerWarn, Event
<1>7. CASE Work(w)
  <2>1. PICK res \in {"ok", "err"} :
          SetWorker(w, [worker[w] EXCEPT !.result = res,
                          !.pc = IF res = "ok" THEN "record"
                                 ELSE AfterBadWork(x.kind, x.agent)])
    BY <1>7 DEF Work
  <2> DEFINE p == IF res = "ok" THEN "record" ELSE AfterBadWork(x.kind, x.agent)
  <2>2. /\ p \in WorkStep \ {"lookup"}
        /\ p \in Pointing => x.agent \in Agents
        /\ RowAt(p, x.kind, res, status[x.run])
    BY <1>7 DEF Work, AfterBadWork, Clear, AfterClear, WorkStep, Pointing, Busy,
       RowAt, Owners
  <2>3. SetWorker(w, [worker[w] EXCEPT !.result = res, !.pc = p]) BY <2>1
  <2> HIDE DEF p
  <2>4. Threads /\ Moves(w, p) /\ worker'[w].result = res BY <2>2, <2>3, ResultOK
  <2> QED BY <1>7, <2>2, <2>4, QuietStep DEF Work, TypeOK, dbVars, bounds
<1>8. CASE Record(w)
  <2>1. PICK p \in {"record", "ready", "complete"} : Step(w, p)
    BY <1>8 DEF Record
  <2>2. RowAt(p, x.kind, x.result, status[x.run]) /\ p \in WorkStep
    BY <1>8 DEF Record, WorkStep, Busy, RowAt
  <2>3. Threads /\ Moves(w, p) /\ worker'[w].result = x.result
    BY <2>1, <2>2, StepOK DEF Pointing
  <2>4. outputs' \in [Runs -> Nat] BY <1>8 DEF Record, TypeOK
  <2> QED BY <1>8, <2>2, <2>3, <2>4, QuietStep DEF Record, TypeOK, bounds
<1>9. CASE Ready(w)
  <2>1. x.pc = "ready" /\ Step(w, "record") BY <1>9 DEF Ready
  <2>2. RowAt("record", x.kind, x.result, status[x.run]) BY <2>1 DEF Busy, RowAt
  <2> QED BY <1>9, <2>1, <2>2, LogStep DEF Ready, WorkStep, Event, Pointing
<1>10. CASE Complete(w)
  <2>1. x.pc = "complete" /\ Step(w, AfterComplete(x.kind, x.agent)) BY <1>10 DEF Complete
  <2>2. /\ AfterComplete(x.kind, x.agent) \in WorkStep \ {"lookup"}
        /\ AfterComplete(x.kind, x.agent) \in Pointing => x.agent \in Agents
        /\ RowAt(AfterComplete(x.kind, x.agent), x.kind, x.result, "completed")
    BY <2>1 DEF AfterComplete, Clear, AfterClear, WorkStep, Pointing, Busy, RowAt, Owners
  <2> QED BY <1>10, <2>1, <2>2, RowStep DEF Complete, Status, Terminal
<1>11. CASE DoneEvent(w)
  <2>1. x.pc = "doneEvent" /\ Step(w, AfterLastEvent(x.kind)) BY <1>11 DEF DoneEvent
  <2>2. /\ AfterLastEvent(x.kind) \in WorkStep \ {"lookup"}
        /\ AfterLastEvent(x.kind) \in Pointing => x.agent \in Agents
        /\ RowAt(AfterLastEvent(x.kind), x.kind, x.result, status[x.run])
    BY <2>1 DEF AfterLastEvent, WorkStep, Pointing, Busy, RowAt, WorkerForm
  <2> QED BY <1>11, <2>1, <2>2, LogStep DEF DoneEvent, Event
<1>12. CASE Fail(w)
  <2>1. Step(w, "failEvent") BY <1>12 DEF Fail
  <2>2. RowAt("failEvent", x.kind, x.result, "failed") BY DEF RowAt
  <2> QED BY <1>12, <2>1, <2>2, RowStep DEF Fail, Status, Terminal, WorkStep, Pointing
<1>13. CASE FailEvents(w)
  <2>1. PICK p \in WorkStep \ {"lookup"}, e \in Event :
          Step(w, p) /\ Append1(x.run, e) /\ (p \in Pointing => x.agent \in Agents)
          /\ RowAt(p, x.kind, x.result, status[x.run])
    BY <1>13 DEF FailEvents, AfterLastEvent, WorkStep, Pointing, Busy, RowAt,
       WorkerForm, Event
  <2> QED BY <1>13, <2>1, LogStep DEF FailEvents
<1> QED
  BY <1>1, <1>2, <1>3, <1>4, <1>5, <1>6, <1>7, <1>8, <1>9, <1>10, <1>11, <1>12, <1>13

(* A transaction of the task raises.                                       *)
LEMMA FaultInv ==
  ASSUME IInv, NEW w \in Workers, TaskFault(w)
  PROVE  IInv'
<1> DEFINE x == worker[w]
<1>0. x.pc # "idle" BY DEF TaskFault, AnalysisFault, WorkflowFault
<1>b. Busy(w) BY <1>0, BusyThread
<1>t. TypeOK /\ Shape BY DEF IInv
<1>f. faults' \in Nat /\ toggles' \in Nat /\ crashes' \in Nat
      /\ UNCHANGED <<dbVars, queue, client>>
  BY <1>t DEF TaskFault, TypeOK
<1> USE <1>0, <1>b, <1>t, <1>f
<1>1. CASE Escape(w)
  BY <1>1, EndStep DEF Escape, TypeOK, Busy
<1>2. CASE \E p \in WorkStep \ ({"lookup"} \cup Pointing) :
             /\ Step(w, p) /\ UNCHANGED raised
             /\ RowAt(p, x.kind, x.result, status[x.run])
  <2>1. PICK p \in WorkStep \ ({"lookup"} \cup Pointing) :
             /\ Step(w, p) /\ UNCHANGED raised
             /\ RowAt(p, x.kind, x.result, status[x.run])
    BY <1>2
  <2>2. Threads /\ Moves(w, p) /\ worker'[w].result = x.result BY <2>1, StepOK
  <2> QED BY <2>1, <2>2, QuietStep DEF TypeOK, dbVars
<1>3. CASE /\ x.kind # "analysis" /\ UNCHANGED raised
           /\ x.pc \in {"record", "ready", "complete", "doneEvent"}
           /\ SetWorker(w, [x EXCEPT !.pc = "fail", !.result = "err"])
  <2>1. Threads /\ Moves(w, "fail") /\ worker'[w].result = "err"
    BY <1>3, ResultOK DEF WorkStep, Pointing
  <2>2. RowAt("fail", x.kind, "err", status[x.run]) BY <1>3 DEF Busy, RowAt
  <2> QED BY <1>3, <2>1, <2>2, QuietStep DEF TypeOK, dbVars, WorkStep
<1>4. CASE /\ x.kind # "analysis" /\ UNCHANGED raised
           /\ x.pc \in {"fail", "failEvent", "errorEvent"}
           /\ SetWorker(w, [x EXCEPT !.pc = "clearRead", !.raising = TRUE])
  <2>1. Threads /\ Moves(w, "clearRead")
    BY <1>4, RaisingOK DEF Busy, WorkerForm
  <2>2. RowAt("clearRead", x.kind, worker'[w].result, status[x.run])
    BY <1>4 DEF Busy, RowAt
  <2> QED BY <1>4, <2>1, <2>2, QuietStep DEF TypeOK, dbVars, WorkStep
<1>5. CASE AnalysisFault(w)
  BY <1>5, <1>1, <1>2 DEF AnalysisFault, WorkStep, Pointing, Busy, RowAt
<1>6. CASE WorkflowFault(w)
  BY <1>6, <1>1, <1>2, <1>3, <1>4 DEF WorkflowFault, WorkStep, Pointing, Busy, RowAt
<1> QED
  BY <1>5, <1>6 DEF TaskFault

(* The queue.                                                              *)
LEMMA TailQueue ==
  ASSUME NEW q \in Seq(Task), q # <<>>, Disjoint(q)
  PROVE  /\ Tail(q) \in Seq(Task) /\ Head(q) \in Task
         /\ QueuedIn(Tail(q)) \cap Head(q).runs = {}
         /\ QueuedIn(Tail(q)) \subseteq QueuedIn(q)
         /\ Head(q).runs \subseteq QueuedIn(q)
         /\ Disjoint(Tail(q))
<1>1. Len(q) \in Nat \ {0} /\ Head(q) = q[1] /\ DOMAIN q = 1 .. Len(q) OBVIOUS
<1>2. DOMAIN Tail(q) = 1 .. (Len(q) - 1)
      /\ \A i \in DOMAIN Tail(q) : Tail(q)[i] = q[i + 1] /\ i + 1 \in DOMAIN q /\ i + 1 # 1
  BY <1>1
<1>3. 1 \in DOMAIN q BY <1>1
<1>4. \A i, j \in DOMAIN Tail(q) : i # j => i + 1 # j + 1 BY <1>2
<1> QED
  BY <1>1, <1>2, <1>3, <1>4 DEF QueuedIn, Disjoint

LEMMA AppendQueue ==
  ASSUME NEW q \in Seq(Task), NEW t \in Task, Disjoint(q),
         t.runs \cap QueuedIn(q) = {}
  PROVE  /\ Append(q, t) \in Seq(Task)
         /\ QueuedIn(Append(q, t)) = QueuedIn(q) \cup t.runs
         /\ Disjoint(Append(q, t))
<1> DEFINE a == Append(q, t)
<1>1. a \in Seq(Task) /\ DOMAIN a = (1 .. Len(q)) \cup {Len(q) + 1}
      /\ DOMAIN q = 1 .. Len(q) /\ Len(q) \in Nat
  OBVIOUS
<1>2. a[Len(q) + 1] = t /\ \A i \in 1 .. Len(q) : a[i] = q[i] OBVIOUS
<1> HIDE DEF a
<1>3. QueuedIn(a) = QueuedIn(q) \cup t.runs
  BY <1>1, <1>2 DEF QueuedIn
<1>4. \A i \in DOMAIN q : q[i].runs \cap t.runs = {} BY DEF QueuedIn
<1>5. Disjoint(a) BY <1>1, <1>2, <1>4 DEF Disjoint
<1> QED
  BY <1>1, <1>3, <1>5 DEF a

LEMMA TakeInv ==
  ASSUME IInv, NEW w \in Workers, Take(w)
  PROVE  IInv'
<1> DEFINE t == Head(queue)
<1>t. TypeOK /\ Shape /\ queue \in Seq(Task) /\ Disjoint(queue) /\ queue # <<>>
  BY DEF IInv, TypeOK, SingleOwner, Take
<1>1. /\ queue' \in Seq(Task) /\ t \in Task
      /\ Queued' \cap t.runs = {} /\ Queued' \subseteq Queued
      /\ t.runs \subseteq Queued /\ Disjoint(queue)'
  BY <1>t, TailQueue DEF Take, Queued, Disjoint, QueuedIn
<1>2. t.kind \in Kind /\ t.agent \in Owners /\ t.runs \in SUBSET Runs
      /\ (t.kind # "analysis" => t.agent \in Agents)
  BY <1>1 DEF Task
<1>3. /\ Threads
      /\ worker'[w].pc = "announce" /\ worker'[w].run \in t.runs
      /\ worker'[w].todo = t.runs \ {worker'[w].run}
      /\ \A v \in Workers \ {w} : worker'[v] = worker[v]
  BY <1>t, <1>2, BeginOK DEF Take
<1>4. TypeOK' /\ Shape'
  BY <1>t, <1>1, <1>3 DEF Take, TypeOK, Shape, Threads, dbVars, bounds
<1>5. Holding(w)' = t.runs /\ Waiting(w)' \subseteq t.runs /\ worker'[w].run \in Runs
  BY <1>2, <1>3 DEF Holding, Waiting, Runs, NoRun
<1>6. \A c \in Clients : UNCHANGED WithClient(c) BY DEF Take, WithClient
<1>7. \A v \in Workers \ {w} : UNCHANGED <<Holding(v), Waiting(v)>>
  BY <1>3 DEF Holding, Waiting
<1>8. SingleOwner'
  BY <1>1, <1>5, <1>6, <1>7 DEF IInv, SingleOwner
<1>9. UNCHANGED status BY DEF Take, dbVars
<1>10. WaitingIsPending'
  BY <1>1, <1>5, <1>6, <1>7, <1>9 DEF IInv, WaitingIsPending
<1>11. status[worker'[w].run] = "pending"
  BY <1>1, <1>2, <1>3 DEF IInv, WaitingIsPending
<1>12. Rows'
  BY <1>3, <1>9, <1>11 DEF IInv, Rows, RowAt
<1> QED
  BY <1>4, <1>8, <1>10, <1>12 DEF IInv

LEMMA ReturnInv ==
  ASSUME IInv, NEW w \in Workers, Return(w)
  PROVE  IInv'
<1>0. worker[w].pc = "done" /\ worker[w].pc # "idle" BY DEF Return
<1>b. Busy(w) BY <1>0, BusyThread
<1>t. TypeOK /\ Shape /\ worker[w] \in Worker BY DEF IInv, TypeOK
<1>f. faults' \in Nat /\ toggles' \in Nat /\ crashes' \in Nat /\ raised' \subseteq Runs
      /\ UNCHANGED <<dbVars, queue, client>>
  BY <1>b, <1>t DEF Return, TypeOK, bounds, Busy
<1>1. CASE TaskOver(w) BY <1>0, <1>1, <1>f, EndStep
<1>2. CASE NextRun(w)
  <2>1. worker[w].todo \in SUBSET Runs BY <1>t DEF Worker
  <2>2. /\ Threads
        /\ worker'[w].pc = "announce" /\ worker'[w].run \in worker[w].todo
        /\ worker'[w].todo = worker[w].todo \ {worker'[w].run}
        /\ \A v \in Workers \ {w} : worker'[v] = worker[v]
    BY <1>2, <1>b, <1>t, <2>1, BeginOK DEF NextRun, Busy, WorkerForm
  <2>3. TypeOK' /\ Shape'
    BY <1>t, <1>f, <2>2 DEF TypeOK, Shape, Threads, dbVars
  <2>4. UNCHANGED <<Queued, Disjoint(queue), status>> /\ \A c \in Clients : UNCHANGED WithClient(c)
    BY <1>f DEF Queued, Disjoint, WithClient, dbVars
  <2>5. \A v \in Workers : Holding(v)' \subseteq Holding(v) /\ Waiting(v)' \subseteq Waiting(v)
    BY <2>2 DEF Holding, Waiting
  <2>6. SingleOwner' BY <2>4, <2>5 DEF IInv, SingleOwner
  <2>7. WaitingIsPending' BY <2>4, <2>5 DEF IInv, WaitingIsPending
  <2>8. status[worker'[w].run] = "pending"
    BY <2>1, <2>2 DEF IInv, WaitingIsPending, Waiting
  <2>9. Rows' BY <2>2, <2>4, <2>8 DEF IInv, Rows, RowAt
  <2> QED BY <2>3, <2>6, <2>7, <2>9 DEF IInv
<1> QED
  BY <1>1, <1>2 DEF Return

-----------------------------------------------------------------------------
(* The steps of a request handler.                                         *)

(* A step that writes no run row and gives the handler no run.             *)
LEMMA HandlerStep ==
  ASSUME IInv, NEW c \in Clients, NEW R, R \subseteq Made(client[c]),
         Handlers, Has(c, R), TypeOK', UNCHANGED <<queue, worker, status>>
  PROVE  IInv'
<1>1. Shape' BY DEF IInv, Shape, Handlers
<1> QED
  BY <1>1, HandlerKeepsOwners DEF IInv

LEMMA SubmitInv ==
  ASSUME IInv, NEW c \in Clients, NEW k \in Kinds, NEW a \in Owners, Submit(c, k, a)
  PROVE  IInv'
<1>t. TypeOK /\ Shape /\ k \in Kind BY RunConstants DEF IInv
<1> DEFINE y == [IdleClient EXCEPT !.kind = k, !.agent = a,
                   !.pc = IF a = NoAgent THEN "create" ELSE "gate"]
<1>1. y \in Client /\ ClientForm(y) /\ Made(y) = {}
  BY <1>t DEF IdleClient, Client, ClientForm, Section, NoRun, Made, SubmitStep,
     ToggleStep, Submit, Owners
<1>2. SetClient(c, y) BY DEF Submit
<1> HIDE DEF y
<1>3. Handlers /\ Has(c, {}) BY <1>t, <1>1, <1>2, SetClientOK DEF Has
<1>4. TypeOK' BY <1>t, <1>3 DEF Submit, TypeOK, Handlers, dbVars, bounds
<1> QED
  BY <1>3, <1>4, HandlerStep DEF Submit, dbVars

(* Handlers that go on or answer.                                          *)
LEMMA PassInv ==
  ASSUME IInv, NEW c \in Clients,
         Gate(c) \/ Refuse(c) \/ SubmitFault(c) \/ ToggleRow(c)
           \/ ToggleActivation(c) \/ ToggleState(c) \/ ToggleFault(c)
  PROVE  IInv'
<1>t. TypeOK /\ Shape BY DEF IInv
<1>1. Handlers /\ \E R \in SUBSET Made(client[c]) : Has(c, R)
  <2>1. CASE Answer(c) BY <1>t, <2>1, AnswerOK
  <2>2. CASE client[c].pc = "gate" /\ Goto(c, "create")
    BY <1>t, <2>2, GotoOK DEF SubmitStep
  <2>3. CASE client[c].pc = "row" /\ Goto(c, "spec")
    BY <1>t, <2>3, GotoOK DEF SubmitStep, ToggleStep
  <2>4. CASE client[c].pc = "activation" /\ Goto(c, "state")
    BY <1>t, <2>4, GotoOK DEF SubmitStep, ToggleStep
  <2> QED BY <2>1, <2>2, <2>3, <2>4 DEF Gate, Refuse, SubmitFault, ToggleRow,
             ToggleActivation, ToggleState, ToggleFault
<1>2. client[c].want \in BOOLEAN /\ client[c].seen.run \in Runs \cup {NoRun}
  BY <1>t DEF TypeOK, Client, Section
<1>3. isActive' \in [Agents -> BOOLEAN] /\ activation' \in [Agents -> BOOLEAN]
  BY <1>t, <1>2 DEF Gate, Refuse, SubmitFault, ToggleRow, ToggleActivation,
     ToggleState, ToggleFault, dbVars, TypeOK
<1>4. section' \in [Agents -> Section]
  <2>1. \A a \in Agents : [mode |-> IF client[c].want THEN "active" ELSE "inactive",
                           run |-> client[c].seen.run] \in Section
    BY <1>2 DEF Section
  <2> QED BY <1>t, <2>1 DEF Gate, Refuse, SubmitFault, ToggleRow, ToggleActivation,
             ToggleState, ToggleFault, dbVars, TypeOK
<1>5. /\ UNCHANGED <<status, agentOf, log, outputs, queue, worker, raised>>
      /\ faults' \in Nat /\ toggles' \in Nat /\ crashes' \in Nat
  BY <1>t DEF Gate, Refuse, SubmitFault, ToggleRow, ToggleActivation,
     ToggleState, ToggleFault, dbVars, bounds, TypeOK
<1>6. TypeOK' BY <1>t, <1>1, <1>3, <1>4, <1>5 DEF TypeOK, Handlers
<1> QED
  BY <1>1, <1>5, <1>6, HandlerStep

LEMMA ToggleCallInv ==
  ASSUME IInv, NEW c \in Clients, NEW a \in Agents, NEW on \in BOOLEAN,
         ToggleCall(c, a, on)
  PROVE  IInv'
<1>t. TypeOK /\ Shape BY DEF IInv
<1> DEFINE y == [IdleClient EXCEPT !.pc = "row", !.agent = a, !.want = on]
<1>1. y \in Client /\ ClientForm(y) /\ Made(y) = {}
  BY <1>t DEF IdleClient, Client, ClientForm, Section, NoRun, Made, SubmitStep,
     ToggleStep, Owners, Kind
<1>2. SetClient(c, y) BY DEF ToggleCall
<1> HIDE DEF y
<1>3. Handlers /\ Has(c, {}) BY <1>t, <1>1, <1>2, SetClientOK DEF Has
<1>4. TypeOK' BY <1>t, <1>3 DEF ToggleCall, TypeOK, Handlers, dbVars
<1> QED
  BY <1>3, <1>4, HandlerStep DEF ToggleCall, dbVars

LEMMA ToggleSpecInv ==
  ASSUME IInv, NEW c \in Clients, ToggleSpec(c)
  PROVE  IInv'
<1>t. TypeOK /\ Shape BY DEF IInv
<1> DEFINE y == [client[c] EXCEPT !.pc = "activation",
                                  !.seen = section[client[c].agent]]
<1>1. client[c] \in Client /\ ClientForm(client[c]) /\ client[c].pc = "spec"
  BY <1>t DEF TypeOK, Shape, ToggleSpec
<1>2. section[client[c].agent] \in Section
  BY <1>t, <1>1 DEF TypeOK, ClientForm, ToggleStep
<1>3. y \in Client /\ y.pc = "activation" /\ y.made = client[c].made
      /\ y.fresh = client[c].fresh /\ y.agent = client[c].agent /\ y.kind = client[c].kind
  BY <1>1, <1>2 DEF Client, ToggleStep
<1>4. SetClient(c, y) BY DEF ToggleSpec
<1> HIDE DEF y
<1>5. ClientForm(y) /\ Made(y) = Made(client[c])
  BY <1>1, <1>3 DEF ClientForm, ToggleStep, Made
<1>6. Handlers /\ Has(c, Made(client[c]))
  BY <1>t, <1>3, <1>4, <1>5, SetClientOK DEF Has
<1>7. TypeOK' BY <1>t, <1>6 DEF ToggleSpec, TypeOK, Handlers, dbVars, bounds
<1> QED
  BY <1>6, <1>7, HandlerStep DEF ToggleSpec, dbVars

(* The new run has no owner yet: every owned run has a row.                *)
LEMMA OwnedHasRow ==
  ASSUME IInv, NEW r \in Runs, status[r] = "none"
  PROVE  /\ r \notin Queued
         /\ \A c \in Clients : r \notin WithClient(c)
         /\ \A w \in Workers : r \notin Holding(w)
<1>1. ASSUME NEW w \in Workers, r = worker[w].run PROVE FALSE
  <2>1. worker[w].pc # "idle"
    BY <1>1 DEF IInv, Shape, WorkerForm, Runs, NoRun
  <2>2. RowAt(worker[w].pc, worker[w].kind, worker[w].result, "none")
    BY <1>1, <2>1 DEF IInv, Rows
  <2> QED BY <2>2 DEF RowAt
<1> QED
  BY <1>1 DEF IInv, WaitingIsPending, Holding, Waiting

LEMMA CreateInv ==
  ASSUME IInv, NEW c \in Clients, Create(c)
  PROVE  IInv'
<1>t. TypeOK /\ Shape BY DEF IInv
<1>1. PICK r \in Runs :
        /\ status[r] = "none"
        /\ status' = [status EXCEPT ![r] = "pending"]
        /\ agentOf' = [agentOf EXCEPT ![r] = client[c].agent]
        /\ SetClient(c, [client[c] EXCEPT !.pc = "note", !.fresh = r])
  BY DEF Create
<1> DEFINE y == [client[c] EXCEPT !.pc = "note", !.fresh = r]
<1>2. client[c] \in Client /\ ClientForm(client[c]) /\ client[c].pc = "create"
  BY <1>t DEF TypeOK, Shape, Create
<1>3. y \in Client /\ y.pc = "note" /\ y.made = client[c].made /\ y.fresh = r
      /\ y.agent = client[c].agent /\ y.kind = client[c].kind /\ client[c].agent \in Owners
  BY <1>2 DEF Client, SubmitStep
<1>4. SetClient(c, y) BY <1>1
<1> HIDE DEF y
<1>5. ClientForm(y) /\ Made(y) \subseteq Made(client[c]) \cup {r}
  BY <1>2, <1>3 DEF ClientForm, ToggleStep, Made
<1>6. Handlers /\ Has(c, Made(y)) BY <1>t, <1>3, <1>4, <1>5, SetClientOK DEF Has
<1>7. TypeOK' /\ Shape'
  BY <1>t, <1>1, <1>3, <1>6 DEF Create, TypeOK, Shape, Handlers, bounds, Status
<1>8. /\ WithClient(c)' \subseteq WithClient(c) \cup {r}
      /\ \A d \in Clients \ {c} : UNCHANGED WithClient(d)
  BY <1>5, <1>6 DEF Has, Made, WithClient
<1>9. UNCHANGED <<Queued, Disjoint(queue)>>
      /\ \A w \in Workers : UNCHANGED <<Holding(w), Waiting(w)>>
  BY DEF Create, Queued, Disjoint, Holding, Waiting
<1>10. SingleOwner'
  BY <1>1, <1>8, <1>9, OwnedHasRow DEF IInv, SingleOwner
<1>11. WaitingIsPending'
  BY <1>1, <1>t, <1>8, <1>9 DEF IInv, WaitingIsPending, TypeOK
<1>12. Rows'
  <2>1. \A w \in Workers : worker[w].run # r
    BY <1>1, OwnedHasRow DEF Holding, Runs, NoRun
  <2> QED BY <1>1, <1>t, <2>1 DEF IInv, Rows, Create, Shape, WorkerForm, TypeOK
<1> QED
  BY <1>7, <1>10, <1>11, <1>12 DEF IInv

LEMMA NoteInv ==
  ASSUME IInv, NEW c \in Clients, Note(c)
  PROVE  IInv'
<1>t. TypeOK /\ Shape BY DEF IInv
<1>1. PICK p \in {"create", "dispatch"} :
        SetClient(c, [client[c] EXCEPT !.pc = p, !.fresh = NoRun,
                                       !.made = @ \cup {client[c].fresh}])
  BY DEF Note
<1> DEFINE y == [client[c] EXCEPT !.pc = p, !.fresh = NoRun,
                                  !.made = @ \cup {client[c].fresh}]
<1>2. client[c] \in Client /\ ClientForm(client[c]) /\ client[c].pc = "note"
  BY <1>t DEF TypeOK, Shape, Note
<1>3. client[c].fresh \in Runs BY <1>2 DEF ClientForm
<1>4. y \in Client /\ y.pc = p /\ y.made = client[c].made \cup {client[c].fresh}
      /\ y.fresh = NoRun /\ y.agent = client[c].agent /\ y.kind = client[c].kind
  BY <1>2, <1>3 DEF Client, SubmitStep
<1>5. SetClient(c, y) BY <1>1
<1> HIDE DEF y
<1>6. ClientForm(y) /\ Made(y) = Made(client[c])
  BY <1>2, <1>3, <1>4 DEF ClientForm, ToggleStep, Made, Runs, NoRun
<1>7. Handlers /\ Has(c, Made(client[c]))
  BY <1>t, <1>4, <1>5, <1>6, SetClientOK DEF Has
<1>8. log' \in [Runs -> Seq(Event)]
  BY <1>t, <1>3 DEF Note, Append1, TypeOK, Event
<1>9. TypeOK' BY <1>t, <1>7, <1>8 DEF Note, TypeOK, Handlers, bounds
<1> QED
  BY <1>7, <1>9, HandlerStep DEF Note

LEMMA DispatchInv ==
  ASSUME IInv, NEW c \in Clients, Dispatch(c)
  PROVE  IInv'
<1>t. TypeOK /\ Shape /\ queue \in Seq(Task) /\ Disjoint(queue)
  BY DEF IInv, TypeOK, SingleOwner
<1>1. PICK batch \in SUBSET client[c].made :
        /\ queue' = Append(queue, [kind |-> client[c].kind,
                                   agent |-> client[c].agent, runs |-> batch])
        /\ IF batch = client[c].made
             THEN Answer(c)
             ELSE SetClient(c, [client[c] EXCEPT !.made = @ \ batch])
  BY DEF Dispatch
<1> DEFINE t == [kind |-> client[c].kind, agent |-> client[c].agent, runs |-> batch]
<1>2. client[c] \in Client /\ ClientForm(client[c]) /\ client[c].pc = "dispatch"
  BY <1>t DEF TypeOK, Shape, Dispatch
<1>3. t \in Task
  BY <1>2 DEF Task, Client, ClientForm, Owners
<1>4. batch \subseteq WithClient(c) BY DEF WithClient
<1>5. batch \cap Queued = {} BY <1>4 DEF IInv, SingleOwner
<1>6. /\ queue' \in Seq(Task) /\ Queued' = Queued \cup batch /\ Disjoint(queue)'
  <2>1. queue' = Append(queue, t) /\ t.runs = batch BY <1>1
  <2> HIDE DEF t
  <2> QED BY <1>t, <1>3, <1>5, <2>1, AppendQueue DEF Queued, Disjoint, QueuedIn
<1>7. Handlers /\ \E R \in SUBSET Made(client[c]) : Has(c, R) /\ R \cap batch = {}
  <2>1. CASE Answer(c) BY <1>t, <2>1, AnswerOK
  <2>2. CASE SetClient(c, [client[c] EXCEPT !.made = @ \ batch])
               /\ batch # client[c].made
    <3> DEFINE y == [client[c] EXCEPT !.made = @ \ batch]
    <3>1. y \in Client /\ y.pc = "dispatch" /\ y.made = client[c].made \ batch
          /\ y.fresh = client[c].fresh /\ y.agent = client[c].agent
          /\ y.kind = client[c].kind
      BY <1>2 DEF Client
    <3>2. SetClient(c, y) BY <2>2
    <3> HIDE DEF y
    <3>3. ClientForm(y) BY <1>2, <3>1 DEF ClientForm, ToggleStep
    <3>4. Handlers /\ Has(c, Made(y)) BY <1>t, <3>1, <3>2, <3>3, SetClientOK DEF Has
    <3>5. client[c].fresh = NoRun BY <1>2 DEF ClientForm
    <3> QED BY <3>1, <3>4, <3>5 DEF Made
  <2> QED BY <1>1, <2>1, <2>2
<1>8. Shape' /\ TypeOK'
  BY <1>t, <1>6, <1>7 DEF Dispatch, TypeOK, Shape, Handlers, dbVars, bounds
<1>9. /\ WithClient(c)' \subseteq WithClient(c) \ batch
      /\ \A d \in Clients \ {c} : UNCHANGED WithClient(d)
  BY <1>7 DEF Has, Made, WithClient
<1>10. /\ UNCHANGED <<status, worker>>
       /\ \A w \in Workers : UNCHANGED <<Holding(w), Waiting(w)>>
  BY DEF Dispatch, Holding, Waiting, dbVars
<1>11. /\ \A d \in Clients \ {c} : batch \cap WithClient(d) = {}
       /\ \A w \in Workers : batch \cap Holding(w) = {}
  BY <1>4 DEF IInv, SingleOwner
<1>12. SingleOwner'
  BY <1>6, <1>9, <1>10, <1>11 DEF IInv, SingleOwner
<1>13. WaitingIsPending'
  BY <1>4, <1>6, <1>9, <1>10 DEF IInv, WaitingIsPending
<1>14. Rows' BY <1>10 DEF IInv, Rows
<1> QED
  BY <1>8, <1>12, <1>13, <1>14 DEF IInv

-----------------------------------------------------------------------------
(* The whole specification.                                                *)

(* A stop of the process: nothing is owned any more.                       *)
LEMMA CrashInv ==
  ASSUME IInv, Crash
  PROVE  IInv'
<1>1. TypeOK /\ Shape BY DEF IInv
<1>2. /\ \A c \in Clients : client'[c] = IdleClient
      /\ \A w \in Workers : worker'[w] = IdleWorker
      /\ queue' = <<>> /\ raised' = {}
  BY DEF Crash
<1>3. TypeOK' BY <1>1, Idle, IdleHandler DEF Crash, TypeOK, dbVars
<1>4. Shape' BY <1>2, Idle, IdleHandler DEF Shape
<1>5. /\ \A c \in Clients : WithClient(c)' = {}
      /\ \A w \in Workers : Holding(w)' = {} /\ Waiting(w)' = {}
      /\ Queued' = {} /\ Disjoint(queue)'
  BY <1>2, Idle DEF WithClient, Holding, Waiting, Queued, QueuedIn, Disjoint, IdleClient
<1>6. SingleOwner' /\ WaitingIsPending' BY <1>5 DEF SingleOwner, WaitingIsPending
<1>7. Rows' BY <1>2, Idle DEF Rows
<1> QED
  BY <1>3, <1>4, <1>6, <1>7 DEF IInv

LEMMA InitInv == Init => IInv
<1> SUFFICES ASSUME Init PROVE IInv
  OBVIOUS
<1>1. /\ \A c \in Clients : client[c] = IdleClient
      /\ \A w \in Workers : worker[w] = IdleWorker
      /\ queue = <<>>
  BY DEF Init
<1>2. section \in [Agents -> Section] BY DEF Init, Section
<1>3. TypeOK
  BY <1>2, Idle, IdleHandler DEF Init, TypeOK, Status, Owners
<1>4. Shape BY <1>1, Idle, IdleHandler DEF Shape
<1>5. /\ \A c \in Clients : WithClient(c) = {}
      /\ \A w \in Workers : Holding(w) = {} /\ Waiting(w) = {}
      /\ Queued = {} /\ Disjoint(queue)
  BY <1>1, Idle DEF WithClient, Holding, Waiting, Queued, QueuedIn, Disjoint, IdleClient
<1>6. SingleOwner /\ WaitingIsPending BY <1>5 DEF SingleOwner, WaitingIsPending
<1>7. Rows BY <1>1, Idle DEF Rows
<1> QED
  BY <1>3, <1>4, <1>6, <1>7 DEF IInv

LEMMA StutterInv ==
  ASSUME IInv, UNCHANGED vars
  PROVE  IInv'
BY DEF IInv, TypeOK, Shape, SingleOwner, WaitingIsPending, Rows, WithClient, Holding,
       Waiting, Queued, Disjoint, vars, dbVars, bounds

LEMMA NextInv == IInv /\ [Next]_vars => IInv'
<1> SUFFICES ASSUME IInv, [Next]_vars PROVE IInv'
  OBVIOUS
<1>1. CASE \E c \in Clients : ClientStep(c)
  <2> PICK c \in Clients : ClientStep(c) BY <1>1
  <2>1. CASE \E k \in Kinds, a \in Owners : Submit(c, k, a) BY <2>1, SubmitInv
  <2>2. CASE Gate(c) \/ Refuse(c) \/ SubmitFault(c) BY <2>2, PassInv
  <2>3. CASE Create(c) BY <2>3, CreateInv
  <2>4. CASE Note(c) BY <2>4, NoteInv
  <2>5. CASE Dispatch(c) BY <2>5, DispatchInv
  <2>6. CASE \E a \in Agents, on \in BOOLEAN : ToggleCall(c, a, on)
    BY <2>6, ToggleCallInv
  <2>7. CASE ToggleSpec(c) BY <2>7, ToggleSpecInv
  <2>8. CASE ToggleRow(c) \/ ToggleActivation(c) \/ ToggleState(c) \/ ToggleFault(c)
    BY <2>8, PassInv
  <2> QED BY <2>1, <2>2, <2>3, <2>4, <2>5, <2>6, <2>7, <2>8 DEF ClientStep
<1>2. CASE \E w \in Workers : Progress(w) \/ TaskFault(w)
  <2> PICK w \in Workers : Progress(w) \/ TaskFault(w) BY <1>2
  <2>1. CASE Take(w) BY <2>1, TakeInv
  <2>2. CASE Return(w) BY <2>2, ReturnInv
  <2>3. CASE TaskFault(w) BY <2>3, FaultInv
  <2> QED BY <2>1, <2>2, <2>3, WorkInv DEF Progress
<1>3. CASE Crash BY <1>3, CrashInv
<1>4. CASE UNCHANGED vars BY <1>4, StutterInv
<1> QED
  BY <1>1, <1>2, <1>3, <1>4 DEF Next

LEMMA Inductive == Spec => []IInv
BY InitInv, NextInv, PTL DEF Spec

(* The variables, threads and queue keep their types.                      *)
THEOREM TypeCorrect == Spec => []TypeOK
BY Inductive, PTL DEF IInv

(* No run is executed twice, in any number of threads and handlers.        *)
THEOREM OneOwner == Spec => []SingleOwner
BY Inductive, PTL DEF IInv

(* A run that still waits for its turn is pending.                         *)
THEOREM Unstarted == Spec => []WaitingIsPending
BY Inductive, PTL DEF IInv

-----------------------------------------------------------------------------
(* The status contract.                                                    *)

LEMMA RowMoves == IInv /\ [Next]_vars => [RC!Next]_status
<1> SUFFICES ASSUME IInv, [Next]_vars PROVE RC!Next \/ UNCHANGED status
  OBVIOUS
<1>1. ASSUME NEW c \in Clients, Create(c) PROVE RC!Next
  BY <1>1 DEF Create, RC!Next, RC!Create, RC!Move
<1>2. ASSUME NEW w \in Workers, worker[w].pc # "idle"
      PROVE  worker[w].run \in Runs
             /\ RowAt(worker[w].pc, worker[w].kind, worker[w].result, status[worker[w].run])
  BY <1>2, BusyThread DEF Busy
<1>3. ASSUME NEW w \in Workers, Start(w) PROVE RC!Next
  <2>1. status[worker[w].run] = "pending" /\ worker[w].run \in Runs
    BY <1>2, <1>3 DEF Start, RowAt
  <2> QED BY <1>3, <2>1 DEF Start, RC!Next, RC!Begin, RC!Move
<1>4. ASSUME NEW w \in Workers, Complete(w) PROVE RC!Next
  <2>1. status[worker[w].run] = "running" /\ worker[w].run \in Runs
    BY <1>2, <1>4 DEF Complete, RowAt
  <2> QED BY <1>4, <2>1 DEF Complete, RC!Next, RC!Complete, RC!Move
<1>5. ASSUME NEW w \in Workers, Fail(w) PROVE RC!Next
  <2>1. status[worker[w].run] \in {"running", "completed"} /\ worker[w].run \in Runs
    BY <1>2, <1>5 DEF Fail, RowAt
  <2> QED BY <1>5, <2>1 DEF Fail, RC!Next, RC!Fail, RC!Retract, RC!Move
<1>6. ASSUME NEW c \in Clients, ClientStep(c), ~Create(c) PROVE UNCHANGED status
  BY <1>6 DEF ClientStep, Submit, Gate, Note, Refuse, Dispatch, SubmitFault,
     ToggleCall, ToggleRow, ToggleSpec, ToggleActivation, ToggleState,
     ToggleFault, dbVars
<1>7. ASSUME NEW w \in Workers, Progress(w), ~Start(w), ~Complete(w), ~Fail(w)
      PROVE  UNCHANGED status
  BY <1>7 DEF Progress, Take, Announce, Lookup, PointerRead, PointerWrite,
     PointerWarn, Work, Record, Ready, DoneEvent, FailEvents, Return, dbVars
<1>8. ASSUME NEW w \in Workers, TaskFault(w) PROVE UNCHANGED status
  BY <1>8 DEF TaskFault, dbVars
<1>9. Crash \/ UNCHANGED vars => UNCHANGED status
  BY DEF Crash, vars, dbVars
<1> QED
  BY <1>1, <1>3, <1>4, <1>5, <1>6, <1>7, <1>8, <1>9 DEF Next

(* The run engine implements RunContract: rows only move from pending to   *)
(* running to a final status, and of the final ones only a completed       *)
(* workflow may be turned into a failed one.                               *)
THEOREM ImplementsContract == Spec => StatusContract
<1>1. Init => RC!Init BY DEF Init, RC!Init
<1> QED
  BY <1>1, RowMoves, Inductive, PTL DEF Spec, StatusContract, RC!Spec

-----------------------------------------------------------------------------
(* The order of a batch.                                                   *)

(* What a step by Step(w, p) keeps of the thread.                          *)
LEMMA StepKeeps ==
  ASSUME IInv, NEW w \in Workers, NEW p, Step(w, p)
  PROVE  /\ worker'[w].pc = p
         /\ worker'[w].run = worker[w].run
         /\ worker'[w].todo = worker[w].todo
         /\ worker'[w].kind = worker[w].kind
         /\ worker'[w].raising = worker[w].raising
         /\ \A v \in Workers \ {w} : worker'[v] = worker[v]
BY DEF IInv, TypeOK, Step, SetWorker, Worker

(* Nobody but the thread of a run writes its row.                          *)
LEMMA OthersStatus ==
  ASSUME IInv, NEW w \in Workers, worker[w].pc # "idle",
         NEW v \in Workers \ {w}, worker[v].pc # "idle"
  PROVE  worker[v].run # worker[w].run
<1>1. worker[w].run \in Holding(w) /\ worker[v].run \in Holding(v)
  BY DEF IInv, Shape, WorkerForm, Holding, Runs, NoRun
<1> QED
  BY <1>1 DEF IInv, SingleOwner

LEMMA EndedKept ==
  ASSUME IInv, Ended, NEW w \in Workers,
         \A v \in Workers \ {w} : worker'[v] = worker[v],
         \/ UNCHANGED status
         \/ /\ worker[w].pc # "idle"
            /\ \A r \in Runs \ {worker[w].run} : status'[r] = status[r],
         Ending(worker'[w]) =>
           worker'[w].raising \/ status'[worker'[w].run] \in Terminal
  PROVE  Ended'
<1>1. ASSUME NEW v \in Workers \ {w}, Ending(worker[v])
      PROVE  worker[v].raising \/ status'[worker[v].run] \in Terminal
  <2>1. worker[v].pc # "idle" BY <1>1 DEF Ending
  <2>2. worker[v].run \in Runs BY <2>1 DEF IInv, Shape, WorkerForm
  <2> QED BY <1>1, <2>1, <2>2, OthersStatus DEF Ended
<1> QED
  BY <1>1 DEF Ended

(* The steps of a thread that go through Step.                             *)
LEMMA EndedStep ==
  ASSUME IInv, Ended, NEW w \in Workers, worker[w].pc # "idle",
         \A r \in Runs \ {worker[w].run} : status'[r] = status[r],
         NEW p, Step(w, p),
         \/ p \notin {"done", "clearRead", "clearWrite", "clearWarn"}
         \/ worker[w].kind = "analysis" /\ p # "done"
         \/ worker[w].raising
         \/ status'[worker[w].run] \in Terminal
  PROVE  Ended'
BY StepKeeps, EndedKept DEF Ending

LEMMA EndedWork ==
  ASSUME IInv, Ended, NEW w \in Workers,
         \/ Announce(w) \/ Start(w) \/ Lookup(w)
         \/ PointerRead(w) \/ PointerWrite(w) \/ PointerWarn(w)
         \/ Work(w) \/ Record(w) \/ Ready(w) \/ Complete(w) \/ DoneEvent(w)
         \/ Fail(w) \/ FailEvents(w)
  PROVE  Ended'
<1> DEFINE x == worker[w]
<1>0. x.pc # "idle"
  BY DEF Announce, Start, Lookup, PointerRead, PointerWrite, PointerWarn, Work,
         Record, Ready, Complete, DoneEvent, Fail, FailEvents
<1>b. Busy(w) /\ worker[w] \in Worker BY <1>0, BusyThread DEF IInv, TypeOK
<1>s. \A r \in Runs \ {x.run} : status'[r] = status[r]
  BY DEF Announce, Start, Lookup, PointerRead, PointerWrite, PointerWarn, Work,
         Record, Ready, Complete, DoneEvent, Fail, FailEvents, dbVars, IInv, TypeOK
<1> USE <1>0, <1>b, <1>s
<1>1. CASE Announce(w) BY <1>1, EndedStep DEF Announce
<1>2. CASE Start(w)
  <2>1. AfterStart(x.kind) \in {"lookup", "setRead"} BY DEF AfterStart
  <2> QED BY <1>2, <2>1, EndedStep DEF Start
<1>3. CASE Lookup(w)
  <2>1. worker'[w].pc \in {"work", "setRead"} /\ \A v \in Workers \ {w} : worker'[v] = worker[v]
    BY <1>3 DEF Lookup, SetWorker, AfterLookup, Worker, IInv, TypeOK
  <2> QED BY <1>3, <2>1, EndedKept DEF Ending
<1>4. CASE PointerRead(w)
  <2>1. /\ worker'[w].pc = IF x.pc = "setRead" THEN "setWrite" ELSE "clearWrite"
        /\ worker'[w].run = x.run /\ worker'[w].kind = x.kind
        /\ worker'[w].raising = x.raising
        /\ \A v \in Workers \ {w} : worker'[v] = worker[v]
    BY <1>4 DEF PointerRead, SetWorker, Worker, IInv, TypeOK
  <2>2. UNCHANGED status BY <1>4 DEF PointerRead, dbVars
  <2> QED BY <1>4, <2>1, <2>2, EndedKept DEF Ending, Ended, PointerRead
<1>5. CASE PointerWrite(w) \/ PointerWarn(w)
  <2>1. CASE Step(w, "work") BY <2>1, EndedStep
  <2>2. CASE /\ x.pc \in {"clearWrite", "clearWarn"}
             /\ Step(w, AfterClear(x.kind, x.result))
    <3>1. UNCHANGED status BY <1>5 DEF PointerWrite, PointerWarn
    <3>2. CASE x.kind = "analysis"
      <4>1. AfterClear(x.kind, x.result) \in {"doneEvent", "fail"} BY <3>2 DEF AfterClear
      <4> QED BY <2>2, <4>1, EndedStep
    <3>3. CASE x.kind # "analysis"
      <4>1. x.raising \/ status'[x.run] \in Terminal
        BY <2>2, <3>1, <3>3 DEF Ending, Ended
      <4>2. CASE x.raising BY <2>2, <4>2, EndedStep
      <4>3. CASE status'[x.run] \in Terminal BY <2>2, <4>3, EndedStep
      <4> QED BY <4>1, <4>2, <4>3
    <3> QED BY <3>2, <3>3
  <2> QED BY <1>5, <2>1, <2>2 DEF PointerWrite, PointerWarn
<1>6. CASE Work(w)
  <2>1. PICK res \in {"ok", "err"} :
          SetWorker(w, [worker[w] EXCEPT !.result = res,
                          !.pc = IF res = "ok" THEN "record"
                                 ELSE AfterBadWork(x.kind, x.agent)])
    BY <1>6 DEF Work
  <2>2. /\ worker'[w].pc = IF res = "ok" THEN "record" ELSE AfterBadWork(x.kind, x.agent)
        /\ worker'[w].kind = x.kind
        /\ \A v \in Workers \ {w} : worker'[v] = worker[v]
    BY <2>1 DEF SetWorker, Worker, IInv, TypeOK
  <2>3. ~Ending(worker'[w])
    BY <2>2 DEF Ending, AfterBadWork, Clear, AfterClear
  <2> QED BY <1>6, <2>2, <2>3, EndedKept DEF Work, dbVars
<1>7. CASE Record(w) BY <1>7, EndedStep DEF Record
<1>8. CASE Ready(w) BY <1>8, EndedStep DEF Ready
<1>9. CASE Complete(w)
  <2>1. status'[x.run] \in Terminal BY <1>9 DEF Complete, IInv, TypeOK, Busy, Terminal
  <2> QED BY <1>9, <2>1, EndedStep DEF Complete
<1>10. CASE DoneEvent(w)
  <2>1. status'[x.run] \in Terminal BY <1>10 DEF DoneEvent, Busy, RowAt, Terminal
  <2> QED BY <1>10, <2>1, EndedStep DEF DoneEvent
<1>11. CASE Fail(w) BY <1>11, EndedStep DEF Fail
<1>12. CASE FailEvents(w)
  <2>1. status'[x.run] \in Terminal BY <1>12 DEF FailEvents, Busy, RowAt, Terminal
  <2> QED BY <1>12, <2>1, EndedStep DEF FailEvents
<1> QED
  BY <1>1, <1>2, <1>3, <1>4, <1>5, <1>6, <1>7, <1>8, <1>9, <1>10, <1>11, <1>12

LEMMA EndedFault ==
  ASSUME IInv, Ended, NEW w \in Workers, TaskFault(w)
  PROVE  Ended'
<1> DEFINE x == worker[w]
<1>0. x.pc # "idle" BY DEF TaskFault, AnalysisFault, WorkflowFault
<1>b. Busy(w) /\ worker[w] \in Worker /\ UNCHANGED status
  BY <1>0, BusyThread DEF IInv, TypeOK, TaskFault, dbVars
<1>s. \A r \in Runs \ {x.run} : status'[r] = status[r] BY <1>b
<1> USE <1>0, <1>b, <1>s
<1>1. CASE Escape(w)
  <2>1. worker'[w] = IdleWorker /\ \A v \in Workers \ {w} : worker'[v] = worker[v]
    BY <1>1 DEF Escape, TaskOver, SetWorker, IInv, TypeOK
  <2>2. ~Ending(worker'[w]) BY <2>1 DEF Ending, IdleWorker
  <2> QED BY <2>1, <2>2, EndedKept
<1>2. CASE Step(w, "setWarn") \/ Step(w, "work") BY <1>2, EndedStep
<1>3. CASE x.kind = "analysis" /\ Step(w, "clearWarn") BY <1>3, EndedStep
<1>4. CASE /\ x.kind # "analysis" /\ x.pc \in {"clearRead", "clearWrite"}
           /\ Step(w, "done")
  <2>1. x.raising \/ status'[x.run] \in Terminal BY <1>4 DEF Ended, Ending
  <2> QED BY <1>4, <2>1, EndedStep
<1>5. CASE SetWorker(w, [x EXCEPT !.pc = "fail", !.result = "err"])
  <2>1. worker'[w].pc = "fail" /\ \A v \in Workers \ {w} : worker'[v] = worker[v]
    BY <1>5 DEF SetWorker, Worker, IInv, TypeOK
  <2> QED BY <2>1, EndedKept DEF Ending
<1>6. CASE SetWorker(w, [x EXCEPT !.pc = "clearRead", !.raising = TRUE])
  <2>1. worker'[w].raising /\ \A v \in Workers \ {w} : worker'[v] = worker[v]
    BY <1>6 DEF SetWorker, Worker, IInv, TypeOK
  <2> QED BY <2>1, EndedKept
<1>7. CASE AnalysisFault(w) BY <1>7, <1>1, <1>2, <1>3 DEF AnalysisFault
<1>8. CASE WorkflowFault(w) BY <1>8, <1>1, <1>2, <1>4, <1>5, <1>6 DEF WorkflowFault
<1> QED
  BY <1>7, <1>8 DEF TaskFault

(* A thread that begins a run, or becomes free.                            *)
LEMMA EndedBegin ==
  ASSUME IInv, Ended, NEW w \in Workers, Take(w) \/ Return(w)
  PROVE  Ended'
<1>1. UNCHANGED status BY DEF Take, Return, dbVars
<1>2. ASSUME NEW k, NEW a, NEW runs, Begin(w, k, a, runs)
      PROVE  \E y : SetWorker(w, y) /\ y.pc = "announce"
  <2>1. PICK r \in runs :
          SetWorker(w, [IdleWorker EXCEPT !.pc = "announce", !.kind = k,
                          !.agent = a, !.run = r, !.todo = runs \ {r}])
    BY <1>2 DEF Begin
  <2>2. [IdleWorker EXCEPT !.pc = "announce", !.kind = k,
           !.agent = a, !.run = r, !.todo = runs \ {r}].pc = "announce"
    BY DEF IdleWorker
  <2> QED BY <2>1, <2>2
<1>3. PICK y : SetWorker(w, y) /\ y.pc \in {"announce", "idle"}
  BY <1>2, Idle DEF Take, Return, NextRun, TaskOver
<1>4. worker'[w] = y /\ \A v \in Workers \ {w} : worker'[v] = worker[v]
  BY <1>3 DEF SetWorker, IInv, TypeOK
<1> QED
  BY <1>1, <1>3, <1>4, EndedKept DEF Ending

LEMMA EndedNext == IInv /\ Ended /\ [Next]_vars => Ended'
<1> SUFFICES ASSUME IInv, Ended, [Next]_vars PROVE Ended'
  OBVIOUS
<1>1. CASE \E c \in Clients : ClientStep(c)
  <2> PICK c \in Clients : ClientStep(c) BY <1>1
  <2>1. CASE Create(c)
    <3>1. UNCHANGED worker BY <2>1 DEF Create
    <3>2. PICK r \in Runs : status[r] = "none" /\ status' = [status EXCEPT ![r] = "pending"]
      BY <2>1 DEF Create
    <3>3. \A w \in Workers : Ending(worker[w]) => worker[w].run \in Runs \ {r}
      <4> TAKE w \in Workers
      <4> HAVE Ending(worker[w])
      <4>1. worker[w].pc # "idle" BY DEF Ending
      <4>2. worker[w].run \in Runs BY <4>1 DEF IInv, Shape, WorkerForm
      <4>3. worker[w].run \in Holding(w) BY <4>2 DEF Holding, Runs, NoRun
      <4> QED BY <4>2, <4>3, <3>2, OwnedHasRow
    <3> QED BY <3>1, <3>2, <3>3 DEF Ended, IInv, TypeOK
  <2>2. CASE ~Create(c)
    <3>1. UNCHANGED <<status, worker>>
      BY <2>2 DEF ClientStep, Submit, Gate, Note, Refuse, Dispatch, SubmitFault,
         ToggleCall, ToggleRow, ToggleSpec, ToggleActivation, ToggleState,
         ToggleFault, dbVars
    <3> QED BY <3>1 DEF Ended
  <2> QED BY <2>1, <2>2
<1>2. CASE \E w \in Workers : Progress(w) \/ TaskFault(w)
  BY <1>2, EndedBegin, EndedFault, EndedWork DEF Progress
<1>3. CASE Crash
  <2>1. \A w \in Workers : ~Ending(worker'[w])
    BY <1>3 DEF Crash, Ending, IdleWorker
  <2> QED BY <2>1 DEF Ended
<1>4. CASE UNCHANGED vars BY <1>4 DEF vars, dbVars, Ended
<1> QED
  BY <1>1, <1>2, <1>3, <1>4 DEF Next

LEMMA EndedAlways == Spec => []Ended
<1>1. Init => Ended BY DEF Init, Ended, Ending, IdleWorker
<1> QED
  BY <1>1, EndedNext, Inductive, PTL DEF Spec

LEMMA BatchStep ==
  ASSUME IInv, Ended, [Next]_vars, NEW w \in Workers, worker'[w].run \in worker[w].todo
  PROVE  status[worker[w].run] \in Terminal
<1>1. worker[w].run \notin worker[w].todo /\ NoRun \notin worker[w].todo
      /\ (worker[w].pc = "idle" => worker[w].todo = {})
  BY DEF IInv, Shape, WorkerForm, TypeOK, Worker, Runs, NoRun
<1>2. worker'[w].run # worker[w].run /\ worker[w].pc # "idle" BY <1>1
<1>3. worker'[w] # worker[w] /\ worker'[w] # IdleWorker BY <1>1, <1>2, Idle
<1>4. worker # worker' /\ ~Crash BY <1>3 DEF Crash
<1>5. PICK v \in Workers : Progress(v) \/ TaskFault(v)
  <2>1. ASSUME NEW c \in Clients, ClientStep(c) PROVE UNCHANGED worker
    BY <2>1 DEF ClientStep, Submit, Gate, Create, Note, Refuse, Dispatch, SubmitFault,
       ToggleCall, ToggleRow, ToggleSpec, ToggleActivation, ToggleState, ToggleFault
  <2> QED BY <1>4, <2>1 DEF Next, vars
<1>6. v = w
  <2>1. \E y : SetWorker(v, y)
    BY <1>5 DEF Progress, TaskFault, AnalysisFault, WorkflowFault, Take, Announce,
       Start, Lookup, PointerRead, PointerWrite, PointerWarn, Work, Record, Ready,
       Complete, DoneEvent, Fail, FailEvents, Return, Escape, TaskOver, NextRun,
       Begin, Step
  <2> QED BY <1>3, <2>1 DEF SetWorker, IInv, TypeOK
<1>7. Return(w)
  <2>1. ASSUME NEW y, SetWorker(w, y), y.run = worker[w].run PROVE FALSE
    BY <1>2, <2>1 DEF SetWorker, IInv, TypeOK
  <2>2. ASSUME NEW p, Step(w, p) PROVE FALSE BY <1>2, <2>2, StepKeeps
  <2>3. ~TaskOver(w) /\ ~Take(w)
    BY <1>2, <1>3 DEF TaskOver, SetWorker, IInv, TypeOK, Take
  <2>4. ~Lookup(w) BY <2>1 DEF Lookup, Worker, IInv, TypeOK
  <2>5. ~PointerRead(w) BY <2>1 DEF PointerRead, Worker, IInv, TypeOK
  <2>6. ~Work(w) BY <2>1 DEF Work, Worker, IInv, TypeOK
  <2>7. ~TaskFault(w)
    BY <2>1, <2>2, <2>3 DEF TaskFault, AnalysisFault, WorkflowFault, Escape, Worker,
       IInv, TypeOK
  <2> QED BY <1>5, <1>6, <2>2, <2>3, <2>4, <2>5, <2>6, <2>7 DEF Progress, Announce,
             Start, PointerWrite, PointerWarn, Record, Ready, Complete, DoneEvent,
             Fail, FailEvents
<1>8. ~worker[w].raising /\ worker[w].pc = "done"
  BY <1>3, <1>7 DEF Return, TaskOver, SetWorker, IInv, TypeOK
<1> QED
  BY <1>8 DEF Ended, Ending

(* "The next run only starts after the previous one finishes (or fails)",  *)
(* whatever transactions raise and whatever other threads do.              *)
THEOREM BatchInOrder == Spec => BatchIsSequential
<1>1. IInv /\ Ended /\ [Next]_vars =>
        [\A w \in Workers :
           worker'[w].run \in worker[w].todo => status[worker[w].run] \in Terminal]_vars
  BY BatchStep
<1> QED
  BY <1>1, Inductive, EndedAlways, PTL DEF Spec, BatchIsSequential

-----------------------------------------------------------------------------
(* The truth of the events.                                                *)

LEMMA LogGrows ==
  ASSUME log \in [Runs -> Seq(Event)], NEW r \in Runs, NEW e, Append1(r, e)
  PROVE  \A q \in Runs : \A d : Says(log'[q], d) => Says(log[q], d) \/ (q = r /\ d = e)
<1>1. log[r] \in Seq(Event) OBVIOUS
<1>2. \A q \in Runs \ {r} : log'[q] = log[q] BY DEF Append1
<1>3. log'[r] = Append(log[r], e) BY DEF Append1
<1>4. ASSUME NEW i \in DOMAIN Append(log[r], e)
      PROVE  \/ i \in DOMAIN log[r] /\ Append(log[r], e)[i] = log[r][i]
             \/ Append(log[r], e)[i] = e
  BY <1>1
<1>5. ASSUME NEW d, Says(log'[r], d) PROVE Says(log[r], d) \/ d = e
  BY <1>3, <1>4, <1>5 DEF Says
<1>6. ASSUME NEW q \in Runs \ {r}, NEW d, Says(log'[q], d) PROVE Says(log[q], d)
  BY <1>2, <1>6 DEF Says
<1> QED
  BY <1>5, <1>6

(* What a step of thread w may do to the truth of the events of its run.   *)
LEMMA AnnouncedKept ==
  ASSUME IInv, Announced, NEW w \in Workers,
         \A v \in Workers \ {w} : worker'[v] = worker[v],
         \A r \in Runs \ {worker[w].run} :
           /\ status'[r] = status[r]
           /\ \A e : Says(log'[r], e) => Says(log[r], e),
         \/ worker'[w].run \in {worker[w].run, NoRun}
         \/ worker'[w].run \in Runs /\ status[worker'[w].run] = "pending",
         worker[w].run \in Runs =>
           LET R == worker[w].run IN
           /\ Says(log'[R], "completed") =>
                status'[R] = "completed" /\ (worker'[w].run = R => Ending(worker'[w]))
           /\ Says(log'[R], "failed") =>
                /\ status'[R] = "failed"
                /\ worker'[w].run = R => worker'[w].pc = "errorEvent" \/ Ending(worker'[w])
  PROVE  Announced'
<1>1. ASSUME NEW r \in Runs, r # worker[w].run
      PROVE  /\ Says(log'[r], "completed") =>
                  /\ status'[r] = "completed"
                  /\ \A v \in Workers : worker'[v].run = r => Ending(worker'[v])
             /\ Says(log'[r], "failed") =>
                  /\ status'[r] = "failed"
                  /\ \A v \in Workers :
                       worker'[v].run = r => worker'[v].pc = "errorEvent" \/ Ending(worker'[v])
  <2>1. status'[r] = status[r] /\ \A e : Says(log'[r], e) => Says(log[r], e) BY <1>1
  <2>2. Says(log[r], "completed") \/ Says(log[r], "failed") => status[r] # "pending"
    BY DEF Announced, Logged
  <2>3. Says(log[r], "completed") \/ Says(log[r], "failed") => worker'[w].run # r
    BY <1>1, <2>2 DEF Runs, NoRun
  <2> QED BY <2>1, <2>3 DEF Announced, Logged
<1>2. ASSUME NEW v \in Workers \ {w}, worker[w].run \in Runs
      PROVE  worker'[v].run # worker[w].run
  <2>1. worker[w].pc # "idle" /\ (worker[v].run = worker[w].run => worker[v].pc # "idle")
    BY <1>2 DEF IInv, Shape, WorkerForm, Runs, NoRun
  <2> QED BY <2>1, OthersStatus
<1> QED
  BY <1>1, <1>2 DEF Announced, Logged

(* Nothing final is announced before the last steps of a thread.           *)
LEMMA Untold ==
  ASSUME Announced, NEW w \in Workers, worker[w].run \in Runs,
         ~Ending(worker[w])
  PROVE  /\ ~Says(log[worker[w].run], "completed")
         /\ worker[w].pc # "errorEvent" => ~Says(log[worker[w].run], "failed")
BY DEF Announced, Logged

(* Steps that announce nothing final.                                      *)
LEMMA AnnouncedQuiet ==
  ASSUME IInv, Announced, NEW w \in Workers, worker[w].pc # "idle",
         \A v \in Workers \ {w} : worker'[v] = worker[v],
         \A r \in Runs \ {worker[w].run} : status'[r] = status[r],
         \A r \in Runs, e \in {"completed", "failed"} : Says(log'[r], e) => Says(log[r], e),
         \A r \in Runs \ {worker[w].run} : \A e : Says(log'[r], e) => Says(log[r], e),
         \/ worker'[w].run \in {worker[w].run, NoRun}
         \/ worker'[w].run \in Runs /\ status[worker'[w].run] = "pending",
         \/ Ending(worker'[w])
         \/ worker'[w].run # worker[w].run
         \/ ~Ending(worker[w]) /\ worker[w].pc # "errorEvent",
         \/ UNCHANGED status
         \/ ~Ending(worker[w]) /\ worker[w].pc # "errorEvent"
  PROVE  Announced'
<1>1. worker[w].run \in Runs BY BusyThread DEF Busy
<1>2. CASE ~Ending(worker[w]) /\ worker[w].pc # "errorEvent"
  BY <1>1, <1>2, Untold, AnnouncedKept
<1>3. CASE UNCHANGED status /\ (Ending(worker'[w]) \/ worker'[w].run # worker[w].run)
  <2>1. /\ Says(log'[worker[w].run], "completed") => status'[worker[w].run] = "completed"
        /\ Says(log'[worker[w].run], "failed") => status'[worker[w].run] = "failed"
    BY <1>1, <1>3 DEF Announced, Logged
  <2> QED BY <1>1, <1>3, <2>1, AnnouncedKept
<1> QED
  BY <1>2, <1>3

(* The log at a step that leaves it alone.                                 *)
LEMMA AnnouncedSilent ==
  ASSUME IInv, Announced, NEW w \in Workers, worker[w].pc # "idle",
         UNCHANGED log,
         \A v \in Workers \ {w} : worker'[v] = worker[v],
         \A r \in Runs \ {worker[w].run} : status'[r] = status[r],
         \/ worker'[w].run \in {worker[w].run, NoRun}
         \/ worker'[w].run \in Runs /\ status[worker'[w].run] = "pending",
         \/ Ending(worker'[w]) /\ UNCHANGED status
         \/ worker'[w].run # worker[w].run /\ UNCHANGED status
         \/ ~Ending(worker[w]) /\ worker[w].pc # "errorEvent"
  PROVE  Announced'
BY AnnouncedQuiet

LEMMA AnnouncedWork ==
  ASSUME IInv, Announced, NEW w \in Workers,
         \/ Announce(w) \/ Start(w) \/ Lookup(w)
         \/ PointerRead(w) \/ PointerWrite(w) \/ PointerWarn(w)
         \/ Work(w) \/ Record(w) \/ Ready(w) \/ Complete(w) \/ DoneEvent(w)
         \/ Fail(w) \/ FailEvents(w)
  PROVE  Announced'
<1> DEFINE x == worker[w]
<1>0. x.pc # "idle"
  BY DEF Announce, Start, Lookup, PointerRead, PointerWrite, PointerWarn, Work,
         Record, Ready, Complete, DoneEvent, Fail, FailEvents
<1>b. Busy(w) /\ x \in Worker /\ log \in [Runs -> Seq(Event)] /\ x.run \in Runs
  BY <1>0, BusyThread DEF IInv, TypeOK, Busy
<1>s. \A r \in Runs \ {x.run} : status'[r] = status[r]
  BY DEF Announce, Start, Lookup, PointerRead, PointerWrite, PointerWarn, Work,
         Record, Ready, Complete, DoneEvent, Fail, FailEvents, dbVars, IInv, TypeOK
<1> USE <1>0, <1>b, <1>s
<1>1. CASE Announce(w) \/ Ready(w)
  <2>1. PICK p, e : Step(w, p) /\ Append1(x.run, e) /\ e \notin {"completed", "failed"}
    BY <1>1 DEF Announce, Ready
  <2>2. worker'[w].run = x.run /\ \A v \in Workers \ {w} : worker'[v] = worker[v]
    BY <2>1, StepKeeps
  <2>3. ~Ending(x) /\ x.pc # "errorEvent" BY <1>1 DEF Announce, Ready, Ending
  <2> QED BY <2>1, <2>2, <2>3, LogGrows, AnnouncedQuiet
<1>2. CASE Start(w) \/ Complete(w) \/ Fail(w) \/ Record(w)
  <2>1. PICK p : Step(w, p) BY <1>2 DEF Start, Complete, Fail, Record
  <2>2. worker'[w].run = x.run /\ \A v \in Workers \ {w} : worker'[v] = worker[v]
    BY <2>1, StepKeeps
  <2>3. ~Ending(x) /\ x.pc # "errorEvent" BY <1>2 DEF Start, Complete, Fail, Record, Ending
  <2> QED BY <1>2, <2>2, <2>3, AnnouncedSilent DEF Start, Complete, Fail, Record
<1>3. CASE Lookup(w) \/ Work(w)
  <2>1. worker'[w].run = x.run /\ \A v \in Workers \ {w} : worker'[v] = worker[v]
    <3>1. CASE Lookup(w) BY <3>1, LookupOK DEF IInv, Moves
    <3>2. CASE Work(w)
      <4>1. PICK res, p :
              /\ SetWorker(w, [worker[w] EXCEPT !.result = res, !.pc = p])
              /\ res \in {"ok", "err"}
        BY <3>2 DEF Work
      <4> QED BY <4>1 DEF SetWorker, Worker, IInv, TypeOK
    <3> QED BY <1>3, <3>1, <3>2
  <2>2. ~Ending(x) /\ x.pc # "errorEvent" BY <1>3 DEF Lookup, Work, Ending
  <2> QED BY <1>3, <2>1, <2>2, AnnouncedSilent DEF Lookup, Work, dbVars
<1>4. CASE PointerRead(w)
  <2>1. /\ worker'[w].pc = IF x.pc = "setRead" THEN "setWrite" ELSE "clearWrite"
        /\ worker'[w].run = x.run /\ worker'[w].kind = x.kind
        /\ \A v \in Workers \ {w} : worker'[v] = worker[v]
    BY <1>4 DEF PointerRead, SetWorker, Worker, IInv, TypeOK
  <2>2. Ending(worker'[w]) \/ (~Ending(x) /\ x.pc # "errorEvent")
    BY <1>4, <2>1 DEF PointerRead, Ending
  <2> QED BY <1>4, <2>1, <2>2, AnnouncedSilent DEF PointerRead, dbVars
<1>5. CASE PointerWrite(w) \/ PointerWarn(w)
  <2>1. PICK p : /\ Step(w, p)
                 /\ \/ x.pc \in {"setWrite", "setWarn"}
                    \/ x.pc \in {"clearWrite", "clearWarn"} /\ p = AfterClear(x.kind, x.result)
    BY <1>5 DEF PointerWrite, PointerWarn
  <2>2. /\ worker'[w].run = x.run /\ worker'[w].pc = p /\ worker'[w].kind = x.kind
        /\ \A v \in Workers \ {w} : worker'[v] = worker[v]
    BY <2>1, StepKeeps
  <2>3. Ending(worker'[w]) \/ (~Ending(x) /\ x.pc # "errorEvent")
    BY <2>1, <2>2 DEF AfterClear, Ending
  <2>4. UNCHANGED status /\ (UNCHANGED log \/ Append1(x.run, "warning"))
    BY <1>5 DEF PointerWrite, PointerWarn
  <2> QED BY <2>2, <2>3, <2>4, LogGrows, AnnouncedQuiet
<1>6. CASE DoneEvent(w)
  <2>1. /\ x.pc = "doneEvent" /\ Append1(x.run, "completed") /\ UNCHANGED status
        /\ Step(w, AfterLastEvent(x.kind)) /\ status[x.run] = "completed"
    BY <1>6 DEF DoneEvent, Busy, RowAt
  <2>2. /\ worker'[w].run = x.run /\ Ending(worker'[w])
        /\ \A v \in Workers \ {w} : worker'[v] = worker[v]
    BY <2>1, StepKeeps DEF AfterLastEvent, Ending
  <2>3. ~Ending(x) BY <2>1 DEF Ending
  <2>4. ~Says(log[x.run], "failed") BY <2>1, <2>3, Untold
  <2>5. ~Says(log'[x.run], "failed") BY <2>1, <2>4, LogGrows
  <2>6. \A r \in Runs \ {x.run} : \A e : Says(log'[r], e) => Says(log[r], e)
    BY <2>1, LogGrows
  <2> QED BY <2>1, <2>2, <2>5, <2>6, AnnouncedKept
<1>7. CASE FailEvents(w)
  <2>1. PICK e : Append1(x.run, e) /\ (x.pc = "errorEvent" => e = "error")
                 /\ e # "completed"
    BY <1>7 DEF FailEvents
  <2>2. /\ x.pc \in {"failEvent", "errorEvent"} /\ UNCHANGED status
        /\ status[x.run] = "failed"
    BY <1>7 DEF FailEvents, Busy, RowAt
  <2>3. /\ worker'[w].run = x.run
        /\ worker'[w].pc = "errorEvent" \/ Ending(worker'[w])
        /\ \A v \in Workers \ {w} : worker'[v] = worker[v]
    BY <1>7, StepKeeps DEF FailEvents, AfterLastEvent, Ending
  <2>4. ~Ending(x) BY <2>2 DEF Ending
  <2>5. ~Says(log'[x.run], "completed") BY <2>1, <2>4, Untold, LogGrows
  <2>6. \A r \in Runs \ {x.run} : \A d : Says(log'[r], d) => Says(log[r], d)
    BY <2>1, LogGrows
  <2> QED BY <2>2, <2>3, <2>5, <2>6, AnnouncedKept
<1> QED
  BY <1>1, <1>2, <1>3, <1>4, <1>5, <1>6, <1>7

LEMMA AnnouncedFault ==
  ASSUME IInv, Announced, NEW w \in Workers, TaskFault(w)
  PROVE  Announced'
<1> DEFINE x == worker[w]
<1>0. x.pc # "idle" BY DEF TaskFault, AnalysisFault, WorkflowFault
<1>b. x \in Worker /\ UNCHANGED <<status, log>> BY DEF IInv, TypeOK, TaskFault, dbVars
<1>1. PICK y : SetWorker(w, y) /\ (y.run = x.run \/ y.run = NoRun)
               /\ (Ending(y) \/ y.run = NoRun \/ (~Ending(x) /\ x.pc # "errorEvent"))
  <2>1. CASE Escape(w) BY <2>1, Idle DEF Escape, TaskOver
  <2>2. ASSUME NEW p, Step(w, p), p = "done" \/ (~Ending(x) /\ x.pc # "errorEvent")
        PROVE  \E y : SetWorker(w, y) /\ y.run = x.run
                      /\ (Ending(y) \/ (~Ending(x) /\ x.pc # "errorEvent"))
    <3>1. /\ [x EXCEPT !.pc = p].pc = p /\ [x EXCEPT !.pc = p].run = x.run
      BY <1>b DEF Worker
    <3> QED BY <2>2, <3>1 DEF Step, Ending
  <2>3. ASSUME SetWorker(w, [x EXCEPT !.pc = "fail", !.result = "err"]),
               x.pc \in {"record", "ready", "complete", "doneEvent"}
        PROVE  \E y : SetWorker(w, y) /\ y.run = x.run
                      /\ (~Ending(x) /\ x.pc # "errorEvent")
    <3>1. [x EXCEPT !.pc = "fail", !.result = "err"].run = x.run BY <1>b DEF Worker
    <3> QED BY <2>3, <3>1 DEF Ending
  <2>4. ASSUME SetWorker(w, [x EXCEPT !.pc = "clearRead", !.raising = TRUE]),
               x.kind # "analysis"
        PROVE  \E y : SetWorker(w, y) /\ y.run = x.run /\ Ending(y)
    <3> DEFINE y == [x EXCEPT !.pc = "clearRead", !.raising = TRUE]
    <3>1. y.run = x.run /\ y.pc = "clearRead" /\ y.kind = x.kind BY <1>b DEF Worker
    <3>2. SetWorker(w, y) BY <2>4
    <3> HIDE DEF y
    <3> QED BY <2>4, <3>1, <3>2 DEF Ending
  <2>5. CASE AnalysisFault(w)
    BY <2>5, <2>1, <2>2 DEF AnalysisFault, Ending
  <2>6. CASE WorkflowFault(w)
    BY <2>6, <2>1, <2>2, <2>3, <2>4 DEF WorkflowFault, Ending
  <2> QED BY <2>5, <2>6 DEF TaskFault
<1>2. worker'[w] = y /\ \A v \in Workers \ {w} : worker'[v] = worker[v]
  BY <1>1 DEF SetWorker, IInv, TypeOK
<1>3. x.run \in Runs BY <1>0, BusyThread DEF Busy
<1> QED
  BY <1>0, <1>b, <1>1, <1>2, <1>3, AnnouncedSilent DEF Runs, NoRun

LEMMA AnnouncedBegin ==
  ASSUME IInv, Announced, NEW w \in Workers, Take(w) \/ Return(w)
  PROVE  Announced'
<1>1. UNCHANGED <<status, log>> BY DEF Take, Return, dbVars
<1>2. PICK y : /\ SetWorker(w, y)
               /\ y.run = NoRun \/ (y.run \in Runs /\ status[y.run] = "pending"
                                   /\ y.run # worker[w].run)
  <2>1. ASSUME NEW k, NEW a, NEW runs, Begin(w, k, a, runs)
        PROVE  \E y : SetWorker(w, y) /\ y.run \in runs
    <3>1. PICK r \in runs :
            SetWorker(w, [IdleWorker EXCEPT !.pc = "announce", !.kind = k,
                            !.agent = a, !.run = r, !.todo = runs \ {r}])
      BY <2>1 DEF Begin
    <3>2. [IdleWorker EXCEPT !.pc = "announce", !.kind = k,
             !.agent = a, !.run = r, !.todo = runs \ {r}].run = r
      BY DEF IdleWorker
    <3> QED BY <3>1, <3>2
  <2>2. CASE Take(w)
    <3>1. Head(queue).runs \subseteq Queued /\ Head(queue) \in Task
      BY <2>2, TailQueue DEF Take, Queued, IInv, SingleOwner, TypeOK
    <3>2. worker[w].run = NoRun BY <2>2 DEF Take, IInv, Shape, WorkerForm
    <3>3. Head(queue).runs \subseteq Runs BY <3>1 DEF Task
    <3>4. \A r \in Head(queue).runs : r \in Runs /\ status[r] = "pending" /\ r # NoRun
      BY <3>1, <3>3 DEF IInv, WaitingIsPending, Runs, NoRun
    <3>5. Begin(w, Head(queue).kind, Head(queue).agent, Head(queue).runs)
      BY <2>2 DEF Take
    <3> QED BY <2>1, <3>2, <3>4, <3>5
  <2>3. CASE TaskOver(w) BY <2>3, Idle DEF TaskOver
  <2>4. CASE NextRun(w)
    <3>1. worker[w].todo \subseteq Runs /\ worker[w].run \notin worker[w].todo
      BY DEF IInv, TypeOK, Shape, WorkerForm, Worker
    <3>2. \A r \in worker[w].todo : r \in Runs /\ status[r] = "pending"
      BY <3>1 DEF IInv, WaitingIsPending, Waiting
    <3>3. \E y : SetWorker(w, y) /\ y.run \in worker[w].todo BY <2>1, <2>4 DEF NextRun
    <3> QED BY <3>1, <3>2, <3>3
  <2> QED BY <2>2, <2>3, <2>4 DEF Return
<1>3. worker'[w] = y /\ \A v \in Workers \ {w} : worker'[v] = worker[v]
  BY <1>2 DEF SetWorker, IInv, TypeOK
<1>4. worker[w].run \in Runs => worker'[w].run # worker[w].run
  BY <1>2, <1>3 DEF Runs, NoRun
<1>5. worker[w].run \in Runs =>
        /\ Says(log'[worker[w].run], "completed") => status'[worker[w].run] = "completed"
        /\ Says(log'[worker[w].run], "failed") => status'[worker[w].run] = "failed"
  BY <1>1 DEF Announced, Logged
<1> QED
  BY <1>1, <1>2, <1>3, <1>4, <1>5, AnnouncedKept

LEMMA AnnouncedNext == IInv /\ Announced /\ [Next]_vars => Announced'
<1> SUFFICES ASSUME IInv, Announced, [Next]_vars PROVE Announced'
  OBVIOUS
<1>1. CASE \E c \in Clients : ClientStep(c)
  <2> PICK c \in Clients : ClientStep(c) BY <1>1
  <2>t. log \in [Runs -> Seq(Event)] /\ status \in [Runs -> Status] /\ Shape
    BY DEF IInv, TypeOK
  <2>1. CASE Create(c)
    <3>1. UNCHANGED <<worker, log>> BY <2>1 DEF Create
    <3>2. PICK r \in Runs : status[r] = "none" /\ status' = [status EXCEPT ![r] = "pending"]
      BY <2>1 DEF Create
    <3>3. \A q \in Runs : Says(log[q], "completed") \/ Says(log[q], "failed") =>
            status'[q] = status[q]
      BY <2>t, <3>2 DEF Announced, Logged
    <3> QED BY <3>1, <3>3 DEF Announced, Logged
  <2>2. CASE Note(c)
    <3>1. UNCHANGED <<worker, status>> /\ Append1(client[c].fresh, "info")
          /\ client[c].fresh \in Runs
      BY <2>2, <2>t DEF Note, Shape, ClientForm
    <3>2. \A q \in Runs, e \in {"completed", "failed"} :
            Says(log'[q], e) => Says(log[q], e)
      BY <2>t, <3>1, LogGrows
    <3> QED BY <3>1, <3>2 DEF Announced, Logged
  <2>3. CASE ~Create(c) /\ ~Note(c)
    <3>1. UNCHANGED <<status, worker, log>>
      BY <2>3 DEF ClientStep, Submit, Gate, Refuse, Dispatch, SubmitFault,
         ToggleCall, ToggleRow, ToggleSpec, ToggleActivation, ToggleState,
         ToggleFault, dbVars
    <3> QED BY <3>1 DEF Announced, Logged
  <2> QED BY <2>1, <2>2, <2>3
<1>2. CASE \E w \in Workers : Progress(w) \/ TaskFault(w)
  BY <1>2, AnnouncedBegin, AnnouncedFault, AnnouncedWork DEF Progress
<1>3. CASE Crash
  <2>1. UNCHANGED <<status, log>> /\ \A w \in Workers : worker'[w].run \notin Runs
    BY <1>3, Idle DEF Crash, dbVars, Runs, NoRun
  <2> QED BY <2>1 DEF Announced, Logged
<1>4. CASE UNCHANGED vars BY <1>4 DEF vars, dbVars, Announced, Logged
<1> QED
  BY <1>1, <1>2, <1>3, <1>4 DEF Next

(* The event log never announces an end the run's row does not have, at    *)
(* whatever transaction the task was cut off.                              *)
THEOREM TrueEvents == Spec => []EventsAreTrue
<1>1. Init => Announced BY DEF Init, Announced, Logged, Says
<1>2. Announced => EventsAreTrue BY DEF Announced, EventsAreTrue
<1> QED
  BY <1>1, <1>2, AnnouncedNext, Inductive, PTL DEF Spec
-----------------------------------------------------------------------------
(* No run is lost.                                                         *)

(* A step of one thread that leaves its run only when it is not running, or *)
(* with an exception.                                                      *)
LEMMA HasThreadKept ==
  ASSUME IInv, RunningHasThread, NEW w \in Workers,
         \A v \in Workers \ {w} : worker'[v] = worker[v],
         \A r \in Runs \ {worker[w].run} : status'[r] = status[r],
         raised \subseteq raised', UNCHANGED crashes,
         \/ worker'[w].run = worker[w].run
         \/ worker[w].run \notin Runs
         \/ worker[w].run \in raised'
         \/ status'[worker[w].run] # "running"
  PROVE  RunningHasThread'
<1> SUFFICES ASSUME NEW r \in Runs, status'[r] = "running", crashes = 0, r \notin raised'
             PROVE  \E v \in Workers : worker'[v].run = r
  BY DEF RunningHasThread
<1>1. CASE r = worker[w].run
  BY <1>1
<1>2. CASE r # worker[w].run
  <2>1. PICK v \in Workers : worker[v].run = r
    BY <1>2 DEF RunningHasThread
  <2> QED BY <1>2, <2>1
<1> QED
  BY <1>1, <1>2

LEMMA HasThreadWork ==
  ASSUME IInv, RunningHasThread, NEW w \in Workers,
         \/ Announce(w) \/ Start(w) \/ Lookup(w)
         \/ PointerRead(w) \/ PointerWrite(w) \/ PointerWarn(w)
         \/ Work(w) \/ Record(w) \/ Ready(w) \/ Complete(w) \/ DoneEvent(w)
         \/ Fail(w) \/ FailEvents(w)
  PROVE  RunningHasThread'
<1> DEFINE x == worker[w]
<1>1. \A r \in Runs \ {x.run} : status'[r] = status[r]
  BY DEF Announce, Start, Lookup, PointerRead, PointerWrite, PointerWarn, Work,
         Record, Ready, Complete, DoneEvent, Fail, FailEvents, dbVars, IInv, TypeOK
<1>2. UNCHANGED <<raised, crashes>>
  BY DEF Announce, Start, Lookup, PointerRead, PointerWrite, PointerWarn, Work,
         Record, Ready, Complete, DoneEvent, Fail, FailEvents, bounds
<1>3. ASSUME NEW y, SetWorker(w, y), y.run = x.run
      PROVE  worker'[w].run = x.run /\ \A v \in Workers \ {w} : worker'[v] = worker[v]
  BY <1>3 DEF SetWorker, IInv, TypeOK
<1>4. worker'[w].run = x.run /\ \A v \in Workers \ {w} : worker'[v] = worker[v]
  <2>1. ASSUME NEW p, Step(w, p)
        PROVE  worker'[w].run = x.run /\ \A v \in Workers \ {w} : worker'[v] = worker[v]
    BY <2>1, StepKeeps
  <2>2. CASE Lookup(w) BY <2>2, <1>3 DEF Lookup, Worker, IInv, TypeOK
  <2>3. CASE PointerRead(w) BY <2>3, <1>3 DEF PointerRead, Worker, IInv, TypeOK
  <2>4. CASE Work(w) BY <2>4, <1>3 DEF Work, Worker, IInv, TypeOK
  <2> QED BY <2>1, <2>2, <2>3, <2>4 DEF Announce, Start, PointerWrite, PointerWarn,
             Record, Ready, Complete, DoneEvent, Fail, FailEvents
<1> QED
  BY <1>1, <1>2, <1>4, HasThreadKept

LEMMA HasThreadFault ==
  ASSUME IInv, RunningHasThread, NEW w \in Workers, TaskFault(w)
  PROVE  RunningHasThread'
<1> DEFINE x == worker[w]
<1>1. UNCHANGED status /\ UNCHANGED crashes BY DEF TaskFault, dbVars
<1>2. CASE Escape(w)
  <2>1. /\ \A v \in Workers \ {w} : worker'[v] = worker[v]
        /\ raised \subseteq raised' /\ x.run \in raised'
    BY <1>2 DEF Escape, TaskOver, SetWorker, IInv, TypeOK
  <2> QED BY <1>1, <2>1, HasThreadKept
<1>3. ASSUME NEW y, SetWorker(w, y), y.run = x.run, UNCHANGED raised
      PROVE  RunningHasThread'
  <2>1. worker'[w].run = x.run /\ \A v \in Workers \ {w} : worker'[v] = worker[v]
    BY <1>3 DEF SetWorker, IInv, TypeOK
  <2> QED BY <1>1, <1>3, <2>1, HasThreadKept
<1>4. ASSUME NEW p, Step(w, p), UNCHANGED raised
      PROVE  RunningHasThread'
  <2>1. worker'[w].run = x.run /\ \A v \in Workers \ {w} : worker'[v] = worker[v]
    BY <1>4, StepKeeps
  <2> QED BY <1>1, <1>4, <2>1, HasThreadKept
<1>5. /\ [x EXCEPT !.pc = "fail", !.result = "err"].run = x.run
      /\ [x EXCEPT !.pc = "clearRead", !.raising = TRUE].run = x.run
  BY DEF IInv, TypeOK, Worker
<1>6. CASE AnalysisFault(w) BY <1>6, <1>2, <1>4 DEF AnalysisFault
<1>7. CASE WorkflowFault(w) BY <1>7, <1>2, <1>3, <1>4, <1>5 DEF WorkflowFault
<1> QED
  BY <1>6, <1>7 DEF TaskFault

(* A thread that leaves its run: it had none, or raises, or the row is     *)
(* final.                                                                  *)
LEMMA HasThreadBegin ==
  ASSUME IInv, Ended, RunningHasThread, NEW w \in Workers, Take(w) \/ Return(w)
  PROVE  RunningHasThread'
<1>1. /\ UNCHANGED <<status, crashes>> /\ raised \subseteq raised'
  BY DEF Take, Return, dbVars, bounds
<1>2. PICK y : SetWorker(w, y)
  BY DEF Take, Return, NextRun, TaskOver, Begin
<1>3. \A v \in Workers \ {w} : worker'[v] = worker[v]
  BY <1>2 DEF SetWorker, IInv, TypeOK
<1>4. \/ worker[w].run \notin Runs
      \/ worker[w].run \in raised'
      \/ status'[worker[w].run] # "running"
  <2>1. CASE Take(w)
    BY <2>1 DEF Take, IInv, Shape, WorkerForm, Runs, NoRun
  <2>2. CASE Return(w) /\ worker[w].raising
    BY <2>2 DEF Return
  <2>3. CASE Return(w) /\ ~worker[w].raising
    BY <2>3, <1>1 DEF Return, Ended, Ending, Terminal
  <2> QED BY <2>1, <2>2, <2>3
<1> QED
  BY <1>1, <1>3, <1>4, HasThreadKept

LEMMA HasThreadNext == IInv /\ Ended /\ RunningHasThread /\ [Next]_vars => RunningHasThread'
<1> SUFFICES ASSUME IInv, Ended, RunningHasThread, [Next]_vars PROVE RunningHasThread'
  OBVIOUS
<1>1. CASE \E c \in Clients : ClientStep(c)
  <2> PICK c \in Clients : ClientStep(c) BY <1>1
  <2>1. UNCHANGED <<worker, raised, crashes>>
    BY DEF ClientStep, Submit, Gate, Create, Note, Refuse, Dispatch, SubmitFault,
       ToggleCall, ToggleRow, ToggleSpec, ToggleActivation, ToggleState, ToggleFault,
       bounds
  <2>2. \A r \in Runs : status'[r] = "running" => status[r] = "running"
    BY DEF ClientStep, Submit, Gate, Create, Note, Refuse, Dispatch, SubmitFault,
       ToggleCall, ToggleRow, ToggleSpec, ToggleActivation, ToggleState, ToggleFault,
       dbVars, IInv, TypeOK
  <2> QED BY <2>1, <2>2 DEF RunningHasThread
<1>2. CASE \E w \in Workers : Progress(w) \/ TaskFault(w)
  BY <1>2, HasThreadBegin, HasThreadFault, HasThreadWork DEF Progress
<1>3. CASE Crash
  <2>1. crashes' > 0 BY <1>3 DEF Crash, IInv, TypeOK
  <2> QED BY <2>1 DEF RunningHasThread
<1>4. CASE UNCHANGED vars BY <1>4 DEF vars, dbVars, bounds, RunningHasThread
<1> QED
  BY <1>1, <1>2, <1>3, <1>4 DEF Next

(* A row that says "running" has a thread, unless its task ended with an   *)
(* exception or the process has stopped, for any number of handlers,       *)
(* threads, runs and transactions that raise.                              *)
THEOREM NoRunIsLost == Spec => []RunningHasThread
<1>1. Init => RunningHasThread BY DEF Init, RunningHasThread
<1> QED
  BY <1>1, HasThreadNext, Inductive, EndedAlways, PTL DEF Spec
-----------------------------------------------------------------------------
(* The pointer of an agent.                                                *)

LEMMA ClientCounts ==
  ASSUME TypeOK, NEW c \in Clients, ClientStep(c)
  PROVE  UNCHANGED <<worker, crashes>> /\ toggles' >= toggles /\ faults' >= faults
<1>1. /\ UNCHANGED <<worker, crashes>>
      /\ toggles' = toggles \/ toggles' = toggles + 1
      /\ faults' = faults \/ faults' = faults + 1
  BY DEF ClientStep, Submit, Gate, Create, Note, Refuse, Dispatch, SubmitFault,
     ToggleCall, ToggleRow, ToggleSpec, ToggleActivation, ToggleState, ToggleFault,
     bounds
<1> QED
  BY <1>1 DEF TypeOK

(* A handler that is not in set_active enters it with a counted call.      *)
LEMMA ClientOutside ==
  ASSUME TypeOK, NEW c \in Clients, ClientStep(c), client[c].pc \notin ToggleStep
  PROVE  /\ UNCHANGED <<section, activation, isActive>>
         /\ \A d \in Clients \ {c} : client'[d] = client[d]
         /\ \/ client'[c].pc \notin ToggleStep
            \/ client'[c].pc = "row" /\ toggles' = toggles + 1
<1>1. client \in [Clients -> Client] BY DEF TypeOK
<1>2. ASSUME NEW x, SetClient(c, x)
      PROVE  client'[c] = x /\ \A d \in Clients \ {c} : client'[d] = client[d]
  BY <1>1, <1>2 DEF SetClient
<1>3. client[c] \in Client BY <1>1
<1>4. ASSUME NEW p, Goto(c, p)
      PROVE  client'[c].pc = p /\ \A d \in Clients \ {c} : client'[d] = client[d]
  BY <1>2, <1>3, <1>4 DEF Goto, Client
<1>5. CASE Answer(c)
  <2>1. IdleClient.pc \notin ToggleStep BY DEF IdleClient, ToggleStep
  <2>2. UNCHANGED <<section, activation, isActive>>
    BY <1>5, <2>1 DEF ClientStep, Submit, Gate, Create, Note, Refuse, Dispatch, SubmitFault,
       ToggleCall, ToggleRow, ToggleSpec, ToggleActivation, ToggleState, ToggleFault,
       dbVars, ToggleStep
  <2> QED BY <1>2, <1>5, <2>1, <2>2 DEF Answer
<1>6. CASE \E k \in Kinds, a \in Owners : Submit(c, k, a)
  <2> PICK k \in Kinds, a \in Owners : Submit(c, k, a) BY <1>6
  <2>1. [IdleClient EXCEPT !.kind = k, !.agent = a,
           !.pc = IF a = NoAgent THEN "create" ELSE "gate"].pc \in {"create", "gate"}
    BY DEF IdleClient
  <2> QED BY <1>2, <2>1 DEF Submit, ToggleStep, dbVars
<1>7. CASE Gate(c) BY <1>7, <1>4, <1>5 DEF Gate, ToggleStep, dbVars
<1>8. CASE Create(c)
  <2>1. \A r : [client[c] EXCEPT !.pc = "note", !.fresh = r].pc = "note" BY <1>3 DEF Client
  <2>2. client'[c].pc = "note" /\ \A d \in Clients \ {c} : client'[d] = client[d]
    BY <1>8, <1>2, <2>1 DEF Create
  <2> QED BY <1>8, <2>2 DEF Create, ToggleStep
<1>9. CASE Note(c)
  <2>2. /\ client'[c].pc \in {"create", "dispatch"}
        /\ \A d \in Clients \ {c} : client'[d] = client[d]
    <3>1. PICK p \in {"create", "dispatch"} :
            SetClient(c, [client[c] EXCEPT !.pc = p, !.fresh = NoRun,
                                           !.made = @ \cup {client[c].fresh}])
      BY <1>9 DEF Note
    <3>2. [client[c] EXCEPT !.pc = p, !.fresh = NoRun,
                            !.made = @ \cup {client[c].fresh}].pc = p
      BY <1>3 DEF Client
    <3> QED BY <1>2, <3>1, <3>2
  <2> QED BY <1>9, <2>2 DEF Note, ToggleStep
<1>10. CASE Dispatch(c)
  <2>1. \A b : [client[c] EXCEPT !.made = @ \ b].pc = client[c].pc BY <1>3 DEF Client
  <2> QED BY <1>10, <1>2, <1>5, <2>1 DEF Dispatch, ToggleStep, dbVars
<1>11. CASE \E a \in Agents, on \in BOOLEAN : ToggleCall(c, a, on)
  <2> PICK a \in Agents, on \in BOOLEAN : ToggleCall(c, a, on) BY <1>11
  <2>1. [IdleClient EXCEPT !.pc = "row", !.agent = a, !.want = on].pc = "row"
    BY DEF IdleClient
  <2> QED BY <1>2, <2>1 DEF ToggleCall, dbVars
<1>12. ~(ToggleRow(c) \/ ToggleSpec(c) \/ ToggleActivation(c) \/ ToggleState(c) \/ ToggleFault(c))
  BY DEF ToggleRow, ToggleSpec, ToggleActivation, ToggleState, ToggleFault, ToggleStep
<1> QED
  BY <1>5, <1>6, <1>7, <1>8, <1>9, <1>10, <1>11, <1>12 DEF ClientStep, Refuse, SubmitFault

(* Thread w keeps its duty to clear a pointer until it does, and a pointer *)
(* is set only by a thread that then has that duty.                        *)
Dutiful(w) ==
    \A a \in Agents : section'[a].run # NoRun =>
      \/ worker'[w].agent = a /\ ClearAhead(worker'[w])
      \/ section'[a] = section[a] /\ ~(worker[w].agent = a /\ ClearAhead(worker[w]))

LEMMA DutyKept ==
  ASSUME IInv, NEW w \in Workers, Progress(w)
  PROVE  Dutiful(w) /\ \A v \in Workers \ {w} : worker'[v] = worker[v]
<1> DEFINE x == worker[w]
           y == worker'[w]
           Others == \A v \in Workers \ {w} : worker'[v] = worker[v]
<1>t. TypeOK /\ x \in Worker /\ WorkerForm(x) BY DEF IInv, TypeOK, Shape
<1>n. NoAgent \notin Agents BY RunConstants
<1>w. ASSUME NEW z, SetWorker(w, z)  PROVE  y = z /\ Others
  BY <1>t, <1>w DEF SetWorker, TypeOK
<1>s. ASSUME NEW p, Step(w, p)
      PROVE  y.pc = p /\ y.kind = x.kind /\ y.agent = x.agent /\ Others
  BY <1>w, <1>t, <1>s DEF Step, Worker
<1>q. ASSUME UNCHANGED section, ClearAhead(x) => ClearAhead(y) /\ y.agent = x.agent
      PROVE  Dutiful(w)
  BY <1>q DEF Dutiful
<1>b. ASSUME NEW k, NEW a, NEW R, Begin(w, k, a, R)  PROVE  Others
  BY <1>b, <1>w DEF Begin
<1>1. CASE Take(w) \/ Return(w)
  <2>1. ~ClearAhead(x) /\ UNCHANGED section
    BY <1>1 DEF Take, Return, ClearAhead, dbVars
  <2>2. Others
    BY <1>1, <1>b, <1>w DEF Take, Return, TaskOver, NextRun
  <2> QED BY <2>1, <2>2, <1>q
<1>2. CASE Announce(w)
  BY <1>2, <1>s, <1>q DEF Announce, ClearAhead
<1>3. CASE Start(w)
  BY <1>3, <1>s, <1>q DEF Start, ClearAhead
<1>4. CASE Lookup(w)
  <2>1. ~ClearAhead(x) /\ UNCHANGED section /\ Others
    BY <1>4, <1>w DEF Lookup, ClearAhead, dbVars
  <2> QED BY <2>1, <1>q
<1>5. CASE PointerRead(w)
  <2>1. PICK z : SetWorker(w, z) /\ z.agent = x.agent /\ z.kind = x.kind
                 /\ (x.pc = "clearRead" => z.pc = "clearWrite")
    <3> DEFINE p == IF x.pc = "setRead" THEN "setWrite" ELSE "clearWrite"
               z == [x EXCEPT !.pc = p, !.seen = section[x.agent]]
    <3>1. z.agent = x.agent /\ z.kind = x.kind /\ z.pc = p
      BY <1>t DEF Worker
    <3>2. SetWorker(w, z) BY <1>5 DEF PointerRead
    <3> HIDE DEF z
    <3> QED BY <3>1, <3>2
  <2>2. ClearAhead(x) => ClearAhead(z) BY <1>5, <2>1 DEF ClearAhead, PointerRead
  <2> QED BY <1>5, <2>1, <2>2, <1>w, <1>q DEF PointerRead, dbVars
<1>6. CASE PointerWrite(w)
  <2>a. x.agent \in Agents BY <1>6, <1>t DEF PointerWrite, WorkerForm
  <2>1. CASE x.pc = "setWrite"
    <3>1. y.pc = "work" /\ y.agent = x.agent /\ Others BY <1>6, <2>1, <1>s DEF PointerWrite
    <3>2. ClearAhead(y) /\ ~ClearAhead(x) BY <3>1, <2>1, <2>a DEF ClearAhead
    <3>3. \A a \in Agents \ {x.agent} : section'[a] = section[a]
      BY <1>6, <1>t DEF PointerWrite, WriteSection, TypeOK
    <3> QED BY <3>1, <3>2, <3>3 DEF Dutiful
  <2>2. CASE x.pc = "clearWrite"
    <3>1. Others /\ WriteSection(w, NoRun) BY <1>6, <2>2, <1>s DEF PointerWrite
    <3>2. section'[x.agent].run = NoRun
          /\ \A a \in Agents \ {x.agent} : section'[a] = section[a]
      BY <3>1, <2>a, <1>t DEF WriteSection, TypeOK
    <3> QED BY <3>1, <3>2 DEF Dutiful
  <2> QED BY <1>6, <2>1, <2>2 DEF PointerWrite
<1>7. CASE PointerWarn(w)
  BY <1>7, <1>s, <1>q DEF PointerWarn, ClearAhead
<1>8. CASE Work(w)
  <2>1. PICK r \in {"ok", "err"} :
          SetWorker(w, [x EXCEPT !.result = r,
                          !.pc = IF r = "ok" THEN "record" ELSE AfterBadWork(x.kind, x.agent)])
    BY <1>8 DEF Work
  <2>2. /\ y.pc = IF r = "ok" THEN "record" ELSE AfterBadWork(x.kind, x.agent)
        /\ y.agent = x.agent /\ y.kind = x.kind /\ Others
    <3> DEFINE p == IF r = "ok" THEN "record" ELSE AfterBadWork(x.kind, x.agent)
               z == [x EXCEPT !.result = r, !.pc = p]
    <3>1. z.agent = x.agent /\ z.kind = x.kind /\ z.pc = p BY <1>t DEF Worker
    <3>2. y = z /\ Others BY <2>1, <1>w
    <3> QED BY <3>1, <3>2
  <2>3. ClearAhead(x) => ClearAhead(y)
    BY <2>2, <1>n DEF ClearAhead, AfterBadWork, Clear
  <2> QED BY <1>8, <2>2, <2>3, <1>q DEF Work, dbVars
<1>9. CASE Record(w) \/ Ready(w)
  BY <1>9, <1>s, <1>q DEF Record, Ready, ClearAhead
<1>10. CASE Complete(w)
  BY <1>10, <1>s, <1>q, <1>n DEF Complete, ClearAhead, AfterComplete, Clear
<1>11. CASE DoneEvent(w)
  BY <1>11, <1>s, <1>q DEF DoneEvent, ClearAhead, AfterLastEvent
<1>12. CASE Fail(w)
  BY <1>12, <1>s, <1>q DEF Fail, ClearAhead
<1>13. CASE FailEvents(w)
  BY <1>13, <1>s, <1>q DEF FailEvents, ClearAhead, AfterLastEvent
<1> QED
  BY <1>1, <1>2, <1>3, <1>4, <1>5, <1>6, <1>7, <1>8, <1>9, <1>10, <1>11, <1>12, <1>13
  DEF Progress

LEMMA PointedNext == IInv /\ Pointed /\ [Next]_vars => Pointed'
<1> SUFFICES ASSUME IInv, Pointed, [Next]_vars PROVE Pointed'
  OBVIOUS
<1>t. TypeOK BY DEF IInv
<1>1. CASE \E c \in Clients : ClientStep(c)
  <2> PICK c \in Clients : ClientStep(c) BY <1>1
  <2>1. UNCHANGED <<worker, crashes>> /\ toggles' >= toggles /\ faults' >= faults
    BY <1>t, ClientCounts
  <2>2. CASE toggles' # 0
    BY <2>2 DEF Pointed
  <2>3. CASE toggles' = 0
    <3>1. toggles = 0 /\ client[c].pc \notin ToggleStep
      BY <2>1, <2>3, <1>t DEF Pointed, TypeOK
    <3>2. /\ UNCHANGED section
          /\ \A d \in Clients : client'[d].pc \notin ToggleStep
      BY <3>1, <2>3, <1>t, ClientOutside DEF Pointed
    <3>3. faults' = 0 => faults = 0 BY <2>1, <1>t DEF TypeOK, SubmitFault, ToggleFault
    <3> QED BY <2>1, <3>1, <3>2, <3>3 DEF Pointed
  <2> QED BY <2>2, <2>3
<1>2. ASSUME NEW w \in Workers, Progress(w) PROVE Pointed'
  <2>1. UNCHANGED <<client, toggles, faults, crashes>>
    BY <1>2 DEF Progress, Take, Announce, Start, Lookup, PointerRead, PointerWrite,
       PointerWarn, Work, Record, Ready, Complete, DoneEvent, Fail, FailEvents, Return,
       bounds
  <2> QED BY <1>2, <2>1, DutyKept DEF Pointed, Dutiful
<1>3. ASSUME NEW w \in Workers, TaskFault(w) PROVE Pointed'
  <2>1. faults' # 0 /\ UNCHANGED <<client, toggles>> BY <1>3, <1>t DEF TaskFault, TypeOK
  <2> QED BY <2>1 DEF Pointed
<1>4. CASE Crash
  <2>1. crashes' # 0 /\ \A c \in Clients : client'[c].pc \notin ToggleStep
    BY <1>4, <1>t DEF Crash, TypeOK, IdleClient, ToggleStep
  <2> QED BY <2>1 DEF Pointed
<1>5. CASE UNCHANGED vars BY <1>5 DEF vars, dbVars, bounds, Pointed
<1> QED
  BY <1>1, <1>2, <1>3, <1>4, <1>5 DEF Next

(* When no thread has a run left, no agent points at one, for any number   *)
(* of overlapping executions of its runs.                                  *)
THEOREM PointersCleared == Spec => []PointerAtRest
<1>1. Init => Pointed BY DEF Init, Pointed, IdleClient, ToggleStep
<1>2. Pointed => PointerAtRest BY DEF Pointed, PointerAtRest, ClearAhead
<1> QED
  BY <1>1, <1>2, PointedNext, Inductive, PTL DEF Spec

-----------------------------------------------------------------------------
(* set_active.                                                             *)

LEMMA FollowedNext == IInv /\ OneToggle /\ Followed /\ [Next]_vars => Followed'
<1> SUFFICES ASSUME IInv, OneToggle, Followed, [Next]_vars PROVE Followed'
  OBVIOUS
<1>t. TypeOK /\ Shape BY DEF IInv
<1>1. CASE \E c \in Clients : ClientStep(c)
  <2> PICK c \in Clients : ClientStep(c) BY <1>1
  <2>1. UNCHANGED crashes /\ faults' >= faults /\ (faults' = 0 => faults = 0)
    BY <1>t, ClientCounts DEF TypeOK
  <2>2. CASE client[c].pc \notin ToggleStep
    <3>1. /\ UNCHANGED <<activation, isActive>>
          /\ \A d \in Clients \ {c} : client'[d] = client[d]
          /\ ~Toggling(client'[c]) /\ ~Toggling(client[c])
      BY <2>2, <1>t, ClientOutside DEF Toggling, ToggleStep
    <3> QED BY <2>1, <3>1 DEF Followed
  <2>3. CASE client[c].pc \in ToggleStep
    <3>1. \A d \in Clients \ {c} : client[d].pc \notin ToggleStep BY <2>3 DEF OneToggle
    <3>2. \A d \in Clients \ {c} : ~Toggling(client[d]) BY <3>1 DEF Toggling, ToggleStep
    <3>a. client[c].agent \in Agents /\ client[c] \in Client
      BY <2>3, <1>t DEF Shape, ClientForm, TypeOK
    <3>3. CASE ToggleRow(c)
      <4>1. /\ client'[c].pc = "spec" /\ client'[c].agent = client[c].agent
            /\ client'[c].want = client[c].want
            /\ \A d \in Clients \ {c} : client'[d] = client[d]
        BY <3>3, <1>t, <3>a DEF ToggleRow, Goto, SetClient, TypeOK, Client
      <4>2. /\ isActive' = [isActive EXCEPT ![client[c].agent] = client[c].want]
            /\ UNCHANGED activation /\ ~Toggling(client[c])
        BY <3>3 DEF ToggleRow, Toggling
      <4> QED BY <2>1, <3>2, <3>a, <4>1, <4>2, <1>t DEF Followed, Toggling, TypeOK
    <3>4. CASE ToggleSpec(c)
      <4>1. /\ client'[c].pc = "activation" /\ client'[c].agent = client[c].agent
            /\ client'[c].want = client[c].want
            /\ \A d \in Clients \ {c} : client'[d] = client[d]
        BY <3>4, <1>t, <3>a DEF ToggleSpec, SetClient, TypeOK, Client
      <4>2. UNCHANGED <<isActive, activation>> /\ Toggling(client[c])
        BY <3>4 DEF ToggleSpec, Toggling, dbVars
      <4> QED BY <2>1, <3>2, <4>1, <4>2 DEF Followed, Toggling
    <3>5. CASE ToggleActivation(c)
      <4>1. /\ client'[c].pc = "state"
            /\ \A d \in Clients \ {c} : client'[d] = client[d]
        BY <3>5, <1>t, <3>a DEF ToggleActivation, Goto, SetClient, TypeOK, Client
      <4>2. /\ activation' = [activation EXCEPT ![client[c].agent] = client[c].want]
            /\ UNCHANGED isActive /\ Toggling(client[c])
        BY <3>5 DEF ToggleActivation, Toggling
      <4> QED BY <2>1, <3>2, <3>a, <4>1, <4>2, <1>t, ZenonT(60) DEF Followed, Toggling, TypeOK
    <3>6. CASE ToggleState(c)
      <4>1. /\ client'[c].pc = "idle"
            /\ \A d \in Clients \ {c} : client'[d] = client[d]
        BY <3>6, <1>t DEF ToggleState, Answer, SetClient, TypeOK, IdleClient
      <4>2. UNCHANGED <<isActive, activation>> /\ ~Toggling(client[c])
        BY <3>6 DEF ToggleState, Toggling
      <4> QED BY <2>1, <3>2, <4>1, <4>2 DEF Followed, Toggling
    <3>7. CASE ToggleFault(c)
      <4>1. /\ client'[c].pc = "idle" /\ UNCHANGED <<isActive, activation>>
            /\ \A d \in Clients \ {c} : client'[d] = client[d]
        BY <3>7, <1>t DEF ToggleFault, Answer, SetClient, TypeOK, IdleClient, dbVars
      <4>2. faults' # 0 BY <3>7, <1>t DEF ToggleFault, TypeOK
      <4> QED BY <3>2, <4>1, <4>2 DEF Followed, Toggling
    <3> QED BY <2>3, <3>3, <3>4, <3>5, <3>6, <3>7
          DEF ClientStep, Submit, Gate, Create, Note, Refuse, Dispatch, SubmitFault,
              ToggleCall, ToggleStep
  <2> QED BY <2>2, <2>3
<1>2. CASE \E w \in Workers : Progress(w) \/ TaskFault(w)
  <2>1. UNCHANGED <<client, isActive, activation, crashes>>
        /\ (faults' = 0 => faults = 0)
    BY <1>2, <1>t DEF Progress, Take, Announce, Start, Lookup, PointerRead, PointerWrite,
       PointerWarn, Work, Record, Ready, Complete, DoneEvent, Fail, FailEvents, Return,
       TaskFault, dbVars, bounds, TypeOK
  <2> QED BY <2>1 DEF Followed
<1>3. CASE Crash
  <2>1. crashes' # 0 /\ \A c \in Clients : ~Toggling(client'[c])
    BY <1>3, <1>t DEF Crash, TypeOK, IdleClient, Toggling
  <2> QED BY <2>1 DEF Followed
<1>4. CASE UNCHANGED vars BY <1>4 DEF vars, dbVars, bounds, Followed
<1> QED
  BY <1>1, <1>2, <1>3, <1>4 DEF Next

(* As long as calls of set_active do not overlap, the activation section   *)
(* says what agents.is_active says whenever none is under way, whatever    *)
(* the other handlers and the threads do meanwhile.                        *)
THEOREM ActivationFollows == Spec /\ []OneToggle => []ActivationSectionInSync
<1>1. Init => Followed BY DEF Init, Followed, IdleClient, Toggling
<1>2. IInv /\ Followed => ActivationSectionInSync
  BY DEF Followed, ActivationSectionInSync, Toggling, ToggleStep, IInv, TypeOK
<1> QED
  BY <1>1, <1>2, FollowedNext, Inductive, PTL DEF Spec
=============================================================================
