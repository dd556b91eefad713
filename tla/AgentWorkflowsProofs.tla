------------------------ MODULE AgentWorkflowsProofs ------------------------
(* That a revocation bites, that what a run is handed is the whole result  *)
(* of its calls, that the executor is handed whole requests in the manual  *)
(* order, and that applying a blueprint converges: for any capabilities,   *)
(* any combinations of them, any rows, orders and blueprints, any number   *)
(* of handlers and requests, and any code.                                 *)
EXTENDS AgentWorkflows, TLAPS, FiniteSetTheorems

(* An execution counts as late only when its tool was allowed once and has *)
(* not been since; the frame that has asked is the only one that may still *)
(* run, and no late execution of its tool has been counted.                *)
Counts == late \in [Ids \X Targets -> 0 .. 1]

AllowedIsNotLate == \A c \in Ids, t \in Targets : Allowed(c, t) => late[<<c, t>>] = 0

IsFrame(f) == f = [cap |-> f.cap, pc |-> f.pc, per |-> f.per, merged |-> f.merged]

(* The dicts in a frame come from no set known in advance, so neither do   *)
(* the frames.                                                             *)
Frames == \E S : stack \in Seq(S) /\ \A f \in S : IsFrame(f)

CallersWait == \A i \in 1 .. Len(stack) - 1 : stack[i].pc = "parts"

AskedIsNotLate ==
    stack # <<>> /\ Top.pc = "go" /\ <<Top.cap, target>> \in Ids \X Targets =>
        late[<<Top.cap, target>>] = 0

BetweenRuns ==
    /\ worker \in [batch : Nat, at : Nat, call : Nat]
    /\ worker.call = 0 => stack = <<>>

CallInv == Counts /\ AllowedIsNotLate /\ Frames /\ CallersWait /\ AskedIsNotLate

BitesInv == CallInv /\ BetweenRuns

-----------------------------------------------------------------------------
(* What is pushed is on top, over what was there.                          *)
LEMMA Pushed ==
    ASSUME NEW S, NEW s \in Seq(S), NEW e
    PROVE  /\ Append(s, e) \in Seq(S \cup {e}) /\ Append(s, e) # <<>>
           /\ Len(Append(s, e)) = Len(s) + 1
           /\ Append(s, e)[Len(s) + 1] = e
           /\ \A i \in 1 .. Len(s) : Append(s, e)[i] = s[i]
<1>1. s \in Seq(S \cup {e}) /\ e \in S \cup {e}
  OBVIOUS
<1> QED
  BY <1>1

(* What is left when the top is taken off.                                 *)
LEMMA Popped ==
    ASSUME NEW S, NEW s \in Seq(S), NEW n \in Nat, n <= Len(s)
    PROVE  /\ SubSeq(s, 1, n) \in Seq(S) /\ Len(SubSeq(s, 1, n)) = n
           /\ \A i \in 1 .. n : SubSeq(s, 1, n)[i] = s[i]
  OBVIOUS

(* A step after which the stack is empty.                                  *)
LEMMA Emptied ==
    ASSUME Counts', AllowedIsNotLate', stack' = <<>>
    PROVE  CallInv'
<1>1. Frames'
  BY DEF Frames
<1> QED
  BY <1>1 DEF CallInv, CallersWait, AskedIsNotLate, Top

(* Replacing the top frame by one that is not about to run.                *)
LEMMA Retopped ==
    ASSUME CallInv, stack # <<>>, NEW f, IsFrame(f), SetTop(f),
           Counts', AllowedIsNotLate',
           f.pc = "go" /\ <<f.cap, target'>> \in Ids \X Targets =>
               late'[<<f.cap, target'>>] = 0
    PROVE  CallInv'
<1>1. PICK S : stack \in Seq(S) /\ \A g \in S : IsFrame(g)
  BY DEF CallInv, Frames
<1> DEFINE n == Len(stack) - 1
<1>2. n \in Nat /\ n <= Len(stack) /\ Len(stack) = n + 1
  BY <1>1
<1>3. /\ SubSeq(stack, 1, n) \in Seq(S) /\ Len(SubSeq(stack, 1, n)) = n
      /\ \A i \in 1 .. n : SubSeq(stack, 1, n)[i] = stack[i]
  BY <1>1, <1>2, Popped
<1>4. stack' = Append(SubSeq(stack, 1, n), f)
  BY DEF SetTop, Rest
<1> HIDE DEF n
<1> DEFINE s == SubSeq(stack, 1, n)
<1> HIDE DEF s
<1>5. /\ stack' \in Seq(S \cup {f}) /\ stack' # <<>> /\ Len(stack') = n + 1
      /\ stack'[n + 1] = f
      /\ \A i \in 1 .. n : stack'[i] = stack[i]
  <2>1. s \in Seq(S) /\ Len(s) = n /\ (\A i \in 1 .. n : s[i] = stack[i]) /\ stack' = Append(s, f)
    BY <1>3, <1>4 DEF s
  <2> QED
    BY <2>1, Pushed
<1>6. Frames'
  BY <1>1, <1>5 DEF Frames
<1>7. CallersWait'
  BY <1>2, <1>5 DEF CallInv, CallersWait
<1>8. AskedIsNotLate'
  BY <1>5 DEF AskedIsNotLate, Top
<1> QED
  BY <1>6, <1>7, <1>8 DEF CallInv

(* Pushing a frame that has yet to ask, on one that waits for components.  *)
LEMMA CalledDeeper ==
    ASSUME CallInv, NEW c, stack' = Append(stack, Frame(c)),
           stack # <<>> => Top.pc = "parts",
           Counts', AllowedIsNotLate'
    PROVE  CallInv'
<1>1. PICK S : stack \in Seq(S) /\ \A g \in S : IsFrame(g)
  BY DEF CallInv, Frames
<1>2. IsFrame(Frame(c)) /\ Frame(c).pc = "ask"
  BY DEF IsFrame, Frame
<1> DEFINE f == Frame(c)
<1>3. stack' = Append(stack, f) /\ IsFrame(f) /\ f.pc = "ask"
  BY <1>2
<1> HIDE DEF f
<1>4. /\ stack' \in Seq(S \cup {f}) /\ stack' # <<>> /\ Len(stack') = Len(stack) + 1
      /\ stack'[Len(stack) + 1] = f
      /\ \A i \in 1 .. Len(stack) : stack'[i] = stack[i]
  BY <1>1, <1>3, Pushed
<1>5. Frames'
  BY <1>1, <1>3, <1>4 DEF Frames
<1>6. ASSUME NEW i \in 1 .. Len(stack)
      PROVE  stack[i].pc = "parts"
  <2>1. Len(stack) \in Nat
    BY <1>1
  <2>2. CASE i < Len(stack)
    BY <2>1, <2>2 DEF CallInv, CallersWait
  <2>3. CASE i = Len(stack)
    BY <1>1, <2>1, <2>3 DEF Top
  <2> QED
    BY <2>1, <2>2, <2>3
<1>7. CallersWait'
  BY <1>1, <1>4, <1>6 DEF CallersWait
<1>8. AskedIsNotLate'
  BY <1>3, <1>4 DEF AskedIsNotLate, Top
<1> QED
  BY <1>5, <1>7, <1>8 DEF CallInv

(* Handing a dict to the caller, who goes on waiting for the others.       *)
LEMMA Delivered ==
    ASSUME CallInv, stack # <<>>, NEW d, Deliver(d), Counts', AllowedIsNotLate'
    PROVE  CallInv'
<1>1. PICK S : stack \in Seq(S) /\ \A g \in S : IsFrame(g)
  BY DEF CallInv, Frames
<1>2. CASE Len(stack) = 1
  BY <1>2, Emptied DEF Deliver
<1>3. CASE Len(stack) # 1
  <2> DEFINE n == Len(stack) - 2
             g == stack[n + 1]
             f == [g EXCEPT !.per = Append(@, d), !.merged = Update(@, d)]
  <2>1. n \in Nat /\ n <= Len(stack) /\ Len(stack) = n + 2 /\ g \in S
    <3>1. Len(stack) \in Nat /\ Len(stack) # 0
      BY <1>1
    <3>2. n \in Nat /\ n <= Len(stack) /\ Len(stack) = n + 2
      <4> DEFINE l == Len(stack)
      <4>1. l \in Nat /\ l # 0 /\ l # 1
        BY <1>3, <3>1
      <4> HIDE DEF l
      <4>2. l - 2 \in Nat /\ l - 2 <= l /\ l = (l - 2) + 2
        BY <4>1
      <4> QED
        BY <4>2 DEF l
    <3> HIDE DEF n
    <3> QED
      BY <1>1, <3>2
  <2>2. stack' = Append(SubSeq(stack, 1, n), f)
    <3>1. Len(stack) - 1 = n + 1
      BY <2>1
    <3> QED
      BY <1>3, <3>1 DEF Deliver
  <2>3. g.pc = "parts" /\ IsFrame(g)
    BY <1>1, <2>1 DEF CallInv, CallersWait
  <2>4. IsFrame(f) /\ f.pc = "parts"
    <3> DEFINE p == Append(g.per, d)
               m == Update(g.merged, d)
               e == [g EXCEPT !.per = p]
    <3>1. f = [g EXCEPT !.per = p, !.merged = m]
      OBVIOUS
    <3> HIDE DEF g, f, p, m
    <3>2. g = [cap |-> g.cap, pc |-> "parts", per |-> g.per, merged |-> g.merged]
      BY <2>3 DEF IsFrame
    <3>3. e = [cap |-> g.cap, pc |-> "parts", per |-> p, merged |-> g.merged]
      BY <3>2
    <3>4. f = [e EXCEPT !.merged = m]
      BY <3>1
    <3> HIDE DEF e
    <3>5. f = [cap |-> g.cap, pc |-> "parts", per |-> p, merged |-> m]
      BY <3>3, <3>4
    <3> QED
      BY <3>5 DEF IsFrame
  <2>5. /\ SubSeq(stack, 1, n) \in Seq(S) /\ Len(SubSeq(stack, 1, n)) = n
        /\ \A i \in 1 .. n : SubSeq(stack, 1, n)[i] = stack[i]
    BY <1>1, <2>1, Popped
  <2> HIDE DEF n, g, f
  <2> DEFINE s == SubSeq(stack, 1, n)
  <2> HIDE DEF s
  <2>6. /\ stack' \in Seq(S \cup {f}) /\ stack' # <<>> /\ Len(stack') = n + 1
        /\ stack'[n + 1] = f
        /\ \A i \in 1 .. n : stack'[i] = stack[i]
    <3>1. s \in Seq(S) /\ Len(s) = n /\ (\A i \in 1 .. n : s[i] = stack[i]) /\ stack' = Append(s, f)
      BY <2>2, <2>5 DEF s
    <3> QED
      BY <3>1, Pushed
  <2>7. Frames'
    BY <1>1, <2>4, <2>6 DEF Frames
  <2>8. CallersWait'
    BY <2>1, <2>6 DEF CallInv, CallersWait
  <2>9. AskedIsNotLate'
    BY <2>4, <2>6 DEF AskedIsNotLate, Top
  <2> QED
    BY <2>7, <2>8, <2>9 DEF CallInv
<1> QED
  BY <1>2, <1>3

-----------------------------------------------------------------------------
(* Changing what is allowed resets what has become allowed.                *)
LEMMA Recounted ==
    ASSUME CallInv, Recount, UNCHANGED callState
    PROVE  CallInv'
<1>1. late' = [p \in Ids \X Targets |-> IF Allowed(p[1], p[2])' THEN 0 ELSE late[p]]
  BY DEF Recount
<1>2. ASSUME NEW c \in Ids, NEW t \in Targets
      PROVE  late'[<<c, t>>] = IF Allowed(c, t)' THEN 0 ELSE late[<<c, t>>]
  BY <1>1
<1>3. Counts'
  <2>1. late \in [Ids \X Targets -> 0 .. 1]
    BY DEF CallInv, Counts
  <2>2. \A p \in Ids \X Targets :
          (IF Allowed(p[1], p[2])' THEN 0 ELSE late[p]) \in 0 .. 1
    BY <2>1
  <2> QED
    BY <1>1, <2>2 DEF Counts
<1>4. AllowedIsNotLate'
  BY <1>2 DEF AllowedIsNotLate
<1>5. AskedIsNotLate'
  <2> SUFFICES ASSUME stack # <<>>, Top.pc = "go", <<Top.cap, target>> \in Ids \X Targets
               PROVE  late'[<<Top.cap, target>>] = 0
    BY DEF AskedIsNotLate, callState, Top
  <2>1. late[<<Top.cap, target>>] = 0
    BY DEF CallInv, AskedIsNotLate
  <2> QED
    BY <1>2, <2>1
<1>6. Frames' /\ CallersWait'
  BY DEF CallInv, Frames, CallersWait, callState
<1> QED
  BY <1>3, <1>4, <1>5, <1>6 DEF CallInv

(* Nothing of the calls changes.                                           *)
LEMMA CallsUntouched ==
    ASSUME CallInv, UNCHANGED callVars
    PROVE  CallInv'
  BY DEF CallInv, Counts, AllowedIsNotLate, Frames, CallersWait, AskedIsNotLate, callVars,
         callState, access, Allowed, InScope, Top

(* The counters stay what they are.                                        *)
LEMMA Uncounted ==
    ASSUME CallInv, UNCHANGED <<access, late>>
    PROVE  Counts' /\ AllowedIsNotLate'
  BY DEF CallInv, Counts, AllowedIsNotLate, access, Allowed, InScope

(* What has asked is executed, late for the first time at most.            *)
LEMMA CountedOnce ==
    ASSUME CallInv, stack # <<>>, Top.pc = "go", Count, UNCHANGED <<access, target>>
    PROVE  Counts' /\ AllowedIsNotLate'
<1>1. CASE Allowed(Top.cap, target)
  BY <1>1, Uncounted DEF Count
<1>2. CASE ~Allowed(Top.cap, target)
  <2> DEFINE q == <<Top.cap, target>>
  <2>1. late' = [late EXCEPT ![q] = @ + 1] /\ late \in [Ids \X Targets -> 0 .. 1]
    BY <1>2 DEF Count, CallInv, Counts
  <2>2. q \in Ids \X Targets => late[q] = 0
    BY DEF CallInv, AskedIsNotLate
  <2>3. ASSUME NEW c \in Ids, NEW t \in Targets, Allowed(c, t)'
        PROVE  late'[<<c, t>>] = 0
    <3>1. Allowed(c, t)
      BY <2>3 DEF Allowed, InScope, access
    <3>2. late[<<c, t>>] = 0
      BY <3>1 DEF CallInv, AllowedIsNotLate
    <3>3. <<c, t>> # q
      BY <1>2, <3>1
    <3> HIDE DEF q
    <3> QED
      BY <2>1, <3>2, <3>3
  <2> HIDE DEF q
  <2>4. late' \in [Ids \X Targets -> 0 .. 1]
    <3>1. CASE q \in Ids \X Targets
      BY <2>1, <2>2, <3>1
    <3>2. CASE q \notin Ids \X Targets
      <4>1. late' = late
        BY <2>1, <3>2
      <4> QED
        BY <2>1, <4>1
    <3> QED
      BY <3>1, <3>2
  <2> QED
    BY <2>3, <2>4 DEF Counts, AllowedIsNotLate
<1> QED
  BY <1>1, <1>2

-----------------------------------------------------------------------------
(* The steps of a call.                                                    *)
LEMMA EnterKeeps ==
    ASSUME CallInv, NEW c, Enter(c)
    PROVE  CallInv'
<1>1. Counts' /\ AllowedIsNotLate'
  BY Uncounted DEF Enter
<1>2. CASE c \in Installed
  <2>1. stack = <<>> /\ stack' = <<Frame(c)>>
    BY <1>2 DEF Enter
  <2>2. stack' = Append(stack, Frame(c))
    BY <2>1
  <2> QED
    BY <1>1, <2>1, <2>2, CalledDeeper
<1>3. CASE c \notin Installed
  BY <1>1, <1>3, Emptied DEF Enter
<1> QED
  BY <1>2, <1>3

LEMMA AskKeeps ==
    ASSUME CallInv, Ask
    PROVE  CallInv'
<1>1. Counts' /\ AllowedIsNotLate' /\ late' = late /\ target' = target
  BY Uncounted DEF Ask
<1>2. CASE Allowed(Top.cap, target)
  <2> DEFINE f == [Top EXCEPT !.pc = "go"]
  <2>1. stack # <<>> /\ SetTop(f)
    BY <1>2 DEF Ask
  <2>2. PICK S : stack \in Seq(S) /\ \A g \in S : IsFrame(g)
    BY DEF CallInv, Frames
  <2>3. Top \in S
    BY <2>1, <2>2 DEF Top
  <2>4. IsFrame(Top)
    BY <2>2, <2>3
  <2>5. f = [cap |-> Top.cap, pc |-> "go", per |-> Top.per, merged |-> Top.merged]
    BY <2>4 DEF IsFrame
  <2>6. IsFrame(f) /\ f.cap = Top.cap
    <3> HIDE DEF f
    <3> QED
      BY <2>5 DEF IsFrame
  <2>7. <<Top.cap, target>> \in Ids \X Targets => late[<<Top.cap, target>>] = 0
    BY <1>2 DEF CallInv, AllowedIsNotLate
  <2> HIDE DEF f
  <2> QED
    BY <1>1, <2>1, <2>6, <2>7, Retopped
<1>3. CASE ~Allowed(Top.cap, target)
  BY <1>1, <1>3, Emptied DEF Ask, Fail
<1> QED
  BY <1>2, <1>3

LEMMA RunFunctionKeeps ==
    ASSUME CallInv, RunFunction
    PROVE  CallInv'
<1>1. stack # <<>> /\ Top.pc = "go" /\ Count /\ UNCHANGED <<access, target>>
  BY DEF RunFunction
<1>2. Counts' /\ AllowedIsNotLate'
  BY <1>1, CountedOnce
<1>3. Deliver([k \in Output[Top.cap] |-> Top.cap]) \/ Fail
  BY DEF RunFunction
<1>4. CASE Deliver([k \in Output[Top.cap] |-> Top.cap])
  BY <1>1, <1>2, <1>4, Delivered
<1>5. CASE Fail
  BY <1>2, <1>5, Emptied DEF Fail
<1> QED
  BY <1>3, <1>4, <1>5

LEMMA BeginCombinationKeeps ==
    ASSUME CallInv, BeginCombination
    PROVE  CallInv'
<1> DEFINE f == [Top EXCEPT !.pc = "parts"]
<1>1. stack # <<>> /\ Top.pc = "go" /\ Count /\ UNCHANGED <<access, target>> /\ SetTop(f)
  BY DEF BeginCombination
<1>2. Counts' /\ AllowedIsNotLate'
  BY <1>1, CountedOnce
<1>3. PICK S : stack \in Seq(S) /\ \A g \in S : IsFrame(g)
  BY DEF CallInv, Frames
<1>4. Top \in S
  BY <1>1, <1>3 DEF Top
<1>5. IsFrame(Top)
  BY <1>3, <1>4
<1>6. f = [cap |-> Top.cap, pc |-> "parts", per |-> Top.per, merged |-> Top.merged]
  BY <1>5 DEF IsFrame
<1>7. IsFrame(f) /\ f.pc = "parts"
  <2> HIDE DEF f
  <2> QED
    BY <1>6 DEF IsFrame
<1> HIDE DEF f
<1> QED
  BY <1>1, <1>2, <1>7, Retopped

LEMMA InvokeComponentKeeps ==
    ASSUME CallInv, InvokeComponent
    PROVE  CallInv'
<1>1. Counts' /\ AllowedIsNotLate'
  BY Uncounted DEF InvokeComponent
<1>2. CASE Len(stack) < RecursionLimit
  BY <1>1, <1>2, CalledDeeper DEF InvokeComponent
<1>3. CASE ~(Len(stack) < RecursionLimit)
  BY <1>1, <1>3, Emptied DEF InvokeComponent, Fail
<1> QED
  BY <1>2, <1>3

LEMMA EndCombinationKeeps ==
    ASSUME CallInv, EndCombination
    PROVE  CallInv'
<1>1. Counts' /\ AllowedIsNotLate'
  BY Uncounted DEF EndCombination
<1>2. stack # <<>> /\ Deliver(Combine(Top))
  BY DEF EndCombination
<1> QED
  BY <1>1, <1>2, Delivered

-----------------------------------------------------------------------------
(* Init allows nothing late: no tool has been allowed yet.                 *)
LEMMA InitBites == Init => BitesInv
<1> SUFFICES ASSUME Init
             PROVE  BitesInv
  OBVIOUS
<1>1. Counts
  BY DEF Init, Counts
<1>2. AllowedIsNotLate
  BY DEF Init, AllowedIsNotLate, Allowed, InScope
<1>3. Frames
  BY DEF Init, Frames
<1>4. CallersWait /\ AskedIsNotLate
  BY DEF Init, CallersWait, AskedIsNotLate
<1>5. BetweenRuns
  BY DEF Init, BetweenRuns
<1> QED
  BY <1>1, <1>2, <1>3, <1>4, <1>5 DEF BitesInv, CallInv

(* A handler's step leaves the calls alone, or changes what is allowed.    *)
LEMMA HandlerStep ==
    ASSUME NEW h, Handle(h)
    PROVE  worker' = worker /\ (UNCHANGED callVars \/ (Recount /\ UNCHANGED callState))
<1>1. CASE Read(h) \/ Create(h) \/ Change(h) \/ Delete(h) \/ SetOrder(h) \/ Apply(h)
  BY <1>1 DEF Read, Create, Change, Delete, SetOrder, Apply, Request, engine
<1>2. CASE CountRows(h) \/ Promote(h) \/ Insert(h) \/ Write(h)
  BY <1>2 DEF CountRows, Promote, Insert, Write, engine
<1>3. CASE List(h) \/ ReadOrder(h) \/ Submit(h) \/ Dispatch(h)
  BY <1>3 DEF List, ReadOrder, Submit, Dispatch, engine
<1>4. CASE ApplyTool(h) \/ ApplyScope(h) \/ ApplyFolder(h) \/ ApplyEligible(h)
  BY <1>4 DEF ApplyTool, ApplyScope, ApplyFolder, ApplyEligible, Applies, engine
<1>5. CASE ApplyWorkflow(h) \/ ReadMatch(h) \/ Applied(h)
  BY <1>5 DEF ApplyWorkflow, ReadMatch, Applied, engine
<1> QED
  BY <1>1, <1>2, <1>3, <1>4, <1>5 DEF Handle

(* The worker, between calls.                                              *)
LEMMA WorkerKeeps ==
    ASSUME BitesInv, StartRun \/ NextBatch \/ Resume \/ EndRun
    PROVE  BitesInv'
<1>1. worker \in [batch : Nat, at : Nat, call : Nat] /\ (worker.call = 0 => stack = <<>>)
  BY DEF BitesInv, BetweenRuns
<1>2. CASE StartRun
  <2>1. stack = <<>> /\ stack' = <<>> /\ UNCHANGED <<access, late>>
    BY <1>1, <1>2 DEF StartRun
  <2>2. CallInv'
    BY <2>1, Uncounted, Emptied DEF BitesInv
  <2> QED
    BY <1>1, <1>2, <2>1, <2>2 DEF BitesInv, BetweenRuns, StartRun
<1>3. CASE NextBatch
  <2>1. CallInv'
    BY <1>3, CallsUntouched DEF BitesInv, NextBatch
  <2>2. stack' = stack /\ worker.call = 0
    BY <1>3 DEF NextBatch, callVars, callState
  <2> QED
    BY <1>1, <1>3, <2>1, <2>2 DEF BitesInv, BetweenRuns, NextBatch
<1>4. CASE Resume
  <2>1. UNCHANGED <<access, target, stack, late>>
    BY <1>4 DEF Resume
  <2>2. CallInv'
    BY <2>1 DEF BitesInv, CallInv, Counts, AllowedIsNotLate, Frames, CallersWait,
                AskedIsNotLate, access, Allowed, InScope, Top
  <2>3. worker' = [worker EXCEPT !.call = @ + 1]
    BY <1>4 DEF Resume
  <2> QED
    BY <1>1, <2>2, <2>3 DEF BitesInv, BetweenRuns
<1>5. CASE EndRun
  <2>1. CallInv'
    BY <1>5, CallsUntouched DEF BitesInv, EndRun
  <2>2. stack' = <<>>
    BY <1>5 DEF EndRun, callVars, callState
  <2> DEFINE w == [worker EXCEPT !.at = @ + 1]
  <2>3. w \in [batch : Nat, at : Nat, call : Nat]
    BY <1>1
  <2>4. worker' = [w EXCEPT !.call = 0]
    BY <1>5 DEF EndRun
  <2> HIDE DEF w
  <2>5. worker' \in [batch : Nat, at : Nat, call : Nat]
    BY <2>3, <2>4
  <2> QED
    BY <2>1, <2>2, <2>5 DEF BitesInv, BetweenRuns
<1> QED
  BY <1>2, <1>3, <1>4, <1>5

(* The worker is inside a call whenever the stack is not empty.            *)
LEMMA ToolKeeps ==
    ASSUME BitesInv, CallTool \/ Tool
    PROVE  BitesInv'
<1>1. worker' = worker
  BY DEF CallTool, Tool, engine
<1>2. CASE CallTool
  <2>1. CallInv'
    BY <1>2, EnterKeeps DEF CallTool, BitesInv
  <2>2. worker.call # 0
    BY <1>2 DEF CallTool, BitesInv, BetweenRuns
  <2> QED
    BY <1>1, <2>1, <2>2 DEF BitesInv, BetweenRuns
<1>3. CASE Tool
  <2>1. CallStep
    BY <1>3 DEF Tool
  <2>2. CallInv'
    BY <2>1, AskKeeps, RunFunctionKeeps, BeginCombinationKeeps, InvokeComponentKeeps,
       EndCombinationKeeps DEF CallStep, BitesInv
  <2>3. stack # <<>>
    BY <2>1 DEF CallStep, Ask, RunFunction, BeginCombination, InvokeComponent, EndCombination
  <2> QED
    BY <1>1, <2>2, <2>3 DEF BitesInv, BetweenRuns
<1> QED
  BY <1>2, <1>3

LEMMA NextBites == BitesInv /\ [Next]_vars => BitesInv'
<1> SUFFICES ASSUME BitesInv, [Next]_vars
             PROVE  BitesInv'
  OBVIOUS
<1>1. CASE \E h \in Handlers : Handle(h)
  <2>1. worker' = worker /\ (UNCHANGED callVars \/ (Recount /\ UNCHANGED callState))
    BY <1>1, HandlerStep
  <2>2. CallInv'
    BY <2>1, CallsUntouched, Recounted DEF BitesInv
  <2>3. stack' = stack
    BY <2>1 DEF callVars, callState
  <2> QED
    BY <2>1, <2>2, <2>3 DEF BitesInv, BetweenRuns
<1>2. CASE Work
  BY <1>2, WorkerKeeps, ToolKeeps DEF Work
<1>3. CASE EditAccess
  <2>1. Recount /\ UNCHANGED callState /\ worker' = worker
    BY <1>3 DEF EditAccess, Edit, engine
  <2>2. CallInv' /\ stack' = stack
    BY <2>1, Recounted DEF BitesInv, callState
  <2> QED
    BY <2>1, <2>2 DEF BitesInv, BetweenRuns
<1>4. CASE UNCHANGED vars
  <2>1. UNCHANGED callVars /\ worker' = worker /\ stack' = stack
    BY <1>4 DEF vars, engine, callVars, callState
  <2> QED
    BY <2>1, CallsUntouched DEF BitesInv, BetweenRuns
<1> QED
  BY <1>1, <1>2, <1>3, <1>4 DEF Next

(* After its tool stops being allowed on a file, only the call that had    *)
(* asked before can still execute it there (WorkflowRuntime.invoke), and a *)
(* component of a combination asks like every other call, however deep.    *)
THEOREM RevocationAlwaysBites == Spec => []RevocationBites
<1>1. BitesInv => RevocationBites
  BY DEF BitesInv, CallInv, Counts, RevocationBites
<1> QED
  BY <1>1, InitBites, NextBites, PTL DEF Spec
-----------------------------------------------------------------------------
(* Induction, from the well-foundedness of the order of the naturals.      *)
Less == {p \in Nat \X Nat : p[1] < p[2]}

LEMMA LeastNat ==
    ASSUME NEW T, T \subseteq Nat, T # {}
    PROVE  \E n \in T : \A m \in T : n <= m
<1>1. OpToRel(<, Nat) = Less
  BY DEF OpToRel, Less
<1>2. IsWellFoundedOn(Less, Nat)
  BY <1>1, NatLessThanWellFounded
<1>3. PICK n \in T : \A m \in T : ~(<<m, n>> \in Less)
  BY <1>2, WFMin
<1>4. \A m \in T : ~(m < n)
  BY <1>3 DEF Less
<1> QED
  BY <1>4

LEMMA Induction ==
    ASSUME NEW S, 0 \in S, \A n \in Nat : n \in S => n + 1 \in S
    PROVE  Nat \subseteq S
<1> SUFFICES ASSUME Nat \ S # {}
             PROVE  FALSE
  OBVIOUS
<1>1. PICK n \in Nat \ S : \A m \in Nat \ S : n <= m
  BY LeastNat
<1>2. n # 0 /\ n - 1 \in Nat
  BY <1>1
<1>3. n - 1 \in S
  BY <1>1, <1>2
<1> QED
  BY <1>1, <1>2, <1>3

LEMMA GreatestBelow ==
    ASSUME NEW l \in Nat, NEW T, T \subseteq 1 .. l, T # {}
    PROVE  \E n \in T : \A m \in T : m <= n
<1> DEFINE U == {u \in Nat : l - u \in T}
<1>1. U # {}
  <2>1. PICK t \in T : t \in 1 .. l
    OBVIOUS
  <2>2. l - t \in Nat /\ l - (l - t) = t
    BY <2>1
  <2> QED
    BY <2>2
<1>2. PICK u \in U : \A v \in U : u <= v
  BY <1>1, LeastNat
<1>3. ASSUME NEW m \in T
      PROVE  m <= l - u
  <2>1. m \in 1 .. l
    OBVIOUS
  <2>2. l - m \in Nat /\ l - (l - m) = m
    BY <2>1
  <2>3. u <= l - m
    BY <1>2, <2>2
  <2> QED
    BY <2>1, <2>3
<1> QED
  BY <1>3

-----------------------------------------------------------------------------
(* Meaning is what its equation says: the equation has a solution.         *)
AtLevel(f, n) == IF n = 0 THEN Shallow ELSE Deeper(f[n - 1])

UpTo(f, m) == \A n \in 0 .. m : f[n] = AtLevel(f, n)

LEMMA UpToExists == \A m \in Nat : \E f : UpTo(f, m)
<1> DEFINE S == {m \in Nat : \E f : UpTo(f, m)}
<1>1. 0 \in S
  <2> DEFINE f == [n \in 0 .. 0 |-> Shallow]
  <2>1. UpTo(f, 0)
    BY DEF AtLevel, UpTo
  <2> QED
    BY <2>1
<1>2. ASSUME NEW m \in Nat, m \in S
      PROVE  m + 1 \in S
  <2>1. PICK f : UpTo(f, m)
    BY <1>2
  <2> DEFINE g == [n \in 0 .. m + 1 |-> IF n = m + 1 THEN Deeper(f[m]) ELSE f[n]]
  <2>2. ASSUME NEW n \in 0 .. m + 1
        PROVE  g[n] = AtLevel(g, n)
    <3>1. CASE n = m + 1
      BY <3>1 DEF AtLevel
    <3>2. CASE n # m + 1
      <4>1. n \in 0 .. m /\ (n # 0 => n - 1 \in 0 .. m)
        BY <3>2
      <4>2. g[n] = f[n] /\ (n # 0 => g[n - 1] = f[n - 1])
        BY <3>2, <4>1
      <4>3. f[n] = AtLevel(f, n)
        BY <2>1, <4>1 DEF UpTo
      <4> QED
        BY <4>2, <4>3 DEF AtLevel
    <3> QED
      BY <3>1, <3>2
  <2>3. UpTo(g, m + 1)
    BY <2>2 DEF UpTo
  <2> QED
    BY <2>3
<1> HIDE DEF S
<1>3. Nat \subseteq S
  BY <1>1, <1>2, Induction
<1> QED
  BY <1>3 DEF S

LEMMA UpToAgree ==
    ASSUME NEW m \in Nat, NEW k \in Nat, NEW f, NEW g, UpTo(f, m), UpTo(g, k)
    PROVE  \A n \in Nat : n <= m /\ n <= k => f[n] = g[n]
<1> DEFINE S == {n \in Nat : n <= m /\ n <= k => f[n] = g[n]}
<1>1. 0 \in S
  <2>1. f[0] = AtLevel(f, 0) /\ g[0] = AtLevel(g, 0)
    BY DEF UpTo
  <2> QED
    BY <2>1 DEF AtLevel
<1>2. ASSUME NEW n \in Nat, n \in S
      PROVE  n + 1 \in S
  <2> SUFFICES ASSUME n + 1 <= m, n + 1 <= k
               PROVE  f[n + 1] = g[n + 1]
    OBVIOUS
  <2>1. f[n] = g[n]
    BY <1>2
  <2>2. f[n + 1] = AtLevel(f, n + 1) /\ g[n + 1] = AtLevel(g, n + 1)
    BY DEF UpTo
  <2>3. n + 1 # 0 /\ (n + 1) - 1 = n
    OBVIOUS
  <2> QED
    BY <2>1, <2>2, <2>3 DEF AtLevel
<1> HIDE DEF S
<1>3. Nat \subseteq S
  BY <1>1, <1>2, Induction
<1> QED
  BY <1>3 DEF S

LEMMA MeaningEquation == Meaning = [n \in Nat |-> AtLevel(Meaning, n)]
<1> DEFINE F(n) == CHOOSE f : UpTo(f, n)
           h == [n \in Nat |-> F(n)[n]]
<1>1. ASSUME NEW n \in Nat
      PROVE  UpTo(F(n), n)
  BY UpToExists
<1>2. ASSUME NEW n \in Nat
      PROVE  h[n] = AtLevel(h, n)
  <2>1. F(n)[n] = AtLevel(F(n), n)
    BY <1>1 DEF UpTo
  <2>2. CASE n = 0
    BY <2>1, <2>2 DEF AtLevel
  <2>3. CASE n # 0
    <3>1. n - 1 \in Nat
      BY <2>3
    <3>2. F(n)[n - 1] = F(n - 1)[n - 1]
      BY <1>1, <3>1, UpToAgree
    <3>3. h[n - 1] = F(n)[n - 1]
      BY <3>1, <3>2
    <3> QED
      BY <2>1, <2>3, <3>3 DEF AtLevel
  <2> QED
    BY <2>2, <2>3
<1>3. h = [n \in Nat |-> AtLevel(h, n)]
  <2> DEFINE g == [n \in Nat |-> AtLevel(h, n)]
  <2>1. \A n \in Nat : h[n] = g[n]
    BY <1>2
  <2> QED
    BY <2>1
<1>4. \E f : f = [n \in Nat |-> IF n = 0 THEN Shallow ELSE Deeper(f[n - 1])]
  BY <1>3 DEF AtLevel
<1> QED
  BY <1>4 DEF Meaning, AtLevel

(* What a capability means at a level, read off the equation.              *)
LEMMA MeaningAt ==
    ASSUME NEW n \in Nat
    PROVE  /\ n = 0 => Meaning[n] = Shallow
           /\ n > 0 => Meaning[n] = Deeper(Meaning[n - 1])
<1>1. Meaning[n] = AtLevel(Meaning, n)
  BY MeaningEquation
<1> QED
  BY <1>1 DEF AtLevel

LEMMA MeaningOfFunction ==
    ASSUME NEW n \in Nat, NEW c \in FunctionIds
    PROVE  Meaning[n][c] = [k \in Output[c] |-> c]
<1>1. c \in Installed
  BY DEF Installed
<1>2. Shallow[c] = [k \in Output[c] |-> c]
  BY <1>1 DEF Shallow
<1>3. CASE n = 0
  BY <1>2, <1>3, MeaningAt
<1>4. CASE n > 0
  <2>1. Meaning[n] = Deeper(Meaning[n - 1])
    BY <1>4, MeaningAt
  <2> QED
    BY <1>1, <1>2, <2>1 DEF Deeper
<1> QED
  BY <1>3, <1>4

LEMMA MeaningOfComposite ==
    ASSUME NEW n \in Nat, NEW c \in CompositeIds,
           \A i \in DOMAIN ExecutionOrder[c] : ExecutionOrder[c][i] \in Installed
    PROVE  Meaning[n + 1][c] = Combined(c, ExecutionOrder[c], Meaning[n])
<1>1. c \in Installed /\ c \notin FunctionIds
  BY CallConstants DEF Installed
<1>2. Meaning[n + 1] = Deeper(Meaning[n])
  <2>1. n + 1 \in Nat /\ n + 1 > 0 /\ (n + 1) - 1 = n
    OBVIOUS
  <2> HIDE DEF Meaning
  <2> QED
    BY <2>1, MeaningAt
<1> QED
  BY <1>1, <1>2 DEF Deeper

IsDict(d) == d = [k \in DOMAIN d |-> d[k]]

-----------------------------------------------------------------------------
(* What a combination holds of its first m components, n levels deep each. *)
Part(f, n, k) == Meaning[n][ExecutionOrder[f.cap][k]]

LastPart(f, n, m, x, k) ==
    /\ x \in DOMAIN Part(f, n, k)
    /\ \A j \in 1 .. m : x \in DOMAIN Part(f, n, j) => j <= k

PartsDone(f, n, m) ==
    /\ m <= Len(ExecutionOrder[f.cap])
    /\ f.per = [k \in 1 .. m |-> Part(f, n, k)]
    /\ \A k \in 1 .. m : ExecutionOrder[f.cap][k] \in Installed
    /\ IsDict(f.merged)
    /\ DOMAIN f.merged = UNION {DOMAIN Part(f, n, k) : k \in 1 .. m}
    /\ \A x \in DOMAIN f.merged :
         \E k \in 1 .. m : LastPart(f, n, m, x, k) /\ f.merged[x] = Part(f, n, k)[x]

(* A frame that may invoke components n levels deep.                       *)
WholeFrame(f, n) ==
    /\ f.pc \in {"ask", "go", "parts"} /\ f.cap \in Ids
    /\ f.pc # "ask" => f.cap \in Installed
    /\ f.pc # "parts" => f.per = <<>> /\ f.merged = NoKeys
    /\ f.pc = "parts" => f.cap \in CompositeIds /\ \E m \in Nat : PartsDone(f, n, m)

(* The frame above is that of the next component.                          *)
Calls_(f, g) ==
    /\ Len(f.per) < Len(ExecutionOrder[f.cap])
    /\ g.cap = ExecutionOrder[f.cap][Len(f.per) + 1]

WholeStack(s) ==
    /\ Len(s) <= RecursionLimit
    /\ \A i \in 1 .. Len(s) : WholeFrame(s[i], RecursionLimit - i)
    /\ \A i \in 1 .. Len(s) : i < Len(s) => Calls_(s[i], s[i + 1])

WholeInv == WholeStack(stack) /\ ResultsAreWhole

LEMMA FcnIsSeq ==
    ASSUME NEW m \in Nat, NEW S, NEW f \in [1 .. m -> S]
    PROVE  f \in Seq(S) /\ Len(f) = m
  OBVIOUS

LEMMA SeqIsFcn ==
    ASSUME NEW S, NEW f \in Seq(S)
    PROVE  f \in [1 .. Len(f) -> S]
  OBVIOUS

LEMMA PerLength ==
    ASSUME NEW f, NEW n, NEW m \in Nat, PartsDone(f, n, m)
    PROVE  Len(f.per) = m /\ \E S : f.per \in Seq(S)
<1> DEFINE S == {Part(f, n, k) : k \in 1 .. m}
<1>1. f.per \in [1 .. m -> S]
  BY DEF PartsDone
<1> QED
  BY <1>1, FcnIsSeq

LEMMA NoParts ==
    ASSUME NEW f, NEW n, f.per = <<>>, f.merged = NoKeys, f.cap \in CompositeIds
    PROVE  PartsDone(f, n, 0)
<1>1. 1 .. 0 = {}
  OBVIOUS
<1>2. f.per = [k \in 1 .. 0 |-> Part(f, n, k)]
  <2>1. [k \in 1 .. 0 |-> Part(f, n, k)] = <<>>
    BY <1>1
  <2> QED
    BY <2>1
<1>3. IsDict(f.merged) /\ DOMAIN f.merged = {}
  BY DEF IsDict, NoKeys
<1>4. ExecutionOrder[f.cap] \in Seq(Ids)
  BY CallConstants
<1>5. UNION {DOMAIN Part(f, n, k) : k \in 1 .. 0} = {}
  BY <1>1
<1> QED
  BY <1>1, <1>2, <1>3, <1>4, <1>5 DEF PartsDone

(* One more component.                                                     *)
LEMMA OneMorePart ==
    ASSUME NEW f, NEW n, NEW m \in Nat, PartsDone(f, n, m),
           f.cap \in CompositeIds, m < Len(ExecutionOrder[f.cap]),
           ExecutionOrder[f.cap][m + 1] \in Installed,
           NEW d, d = Part(f, n, m + 1), IsDict(d),
           NEW g, g.cap = f.cap, g.per = Append(f.per, d), g.merged = Update(f.merged, d)
    PROVE  PartsDone(g, n, m + 1)
<1>1. \A k : Part(g, n, k) = Part(f, n, k)
  BY DEF Part
<1>2. g.per = [k \in 1 .. m + 1 |-> Part(g, n, k)]
  <2> DEFINE S == {Part(f, n, k) : k \in 1 .. m + 1}
  <2>1. f.per \in Seq(S) /\ Len(f.per) = m /\ d \in S
    <3>1. f.per \in [1 .. m -> S]
      BY DEF PartsDone
    <3>2. d \in S
      OBVIOUS
    <3> QED
      BY <3>1, <3>2, FcnIsSeq
  <2> HIDE DEF S
  <2>2. /\ g.per \in Seq(S) /\ Len(g.per) = m + 1 /\ g.per[m + 1] = d
        /\ \A k \in 1 .. m : g.per[k] = f.per[k]
    BY <2>1
  <2>3. \A k \in 1 .. m + 1 : g.per[k] = Part(g, n, k)
    <3> TAKE k \in 1 .. m + 1
    <3>1. CASE k = m + 1
      BY <3>1, <2>2, <1>1
    <3>2. CASE k # m + 1
      <4>1. k \in 1 .. m
        BY <3>2
      <4> QED
        BY <4>1, <2>2, <1>1 DEF PartsDone
    <3> QED
      BY <3>1, <3>2
  <2>4. g.per \in [1 .. m + 1 -> S]
    BY <2>2, SeqIsFcn
  <2> QED
    BY <2>3, <2>4
<1>3. IsDict(g.merged) /\ DOMAIN g.merged = DOMAIN f.merged \cup DOMAIN d
  BY DEF IsDict, Update
<1>4. DOMAIN g.merged = UNION {DOMAIN Part(g, n, k) : k \in 1 .. m + 1}
  <2>1. 1 .. m + 1 = (1 .. m) \cup {m + 1}
    OBVIOUS
  <2>2. UNION {DOMAIN Part(f, n, k) : k \in 1 .. m + 1} =
          (UNION {DOMAIN Part(f, n, k) : k \in 1 .. m}) \cup DOMAIN d
    BY <2>1
  <2>3. UNION {DOMAIN Part(g, n, k) : k \in 1 .. m + 1} =
          UNION {DOMAIN Part(f, n, k) : k \in 1 .. m + 1}
    BY <1>1
  <2>4. DOMAIN f.merged = UNION {DOMAIN Part(f, n, k) : k \in 1 .. m}
    BY DEF PartsDone
  <2> QED
    BY <1>3, <2>2, <2>3, <2>4
<1>5. ASSUME NEW x \in DOMAIN g.merged
      PROVE  \E k \in 1 .. m + 1 : LastPart(g, n, m + 1, x, k) /\ g.merged[x] = Part(g, n, k)[x]
  <2>1. CASE x \in DOMAIN d
    <3>1. g.merged[x] = d[x]
      BY <2>1, <1>3 DEF Update
    <3>2. LastPart(g, n, m + 1, x, m + 1)
      BY <2>1, <1>1 DEF LastPart
    <3> QED
      BY <3>1, <3>2, <1>1
  <2>2. CASE x \notin DOMAIN d
    <3>1. x \in DOMAIN f.merged /\ g.merged[x] = f.merged[x]
      BY <2>2, <1>3 DEF Update
    <3>2. PICK k \in 1 .. m : LastPart(f, n, m, x, k) /\ f.merged[x] = Part(f, n, k)[x]
      BY <3>1 DEF PartsDone
    <3>3. LastPart(g, n, m + 1, x, k)
      BY <2>2, <3>2, <1>1 DEF LastPart
    <3>4. k \in 1 .. m + 1
      OBVIOUS
    <3> QED
      BY <3>1, <3>2, <3>3, <3>4, <1>1
  <2> QED
    BY <2>1, <2>2
<1>6. \A k \in 1 .. m + 1 : ExecutionOrder[g.cap][k] \in Installed
  BY DEF PartsDone
<1>7. ExecutionOrder[f.cap] \in Seq(Ids)
  BY CallConstants
<1> QED
  BY <1>2, <1>3, <1>4, <1>5, <1>6, <1>7 DEF PartsDone

(* All components done: what the combination returns is what it means.     *)
LEMMA CombineMeans ==
    ASSUME NEW f, NEW n \in Nat, NEW m \in Nat, f.cap \in CompositeIds,
           PartsDone(f, n, m), m = Len(ExecutionOrder[f.cap])
    PROVE  Combine(f) = Meaning[n + 1][f.cap]
<1> DEFINE ids == ExecutionOrder[f.cap]
           below == Meaning[n]
<1>1. ids \in Seq(Ids) /\ ids # <<>> /\ DOMAIN ids = 1 .. m /\ m # 0
  <2>1. ids \in Seq(Ids) \ {<<>>}
    BY CallConstants
  <2> QED
    BY <2>1
<1>2. \A k \in 1 .. m : ids[k] \in Installed
  BY DEF PartsDone
<1>3. Meaning[n + 1][f.cap] = Combined(f.cap, ids, below)
  BY <1>1, <1>2, MeaningOfComposite
<1>4. Logic[f.cap] \in {"merge", "first", "collect"}
  BY CallConstants
<1>5. CASE Logic[f.cap] = "merge"
  <2> DEFINE K == UNION {DOMAIN below[ids[i]] : i \in DOMAIN ids}
  <2>1. DOMAIN f.merged = K
    BY <1>1 DEF PartsDone, Part
  <2>2. ASSUME NEW x \in K
        PROVE  f.merged[x] = below[ids[LastWith(x, ids, below)]][x]
    <3>1. PICK k \in 1 .. m : LastPart(f, n, m, x, k) /\ f.merged[x] = below[ids[k]][x]
      BY <2>1, <2>2 DEF PartsDone, Part
    <3>2. \A j \in DOMAIN ids : x \in DOMAIN below[ids[j]] => j <= k
      BY <1>1, <3>1 DEF LastPart, Part
    <3>3. x \in DOMAIN below[ids[k]]
      BY <3>1 DEF LastPart, Part
    <3> DEFINE l == LastWith(x, ids, below)
    <3>4. l \in DOMAIN ids /\ x \in DOMAIN below[ids[l]]
          /\ \A j \in DOMAIN ids : x \in DOMAIN below[ids[j]] => j <= l
      BY <1>1, <3>2, <3>3 DEF LastWith
    <3>5. l = k
      <4> HIDE DEF l
      <4> QED
        BY <1>1, <3>2, <3>3, <3>4
    <3> QED
      BY <3>1, <3>5
  <2>3. f.merged = [x \in K |-> f.merged[x]]
    BY <2>1 DEF PartsDone, IsDict
  <2>4. f.merged = [x \in K |-> below[ids[LastWith(x, ids, below)]][x]]
    <3> HIDE DEF K, below, ids
    <3> QED
      BY <2>2, <2>3
  <2> QED
    BY <1>3, <1>5, <2>4 DEF Combine, Combined
<1>6. CASE Logic[f.cap] = "first"
  <2> DEFINE T == {i \in 1 .. m : ids[i] = ids[1]}
             l == CHOOSE i \in DOMAIN ids :
                    ids[i] = ids[1] /\ \A j \in DOMAIN ids : ids[j] = ids[1] => j <= i
  <2>1. 1 \in T /\ T \subseteq 1 .. m
    BY <1>1
  <2>2. \E i \in T : \A j \in T : j <= i
    <3> HIDE DEF T
    <3> QED
      BY <2>1, GreatestBelow
  <2>3. \E i \in DOMAIN ids : ids[i] = ids[1] /\ \A j \in DOMAIN ids : ids[j] = ids[1] => j <= i
    BY <1>1, <2>2
  <2>4. l \in 1 .. m /\ ids[l] = ids[1]
    <3> HIDE DEF ids
    <3> QED
      BY <1>1, <2>3
  <2>5. f.per[l] = below[ids[1]]
    <3> HIDE DEF l
    <3>1. f.per[l] = Part(f, n, l)
      BY <2>4 DEF PartsDone
    <3> QED
      BY <2>4, <3>1 DEF Part
  <2> QED
    BY <1>3, <1>6, <2>5 DEF Combine, Combined
<1>7. CASE Logic[f.cap] = "collect"
  BY <1>3, <1>7 DEF Combine, Combined
<1> QED
  BY <1>4, <1>5, <1>6, <1>7

(* A dict in any case.                                                     *)
LEMMA MeaningIsDict == \A n \in Nat : \A c \in Installed : IsDict(Meaning[n][c])
<1> DEFINE S == {n \in Nat : \A c \in Installed : IsDict(Meaning[n][c])}
<1>1. ASSUME NEW c \in Installed
      PROVE  IsDict(Shallow[c])
  BY DEF Shallow, IsDict, NoKeys
<1>2. 0 \in S
  <2>1. Meaning[0] = Shallow
    BY MeaningAt
  <2> QED
    BY <1>1, <2>1
<1>3. ASSUME NEW n \in Nat, n \in S
      PROVE  n + 1 \in S
  <2>1. Meaning[n + 1] = Deeper(Meaning[n])
    <3>1. n + 1 \in Nat /\ n + 1 > 0 /\ (n + 1) - 1 = n
      OBVIOUS
    <3> QED
      BY <3>1, MeaningAt
  <2> DEFINE b == Meaning[n]
  <2>2. \A c \in Installed : IsDict(b[c])
    BY <1>3
  <2> HIDE DEF b
  <2>3. ASSUME NEW c \in Installed, c \notin FunctionIds,
               \A i \in DOMAIN ExecutionOrder[c] : ExecutionOrder[c][i] \in Installed
        PROVE  IsDict(Combined(c, ExecutionOrder[c], b))
    <3> DEFINE ids == ExecutionOrder[c]
    <3>1. ids \in Seq(Ids) \ {<<>>} /\ Logic[c] \in {"merge", "first", "collect"}
      BY <2>3, CallConstants DEF Installed
    <3>2. 1 \in DOMAIN ids
      <4> HIDE DEF ids
      <4> QED
        BY <3>1
    <3>3. IsDict(b[ids[1]])
      BY <2>2, <2>3, <3>2
    <3> HIDE DEF ids
    <3>4. Logic[c] = "merge" => IsDict(Combined(c, ids, b))
      BY DEF Combined, IsDict
    <3>5. Logic[c] = "first" => IsDict(Combined(c, ids, b))
      BY <3>3 DEF Combined
    <3>6. Logic[c] = "collect" => IsDict(Combined(c, ids, b))
      BY DEF Combined, IsDict
    <3>7. IsDict(Combined(c, ids, b))
      BY <3>1, <3>4, <3>5, <3>6
    <3> QED
      BY <3>7 DEF ids
  <2>4. \A c \in Installed : IsDict(Deeper(b)[c])
    BY <1>1, <2>3 DEF Deeper
  <2> QED
    BY <2>1, <2>4 DEF b
<1> HIDE DEF S
<1>4. Nat \subseteq S
  BY <1>2, <1>3, Induction
<1> QED
  BY <1>4 DEF S

-----------------------------------------------------------------------------
(* What a step does to the stack.                                          *)
LEMMA StackTop ==
    ASSUME CallInv, stack # <<>>
    PROVE  /\ Len(stack) \in Nat \ {0} /\ Top = stack[Len(stack)]
           /\ \A i \in 1 .. Len(stack) : IsFrame(stack[i])
           /\ \A i \in 1 .. Len(stack) : i < Len(stack) => stack[i].pc = "parts"
<1>1. PICK S : stack \in Seq(S) /\ \A f \in S : IsFrame(f)
  BY DEF CallInv, Frames
<1>2. Len(stack) \in Nat \ {0}
  BY <1>1
<1>3. \A i \in 1 .. Len(stack) : IsFrame(stack[i])
  BY <1>1
<1>4. \A i \in 1 .. Len(stack) : i < Len(stack) => stack[i].pc = "parts"
  BY <1>2 DEF CallInv, CallersWait
<1> QED
  BY <1>2, <1>3, <1>4 DEF Top

LEMMA EmptyWhole ==
    ASSUME stack' = <<>>, ResultsAreWhole'
    PROVE  WholeInv'
<1>1. Len(stack') = 0
  OBVIOUS
<1> QED
  BY <1>1, CallConstants DEF WholeInv, WholeStack

LEMMA FailWhole ==
    ASSUME Fail
    PROVE  WholeInv'
<1>1. reply'.is = "error"
  BY DEF Fail, Error, NoReply
<1> QED
  BY <1>1, EmptyWhole DEF Fail, ResultsAreWhole

LEMMA SetTopWhole ==
    ASSUME CallInv, WholeInv, stack # <<>>, NEW f, SetTop(f), UNCHANGED reply,
           f.cap = Top.cap, WholeFrame(f, RecursionLimit - Len(stack))
    PROVE  WholeInv'
<1>1. PICK S : stack \in Seq(S)
  BY DEF CallInv, Frames
<1> DEFINE n == Len(stack) - 1
<1>2. n \in Nat /\ n <= Len(stack) /\ Len(stack) = n + 1
  BY <1>1
<1>3. /\ SubSeq(stack, 1, n) \in Seq(S) /\ Len(SubSeq(stack, 1, n)) = n
      /\ \A i \in 1 .. n : SubSeq(stack, 1, n)[i] = stack[i]
  BY <1>1, <1>2, Popped
<1>4. stack' = Append(SubSeq(stack, 1, n), f)
  BY DEF SetTop, Rest
<1> HIDE DEF n
<1>5. /\ Len(stack') = n + 1 /\ stack'[n + 1] = f
      /\ \A i \in 1 .. n : stack'[i] = stack[i]
  <2> DEFINE s == SubSeq(stack, 1, n)
  <2>1. s \in Seq(S) /\ Len(s) = n /\ (\A i \in 1 .. n : s[i] = stack[i]) /\ stack' = Append(s, f)
    BY <1>3, <1>4
  <2> HIDE DEF s
  <2> QED
    BY <2>1, Pushed
<1>6. Top = stack[n + 1]
  BY <1>2 DEF Top
<1>7. RecursionLimit - (n + 1) = RecursionLimit - Len(stack)
  BY <1>2
<1>8. \A i \in 1 .. n + 1 : i # n + 1 => i \in 1 .. n
  BY <1>2
<1>9. \A i \in 1 .. n + 1 : WholeFrame(stack'[i], RecursionLimit - i)
  BY <1>2, <1>5, <1>7, <1>8 DEF WholeInv, WholeStack
<1>10. ASSUME NEW i \in 1 .. n
       PROVE  Calls_(stack'[i], stack'[i + 1])
  <2>1. Calls_(stack[i], stack[i + 1])
    BY <1>2 DEF WholeInv, WholeStack
  <2>2. stack'[i] = stack[i] /\ stack'[i + 1].cap = stack[i + 1].cap
    <3>1. CASE i = n
      BY <1>2, <1>5, <1>6, <3>1
    <3>2. CASE i # n
      BY <1>2, <1>5, <3>2
    <3> QED
      BY <3>1, <3>2
  <2> QED
    BY <2>1, <2>2 DEF Calls_
<1>11. Len(stack') <= RecursionLimit
  BY <1>2, <1>5 DEF WholeInv, WholeStack
<1>12. WholeStack(stack)'
  BY <1>2, <1>5, <1>9, <1>10, <1>11 DEF WholeStack
<1> QED
  BY <1>12 DEF WholeInv, ResultsAreWhole

LEMMA PushWhole ==
    ASSUME CallInv, WholeInv, NEW c \in Ids, stack' = Append(stack, Frame(c)),
           UNCHANGED reply, Len(stack) < RecursionLimit,
           stack # <<>> => Calls_(Top, Frame(c))
    PROVE  WholeInv'
<1>1. PICK S : stack \in Seq(S)
  BY DEF CallInv, Frames
<1> DEFINE n == Len(stack)
           f == Frame(c)
<1>2. n \in Nat
  BY <1>1
<1>3. WholeFrame(f, RecursionLimit - (n + 1))
  BY DEF WholeFrame, Frame
<1> HIDE DEF f
<1>4. /\ Len(stack') = n + 1 /\ stack'[n + 1] = f
      /\ \A i \in 1 .. n : stack'[i] = stack[i]
  BY <1>1, Pushed DEF f
<1>5. n > 0 => Calls_(stack[n], f)
  <2>1. n > 0 => stack # <<>>
    BY <1>1
  <2> QED
    BY <2>1 DEF Top, f
<1>6. \A i \in 1 .. n : WholeFrame(stack[i], RecursionLimit - i)
  BY DEF WholeInv, WholeStack
<1>7. \A i \in 1 .. n : i < n => Calls_(stack[i], stack[i + 1])
  BY DEF WholeInv, WholeStack
<1>8. n + 1 <= RecursionLimit
  BY <1>2, CallConstants
<1> HIDE DEF n
<1>9. \A i \in 1 .. n + 1 : WholeFrame(stack'[i], RecursionLimit - i)
  <2> TAKE i \in 1 .. n + 1
  <2>1. CASE i = n + 1
    BY <2>1, <1>3, <1>4
  <2>2. CASE i # n + 1
    <3>1. i \in 1 .. n
      BY <2>2, <1>2
    <3> QED
      BY <3>1, <1>4, <1>6
  <2> QED
    BY <2>1, <2>2
<1>10. ASSUME NEW i \in 1 .. n
       PROVE  Calls_(stack'[i], stack'[i + 1])
  <2>1. CASE i = n
    BY <1>2, <1>4, <1>5, <2>1
  <2>2. CASE i # n
    BY <1>2, <1>4, <1>7, <2>2
  <2> QED
    BY <2>1, <2>2
<1>11. WholeStack(stack)'
  BY <1>2, <1>4, <1>8, <1>9, <1>10 DEF WholeStack
<1> QED
  BY <1>11 DEF WholeInv, ResultsAreWhole

LEMMA DeliverWhole ==
    ASSUME CallInv, WholeInv, stack # <<>>, Top.cap \in Installed,
           NEW d, d = Meaning[RecursionLimit - Len(stack) + 1][Top.cap], Deliver(d)
    PROVE  WholeInv'
<1>1. PICK S : stack \in Seq(S) /\ \A g \in S : IsFrame(g)
  BY DEF CallInv, Frames
<1>2. Len(stack) \in Nat \ {0} /\ Len(stack) <= RecursionLimit
      /\ RecursionLimit \in Nat
  BY <1>1, CallConstants DEF WholeInv, WholeStack
<1>3. CASE Len(stack) = 1
  <2>1. stack' = <<>> /\ reply' = Value(Top.cap, d)
    BY <1>3 DEF Deliver
  <2>2. RecursionLimit - 1 + 1 = RecursionLimit
    BY <1>2
  <2>3. d = Meaning[RecursionLimit][Top.cap]
    BY <1>3, <2>2
  <2>4. ResultsAreWhole'
    BY <2>1, <2>3 DEF ResultsAreWhole, Value
  <2> QED
    BY <2>1, <2>4, EmptyWhole
<1>4. CASE Len(stack) # 1
  <2> DEFINE n == Len(stack) - 2
             g == stack[n + 1]
             f == [g EXCEPT !.per = Append(@, d), !.merged = Update(@, d)]
             l == RecursionLimit - (n + 1)
  <2>1. n \in Nat /\ n <= Len(stack) /\ Len(stack) = n + 2
    <3> DEFINE k == Len(stack)
    <3>1. k \in Nat /\ k # 0 /\ k # 1
      BY <1>2, <1>4
    <3> HIDE DEF k
    <3>2. k - 2 \in Nat /\ k - 2 <= k /\ k = (k - 2) + 2
      BY <3>1
    <3> QED
      BY <3>2 DEF k
  <2>2. stack' = Append(SubSeq(stack, 1, n), f) /\ UNCHANGED reply
    <3>1. Len(stack) - 1 = n + 1
      BY <2>1
    <3> QED
      BY <1>4, <3>1 DEF Deliver
  <2>3. /\ SubSeq(stack, 1, n) \in Seq(S) /\ Len(SubSeq(stack, 1, n)) = n
        /\ \A i \in 1 .. n : SubSeq(stack, 1, n)[i] = stack[i]
    BY <1>1, <2>1, Popped
  <2> HIDE DEF n
  <2>4. n + 1 \in 1 .. Len(stack) /\ n + 1 < Len(stack) /\ (n + 1) + 1 = Len(stack)
    BY <2>1
  <2>5. IsFrame(g) /\ g.pc = "parts"
    BY <2>4, StackTop
  <2>6. WholeFrame(g, l) /\ Calls_(g, Top)
    BY <2>4 DEF WholeInv, WholeStack, Top
  <2>7. l \in Nat /\ RecursionLimit - Len(stack) + 1 = l
    BY <1>2, <2>1
  <2>8. PICK m \in Nat : PartsDone(g, l, m)
    BY <2>5, <2>6 DEF WholeFrame
  <2>9. g.cap \in CompositeIds
    BY <2>5, <2>6 DEF WholeFrame
  <2>10. /\ f.cap = g.cap /\ f.pc = "parts"
         /\ f.per = Append(g.per, d) /\ f.merged = Update(g.merged, d)
    <3> DEFINE p == Append(g.per, d)
               u == Update(g.merged, d)
               e == [g EXCEPT !.per = p]
    <3>1. f = [g EXCEPT !.per = p, !.merged = u]
      OBVIOUS
    <3> HIDE DEF g, f, p, u
    <3>2. g = [cap |-> g.cap, pc |-> "parts", per |-> g.per, merged |-> g.merged]
      BY <2>5 DEF IsFrame
    <3>3. e = [cap |-> g.cap, pc |-> "parts", per |-> p, merged |-> g.merged]
      BY <3>2
    <3>4. f = [e EXCEPT !.merged = u]
      BY <3>1
    <3> HIDE DEF e
    <3>5. f = [cap |-> g.cap, pc |-> "parts", per |-> p, merged |-> u]
      BY <3>3, <3>4
    <3> QED
      BY <3>5 DEF p, u
  <2> HIDE DEF f, g, l
  <2>11. PartsDone(f, l, m + 1)
    <3>1. Len(g.per) = m
      BY <2>8, PerLength
    <3>2. m < Len(ExecutionOrder[g.cap]) /\ Top.cap = ExecutionOrder[g.cap][m + 1]
      BY <2>6, <3>1 DEF Calls_
    <3>3. d = Part(g, l, m + 1)
      BY <2>7, <3>2 DEF Part
    <3>4. IsDict(d)
      BY <2>7, MeaningIsDict
    <3> QED
      BY <2>8, <2>9, <2>10, <3>2, <3>3, <3>4, OneMorePart
  <2>12. WholeFrame(f, l)
    <3>1. m + 1 \in Nat
      OBVIOUS
    <3>2. f.cap \in Installed /\ f.cap \in Ids
      BY <2>9, <2>10 DEF Installed, Ids
    <3> QED
      BY <2>9, <2>10, <2>11, <3>1, <3>2 DEF WholeFrame
  <2>13. /\ Len(stack') = n + 1 /\ stack'[n + 1] = f
         /\ \A i \in 1 .. n : stack'[i] = stack[i]
    <3> DEFINE s == SubSeq(stack, 1, n)
    <3>1. s \in Seq(S) /\ Len(s) = n /\ (\A i \in 1 .. n : s[i] = stack[i]) /\ stack' = Append(s, f)
      BY <2>2, <2>3
    <3> HIDE DEF s
    <3> QED
      BY <3>1, Pushed
  <2>14. \A i \in 1 .. n : WholeFrame(stack[i], RecursionLimit - i)
    BY <2>1 DEF WholeInv, WholeStack
  <2>15. \A i \in 1 .. n : Calls_(stack[i], stack[i + 1])
    BY <2>1 DEF WholeInv, WholeStack
  <2>16. \A i \in 1 .. n + 1 : WholeFrame(stack'[i], RecursionLimit - i)
    <3> TAKE i \in 1 .. n + 1
    <3>1. CASE i = n + 1
      BY <3>1, <2>12, <2>13 DEF l
    <3>2. CASE i # n + 1
      <4>1. i \in 1 .. n
        BY <3>2, <2>1
      <4> QED
        BY <4>1, <2>13, <2>14
    <3> QED
      BY <3>1, <3>2
  <2>17. ASSUME NEW i \in 1 .. n
         PROVE  Calls_(stack'[i], stack'[i + 1])
    <3>1. CASE i = n
      <4>1. stack'[i] = stack[i] /\ stack'[i + 1].cap = stack[i + 1].cap
        BY <3>1, <2>10, <2>13 DEF g
      <4> QED
        BY <4>1, <2>15 DEF Calls_
    <3>2. CASE i # n
      BY <2>1, <2>13, <2>15, <3>2
    <3> QED
      BY <3>1, <3>2
  <2>18. WholeStack(stack)'
    BY <1>2, <2>1, <2>13, <2>16, <2>17 DEF WholeStack
  <2> QED
    BY <2>2, <2>18 DEF WholeInv, ResultsAreWhole
<1> QED
  BY <1>3, <1>4

-----------------------------------------------------------------------------
(* The steps of a call, again.                                             *)
LEMMA TopWhole ==
    ASSUME CallInv, WholeInv, stack # <<>>
    PROVE  /\ WholeFrame(Top, RecursionLimit - Len(stack))
           /\ RecursionLimit - Len(stack) \in Nat
           /\ IsFrame(Top)
<1>1. Len(stack) \in Nat \ {0} /\ Top = stack[Len(stack)] /\ IsFrame(Top)
  BY StackTop
<1>2. Len(stack) <= RecursionLimit /\ RecursionLimit \in Nat
  BY CallConstants DEF WholeInv, WholeStack
<1> QED
  BY <1>1, <1>2 DEF WholeInv, WholeStack

LEMMA EnterWhole ==
    ASSUME CallInv, WholeInv, NEW c, Enter(c)
    PROVE  WholeInv'
<1>1. CASE c \in Installed
  <2>1. stack = <<>> /\ stack' = Append(stack, Frame(c)) /\ c \in Ids /\ UNCHANGED reply
    BY <1>1 DEF Enter, Ids
  <2>2. Len(stack) < RecursionLimit
    BY <2>1, CallConstants
  <2> QED
    BY <2>1, <2>2, PushWhole
<1>2. CASE c \notin Installed
  <2>1. reply'.is = "error" /\ stack' = <<>>
    BY <1>2 DEF Enter, Error, NoReply
  <2> QED
    BY <2>1, EmptyWhole DEF ResultsAreWhole
<1> QED
  BY <1>1, <1>2

(* Top with its program counter set.                                       *)
LEMMA TopAt ==
    ASSUME CallInv, stack # <<>>, NEW p
    PROVE  LET f == [Top EXCEPT !.pc = p]
           IN  f.pc = p /\ f.cap = Top.cap /\ f.per = Top.per /\ f.merged = Top.merged
<1>1. IsFrame(Top)
  BY StackTop
<1> QED
  BY <1>1 DEF IsFrame

LEMMA AskWhole ==
    ASSUME CallInv, WholeInv, Ask
    PROVE  WholeInv'
<1>1. CASE Allowed(Top.cap, target)
  <2> DEFINE f == [Top EXCEPT !.pc = "go"]
  <2>1. stack # <<>> /\ Top.pc = "ask" /\ SetTop(f) /\ UNCHANGED reply
    BY <1>1 DEF Ask
  <2>2. f.pc = "go" /\ f.cap = Top.cap /\ f.per = Top.per /\ f.merged = Top.merged
    BY <2>1, TopAt
  <2>3. Top.cap \in Installed
    BY <1>1 DEF Allowed
  <2> HIDE DEF f
  <2>4. WholeFrame(f, RecursionLimit - Len(stack))
    BY <2>1, <2>2, <2>3, TopWhole DEF WholeFrame
  <2> QED
    BY <2>1, <2>2, <2>4, SetTopWhole
<1>2. CASE ~Allowed(Top.cap, target)
  BY <1>2, FailWhole DEF Ask
<1> QED
  BY <1>1, <1>2

LEMMA RunFunctionWhole ==
    ASSUME CallInv, WholeInv, RunFunction
    PROVE  WholeInv'
<1> DEFINE d == [k \in Output[Top.cap] |-> Top.cap]
<1>1. CASE Deliver(d)
  <2>1. stack # <<>> /\ Top.cap \in FunctionIds /\ Top.cap \in Installed
    BY DEF RunFunction, Installed
  <2>2. RecursionLimit - Len(stack) + 1 \in Nat
    BY <2>1, TopWhole
  <2>3. d = Meaning[RecursionLimit - Len(stack) + 1][Top.cap]
    BY <2>1, <2>2, MeaningOfFunction
  <2> HIDE DEF d
  <2> QED
    BY <1>1, <2>1, <2>3, DeliverWhole
<1>2. CASE Fail
  BY <1>2, FailWhole
<1> QED
  BY <1>1, <1>2 DEF RunFunction

LEMMA BeginCombinationWhole ==
    ASSUME CallInv, WholeInv, BeginCombination
    PROVE  WholeInv'
<1> DEFINE f == [Top EXCEPT !.pc = "parts"]
           l == RecursionLimit - Len(stack)
<1>1. stack # <<>> /\ Top.pc = "go" /\ Top.cap \in CompositeIds /\ SetTop(f) /\ UNCHANGED reply
  BY DEF BeginCombination
<1>2. f.pc = "parts" /\ f.cap = Top.cap /\ f.per = Top.per /\ f.merged = Top.merged
  BY <1>1, TopAt
<1>3. WholeFrame(Top, l)
  BY <1>1, TopWhole
<1> HIDE DEF f, l
<1>4. PartsDone(f, l, 0)
  BY <1>1, <1>2, <1>3, NoParts DEF WholeFrame
<1>5. WholeFrame(f, l)
  BY <1>1, <1>2, <1>3, <1>4 DEF WholeFrame
<1> QED
  BY <1>1, <1>2, <1>5, SetTopWhole DEF l

LEMMA InvokeComponentWhole ==
    ASSUME CallInv, WholeInv, InvokeComponent
    PROVE  WholeInv'
<1>1. CASE Len(stack) < RecursionLimit
  <2> DEFINE c == ExecutionOrder[Top.cap][Len(Top.per) + 1]
  <2>1. stack # <<>> /\ Top.pc = "parts" /\ Len(Top.per) < Len(ExecutionOrder[Top.cap])
        /\ stack' = Append(stack, Frame(c)) /\ UNCHANGED reply
    BY <1>1 DEF InvokeComponent
  <2>2. Top.cap \in CompositeIds /\ \E m \in Nat : PartsDone(Top, RecursionLimit - Len(stack), m)
    BY <2>1, TopWhole DEF WholeFrame
  <2>3. ExecutionOrder[Top.cap] \in Seq(Ids) /\ Len(Top.per) \in Nat
    BY <2>2, PerLength, CallConstants
  <2>4. c \in Ids
    BY <2>1, <2>3
  <2>5. Calls_(Top, Frame(c))
    BY <2>1 DEF Calls_, Frame
  <2> HIDE DEF c
  <2> QED
    BY <1>1, <2>1, <2>4, <2>5, PushWhole
<1>2. CASE ~(Len(stack) < RecursionLimit)
  BY <1>2, FailWhole DEF InvokeComponent
<1> QED
  BY <1>1, <1>2

LEMMA EndCombinationWhole ==
    ASSUME CallInv, WholeInv, EndCombination
    PROVE  WholeInv'
<1> DEFINE l == RecursionLimit - Len(stack)
<1>1. stack # <<>> /\ Top.pc = "parts" /\ Len(Top.per) = Len(ExecutionOrder[Top.cap])
      /\ Deliver(Combine(Top))
  BY DEF EndCombination
<1>2. l \in Nat /\ Top.cap \in CompositeIds /\ Top.cap \in Installed
      /\ \E m \in Nat : PartsDone(Top, l, m)
  BY <1>1, TopWhole DEF WholeFrame
<1>3. Combine(Top) = Meaning[l + 1][Top.cap]
  BY <1>1, <1>2, PerLength, CombineMeans
<1> DEFINE d == Combine(Top)
<1> HIDE DEF d
<1>4. Deliver(d) /\ d = Meaning[RecursionLimit - Len(stack) + 1][Top.cap]
  BY <1>1, <1>3 DEF d
<1> QED
  BY <1>1, <1>2, <1>4, DeliverWhole

LEMMA NextWhole == BitesInv /\ WholeInv /\ [Next]_vars => WholeInv'
<1> SUFFICES ASSUME BitesInv, WholeInv, [Next]_vars
             PROVE  WholeInv'
  OBVIOUS
<1>0. CallInv /\ (worker.call = 0 => stack = <<>>)
  BY DEF BitesInv, BetweenRuns
<1>1. ASSUME UNCHANGED <<stack, reply>>
      PROVE  WholeInv'
  BY <1>1 DEF WholeInv, WholeStack, ResultsAreWhole
<1>2. CASE \E h \in Handlers : Handle(h)
  BY <1>1, <1>2, HandlerStep DEF callVars, callState
<1>3. CASE StartRun \/ Resume
  <2>1. UNCHANGED stack /\ reply' = NoReply
    BY <1>3 DEF StartRun, Resume
  <2> QED
    BY <2>1 DEF WholeInv, WholeStack, ResultsAreWhole, NoReply
<1>4. CASE NextBatch \/ EndRun
  BY <1>1, <1>4 DEF NextBatch, EndRun, callVars, callState
<1>5. CASE CallTool
  BY <1>0, <1>5, EnterWhole DEF CallTool
<1>6. CASE Tool
  BY <1>0, <1>6, AskWhole, RunFunctionWhole, BeginCombinationWhole, InvokeComponentWhole,
     EndCombinationWhole DEF Tool, CallStep
<1>7. CASE EditAccess
  BY <1>1, <1>7 DEF EditAccess, Edit, callState
<1>8. CASE UNCHANGED vars
  BY <1>1, <1>8 DEF vars, callVars, callState
<1> QED
  BY <1>2, <1>3, <1>4, <1>5, <1>6, <1>7, <1>8 DEF Next, Work

(* A tool call that returns has returned all of what its capability means, *)
(* for combinations nested to any depth (_invoke_combination), whatever is *)
(* revoked, missing, or raises on the way.                                 *)
THEOREM ResultsAlwaysWhole == Spec => []ResultsAreWhole
<1>1. Init => WholeInv
  <2>0. NoReply.is = "none"
    BY DEF NoReply
  <2>1. Init => stack = <<>> /\ reply.is # "value"
    BY <2>0 DEF Init
  <2>2. stack = <<>> => WholeStack(stack)
    BY CallConstants DEF WholeStack
  <2> QED
    BY <2>1, <2>2 DEF WholeInv, ResultsAreWhole
<1>2. WholeInv => ResultsAreWhole
  BY DEF WholeInv
<1> QED
  BY <1>1, <1>2, InitBites, NextBites, NextWhole, PTL DEF Spec
-----------------------------------------------------------------------------
(* Sorted enumerates a finite set of numbers, each once and in order.      *)
Increasing(s, T) ==
    /\ s \in [1 .. Cardinality(T) -> T]
    /\ \A i, j \in 1 .. Cardinality(T) : i < j => s[i] < s[j]

LEMMA IncreasingExists ==
    \A n \in Nat : \A T \in SUBSET Nat :
      IsFiniteSet(T) /\ Cardinality(T) = n => \E s : Increasing(s, T)
<1> DEFINE D == {n \in Nat : \A T \in SUBSET Nat :
                   IsFiniteSet(T) /\ Cardinality(T) = n => \E s : Increasing(s, T)}
<1>1. 0 \in D
  <2> SUFFICES ASSUME NEW T \in SUBSET Nat, IsFiniteSet(T), Cardinality(T) = 0
               PROVE  \E s : Increasing(s, T)
    OBVIOUS
  <2> DEFINE s == [i \in 1 .. 0 |-> 0]
  <2>1. Increasing(s, T)
    BY DEF Increasing
  <2> QED
    BY <2>1
<1>2. ASSUME NEW n \in Nat, n \in D
      PROVE  n + 1 \in D
  <2> SUFFICES ASSUME NEW T \in SUBSET Nat, IsFiniteSet(T), Cardinality(T) = n + 1
               PROVE  \E s : Increasing(s, T)
    OBVIOUS
  <2>1. T # {}
    BY FS_EmptySet
  <2>2. PICK m \in T : \A k \in T : m <= k
    BY <2>1, LeastNat
  <2> DEFINE U == T \ {m}
  <2>3. IsFiniteSet(U) /\ Cardinality(U) = n
    BY FS_RemoveElement
  <2>4. PICK t : Increasing(t, U)
    BY <1>2, <2>3
  <2> DEFINE s == [i \in 1 .. n + 1 |-> IF i = 1 THEN m ELSE t[i - 1]]
  <2>5. t \in [1 .. n -> U] /\ \A i, j \in 1 .. n : i < j => t[i] < t[j]
    BY <2>3, <2>4 DEF Increasing
  <2>6. \A k \in U : m < k
    BY <2>2
  <2> HIDE DEF U
  <2>7. \A i \in 2 .. n + 1 : i - 1 \in 1 .. n /\ s[i] = t[i - 1] /\ s[i] \in U
    BY <2>5
  <2>8. s[1] = m /\ s \in [1 .. n + 1 -> T]
    <3>1. \A i \in 1 .. n + 1 : i = 1 \/ i \in 2 .. n + 1
      OBVIOUS
    <3>2. \A i \in 1 .. n + 1 : s[i] \in T
      BY <2>7, <3>1 DEF U
    <3> QED
      BY <3>2
  <2> HIDE DEF s
  <2>9. \A i, j \in 1 .. n + 1 : i < j => s[i] < s[j]
    <3> SUFFICES ASSUME NEW i \in 1 .. n + 1, NEW j \in 1 .. n + 1, i < j
                 PROVE  s[i] < s[j]
      OBVIOUS
    <3>1. j \in 2 .. n + 1 /\ s[j] = t[j - 1] /\ s[j] \in U
      BY <2>7
    <3>2. CASE i = 1
      BY <2>6, <2>8, <3>1, <3>2
    <3>3. CASE i # 1
      <4>1. i \in 2 .. n + 1 /\ i - 1 < j - 1
        BY <3>3
      <4>2. s[i] = t[i - 1] /\ i - 1 \in 1 .. n /\ j - 1 \in 1 .. n
        BY <2>7, <3>1, <4>1
      <4> QED
        BY <2>5, <3>1, <4>1, <4>2
    <3> QED
      BY <3>2, <3>3
  <2> QED
    BY <2>8, <2>9 DEF Increasing
<1>3. Nat \subseteq D
  BY <1>1, <1>2, Induction
<1> QED
  BY <1>3

LEMMA SortedEnumerates ==
    ASSUME NEW S, S \subseteq Nat, IsFiniteSet(S)
    PROVE  /\ Cardinality(S) \in Nat
           /\ Sorted(S) \in [1 .. Cardinality(S) -> S]
           /\ \A i, j \in 1 .. Cardinality(S) : i < j => Sorted(S)[i] < Sorted(S)[j]
           /\ \A x \in S : \E i \in 1 .. Cardinality(S) : Sorted(S)[i] = x
<1> DEFINE n == Cardinality(S)
           s == Sorted(S)
<1>1. n \in Nat
  BY FS_CardinalityType
<1>2. \E t \in [1 .. n -> S] : \A i, j \in DOMAIN t : i < j => t[i] < t[j]
  <2>1. PICK t : Increasing(t, S)
    BY <1>1, IncreasingExists
  <2>2. t \in [1 .. n -> S] /\ DOMAIN t = 1 .. n
    BY <2>1 DEF Increasing
  <2> QED
    BY <2>1, <2>2 DEF Increasing
<1>3. s \in [1 .. n -> S] /\ \A i, j \in DOMAIN s : i < j => s[i] < s[j]
  BY <1>2 DEF Sorted
<1>4. \A i, j \in 1 .. n : i < j => s[i] < s[j]
  BY <1>3
<1> HIDE DEF s
<1> DEFINE R == {s[i] : i \in 1 .. n}
<1>5. R \subseteq S
  BY <1>3
<1>6. s \in [1 .. n -> R]
  BY <1>3
<1>7. \A i, j \in 1 .. n : s[i] = s[j] => i = j
  <2> SUFFICES ASSUME NEW i \in 1 .. n, NEW j \in 1 .. n, s[i] = s[j], i # j
               PROVE  FALSE
    OBVIOUS
  <2>1. i < j \/ j < i
    BY <1>1
  <2>2. s[i] \in Nat /\ s[j] \in Nat
    BY <1>3
  <2> QED
    BY <1>1, <1>4, <2>1, <2>2
<1>8. s \in Bijection(1 .. n, R)
  BY <1>6, <1>7 DEF Bijection, Injection, IsInjective, Surjection
<1>9. IsFiniteSet(1 .. n) /\ Cardinality(1 .. n) = n
  BY <1>1, FS_Interval
<1>10. Cardinality(R) = n
  BY <1>8, <1>9, FS_Bijection DEF ExistsBijection
<1>11. R = S
  BY <1>5, <1>10, FS_Subset
<1> QED
  BY <1>1, <1>3, <1>4, <1>11 DEF s

LEMMA IndexIs ==
    ASSUME NEW ord \in Seq(Nat), NEW i, Listed(ord, i)
    PROVE  /\ Index(ord, i) \in 1 .. Len(ord) /\ ord[Index(ord, i)] = i
           /\ \A l \in 1 .. Len(ord) : ord[l] = i => l <= Index(ord, i)
<1> DEFINE T == {k \in 1 .. Len(ord) : ord[k] = i}
<1>1. DOMAIN ord = 1 .. Len(ord) /\ Len(ord) \in Nat
  OBVIOUS
<1>2. T \subseteq 1 .. Len(ord) /\ T # {}
  BY <1>1 DEF Listed
<1> HIDE DEF T
<1>3. PICK n \in T : \A m \in T : m <= n
  BY <1>1, <1>2, GreatestBelow
<1>4. \E k \in DOMAIN ord : ord[k] = i /\ \A l \in DOMAIN ord : ord[l] = i => l <= k
  BY <1>1, <1>3 DEF T
<1> QED
  BY <1>1, <1>4 DEF Index

LEMMA Joined ==
    ASSUME NEW S, NEW s \in Seq(S), NEW t \in Seq(S)
    PROVE  /\ s \o t \in Seq(S) /\ Len(s \o t) = Len(s) + Len(t)
           /\ \A k \in 1 .. Len(s) : (s \o t)[k] = s[k]
           /\ \A k \in 1 .. Len(t) : (s \o t)[Len(s) + k] = t[k]
  OBVIOUS

(* The manual run order has every workflow once: those the stored order    *)
(* names, where it names them last, and then the others by age.            *)
LEMMA ManualOrderIs ==
    ASSUME NEW S, S \subseteq Nat, IsFiniteSet(S), NEW ord \in Seq(Nat)
    PROVE  LET list == ManualOrder(S, ord)
           IN  /\ list \in Seq(S)
               /\ \A x \in S : \E k \in 1 .. Len(list) : list[k] = x
               /\ \A j, k \in 1 .. Len(list) : j < k => Before(ord, list[j], list[k])
<1> DEFINE L == {i \in S : \E k \in DOMAIN ord : ord[k] = i}
           P == {Index(ord, i) : i \in L}
           U == S \ L
           p == Sorted(P)
           n == Cardinality(P)
           b == Sorted(U)
           m == Cardinality(U)
           a == [k \in DOMAIN p |-> ord[p[k]]]
           list == ManualOrder(S, ord)
<1>1. DOMAIN ord = 1 .. Len(ord) /\ Len(ord) \in Nat
  OBVIOUS
<1>2. \A i \in L : Listed(ord, i)
  BY DEF Listed
<1>3. \A i \in S : i \in L <=> Listed(ord, i)
  BY DEF Listed
<1>4. list = a \o b
  BY DEF ManualOrder
<1>5. P \subseteq 1 .. Len(ord)
  BY <1>2, IndexIs
<1> HIDE DEF P
<1>6. IsFiniteSet(P) /\ P \subseteq Nat
  <2>1. IsFiniteSet(1 .. Len(ord)) /\ P \in SUBSET (1 .. Len(ord))
    BY <1>1, <1>5, FS_Interval
  <2>2. IsFiniteSet(P)
    BY <2>1, FS_Subset
  <2> QED
    BY <1>1, <1>5, <2>2
<1>7. IsFiniteSet(U) /\ U \subseteq Nat
  BY FS_Subset
<1> HIDE DEF U, L
<1>8. /\ n \in Nat /\ p \in [1 .. n -> P]
      /\ \A i, j \in 1 .. n : i < j => p[i] < p[j]
      /\ \A x \in P : \E i \in 1 .. n : p[i] = x
  BY <1>6, SortedEnumerates
<1>9. /\ m \in Nat /\ b \in [1 .. m -> U]
      /\ \A i, j \in 1 .. m : i < j => b[i] < b[j]
      /\ \A x \in U : \E i \in 1 .. m : b[i] = x
  BY <1>7, SortedEnumerates
<1> HIDE DEF n, m, p, b
<1>10. ASSUME NEW k \in 1 .. n
       PROVE  a[k] \in L /\ Index(ord, a[k]) = p[k]
  <2>1. PICK i \in L : p[k] = Index(ord, i)
    BY <1>8 DEF P
  <2>2. ord[p[k]] = i
    BY <1>2, <2>1, IndexIs
  <2>3. a[k] = i
    BY <1>8, <2>2
  <2> QED
    BY <2>1, <2>3
<1>11. DOMAIN a = 1 .. n
  BY <1>8
<1> HIDE DEF a
<1>12. a \in [1 .. n -> S] /\ b \in [1 .. m -> S]
  <2>1. a = [k \in 1 .. n |-> a[k]]
    BY <1>11 DEF a
  <2> QED
    BY <1>9, <1>10, <2>1 DEF L, U
<1>13. a \in Seq(S) /\ Len(a) = n /\ b \in Seq(S) /\ Len(b) = m
  BY <1>8, <1>9, <1>12, FcnIsSeq
<1> HIDE DEF list
<1>14. /\ list \in Seq(S) /\ Len(list) = n + m
       /\ \A k \in 1 .. n : list[k] = a[k]
       /\ \A k \in 1 .. m : list[n + k] = b[k]
  <2>1. /\ a \o b \in Seq(S) /\ Len(a \o b) = Len(a) + Len(b)
        /\ \A k \in 1 .. Len(a) : (a \o b)[k] = a[k]
        /\ \A k \in 1 .. Len(b) : (a \o b)[Len(a) + k] = b[k]
    <3>1. a \in Seq(S) /\ b \in Seq(S)
      BY <1>13
    <3> QED
      BY ONLY <3>1, Joined
  <2> QED
    BY <1>4, <1>13, <2>1
<1>15. ASSUME NEW x \in S
       PROVE  \E k \in 1 .. Len(list) : list[k] = x
  <2>1. CASE x \in L
    <3>1. Index(ord, x) \in P /\ ord[Index(ord, x)] = x
      BY <1>2, <2>1, IndexIs DEF P
    <3>2. PICK k \in 1 .. n : p[k] = Index(ord, x)
      BY <1>8, <3>1
    <3>3. a[k] = x
      BY <1>2, <1>10, <3>1, <3>2, IndexIs
    <3> QED
      BY <1>8, <1>9, <1>14, <3>3
  <2>2. CASE x \notin L
    <3>1. PICK k \in 1 .. m : b[k] = x
      BY <1>9, <2>2 DEF U
    <3>2. n + k \in 1 .. Len(list) /\ list[n + k] = x
      BY <1>8, <1>9, <1>14, <3>1
    <3> QED
      BY <3>2
  <2> QED
    BY <2>1, <2>2
<1>16. ASSUME NEW j \in 1 .. Len(list), NEW k \in 1 .. Len(list), j < k
       PROVE  Before(ord, list[j], list[k])
  <2>1. CASE k <= n
    <3>1. j \in 1 .. n /\ k \in 1 .. n
      BY <1>8, <1>16, <2>1
    <3>2. /\ list[j] \in L /\ list[k] \in L
          /\ Index(ord, list[j]) < Index(ord, list[k])
      <4>1. list[j] = a[j] /\ list[k] = a[k]
        BY <1>14, <3>1
      <4>2. /\ a[j] \in L /\ Index(ord, a[j]) = p[j]
            /\ a[k] \in L /\ Index(ord, a[k]) = p[k]
        BY <1>10, <3>1
      <4>3. p[j] < p[k]
        BY <1>8, <1>16, <3>1
      <4> QED
        BY ONLY <4>1, <4>2, <4>3
    <3>3. Listed(ord, list[j]) /\ Listed(ord, list[k])
      BY <1>2, <3>2
    <3>4. /\ Index(ord, list[k]) \in 1 .. Len(ord) /\ ord[Index(ord, list[k])] = list[k]
          /\ Index(ord, list[j]) \in 1 .. Len(ord)
          /\ \A l \in 1 .. Len(ord) : ord[l] = list[j] => l <= Index(ord, list[j])
      BY <3>3, IndexIs
    <3>5. \A l \in 1 .. Len(ord) : ord[l] = list[j] => l < Index(ord, list[k])
      BY <1>1, <3>2, <3>4
    <3> QED
      BY <1>1, <3>3, <3>4, <3>5 DEF Before
  <2>2. CASE j <= n /\ n < k
    <3>1. j \in 1 .. n /\ k - n \in 1 .. m /\ k = n + (k - n)
      BY <1>8, <1>9, <1>14, <2>2
    <3>2. list[j] \in L /\ list[k] \in U
      BY <1>9, <1>10, <1>14, <3>1, SMTT(60)
    <3> QED
      BY <1>2, <1>3, <3>2 DEF Before, U
  <2>3. CASE n < j
    <3>1. j - n \in 1 .. m /\ j = n + (j - n) /\ k - n \in 1 .. m /\ k = n + (k - n)
          /\ j - n < k - n
      BY <1>8, <1>9, <1>14, <1>16, <2>3
    <3> DEFINE x == j - n
               y == k - n
    <3>2. x \in 1 .. m /\ y \in 1 .. m /\ x < y /\ j = n + x /\ k = n + y
      BY <3>1
    <3> HIDE DEF x, y
    <3>3. list[j] = b[x] /\ list[k] = b[y]
      BY <1>14, <3>2
    <3>4. list[j] \in U /\ list[k] \in U /\ list[j] < list[k]
      BY <1>9, <3>2, <3>3
    <3> QED
      BY <1>3, <3>4 DEF Before, U
  <2> QED
    BY <1>8, <1>9, <1>14, <1>16, <2>1, <2>2, <2>3
<1> QED
  BY <1>14, <1>15, <1>16 DEF list

-----------------------------------------------------------------------------
(* Batches.  A list of run numbers covers the workflows W when they have a *)
(* run each, in the manual order and each on different targets.            *)
Covers(numbers, W, ord, runs_) ==
    /\ numbers \in Seq(1 .. Len(runs_))
    /\ \A k \in DOMAIN numbers : runs_[numbers[k]].workflow \in W
    /\ \A i \in W : \E k \in DOMAIN numbers : runs_[numbers[k]].workflow = i
    /\ \A k, l \in DOMAIN numbers : k < l =>
         \/ /\ runs_[numbers[k]].workflow = runs_[numbers[l]].workflow
            /\ runs_[numbers[k]].target # runs_[numbers[l]].target
         \/ Before(ord, runs_[numbers[k]].workflow, runs_[numbers[l]].workflow)

Filled(table_) == {i \in Eligible(table_) : table_[i].code \notin Blank}

IsTable(table_) == IsFiniteSet(DOMAIN table_) /\ DOMAIN table_ \subseteq Nat

IsRun(r) == r = [workflow |-> r.workflow, code |-> r.code, target |-> r.target,
                 status |-> r.status]

HandlerFields == {"pc", "op", "id", "row", "seen", "order", "list", "at", "made",
                  "failed", "start"}

IsHandler(x) == x = [f \in HandlerFields |-> x[f]]

(* The workflows a handler has submitted, of the first n of its list.      *)
SentOf(x, n) == {x.list[j] : j \in {k \in 1 .. n : x.seen[x.list[k]].code \notin Blank}}

(* Only an apply counts on before it submits.                              *)
Begins(x) ==
    \/ x.op = "apply"
    \/ /\ x.pc \notin {"tool", "scope", "folder", "eligible", "read", "applied"}
       /\ x.pc = "submit" \/ x.op \in {"create", "update"} \/ (x.at = 1 /\ x.made = <<>>)

(* A handler that submits has made the runs of the workflows it is past.   *)
Submitting(x, runs_) ==
    /\ IsTable(x.seen) /\ x.order \in Seq(Nat)
    /\ x.list = ManualOrder(Eligible(x.seen), x.order)
    /\ x.at \in 1 .. Len(x.list) + 1
    /\ Covers(x.made, SentOf(x, x.at - 1), x.order, runs_)

HandlerOK(x, runs_) ==
    /\ IsHandler(x) /\ Begins(x)
    /\ x.pc \in {"insert", "promote"} => x.id \in Nat
    /\ x.pc = "order" => IsTable(x.seen) /\ x.at = 1 /\ x.made = <<>>
    /\ x.pc = "submit" => Submitting(x, runs_)

HandlersOK ==
    /\ handler = [h \in Handlers |-> handler[h]]
    /\ \A h \in Handlers : HandlerOK(handler[h], runs)

TableOK == IsTable(rows) /\ order \in Seq(Nat) /\ stamps \in Nat

RunsOK == \E S : runs \in Seq(S) /\ \A r \in S : IsRun(r)

BatchesOK ==
    /\ \E S : batches \in Seq(S)
    /\ \A b \in 1 .. Len(batches) :
         Covers(batches[b].runs, Filled(batches[b].seen), batches[b].order, runs)

InBatch(r) == \E b \in DOMAIN batches : \E k \in DOMAIN batches[b].runs : batches[b].runs[k] = r

(* The worker is at a run of a batch, and what has begun is in one.        *)
WorkerOK ==
    /\ worker.at \in Nat \ {0}
    /\ worker.call > 0 =>
         worker.batch \in DOMAIN batches /\ worker.at \in DOMAIN batches[worker.batch].runs
    /\ \A r \in DOMAIN runs : runs[r].status # "pending" => InBatch(r)

BatchInv == HandlersOK /\ TableOK /\ RunsOK /\ BatchesOK /\ WorkerOK

(* Runs are only added, and of those that are there only the status changes. *)
Grows(rs, rt) ==
    /\ Len(rs) \in Nat /\ Len(rt) \in Nat /\ Len(rs) <= Len(rt)
    /\ \A r \in 1 .. Len(rs) : rt[r].workflow = rs[r].workflow /\ rt[r].target = rs[r].target

LEMMA CoversStays ==
    ASSUME NEW rs, NEW rt, Grows(rs, rt), NEW numbers, NEW W, NEW ord,
           Covers(numbers, W, ord, rs)
    PROVE  Covers(numbers, W, ord, rt)
<1>1. numbers \in Seq(1 .. Len(rs))
  BY DEF Covers
<1>2. \A k \in DOMAIN numbers : numbers[k] \in 1 .. Len(rs)
  BY <1>1
<1>3. \A k \in DOMAIN numbers : /\ rt[numbers[k]].workflow = rs[numbers[k]].workflow
                                /\ rt[numbers[k]].target = rs[numbers[k]].target
  BY <1>2 DEF Grows
<1>4. 1 .. Len(rs) \subseteq 1 .. Len(rt)
  BY DEF Grows
<1>5. numbers \in Seq(1 .. Len(rt))
  BY <1>1, <1>4
<1> QED
  BY <1>3, <1>5 DEF Covers

LEMMA HandlerStays ==
    ASSUME NEW rs, NEW rt, Grows(rs, rt), NEW x, HandlerOK(x, rs)
    PROVE  HandlerOK(x, rt)
<1>1. x.pc = "submit" => Submitting(x, rt)
  BY CoversStays DEF HandlerOK, Submitting
<1> QED
  BY <1>1 DEF HandlerOK

LEMMA SetHandler ==
    ASSUME HandlersOK, NEW h \in Handlers, NEW x, Set(h, x), HandlerOK(x, runs'),
           Grows(runs, runs')
    PROVE  HandlersOK'
<1>1. handler' = [handler EXCEPT ![h] = x] /\ handler = [g \in Handlers |-> handler[g]]
  BY DEF Set, HandlersOK
<1>2. handler' = [g \in Handlers |-> IF g = h THEN x ELSE handler[g]]
  BY <1>1
<1>3. handler' = [g \in Handlers |-> handler'[g]]
  BY <1>2
<1>4. ASSUME NEW g \in Handlers
      PROVE  HandlerOK(handler'[g], runs')
  <2>1. CASE g = h
    BY <1>2, <2>1
  <2>2. CASE g # h
    BY <1>2, <2>2, HandlerStays DEF HandlersOK
  <2> QED
    BY <2>1, <2>2
<1> QED
  BY <1>3, <1>4 DEF HandlersOK

LEMMA KeepHandlers ==
    ASSUME HandlersOK, handler' = handler, Grows(runs, runs')
    PROVE  HandlersOK'
  BY HandlerStays DEF HandlersOK

LEMMA RunsStay ==
    ASSUME RunsOK, runs' = runs
    PROVE  Grows(runs, runs') /\ RunsOK'
  BY DEF RunsOK, Grows

LEMMA BatchesStay ==
    ASSUME BatchesOK, batches' = batches, Grows(runs, runs')
    PROVE  BatchesOK'
  BY CoversStays DEF BatchesOK

LEMMA WorkerStays ==
    ASSUME WorkerOK, UNCHANGED engine
    PROVE  WorkerOK'
  BY DEF WorkerOK, InBatch, engine

-----------------------------------------------------------------------------
(* What the steps of a handler make of its record.                         *)
Elsewhere(x) ==
    IsHandler(x) /\ Begins(x) /\ x.pc \notin {"insert", "promote", "order", "submit"}

LEMMA ElsewhereOK ==
    ASSUME NEW x, Elsewhere(x), NEW rs
    PROVE  HandlerOK(x, rs)
  BY DEF Elsewhere, HandlerOK

LEMMA IdleIs ==
    IsHandler(Idle) /\ Idle.pc = "idle" /\ Idle.at = 1 /\ Idle.made = <<>> /\ Idle.op = "list"
  BY DEF IsHandler, HandlerFields, Idle

LEMMA IdleElsewhere == Elsewhere(Idle)
  BY IdleIs DEF Elsewhere, Begins

LEMMA GotoIs ==
    ASSUME NEW x, IsHandler(x), NEW p
    PROVE  LET y == [x EXCEPT !.pc = p]
           IN  /\ IsHandler(y) /\ y.pc = p /\ y.op = x.op
               /\ y.at = x.at /\ y.made = x.made
  BY DEF IsHandler, HandlerFields

LEMMA FailedIs ==
    ASSUME NEW x, IsHandler(x)
    PROVE  LET y == [x EXCEPT !.failed = TRUE] IN IsHandler(y) /\ y.op = x.op
  BY DEF IsHandler, HandlerFields

LEMMA NextSpecElsewhere ==
    ASSUME NEW x, IsHandler(x), x.op = "apply"
    PROVE  Elsewhere(NextSpec(x))
<1> DEFINE p == IF x.at < Len(Blueprint.workflows) THEN "count" ELSE "applied"
           n == x.at + 1
<1>1. NextSpec(x) = [x EXCEPT !.at = n, !.pc = p]
  BY DEF NextSpec, IsHandler, HandlerFields
<1>2. p \in {"count", "applied"}
  OBVIOUS
<1> HIDE DEF p, n
<1>3. IsHandler(NextSpec(x)) /\ NextSpec(x).pc = p /\ NextSpec(x).op = x.op
  BY <1>1 DEF IsHandler, HandlerFields
<1> QED
  BY <1>2, <1>3 DEF Elsewhere, Begins

LEMMA AfterToolElsewhere ==
    ASSUME NEW x, IsHandler(x), x.op = "apply"
    PROVE  Elsewhere(AfterTool(x))
<1> DEFINE p == IF x.at < Len(Blueprint.tools) THEN "tool" ELSE "folder"
           n == IF x.at < Len(Blueprint.tools) THEN x.at + 1 ELSE 1
<1>1. AfterTool(x) = [x EXCEPT !.at = n, !.pc = p]
  BY DEF AfterTool, IsHandler, HandlerFields
<1>2. p \in {"tool", "folder"}
  OBVIOUS
<1> HIDE DEF p, n
<1>3. IsHandler(AfterTool(x)) /\ AfterTool(x).pc = p /\ AfterTool(x).op = x.op
  BY <1>1 DEF IsHandler, HandlerFields
<1> QED
  BY <1>2, <1>3 DEF Elsewhere, Begins

LEMMA AfterFolderElsewhere ==
    ASSUME NEW x, IsHandler(x), x.op = "apply"
    PROVE  Elsewhere(AfterFolder(x))
<1> DEFINE p == IF Blueprint.workflows = <<>> THEN "applied" ELSE "count"
<1>1. AfterFolder(x) = [x EXCEPT !.at = 1, !.pc = p]
  BY DEF AfterFolder
<1>2. p \in {"count", "applied"}
  OBVIOUS
<1> HIDE DEF p
<1>3. IsHandler(AfterFolder(x)) /\ AfterFolder(x).pc = p /\ AfterFolder(x).op = x.op
  BY <1>1 DEF IsHandler, HandlerFields
<1> QED
  BY <1>2, <1>3 DEF Elsewhere, Begins

(* The steps that neither list, submit nor dispatch.                       *)
LEMMA RequestHandler ==
    ASSUME HandlersOK, TableOK, RunsOK, NEW h \in Handlers,
           Read(h) \/ Create(h) \/ Change(h) \/ Delete(h) \/ SetOrder(h) \/ Apply(h)
    PROVE  HandlersOK'
<1>1. UNCHANGED engine
  BY DEF Read, Create, Change, Delete, SetOrder, Apply, Request
<1>2. Grows(runs, runs')
  BY <1>1, RunsStay DEF engine
<1>3. CASE Read(h)
  <2>1. PICK op \in {"list", "run"} : Set(h, [Idle EXCEPT !.pc = "count", !.op = op])
    BY <1>3 DEF Read
  <2> DEFINE x == [Idle EXCEPT !.pc = "count", !.op = op]
  <2>2. IsHandler(x) /\ x.pc = "count" /\ x.at = 1 /\ x.made = <<>>
    BY IdleIs DEF IsHandler, HandlerFields
  <2>3. Set(h, x)
    BY <2>1
  <2> HIDE DEF x
  <2>4. HandlerOK(x, runs')
    BY <2>2, ElsewhereOK DEF Elsewhere, Begins
  <2> QED
    BY <1>2, <2>3, <2>4, SetHandler
<1>4. CASE Create(h)
  <2>1. PICK f \in Forms :
          Set(h, [Idle EXCEPT !.pc = "insert", !.op = "create", !.id = stamps + 1,
                              !.row = New(f[1], f[2])])
    BY <1>4 DEF Create
  <2> DEFINE row == New(f[1], f[2])
             x == [Idle EXCEPT !.pc = "insert", !.op = "create", !.id = stamps + 1,
                               !.row = row]
  <2>2. Set(h, x)
    BY <2>1
  <2> HIDE DEF row
  <2>3. IsHandler(x) /\ x.pc = "insert" /\ x.id = stamps + 1 /\ x.op = "create"
    BY IdleIs DEF IsHandler, HandlerFields
  <2> HIDE DEF x
  <2>4. HandlerOK(x, runs')
    BY <2>3 DEF HandlerOK, TableOK, Begins
  <2> QED
    BY <1>2, <2>2, <2>4, SetHandler
<1>5. CASE Change(h)
  <2>1. PICK i \in DOMAIN rows, p \in Patches :
          Set(h, [Idle EXCEPT !.pc = "write", !.op = "update", !.id = i,
                              !.row = Patched(p, Entry(rows[i]))])
    BY <1>5 DEF Change
  <2> DEFINE row == Patched(p, Entry(rows[i]))
             x == [Idle EXCEPT !.pc = "write", !.op = "update", !.id = i, !.row = row]
  <2>2. Set(h, x)
    BY <2>1
  <2> HIDE DEF row
  <2>3. IsHandler(x) /\ x.pc = "write" /\ x.op = "update"
    BY IdleIs DEF IsHandler, HandlerFields
  <2> HIDE DEF x
  <2>4. HandlerOK(x, runs')
    BY <2>3, ElsewhereOK DEF Elsewhere, Begins
  <2> QED
    BY <1>2, <2>2, <2>4, SetHandler
<1>6. CASE Delete(h) \/ SetOrder(h)
  <2>1. handler' = handler
    BY <1>6 DEF Delete, SetOrder
  <2> QED
    BY <1>2, <2>1, KeepHandlers
<1>7. CASE Apply(h)
  <2> DEFINE c == Configuration
             x == [Idle EXCEPT !.pc = "tool", !.op = "apply", !.start = c]
  <2>1. Set(h, x)
    BY <1>7 DEF Apply
  <2> HIDE DEF c
  <2>2. IsHandler(x) /\ x.pc = "tool" /\ x.op = "apply"
    BY IdleIs DEF IsHandler, HandlerFields
  <2> HIDE DEF x
  <2>3. HandlerOK(x, runs')
    BY <2>2, ElsewhereOK DEF Elsewhere, Begins
  <2> QED
    BY <1>2, <2>1, <2>3, SetHandler
<1> QED
  BY <1>3, <1>4, <1>5, <1>6, <1>7

LEMMA GotoOK ==
    ASSUME HandlersOK, RunsOK, runs' = runs, NEW h \in Handlers, NEW p, Goto(h, p),
           \/ p = "list" /\ handler[h].pc # "submit"
           \/ p \in {"scope", "eligible"} /\ handler[h].op = "apply"
    PROVE  HandlersOK'
<1> DEFINE x == [handler[h] EXCEPT !.pc = p]
<1>1. Set(h, x)
  BY DEF Goto
<1>2. IsHandler(handler[h]) /\ Begins(handler[h])
  BY DEF HandlersOK, HandlerOK
<1>3. /\ IsHandler(x) /\ x.pc = p /\ x.op = handler[h].op
      /\ x.at = handler[h].at /\ x.made = handler[h].made
  BY <1>2, GotoIs
<1> HIDE DEF x
<1>4. Begins(x)
  BY <1>2, <1>3 DEF Begins
<1>5. HandlerOK(x, runs')
  BY <1>3, <1>4, ElsewhereOK DEF Elsewhere
<1> QED
  BY <1>1, <1>5, RunsStay, SetHandler

LEMMA SetElsewhere ==
    ASSUME HandlersOK, RunsOK, runs' = runs, NEW h \in Handlers, NEW x, Set(h, x),
           Elsewhere(x)
    PROVE  HandlersOK'
  BY ElsewhereOK, RunsStay, SetHandler

LEMMA DoneOK ==
    ASSUME HandlersOK, RunsOK, runs' = runs, NEW h \in Handlers, Done(h)
    PROVE  HandlersOK'
<1>1. IsHandler(handler[h])
  BY DEF HandlersOK, HandlerOK
<1>2. (handler[h].op = "apply" /\ Set(h, NextSpec(handler[h]))) \/ Set(h, Idle)
  BY DEF Done
<1> QED
  BY <1>1, <1>2, IdleElsewhere, NextSpecElsewhere, SetElsewhere

LEMMA TableHandler ==
    ASSUME HandlersOK, TableOK, RunsOK, NEW h \in Handlers,
           CountRows(h) \/ Promote(h) \/ Insert(h) \/ Write(h)
    PROVE  HandlersOK'
<1>0. runs' = runs /\ IsHandler(handler[h]) /\ Begins(handler[h])
  BY DEF CountRows, Promote, Insert, Write, engine, HandlersOK, HandlerOK
<1>1. CASE CountRows(h)
  <2>0. handler[h].pc = "count"
    BY <1>1 DEF CountRows, At
  <2>1. CASE Goto(h, "list")
    BY <1>0, <2>0, <2>1, GotoOK
  <2>2. CASE ~Goto(h, "list")
    <3> DEFINE row == New("Workflow", Legacy)
               x == [handler[h] EXCEPT !.pc = "promote", !.id = stamps + 1, !.row = row]
    <3>1. Set(h, x)
      BY <1>1, <2>2 DEF CountRows
    <3> HIDE DEF row
    <3>2. /\ IsHandler(x) /\ x.pc = "promote" /\ x.id = stamps + 1
          /\ x.op = handler[h].op /\ x.at = handler[h].at /\ x.made = handler[h].made
      BY <1>0 DEF IsHandler, HandlerFields
    <3> HIDE DEF x
    <3>3. Begins(x)
      BY <1>0, <2>0, <3>2 DEF Begins
    <3>4. HandlerOK(x, runs')
      BY <3>2, <3>3 DEF HandlerOK, TableOK
    <3> QED
      BY <1>0, <3>1, <3>4, RunsStay, SetHandler
  <2> QED
    BY <2>1, <2>2
<1>2. CASE Promote(h)
  <2>1. Goto(h, "list") /\ handler[h].pc # "submit"
    BY <1>2 DEF Promote, At
  <2> QED
    BY <1>0, <2>1, GotoOK
<1>3. CASE Insert(h)
  <2>1. Done(h)
    BY <1>3 DEF Insert
  <2> QED
    BY <1>0, <2>1, DoneOK
<1>4. CASE Write(h)
  <2>1. CASE Done(h)
    BY <1>0, <2>1, DoneOK
  <2>2. CASE Set(h, Idle)
    BY <1>0, <2>2, IdleElsewhere, SetElsewhere
  <2>3. CASE handler[h].op = "apply" /\ Set(h, NextSpec([handler[h] EXCEPT !.failed = TRUE]))
    BY <1>0, <2>3, FailedIs, NextSpecElsewhere, SetElsewhere
  <2> QED
    BY <1>4, <2>1, <2>2, <2>3 DEF Write
<1> QED
  BY <1>1, <1>2, <1>3, <1>4

LEMMA ApplyHandler ==
    ASSUME HandlersOK, RunsOK, NEW h \in Handlers,
           ApplyTool(h) \/ ApplyScope(h) \/ ApplyFolder(h) \/ ApplyEligible(h)
    PROVE  HandlersOK'
<1> DEFINE x == handler[h]
           y == [x EXCEPT !.failed = TRUE]
<1>0. runs' = runs /\ IsHandler(x) /\ IsHandler(y) /\ x.op = "apply" /\ y.op = "apply"
  <2>1. IsHandler(x) /\ x.op = "apply"
    BY DEF HandlersOK, HandlerOK, Begins, ApplyTool, ApplyScope, ApplyFolder,
           ApplyEligible, At
  <2>2. runs' = runs
    BY DEF ApplyTool, ApplyScope, ApplyFolder, ApplyEligible, Applies, engine
  <2> QED
    BY <2>1, <2>2, FailedIs
<1>1. \/ Goto(h, "scope") \/ Set(h, [x EXCEPT !.pc = "eligible"])
      \/ Set(h, AfterTool(x)) \/ Set(h, AfterTool(y))
      \/ Set(h, AfterFolder(x)) \/ Set(h, AfterFolder(y))
  BY DEF ApplyTool, ApplyScope, ApplyFolder, ApplyEligible
<1>2. Set(h, [x EXCEPT !.pc = "eligible"]) => Goto(h, "eligible")
  BY DEF Goto
<1>3. handler[h].op = "apply"
  BY <1>0
<1> HIDE DEF x, y
<1> QED
  BY <1>0, <1>1, <1>2, <1>3, GotoOK, AfterToolElsewhere, AfterFolderElsewhere, SetElsewhere

LEMMA WorkflowHandler ==
    ASSUME HandlersOK, TableOK, RunsOK, NEW h \in Handlers,
           ApplyWorkflow(h) \/ ReadMatch(h) \/ Applied(h)
    PROVE  HandlersOK'
<1> DEFINE x == handler[h]
           spec == Blueprint.workflows[x.at]
<1>0. runs' = runs /\ IsHandler(x)
  BY DEF ApplyWorkflow, ReadMatch, Applied, engine, HandlersOK, HandlerOK
<1>4. ApplyWorkflow(h) \/ ReadMatch(h) => x.op = "apply"
  BY DEF ApplyWorkflow, ReadMatch, At, HandlersOK, HandlerOK, Begins
<1>1. CASE ApplyWorkflow(h)
  <2>1. CASE Named(spec.name) = {}
    <3> DEFINE row == Patched(spec, New(spec.name, spec.code))
               y == [x EXCEPT !.pc = "insert", !.id = stamps + 1, !.row = row]
    <3>1. Set(h, y)
      BY <1>1, <2>1 DEF ApplyWorkflow
    <3> HIDE DEF row, x
    <3>2. IsHandler(y) /\ y.pc = "insert" /\ y.id = stamps + 1 /\ y.op = "apply"
      BY <1>0, <1>1, <1>4 DEF IsHandler, HandlerFields
    <3> HIDE DEF y
    <3>3. HandlerOK(y, runs')
      BY <3>2 DEF HandlerOK, TableOK, Begins
    <3> QED
      BY <1>0, <3>1, <3>3, RunsStay, SetHandler
  <2>2. CASE Named(spec.name) # {}
    <3> DEFINE i == Sorted(Named(spec.name))[1]
               y == [x EXCEPT !.pc = "read", !.id = i]
    <3>1. Set(h, y)
      BY <1>1, <2>2 DEF ApplyWorkflow
    <3> HIDE DEF i, x
    <3>2. IsHandler(y) /\ y.pc = "read" /\ y.op = "apply"
      BY <1>0, <1>1, <1>4 DEF IsHandler, HandlerFields
    <3> HIDE DEF y
    <3> QED
      BY <1>0, <3>1, <3>2, SetElsewhere DEF Elsewhere, Begins
  <2> QED
    BY <2>1, <2>2
<1>2. CASE ReadMatch(h)
  <2>1. CASE x.id \in DOMAIN rows
    <3> DEFINE row == Patched(spec, Entry(rows[x.id]))
               y == [x EXCEPT !.pc = "write", !.row = row]
    <3>1. Set(h, y)
      BY <1>2, <2>1 DEF ReadMatch
    <3> HIDE DEF row, x
    <3>2. IsHandler(y) /\ y.pc = "write" /\ y.op = "apply"
      BY <1>0, <1>2, <1>4 DEF IsHandler, HandlerFields
    <3> HIDE DEF y
    <3> QED
      BY <1>0, <3>1, <3>2, SetElsewhere DEF Elsewhere, Begins
  <2>2. CASE x.id \notin DOMAIN rows
    <3>1. Set(h, NextSpec([x EXCEPT !.failed = TRUE]))
      BY <1>2, <2>2 DEF ReadMatch
    <3> HIDE DEF x
    <3> QED
      BY <1>0, <1>2, <1>4, <3>1, FailedIs, NextSpecElsewhere, SetElsewhere
  <2> QED
    BY <2>1, <2>2
<1>3. CASE Applied(h)
  <2>1. Set(h, Idle)
    BY <1>3 DEF Applied
  <2> QED
    BY <1>0, <2>1, IdleElsewhere, SetElsewhere
<1> QED
  BY <1>1, <1>2, <1>3

(* Listing: what is submitted is the manual order of what was read.        *)
LEMMA ListHandler ==
    ASSUME HandlersOK, TableOK, RunsOK, NEW h \in Handlers, List(h) \/ ReadOrder(h)
    PROVE  HandlersOK'
<1> DEFINE x == handler[h]
<1>0. runs' = runs /\ IsHandler(x) /\ HandlerOK(x, runs) /\ Begins(x)
  BY DEF List, ReadOrder, engine, HandlersOK, HandlerOK
<1>1. CASE List(h)
  <2>1. CASE Set(h, Idle)
    BY <1>0, <2>1, IdleElsewhere, SetElsewhere
  <2>2. CASE ~Set(h, Idle)
    <3> DEFINE y == [x EXCEPT !.pc = "order", !.seen = rows]
    <3>1. Set(h, y) /\ x.pc = "list" /\ x.op \in {"list", "run"}
      BY <1>1, <2>2 DEF List, At
    <3> HIDE DEF x
    <3>2. /\ IsHandler(y) /\ y.pc = "order" /\ y.seen = rows
          /\ y.op = x.op /\ y.at = x.at /\ y.made = x.made
      BY <1>0 DEF IsHandler, HandlerFields
    <3> HIDE DEF y
    <3>3. Begins(y) /\ x.at = 1 /\ x.made = <<>>
      BY <1>0, <3>1, <3>2 DEF Begins
    <3>4. HandlerOK(y, runs')
      BY <3>2, <3>3 DEF HandlerOK, TableOK
    <3> QED
      BY <1>0, <3>1, <3>4, RunsStay, SetHandler
  <2> QED
    BY <2>1, <2>2
<1>2. CASE ReadOrder(h)
  <2> DEFINE list == ManualOrder(Eligible(x.seen), order)
             y == [x EXCEPT !.pc = "submit", !.order = order, !.list = list]
  <2>1. Set(h, y) /\ x.pc = "order"
    BY <1>2 DEF ReadOrder, At
  <2>2. IsTable(x.seen) /\ order \in Seq(Nat)
    BY <1>0, <2>1 DEF HandlerOK, TableOK
  <2> HIDE DEF x
  <2>3. Eligible(x.seen) \subseteq DOMAIN x.seen
    BY DEF Eligible
  <2>4. list \in Seq(Eligible(x.seen))
    BY <2>2, <2>3, FS_Subset, ManualOrderIs DEF IsTable
  <2>5. Len(list) \in Nat
    BY <2>4
  <2> HIDE DEF list
  <2>6. /\ IsHandler(y) /\ y.pc = "submit" /\ y.order = order /\ y.list = list
        /\ y.seen = x.seen /\ y.at = x.at /\ y.made = x.made
    BY <1>0 DEF IsHandler, HandlerFields
  <2> HIDE DEF y
  <2>7. x.at = 1 /\ x.made = <<>>
    BY <1>0, <2>1 DEF HandlerOK
  <2>8. Covers(y.made, SentOf(y, y.at - 1), y.order, runs)
    <3>1. SentOf(y, 0) = {}
      BY DEF SentOf
    <3> QED
      BY <2>6, <2>7, <3>1 DEF Covers
  <2>9. Submitting(y, runs)
    BY <2>2, <2>5, <2>6, <2>7, <2>8 DEF Submitting, list
  <2>10. HandlerOK(y, runs')
    BY <1>0, <2>6, <2>9 DEF HandlerOK, Begins
  <2> QED
    BY <1>0, <2>1, <2>10, RunsStay, SetHandler
<1> QED
  BY <1>1, <1>2

-----------------------------------------------------------------------------
(* Submitting: the runs of one more workflow.                              *)
LEMMA SentMore ==
    ASSUME NEW x, NEW n \in Nat, n + 1 <= Len(x.list), Len(x.list) \in Nat
    PROVE  SentOf(x, n + 1) =
             IF x.seen[x.list[n + 1]].code \in Blank THEN SentOf(x, n)
             ELSE SentOf(x, n) \cup {x.list[n + 1]}
<1>1. 1 .. n + 1 = (1 .. n) \cup {n + 1}
  OBVIOUS
<1> QED
  BY <1>1 DEF SentOf

LEMMA ResolvedIs ==
    ASSUME NEW row
    PROVE  Resolved(row) \subseteq Nat /\ IsFiniteSet(Resolved(row))
<1>1. Resolved(row) \in SUBSET Targets
  <2>1. Explicit \subseteq Targets
    BY WorkflowConstants
  <2> QED
    BY <2>1 DEF Resolved, Visible
<1> QED
  BY <1>1, WorkflowConstants, FS_Subset

(* The runs of workflow i on the targets T, after those that are there.    *)
NewRuns(i, c, ts) == [k \in DOMAIN ts |->
    [workflow |-> i, code |-> c, target |-> ts[k], status |-> "pending"]]

LEMMA CoversMore ==
    ASSUME NEW rs, NEW S, rs \in Seq(S), NEW numbers, NEW W, NEW ord,
           Covers(numbers, W, ord, rs), NEW T, T \subseteq Nat, IsFiniteSet(T), T # {},
           NEW i, NEW c, \A j \in W : Before(ord, j, i)
    PROVE  LET ts == Sorted(T)
               rt == rs \o NewRuns(i, c, ts)
           IN  /\ Grows(rs, rt)
               /\ Covers(numbers \o [k \in DOMAIN ts |-> Len(rs) + k], W \cup {i}, ord, rt)
               /\ \E R : NewRuns(i, c, ts) \in Seq(R) /\ \A r \in R : IsRun(r)
<1> DEFINE ts == Sorted(T)
           m == Cardinality(T)
           n == Len(rs)
           new == NewRuns(i, c, ts)
           rt == rs \o new
           add == [k \in DOMAIN ts |-> n + k]
           all == numbers \o add
           p == Len(numbers)
           R == {[workflow |-> i, code |-> c, target |-> t, status |-> "pending"] : t \in T}
<1>1. /\ m \in Nat /\ ts \in [1 .. m -> T]
      /\ \A k, l \in 1 .. m : k < l => ts[k] < ts[l]
      /\ \A x \in T : \E k \in 1 .. m : ts[k] = x
  BY SortedEnumerates
<1> HIDE DEF ts
<1>2. m > 0
  <2>1. m # 0
    BY FS_EmptySet
  <2> QED
    BY <1>1, <2>1
<1> HIDE DEF m
<1>3. DOMAIN ts = 1 .. m
  BY <1>1
<1>4. \A k \in 1 .. m : new[k] = [workflow |-> i, code |-> c, target |-> ts[k],
                                 status |-> "pending"]
  BY <1>3 DEF NewRuns
<1>5. new \in [1 .. m -> R]
  BY <1>1, <1>3 DEF NewRuns
<1>6. \A r \in R : IsRun(r)
  BY DEF IsRun
<1> HIDE DEF new, R
<1>7. ASSUME NEW k \in 1 .. m
      PROVE  new[k].workflow = i /\ new[k].target = ts[k]
  <2> DEFINE t == ts[k]
  <2>1. new[k] = [workflow |-> i, code |-> c, target |-> t, status |-> "pending"]
    BY <1>4
  <2> HIDE DEF t
  <2>2. new[k].workflow = i /\ new[k].target = t
    BY <2>1
  <2> QED
    BY <2>2 DEF t
<1>8. new \in Seq(R) /\ Len(new) = m
  BY <1>1, <1>5, FcnIsSeq
<1>9. rs \in Seq(S \cup R) /\ new \in Seq(S \cup R) /\ n \in Nat
  BY <1>8
<1>10. /\ Len(rt) = n + m
       /\ \A k \in 1 .. n : rt[k] = rs[k]
       /\ \A k \in 1 .. m : rt[n + k] = new[k]
  <2>1. /\ Len(rs \o new) = Len(rs) + Len(new)
        /\ \A k \in 1 .. Len(rs) : (rs \o new)[k] = rs[k]
        /\ \A k \in 1 .. Len(new) : (rs \o new)[Len(rs) + k] = new[k]
    BY <1>9, Joined
  <2> QED
    BY <1>8, <2>1
<1> HIDE DEF rt
<1>11. Grows(rs, rt)
  BY <1>1, <1>9, <1>10 DEF Grows
<1>12. Covers(numbers, W, ord, rt)
  BY <1>11, CoversStays
<1>13. add \in [1 .. m -> 1 .. n + m]
  BY <1>1, <1>3, <1>9
<1>14. \A k \in 1 .. m : add[k] = n + k
  BY <1>3
<1> HIDE DEF add
<1>15. add \in Seq(1 .. n + m) /\ Len(add) = m
  BY <1>1, <1>13, FcnIsSeq
<1>16. numbers \in Seq(1 .. n + m)
  BY <1>10, <1>12 DEF Covers
<1> HIDE DEF n
<1>17. /\ all \in Seq(1 .. n + m) /\ Len(all) = p + m /\ p \in Nat
       /\ \A k \in 1 .. p : all[k] = numbers[k]
       /\ \A k \in 1 .. m : all[p + k] = add[k]
  BY <1>15, <1>16, Joined
<1>18. DOMAIN numbers = 1 .. p
  BY <1>16
<1> HIDE DEF all, p
<1>19. \A k \in 1 .. m : rt[all[p + k]].workflow = i /\ rt[all[p + k]].target = ts[k]
  BY <1>7, <1>10, <1>14, <1>17
<1>20. \A k \in 1 .. p : rt[all[k]].workflow \in W
  BY <1>12, <1>17, <1>18 DEF Covers
<1>21. DOMAIN all = 1 .. p + m
  BY <1>17
<1>22. ASSUME NEW k \in 1 .. p + m
       PROVE  k \in 1 .. p \/ \E a \in 1 .. m : k = p + a
  <2>1. CASE k <= p
    BY <1>17, <2>1
  <2>2. CASE k > p
    <3>1. k - p \in 1 .. m /\ k = p + (k - p)
      BY <1>1, <1>17, <2>2
    <3> QED
      BY <3>1
  <2> QED
    BY <1>17, <2>1, <2>2
<1>23. \A k \in 1 .. p + m : rt[all[k]].workflow \in W \cup {i}
  BY <1>19, <1>20, <1>22
<1>24. ASSUME NEW j \in W \cup {i}
       PROVE  \E k \in 1 .. p + m : rt[all[k]].workflow = j
  <2>1. CASE j \in W
    <3>1. PICK k \in 1 .. p : rt[numbers[k]].workflow = j
      BY <1>12, <1>18, <2>1 DEF Covers
    <3>2. k \in 1 .. p + m /\ rt[all[k]].workflow = j
      BY <1>1, <1>17, <3>1
    <3> QED
      BY <3>2
  <2>2. CASE j = i
    <3>1. 1 \in 1 .. m /\ p + 1 \in 1 .. p + m
      BY <1>1, <1>2, <1>17
    <3> QED
      BY <1>19, <2>2, <3>1
  <2> QED
    BY <2>1, <2>2
<1>25. ASSUME NEW k \in 1 .. p + m, NEW l \in 1 .. p + m, k < l
       PROVE  \/ /\ rt[all[k]].workflow = rt[all[l]].workflow
                 /\ rt[all[k]].target # rt[all[l]].target
              \/ Before(ord, rt[all[k]].workflow, rt[all[l]].workflow)
  <2>1. CASE l \in 1 .. p
    <3>1. k \in 1 .. p
      BY <1>17, <1>25, <2>1
    <3> QED
      BY <1>12, <1>17, <1>18, <1>25, <2>1, <3>1 DEF Covers
  <2>2. ASSUME NEW b \in 1 .. m, l = p + b
        PROVE  \/ /\ rt[all[k]].workflow = rt[all[l]].workflow
                  /\ rt[all[k]].target # rt[all[l]].target
               \/ Before(ord, rt[all[k]].workflow, rt[all[l]].workflow)
    <3>1. rt[all[l]].workflow = i /\ rt[all[l]].target = ts[b]
      BY <1>19, <2>2
    <3>2. CASE k \in 1 .. p
      <4>1. rt[all[k]].workflow \in W
        BY <1>20, <3>2
      <4> QED
        BY <3>1, <4>1
    <3>3. ASSUME NEW a \in 1 .. m, k = p + a
          PROVE  rt[all[k]].workflow = rt[all[l]].workflow
                 /\ rt[all[k]].target # rt[all[l]].target
      <4>1. rt[all[k]].workflow = i /\ rt[all[k]].target = ts[a]
        BY <1>19, <3>3
      <4>2. a < b
        BY <1>1, <1>17, <1>25, <2>2, <3>3
      <4>3. ts[a] < ts[b] /\ ts[a] \in Nat /\ ts[b] \in Nat
        BY <1>1, <4>2
      <4>4. ts[a] # ts[b]
        BY <4>3
      <4> QED
        BY <3>1, <4>1, <4>4
    <3> QED
      BY <1>22, <3>2, <3>3
  <2> QED
    BY <1>22, <2>1, <2>2
<1>26. Covers(all, W \cup {i}, ord, rt)
  BY <1>10, <1>17, <1>21, <1>23, <1>24, <1>25 DEF Covers
<1> QED
  BY <1>6, <1>8, <1>11, <1>26 DEF all, rt, add, new, ts, n

LEMMA ManualList ==
    ASSUME NEW x, NEW rs, Submitting(x, rs)
    PROVE  /\ Len(x.list) \in Nat
           /\ \A i \in Eligible(x.seen) : \E k \in 1 .. Len(x.list) : x.list[k] = i
           /\ \A k \in 1 .. Len(x.list) : x.list[k] \in Eligible(x.seen)
           /\ \A j, k \in 1 .. Len(x.list) : j < k => Before(x.order, x.list[j], x.list[k])
<1>1. Eligible(x.seen) \in SUBSET DOMAIN x.seen
  BY DEF Eligible
<1>2. IsFiniteSet(Eligible(x.seen)) /\ Eligible(x.seen) \subseteq Nat
  BY <1>1, FS_Subset DEF Submitting, IsTable
<1> DEFINE E == Eligible(x.seen)
           o == x.order
<1>5. E \subseteq Nat /\ IsFiniteSet(E) /\ o \in Seq(Nat) /\ x.list = ManualOrder(E, o)
  BY <1>2 DEF Submitting
<1> HIDE DEF E, o
<1>6. LET list == ManualOrder(E, o)
      IN  /\ list \in Seq(E)
          /\ \A i \in E : \E k \in 1 .. Len(list) : list[k] = i
          /\ \A j, k \in 1 .. Len(list) : j < k => Before(o, list[j], list[k])
  BY <1>5, ManualOrderIs
<1>3. /\ x.list \in Seq(E)
      /\ \A i \in E : \E k \in 1 .. Len(x.list) : x.list[k] = i
      /\ \A j, k \in 1 .. Len(x.list) : j < k => Before(o, x.list[j], x.list[k])
  BY <1>5, <1>6
<1>4. Len(x.list) \in Nat /\ \A k \in 1 .. Len(x.list) : x.list[k] \in E
  BY <1>3
<1> QED
  BY <1>3, <1>4 DEF E, o

LEMMA SubmitOK ==
    ASSUME HandlersOK, RunsOK, NEW h \in Handlers, Submit(h)
    PROVE  HandlersOK' /\ RunsOK' /\ Grows(runs, runs')
           /\ \A r \in 1 .. Len(runs') :
                (r \in 1 .. Len(runs) /\ runs'[r] = runs[r]) \/ runs'[r].status = "pending"
<1> DEFINE x == handler[h]
           i == x.list[x.at]
           row == x.seen[i]
           T == Resolved(row)
           ts == Sorted(T)
           n == x.at - 1
<1>0. IsHandler(x) /\ HandlerOK(x, runs) /\ x.pc = "submit" /\ x.at <= Len(x.list)
  BY DEF HandlersOK, HandlerOK, Submit, At
<1>1. Submitting(x, runs)
  BY <1>0 DEF HandlerOK
<1>2. /\ Len(x.list) \in Nat
      /\ \A j, k \in 1 .. Len(x.list) : j < k => Before(x.order, x.list[j], x.list[k])
  BY <1>1, ManualList
<1>3. n \in Nat /\ n + 1 = x.at /\ x.at \in 1 .. Len(x.list) /\ x.at + 1 - 1 = x.at
  BY <1>0, <1>1, <1>2 DEF Submitting
<1>4. Covers(x.made, SentOf(x, n), x.order, runs)
  BY <1>1 DEF Submitting
<1>5. SentOf(x, x.at) = IF row.code \in Blank THEN SentOf(x, n) ELSE SentOf(x, n) \cup {i}
  <2>1. n + 1 <= Len(x.list)
    BY <1>2, <1>3
  <2> HIDE DEF x, n
  <2>2. SentOf(x, n + 1) = IF x.seen[x.list[n + 1]].code \in Blank THEN SentOf(x, n)
                           ELSE SentOf(x, n) \cup {x.list[n + 1]}
    BY <1>2, <1>3, <2>1, SentMore
  <2> QED
    BY <1>3, <2>2
<1>6. \A j \in SentOf(x, n) : Before(x.order, j, i)
  <2> SUFFICES ASSUME NEW k \in 1 .. n
               PROVE  Before(x.order, x.list[k], i)
    BY DEF SentOf
  <2>1. k \in 1 .. Len(x.list) /\ k < x.at
    BY <1>2, <1>3
  <2> QED
    BY <1>2, <1>3, <2>1
<1>7. ASSUME NEW y, IsHandler(y), y.pc = "submit", y.seen = x.seen, y.order = x.order,
             y.list = x.list, y.at = x.at + 1, Set(h, y), Grows(runs, runs'),
             Covers(y.made, SentOf(x, x.at), x.order, runs')
      PROVE  HandlersOK'
  <2>1. y.at - 1 = x.at /\ y.at \in 1 .. Len(y.list) + 1
    BY <1>2, <1>3, <1>7
  <2>2. SentOf(y, x.at) = SentOf(x, x.at)
    BY <1>7 DEF SentOf
  <2>3. Submitting(y, runs')
    BY <1>1, <1>7, <2>1, <2>2 DEF Submitting
  <2>4. HandlerOK(y, runs')
    BY <1>7, <2>3 DEF HandlerOK, Begins
  <2> QED
    BY <1>7, <2>4, SetHandler
<1>8. runs' = runs => \A r \in 1 .. Len(runs') : r \in 1 .. Len(runs) /\ runs'[r] = runs[r]
  OBVIOUS
<1>9. CASE row.code \in Blank /\ Set(h, [x EXCEPT !.at = @ + 1]) /\ runs' = runs
  <2> DEFINE a == x.at + 1
             y == [x EXCEPT !.at = a]
  <2>1. Set(h, y)
    BY <1>9
  <2>2. SentOf(x, x.at) = SentOf(x, n)
    BY <1>5, <1>9
  <2> HIDE DEF x, a, n
  <2>3. /\ IsHandler(y) /\ y.pc = "submit" /\ y.seen = x.seen /\ y.order = x.order
        /\ y.list = x.list /\ y.at = a /\ y.made = x.made
    BY <1>0 DEF IsHandler, HandlerFields
  <2> HIDE DEF y
  <2>4. HandlersOK'
    BY <1>4, <1>7, <1>9, <2>1, <2>2, <2>3, RunsStay DEF a
  <2> QED
    BY <1>8, <1>9, <2>4, RunsStay
<1>10. CASE Set(h, Idle) /\ runs' = runs
  BY <1>8, <1>10, IdleElsewhere, SetElsewhere, RunsStay
<1>11. CASE /\ row.code \notin Blank /\ T # {}
            /\ runs' = runs \o NewRuns(i, row.code, ts)
            /\ Set(h, [x EXCEPT !.at = @ + 1,
                         !.made = @ \o [k \in DOMAIN ts |-> Len(runs) + k]])
  <2> DEFINE a == x.at + 1
             m == x.made \o [k \in DOMAIN ts |-> Len(runs) + k]
             y == [x EXCEPT !.at = a, !.made = m]
             new == NewRuns(i, row.code, ts)
  <2>1. Set(h, [x EXCEPT !.at = @ + 1, !.made = @ \o [k \in DOMAIN ts |-> Len(runs) + k]])
    BY <1>11
  <2>2. [x EXCEPT !.at = @ + 1, !.made = @ \o [k \in DOMAIN ts |-> Len(runs) + k]] = y
    BY <1>0 DEF IsHandler, HandlerFields
  <2>3. Set(h, y)
    BY <2>1, <2>2
  <2>4. PICK S : runs \in Seq(S) /\ \A r \in S : IsRun(r)
    BY DEF RunsOK
  <2>5. T \subseteq Nat /\ IsFiniteSet(T)
    BY ResolvedIs
  <2>6. /\ Grows(runs, runs \o new)
        /\ Covers(m, SentOf(x, n) \cup {i}, x.order, runs \o new)
        /\ \E R : new \in Seq(R) /\ \A r \in R : IsRun(r)
    BY <1>4, <1>6, <1>11, <2>4, <2>5, CoversMore
  <2>7. PICK R : new \in Seq(R) /\ \A r \in R : IsRun(r)
    BY <2>6
  <2>8. \A k \in 1 .. Len(new) : new[k].status = "pending"
    <3>1. DOMAIN new = 1 .. Len(new)
      BY <2>7
    <3> SUFFICES ASSUME NEW k \in 1 .. Len(new)
                 PROVE  new[k].status = "pending"
      OBVIOUS
    <3> DEFINE t == ts[k]
               c == row.code
    <3>2. k \in DOMAIN ts
      BY <3>1 DEF NewRuns
    <3>3. new[k] = [workflow |-> i, code |-> c, target |-> t, status |-> "pending"]
      BY <3>2 DEF NewRuns
    <3> HIDE DEF t, c, new, i
    <3> QED
      BY <3>3
  <2> HIDE DEF m, new
  <2>9. runs' = runs \o new
    BY <1>11 DEF new
  <2>10. /\ runs \o new \in Seq(S \cup R)
         /\ \A k \in 1 .. Len(new) : (runs \o new)[Len(runs) + k] = new[k]
         /\ \A k \in 1 .. Len(runs) : (runs \o new)[k] = runs[k]
         /\ Len(runs \o new) = Len(runs) + Len(new)
         /\ Len(runs) \in Nat /\ Len(new) \in Nat
    <3>1. runs \in Seq(S \cup R) /\ new \in Seq(S \cup R)
      BY <2>4, <2>7
    <3>2. Len(runs) \in Nat /\ Len(new) \in Nat
      BY <3>1
    <3> QED
      BY <3>1, <3>2, Joined
  <2>11. RunsOK'
    BY <2>4, <2>7, <2>9, <2>10 DEF RunsOK
  <2>12. ASSUME NEW r \in 1 .. Len(runs'), r > Len(runs)
         PROVE  runs'[r].status = "pending"
    <3> DEFINE k == r - Len(runs)
    <3>1. k \in 1 .. Len(new) /\ r = Len(runs) + k
      BY <2>9, <2>10, <2>12
    <3> HIDE DEF k
    <3> QED
      BY <2>8, <2>9, <2>10, <3>1
  <2>13. SentOf(x, x.at) = SentOf(x, n) \cup {i}
    BY <1>5, <1>11
  <2> HIDE DEF x, n, a, T, i
  <2>14. /\ IsHandler(y) /\ y.pc = "submit" /\ y.seen = x.seen /\ y.order = x.order
         /\ y.list = x.list /\ y.at = a /\ y.made = m
    BY <1>0 DEF IsHandler, HandlerFields
  <2> HIDE DEF y
  <2>15. HandlersOK'
    BY <1>7, <2>3, <2>6, <2>9, <2>13, <2>14 DEF a
  <2>16. \A r \in 1 .. Len(runs') : (r \in 1 .. Len(runs) /\ runs'[r] = runs[r]) \/ r > Len(runs)
    BY <2>9, <2>10
  <2> QED
    BY <2>6, <2>9, <2>11, <2>12, <2>15, <2>16
<1> QED
  BY <1>9, <1>10, <1>11 DEF Submit, NewRuns

LEMMA DispatchOK ==
    ASSUME HandlersOK, RunsOK, BatchesOK, NEW h \in Handlers, Dispatch(h)
    PROVE  /\ HandlersOK' /\ BatchesOK'
           /\ Len(batches) \in Nat /\ Len(batches') \in Nat /\ Len(batches) <= Len(batches')
           /\ DOMAIN batches = 1 .. Len(batches) /\ DOMAIN batches' = 1 .. Len(batches')
           /\ \A b \in 1 .. Len(batches) : batches'[b] = batches[b]
<1> DEFINE x == handler[h]
<1>0. /\ HandlerOK(x, runs) /\ x.pc = "submit" /\ x.at > Len(x.list) /\ runs' = runs
      /\ Set(h, Idle)
  BY DEF HandlersOK, Dispatch, At
<1>1. HandlersOK' /\ Grows(runs, runs')
  BY <1>0, IdleElsewhere, SetElsewhere, RunsStay
<1>2. Submitting(x, runs)
  BY <1>0 DEF HandlerOK
<1>3. /\ Len(x.list) \in Nat
      /\ \A i \in Eligible(x.seen) : \E k \in 1 .. Len(x.list) : x.list[k] = i
      /\ \A k \in 1 .. Len(x.list) : x.list[k] \in Eligible(x.seen)
  BY <1>2, ManualList
<1>4. x.at - 1 = Len(x.list)
  BY <1>0, <1>2, <1>3 DEF Submitting
<1>5. SentOf(x, Len(x.list)) = Filled(x.seen)
  BY <1>3 DEF SentOf, Filled
<1>6. Covers(x.made, Filled(x.seen), x.order, runs)
  BY <1>2, <1>4, <1>5 DEF Submitting
<1>7. PICK S : batches \in Seq(S)
  BY DEF BatchesOK
<1>8. Len(batches) \in Nat /\ DOMAIN batches = 1 .. Len(batches)
  BY <1>7
<1>9. CASE batches' = batches
  BY <1>1, <1>8, <1>9, BatchesStay
<1>10. CASE batches' = Append(batches, [runs |-> x.made, seen |-> x.seen, order |-> x.order])
  <2> DEFINE m == x.made
             s == x.seen
             o == x.order
             e == [runs |-> m, seen |-> s, order |-> o]
  <2>1. batches' = Append(batches, e)
    BY <1>10
  <2>2. Covers(m, Filled(s), o, runs)
    BY <1>6
  <2> HIDE DEF m, s, o
  <2>3. e.runs = m /\ e.seen = s /\ e.order = o
    OBVIOUS
  <2> HIDE DEF e
  <2>4. /\ batches' \in Seq(S \cup {e}) /\ Len(batches') = Len(batches) + 1
        /\ batches'[Len(batches) + 1] = e
        /\ \A b \in 1 .. Len(batches) : batches'[b] = batches[b]
    BY <1>7, <2>1, Pushed
  <2>5. ASSUME NEW b \in 1 .. Len(batches')
        PROVE  Covers(batches'[b].runs, Filled(batches'[b].seen), batches'[b].order, runs')
    <3>1. CASE b <= Len(batches)
      <4>1. b \in 1 .. Len(batches)
        BY <1>8, <2>4, <3>1
      <4> QED
        BY <1>0, <2>4, <4>1 DEF BatchesOK
    <3>2. CASE b > Len(batches)
      <4>1. b = Len(batches) + 1
        BY <1>8, <2>4, <3>2
      <4> QED
        BY <1>0, <2>2, <2>3, <2>4, <4>1
    <3> QED
      BY <1>8, <2>4, <3>1, <3>2
  <2>6. BatchesOK'
    BY <2>4, <2>5 DEF BatchesOK
  <2>7. DOMAIN batches' = 1 .. Len(batches')
    BY <2>4
  <2> QED
    BY <1>1, <1>8, <2>4, <2>6, <2>7
<1> QED
  BY <1>9, <1>10 DEF Dispatch

-----------------------------------------------------------------------------
(* The table: ids and places are numbers, and there are finitely many rows. *)
LEMMA TableStep ==
    ASSUME TableOK, HandlersOK, NEW h \in Handlers, Handle(h)
    PROVE  TableOK'
<1>1. stamps' \in Nat
  <2>1. stamps' = stamps \/ Stamp
    BY DEF Handle, Read, Create, Change, Delete, SetOrder, Apply, CountRows, Promote,
           Insert, Write, List, ReadOrder, Submit, Dispatch, ApplyTool, ApplyScope,
           ApplyFolder, ApplyEligible, Applies, ApplyWorkflow, ReadMatch, Applied
  <2> QED
    BY <2>1 DEF TableOK, Stamp
<1>2. order' \in Seq(Nat)
  <2>1. order' = order \/ order' \in Orders
    BY DEF Handle, Read, Create, Change, Delete, SetOrder, Apply, CountRows, Promote,
           Insert, Write, List, ReadOrder, Submit, Dispatch, ApplyTool, ApplyScope,
           ApplyFolder, ApplyEligible, Applies, ApplyWorkflow, ReadMatch, Applied, table
  <2> QED
    BY <2>1, WorkflowConstants DEF TableOK
<1>3. \/ DOMAIN rows' = DOMAIN rows \/ Delete(h)
      \/ Promote(h) \/ Insert(h)
  <2>1. rows' = rows \/ Delete(h) \/ Promote(h) \/ Insert(h) \/ Write(h)
    BY DEF Handle, Read, Create, Change, SetOrder, Apply, CountRows, List, ReadOrder,
           Submit, Dispatch, ApplyTool, ApplyScope, ApplyFolder, ApplyEligible, Applies,
           ApplyWorkflow, ReadMatch, Applied, table
  <2>2. Write(h) => DOMAIN rows' = DOMAIN rows
    BY DEF Write
  <2> QED
    BY <2>1, <2>2
<1>4. IsTable(rows')
  <2>0. IsFiniteSet(DOMAIN rows) /\ DOMAIN rows \subseteq Nat
    BY DEF TableOK, IsTable
  <2>1. CASE DOMAIN rows' = DOMAIN rows
    BY <2>0, <2>1 DEF IsTable
  <2>2. CASE Delete(h)
    <3>1. DOMAIN rows' \in SUBSET DOMAIN rows
      BY <2>2 DEF Delete
    <3>2. IsFiniteSet(DOMAIN rows')
      BY <2>0, <3>1, FS_Subset
    <3> QED
      BY <2>0, <3>1, <3>2 DEF IsTable
  <2>3. CASE Promote(h) \/ Insert(h)
    <3>1. DOMAIN rows' = DOMAIN rows \cup {handler[h].id}
      BY <2>3 DEF Promote, Insert
    <3>2. handler[h].id \in Nat
      BY <2>3 DEF Promote, Insert, At, HandlersOK, HandlerOK
    <3>3. IsFiniteSet(DOMAIN rows \cup {handler[h].id})
      BY <2>0, FS_AddElement
    <3> QED
      BY <2>0, <3>1, <3>2, <3>3 DEF IsTable
  <2> QED
    BY <1>3, <2>1, <2>2, <2>3
<1> QED
  BY <1>1, <1>2, <1>4 DEF TableOK

(* Batches that are there stay as they are.                                *)
Lasts ==
    /\ DOMAIN batches \subseteq DOMAIN batches'
    /\ \A b \in DOMAIN batches : batches'[b] = batches[b]

LEMMA InBatchStays ==
    ASSUME Lasts, NEW r, InBatch(r)
    PROVE  InBatch(r)'
  BY DEF Lasts, InBatch

(* A handler's step.                                                       *)
LEMMA HandlerBatch ==
    ASSUME BatchInv, NEW h \in Handlers, Handle(h)
    PROVE  BatchInv'
<1>0. HandlersOK /\ TableOK /\ RunsOK /\ BatchesOK /\ WorkerOK
  BY DEF BatchInv
<1>1. TableOK'
  BY <1>0, TableStep
<1>2. CASE Submit(h)
  <2>1. /\ HandlersOK' /\ RunsOK' /\ Grows(runs, runs')
        /\ \A r \in 1 .. Len(runs') :
             (r \in 1 .. Len(runs) /\ runs'[r] = runs[r]) \/ runs'[r].status = "pending"
    BY <1>0, <1>2, SubmitOK
  <2>2. batches' = batches /\ worker' = worker
    BY <1>2 DEF Submit
  <2>3. BatchesOK'
    BY <1>0, <2>1, <2>2, BatchesStay
  <2>4. DOMAIN runs' = 1 .. Len(runs') /\ DOMAIN runs = 1 .. Len(runs)
    BY <1>0, <2>1 DEF RunsOK
  <2>5. \A r : InBatch(r) => InBatch(r)'
    BY <2>2 DEF InBatch
  <2>6. \A r \in DOMAIN runs' : runs'[r].status # "pending" => InBatch(r)'
    BY <1>0, <2>1, <2>4, <2>5 DEF WorkerOK
  <2>7. WorkerOK'
    BY <1>0, <2>2, <2>6 DEF WorkerOK
  <2> QED
    BY <1>1, <2>1, <2>3, <2>7 DEF BatchInv
<1>3. CASE Dispatch(h)
  <2>1. /\ HandlersOK' /\ BatchesOK'
        /\ Len(batches) \in Nat /\ Len(batches') \in Nat /\ Len(batches) <= Len(batches')
        /\ DOMAIN batches = 1 .. Len(batches) /\ DOMAIN batches' = 1 .. Len(batches')
        /\ \A b \in 1 .. Len(batches) : batches'[b] = batches[b]
    BY <1>0, <1>3, DispatchOK
  <2>2. Lasts
    BY <2>1 DEF Lasts
  <2>3. runs' = runs /\ worker' = worker
    BY <1>3 DEF Dispatch
  <2>4. RunsOK'
    BY <1>0, <2>3, RunsStay
  <2>5. WorkerOK'
    <3>1. worker.call > 0 => /\ worker.batch \in DOMAIN batches'
                             /\ worker.at \in DOMAIN batches'[worker.batch].runs
      BY <1>0, <2>2 DEF WorkerOK, Lasts
    <3>2. \A r \in DOMAIN runs : runs[r].status # "pending" => InBatch(r)'
      BY <1>0, <2>2, InBatchStays DEF WorkerOK
    <3> QED
      BY <1>0, <2>3, <3>1, <3>2 DEF WorkerOK
  <2> QED
    BY <1>1, <2>1, <2>4, <2>5 DEF BatchInv
<1>4. CASE ~Submit(h) /\ ~Dispatch(h)
  <2>1. UNCHANGED engine
    BY <1>4 DEF Handle, Read, Create, Change, Delete, SetOrder, Apply, Request, CountRows,
           Promote, Insert, Write, List, ReadOrder, ApplyTool, ApplyScope, ApplyFolder,
           ApplyEligible, Applies, ApplyWorkflow, ReadMatch, Applied
  <2>2. runs' = runs /\ batches' = batches
    BY <2>1 DEF engine
  <2>3. Grows(runs, runs') /\ RunsOK'
    BY <1>0, <2>2, RunsStay
  <2>4. BatchesOK' /\ WorkerOK'
    BY <1>0, <2>1, <2>2, <2>3, BatchesStay, WorkerStays
  <2>5. HandlersOK'
    BY <1>0, <1>4, RequestHandler, TableHandler, ApplyHandler, WorkflowHandler, ListHandler
       DEF Handle
  <2> QED
    BY <1>1, <2>3, <2>4, <2>5 DEF BatchInv
<1> QED
  BY <1>2, <1>3, <1>4

(* A run's status is set: whose it is and where it runs stay.              *)
LEMMA StatusSet ==
    ASSUME RunsOK, NEW r, NEW s, SetStatus(r, s)
    PROVE  /\ Grows(runs, runs') /\ RunsOK'
           /\ DOMAIN runs' = DOMAIN runs
           /\ \A q \in DOMAIN runs : q # r => runs'[q] = runs[q]
<1> DEFINE e == [runs[r] EXCEPT !.status = s]
<1>1. runs' = [runs EXCEPT ![r] = e]
  BY DEF SetStatus
<1>2. PICK S : runs \in Seq(S) /\ \A q \in S : IsRun(q)
  BY DEF RunsOK
<1>3. r \in 1 .. Len(runs) => IsRun(e) /\ e.workflow = runs[r].workflow /\ e.target = runs[r].target
  <2> SUFFICES ASSUME r \in 1 .. Len(runs)
               PROVE  IsRun(e) /\ e.workflow = runs[r].workflow /\ e.target = runs[r].target
    OBVIOUS
  <2> DEFINE d == runs[r]
  <2>1. IsRun(d)
    BY <1>2
  <2> HIDE DEF d
  <2>2. [d EXCEPT !.status = s] =
          [workflow |-> d.workflow, code |-> d.code, target |-> d.target, status |-> s]
    BY <2>1 DEF IsRun
  <2>3. /\ IsRun([d EXCEPT !.status = s])
        /\ [d EXCEPT !.status = s].workflow = d.workflow
        /\ [d EXCEPT !.status = s].target = d.target
    BY <2>2 DEF IsRun
  <2> QED
    BY <2>3 DEF d
<1> DEFINE U == S \cup (IF r \in 1 .. Len(runs) THEN {e} ELSE {})
<1>4. \A q \in U : IsRun(q)
  BY <1>2, <1>3
<1> HIDE DEF e
<1>5. runs \in Seq(U) /\ (r \in 1 .. Len(runs) => e \in U)
  BY <1>2
<1> HIDE DEF U
<1>6. runs' \in Seq(U) /\ Len(runs') = Len(runs) /\ Len(runs) \in Nat
  <2>1. CASE r \in 1 .. Len(runs)
    BY <1>1, <1>5, <2>1
  <2>2. CASE r \notin 1 .. Len(runs)
    <3>1. DOMAIN runs = 1 .. Len(runs) /\ runs = [q \in 1 .. Len(runs) |-> runs[q]]
      BY <1>5
    <3>2. runs' = [q \in 1 .. Len(runs) |-> IF q = r THEN e ELSE runs[q]]
      BY <1>1, <3>1
    <3>3. [q \in 1 .. Len(runs) |-> IF q = r THEN e ELSE runs[q]] = [q \in 1 .. Len(runs) |-> runs[q]]
      BY <2>2
    <3> QED
      BY <1>5, <3>1, <3>2, <3>3
  <2> QED
    BY <2>1, <2>2
<1>7. \A q \in 1 .. Len(runs) : runs'[q] = IF q = r THEN e ELSE runs[q]
  BY <1>1, <1>5
<1>8. Grows(runs, runs')
  BY <1>3, <1>6, <1>7 DEF Grows
<1>9. RunsOK'
  BY <1>4, <1>6 DEF RunsOK
<1>10. DOMAIN runs = 1 .. Len(runs) /\ DOMAIN runs' = 1 .. Len(runs')
  BY <1>5, <1>6
<1> QED
  BY <1>6, <1>7, <1>8, <1>9, <1>10

(* A worker's step.                                                        *)
LEMMA WorkerBatch ==
    ASSUME BitesInv, BatchInv, Work
    PROVE  BatchInv'
<1>0. HandlersOK /\ TableOK /\ RunsOK /\ BatchesOK /\ WorkerOK
  BY DEF BatchInv
<1>1. worker \in [batch : Nat, at : Nat, call : Nat]
  BY DEF BitesInv, BetweenRuns
<1>2. /\ UNCHANGED <<table, stamps>> /\ handler' = handler /\ batches' = batches
  BY DEF Work, StartRun, NextBatch, CallTool, Tool, Resume, EndRun, engine
<1>3. TableOK'
  BY <1>0, <1>2 DEF TableOK, table
<1>4. ASSUME Grows(runs, runs'), RunsOK', WorkerOK'
      PROVE  BatchInv'
  BY <1>0, <1>2, <1>3, <1>4, BatchesStay, KeepHandlers DEF BatchInv
<1>5. \A r : InBatch(r)' <=> InBatch(r)
  BY <1>2 DEF InBatch
<1>6. CASE StartRun \/ EndRun
  <2> DEFINE b == worker.batch
             n == worker.at
             s == IF StartRun THEN "running" ELSE "ended"
  <2>1. b \in DOMAIN batches /\ n \in DOMAIN batches[b].runs
    <3>1. CASE StartRun
      <4>1. PICK S : batches \in Seq(S)
        BY <1>0 DEF BatchesOK
      <4>2. b \in 1 .. Len(batches) /\ n <= Len(batches[b].runs)
        BY <3>1, <4>1 DEF StartRun
      <4>3. batches[b].runs \in Seq(1 .. Len(runs))
        BY <1>0, <4>2 DEF BatchesOK, Covers
      <4>4. n \in Nat \ {0}
        BY <1>0 DEF WorkerOK
      <4>5. n \in DOMAIN batches[b].runs
        BY <4>2, <4>3, <4>4
      <4> QED
        BY <4>1, <4>2, <4>5
    <3>2. CASE EndRun
      BY <1>0, <3>2 DEF EndRun, WorkerOK
    <3> QED
      BY <1>6, <3>1, <3>2
  <2>2. InBatch(Now)
    BY <2>1 DEF InBatch, Now
  <2>3. SetStatus(Now, s)
    BY <1>6 DEF StartRun, EndRun
  <2> HIDE DEF s
  <2>4. /\ Grows(runs, runs') /\ RunsOK' /\ DOMAIN runs' = DOMAIN runs
        /\ \A q \in DOMAIN runs : q # Now => runs'[q] = runs[q]
    BY <1>0, <2>3, StatusSet
  <2>5. \A r \in DOMAIN runs' : runs'[r].status # "pending" => InBatch(r)'
    BY <1>0, <1>5, <2>2, <2>4 DEF WorkerOK
  <2>6. worker'.at \in Nat \ {0} /\ (worker'.call > 0 => worker'.batch = b /\ worker'.at = n)
    <3>1. CASE StartRun
      BY <1>0, <1>1, <3>1 DEF StartRun, WorkerOK
    <3>2. CASE EndRun
      <4> DEFINE m == n + 1
      <4>1. worker' = [worker EXCEPT !.at = m, !.call = 0]
        BY <3>2 DEF EndRun
      <4>2. m \in Nat \ {0}
        BY <1>1
      <4> HIDE DEF m
      <4>3. worker'.at = m /\ worker'.call = 0
        BY <1>1, <4>1
      <4> QED
        BY <4>2, <4>3
    <3> QED
      BY <1>6, <3>1, <3>2
  <2>7. WorkerOK'
    BY <1>2, <2>1, <2>5, <2>6 DEF WorkerOK
  <2> QED
    BY <1>4, <2>4, <2>7
<1>7. CASE NextBatch \/ CallTool \/ Tool \/ Resume
  <2>1. runs' = runs
    BY <1>7 DEF NextBatch, CallTool, Tool, Resume, engine
  <2>2. Grows(runs, runs') /\ RunsOK'
    BY <1>0, <2>1, RunsStay
  <2>3. worker'.at \in Nat \ {0}
    BY <1>0, <1>1, <1>7 DEF NextBatch, CallTool, Tool, Resume, engine, WorkerOK
  <2>4. worker'.call > 0 => worker'.batch = worker.batch /\ worker'.at = worker.at /\ worker.call > 0
    BY <1>1, <1>7 DEF NextBatch, CallTool, Tool, Resume, engine
  <2>5. \A r \in DOMAIN runs' : runs'[r].status # "pending" => InBatch(r)'
    BY <1>0, <1>5, <2>1 DEF WorkerOK
  <2>6. WorkerOK'
    BY <1>0, <1>2, <2>3, <2>4, <2>5 DEF WorkerOK
  <2> QED
    BY <1>4, <2>2, <2>6
<1> QED
  BY <1>6, <1>7 DEF Work

LEMMA InitBatch == Init => BatchInv
<1> SUFFICES ASSUME Init
             PROVE  BatchInv
  OBVIOUS
<1>1. RunsOK
  <2>1. runs \in Seq({})
    BY DEF Init
  <2> QED
    BY <2>1 DEF RunsOK
<1>2. HandlersOK
  <2>1. handler = [h \in Handlers |-> Idle]
    BY DEF Init
  <2>2. HandlerOK(Idle, runs)
    BY IdleElsewhere, ElsewhereOK
  <2>3. \A h \in Handlers : handler[h] = Idle
    BY <2>1
  <2>4. handler = [h \in Handlers |-> handler[h]]
    BY <2>1
  <2> QED
    BY <2>2, <2>3, <2>4 DEF HandlersOK
<1>3. TableOK
  <2>1. DOMAIN rows = {} /\ order \in Seq(Nat) /\ stamps \in Nat
    BY DEF Init, NoRows
  <2>2. IsFiniteSet({})
    BY FS_EmptySet
  <2> QED
    BY <2>1, <2>2 DEF TableOK, IsTable
<1>4. BatchesOK
  <2>1. batches \in Seq({}) /\ Len(batches) = 0
    BY DEF Init
  <2> QED
    BY <2>1 DEF BatchesOK
<1>5. WorkerOK
  <2>1. worker.at = 1 /\ worker.call = 0 /\ DOMAIN runs = {}
    BY DEF Init
  <2> QED
    BY <2>1 DEF WorkerOK
<1> QED
  BY <1>1, <1>2, <1>3, <1>4, <1>5 DEF BatchInv

LEMMA NextBatches == BitesInv /\ BatchInv /\ [Next]_vars => BatchInv'
<1> SUFFICES ASSUME BitesInv, BatchInv, [Next]_vars
             PROVE  BatchInv'
  OBVIOUS
<1>1. CASE \E h \in Handlers : Handle(h)
  BY <1>1, HandlerBatch
<1>2. CASE Work
  BY <1>2, WorkerBatch
<1>3. CASE EditAccess \/ UNCHANGED vars
  <2>0. HandlersOK /\ TableOK /\ RunsOK /\ BatchesOK /\ WorkerOK
    BY DEF BatchInv
  <2>1. UNCHANGED <<rows, order, stamps, handler, engine>>
    BY <1>3 DEF EditAccess, vars, table
  <2>2. runs' = runs /\ batches' = batches
    BY <2>1 DEF engine
  <2>3. Grows(runs, runs') /\ RunsOK'
    BY <2>0, <2>2, RunsStay
  <2>4. BatchesOK' /\ WorkerOK' /\ HandlersOK'
    BY <2>0, <2>1, <2>2, <2>3, BatchesStay, WorkerStays, KeepHandlers
  <2>5. TableOK'
    BY <2>0, <2>1 DEF TableOK
  <2> QED
    BY <2>3, <2>4, <2>5 DEF BatchInv
<1> QED
  BY <1>1, <1>2, <1>3 DEF Next

(* What the executor is handed is a whole request, in the manual order,    *)
(* and nothing else ever begins: a request refused because the targets of  *)
(* a later workflow cannot be resolved leaves the runs it has made pending *)
(* (agent_workflow_bridge.py, the manual trigger).                         *)
THEOREM BatchesAreRequests == Spec => []BatchIsTheRequest
<1>1. BatchInv => BatchIsTheRequest
  <2> SUFFICES ASSUME BatchInv
               PROVE  BatchIsTheRequest
    OBVIOUS
  <2>1. DOMAIN batches = 1 .. Len(batches)
    BY DEF BatchInv, BatchesOK
  <2>2. ASSUME NEW b \in DOMAIN batches
        PROVE  LET batch == batches[b]
                   of(k) == runs[batch.runs[k]].workflow
                   on(k) == runs[batch.runs[k]].target
               IN  /\ {of(k) : k \in DOMAIN batch.runs} =
                        {i \in Eligible(batch.seen) : batch.seen[i].code \notin Blank}
                   /\ \A k, l \in DOMAIN batch.runs : k < l =>
                        \/ of(k) = of(l) /\ on(k) # on(l)
                        \/ Before(batch.order, of(k), of(l))
    <3>1. Covers(batches[b].runs, Filled(batches[b].seen), batches[b].order, runs)
      BY <2>1, <2>2 DEF BatchInv, BatchesOK
    <3> DEFINE numbers == batches[b].runs
               W == Filled(batches[b].seen)
               ord == batches[b].order
    <3>2. Covers(numbers, W, ord, runs)
      BY <3>1
    <3>3. W = {i \in Eligible(batches[b].seen) : batches[b].seen[i].code \notin Blank}
      BY DEF Filled
    <3> HIDE DEF W
    <3>4. {runs[numbers[k]].workflow : k \in DOMAIN numbers} = W
      BY <3>2 DEF Covers
    <3> QED
      BY <3>2, <3>3, <3>4 DEF Covers
  <2>3. \A r \in DOMAIN runs : runs[r].status # "pending" => InBatch(r)
    BY DEF BatchInv, WorkerOK
  <2> QED
    BY <2>2, <2>3 DEF BatchIsTheRequest, InBatch
<1> QED
  BY <1>1, InitBites, NextBites, InitBatch, NextBatches, PTL DEF Spec

-----------------------------------------------------------------------------
(* A blueprint converges.  Between two steps of an apply nobody else wrote *)
(* in, the tools, the folder and the workflows it has come to are as the   *)
(* blueprint asks, and if all of them were at the start nothing changed.   *)
Tools     == Blueprint.tools
Workflows == Blueprint.workflows

ToolDone(spec, c) == spec.cap \in c[2] /\ c[3][spec.cap] = spec.scope

FolderDone(c) ==
    /\ Blueprint.folder => c[4] # "none"
    /\ Blueprint.folder /\ Blueprint.eligible => c[4] = "eligible"

Oldest(n, i, rows_) == \A j \in DOMAIN rows_ : rows_[j].name = n => i <= j

Has(spec, row) == \A col \in DOMAIN spec : row[col] = spec[col]

SpecDone(spec, rows_) ==
    \E i \in DOMAIN rows_ : Oldest(spec.name, i, rows_) /\ Has(spec, rows_[i])

IsRow(r) == r = [col \in Columns |-> r[col]]

(* Where an apply is, in the order of its steps.                           *)
AtTools     == {"tool", "scope"}
AtFolder    == {"folder", "eligible"}
AtWorkflows == {"count", "promote", "list", "insert", "read", "write"}

ToolsProgress(x, c) ==
    /\ \A k \in DOMAIN Tools : (x.pc \in AtTools => k < x.at) => ToolDone(Tools[k], c)
    /\ x.pc = "tool" => x.at = 1 \/ x.at \in DOMAIN Tools
    /\ x.pc = "scope" => x.at \in DOMAIN Tools /\ Tools[x.at].cap \in c[2]

FolderProgress(x, c) ==
    /\ x.pc = "eligible" => Blueprint.folder /\ Blueprint.eligible /\ c[4] # "none"
    /\ x.pc \in AtWorkflows \cup {"applied"} => FolderDone(c)

SpecsProgress(x, c) ==
    /\ x.pc \in AtWorkflows =>
         x.at \in DOMAIN Workflows /\ \A k \in 1 .. x.at - 1 : SpecDone(Workflows[k], c[1])
    /\ x.pc = "applied" => \A k \in DOMAIN Workflows : SpecDone(Workflows[k], c[1])

(* What the steps of one workflow have read is still so.                   *)
ReadProgress(x, c) ==
    /\ x.pc = "promote" => DOMAIN c[1] = {}
    /\ x.pc = "insert" =>
         /\ \A j \in DOMAIN c[1] : c[1][j].name # Workflows[x.at].name /\ j < x.id
         /\ x.row = Patched(Workflows[x.at], New(Workflows[x.at].name, Workflows[x.at].code))
    /\ x.pc \in {"read", "write"} =>
         /\ x.id \in DOMAIN c[1] /\ c[1][x.id].name = Workflows[x.at].name
         /\ Oldest(Workflows[x.at].name, x.id, c[1])
    /\ x.pc = "write" => x.row = Patched(Workflows[x.at], Entry(c[1][x.id]))

Progress(x, c) ==
    /\ x.pc \in AtTools \cup AtFolder \cup AtWorkflows \cup {"applied"}
    /\ x.failed = FALSE
    /\ ToolsProgress(x, c) /\ FolderProgress(x, c) /\ SpecsProgress(x, c)
    /\ ReadProgress(x, c)
    /\ Satisfied(x.start) => c = x.start

Applying(x)  == x.op = "apply"
ApplyOK(h) ==
    Applying(handler[h]) /\ h \notin disturbed => Progress(handler[h], Configuration)

Writing(x)   == x.pc \in {"insert", "promote", "write"}
WritesRow(x, given) ==
    /\ Writing(x) => IsRow(x.row)
    /\ x.pc \in {"insert", "promote"} => x.id <= given

StoredOK ==
    /\ rows = [i \in DOMAIN rows |-> rows[i]]
    /\ \A i \in DOMAIN rows : i <= stamps /\ IsRow(rows[i])
    /\ scope = [c \in Ids |-> scope[c]]

WritesOK == \A h \in Handlers : WritesRow(handler[h], stamps)

ApplyInv == StoredOK /\ WritesOK /\ \A h \in Handlers : ApplyOK(h)

LEMMA BlueprintIs ==
    /\ DOMAIN Tools = 1 .. Len(Tools) /\ Len(Tools) \in Nat
    /\ DOMAIN Workflows = 1 .. Len(Workflows) /\ Len(Workflows) \in Nat
    /\ \A k \in DOMAIN Tools : Tools[k].cap \in Ids
    /\ \A k \in DOMAIN Workflows :
         /\ {"name", "code", "assigned"} \subseteq DOMAIN Workflows[k]
         /\ DOMAIN Workflows[k] \subseteq Columns
<1>1. Tools \in Seq([cap : Ids, scope : {"local", "global"}])
  BY BlueprintConstants DEF Tools
<1>2. Workflows \in Seq({Blueprint.workflows[k] : k \in DOMAIN Blueprint.workflows})
  BY BlueprintConstants DEF Workflows
<1>3. \A k \in DOMAIN Workflows :
        /\ {"name", "code", "assigned"} \subseteq DOMAIN Workflows[k]
        /\ DOMAIN Workflows[k] \subseteq Columns
  BY BlueprintConstants DEF Workflows
<1>4. \A k \in DOMAIN Tools : Tools[k].cap \in Ids
  <2> DEFINE S == [cap : Ids, scope : {"local", "global"}]
  <2>1. \A r \in S : r.cap \in Ids
    OBVIOUS
  <2>2. Tools \in Seq(S)
    BY <1>1
  <2> HIDE DEF S
  <2>3. \A k \in DOMAIN Tools : Tools[k] \in S
    BY <2>2
  <2> QED
    BY <2>1, <2>3
<1> QED
  BY <1>1, <1>2, <1>3, <1>4

LEMMA NamesDiffer ==
    /\ \A i, j \in DOMAIN Tools : Tools[i].cap = Tools[j].cap => i = j
    /\ \A i, j \in DOMAIN Workflows : Workflows[i].name = Workflows[j].name => i = j
  BY WorkflowConstants DEF Tools, Workflows

LEMMA SatisfiedIs ==
    ASSUME NEW c
    PROVE  Satisfied(c) <=>
             /\ \A k \in DOMAIN Tools : ToolDone(Tools[k], c)
             /\ FolderDone(c)
             /\ \A k \in DOMAIN Workflows : SpecDone(Workflows[k], c[1])
<1>1. Satisfied(c) => \A k \in DOMAIN Tools : ToolDone(Tools[k], c)
  BY DEF Satisfied, Tools, ToolDone
<1>2. Satisfied(c) => FolderDone(c)
  BY DEF Satisfied, FolderDone
<1>3. Satisfied(c) => \A k \in DOMAIN Workflows : SpecDone(Workflows[k], c[1])
  BY DEF Satisfied, Workflows, SpecDone, Oldest, Has
<1>4. ASSUME \A k \in DOMAIN Tools : ToolDone(Tools[k], c), FolderDone(c),
             \A k \in DOMAIN Workflows : SpecDone(Workflows[k], c[1])
      PROVE  Satisfied(c)
  BY <1>4 DEF Satisfied, Tools, Workflows, ToolDone, FolderDone, SpecDone, Oldest, Has
<1> QED
  BY <1>1, <1>2, <1>3, <1>4

(* What comes after a step, when that step has done its part.              *)
LEMMA AfterToolProgress ==
    ASSUME NEW x, IsHandler(x), x.failed = FALSE, NEW d,
           x.at = 1 \/ x.at \in DOMAIN Tools,
           \A k \in DOMAIN Tools : k <= x.at => ToolDone(Tools[k], d),
           Satisfied(x.start) => d = x.start
    PROVE  Progress(AfterTool(x), d)
<1> DEFINE p == IF x.at < Len(Blueprint.tools) THEN "tool" ELSE "folder"
           n == IF x.at < Len(Blueprint.tools) THEN x.at + 1 ELSE 1
           y == [x EXCEPT !.at = n, !.pc = p]
<1>0. x.at \in Nat /\ Len(Tools) \in Nat /\ DOMAIN Tools = 1 .. Len(Tools)
  BY BlueprintIs
<1>1. AfterTool(x) = y
  BY DEF AfterTool, IsHandler, HandlerFields
<1>2. \/ p = "tool" /\ x.at < Len(Tools) /\ n = x.at + 1
      \/ p = "folder" /\ ~(x.at < Len(Tools))
  BY DEF Tools
<1> HIDE DEF p, n
<1>3. y.pc = p /\ y.at = n /\ y.failed = x.failed /\ y.start = x.start
  BY DEF IsHandler, HandlerFields
<1> HIDE DEF y
<1>4. \A k \in DOMAIN Tools : (y.pc \in AtTools => k < y.at) => ToolDone(Tools[k], d)
  <2>1. CASE p = "tool"
    BY <1>0, <1>2, <1>3, <2>1 DEF AtTools
  <2>2. CASE p = "folder"
    BY <1>0, <1>2, <1>3, <2>2
  <2> QED
    BY <1>2, <2>1, <2>2
<1>5. y.pc \in {"tool", "folder"} /\ (y.pc = "tool" => y.at \in DOMAIN Tools)
  BY <1>0, <1>2, <1>3
<1>6. ToolsProgress(y, d)
  BY <1>4, <1>5 DEF ToolsProgress
<1>7. FolderProgress(y, d) /\ SpecsProgress(y, d) /\ ReadProgress(y, d)
  BY <1>5 DEF FolderProgress, SpecsProgress, ReadProgress, AtWorkflows
<1> QED
  BY <1>1, <1>3, <1>5, <1>6, <1>7 DEF Progress, AtTools, AtFolder

LEMMA AfterFolderProgress ==
    ASSUME NEW x, IsHandler(x), x.failed = FALSE, NEW d,
           \A k \in DOMAIN Tools : ToolDone(Tools[k], d), FolderDone(d),
           Satisfied(x.start) => d = x.start
    PROVE  Progress(AfterFolder(x), d)
<1> DEFINE p == IF Blueprint.workflows = <<>> THEN "applied" ELSE "count"
           y == [x EXCEPT !.at = 1, !.pc = p]
<1>1. AfterFolder(x) = y
  BY DEF AfterFolder
<1>2. \/ p = "count" /\ Workflows # <<>>
      \/ p = "applied" /\ Workflows = <<>>
  BY DEF Workflows
<1> HIDE DEF p
<1>3. y.pc = p /\ y.at = 1 /\ y.failed = x.failed /\ y.start = x.start
  BY DEF IsHandler, HandlerFields
<1> HIDE DEF y
<1>4. ToolsProgress(y, d) /\ FolderProgress(y, d) /\ ReadProgress(y, d)
  BY <1>2, <1>3 DEF ToolsProgress, FolderProgress, ReadProgress
<1>5. SpecsProgress(y, d)
  <2>1. Workflows # <<>> => 1 \in DOMAIN Workflows
    BY BlueprintConstants DEF Workflows
  <2>2. Workflows = <<>> => DOMAIN Workflows = {}
    OBVIOUS
  <2> QED
    BY <1>2, <1>3, <2>1, <2>2 DEF SpecsProgress, AtWorkflows
<1> QED
  BY <1>1, <1>2, <1>3, <1>4, <1>5 DEF Progress, AtWorkflows

LEMMA NextSpecProgress ==
    ASSUME NEW x, IsHandler(x), x.failed = FALSE, NEW d, x.at \in DOMAIN Workflows,
           \A k \in DOMAIN Tools : ToolDone(Tools[k], d), FolderDone(d),
           \A k \in 1 .. x.at : SpecDone(Workflows[k], d[1]),
           Satisfied(x.start) => d = x.start
    PROVE  Progress(NextSpec(x), d)
<1> DEFINE p == IF x.at < Len(Blueprint.workflows) THEN "count" ELSE "applied"
           n == x.at + 1
           y == [x EXCEPT !.at = n, !.pc = p]
<1>0. x.at \in Nat /\ Len(Workflows) \in Nat /\ DOMAIN Workflows = 1 .. Len(Workflows)
  BY BlueprintIs
<1>1. NextSpec(x) = y
  BY DEF NextSpec, IsHandler, HandlerFields
<1>2. \/ p = "count" /\ x.at < Len(Workflows)
      \/ p = "applied" /\ ~(x.at < Len(Workflows))
  BY DEF Workflows
<1>3. n = x.at + 1
  OBVIOUS
<1> HIDE DEF p, n
<1>4. y.pc = p /\ y.at = n /\ y.failed = x.failed /\ y.start = x.start
  BY DEF IsHandler, HandlerFields
<1> HIDE DEF y
<1>5. ToolsProgress(y, d) /\ FolderProgress(y, d) /\ ReadProgress(y, d)
  BY <1>2, <1>4 DEF ToolsProgress, FolderProgress, ReadProgress
<1>6. SpecsProgress(y, d)
  BY <1>0, <1>2, <1>3, <1>4 DEF SpecsProgress, AtWorkflows
<1> QED
  BY <1>1, <1>2, <1>4, <1>5, <1>6 DEF Progress, AtWorkflows

LEMMA SetIs ==
    ASSUME HandlersOK, NEW h \in Handlers, NEW y, Set(h, y)
    PROVE  /\ handler'[h] = y
           /\ \A g \in Handlers \ {h} : handler'[g] = handler[g]
<1>1. handler' = [handler EXCEPT ![h] = y] /\ handler = [g \in Handlers |-> handler[g]]
  BY DEF Set, HandlersOK
<1> QED
  BY <1>1

LEMMA ConfigurationIs ==
    /\ Configuration[1] = rows /\ Configuration[2] = granted
    /\ Configuration[3] = scope /\ Configuration[4] = keycard
    /\ Configuration'[1] = rows' /\ Configuration'[2] = granted'
    /\ Configuration'[3] = scope' /\ Configuration'[4] = keycard'
  BY DEF Configuration

LEMMA ConfigurationStays ==
    ASSUME UNCHANGED rows, UNCHANGED access
    PROVE  Configuration' = Configuration
  BY DEF Configuration, access

(* What an apply in the middle of its workflows has behind it.             *)
LEMMA AtWorkflow ==
    ASSUME NEW x, NEW c, Progress(x, c), x.pc \in AtWorkflows
    PROVE  /\ x.failed = FALSE /\ x.at \in DOMAIN Workflows /\ x.at \in Nat
           /\ \A k \in DOMAIN Tools : ToolDone(Tools[k], c)
           /\ FolderDone(c)
           /\ \A k \in 1 .. x.at - 1 : SpecDone(Workflows[k], c[1])
           /\ Satisfied(x.start) => c = x.start
<1>1. x.pc \notin AtTools
  BY DEF AtTools, AtWorkflows
<1>2. x.at \in DOMAIN Workflows
  BY DEF Progress, SpecsProgress
<1>3. x.at \in Nat
  BY <1>2, BlueprintIs
<1> QED
  BY <1>1, <1>2, <1>3 DEF Progress, ToolsProgress, FolderProgress, SpecsProgress

LEMMA RowsApart ==
    ASSUME NEW c, NEW d, c[2] = d[2], c[3] = d[3], c[4] = d[4]
    PROVE  /\ \A k \in DOMAIN Tools : ToolDone(Tools[k], c) => ToolDone(Tools[k], d)
           /\ FolderDone(c) => FolderDone(d)
  BY DEF ToolDone, FolderDone

(* The steps of an apply, each by the handler that applies.                *)
LEMMA BeginProgress ==
    ASSUME HandlersOK, NEW h \in Handlers, Apply(h)
    PROVE  Progress(handler'[h], Configuration')
<1> DEFINE c == Configuration
           y == [Idle EXCEPT !.pc = "tool", !.op = "apply", !.start = c]
<1>1. Set(h, y)
  BY DEF Apply
<1>2. Configuration' = c
  BY ConfigurationStays DEF Apply, Request, table, callVars
<1> HIDE DEF c
<1>3. y.pc = "tool" /\ y.at = 1 /\ y.failed = FALSE /\ y.start = c
  BY DEF Idle
<1>4. handler'[h] = y
  BY <1>1, SetIs
<1> HIDE DEF y
<1>5. ToolsProgress(y, c)
  BY <1>3, BlueprintIs DEF ToolsProgress, AtTools
<1>6. FolderProgress(y, c) /\ SpecsProgress(y, c) /\ ReadProgress(y, c)
  BY <1>3 DEF FolderProgress, SpecsProgress, ReadProgress, AtWorkflows
<1> QED
  BY <1>2, <1>3, <1>4, <1>5, <1>6 DEF Progress, AtTools

LEMMA CountProgress ==
    ASSUME HandlersOK, NEW h \in Handlers, Progress(handler[h], Configuration), CountRows(h)
    PROVE  Progress(handler'[h], Configuration')
<1> DEFINE x == handler[h]
           c == Configuration
<1>0. IsHandler(x) /\ x.pc = "count" /\ Progress(x, c)
  BY DEF HandlersOK, HandlerOK, CountRows, At
<1>1. Configuration' = c
  BY ConfigurationStays DEF CountRows, table, callVars
<1>2. c[1] = rows
  BY ConfigurationIs
<1>3. PICK y : /\ handler'[h] = y
               /\ y.at = x.at /\ y.failed = x.failed /\ y.start = x.start
               /\ \/ y.pc = "list"
                  \/ y.pc = "promote" /\ DOMAIN rows = {}
  <2>1. CASE Goto(h, "list")
    <3> DEFINE y == [x EXCEPT !.pc = "list"]
    <3>1. handler'[h] = y
      BY <2>1, SetIs DEF Goto
    <3>2. y.pc = "list" /\ y.at = x.at /\ y.failed = x.failed /\ y.start = x.start
      BY <1>0 DEF IsHandler, HandlerFields
    <3> HIDE DEF y
    <3> QED
      BY <3>1, <3>2
  <2>2. CASE ~Goto(h, "list")
    <3> DEFINE row == New("Workflow", Legacy)
               y == [x EXCEPT !.pc = "promote", !.id = stamps + 1, !.row = row]
    <3>1. Set(h, y) /\ DOMAIN rows = {}
      BY <2>2 DEF CountRows
    <3>2. handler'[h] = y
      BY <3>1, SetIs
    <3> HIDE DEF row
    <3>3. y.pc = "promote" /\ y.at = x.at /\ y.failed = x.failed /\ y.start = x.start
      BY <1>0 DEF IsHandler, HandlerFields
    <3> HIDE DEF y
    <3> QED
      BY <3>1, <3>2, <3>3
  <2> QED
    BY <2>1, <2>2
<1> HIDE DEF x, c
<1>4. x.pc \in AtWorkflows /\ y.pc \in AtWorkflows
  BY <1>0, <1>3 DEF AtWorkflows
<1>5. ToolsProgress(y, c) /\ FolderProgress(y, c)
  BY <1>0, <1>3, <1>4, AtWorkflow DEF ToolsProgress, FolderProgress
<1>6. SpecsProgress(y, c)
  BY <1>0, <1>3, <1>4, AtWorkflow DEF SpecsProgress
<1>7. ReadProgress(y, c)
  BY <1>2, <1>3 DEF ReadProgress
<1> QED
  BY <1>0, <1>1, <1>3, <1>4, <1>5, <1>6, <1>7 DEF Progress

LEMMA PromoteProgress ==
    ASSUME HandlersOK, NEW h \in Handlers, Progress(handler[h], Configuration), Promote(h)
    PROVE  Progress(handler'[h], Configuration')
<1> DEFINE x == handler[h]
           y == [x EXCEPT !.pc = "list"]
           c == Configuration
           d == Configuration'
<1>0. IsHandler(x) /\ x.pc = "promote" /\ Progress(x, c)
  BY DEF HandlersOK, HandlerOK, Promote, At
<1>1. c[2] = d[2] /\ c[3] = d[3] /\ c[4] = d[4] /\ c[1] = rows
  BY ConfigurationIs DEF Promote, callVars, access
<1>2. handler'[h] = y
  BY SetIs DEF Promote, Goto
<1>3. y.pc = "list" /\ y.at = x.at /\ y.failed = x.failed /\ y.start = x.start
  BY <1>0 DEF IsHandler, HandlerFields
<1> HIDE DEF x, y, c, d
<1>4. x.pc \in AtWorkflows /\ y.pc \in AtWorkflows
  BY <1>0, <1>3 DEF AtWorkflows
<1>5. DOMAIN c[1] = {}
  BY <1>0 DEF Progress, ReadProgress
<1>6. \A k \in DOMAIN Workflows : ~SpecDone(Workflows[k], c[1])
  BY <1>5 DEF SpecDone
<1>7. x.at = 1
  <2>1. x.at \in DOMAIN Workflows /\ \A k \in 1 .. x.at - 1 : SpecDone(Workflows[k], c[1])
    BY <1>0, <1>4, AtWorkflow
  <2>2. \A k \in 1 .. x.at - 1 : k \in DOMAIN Workflows
    BY <2>1, BlueprintIs
  <2>3. 1 \notin 1 .. x.at - 1
    BY <1>6, <2>1, <2>2
  <2> QED
    BY <2>1, <2>3, BlueprintIs
<1>8. ~Satisfied(x.start)
  BY <1>0, <1>4, <1>6, AtWorkflow, SatisfiedIs
<1>9. ToolsProgress(y, d) /\ FolderProgress(y, d)
  BY <1>0, <1>1, <1>3, <1>4, AtWorkflow, RowsApart DEF ToolsProgress, FolderProgress
<1>10. SpecsProgress(y, d)
  <2>1. 1 .. y.at - 1 = {}
    BY <1>3, <1>7
  <2> QED
    BY <1>0, <1>3, <1>4, <2>1, AtWorkflow DEF SpecsProgress
<1>11. ReadProgress(y, d)
  BY <1>3 DEF ReadProgress
<1> QED
  BY <1>0, <1>2, <1>3, <1>4, <1>8, <1>9, <1>10, <1>11 DEF Progress, d

LEMMA PatchedIs ==
    ASSUME NEW spec, DOMAIN spec \subseteq Columns, NEW row
    PROVE  IsRow(Patched(spec, row)) /\ Has(spec, Patched(spec, row))
<1>1. IsRow(Patched(spec, row))
  BY DEF IsRow, Patched
<1>2. Has(spec, Patched(spec, row))
  BY DEF Has, Patched
<1> QED
  BY <1>1, <1>2

LEMMA PatchedSame ==
    ASSUME NEW spec, "assigned" \in DOMAIN spec, NEW r, IsRow(r), Has(spec, r)
    PROVE  Patched(spec, Entry(r)) = r
<1> DEFINE e == Entry(r)
<1>1. \A col \in Columns : col # "assigned" => e[col] = r[col]
  BY DEF Entry, IsRow, Columns
<1> HIDE DEF e
<1>2. \A col \in Columns : (IF col \in DOMAIN spec THEN spec[col] ELSE e[col]) = r[col]
  BY <1>1 DEF Has
<1>3. Patched(spec, e) = [col \in Columns |-> r[col]]
  BY <1>2 DEF Patched
<1> QED
  BY <1>3 DEF IsRow, e

(* The table with one more row, and with a row replaced.                   *)
Put(rows_, id, row) ==
    [i \in DOMAIN rows_ \cup {id} |-> IF i = id THEN row ELSE rows_[i]]

LEMMA SpecAdded ==
    ASSUME NEW rows_, DOMAIN rows_ \subseteq Nat, NEW id \in Nat, NEW row,
           NEW spec, "name" \in DOMAIN spec, Has(spec, row),
           \A j \in DOMAIN rows_ : rows_[j].name # spec.name /\ j < id
    PROVE  /\ SpecDone(spec, Put(rows_, id, row))
           /\ \A s : SpecDone(s, rows_) => SpecDone(s, Put(rows_, id, row))
<1> DEFINE t == Put(rows_, id, row)
<1>1. DOMAIN t = DOMAIN rows_ \cup {id} /\ t[id] = row /\ \A i \in DOMAIN rows_ : t[i] = rows_[i]
  BY DEF Put
<1> HIDE DEF t
<1>2. Oldest(spec.name, id, t)
  BY <1>1 DEF Oldest
<1>3. SpecDone(spec, t)
  BY <1>1, <1>2 DEF SpecDone
<1>4. ASSUME NEW s, SpecDone(s, rows_)
      PROVE  SpecDone(s, t)
  <2>1. PICK i \in DOMAIN rows_ : Oldest(s.name, i, rows_) /\ Has(s, rows_[i])
    BY <1>4 DEF SpecDone
  <2>2. i < id /\ i \in Nat
    OBVIOUS
  <2>3. Oldest(s.name, i, t)
    BY <1>1, <2>1, <2>2 DEF Oldest
  <2> QED
    BY <1>1, <2>1, <2>3 DEF SpecDone
<1> QED
  BY <1>3, <1>4 DEF t

LEMMA SpecReplaced ==
    ASSUME NEW rows_, DOMAIN rows_ \subseteq Nat, NEW id \in DOMAIN rows_, NEW row,
           NEW spec, "name" \in DOMAIN spec, Has(spec, row),
           rows_[id].name = spec.name, Oldest(spec.name, id, rows_)
    PROVE  /\ SpecDone(spec, Put(rows_, id, row))
           /\ \A s : /\ SpecDone(s, rows_) /\ "name" \in DOMAIN s /\ s.name # spec.name
                     => SpecDone(s, Put(rows_, id, row))
<1> DEFINE t == Put(rows_, id, row)
<1>1. DOMAIN t = DOMAIN rows_ /\ t[id] = row /\ \A i \in DOMAIN rows_ : i # id => t[i] = rows_[i]
  BY DEF Put
<1>0. row.name = spec.name
  BY DEF Has
<1> HIDE DEF t
<1>2. Oldest(spec.name, id, t)
  <2> SUFFICES ASSUME NEW j \in DOMAIN t, t[j].name = spec.name
               PROVE  id <= j
    BY DEF Oldest
  <2>1. CASE j = id
    BY <2>1
  <2>2. CASE j # id
    BY <1>1, <2>2 DEF Oldest
  <2> QED
    BY <2>1, <2>2
<1>3. SpecDone(spec, t)
  BY <1>1, <1>2 DEF SpecDone
<1>4. ASSUME NEW s, SpecDone(s, rows_), "name" \in DOMAIN s, s.name # spec.name
      PROVE  SpecDone(s, t)
  <2>1. PICK i \in DOMAIN rows_ : Oldest(s.name, i, rows_) /\ Has(s, rows_[i])
    BY <1>4 DEF SpecDone
  <2>2. rows_[i].name = s.name
    BY <1>4, <2>1 DEF Has
  <2>3. i # id
    BY <1>4, <2>2
  <2>4. Oldest(s.name, i, t)
    BY <1>0, <1>1, <1>4, <2>1 DEF Oldest
  <2> QED
    BY <1>1, <2>1, <2>3, <2>4 DEF SpecDone
<1> QED
  BY <1>3, <1>4 DEF t

LEMMA InsertProgress ==
    ASSUME HandlersOK, TableOK, NEW h \in Handlers, Applying(handler[h]),
           Progress(handler[h], Configuration), Insert(h)
    PROVE  Progress(handler'[h], Configuration')
<1> DEFINE x == handler[h]
           c == Configuration
           d == Configuration'
           spec == Workflows[x.at]
<1>0. IsHandler(x) /\ x.pc = "insert" /\ Progress(x, c) /\ x.id \in Nat
  BY DEF HandlersOK, HandlerOK, Insert, At
<1>1. c[2] = d[2] /\ c[3] = d[3] /\ c[4] = d[4] /\ c[1] = rows
  BY ConfigurationIs DEF Insert, callVars, access
<1>2. handler'[h] = NextSpec(x)
  BY SetIs DEF Insert, Done, Applying
<1>3. d[1] = Put(rows, x.id, x.row)
  BY ConfigurationIs DEF Insert, Put
<1>4. DOMAIN rows \subseteq Nat
  BY DEF TableOK, IsTable
<1> HIDE DEF x, c, d
<1>5. x.pc \in AtWorkflows
  BY <1>0 DEF AtWorkflows
<1>6. /\ x.failed = FALSE /\ x.at \in DOMAIN Workflows /\ x.at \in Nat
      /\ \A k \in DOMAIN Tools : ToolDone(Tools[k], d)
      /\ FolderDone(d)
      /\ \A k \in 1 .. x.at - 1 : SpecDone(Workflows[k], rows)
      /\ Satisfied(x.start) => c = x.start
  BY <1>0, <1>1, <1>5, AtWorkflow, RowsApart
<1>7. \A j \in DOMAIN rows : rows[j].name # spec.name /\ j < x.id
  BY <1>0, <1>1 DEF Progress, ReadProgress
<1>8. "name" \in DOMAIN spec /\ DOMAIN spec \subseteq Columns
  BY <1>6, BlueprintIs
<1>9. Has(spec, x.row)
  BY <1>0, <1>8, PatchedIs DEF Progress, ReadProgress
<1> HIDE DEF spec
<1>10. SpecDone(spec, d[1]) /\ \A s : SpecDone(s, rows) => SpecDone(s, d[1])
  BY <1>0, <1>3, <1>4, <1>7, <1>8, <1>9, SpecAdded
<1>11. \A k \in 1 .. x.at : SpecDone(Workflows[k], d[1])
  <2>1. \A k \in 1 .. x.at : k = x.at \/ k \in 1 .. x.at - 1
    BY <1>6
  <2> QED
    BY <1>6, <1>10, <2>1 DEF spec
<1>12. ~Satisfied(x.start)
  <2>1. ~SpecDone(spec, rows)
    BY <1>7, <1>8 DEF SpecDone, Has
  <2> QED
    BY <1>1, <1>6, <2>1, SatisfiedIs DEF spec
<1>13. Progress(NextSpec(x), d)
  BY <1>0, <1>6, <1>11, <1>12, NextSpecProgress
<1> QED
  BY <1>2, <1>13 DEF d

LEMMA WriteProgress ==
    ASSUME HandlersOK, TableOK, StoredOK, NEW h \in Handlers, Applying(handler[h]),
           Progress(handler[h], Configuration), Write(h)
    PROVE  Progress(handler'[h], Configuration')
<1> DEFINE x == handler[h]
           c == Configuration
           d == Configuration'
           spec == Workflows[x.at]
<1>0. IsHandler(x) /\ x.pc = "write" /\ Progress(x, c)
  BY DEF HandlersOK, HandlerOK, Write, At
<1>1. c[2] = d[2] /\ c[3] = d[3] /\ c[4] = d[4] /\ c[1] = rows
  BY ConfigurationIs DEF Write, callVars, access
<1>2. /\ x.id \in DOMAIN rows /\ rows[x.id].name = spec.name
      /\ Oldest(spec.name, x.id, rows) /\ x.row = Patched(spec, Entry(rows[x.id]))
  BY <1>0, <1>1 DEF Progress, ReadProgress
<1>3. handler'[h] = NextSpec(x)
  BY <1>2, SetIs DEF Write, Done, Applying
<1>4. d[1] = Put(rows, x.id, x.row)
  <2>1. d[1] = [rows EXCEPT ![x.id] = x.row]
    BY <1>2, ConfigurationIs DEF Write
  <2>2. rows = [i \in DOMAIN rows |-> rows[i]] /\ DOMAIN rows \cup {x.id} = DOMAIN rows
    BY <1>2 DEF StoredOK
  <2> QED
    BY <2>1, <2>2 DEF Put
<1>5. DOMAIN rows \subseteq Nat /\ IsRow(rows[x.id])
  BY <1>2 DEF TableOK, IsTable, StoredOK
<1>6. Configuration' = <<d[1], d[2], d[3], d[4]>> /\ c = <<c[1], c[2], c[3], c[4]>>
  BY DEF Configuration
<1> HIDE DEF x, c
<1>7. x.pc \in AtWorkflows
  BY <1>0 DEF AtWorkflows
<1>8. /\ x.failed = FALSE /\ x.at \in DOMAIN Workflows /\ x.at \in Nat
      /\ \A k \in DOMAIN Tools : ToolDone(Tools[k], d)
      /\ FolderDone(d)
      /\ \A k \in 1 .. x.at - 1 : SpecDone(Workflows[k], rows)
      /\ Satisfied(x.start) => c = x.start
  BY <1>0, <1>1, <1>7, AtWorkflow, RowsApart
<1>9. "name" \in DOMAIN spec /\ "assigned" \in DOMAIN spec /\ DOMAIN spec \subseteq Columns
  BY <1>8, BlueprintIs
<1>10. Has(spec, x.row)
  BY <1>2, <1>9, PatchedIs
<1> HIDE DEF d
<1>11. \A k \in 1 .. x.at : SpecDone(Workflows[k], d[1])
  <2>1. /\ SpecDone(spec, d[1])
        /\ \A s : /\ SpecDone(s, rows) /\ "name" \in DOMAIN s /\ s.name # spec.name
                  => SpecDone(s, d[1])
    <3> HIDE DEF spec
    <3> QED
      BY <1>2, <1>4, <1>5, <1>9, <1>10, SpecReplaced
  <2>2. ASSUME NEW k \in 1 .. x.at - 1
        PROVE  SpecDone(Workflows[k], d[1])
    <3>1. k \in DOMAIN Workflows /\ k # x.at
      BY <1>8, BlueprintIs
    <3>2. "name" \in DOMAIN Workflows[k] /\ Workflows[k].name # spec.name
      BY <1>8, <3>1, BlueprintIs, NamesDiffer
    <3> QED
      BY <1>8, <2>1, <3>2
  <2>3. \A k \in 1 .. x.at : k = x.at \/ k \in 1 .. x.at - 1
    BY <1>8
  <2> QED
    BY <2>1, <2>2, <2>3
<1>12. Satisfied(x.start) => d = x.start
  <2> SUFFICES ASSUME Satisfied(x.start)
               PROVE  d = c
    BY <1>8
  <2>1. SpecDone(spec, rows)
    BY <1>1, <1>8, SatisfiedIs
  <2> HIDE DEF spec
  <2>2. PICK i \in DOMAIN rows : Oldest(spec.name, i, rows) /\ Has(spec, rows[i])
    BY <2>1 DEF SpecDone
  <2>3. i = x.id
    <3>1. rows[i].name = spec.name
      BY <1>9, <2>2 DEF Has
    <3>2. i <= x.id /\ x.id <= i
      BY <1>2, <2>2, <3>1 DEF Oldest
    <3> QED
      BY <1>2, <1>5, <3>2
  <2>4. x.row = rows[x.id]
    BY <1>2, <1>5, <1>9, <2>2, <2>3, PatchedSame
  <2>5. d[1] = rows
    <3>1. rows = [j \in DOMAIN rows |-> rows[j]] /\ DOMAIN rows \cup {x.id} = DOMAIN rows
      BY <1>2 DEF StoredOK
    <3> QED
      BY <1>4, <2>4, <3>1 DEF Put
  <2> QED
    BY <1>1, <1>6, <2>5 DEF d
<1>13. Progress(NextSpec(x), d)
  BY <1>0, <1>8, <1>11, <1>12, NextSpecProgress
<1> QED
  BY <1>3, <1>13 DEF d

LEMMA WorkflowGoesOn ==
    ASSUME NEW x, NEW y, NEW c, Progress(x, c), x.pc \in AtWorkflows, y.pc \in AtWorkflows,
           y.at = x.at, y.failed = x.failed, y.start = x.start, ReadProgress(y, c)
    PROVE  Progress(y, c)
<1>1. ToolsProgress(y, c) /\ FolderProgress(y, c)
  <2>1. y.pc # "tool" /\ y.pc # "scope" /\ y.pc # "eligible"
    BY DEF AtWorkflows
  <2> QED
    BY <2>1, AtWorkflow DEF ToolsProgress, FolderProgress
<1>2. SpecsProgress(y, c)
  <2>1. y.pc # "applied"
    BY DEF AtWorkflows
  <2> QED
    BY <2>1, AtWorkflow DEF SpecsProgress
<1> QED
  BY <1>1, <1>2 DEF Progress

LEMMA NamedFirst ==
    ASSUME TableOK, NEW n, Named(n) # {}
    PROVE  LET i == Sorted(Named(n))[1]
           IN  i \in DOMAIN rows /\ rows[i].name = n /\ Oldest(n, i, rows)
<1> DEFINE S == Named(n)
           s == Sorted(S)
           m == Cardinality(S)
<1>1. S \subseteq DOMAIN rows /\ \A i \in DOMAIN rows : i \in S <=> rows[i].name = n
  BY DEF Named
<1>2. S \subseteq Nat /\ IsFiniteSet(S)
  BY <1>1, FS_Subset DEF TableOK, IsTable
<1> HIDE DEF S
<1>3. /\ m \in Nat /\ s \in [1 .. m -> S]
      /\ \A i, j \in 1 .. m : i < j => s[i] < s[j]
      /\ \A x \in S : \E i \in 1 .. m : s[i] = x
  BY <1>2, SortedEnumerates
<1>4. S # {}
  BY DEF S
<1> HIDE DEF s, m
<1>5. 1 \in 1 .. m
  BY <1>3, <1>4
<1>6. s[1] \in S
  BY <1>3, <1>5
<1>7. \A j \in S : s[1] <= j
  <2> TAKE j \in S
  <2>1. PICK i \in 1 .. m : s[i] = j
    BY <1>3
  <2>2. CASE i = 1
    BY <1>2, <1>6, <2>1, <2>2
  <2>3. CASE i # 1
    <3>1. 1 < i
      BY <1>3, <2>3
    <3>2. s[1] < s[i]
      BY <1>3, <1>5, <3>1
    <3>3. s[1] \in Nat /\ j \in Nat
      BY <1>2, <1>6
    <3> QED
      BY <2>1, <3>2, <3>3
  <2> QED
    BY <2>2, <2>3
<1> QED
  BY <1>1, <1>6, <1>7 DEF Oldest, s, S

LEMMA MatchProgress ==
    ASSUME HandlersOK, TableOK, StoredOK, NEW h \in Handlers, Applying(handler[h]),
           Progress(handler[h], Configuration), ApplyWorkflow(h) \/ ReadMatch(h)
    PROVE  Progress(handler'[h], Configuration')
<1> DEFINE x == handler[h]
           c == Configuration
           spec == Blueprint.workflows[x.at]
<1>0. IsHandler(x) /\ Progress(x, c)
  BY DEF HandlersOK, HandlerOK
<1>1. Configuration' = c
  BY ConfigurationStays DEF ApplyWorkflow, ReadMatch, table, callVars
<1>2. c[1] = rows /\ spec = Workflows[x.at]
  BY ConfigurationIs DEF Workflows
<1>3. x.pc \in AtWorkflows
  BY DEF ApplyWorkflow, ReadMatch, At, AtWorkflows
<1>4. CASE ApplyWorkflow(h) /\ Named(spec.name) = {}
  <2> DEFINE row == Patched(spec, New(spec.name, spec.code))
             y == [x EXCEPT !.pc = "insert", !.id = stamps + 1, !.row = row]
  <2>1. handler'[h] = y
    BY <1>4, SetIs DEF ApplyWorkflow
  <2>2. row = Patched(Workflows[x.at], New(Workflows[x.at].name, Workflows[x.at].code))
    BY <1>2
  <2>3. \A j \in DOMAIN rows : rows[j].name # spec.name
    BY <1>4 DEF Named
  <2>4. \A j \in DOMAIN rows : j < stamps + 1
    BY DEF StoredOK, TableOK, IsTable
  <2> HIDE DEF row, x, c
  <2>5. /\ y.pc = "insert" /\ y.id = stamps + 1 /\ y.row = row
        /\ y.at = x.at /\ y.failed = x.failed /\ y.start = x.start
    BY <1>0 DEF IsHandler, HandlerFields
  <2> HIDE DEF y, spec
  <2>6. ReadProgress(y, c)
    BY <1>2, <2>2, <2>3, <2>4, <2>5 DEF ReadProgress
  <2>7. y.pc \in AtWorkflows
    BY <2>5 DEF AtWorkflows
  <2> QED
    BY <1>0, <1>1, <1>3, <2>1, <2>5, <2>6, <2>7, WorkflowGoesOn
<1>5. CASE ApplyWorkflow(h) /\ Named(spec.name) # {}
  <2> DEFINE i == Sorted(Named(spec.name))[1]
             y == [x EXCEPT !.pc = "read", !.id = i]
  <2>1. handler'[h] = y
    BY <1>5, SetIs DEF ApplyWorkflow
  <2>2. i \in DOMAIN rows /\ rows[i].name = spec.name /\ Oldest(spec.name, i, rows)
    BY <1>5, NamedFirst
  <2> HIDE DEF i, x, c
  <2>3. /\ y.pc = "read" /\ y.id = i
        /\ y.at = x.at /\ y.failed = x.failed /\ y.start = x.start
    BY <1>0 DEF IsHandler, HandlerFields
  <2> HIDE DEF y, spec
  <2>4. ReadProgress(y, c)
    BY <1>2, <2>2, <2>3 DEF ReadProgress
  <2>5. y.pc \in AtWorkflows
    BY <2>3 DEF AtWorkflows
  <2> QED
    BY <1>0, <1>1, <1>3, <2>1, <2>3, <2>4, <2>5, WorkflowGoesOn
<1>6. CASE ReadMatch(h)
  <2> DEFINE row == Patched(spec, Entry(rows[x.id]))
             y == [x EXCEPT !.pc = "write", !.row = row]
  <2>0. x.pc = "read"
    BY <1>6 DEF ReadMatch, At
  <2>1. /\ x.id \in DOMAIN rows /\ rows[x.id].name = spec.name
        /\ Oldest(spec.name, x.id, rows)
    BY <1>0, <1>2, <2>0 DEF Progress, ReadProgress
  <2>2. handler'[h] = y
    BY <1>6, <2>1, SetIs DEF ReadMatch
  <2>3. row = Patched(Workflows[x.at], Entry(rows[x.id]))
    BY <1>2
  <2> HIDE DEF row, x, c
  <2>4. /\ y.pc = "write" /\ y.row = row /\ y.id = x.id
        /\ y.at = x.at /\ y.failed = x.failed /\ y.start = x.start
    BY <1>0 DEF IsHandler, HandlerFields
  <2> HIDE DEF y, spec
  <2>5. ReadProgress(y, c)
    BY <1>2, <2>1, <2>3, <2>4 DEF ReadProgress
  <2>6. y.pc \in AtWorkflows
    BY <2>4 DEF AtWorkflows
  <2> QED
    BY <1>0, <1>1, <1>3, <2>2, <2>4, <2>5, <2>6, WorkflowGoesOn
<1> QED
  BY <1>4, <1>5, <1>6

LEMMA ToolProgress ==
    ASSUME HandlersOK, NEW h \in Handlers, Progress(handler[h], Configuration), ApplyTool(h)
    PROVE  Progress(handler'[h], Configuration')
<1> DEFINE x == handler[h]
           c == Configuration
           d == Configuration'
<1>0. IsHandler(x) /\ x.pc = "tool" /\ Progress(x, c)
  BY DEF HandlersOK, HandlerOK, ApplyTool, At
<1>1. /\ c[1] = d[1] /\ c[2] = granted /\ d[2] = granted'
      /\ d = <<d[1], d[2], d[3], d[4]>> /\ c = <<c[1], c[2], c[3], c[4]>>
  BY DEF Configuration, ApplyTool, Applies, table
<1>2. /\ x.failed = FALSE /\ (x.at = 1 \/ x.at \in DOMAIN Tools)
      /\ \A k \in DOMAIN Tools : k < x.at => ToolDone(Tools[k], c)
      /\ Satisfied(x.start) => c = x.start
  BY <1>0 DEF Progress, ToolsProgress, AtTools
<1>3. CASE Tools = <<>>
  <2>1. Set(h, AfterTool(x)) /\ UNCHANGED access
    BY <1>3 DEF ApplyTool, Tools
  <2>2. handler'[h] = AfterTool(x)
    BY <2>1, SetIs
  <2>3. d = c
    BY <2>1, ConfigurationStays DEF ApplyTool, Applies, table
  <2>4. DOMAIN Tools = {}
    BY <1>3
  <2> HIDE DEF x, c, d
  <2>5. Progress(AfterTool(x), d)
    BY <1>0, <1>2, <2>3, <2>4, AfterToolProgress
  <2> QED
    BY <2>2, <2>5 DEF d
<1>4. CASE Tools # <<>>
  <2> DEFINE y == [x EXCEPT !.pc = "scope"]
             cap == Tools[x.at].cap
  <2>1. handler'[h] = y
    BY <1>4, SetIs DEF ApplyTool, Goto, Tools
  <2>2. d[2] = c[2] \cup {cap} /\ d[3] = c[3] /\ d[4] = c[4]
    BY <1>4, ConfigurationIs DEF ApplyTool, GrantTool, Tools
  <2>3. x.at \in DOMAIN Tools
    <3>1. 1 \in DOMAIN Tools
      BY <1>4, BlueprintConstants DEF Tools
    <3> QED
      BY <1>2, <3>1
  <2> HIDE DEF x, c
  <2>4. y.pc = "scope" /\ y.at = x.at /\ y.failed = x.failed /\ y.start = x.start
    BY <1>0 DEF IsHandler, HandlerFields
  <2> HIDE DEF y, d
  <2>5. ToolsProgress(y, d)
    BY <1>2, <2>2, <2>3, <2>4 DEF ToolsProgress, ToolDone, AtTools
  <2>6. FolderProgress(y, d) /\ SpecsProgress(y, d) /\ ReadProgress(y, d)
    BY <2>4 DEF FolderProgress, SpecsProgress, ReadProgress, AtWorkflows
  <2>7. Satisfied(x.start) => d = c
    <3> SUFFICES ASSUME Satisfied(x.start)
                 PROVE  d = c
      OBVIOUS
    <3>1. cap \in c[2]
      BY <1>2, <2>3, SatisfiedIs DEF ToolDone
    <3>2. d[2] = c[2]
      BY <2>2, <3>1
    <3> QED
      BY <1>1, <2>2, <3>2
  <2>8. Progress(y, d)
    BY <1>2, <2>4, <2>5, <2>6, <2>7 DEF Progress, AtTools
  <2> QED
    BY <2>1, <2>8 DEF d
<1> QED
  BY <1>3, <1>4

LEMMA ScopeProgress ==
    ASSUME HandlersOK, StoredOK, NEW h \in Handlers, Progress(handler[h], Configuration),
           ApplyScope(h)
    PROVE  Progress(handler'[h], Configuration')
<1> DEFINE x == handler[h]
           c == Configuration
           d == Configuration'
           spec == Blueprint.tools[x.at]
<1>0. IsHandler(x) /\ x.pc = "scope" /\ Progress(x, c)
  BY DEF HandlersOK, HandlerOK, ApplyScope, At
<1>1. /\ c[1] = d[1] /\ c[2] = granted /\ c[3] = scope /\ d[3] = scope'
      /\ d = <<d[1], d[2], d[3], d[4]>> /\ c = <<c[1], c[2], c[3], c[4]>>
  BY DEF Configuration, ApplyScope, Applies, table
<1>2. /\ x.failed = FALSE /\ x.at \in DOMAIN Tools /\ spec = Tools[x.at] /\ spec.cap \in c[2]
      /\ \A k \in DOMAIN Tools : k < x.at => ToolDone(Tools[k], c)
      /\ Satisfied(x.start) => c = x.start
  BY <1>0 DEF Progress, ToolsProgress, AtTools, Tools
<1>3. SetScope(spec.cap, spec.scope) /\ Set(h, AfterTool(x))
  BY <1>1, <1>2 DEF ApplyScope
<1>4. handler'[h] = AfterTool(x)
  BY <1>3, SetIs
<1>5. d[2] = c[2] /\ d[4] = c[4] /\ d[3] = [scope EXCEPT ![spec.cap] = spec.scope]
  BY <1>1, <1>3, ConfigurationIs DEF SetScope
<1>6. /\ scope = [i \in Ids |-> scope[i]] /\ spec.cap \in Ids
  BY <1>2, BlueprintIs DEF StoredOK
<1> HIDE DEF x, c, d, spec
<1>7. d[3][spec.cap] = spec.scope /\ \A i \in Ids : i # spec.cap => d[3][i] = c[3][i]
  BY <1>1, <1>5, <1>6
<1>8. \A k \in DOMAIN Tools : k <= x.at => ToolDone(Tools[k], d)
  <2> TAKE k \in DOMAIN Tools
  <2>1. CASE k = x.at
    BY <1>2, <1>5, <1>7, <2>1 DEF ToolDone
  <2>2. CASE k # x.at /\ k <= x.at
    <3>1. k < x.at
      BY <1>2, <2>2, BlueprintIs
    <3>2. Tools[k].cap # spec.cap /\ Tools[k].cap \in Ids
      BY <1>2, <2>2, NamesDiffer, BlueprintIs
    <3> QED
      BY <1>2, <1>5, <1>7, <3>1, <3>2 DEF ToolDone
  <2> QED
    BY <2>1, <2>2
<1>9. Satisfied(x.start) => d = c
  <2> SUFFICES ASSUME Satisfied(x.start)
               PROVE  d = c
    OBVIOUS
  <2>1. c[3][spec.cap] = spec.scope
    BY <1>2, SatisfiedIs DEF ToolDone
  <2>2. d[3] = c[3]
    BY <1>1, <1>5, <1>6, <2>1
  <2> QED
    BY <1>1, <1>5, <2>2
<1>10. Progress(AfterTool(x), d)
  BY <1>0, <1>2, <1>8, <1>9, AfterToolProgress
<1> QED
  BY <1>4, <1>10 DEF d

LEMMA FolderAtProgress ==
    ASSUME HandlersOK, NEW h \in Handlers, Progress(handler[h], Configuration),
           ApplyFolder(h) \/ ApplyEligible(h)
    PROVE  Progress(handler'[h], Configuration')
<1> DEFINE x == handler[h]
           c == Configuration
           d == Configuration'
           y == [x EXCEPT !.pc = "eligible"]
<1>0. IsHandler(x) /\ x.pc \in {"folder", "eligible"} /\ Progress(x, c)
  BY DEF HandlersOK, HandlerOK, ApplyFolder, ApplyEligible, At
<1>1. /\ c[1] = d[1] /\ c[4] = keycard /\ d[4] = keycard'
      /\ d = <<d[1], d[2], d[3], d[4]>> /\ c = <<c[1], c[2], c[3], c[4]>>
  BY DEF Configuration, ApplyFolder, ApplyEligible, Applies, table
<1>2. d[2] = c[2] /\ d[3] = c[3]
  BY ConfigurationIs DEF ApplyFolder, ApplyEligible, AssignFolder, SetEligible, access
<1>3. /\ x.failed = FALSE /\ (\A k \in DOMAIN Tools : ToolDone(Tools[k], c))
      /\ Satisfied(x.start) => c = x.start
  BY <1>0 DEF Progress, ToolsProgress, AtTools
<1>4. \A k \in DOMAIN Tools : ToolDone(Tools[k], d)
  BY <1>2, <1>3 DEF ToolDone
<1>5. Satisfied(x.start) => FolderDone(c)
  BY <1>3, SatisfiedIs
<1>6. \/ handler'[h] = AfterFolder(x) /\ FolderDone(d) /\ (FolderDone(c) => d[4] = c[4])
      \/ /\ handler'[h] = y /\ d[4] # "none" /\ (FolderDone(c) => d[4] = c[4])
         /\ Blueprint.folder /\ Blueprint.eligible
  <2>1. CASE ApplyFolder(h)
    <3>1. CASE Blueprint.folder
      <4>1. keycard' = IF keycard = "none" THEN "visible" ELSE keycard
        BY <2>1, <3>1 DEF ApplyFolder, AssignFolder
      <4>2. d[4] # "none" /\ (FolderDone(c) => d[4] = c[4])
        BY <1>1, <3>1, <4>1 DEF FolderDone
      <4>3. CASE Blueprint.eligible
        BY <2>1, <3>1, <4>2, <4>3, SetIs DEF ApplyFolder
      <4>4. CASE ~Blueprint.eligible
        BY <2>1, <3>1, <4>2, <4>4, SetIs DEF ApplyFolder, FolderDone
      <4> QED
        BY <4>3, <4>4
    <3>2. CASE ~Blueprint.folder
      <4>1. handler'[h] = AfterFolder(x) /\ keycard' = keycard
        BY <2>1, <3>2, SetIs DEF ApplyFolder, access
      <4> QED
        BY <1>1, <3>2, <4>1 DEF FolderDone
    <3> QED
      BY <3>1, <3>2
  <2>2. CASE ApplyEligible(h)
    <3>0. x.pc = "eligible"
      BY <2>2 DEF ApplyEligible, At
    <3>1. Blueprint.folder /\ Blueprint.eligible /\ keycard # "none"
      BY <1>0, <1>1, <3>0 DEF Progress, FolderProgress
    <3>2. handler'[h] = AfterFolder(x) /\ keycard' = "eligible"
      BY <2>2, <3>1, SetIs DEF ApplyEligible, SetEligible
    <3> QED
      BY <1>1, <3>1, <3>2 DEF FolderDone
  <2> QED
    BY <2>1, <2>2
<1> HIDE DEF x, c, d
<1>7. Satisfied(x.start) => d = x.start
  <2>1. d[4] = c[4] => d = c
    BY <1>1, <1>2
  <2> QED
    BY <1>3, <1>5, <1>6, <2>1
<1>8. CASE handler'[h] = AfterFolder(x) /\ FolderDone(d)
  <2>1. Progress(AfterFolder(x), d)
    BY <1>0, <1>3, <1>4, <1>7, <1>8, AfterFolderProgress
  <2> QED
    BY <1>8, <2>1 DEF d
<1>9. CASE handler'[h] = y /\ d[4] # "none" /\ Blueprint.folder /\ Blueprint.eligible
  <2>1. y.pc = "eligible" /\ y.at = x.at /\ y.failed = x.failed /\ y.start = x.start
    BY <1>0 DEF IsHandler, HandlerFields
  <2> HIDE DEF y
  <2>2. ToolsProgress(y, d) /\ FolderProgress(y, d)
    BY <1>4, <1>9, <2>1 DEF ToolsProgress, FolderProgress, AtWorkflows
  <2>3. SpecsProgress(y, d) /\ ReadProgress(y, d)
    BY <2>1 DEF SpecsProgress, ReadProgress, AtWorkflows
  <2>4. Progress(y, d)
    BY <1>3, <1>7, <2>1, <2>2, <2>3 DEF Progress, AtFolder
  <2> QED
    BY <1>9, <2>4 DEF d
<1> QED
  BY <1>6, <1>8, <1>9

(* The invariant, step by step: first the other handlers.                  *)
LEMMA HandlerSets ==
    ASSUME NEW h, Handle(h)
    PROVE  handler' = handler \/ \E y : Set(h, y)
<1>1. CASE Read(h) \/ Create(h) \/ Change(h) \/ Delete(h) \/ SetOrder(h) \/ Apply(h)
  BY <1>1 DEF Read, Create, Change, Delete, SetOrder, Apply
<1>2. CASE CountRows(h) \/ Promote(h) \/ Insert(h) \/ Write(h)
  BY <1>2 DEF CountRows, Promote, Insert, Write, Goto, Done
<1>3. CASE List(h) \/ ReadOrder(h) \/ Submit(h) \/ Dispatch(h)
  BY <1>3 DEF List, ReadOrder, Submit, Dispatch
<1>4. CASE ApplyTool(h) \/ ApplyScope(h) \/ ApplyFolder(h) \/ ApplyEligible(h)
  BY <1>4 DEF ApplyTool, ApplyScope, ApplyFolder, ApplyEligible, Goto
<1>5. CASE ApplyWorkflow(h) \/ ReadMatch(h) \/ Applied(h)
  BY <1>5 DEF ApplyWorkflow, ReadMatch, Applied
<1> QED
  BY <1>1, <1>2, <1>3, <1>4, <1>5 DEF Handle

LEMMA HandlerDisturbs ==
    ASSUME NEW h, Handle(h)
    PROVE  /\ \/ disturbed' = disturbed /\ UNCHANGED <<rows, access>>
              \/ Writes(h) \/ Apply(h)
           /\ Apply(h) => disturbed' = disturbed \ {h} /\ UNCHANGED <<rows, access>>
<1>1. CASE Read(h) \/ Create(h) \/ Change(h) \/ Delete(h) \/ SetOrder(h) \/ Apply(h)
  BY <1>1 DEF Read, Create, Change, Delete, SetOrder, Apply, Request, table, callVars
<1>0. Apply(h) => disturbed' = disturbed \ {h} /\ UNCHANGED <<rows, access>>
  BY DEF Apply, Request, table, callVars
<1>2. CASE CountRows(h) \/ Promote(h) \/ Insert(h) \/ Write(h)
  BY <1>0, <1>2 DEF CountRows, Promote, Insert, Write, table, callVars
<1>3. CASE List(h) \/ ReadOrder(h) \/ Submit(h) \/ Dispatch(h)
  BY <1>0, <1>3 DEF List, ReadOrder, Submit, Dispatch, table, callVars
<1>4. CASE ApplyTool(h) \/ ApplyScope(h) \/ ApplyFolder(h) \/ ApplyEligible(h)
  BY <1>0, <1>4 DEF ApplyTool, ApplyScope, ApplyFolder, ApplyEligible, Applies
<1>5. CASE ApplyWorkflow(h) \/ ReadMatch(h) \/ Applied(h)
  BY <1>0, <1>5 DEF ApplyWorkflow, ReadMatch, Applied, table, callVars
<1> QED
  BY <1>0, <1>1, <1>2, <1>3, <1>4, <1>5 DEF Handle

LEMMA OthersApply ==
    ASSUME HandlersOK, NEW h \in Handlers, Handle(h), NEW g \in Handlers \ {h}, ApplyOK(g)
    PROVE  ApplyOK(g)'
<1>1. handler'[g] = handler[g]
  BY HandlerSets, SetIs
<1>2. \/ g \in disturbed'
      \/ /\ g \in disturbed => g \in disturbed'
         /\ UNCHANGED <<rows, access>>
  BY HandlerDisturbs DEF Writes
<1>3. CASE g \in disturbed'
  BY <1>3 DEF ApplyOK
<1>4. CASE (g \in disturbed => g \in disturbed') /\ UNCHANGED <<rows, access>>
  <2>1. Configuration' = Configuration
    BY <1>4, ConfigurationStays
  <2> QED
    BY <1>1, <1>4, <2>1 DEF ApplyOK
<1> QED
  BY <1>2, <1>3, <1>4

(* Then the one that takes the step.                                       *)
LEMMA OwnApply ==
    ASSUME HandlersOK, TableOK, StoredOK, NEW h \in Handlers, Handle(h), ApplyOK(h)
    PROVE  ApplyOK(h)'
<1> SUFFICES ASSUME Applying(handler'[h]), h \notin disturbed'
             PROVE  Progress(handler'[h], Configuration')
  BY DEF ApplyOK
<1> DEFINE x == handler[h]
           c == Configuration
<1>1. CASE Apply(h)
  BY <1>1, BeginProgress
<1>2. CASE ~Apply(h)
  <2>1. h \notin disturbed
    BY <1>2, HandlerDisturbs DEF Writes
  <2>2. Applying(x) => Progress(x, c)
    BY <2>1 DEF ApplyOK
  <2>3. Applying(x) => x.pc \notin {"idle", "order", "submit"}
    BY <2>2 DEF Progress, AtTools, AtFolder, AtWorkflows
  <2>4. IsHandler(x) /\ Begins(x)
    BY DEF HandlersOK, HandlerOK
  <2>5. CASE Read(h)
    <3>1. PICK op \in {"list", "run"} : Set(h, [Idle EXCEPT !.pc = "count", !.op = op])
      BY <2>5 DEF Read
    <3> DEFINE y == [Idle EXCEPT !.pc = "count", !.op = op]
    <3>2. handler'[h] = y
      BY <3>1, SetIs
    <3>3. y.op = op
      BY IdleIs DEF IsHandler, HandlerFields
    <3> QED
      BY <3>2, <3>3 DEF Applying
  <2>6. CASE Create(h)
    <3>1. PICK f \in Forms :
            Set(h, [Idle EXCEPT !.pc = "insert", !.op = "create", !.id = stamps + 1,
                                !.row = New(f[1], f[2])])
      BY <2>6 DEF Create
    <3> DEFINE row == New(f[1], f[2])
               y == [Idle EXCEPT !.pc = "insert", !.op = "create", !.id = stamps + 1,
                                 !.row = row]
    <3>2. handler'[h] = y
      BY <3>1, SetIs
    <3> HIDE DEF row
    <3>3. y.op = "create"
      BY IdleIs DEF IsHandler, HandlerFields
    <3> QED
      BY <3>2, <3>3 DEF Applying
  <2>7. CASE Change(h)
    <3>1. PICK i \in DOMAIN rows, p \in Patches :
            Set(h, [Idle EXCEPT !.pc = "write", !.op = "update", !.id = i,
                                !.row = Patched(p, Entry(rows[i]))])
      BY <2>7 DEF Change
    <3> DEFINE row == Patched(p, Entry(rows[i]))
               y == [Idle EXCEPT !.pc = "write", !.op = "update", !.id = i, !.row = row]
    <3>2. handler'[h] = y
      BY <3>1, SetIs
    <3> HIDE DEF row
    <3>3. y.op = "update"
      BY IdleIs DEF IsHandler, HandlerFields
    <3> QED
      BY <3>2, <3>3 DEF Applying
  <2>8. CASE Delete(h) \/ SetOrder(h)
    <3>1. handler' = handler /\ x.pc = "idle"
      BY <2>8 DEF Delete, SetOrder, Request
    <3> QED
      BY <2>3, <3>1
  <2>9. CASE CountRows(h) \/ Promote(h)
    <3>1. handler'[h].op = x.op
      <4>1. CASE Goto(h, "list")
        <5>1. handler'[h] = [x EXCEPT !.pc = "list"]
          BY <4>1, SetIs DEF Goto
        <5> QED
          BY <2>4, <5>1, GotoIs
      <4>2. CASE ~Goto(h, "list")
        <5> DEFINE row == New("Workflow", Legacy)
                   y == [x EXCEPT !.pc = "promote", !.id = stamps + 1, !.row = row]
        <5>1. handler'[h] = y
          BY <2>9, <4>2, SetIs DEF CountRows, Promote
        <5> HIDE DEF row
        <5>2. y.op = x.op
          BY <2>4 DEF IsHandler, HandlerFields
        <5> QED
          BY <5>1, <5>2
      <4> QED
        BY <4>1, <4>2
    <3>2. Progress(x, c)
      BY <2>2, <3>1 DEF Applying
    <3> QED
      BY <2>9, <3>2, CountProgress, PromoteProgress
  <2>10. CASE Insert(h) \/ Write(h)
    <3>1. Applying(x)
      <4> SUFFICES ASSUME ~Applying(x)
                   PROVE  handler'[h] = Idle
        BY IdleIs DEF Applying
      <4> QED
        BY <2>10, SetIs DEF Insert, Write, Done, Applying
    <3> QED
      BY <2>2, <2>10, <3>1, InsertProgress, WriteProgress
  <2>11. CASE List(h)
    <3>1. CASE Set(h, Idle)
      BY <3>1, SetIs, IdleIs DEF Applying
    <3>2. CASE Set(h, [x EXCEPT !.pc = "order", !.seen = rows])
      <4>1. [x EXCEPT !.pc = "order", !.seen = rows].op = x.op
        BY <2>4 DEF IsHandler, HandlerFields
      <4>2. x.op # "apply"
        BY <2>11 DEF List
      <4> QED
        BY <3>2, <4>1, <4>2, SetIs DEF Applying
    <3> QED
      BY <2>11, <3>1, <3>2 DEF List
  <2>12. CASE ReadOrder(h)
    <3> DEFINE list == ManualOrder(Eligible(x.seen), order)
               y == [x EXCEPT !.pc = "submit", !.order = order, !.list = list]
    <3>1. handler'[h] = y /\ x.pc = "order"
      BY <2>12, SetIs DEF ReadOrder, At
    <3> HIDE DEF list
    <3>2. y.op = x.op
      BY <2>4 DEF IsHandler, HandlerFields
    <3> QED
      BY <2>3, <3>1, <3>2 DEF Applying
  <2>13. CASE Submit(h) \/ Dispatch(h)
    <3>1. x.pc = "submit"
      BY <2>13 DEF Submit, Dispatch, At
    <3>2. \/ Set(h, Idle) \/ \E n : Set(h, [x EXCEPT !.at = n])
          \/ \E n, made : Set(h, [x EXCEPT !.at = n, !.made = made])
      BY <2>4, <2>13 DEF Submit, Dispatch, IsHandler, HandlerFields
    <3>3. handler'[h] = Idle \/ handler'[h].op = x.op
      <4>1. CASE Set(h, Idle)
        BY <4>1, SetIs
      <4>2. ASSUME NEW n, NEW made,
                   \/ Set(h, [x EXCEPT !.at = n]) \/ Set(h, [x EXCEPT !.at = n, !.made = made])
            PROVE  handler'[h].op = x.op
        <5>1. \/ handler'[h] = [x EXCEPT !.at = n]
              \/ handler'[h] = [x EXCEPT !.at = n, !.made = made]
          BY <4>2, SetIs
        <5> QED
          BY <2>4, <5>1 DEF IsHandler, HandlerFields
      <4> QED
        BY <3>2, <4>1, <4>2
    <3> QED
      BY <2>3, <3>1, <3>3, IdleIs DEF Applying
  <2>14. CASE \/ ApplyTool(h) \/ ApplyScope(h) \/ ApplyFolder(h) \/ ApplyEligible(h)
              \/ ApplyWorkflow(h) \/ ReadMatch(h)
    <3>1. x.op = "apply"
      BY <2>4, <2>14 DEF Begins, ApplyTool, ApplyScope, ApplyFolder, ApplyEligible,
         ApplyWorkflow, ReadMatch, At
    <3>2. Applying(x) /\ Progress(x, c)
      BY <2>2, <3>1 DEF Applying
    <3> QED
      BY <2>14, <3>2, ToolProgress, ScopeProgress, FolderAtProgress, MatchProgress
  <2>15. CASE Applied(h)
    BY <2>15, SetIs, IdleIs DEF Applied, Applying
  <2> QED
    BY <1>2, <2>5, <2>6, <2>7, <2>8, <2>9, <2>10, <2>11, <2>12, <2>13, <2>14, <2>15
    DEF Handle
<1> QED
  BY <1>1, <1>2

(* Rows are records, and their ids have been given out.                    *)
LEMMA StampsGrow ==
    ASSUME TableOK, NEW h, Handle(h)
    PROVE  stamps' = stamps \/ stamps' = stamps + 1
  BY DEF Handle, Read, Create, Change, Delete, SetOrder, Apply, CountRows, Promote,
         Insert, Write, List, ReadOrder, Submit, Dispatch, ApplyTool, ApplyScope,
         ApplyFolder, ApplyEligible, Applies, ApplyWorkflow, ReadMatch, Applied, Stamp

LEMMA NewIsRow == \A n, code : IsRow(New(n, code))
  BY DEF IsRow, New, Columns

LEMMA PatchedIsRow == \A p, row : IsRow(Patched(p, row))
  BY DEF IsRow, Patched

LEMMA AfterPcs ==
    ASSUME NEW x, IsHandler(x)
    PROVE  ~Writing(AfterTool(x)) /\ ~Writing(AfterFolder(x)) /\ ~Writing(NextSpec(x))
<1>1. ~Writing(AfterTool(x))
  <2> DEFINE p == IF x.at < Len(Blueprint.tools) THEN "tool" ELSE "folder"
             n == IF x.at < Len(Blueprint.tools) THEN x.at + 1 ELSE 1
  <2>1. AfterTool(x) = [x EXCEPT !.at = n, !.pc = p]
    BY DEF AfterTool, IsHandler, HandlerFields
  <2>2. p \in {"tool", "folder"}
    OBVIOUS
  <2> HIDE DEF p, n
  <2>3. AfterTool(x).pc = p
    BY <2>1 DEF IsHandler, HandlerFields
  <2> QED
    BY <2>2, <2>3 DEF Writing
<1>2. ~Writing(AfterFolder(x))
  <2> DEFINE p == IF Blueprint.workflows = <<>> THEN "applied" ELSE "count"
  <2>1. AfterFolder(x) = [x EXCEPT !.at = 1, !.pc = p]
    BY DEF AfterFolder
  <2>2. p \in {"count", "applied"}
    OBVIOUS
  <2> HIDE DEF p
  <2>3. AfterFolder(x).pc = p
    BY <2>1 DEF IsHandler, HandlerFields
  <2> QED
    BY <2>2, <2>3 DEF Writing
<1>3. ~Writing(NextSpec(x))
  <2> DEFINE p == IF x.at < Len(Blueprint.workflows) THEN "count" ELSE "applied"
             n == x.at + 1
  <2>1. NextSpec(x) = [x EXCEPT !.at = n, !.pc = p]
    BY DEF NextSpec, IsHandler, HandlerFields
  <2>2. p \in {"count", "applied"}
    OBVIOUS
  <2> HIDE DEF p, n
  <2>3. NextSpec(x).pc = p
    BY <2>1 DEF IsHandler, HandlerFields
  <2> QED
    BY <2>2, <2>3 DEF Writing
<1> QED
  BY <1>1, <1>2, <1>3

LEMMA NotWriting ==
    ASSUME NEW y, ~Writing(y), NEW n
    PROVE  WritesRow(y, n)
  BY DEF WritesRow, Writing

LEMMA OwnWrites ==
    ASSUME HandlersOK, TableOK, NEW h \in Handlers, Handle(h)
    PROVE  handler'[h] = handler[h] \/ WritesRow(handler'[h], stamps')
<1> DEFINE x == handler[h]
           z == [x EXCEPT !.failed = TRUE]
<1>0. IsHandler(x) /\ IsHandler(z)
  BY FailedIs DEF HandlersOK, HandlerOK
<1>1. ASSUME NEW y, Set(h, y), ~Writing(y)
      PROVE  WritesRow(handler'[h], stamps')
  BY <1>1, SetIs, NotWriting
<1>2. ASSUME NEW p, p \notin {"insert", "promote", "write"}, Goto(h, p)
      PROVE  WritesRow(handler'[h], stamps')
  <2>1. Set(h, [x EXCEPT !.pc = p])
    BY <1>2 DEF Goto
  <2>2. ~Writing([x EXCEPT !.pc = p])
    BY <1>0, <1>2, GotoIs DEF Writing
  <2> QED
    BY <1>1, <2>1, <2>2
<1>3. ~Writing(Idle)
  BY IdleIs DEF Writing
<1>4. Done(h) => WritesRow(handler'[h], stamps')
  BY <1>0, <1>1, <1>3, AfterPcs DEF Done
<1>5. CASE Read(h)
  <2>1. PICK op \in {"list", "run"} : Set(h, [Idle EXCEPT !.pc = "count", !.op = op])
    BY <1>5 DEF Read
  <2> DEFINE y == [Idle EXCEPT !.pc = "count", !.op = op]
  <2>2. y.pc = "count"
    BY IdleIs DEF IsHandler, HandlerFields
  <2>3. Set(h, y)
    BY <2>1
  <2> HIDE DEF y
  <2> QED
    BY <1>1, <2>2, <2>3 DEF Writing
<1>6. CASE Create(h)
  <2>1. PICK f \in Forms :
          Set(h, [Idle EXCEPT !.pc = "insert", !.op = "create", !.id = stamps + 1,
                              !.row = New(f[1], f[2])])
    BY <1>6 DEF Create
  <2> DEFINE row == New(f[1], f[2])
             y == [Idle EXCEPT !.pc = "insert", !.op = "create", !.id = stamps + 1,
                               !.row = row]
  <2>2. handler'[h] = y
    BY <2>1, SetIs
  <2>3. IsRow(row)
    BY NewIsRow
  <2> HIDE DEF row
  <2>4. y.id = stamps + 1 /\ y.row = row
    BY IdleIs DEF IsHandler, HandlerFields
  <2>5. stamps' = stamps + 1 /\ stamps \in Nat
    BY <1>6 DEF Create, Stamp, TableOK
  <2> HIDE DEF y
  <2>6. y.id <= stamps' /\ IsRow(y.row)
    BY <2>3, <2>4, <2>5
  <2> QED
    BY <2>2, <2>6 DEF WritesRow
<1>7. CASE Change(h)
  <2>1. PICK i \in DOMAIN rows, p \in Patches :
          Set(h, [Idle EXCEPT !.pc = "write", !.op = "update", !.id = i,
                              !.row = Patched(p, Entry(rows[i]))])
    BY <1>7 DEF Change
  <2> DEFINE row == Patched(p, Entry(rows[i]))
             y == [Idle EXCEPT !.pc = "write", !.op = "update", !.id = i, !.row = row]
  <2>2. handler'[h] = y
    BY <2>1, SetIs
  <2>3. IsRow(row)
    BY PatchedIsRow
  <2> HIDE DEF row
  <2>4. y.pc = "write" /\ y.row = row
    BY IdleIs DEF IsHandler, HandlerFields
  <2> HIDE DEF y
  <2> QED
    BY <2>2, <2>3, <2>4 DEF WritesRow
<1>8. CASE Delete(h) \/ SetOrder(h)
  BY <1>8 DEF Delete, SetOrder
<1>9. CASE Apply(h)
  <2> DEFINE c == Configuration
             y == [Idle EXCEPT !.pc = "tool", !.op = "apply", !.start = c]
  <2>1. Set(h, y)
    BY <1>9 DEF Apply
  <2> HIDE DEF c
  <2>2. y.pc = "tool"
    BY IdleIs DEF IsHandler, HandlerFields
  <2> HIDE DEF y
  <2> QED
    BY <1>1, <2>1, <2>2 DEF Writing
<1>10. CASE CountRows(h)
  <2>1. CASE Goto(h, "list")
    BY <1>2, <2>1
  <2>2. CASE ~Goto(h, "list")
    <3> DEFINE row == New("Workflow", Legacy)
               y == [x EXCEPT !.pc = "promote", !.id = stamps + 1, !.row = row]
    <3>1. handler'[h] = y
      BY <1>10, <2>2, SetIs DEF CountRows
    <3>2. IsRow(row)
      BY NewIsRow
    <3> HIDE DEF row, x
    <3>3. y.id = stamps + 1 /\ y.row = row
      BY <1>0 DEF IsHandler, HandlerFields
    <3>4. stamps' = stamps + 1 /\ stamps \in Nat
      BY <1>10, <2>2 DEF CountRows, Stamp, TableOK
    <3> HIDE DEF y
    <3>5. y.id <= stamps' /\ IsRow(y.row)
      BY <3>2, <3>3, <3>4
    <3> QED
      BY <3>1, <3>5 DEF WritesRow
  <2> QED
    BY <2>1, <2>2
<1>11. CASE Promote(h)
  BY <1>2, <1>11 DEF Promote
<1>12. CASE Insert(h)
  BY <1>4, <1>12 DEF Insert
<1>13. CASE Write(h)
  <2>1. Done(h) \/ Set(h, NextSpec(z)) \/ Set(h, Idle)
    BY <1>13 DEF Write
  <2> HIDE DEF z
  <2> QED
    BY <1>0, <1>1, <1>3, <1>4, <2>1, AfterPcs
<1>14. CASE List(h)
  <2> DEFINE y == [x EXCEPT !.pc = "order", !.seen = rows]
  <2>1. Set(h, Idle) \/ Set(h, y)
    BY <1>14 DEF List
  <2>2. y.pc = "order"
    BY <1>0 DEF IsHandler, HandlerFields
  <2> HIDE DEF y
  <2> QED
    BY <1>1, <1>3, <2>1, <2>2 DEF Writing
<1>15. CASE ReadOrder(h)
  <2> DEFINE list == ManualOrder(Eligible(x.seen), order)
             y == [x EXCEPT !.pc = "submit", !.order = order, !.list = list]
  <2>1. Set(h, y)
    BY <1>15 DEF ReadOrder
  <2> HIDE DEF list
  <2>2. y.pc = "submit"
    BY <1>0 DEF IsHandler, HandlerFields
  <2> HIDE DEF y
  <2> QED
    BY <1>1, <2>1, <2>2 DEF Writing
<1>16. CASE Submit(h) \/ Dispatch(h)
  <2>1. x.pc = "submit"
    BY <1>16 DEF Submit, Dispatch, At
  <2>2. \/ Set(h, Idle) \/ \E n : Set(h, [x EXCEPT !.at = n])
        \/ \E n, made : Set(h, [x EXCEPT !.at = n, !.made = made])
    BY <1>16 DEF Submit, Dispatch
  <2>3. ASSUME NEW n, NEW made
        PROVE  ~Writing([x EXCEPT !.at = n]) /\ ~Writing([x EXCEPT !.at = n, !.made = made])
    BY <1>0, <2>1 DEF IsHandler, HandlerFields, Writing
  <2> QED
    BY <1>1, <1>3, <2>2, <2>3
<1>17. CASE ApplyTool(h) \/ ApplyScope(h) \/ ApplyFolder(h) \/ ApplyEligible(h)
  <2>1. \/ Goto(h, "scope") \/ Set(h, [x EXCEPT !.pc = "eligible"])
        \/ Set(h, AfterTool(x)) \/ Set(h, AfterTool(z))
        \/ Set(h, AfterFolder(x)) \/ Set(h, AfterFolder(z))
    BY <1>17 DEF ApplyTool, ApplyScope, ApplyFolder, ApplyEligible
  <2>2. Set(h, [x EXCEPT !.pc = "eligible"]) => Goto(h, "eligible")
    BY DEF Goto
  <2> HIDE DEF x, z
  <2> QED
    BY <1>0, <1>1, <1>2, <2>1, <2>2, AfterPcs
<1>18. CASE ApplyWorkflow(h)
  <2> DEFINE spec == Blueprint.workflows[x.at]
             i == Sorted(Named(spec.name))[1]
             row == Patched(spec, New(spec.name, spec.code))
             y == [x EXCEPT !.pc = "insert", !.id = stamps + 1, !.row = row]
  <2>1. CASE Named(spec.name) = {}
    <3>1. handler'[h] = y
      BY <1>18, <2>1, SetIs DEF ApplyWorkflow
    <3>2. IsRow(row)
      BY PatchedIsRow
    <3>3. stamps' = stamps + 1 /\ stamps \in Nat
      BY <1>18, <2>1 DEF ApplyWorkflow, Stamp, TableOK
    <3> HIDE DEF row, x
    <3>4. y.id = stamps + 1 /\ y.row = row
      BY <1>0 DEF IsHandler, HandlerFields
    <3> HIDE DEF y
    <3>5. y.id <= stamps' /\ IsRow(y.row)
      BY <3>2, <3>3, <3>4
    <3> QED
      BY <3>1, <3>5 DEF WritesRow
  <2>2. CASE Named(spec.name) # {}
    <3>1. Set(h, [x EXCEPT !.pc = "read", !.id = i])
      BY <1>18, <2>2 DEF ApplyWorkflow
    <3> HIDE DEF i, x
    <3>2. ~Writing([x EXCEPT !.pc = "read", !.id = i])
      BY <1>0 DEF IsHandler, HandlerFields, Writing
    <3> QED
      BY <1>1, <3>1, <3>2
  <2> QED
    BY <2>1, <2>2
<1>19. CASE ReadMatch(h)
  <2> DEFINE row == Patched(Blueprint.workflows[x.at], Entry(rows[x.id]))
             y == [x EXCEPT !.pc = "write", !.row = row]
  <2>1. Set(h, y) \/ Set(h, NextSpec(z))
    BY <1>19 DEF ReadMatch
  <2>2. IsRow(row)
    BY PatchedIsRow
  <2> HIDE DEF row, x, z
  <2>3. y.pc = "write" /\ y.row = row
    BY <1>0 DEF IsHandler, HandlerFields
  <2> HIDE DEF y
  <2>4. WritesRow(y, stamps')
    BY <2>2, <2>3 DEF WritesRow
  <2>5. CASE Set(h, y)
    BY <2>4, <2>5, SetIs
  <2>6. CASE Set(h, NextSpec(z))
    BY <1>0, <1>1, <2>6, AfterPcs
  <2> QED
    BY <2>1, <2>5, <2>6
<1>20. CASE Applied(h)
  BY <1>1, <1>3, <1>20 DEF Applied
<1> QED
  BY <1>5, <1>6, <1>7, <1>8, <1>9, <1>10, <1>11, <1>12, <1>13, <1>14, <1>15, <1>16,
     <1>17, <1>18, <1>19, <1>20 DEF Handle

LEMMA NextWrites ==
    ASSUME HandlersOK, TableOK, WritesOK, NEW h \in Handlers, Handle(h)
    PROVE  WritesOK'
<1>1. ASSUME NEW x, WritesRow(x, stamps), x.pc \in {"insert", "promote"} => x.id \in Nat
      PROVE  WritesRow(x, stamps')
  BY <1>1, StampsGrow DEF WritesRow, TableOK
<1>2. ASSUME NEW g \in Handlers
      PROVE  WritesRow(handler[g], stamps')
  BY <1>1 DEF WritesOK, HandlersOK, HandlerOK
<1>3. ASSUME NEW g \in Handlers
      PROVE  WritesRow(handler'[g], stamps')
  <2>1. CASE g = h
    BY <1>2, <2>1, OwnWrites
  <2>2. CASE g # h
    <3>1. handler'[g] = handler[g]
      BY <2>2, HandlerSets, SetIs
    <3> QED
      BY <1>2, <3>1
  <2> QED
    BY <2>1, <2>2
<1> QED
  BY <1>3 DEF WritesOK

RowsStored(rows_, given) ==
    /\ rows_ = [i \in DOMAIN rows_ |-> rows_[i]]
    /\ \A i \in DOMAIN rows_ : i <= given /\ IsRow(rows_[i])

LEMMA RowsPut ==
    ASSUME NEW rows_, NEW n, RowsStored(rows_, n), NEW id, id <= n, NEW row, IsRow(row)
    PROVE  RowsStored(Put(rows_, id, row), n)
  BY DEF RowsStored, Put

LEMMA NextRows ==
    ASSUME HandlersOK, TableOK, WritesOK, StoredOK, NEW h \in Handlers, Handle(h)
    PROVE  RowsStored(rows', stamps')
<1> DEFINE x == handler[h]
<1>1. RowsStored(rows, stamps)
  BY DEF StoredOK, RowsStored
<1>2. stamps \in Nat /\ DOMAIN rows \subseteq Nat /\ (stamps' = stamps \/ stamps' = stamps + 1)
  BY StampsGrow DEF TableOK, IsTable
<1>3. RowsStored(rows, stamps')
  BY <1>1, <1>2 DEF RowsStored
<1>4. CASE rows' = rows
  BY <1>3, <1>4
<1>5. CASE Delete(h)
  <2>1. PICK i \in DOMAIN rows : rows' = [j \in DOMAIN rows \ {i} |-> rows[j]]
    BY <1>5 DEF Delete
  <2> QED
    BY <1>3, <2>1 DEF RowsStored
<1>6. CASE Promote(h) \/ Insert(h)
  <2>1. x.pc \in {"insert", "promote"} /\ rows' = Put(rows, x.id, x.row) /\ stamps' = stamps
    BY <1>6 DEF Promote, Insert, At, Put
  <2>2. IsRow(x.row) /\ x.id <= stamps
    BY <2>1 DEF WritesOK, WritesRow, Writing
  <2> QED
    BY <1>1, <2>1, <2>2, RowsPut
<1>7. CASE Write(h) /\ rows' # rows
  <2>1. /\ x.pc = "write" /\ x.id \in DOMAIN rows /\ stamps' = stamps
        /\ rows' = [rows EXCEPT ![x.id] = x.row]
    BY <1>7 DEF Write, At
  <2>2. IsRow(x.row)
    BY <2>1 DEF WritesOK, WritesRow, Writing
  <2> HIDE DEF x
  <2> QED
    BY <1>1, <2>1, <2>2 DEF RowsStored
<1>8. rows' = rows \/ Delete(h) \/ Promote(h) \/ Insert(h) \/ Write(h)
  BY DEF Handle, Read, Create, Change, SetOrder, Apply, CountRows, List, ReadOrder,
         Submit, Dispatch, ApplyTool, ApplyScope, ApplyFolder, ApplyEligible, Applies,
         ApplyWorkflow, ReadMatch, Applied, table
<1> QED
  BY <1>4, <1>5, <1>6, <1>7, <1>8

LEMMA ScopesStay ==
    ASSUME scope = [c \in Ids |-> scope[c]],
           UNCHANGED scope \/ \E c, s : scope' = [scope EXCEPT ![c] = s]
    PROVE  scope' = [c \in Ids |-> scope'[c]]
  OBVIOUS

LEMMA HandleScope ==
    ASSUME NEW h, Handle(h)
    PROVE  UNCHANGED scope \/ \E c, s : scope' = [scope EXCEPT ![c] = s]
<1>1. CASE ApplyTool(h) \/ ApplyScope(h) \/ ApplyFolder(h) \/ ApplyEligible(h)
  BY <1>1 DEF ApplyTool, ApplyScope, ApplyFolder, ApplyEligible, GrantTool, SetScope,
              AssignFolder, SetEligible, access
<1>2. CASE ~(ApplyTool(h) \/ ApplyScope(h) \/ ApplyFolder(h) \/ ApplyEligible(h))
  BY <1>2 DEF Handle, Read, Create, Change, Delete, SetOrder, Apply, Request, CountRows,
              Promote, Insert, Write, List, ReadOrder, Submit, Dispatch, ApplyWorkflow,
              ReadMatch, Applied, callVars, access
<1> QED
  BY <1>1, <1>2

LEMMA InitApply == Init => ApplyInv
<1> SUFFICES ASSUME Init
             PROVE  ApplyInv
  OBVIOUS
<1>1. rows = NoRows /\ scope = [c \in Ids |-> "local"]
  BY DEF Init
<1>2. StoredOK
  BY <1>1 DEF StoredOK, NoRows
<1>3. \A h \in Handlers : handler[h] = Idle
  BY DEF Init
<1>4. WritesOK
  BY <1>3, IdleIs DEF WritesOK, WritesRow, Writing
<1>5. \A h \in Handlers : ApplyOK(h)
  BY <1>3, IdleIs DEF ApplyOK, Applying
<1> QED
  BY <1>2, <1>4, <1>5 DEF ApplyInv

LEMMA NextApply == BatchInv /\ ApplyInv /\ [Next]_vars => ApplyInv'
<1> SUFFICES ASSUME BatchInv, ApplyInv, [Next]_vars
             PROVE  ApplyInv'
  OBVIOUS
<1>0. HandlersOK /\ TableOK /\ StoredOK /\ WritesOK /\ \A h \in Handlers : ApplyOK(h)
  BY DEF BatchInv, ApplyInv
<1>1. CASE \E h \in Handlers : Handle(h)
  <2>1. PICK h \in Handlers : Handle(h)
    BY <1>1
  <2>2. RowsStored(rows', stamps') /\ scope' = [c \in Ids |-> scope'[c]]
    BY <1>0, <2>1, NextRows, HandleScope, ScopesStay DEF StoredOK
  <2>3. StoredOK'
    BY <2>2 DEF StoredOK, RowsStored
  <2>4. \A g \in Handlers : ApplyOK(g)'
    BY <1>0, <2>1, OwnApply, OthersApply
  <2>5. WritesOK'
    BY <1>0, <2>1, NextWrites
  <2> QED
    BY <2>3, <2>4, <2>5 DEF ApplyInv
<1>2. CASE Work \/ UNCHANGED vars
  <2>1. UNCHANGED <<rows, stamps, handler, disturbed>> /\ UNCHANGED access
    <3>1. CASE StartRun \/ NextBatch \/ Resume \/ EndRun \/ UNCHANGED vars
      BY <3>1 DEF StartRun, NextBatch, Resume, EndRun, vars, table, callVars
    <3>2. CASE CallTool
      BY <3>2 DEF CallTool, Enter, table
    <3>3. CASE Tool
      BY <3>3 DEF Tool, CallStep, Ask, RunFunction, BeginCombination, InvokeComponent,
                  EndCombination, table
    <3> QED
      BY <1>2, <3>1, <3>2, <3>3 DEF Work
  <2>2. UNCHANGED Configuration /\ UNCHANGED scope
    BY <2>1, ConfigurationStays DEF access
  <2>3. StoredOK' /\ WritesOK'
    BY <1>0, <2>1, <2>2 DEF StoredOK, WritesOK
  <2>4. \A h \in Handlers : ApplyOK(h)'
    BY <1>0, <2>1, <2>2 DEF ApplyOK
  <2> QED
    BY <2>3, <2>4 DEF ApplyInv
<1>3. CASE EditAccess
  <2>1. UNCHANGED <<rows, stamps, handler>> /\ disturbed' = Handlers /\ Edit
    BY <1>3 DEF EditAccess, table
  <2>2. UNCHANGED scope \/ \E c, s : scope' = [scope EXCEPT ![c] = s]
    BY <2>1 DEF Edit, GrantTool, RevokeTool, SetScope, Allow, Deny, AssignFolder,
                RemoveFolder, SetEligible
  <2>3. scope' = [c \in Ids |-> scope'[c]]
    BY <1>0, <2>2, ScopesStay DEF StoredOK
  <2>4. StoredOK' /\ WritesOK'
    BY <1>0, <2>1, <2>3 DEF StoredOK, WritesOK
  <2>5. \A h \in Handlers : ApplyOK(h)'
    BY <2>1 DEF ApplyOK
  <2> QED
    BY <2>4, <2>5 DEF ApplyInv
<1> QED
  BY <1>1, <1>2, <1>3 DEF Next

(* Applying a blueprint converges: an apply that nobody writes during ends *)
(* without a failed step and with everything the blueprint asks for, and   *)
(* one that finds it all there leaves rows, tools, scopes and folder as    *)
(* they were (agent_blueprint_service.py, apply), for any blueprint whose  *)
(* tools and workflow names differ.                                        *)
THEOREM ApplyAlwaysConverges == Spec => []ApplyConverges
<1>1. ApplyInv /\ BatchInv => ApplyConverges
  <2> SUFFICES ASSUME ApplyInv, BatchInv, NEW h \in Handlers,
                      handler[h].pc = "applied", h \notin disturbed
               PROVE  /\ ~handler[h].failed /\ Satisfied(Configuration)
                      /\ Satisfied(handler[h].start) => Configuration = handler[h].start
    BY DEF ApplyConverges
  <2> DEFINE x == handler[h]
             c == Configuration
  <2>1. Progress(x, c)
    BY DEF ApplyInv, ApplyOK, Applying, BatchInv, HandlersOK, HandlerOK, Begins
  <2> HIDE DEF c
  <2>2. ~x.failed /\ (Satisfied(x.start) => c = x.start)
    BY <2>1 DEF Progress
  <2>3. \A k \in DOMAIN Tools : ToolDone(Tools[k], c)
    BY <2>1 DEF Progress, ToolsProgress, AtTools
  <2>4. FolderDone(c) /\ \A k \in DOMAIN Workflows : SpecDone(Workflows[k], c[1])
    BY <2>1 DEF Progress, FolderProgress, SpecsProgress
  <2>5. Satisfied(c)
    BY <2>3, <2>4, SatisfiedIs
  <2> QED
    BY <2>2, <2>5 DEF c
<1> QED
  BY <1>1, InitBites, NextBites, InitBatch, NextBatches, InitApply, NextApply, PTL DEF Spec
=============================================================================
