-------------------------- MODULE CapabilityCalls --------------------------
(***************************************************************************)
(* The calls a workflow makes through capability_registry.<id>(...): the   *)
(* proxy looks the capability up, WorkflowRuntime.invoke asks for          *)
(* permission, then runs its function, or, for a combination, invokes its  *)
(* components one after the other and merges what they return.  Meanwhile  *)
(* requests change what the agent is allowed; each is one step here, and   *)
(* AgentPermissions has the transactions it is made of.  The Keycard has   *)
(* at most one entry, the folder all targets are in.                       *)
(***************************************************************************)
EXTENDS Integers, Sequences, FiniteSets

CONSTANTS
    FunctionIds,     \* installed capabilities of type "function"
    CompositeIds,    \* installed capabilities of type "composite"
    Missing,         \* capability ids that no installed package has
    ExecutionOrder,  \* composite -> the ids of its components, in order
    Logic,           \* composite -> "merge", "first" or "collect"
    Output,          \* function -> the keys of the dict it returns
    Owned,           \* tools the agent has been granted before
    Targets,         \* files a workflow may run on; all lie in one folder
    RecursionLimit,  \* nested calls Python allows
    Edited           \* bound: tools whose permissions other requests change

Installed == FunctionIds \cup CompositeIds
Ids       == Installed \cup Missing

ASSUME CallConstants ==
    /\ FunctionIds \cap CompositeIds = {} /\ Installed \cap Missing = {}
    /\ ExecutionOrder \in [CompositeIds -> Seq(Ids) \ {<<>>}]
    /\ Logic \in [CompositeIds -> {"merge", "first", "collect"}]
    /\ Edited \subseteq Ids
    /\ RecursionLimit \in Nat \ {0}

VARIABLES
    granted, scope,  \* tools of the agent, and the scope of each
    permitted,       \* tool-file permissions in state granted
    keycard,         \* the folder's entry: "none", "visible" or "eligible"
    target,          \* the file the calls are about
    stack,           \* the capabilities being invoked, outermost first
    reply,           \* what the workflow's call ended with, if it has
    late             \* history: executions since the tool was last allowed

access    == <<granted, scope, permitted, keycard>>
callState == <<target, stack, reply>>
callVars  == <<access, callState, late>>

-----------------------------------------------------------------------------
(* is_capability_allowed_for_agent *)
InScope(c, t) ==
    \/ keycard = "eligible"
    \/ scope[c] = "local" /\ <<c, t>> \in permitted

Allowed(c, t) == c \in Installed /\ c \in granted /\ InScope(c, t)

(* Something the check looks at changes: what is allowed now is not late.  *)
Recount == late' = [p \in Ids \X Targets |-> IF Allowed(p[1], p[2])' THEN 0 ELSE late[p]]

GrantTool(c) ==
    /\ granted' = granted \cup {c}
    /\ UNCHANGED <<scope, permitted, keycard>>

RevokeTool(c) ==
    /\ granted' = granted \ {c}
    /\ permitted' = {p \in permitted : p[1] # c}
    /\ UNCHANGED <<scope, keycard>>

SetScope(c, s) ==
    /\ c \in granted
    /\ scope' = [scope EXCEPT ![c] = s]
    /\ UNCHANGED <<granted, permitted, keycard>>

Allow(c, t) ==
    /\ c \in granted /\ keycard = "eligible"
    /\ permitted' = permitted \cup {<<c, t>>}
    /\ UNCHANGED <<granted, scope, keycard>>

Deny(c, t) ==
    /\ c \in granted
    /\ permitted' = permitted \ {<<c, t>>}
    /\ UNCHANGED <<granted, scope, keycard>>

(* assign_folder keeps the eligibility the entry has.                      *)
AssignFolder ==
    /\ keycard' = IF keycard = "none" THEN "visible" ELSE keycard
    /\ UNCHANGED <<granted, scope, permitted>>

SetEligible(on) ==
    /\ keycard # "none"
    /\ keycard' = IF on THEN "eligible" ELSE "visible"
    /\ UNCHANGED <<granted, scope, permitted>>

RemoveFolder ==
    /\ keycard' = "none"
    /\ UNCHANGED <<granted, scope, permitted>>

Edit ==
    /\ \/ \E c \in Edited :
            \/ GrantTool(c) \/ RevokeTool(c)
            \/ \E s \in {"local", "global"} : SetScope(c, s)
            \/ \E t \in Targets : Allow(c, t) \/ Deny(c, t)
       \/ AssignFolder \/ RemoveFolder \/ \E on \in BOOLEAN : SetEligible(on)
    /\ Recount
    /\ UNCHANGED callState

-----------------------------------------------------------------------------
(* A dict: a function from its keys to whose value it holds.               *)
NoKeys == [k \in {} |-> k]

(* d.update(e) *)
Update(d, e) == [k \in DOMAIN d \cup DOMAIN e |-> IF k \in DOMAIN e THEN e[k] ELSE d[k]]

(* per: the results of the components so far, in order; merged: their      *)
(* union, later ones winning.                                              *)
NoReply == [is |-> "none", of |-> "", dict |-> NoKeys]
Error   == [NoReply EXCEPT !.is = "error"]
Value(c, d) == [is |-> "value", of |-> c, dict |-> d]

Frame(c) == [cap |-> c, pc |-> "ask", per |-> <<>>, merged |-> NoKeys]

Top  == stack[Len(stack)]
Rest == SubSeq(stack, 1, Len(stack) - 1)
SetTop(f) == stack' = Append(Rest, f)

(* CapabilityRegistryProxy: the attribute is resolved before the call.     *)
Enter(c) ==
    /\ stack = <<>> /\ reply = NoReply
    /\ IF c \in Installed
       THEN stack' = <<Frame(c)>> /\ UNCHANGED reply
       ELSE reply' = Error /\ UNCHANGED stack
    /\ UNCHANGED <<access, target, late>>

(* Defect: a combination goes on without the component that was refused.   *)
FailSkips ==
    /\ IF Len(stack) > 1
       THEN /\ stack' = [SubSeq(stack, 1, Len(stack) - 1) EXCEPT
                           ![Len(stack) - 1].per = Append(@, NoKeys)]
            /\ UNCHANGED reply
       ELSE stack' = <<>> /\ reply' = Error

(* An exception goes through every combination on the stack.               *)
Fail == stack' = <<>> /\ reply' = Error

(* The dict goes to the combination that asked, or to the workflow.        *)
Deliver(d) ==
    IF Len(stack) = 1
    THEN stack' = <<>> /\ reply' = Value(Top.cap, d)
    ELSE LET caller == stack[Len(stack) - 1]
         IN  /\ stack' = Append(SubSeq(stack, 1, Len(stack) - 2),
                                [caller EXCEPT !.per = Append(@, d),
                                               !.merged = Update(@, d)])
             /\ UNCHANGED reply

(* Defect: a combination's permission stands for its components'.          *)
AskOutermost ==
    /\ stack # <<>> /\ Top.pc = "ask"
    /\ IF Len(stack) > 1 \/ Allowed(Top.cap, target)
       THEN SetTop([Top EXCEPT !.pc = "go"]) /\ UNCHANGED reply
       ELSE Fail
    /\ UNCHANGED <<access, target, late>>

(* invoke asks; what has been allowed then runs, whatever changes since.   *)
Ask ==
    /\ stack # <<>> /\ Top.pc = "ask"
    /\ IF Allowed(Top.cap, target)
       THEN SetTop([Top EXCEPT !.pc = "go"]) /\ UNCHANGED reply
       ELSE Fail
    /\ UNCHANGED <<access, target, late>>

Count == late' = IF Allowed(Top.cap, target) THEN late
                 ELSE [late EXCEPT ![<<Top.cap, target>>] = @ + 1]

(* implementation_logic returns its dict, or raises.                       *)
RunFunction ==
    /\ stack # <<>> /\ Top.pc = "go" /\ Top.cap \in FunctionIds
    /\ \/ Deliver([k \in Output[Top.cap] |-> Top.cap])
       \/ Fail
    /\ Count
    /\ UNCHANGED <<access, target>>

(* _invoke_combination begins ...                                          *)
BeginCombination ==
    /\ stack # <<>> /\ Top.pc = "go" /\ Top.cap \in CompositeIds
    /\ SetTop([Top EXCEPT !.pc = "parts"])
    /\ Count
    /\ UNCHANGED <<access, target, reply>>

(* ... invokes one component after the other; a combination that contains  *)
(* itself ends with RecursionError ...                                     *)
InvokeComponent ==
    /\ stack # <<>> /\ Top.pc = "parts"
    /\ Len(Top.per) < Len(ExecutionOrder[Top.cap])
    /\ IF Len(stack) < RecursionLimit
       THEN /\ stack' = Append(stack, Frame(ExecutionOrder[Top.cap][Len(Top.per) + 1]))
            /\ UNCHANGED reply
       ELSE Fail
    /\ UNCHANGED <<access, target, late>>

(* resolve_combination_logic: merge, first, collect.                       *)
Combine(f) ==
    LET ids == ExecutionOrder[f.cap]
    IN  CASE Logic[f.cap] = "merge"   -> f.merged
          [] Logic[f.cap] = "first"   ->
               \* per_component keeps the last result of an id
               f.per[CHOOSE i \in DOMAIN ids :
                       ids[i] = ids[1] /\ \A j \in DOMAIN ids : ids[j] = ids[1] => j <= i]
          [] Logic[f.cap] = "collect" -> [k \in {ids[i] : i \in DOMAIN ids} |-> k]

(* ... and combines their results.                                         *)
EndCombination ==
    /\ stack # <<>> /\ Top.pc = "parts"
    /\ Len(Top.per) = Len(ExecutionOrder[Top.cap])
    /\ Deliver(Combine(Top))
    /\ UNCHANGED <<access, target, late>>

CallStep == Ask \/ RunFunction \/ BeginCombination \/ InvokeComponent \/ EndCombination

-----------------------------------------------------------------------------
(* What capabilities return when nothing fails: a function its dict, and a *)
(* combination, if below says what its components return, those combined.  *)
Shallow == [c \in Installed |->
              IF c \in FunctionIds THEN [k \in Output[c] |-> c] ELSE NoKeys]

LastWith(k, ids, below) ==
    CHOOSE i \in DOMAIN ids :
      /\ k \in DOMAIN below[ids[i]]
      /\ \A j \in DOMAIN ids : k \in DOMAIN below[ids[j]] => j <= i

Combined(c, ids, below) ==
    CASE Logic[c] = "merge"   -> [k \in UNION {DOMAIN below[ids[i]] : i \in DOMAIN ids} |->
                                    below[ids[LastWith(k, ids, below)]][k]]
      [] Logic[c] = "first"   -> below[ids[1]]
      [] Logic[c] = "collect" -> [k \in {ids[i] : i \in DOMAIN ids} |-> k]

Deeper(below) ==
    [c \in Installed |->
       IF c \in FunctionIds \/ \E i \in DOMAIN ExecutionOrder[c] :
                                 ExecutionOrder[c][i] \notin Installed
       THEN Shallow[c] ELSE Combined(c, ExecutionOrder[c], below)]

(* n levels of combinations, at most, below the capability.                *)
Meaning[n \in Nat] == IF n = 0 THEN Shallow ELSE Deeper(Meaning[n - 1])

(* A call that returns has returned all of what its capability means: a    *)
(* combination whose component was refused, raised, or was missing returns *)
(* nothing at all, at any depth and whatever was revoked on the way.       *)
ResultsAreWhole == reply.is = "value" => reply.dict = Meaning[RecursionLimit][reply.of]

(* A revocation bites: once a tool is not allowed on a file it is executed *)
(* at most once more there, by the call that had asked before, and a tool  *)
(* that never was allowed is never executed - not as a component either.   *)
RevocationBites == \A p \in Ids \X Targets : late[p] <= 1
=============================================================================
