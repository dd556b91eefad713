---------------------- MODULE AgentPermissionsProofs ----------------------
(* Proofs about AgentPermissions, for every set of paths, tools, handlers
   and checkers and every bound. *)
EXTENDS AgentPermissions, TLAPS

LEMMA IdleType == Idle \in Handler
BY DEF Idle, Handler, Step, Scope, Grant

LEMMA SetType ==
    ASSUME NEW h \in Handlers, NEW x \in Handler, Set(h, x),
           handler \in [Handlers -> Handler]
    PROVE  handler' \in [Handlers -> Handler]
BY DEF Set

LEMMA GotoType ==
    ASSUME NEW h \in Handlers, NEW p \in Step, Goto(h, p),
           handler \in [Handlers -> Handler]
    PROVE  handler' \in [Handlers -> Handler]
<1>1. [handler[h] EXCEPT !.pc = p] \in Handler
    BY DEF Handler
<1> QED BY <1>1, SetType DEF Goto

LEMMA ReturnType ==
    ASSUME NEW h \in Handlers, Return(h), handler \in [Handlers -> Handler]
    PROVE  handler' \in [Handlers -> Handler]
<1> DEFINE y == [Idle EXCEPT !.pc = "next", !.batch = TRUE,
                    !.drop = handler[h].drop, !.add = handler[h].add]
<1>1. y \in Handler
    BY DEF Idle, Handler, Step, Scope, Grant
<1> HIDE DEF y
<1>2. CASE handler[h].batch
    <2>1. Set(h, y) BY <1>2 DEF Return, y
    <2> QED BY <1>1, <2>1, SetType
<1>3. CASE ~handler[h].batch
    <2>1. Set(h, Idle) BY <1>3 DEF Return
    <2> QED BY <2>1, IdleType, SetType
<1> QED BY <1>2, <1>3

LEMMA RaiseType ==
    ASSUME NEW h \in Handlers, Raise(h), handler \in [Handlers -> Handler]
    PROVE  handler' \in [Handlers -> Handler] /\ failed' \in BOOLEAN
BY IdleType, SetType DEF Raise

LEMMA UnbarType ==
    ASSUME TypeOK, NEW T \in SUBSET Tools, Unbar(T)
    PROVE  barred' \subseteq Tools /\ checker' \in [Checkers -> Checker]
<1>1. ASSUME NEW k \in Checkers
      PROVE  [checker[k] EXCEPT !.barred = @ /\ checker[k].tools \cap T = {}]
                \in Checker
    <2>1. checker[k] \in Checker BY DEF TypeOK
    <2>2. (checker[k].barred /\ checker[k].tools \cap T = {}) \in BOOLEAN
        OBVIOUS
    <2> QED BY <2>1, <2>2 DEF Checker
<1> QED BY <1>1 DEF Unbar, TypeOK

LEMMA TypeContinue ==
    ASSUME TypeOK, NEW h \in Handlers, Continue(h)
    PROVE  TypeOK'
<1> USE DEF keycard, tools, perms, copies, bounds
<1>0. /\ handler[h] \in Handler /\ handler \in [Handlers -> Handler]
      /\ handler[h].tools \subseteq Tools /\ handler[h].paths \subseteq Paths
      /\ handler[h].todo \subseteq Grant /\ handler[h].cur \subseteq Grant
      /\ handler[h].ids \subseteq Tools /\ handler[h].to \in Scope
      /\ handler[h].drop \subseteq Tools /\ handler[h].add \subseteq Tools
    BY DEF TypeOK, Handler
<1>1. CASE ClearForFile(h)
    <2>1. handler' \in [Handlers -> Handler] BY <1>0, <1>1, ReturnType DEF ClearForFile
    <2> QED BY <1>1, <2>1 DEF TypeOK, ClearForFile
<1>2. CASE Mark(h)
    <2>1. handler' \in [Handlers -> Handler]
        BY <1>0, <1>2, ReturnType, GotoType DEF Mark, Step
    <2> QED BY <1>0, <1>2, <2>1 DEF TypeOK, Mark
<1>3. CASE ListTools(h)
    <2> DEFINE y == [handler[h] EXCEPT !.pc = "tool",
                       !.todo = granted \X handler[h].paths]
    <2>1. y \in Handler BY <1>0, ZenonT(60) DEF TypeOK, Handler, Step, Grant
    <2>2. Set(h, y) BY <1>3 DEF ListTools
    <2> HIDE DEF y
    <2>3. handler' \in [Handlers -> Handler] BY <1>0, <2>1, <2>2, SetType
    <2> QED BY <1>3, <2>3 DEF TypeOK, ListTools
<1>4. CASE ListFiles(h)
    <2> DEFINE y == [handler[h] EXCEPT !.pc = "tool",
                       !.todo = handler[h].tools \X (visible \cap eligible \cap Files)]
    <2>1. y \in Handler BY <1>0, ZenonT(60) DEF TypeOK, Handler, Step, Grant
    <2>2. Set(h, y) BY <1>4 DEF ListFiles
    <2> HIDE DEF y
    <2>3. handler' \in [Handlers -> Handler] BY <1>0, <2>1, <2>2, SetType
    <2> QED BY <1>4, <2>3 DEF TypeOK, ListFiles
<1>5. CASE EnsureTool(h)
    <2>1. CASE handler[h].todo = {} /\ Return(h) /\ UNCHANGED failed
        <3>1. handler' \in [Handlers -> Handler] BY <1>0, <2>1, ReturnType
        <3> QED BY <1>5, <2>1, <3>1 DEF TypeOK, EnsureTool
    <2>2. ASSUME NEW g \in handler[h].todo, g[1] \in granted, UNCHANGED failed,
                 Set(h, [handler[h] EXCEPT !.pc = "path", !.cur = {g},
                            !.todo = @ \ {g}])
          PROVE  TypeOK'
        <3> DEFINE y == [handler[h] EXCEPT !.pc = "path", !.cur = {g},
                            !.todo = @ \ {g}]
        <3>1. y \in Handler BY <1>0 DEF Handler, Step
        <3>2. Set(h, y) BY <2>2
        <3> HIDE DEF y
        <3>3. handler' \in [Handlers -> Handler] BY <1>0, <3>1, <3>2, SetType
        <3> QED BY <1>5, <2>2, <3>3 DEF TypeOK, EnsureTool
    <2>3. CASE Raise(h)
        <3>1. handler' \in [Handlers -> Handler] /\ failed' \in BOOLEAN
            BY <1>0, <2>3, RaiseType
        <3> QED BY <1>5, <3>1 DEF TypeOK, EnsureTool
    <2> QED BY <1>5, <2>1, <2>2, <2>3 DEF EnsureTool
<1>6. CASE EnsurePath(h)
    <2>1. handler' \in [Handlers -> Handler] /\ failed' \in BOOLEAN
        BY <1>0, <1>6, GotoType, RaiseType DEF TypeOK, EnsurePath, Step
    <2> QED BY <1>0, <1>6, <2>1 DEF TypeOK, EnsurePath
<1>7. CASE EnsureDirect(h)
    <2>1. handler' \in [Handlers -> Handler] /\ failed' \in BOOLEAN
        BY <1>0, <1>7, GotoType, RaiseType DEF TypeOK, EnsureDirect, Step
    <2> QED BY <1>0, <1>7, <2>1 DEF TypeOK, EnsureDirect
<1>8. CASE EnsureVisible(h)
    <2>1. handler' \in [Handlers -> Handler] /\ failed' \in BOOLEAN
        BY <1>0, <1>8, GotoType, RaiseType DEF TypeOK, EnsureVisible, Step
    <2> QED BY <1>0, <1>8, <2>1 DEF TypeOK, EnsureVisible
<1>9. CASE LookForRow(h)
    <2> DEFINE b == handler[h].cur \subseteq rows
               y == [handler[h] EXCEPT !.pc = "write", !.found = b]
    <2>0. b \in BOOLEAN OBVIOUS
    <2>1. y \in Handler
        <3> HIDE DEF b
        <3> QED BY <1>0, <2>0 DEF Handler, Step
    <2>2. Set(h, y) BY <1>9 DEF LookForRow
    <2> HIDE DEF y
    <2>3. handler' \in [Handlers -> Handler] BY <1>0, <2>1, <2>2, SetType
    <2> QED BY <1>9, <2>3 DEF TypeOK, LookForRow
<1>10. CASE WriteRow(h)
    <2>1. handler' \in [Handlers -> Handler] /\ failed' \in BOOLEAN
        BY <1>0, <1>10, GotoType, RaiseType DEF TypeOK, WriteRow, Step
    <2> QED BY <1>0, <1>10, <2>1 DEF TypeOK, WriteRow
<1>11. CASE WriteOff(h)
    <2>1. handler' \in [Handlers -> Handler]
        BY <1>0, <1>11, ReturnType DEF TypeOK, WriteOff, Step
    <2> QED BY <1>0, <1>11, <2>1 DEF TypeOK, WriteOff
<1>12. CASE ReadIds(h)
    <2> DEFINE y == [handler[h] EXCEPT !.pc = "bind", !.ids = granted]
    <2>1. y \in Handler BY <1>0, ZenonT(60) DEF TypeOK, Handler, Step, Grant
    <2>2. Set(h, y) BY <1>12 DEF ReadIds
    <2> HIDE DEF y
    <2>3. handler' \in [Handlers -> Handler] BY <1>0, <2>1, <2>2, SetType
    <2> QED BY <1>12, <2>3 DEF TypeOK, ReadIds
<1>13. CASE WriteBindings(h)
    <2>1. handler' \in [Handlers -> Handler]
        BY <1>0, <1>13, GotoType DEF TypeOK, WriteBindings, Step
    <2> QED BY <1>0, <1>13, <2>1 DEF TypeOK, WriteBindings
<1>14. CASE WriteSection(h)
    <2>1. handler' \in [Handlers -> Handler]
        BY <1>0, <1>14, GotoType, ReturnType DEF TypeOK, WriteSection, Step
    <2> QED BY <1>0, <1>14, <2>1 DEF TypeOK, WriteSection
<1>15. CASE ClearForTool(h)
    <2>1. handler' \in [Handlers -> Handler]
        BY <1>0, <1>15, ReturnType DEF TypeOK, ClearForTool, Step
    <2> QED BY <1>0, <1>15, <2>1 DEF TypeOK, ClearForTool
<1>16. CASE Rewrite(h)
    <2>1. handler' \in [Handlers -> Handler]
        BY <1>0, <1>16, GotoType, ReturnType DEF TypeOK, Rewrite, Step
    <2> QED BY <1>0, <1>16, <2>1 DEF TypeOK, Rewrite
<1>17. CASE ReadProviderIds(h)
    <2> DEFINE y == [handler[h] EXCEPT !.pc = "section", !.ids = granted]
    <2>1. y \in Handler BY <1>0, ZenonT(60) DEF TypeOK, Handler, Step, Grant
    <2>2. Set(h, y) BY <1>17 DEF ReadProviderIds
    <2> HIDE DEF y
    <2>3. handler' \in [Handlers -> Handler] BY <1>0, <2>1, <2>2, SetType
    <2> QED BY <1>17, <2>3 DEF TypeOK, ReadProviderIds
<1>18. CASE Compare(h)
    <2>1. PICK desired \in SUBSET Tools :
            /\ Set(h, [Idle EXCEPT !.pc = "next", !.batch = TRUE,
                         !.drop = granted \ desired, !.add = desired \ granted])
            /\ Unbar(desired \ granted)
        BY <1>18 DEF Compare
    <2> DEFINE y == [Idle EXCEPT !.pc = "next", !.batch = TRUE,
                       !.drop = granted \ desired, !.add = desired \ granted]
    <2>2. y \in Handler BY DEF TypeOK, Idle, Handler, Step, Scope, Grant
    <2>3. Set(h, y) BY <2>1
    <2> HIDE DEF y
    <2>4. handler' \in [Handlers -> Handler] BY <1>0, <2>2, <2>3, SetType
    <2>5. barred' \subseteq Tools /\ checker' \in [Checkers -> Checker]
        BY <2>1, UnbarType
    <2> QED BY <1>18, <2>4, <2>5 DEF TypeOK, Compare
<1>19. CASE ReplaceNext(h)
    <2>1. ASSUME NEW t \in handler[h].drop, WriteRevoke(t), UNCHANGED checker,
                 Set(h, [handler[h] EXCEPT !.pc = "ids", !.op = "revoke",
                           !.tools = {t}, !.drop = @ \ {t}])
          PROVE  TypeOK'
        <3> DEFINE y == [handler[h] EXCEPT !.pc = "ids", !.op = "revoke",
                           !.tools = {t}, !.drop = @ \ {t}]
        <3>1. y \in Handler BY <1>0 DEF Handler, Step
        <3>2. Set(h, y) BY <2>1
        <3> HIDE DEF y
        <3>3. handler' \in [Handlers -> Handler] BY <1>0, <3>1, <3>2, SetType
        <3> QED BY <1>0, <1>19, <2>1, <3>3 DEF TypeOK, ReplaceNext, WriteRevoke
    <2>2. ASSUME NEW t \in handler[h].add, WriteGrant(t),
                 Set(h, [handler[h] EXCEPT !.pc = "ids", !.op = "grant",
                           !.tools = {t}, !.add = @ \ {t}])
          PROVE  TypeOK'
        <3> DEFINE y == [handler[h] EXCEPT !.pc = "ids", !.op = "grant",
                           !.tools = {t}, !.add = @ \ {t}]
        <3>1. y \in Handler BY <1>0 DEF Handler, Step
        <3>2. Set(h, y) BY <2>2
        <3> HIDE DEF y
        <3>3. handler' \in [Handlers -> Handler] BY <1>0, <3>1, <3>2, SetType
        <3>4. {t} \in SUBSET Tools BY <1>0
        <3>5. barred' \subseteq Tools /\ checker' \in [Checkers -> Checker]
            BY <2>2, <3>4, UnbarType DEF WriteGrant
        <3> QED BY <1>0, <1>19, <2>2, <3>3, <3>5 DEF TypeOK, ReplaceNext, WriteGrant
    <2>3. CASE /\ Set(h, [Idle EXCEPT !.pc = "ids", !.op = "replace"])
               /\ UNCHANGED <<granted, barred, checker>>
        <3> DEFINE y == [Idle EXCEPT !.pc = "ids", !.op = "replace"]
        <3>1. y \in Handler BY DEF Idle, Handler, Step, Scope, Grant
        <3>2. Set(h, y) BY <2>3
        <3> HIDE DEF y
        <3>3. handler' \in [Handlers -> Handler] BY <1>0, <3>1, <3>2, SetType
        <3> QED BY <1>19, <2>3, <3>3 DEF TypeOK, ReplaceNext
    <2> QED BY <1>19, <2>1, <2>2, <2>3 DEF ReplaceNext
<1>20. CASE WriteScope(h)
    <2>1. handler' \in [Handlers -> Handler]
        BY <1>0, <1>20, ReturnType DEF TypeOK, WriteScope, Step
    <2> QED BY <1>0, <1>20, <2>1 DEF TypeOK, WriteScope
<1> QED
    BY <1>1, <1>2, <1>3, <1>4, <1>5, <1>6, <1>7, <1>8, <1>9, <1>10,
       <1>11, <1>12, <1>13, <1>14, <1>15, <1>16, <1>17, <1>18, <1>19, <1>20 DEF Continue

LEMMA TypeRequest ==
    ASSUME TypeOK, NEW h \in Handlers, Request(h)
    PROVE  TypeOK'
<1> USE PermissionConstants DEF keycard, tools, perms, copies, bounds
<1>0. handler \in [Handlers -> Handler] BY DEF TypeOK
<1>1. CASE Assign(h)
    BY <1>1 DEF TypeOK, Assign, Calls, AssignFiles, AssignFolder, Paths
<1>2. ASSUME Update(h) PROVE TypeOK'
    <2> DEFINE y == [Idle EXCEPT !.pc = "rewrite", !.op = "update", !.ids = bindings]
    <2>1. y \in Handler BY <1>2, ZenonT(60) DEF TypeOK, Idle, Handler, Step, Scope, Grant
    <2>2. Set(h, y) BY <1>2 DEF Update
    <2> HIDE DEF y
    <2>3. handler' \in [Handlers -> Handler] BY <1>0, <2>1, <2>2, SetType
    <2> QED BY <1>2, <2>3 DEF TypeOK, Update, Calls
<1>3. ASSUME NEW p \in Paths, Remove(h, p) PROVE TypeOK'
    <2> DEFINE y == [Idle EXCEPT !.pc = "clearFile", !.paths = {p}]
    <2>1. y \in Handler BY <1>3, ZenonT(60) DEF TypeOK, Idle, Handler, Step, Scope, Grant
    <2>2. Set(h, y) BY <1>3 DEF Remove
    <2> HIDE DEF y
    <2>3. handler' \in [Handlers -> Handler] BY <1>0, <2>1, <2>2, SetType
    <2> QED BY <1>3, <2>3 DEF TypeOK, Remove, Calls
<1>4. ASSUME NEW p \in Paths, NEW on \in BOOLEAN, SetEligible(h, p, on) PROVE TypeOK'
    <2> DEFINE y == [Idle EXCEPT !.pc = "mark", !.paths = {p}, !.on = on]
    <2>1. y \in Handler BY <1>4, ZenonT(60) DEF TypeOK, Idle, Handler, Step, Scope, Grant
    <2>2. Set(h, y) BY <1>4 DEF SetEligible
    <2> HIDE DEF y
    <2>3. handler' \in [Handlers -> Handler] BY <1>0, <2>1, <2>2, SetType
    <2> QED BY <1>4, <2>3 DEF TypeOK, SetEligible, Calls
<1>5. ASSUME NEW t \in Tools, GrantTool(h, t) PROVE TypeOK'
    <2> DEFINE y == [Idle EXCEPT !.pc = "ids", !.op = "grant", !.tools = {t}]
    <2>1. y \in Handler BY <1>5, ZenonT(60) DEF TypeOK, Idle, Handler, Step, Scope, Grant
    <2>2. Set(h, y) BY <1>5 DEF GrantTool
    <2> HIDE DEF y
    <2>3. handler' \in [Handlers -> Handler] BY <1>0, <2>1, <2>2, SetType
    <2>4. barred' \subseteq Tools /\ checker' \in [Checkers -> Checker]
        <3>1. {t} \in SUBSET Tools OBVIOUS
        <3> QED BY <1>5, <3>1, UnbarType DEF GrantTool, WriteGrant
    <2> QED BY <1>5, <2>3, <2>4 DEF TypeOK, GrantTool, Calls, WriteGrant
<1>6. ASSUME NEW t \in Tools, RevokeTool(h, t) PROVE TypeOK'
    <2> DEFINE y == [Idle EXCEPT !.pc = "ids", !.op = "revoke", !.tools = {t}]
    <2>1. y \in Handler BY <1>6, ZenonT(60) DEF TypeOK, Idle, Handler, Step, Scope, Grant
    <2>2. Set(h, y) BY <1>6 DEF RevokeTool
    <2> HIDE DEF y
    <2>3. handler' \in [Handlers -> Handler] BY <1>0, <2>1, <2>2, SetType
    <2> QED BY <1>6, <2>3 DEF TypeOK, RevokeTool, Calls, WriteRevoke
<1>7. ASSUME NEW t \in Tools, NEW s \in Scope, SetScope(h, t, s) PROVE TypeOK'
    <2> DEFINE y == [Idle EXCEPT !.pc = "scope", !.tools = {t}, !.to = s]
    <2>1. y \in Handler BY <1>7, ZenonT(60) DEF TypeOK, Idle, Handler, Step, Scope, Grant
    <2>2. Set(h, y) BY <1>7 DEF SetScope
    <2> HIDE DEF y
    <2>3. handler' \in [Handlers -> Handler] BY <1>0, <2>1, <2>2, SetType
    <2> QED BY <1>7, <2>3 DEF TypeOK, SetScope, Calls
<1>8. ASSUME NEW t \in Tools, NEW p \in Paths, Allow(h, t, p) PROVE TypeOK'
    <2> DEFINE S == {<<t, p>>}
               y == [Idle EXCEPT !.pc = "tool", !.todo = S]
    <2>0. S \in SUBSET Grant BY DEF Grant
    <2>1. y \in Handler
        <3> HIDE DEF S
        <3> QED BY <2>0, IdleType DEF Handler, Step
    <2>2. Set(h, y) BY <1>8 DEF Allow
    <2> HIDE DEF y
    <2>3. handler' \in [Handlers -> Handler] BY <1>0, <2>1, <2>2, SetType
    <2> QED BY <1>8, <2>3 DEF TypeOK, Allow, Calls
<1>9. ASSUME NEW t \in Tools, NEW p \in Paths, Deny(h, t, p) PROVE TypeOK'
    <2> DEFINE S == {<<t, p>>}
               y == [Idle EXCEPT !.pc = "off", !.cur = S]
    <2>0. S \in SUBSET Grant BY DEF Grant
    <2>1. y \in Handler
        <3> HIDE DEF S
        <3> QED BY <2>0, IdleType DEF Handler, Step
    <2>2. Set(h, y) BY <1>9 DEF Deny
    <2> HIDE DEF y
    <2>3. handler' \in [Handlers -> Handler] BY <1>0, <2>1, <2>2, SetType
    <2> QED BY <1>9, <2>3 DEF TypeOK, Deny, Calls
<1>10. ASSUME NEW t \in Tools, NEW p \in Paths, AssignToTool(h, t, p) PROVE TypeOK'
    <2> DEFINE S == {<<t, p>>}
               y == [Idle EXCEPT !.pc = "direct", !.cur = S]
    <2>0. S \in SUBSET Grant BY DEF Grant
    <2>1. y \in Handler
        <3> HIDE DEF S
        <3> QED BY <2>0, IdleType DEF Handler, Step
    <2>2. Set(h, y) BY <1>10 DEF AssignToTool
    <2> HIDE DEF y
    <2>3. handler' \in [Handlers -> Handler] BY <1>0, <2>1, <2>2, SetType
    <2> QED BY <1>10, <2>3 DEF TypeOK, AssignToTool, Calls, AssignFiles, AssignFolder
<1> QED BY <1>1, <1>2, <1>3, <1>4, <1>5, <1>6, <1>7, <1>8, <1>9, <1>10 DEF Request

LEMMA TypeCheck ==
    ASSUME TypeOK, NEW k \in Checkers, Check(k)
    PROVE  TypeOK'
<1> USE DEF keycard, tools, perms, copies, bounds
<1>0. checker[k] \in Checker /\ checker \in [Checkers -> Checker]
    BY DEF TypeOK
<1>1. ASSUME NEW x \in Checker, SetChecker(k, x)
      PROVE  checker' \in [Checkers -> Checker]
    BY <1>0, <1>1 DEF SetChecker
<1>2. ASSUME NEW p \in {"grants", "files", "yes", "no"}
      PROVE  [checker[k] EXCEPT !.pc = p] \in Checker
    BY <1>0 DEF Checker
<1>3. ASSUME NEW t \in Tools, NEW S \in SUBSET Files, BeginCheck(k, t, S)
      PROVE  TypeOK'
    <2> DEFINE b == t \in barred
               y == [NoCheck EXCEPT !.pc = "grants", !.tools = {t}, !.ask = S,
                       !.barred = b]
    <2>1. b \in BOOLEAN OBVIOUS
    <2>2. y \in Checker
        <3> HIDE DEF b
        <3> QED BY <2>1 DEF NoCheck, Checker, Scope
    <2>3. SetChecker(k, y) BY <1>3 DEF BeginCheck
    <2> HIDE DEF y
    <2>4. checker' \in [Checkers -> Checker] BY <1>1, <2>2, <2>3
    <2> QED BY <1>3, <2>4 DEF TypeOK, BeginCheck
<1>4. CASE Refuse(k)
    <2>1. checker' \in [Checkers -> Checker] BY <1>1, <1>2, <1>4 DEF Refuse
    <2> QED BY <1>4, <2>1 DEF TypeOK, Refuse
<1>5. CASE ReadAssignment(k)
    <2>1. PICK t \in checker[k].tools :
            IF t \in granted
            THEN SetChecker(k, [checker[k] EXCEPT !.pc = "files", !.scope = scope[t]])
            ELSE SetChecker(k, [checker[k] EXCEPT !.pc = "no"])
        BY <1>5 DEF ReadAssignment
    <2>2. scope[t] \in Scope BY <1>0 DEF TypeOK, Checker
    <2>3. [checker[k] EXCEPT !.pc = "files", !.scope = scope[t]] \in Checker
        BY <1>0, <2>2 DEF Checker
    <2>4. checker' \in [Checkers -> Checker] BY <1>1, <1>2, <2>1, <2>3
    <2> QED BY <1>5, <2>4 DEF TypeOK, ReadAssignment
<1>6. CASE CheckFile(k)
    <2>1. ASSUME NEW f \in checker[k].ask
          PROVE  [checker[k] EXCEPT !.ask = @ \ {f}] \in Checker
        BY <1>0 DEF Checker
    <2>2. checker' \in [Checkers -> Checker]
        BY <1>1, <1>2, <1>6, <2>1 DEF CheckFile
    <2> QED BY <1>6, <2>2 DEF TypeOK, CheckFile
<1> QED BY <1>3, <1>4, <1>5, <1>6 DEF Check

LEMMA TypeNext == ASSUME TypeOK, [Next]_vars PROVE TypeOK'
<1>1. CASE UNCHANGED vars
    BY <1>1 DEF vars, keycard, tools, perms, copies, bounds, TypeOK
<1>2. ASSUME NEW h \in Handlers, Fault(h) PROVE TypeOK'
    <2>1. handler' \in [Handlers -> Handler] /\ failed' \in BOOLEAN
        BY <1>2, RaiseType DEF Fault, TypeOK
    <2> QED BY <1>2, <2>1, PermissionConstants
            DEF Fault, TypeOK, keycard, tools, perms, copies
<1> QED BY <1>1, <1>2, TypeContinue, TypeRequest, TypeCheck DEF Next

LEMMA TypeInit == ASSUME Init PROVE TypeOK
<1>1. NoCheck \in Checker BY DEF NoCheck, Checker, Scope
<1>2. handler \in [Handlers -> Handler] /\ checker \in [Checkers -> Checker]
    BY <1>1, IdleType DEF Init
<1>3. /\ visible \subseteq Paths /\ eligible \subseteq Paths
      /\ granted \subseteq Tools /\ rows \subseteq Grant
      /\ allowed \subseteq rows /\ bindings \subseteq Tools
      /\ access \subseteq Tools /\ barred \subseteq Tools
    BY DEF Init
<1>4. scope \in [Tools -> Scope] BY DEF Init, Scope
<1>5. calls \in 0 .. MaxCalls /\ faults \in 0 .. MaxFaults
    BY PermissionConstants DEF Init
<1>6. failed \in BOOLEAN BY DEF Init
<1> QED BY <1>2, <1>3, <1>4, <1>5, <1>6 DEF TypeOK

(* The tables keep their types: permissions have rows, threads are where
   their calls can be (all of AgentPermissions' actions). *)
THEOREM TypeCorrect == Spec => []TypeOK
BY TypeInit, TypeNext, PTL DEF Spec

-----------------------------------------------------------------------------
(* A revoked tool is neither granted nor on any replace_grants' list ...   *)
BarHolds ==
    \A t \in barred : t \notin granted /\ \A h \in Handlers : t \notin handler[h].add

(* ... and a check that began with its tool revoked got no further than
   reading the assignment. *)
BarredCheckStops ==
    \A k \in Checkers :
      checker[k].barred => /\ checker[k].tools \subseteq barred
                           /\ checker[k].pc \in {"idle", "grants", "no"}

Barring == TypeOK /\ BarHolds /\ BarredCheckStops

(* Unbar keeps the checks' part, and lifts the bar of the tools it names.  *)
LEMMA UnbarHolds ==
    ASSUME TypeOK, BarredCheckStops, NEW T \in SUBSET Tools, Unbar(T)
    PROVE  BarredCheckStops' /\ barred' = barred \ T
<1> SUFFICES ASSUME NEW k \in Checkers, checker'[k].barred
             PROVE  /\ checker'[k].tools \subseteq barred'
                    /\ checker'[k].pc \in {"idle", "grants", "no"}
    BY DEF Unbar, BarredCheckStops
<1> DEFINE b == checker[k].barred /\ checker[k].tools \cap T = {}
<1>1. checker'[k] = [checker[k] EXCEPT !.barred = b]
    BY DEF Unbar
<1>2. checker[k] \in Checker BY DEF TypeOK
<1>3. /\ checker'[k].barred = b /\ checker'[k].tools = checker[k].tools
      /\ checker'[k].pc = checker[k].pc
    <2> HIDE DEF b
    <2> QED BY <1>1, <1>2 DEF Checker
<1> QED BY <1>3 DEF Unbar, BarredCheckStops

(* No handler has more left to grant than before.                          *)
Fewer == \A g \in Handlers : handler'[g].add \subseteq handler[g].add

LEMMA FewerSet ==
    ASSUME NEW h \in Handlers, NEW x, Set(h, x), x.add \subseteq handler[h].add,
           handler \in [Handlers -> Handler]
    PROVE  Fewer
BY DEF Set, Fewer

LEMMA FewerIdle == Idle.add = {}
BY DEF Idle

LEMMA FewerGoto ==
    ASSUME NEW h \in Handlers, NEW p \in Step, Goto(h, p),
           handler \in [Handlers -> Handler]
    PROVE  Fewer
<1>1. [handler[h] EXCEPT !.pc = p].add \subseteq handler[h].add
    <2>1. handler[h] \in Handler OBVIOUS
    <2> QED BY <2>1 DEF Handler
<1> QED BY <1>1, FewerSet DEF Goto

LEMMA FewerReturn ==
    ASSUME NEW h \in Handlers, Return(h), handler \in [Handlers -> Handler]
    PROVE  Fewer
<1> DEFINE y == [Idle EXCEPT !.pc = "next", !.batch = TRUE,
                    !.drop = handler[h].drop, !.add = handler[h].add]
<1>1. y.add = handler[h].add BY DEF Idle
<1> HIDE DEF y
<1>2. CASE handler[h].batch
    <2>1. Set(h, y) BY <1>2 DEF Return, y
    <2> QED BY <1>1, <2>1, FewerSet
<1>3. CASE ~handler[h].batch
    <2>1. Set(h, Idle) BY <1>3 DEF Return
    <2> QED BY <2>1, FewerIdle, FewerSet
<1> QED BY <1>2, <1>3

LEMMA FewerRaise ==
    ASSUME NEW h \in Handlers, Raise(h), handler \in [Handlers -> Handler]
    PROVE  Fewer
BY FewerIdle, FewerSet DEF Raise

LEMMA BarredKept ==
    ASSUME BarHolds, BarredCheckStops, Fewer, UNCHANGED <<tools, checker>>
    PROVE  BarHolds' /\ BarredCheckStops'
BY DEF BarHolds, BarredCheckStops, Fewer, tools

LEMMA BarredContinue ==
    ASSUME Barring, NEW h \in Handlers, Continue(h)
    PROVE  BarHolds' /\ BarredCheckStops'
<1>0. /\ handler[h] \in Handler /\ handler \in [Handlers -> Handler]
      /\ TypeOK /\ BarHolds /\ BarredCheckStops
    BY DEF Barring, TypeOK
<1> USE <1>0
<1>1. CASE ClearForFile(h)
    <2>1. Fewer BY <1>1, FewerReturn DEF ClearForFile, Step
    <2> QED BY <1>1, <2>1, BarredKept DEF ClearForFile
<1>2. CASE Mark(h)
    <2>1. Fewer BY <1>2, FewerReturn, FewerGoto DEF Mark, Step
    <2> QED BY <1>2, <2>1, BarredKept DEF Mark
<1>3. CASE ListTools(h)
    <2> DEFINE y == [handler[h] EXCEPT !.pc = "tool",
                       !.todo = granted \X handler[h].paths]
    <2>1. y.add \subseteq handler[h].add BY DEF Handler
    <2>2. Set(h, y) BY <1>3 DEF ListTools
    <2> HIDE DEF y
    <2>3. Fewer BY <2>1, <2>2, FewerSet
    <2> QED BY <1>3, <2>3, BarredKept DEF ListTools
<1>4. CASE ListFiles(h)
    <2> DEFINE y == [handler[h] EXCEPT !.pc = "tool",
                       !.todo = handler[h].tools \X (visible \cap eligible \cap Files)]
    <2>1. y.add \subseteq handler[h].add BY DEF Handler
    <2>2. Set(h, y) BY <1>4 DEF ListFiles
    <2> HIDE DEF y
    <2>3. Fewer BY <2>1, <2>2, FewerSet
    <2> QED BY <1>4, <2>3, BarredKept DEF ListFiles
<1>5. CASE EnsureTool(h)
    <2>1. ASSUME NEW g \in handler[h].todo,
                 Set(h, [handler[h] EXCEPT !.pc = "path", !.cur = {g},
                            !.todo = @ \ {g}])
          PROVE  Fewer
        <3> DEFINE y == [handler[h] EXCEPT !.pc = "path", !.cur = {g},
                            !.todo = @ \ {g}]
        <3>1. y.add \subseteq handler[h].add BY DEF Handler
        <3>2. Set(h, y) BY <2>1
        <3> HIDE DEF y
        <3> QED BY <3>1, <3>2, FewerSet
    <2>2. Fewer BY <1>5, <2>1, FewerReturn, FewerRaise DEF EnsureTool
    <2> QED BY <1>5, <2>2, BarredKept DEF EnsureTool
<1>6. CASE EnsurePath(h)
    <2>1. Fewer BY <1>6, FewerGoto, FewerRaise DEF EnsurePath, Step
    <2> QED BY <1>6, <2>1, BarredKept DEF EnsurePath
<1>7. CASE EnsureDirect(h)
    <2>1. Fewer BY <1>7, FewerGoto, FewerRaise DEF EnsureDirect, Step
    <2> QED BY <1>7, <2>1, BarredKept DEF EnsureDirect
<1>8. CASE EnsureVisible(h)
    <2>1. Fewer BY <1>8, FewerGoto, FewerRaise DEF EnsureVisible, Step
    <2> QED BY <1>8, <2>1, BarredKept DEF EnsureVisible
<1>9. CASE LookForRow(h)
    <2> DEFINE y == [handler[h] EXCEPT !.pc = "write",
                       !.found = handler[h].cur \subseteq rows]
    <2>1. y.add \subseteq handler[h].add BY DEF Handler
    <2>2. Set(h, y) BY <1>9 DEF LookForRow
    <2> HIDE DEF y
    <2>3. Fewer BY <2>1, <2>2, FewerSet
    <2> QED BY <1>9, <2>3, BarredKept DEF LookForRow
<1>10. CASE WriteRow(h)
    <2>1. Fewer BY <1>10, FewerGoto, FewerRaise DEF WriteRow, Step
    <2> QED BY <1>10, <2>1, BarredKept DEF WriteRow
<1>11. CASE WriteOff(h)
    <2>1. Fewer BY <1>11, FewerReturn DEF WriteOff, Step
    <2> QED BY <1>11, <2>1, BarredKept DEF WriteOff
<1>12. CASE ReadIds(h)
    <2> DEFINE y == [handler[h] EXCEPT !.pc = "bind", !.ids = granted]
    <2>1. y.add \subseteq handler[h].add BY DEF Handler
    <2>2. Set(h, y) BY <1>12 DEF ReadIds
    <2> HIDE DEF y
    <2>3. Fewer BY <2>1, <2>2, FewerSet
    <2> QED BY <1>12, <2>3, BarredKept DEF ReadIds
<1>13. CASE WriteBindings(h)
    <2>1. Fewer BY <1>13, FewerGoto DEF WriteBindings, Step
    <2> QED BY <1>13, <2>1, BarredKept DEF WriteBindings
<1>14. CASE WriteSection(h)
    <2>1. Fewer BY <1>14, FewerGoto, FewerReturn DEF WriteSection, Step
    <2> QED BY <1>14, <2>1, BarredKept DEF WriteSection
<1>15. CASE ClearForTool(h)
    <2>1. Fewer BY <1>15, FewerReturn DEF ClearForTool, Step
    <2> QED BY <1>15, <2>1, BarredKept DEF ClearForTool
<1>16. CASE Rewrite(h)
    <2>1. Fewer BY <1>16, FewerGoto, FewerReturn DEF Rewrite, Step
    <2> QED BY <1>16, <2>1, BarredKept DEF Rewrite
<1>17. CASE ReadProviderIds(h)
    <2> DEFINE y == [handler[h] EXCEPT !.pc = "section", !.ids = granted]
    <2>1. y.add \subseteq handler[h].add BY DEF Handler
    <2>2. Set(h, y) BY <1>17 DEF ReadProviderIds
    <2> HIDE DEF y
    <2>3. Fewer BY <2>1, <2>2, FewerSet
    <2> QED BY <1>17, <2>3, BarredKept DEF ReadProviderIds
<1>18. CASE Compare(h)
    <2>1. PICK desired \in SUBSET Tools :
            /\ Set(h, [Idle EXCEPT !.pc = "next", !.batch = TRUE,
                         !.drop = granted \ desired, !.add = desired \ granted])
            /\ Unbar(desired \ granted)
        BY <1>18 DEF Compare
    <2> DEFINE y == [Idle EXCEPT !.pc = "next", !.batch = TRUE,
                       !.drop = granted \ desired, !.add = desired \ granted]
    <2>2. y.add = desired \ granted BY DEF Idle
    <2>3. Set(h, y) BY <2>1
    <2> HIDE DEF y
    <2>4. BarredCheckStops' /\ barred' = barred \ (desired \ granted)
        BY <2>1, UnbarHolds
    <2>5. BarHolds'
        BY <1>18, <2>2, <2>3, <2>4 DEF BarHolds, Set, Compare
    <2> QED BY <2>4, <2>5
<1>19. CASE ReplaceNext(h)
    <2>1. ASSUME NEW t \in handler[h].drop, WriteRevoke(t), UNCHANGED checker,
                 Set(h, [handler[h] EXCEPT !.pc = "ids", !.op = "revoke",
                           !.tools = {t}, !.drop = @ \ {t}])
          PROVE  BarHolds' /\ BarredCheckStops'
        <3> DEFINE y == [handler[h] EXCEPT !.pc = "ids", !.op = "revoke",
                           !.tools = {t}, !.drop = @ \ {t}]
        <3>1. y.add = handler[h].add BY DEF Handler
        <3>2. Set(h, y) BY <2>1
        <3> HIDE DEF y
        <3>3. Fewer BY <3>1, <3>2, FewerSet
        <3> QED BY <2>1, <3>3 DEF WriteRevoke, BarHolds, BarredCheckStops, Fewer
    <2>2. ASSUME NEW t \in handler[h].add, WriteGrant(t),
                 Set(h, [handler[h] EXCEPT !.pc = "ids", !.op = "grant",
                           !.tools = {t}, !.add = @ \ {t}])
          PROVE  BarHolds' /\ BarredCheckStops'
        <3> DEFINE y == [handler[h] EXCEPT !.pc = "ids", !.op = "grant",
                           !.tools = {t}, !.add = @ \ {t}]
        <3>1. y.add \subseteq handler[h].add BY DEF Handler
        <3>2. Set(h, y) BY <2>2
        <3> HIDE DEF y
        <3>3. Fewer BY <3>1, <3>2, FewerSet
        <3>4. {t} \in SUBSET Tools BY DEF Handler
        <3>5. BarredCheckStops' /\ barred' = barred \ {t}
            BY <2>2, <3>4, UnbarHolds DEF WriteGrant
        <3> QED BY <2>2, <3>3, <3>5 DEF WriteGrant, BarHolds, Fewer
    <2>3. CASE /\ Set(h, [Idle EXCEPT !.pc = "ids", !.op = "replace"])
               /\ UNCHANGED <<granted, barred, checker>>
        <3> DEFINE y == [Idle EXCEPT !.pc = "ids", !.op = "replace"]
        <3>1. y.add = {} BY DEF Idle
        <3>2. Set(h, y) BY <2>3
        <3> HIDE DEF y
        <3>3. Fewer BY <3>1, <3>2, FewerSet
        <3> QED BY <2>3, <3>3 DEF BarHolds, BarredCheckStops, Fewer
    <2> QED BY <1>19, <2>1, <2>2, <2>3 DEF ReplaceNext
<1>20. CASE WriteScope(h)
    <2>1. Fewer BY <1>20, FewerReturn DEF WriteScope
    <2> QED BY <1>20, <2>1 DEF WriteScope, BarHolds, BarredCheckStops, Fewer
<1> QED BY <1>1, <1>2, <1>3, <1>4, <1>5, <1>6, <1>7, <1>8, <1>9, <1>10,
       <1>11, <1>12, <1>13, <1>14, <1>15, <1>16, <1>17, <1>18, <1>19, <1>20 DEF Continue

LEMMA BarredRequest ==
    ASSUME Barring, NEW h \in Handlers, Request(h)
    PROVE  BarHolds' /\ BarredCheckStops'
<1>0. /\ handler \in [Handlers -> Handler]
      /\ TypeOK /\ BarHolds /\ BarredCheckStops
    BY DEF Barring, TypeOK
<1> USE <1>0
<1>1. Fewer
    <2>1. ASSUME NEW x, Set(h, x), x.add = {} PROVE Fewer
        BY <2>1, FewerSet
    <2>2. CASE Assign(h) BY <2>2 DEF Assign, Fewer
    <2>3. ASSUME Update(h) PROVE Fewer
        <3>1. [Idle EXCEPT !.pc = "rewrite", !.op = "update", !.ids = bindings].add = {}
            BY DEF Idle
        <3> QED BY <2>1, <2>3, <3>1 DEF Update
    <2>4. ASSUME NEW p \in Paths, Remove(h, p) PROVE Fewer
        <3>1. [Idle EXCEPT !.pc = "clearFile", !.paths = {p}].add = {}
            BY DEF Idle
        <3> QED BY <2>1, <2>4, <3>1 DEF Remove
    <2>5. ASSUME NEW p \in Paths, NEW on \in BOOLEAN, SetEligible(h, p, on) PROVE Fewer
        <3>1. [Idle EXCEPT !.pc = "mark", !.paths = {p}, !.on = on].add = {}
            BY DEF Idle
        <3> QED BY <2>1, <2>5, <3>1 DEF SetEligible
    <2>6. ASSUME NEW t \in Tools, GrantTool(h, t) PROVE Fewer
        <3>1. [Idle EXCEPT !.pc = "ids", !.op = "grant", !.tools = {t}].add = {}
            BY DEF Idle
        <3> QED BY <2>1, <2>6, <3>1 DEF GrantTool
    <2>7. ASSUME NEW t \in Tools, RevokeTool(h, t) PROVE Fewer
        <3>1. [Idle EXCEPT !.pc = "ids", !.op = "revoke", !.tools = {t}].add = {}
            BY DEF Idle
        <3> QED BY <2>1, <2>7, <3>1 DEF RevokeTool
    <2>8. ASSUME NEW t \in Tools, NEW s \in Scope, SetScope(h, t, s) PROVE Fewer
        <3>1. [Idle EXCEPT !.pc = "scope", !.tools = {t}, !.to = s].add = {}
            BY DEF Idle
        <3> QED BY <2>1, <2>8, <3>1 DEF SetScope
    <2>9. ASSUME NEW t \in Tools, NEW p \in Paths, Allow(h, t, p) PROVE Fewer
        <3>1. [Idle EXCEPT !.pc = "tool", !.todo = {<<t, p>>}].add = {}
            BY DEF Idle
        <3> QED BY <2>1, <2>9, <3>1 DEF Allow
    <2>10. ASSUME NEW t \in Tools, NEW p \in Paths, Deny(h, t, p) PROVE Fewer
        <3>1. [Idle EXCEPT !.pc = "off", !.cur = {<<t, p>>}].add = {}
            BY DEF Idle
        <3> QED BY <2>1, <2>10, <3>1 DEF Deny
    <2>11. ASSUME NEW t \in Tools, NEW p \in Paths, AssignToTool(h, t, p) PROVE Fewer
        <3>1. [Idle EXCEPT !.pc = "direct", !.cur = {<<t, p>>}].add = {}
            BY DEF Idle
        <3> QED BY <2>1, <2>11, <3>1 DEF AssignToTool
    <2> QED BY <2>2, <2>3, <2>4, <2>5, <2>6, <2>7, <2>8, <2>9, <2>10, <2>11 DEF Request
<1>2. ASSUME NEW t \in Tools, GrantTool(h, t)
      PROVE  BarHolds' /\ BarredCheckStops'
    <2>1. {t} \in SUBSET Tools OBVIOUS
    <2>2. BarredCheckStops' /\ barred' = barred \ {t}
        BY <1>2, <2>1, UnbarHolds DEF GrantTool, WriteGrant
    <2> QED BY <1>1, <1>2, <2>2 DEF GrantTool, WriteGrant, BarHolds, Fewer
<1>3. ASSUME NEW t \in Tools, RevokeTool(h, t)
      PROVE  BarHolds' /\ BarredCheckStops'
    BY <1>1, <1>3 DEF RevokeTool, Calls, WriteRevoke, BarHolds, BarredCheckStops,
                      Fewer
<1>4. CASE UNCHANGED <<tools, checker>>
    BY <1>1, <1>4, BarredKept
<1> QED BY <1>2, <1>3, <1>4
        DEF Request, Assign, Update, Remove, SetEligible, SetScope, Allow, Deny,
            AssignToTool, Calls

LEMMA BarredCheck ==
    ASSUME Barring, NEW k \in Checkers, Check(k)
    PROVE  BarHolds' /\ BarredCheckStops'
<1>0. /\ checker[k] \in Checker /\ checker \in [Checkers -> Checker]
      /\ TypeOK /\ BarHolds /\ BarredCheckStops
    BY DEF Barring, TypeOK
<1> USE <1>0
<1>1. BarHolds' /\ UNCHANGED barred
    BY DEF Check, BeginCheck, Refuse, ReadAssignment, CheckFile, BarHolds, tools
<1>2. ASSUME NEW x, SetChecker(k, x),
             x.barred => /\ x.tools \subseteq barred
                         /\ x.pc \in {"idle", "grants", "no"}
      PROVE  BarredCheckStops'
    BY <1>1, <1>2 DEF SetChecker, BarredCheckStops
<1>3. ASSUME NEW t \in Tools, NEW S \in SUBSET Files, BeginCheck(k, t, S)
      PROVE  BarredCheckStops'
    <2> DEFINE b == t \in barred
               y == [NoCheck EXCEPT !.pc = "grants", !.tools = {t}, !.ask = S,
                       !.barred = b]
    <2>1. y.barred = b /\ y.tools = {t} /\ y.pc = "grants"
        <3> HIDE DEF b
        <3> QED BY DEF NoCheck
    <2>2. SetChecker(k, y) BY <1>3 DEF BeginCheck
    <2> HIDE DEF y
    <2> QED BY <1>2, <2>1, <2>2
<1>4. ASSUME NEW p \in {"files", "yes", "no"},
             p # "no" => ~checker[k].barred,
             SetChecker(k, [checker[k] EXCEPT !.pc = p])
      PROVE  BarredCheckStops'
    <2> DEFINE y == [checker[k] EXCEPT !.pc = p]
    <2>1. y.barred = checker[k].barred /\ y.tools = checker[k].tools /\ y.pc = p
        BY DEF Checker
    <2>2. SetChecker(k, y) BY <1>4
    <2> HIDE DEF y
    <2> QED BY <1>2, <1>4, <2>1, <2>2 DEF BarredCheckStops
<1>5. CASE Refuse(k)
    BY <1>1, <1>4, <1>5 DEF Refuse
<1>6. CASE ReadAssignment(k)
    <2>1. PICK t \in checker[k].tools :
            IF t \in granted
            THEN SetChecker(k, [checker[k] EXCEPT !.pc = "files", !.scope = scope[t]])
            ELSE SetChecker(k, [checker[k] EXCEPT !.pc = "no"])
        BY <1>6 DEF ReadAssignment
    <2>2. CASE t \in granted
        <3> DEFINE y == [checker[k] EXCEPT !.pc = "files", !.scope = scope[t]]
        <3>1. y.barred = checker[k].barred BY DEF Checker
        <3>2. SetChecker(k, y) BY <2>1, <2>2
        <3> HIDE DEF y
        <3>3. ~checker[k].barred BY <2>2 DEF BarHolds, BarredCheckStops
        <3> QED BY <1>1, <1>2, <3>1, <3>2, <3>3
    <2>3. CASE t \notin granted BY <1>1, <1>4, <2>1, <2>3
    <2> QED BY <2>2, <2>3
<1>7. CASE CheckFile(k)
    <2>1. ~checker[k].barred BY <1>7 DEF CheckFile, BarredCheckStops
    <2>2. ASSUME NEW f \in checker[k].ask,
                 SetChecker(k, [checker[k] EXCEPT !.ask = @ \ {f}])
          PROVE  BarredCheckStops'
        <3> DEFINE y == [checker[k] EXCEPT !.ask = @ \ {f}]
        <3>1. y.barred = checker[k].barred BY DEF Checker
        <3>2. SetChecker(k, y) BY <2>2
        <3> HIDE DEF y
        <3> QED BY <1>2, <2>1, <3>1, <3>2
    <2> QED BY <1>1, <1>4, <1>7, <2>1, <2>2 DEF CheckFile
<1> QED BY <1>1, <1>3, <1>5, <1>6, <1>7 DEF Check

(* A tool call that begins after its tool was revoked, and before anybody
   begins to grant it again, is refused, however many handlers, syncs and
   replacements of the grants are under way. *)
THEOREM RevocationHolds == Spec => []RevokedIsRefused
<1>1. Init => Barring
    <2> SUFFICES ASSUME Init PROVE Barring OBVIOUS
    <2>1. TypeOK BY TypeInit
    <2>2. BarHolds BY DEF Init, BarHolds
    <2>3. BarredCheckStops
        BY DEF Init, NoCheck, BarredCheckStops
    <2> QED BY <2>1, <2>2, <2>3 DEF Barring
<1>2. Barring /\ [Next]_vars => Barring'
    <2> SUFFICES ASSUME Barring, [Next]_vars PROVE Barring' OBVIOUS
    <2>1. TypeOK' BY TypeNext DEF Barring
    <2>2. CASE UNCHANGED vars
        BY <2>1, <2>2 DEF Barring, BarHolds, BarredCheckStops, vars, tools
    <2>3. ASSUME NEW h \in Handlers, Fault(h) PROVE BarHolds' /\ BarredCheckStops'
        <3>1. Fewer BY <2>3, FewerRaise DEF Fault, Barring, TypeOK
        <3> QED BY <2>3, <3>1, BarredKept DEF Fault, Barring
    <2> QED BY <2>1, <2>2, <2>3, BarredContinue, BarredRequest, BarredCheck
            DEF Next, Barring
<1>3. Barring => RevokedIsRefused
    BY DEF Barring, BarredCheckStops, RevokedIsRefused
<1> QED BY <1>1, <1>2, <1>3, PTL DEF Spec

(* A file that was not in the Keycard enters it with global eligibility
   off, whoever enables, removes or assigns it meanwhile. *)
THEOREM FilesOff == Spec => FilesStartOff
<1>1. ASSUME [Next]_vars, NEW f \in Files, f \in visible' \ visible
      PROVE  f \notin eligible'
    <2>1. CASE UNCHANGED keycard BY <1>1, <2>1 DEF keycard
    <2>2. ASSUME NEW h \in Handlers, Assign(h) PROVE f \notin eligible'
        BY <1>1, <2>2, PermissionConstants DEF Assign, AssignFiles, AssignFolder
    <2>3. ASSUME NEW h \in Handlers, NEW t \in Tools, NEW p \in Paths,
                 AssignToTool(h, t, p)
          PROVE  f \notin eligible'
        BY <1>1, <2>3, PermissionConstants
           DEF AssignToTool, AssignFiles, AssignFolder, Paths
    <2>4. ASSUME NEW h \in Handlers, NEW p \in Paths, Remove(h, p) PROVE FALSE
        BY <1>1, <2>4 DEF Remove
    <2>5. ASSUME NEW h \in Handlers, Mark(h) PROVE FALSE
        BY <1>1, <2>5 DEF Mark
    <2>6. CASE UNCHANGED vars BY <2>1, <2>6 DEF vars
    <2>7. ASSUME NEW k \in Checkers, Check(k) PROVE UNCHANGED keycard
        BY <2>7 DEF Check, BeginCheck, Refuse, ReadAssignment, CheckFile
    <2>8. ASSUME NEW h \in Handlers, Request(h) PROVE f \notin eligible'
        BY <2>1, <2>2, <2>3, <2>4, <2>8
           DEF Request, Update, SetEligible, GrantTool, RevokeTool, SetScope,
               Allow, Deny
    <2>9. ASSUME NEW h \in Handlers, Continue(h) PROVE f \notin eligible'
        BY <2>1, <2>5, <2>9
           DEF Continue, ClearForFile, ListTools, ListFiles, EnsureTool,
               EnsurePath, EnsureDirect, EnsureVisible, LookForRow, WriteRow,
               WriteOff, ReadIds, WriteBindings, WriteSection, ClearForTool,
               Rewrite, ReadProviderIds, Compare, ReplaceNext, WriteScope
    <2>10. ASSUME NEW h \in Handlers, Fault(h) PROVE UNCHANGED keycard
        BY <2>10 DEF Fault
    <2> QED BY <1>1, <2>1, <2>6, <2>7, <2>8, <2>9, <2>10 DEF Next
<1>2. [Next]_vars => [\A f \in Files : f \in visible' \ visible => f \notin eligible']_vars
    BY <1>1
<1> QED BY <1>2, PTL DEF Spec, FilesStartOff

(* A file is listed by an entry of its own or by a folder above it.        *)
LEMMA ExpandBy ==
    ASSUME NEW S, NEW f \in Files
    PROVE  f \in Expand(S) <=> f \in S \/ \E d \in Above(f) : d \in S
<1>1. f \in S \cap Files <=> f \in S
    OBVIOUS
<1>2. f \in UNION {Inside[d] \cap Files : d \in S \cap Folders}
        <=> \E d \in Above(f) : d \in S
    BY DEF Above
<1> QED BY <1>1, <1>2 DEF Expand

(* The run context lists for a tool (list_granted_file_paths) exactly the
   files on which the check of a tool call (is_tool_allowed_on_file) lets a
   tool of local scope work: the two are written separately. *)
THEOREM ListAgreesWithCheck ==
    ASSUME NEW t \in Tools, NEW f \in Files
    PROVE  f \in GrantedFiles(t) <=> IsAllowed(t, f)
<1> DEFINE S == {p \in Paths : <<t, p>> \in allowed}
<1>1. Above(f) \subseteq Paths /\ Above(f) \subseteq Folders /\ f \in Paths
    BY DEF Above, Paths
<1>2. f \in Expand(S) <=> f \in S \/ \E d \in Above(f) : d \in S
    BY ExpandBy
<1>3. f \notin Folders BY PermissionConstants
<1>4. f \in Expand(visible \cap eligible \cap Folders)
        <=> Above(f) \cap visible \cap eligible # {}
    <2>1. f \in Expand(visible \cap eligible \cap Folders)
            <=> \/ f \in visible \cap eligible \cap Folders
                \/ \E d \in Above(f) : d \in visible \cap eligible \cap Folders
        BY ExpandBy
    <2> QED BY <1>1, <1>3, <2>1
<1>5. f \in Expand(S) <=> \E q \in {f} \cup Above(f) : <<t, q>> \in allowed
    BY <1>1, <1>2
<1> QED BY <1>4, <1>5 DEF GrantedFiles, IsAllowed

(* Every file a workflow is run on because of its tools' permissions is one
   on which the check lets each of them work under local scope. *)
THEOREM TargetsAreAllowed ==
    ASSUME NEW T \in SUBSET Tools, NEW f \in Targets(T), NEW t \in T
    PROVE  IsAllowed(t, f)
<1>1. f \in Files /\ f \in Expand({p \in Paths : <<t, p>> \in allowed})
    BY DEF Targets
<1>2. f \in GrantedFiles(t) BY <1>1 DEF GrantedFiles
<1> QED BY <1>1, <1>2, ListAgreesWithCheck

-----------------------------------------------------------------------------
(* One request at a time.  A handler leaves the tables in order when it is *)
(* answered: what it still has to put right is what its own step says.     *)
OneAtATime == MaxFaults = 0 /\ \E h \in Handlers : Handlers = {h}

(* A permission of a tool that is not granted, or on a path that the       *)
(* Keycard does not show, is one that the handler is about to clear.       *)
Cleared(h) ==
    /\ \A g \in allowed : g[1] \notin granted =>
         /\ handler[h].pc \in {"ids", "bind", "section", "clearTool"}
         /\ handler[h].op = "revoke" /\ g[1] \in handler[h].tools
    /\ \A g \in allowed : Above(g[2]) = {} /\ g[2] \notin visible =>
         handler[h].pc = "clearFile" /\ g[2] \in handler[h].paths

(* A permission that is about to be written has been looked into.          *)
Ensured(h) ==
    /\ handler[h].pc \in {"path", "direct", "visible", "look", "write"} =>
         \A g, e \in handler[h].cur : g = e
    /\ handler[h].pc \in {"path", "visible", "look", "write"} =>
         \A g \in handler[h].cur : g[1] \in granted
    /\ handler[h].pc \in {"look", "write"} =>
         \A g \in handler[h].cur : Above(g[2]) = {} => g[2] \in visible

(* The projections are in sync but for those the handler has still to      *)
(* write, of the tools that are granted.                                   *)
Projected(h) ==
    /\ handler[h].pc \in {"bind", "section"} => handler[h].ids = granted
    /\ handler[h].pc = "rewrite" => handler[h].ids = bindings
    /\ handler[h].pc \notin {"ids", "bind"} => bindings = granted
    /\ handler[h].pc \notin {"ids", "bind", "section"} => access = granted

Tidy(h) == Cleared(h) /\ Ensured(h) /\ Projected(h)

LEMMA SetIs ==
    ASSUME TypeOK, NEW h \in Handlers, NEW x, Set(h, x)
    PROVE  handler'[h] = x
BY DEF TypeOK, Set

LEMMA GotoIs ==
    ASSUME TypeOK, NEW h \in Handlers, NEW p, Goto(h, p)
    PROVE  /\ handler'[h].pc = p
           /\ handler'[h].op = handler[h].op /\ handler'[h].tools = handler[h].tools
           /\ handler'[h].paths = handler[h].paths /\ handler'[h].on = handler[h].on
           /\ handler'[h].todo = handler[h].todo /\ handler'[h].cur = handler[h].cur
           /\ handler'[h].ids = handler[h].ids /\ handler'[h].batch = handler[h].batch
<1>1. handler[h] \in Handler BY DEF TypeOK
<1>2. handler'[h] = [handler[h] EXCEPT !.pc = p] BY SetIs DEF Goto
<1> QED BY <1>1, <1>2 DEF Handler

LEMMA ReturnIs ==
    ASSUME TypeOK, NEW h \in Handlers, Return(h)
    PROVE  handler'[h].pc \in {"idle", "next"} /\ (~handler[h].batch => handler'[h] = Idle)
<1>1. CASE handler[h].batch
    <2> DEFINE y == [Idle EXCEPT !.pc = "next", !.batch = TRUE,
                        !.drop = handler[h].drop, !.add = handler[h].add]
    <2>1. y.pc = "next" BY DEF Idle
    <2>2. Set(h, y) BY <1>1 DEF Return
    <2> HIDE DEF y
    <2> QED BY <1>1, <2>1, <2>2, SetIs
<1>2. CASE ~handler[h].batch
    <2>1. handler'[h] = Idle BY <1>2, SetIs DEF Return
    <2> QED BY <2>1 DEF Idle
<1> QED BY <1>1, <1>2

LEMMA RaiseIs ==
    ASSUME TypeOK, NEW h \in Handlers, Raise(h)
    PROVE  handler'[h].pc = "idle" /\ failed'
<1>1. handler'[h] = Idle BY SetIs DEF Raise
<1> QED BY <1>1 DEF Idle, Raise

LEMMA TidyContinue ==
    ASSUME TypeOK, NEW h \in Handlers, Tidy(h), Continue(h)
    PROVE  Tidy(h)'
<1> USE DEF keycard, tools, perms, copies, bounds
<1>0. handler[h] \in Handler BY DEF TypeOK
<1> DEFINE r == handler[h]
<1> USE DEF Tidy, Cleared, Ensured, Projected
<1>1. CASE ClearForFile(h)
    <2>1. handler'[h].pc \in {"idle", "next"} BY <1>1, ReturnIs DEF ClearForFile
    <2> QED BY <1>1, <2>1 DEF ClearForFile, Above
<1>2. CASE Mark(h)
    <2>1. /\ handler'[h].pc \in {"idle", "next", "clearFile", "listTools"}
          /\ UNCHANGED <<visible, granted, allowed, bindings, access>>
        BY <1>2, ReturnIs, GotoIs DEF Mark
    <2> QED BY <1>2, <2>1 DEF Mark, Above
<1>3. CASE ListTools(h)
    <2> DEFINE y == [r EXCEPT !.pc = "tool", !.todo = granted \X r.paths]
    <2>1. y.pc = "tool" BY <1>0 DEF Handler
    <2>2. Set(h, y) BY <1>3 DEF ListTools
    <2> HIDE DEF y
    <2>3. handler'[h].pc = "tool" BY <2>1, <2>2, SetIs
    <2> QED BY <1>3, <2>3 DEF ListTools, Above
<1>4. CASE ListFiles(h)
    <2> DEFINE y == [r EXCEPT !.pc = "tool",
                       !.todo = r.tools \X (visible \cap eligible \cap Files)]
    <2>1. y.pc = "tool" BY <1>0 DEF Handler
    <2>2. Set(h, y) BY <1>4 DEF ListFiles
    <2> HIDE DEF y
    <2>3. handler'[h].pc = "tool" BY <2>1, <2>2, SetIs
    <2> QED BY <1>4, <2>3 DEF ListFiles, Above
<1>5. CASE EnsureTool(h)
    <2>1. UNCHANGED <<visible, granted, allowed, bindings, access>> /\ r.pc = "tool"
        BY <1>5 DEF EnsureTool
    <2>2. CASE handler'[h].pc \in {"idle", "next"}
        BY <2>1, <2>2 DEF Above
    <2>3. ASSUME NEW g \in r.todo, g[1] \in granted,
                 Set(h, [r EXCEPT !.pc = "path", !.cur = {g}, !.todo = @ \ {g}])
          PROVE  Tidy(h)'
        <3> DEFINE y == [r EXCEPT !.pc = "path", !.cur = {g}, !.todo = @ \ {g}]
        <3>1. y.pc = "path" /\ y.cur = {g} BY <1>0 DEF Handler
        <3>2. Set(h, y) BY <2>3
        <3> HIDE DEF y
        <3>3. handler'[h].pc = "path" /\ handler'[h].cur = {g} BY <3>1, <3>2, SetIs
        <3> QED BY <2>1, <2>3, <3>3 DEF Above
    <2> QED BY <1>5, <2>2, <2>3, ReturnIs, RaiseIs DEF EnsureTool
<1>6. CASE EnsurePath(h)
    <2>1. UNCHANGED <<visible, granted, allowed, bindings, access>> /\ r.pc = "path"
        BY <1>6 DEF EnsurePath
    <2>2. CASE handler'[h].pc = "idle"
        BY <2>1, <2>2 DEF Above
    <2>3. ASSUME NEW g \in r.cur, Deciding(g[2]) \cap eligible # {}, Goto(h, "look")
          PROVE  Tidy(h)'
        <3>1. r.cur = {g} BY <2>1
        <3>2. Above(g[2]) = {} => g[2] \in visible BY <2>3 DEF Deciding
        <3>3. handler'[h].pc = "look" /\ handler'[h].cur = r.cur BY <2>3, GotoIs
        <3> QED BY <2>1, <3>1, <3>2, <3>3 DEF Above
    <2> QED BY <1>6, <2>2, <2>3, RaiseIs DEF EnsurePath
<1>7. CASE EnsureDirect(h)
    <2>1. UNCHANGED <<visible, granted, allowed, bindings, access>> /\ r.pc = "direct"
        BY <1>7 DEF EnsureDirect
    <2>2. CASE handler'[h].pc = "idle"
        BY <2>1, <2>2 DEF Above
    <2>3. ASSUME NEW g \in r.cur, g[1] \in granted, Goto(h, "visible")
          PROVE  Tidy(h)'
        <3>1. r.cur = {g} BY <2>1
        <3>2. handler'[h].pc = "visible" /\ handler'[h].cur = r.cur BY <2>3, GotoIs
        <3> QED BY <2>1, <2>3, <3>1, <3>2 DEF Above
    <2> QED BY <1>7, <2>2, <2>3, RaiseIs DEF EnsureDirect
<1>8. CASE EnsureVisible(h)
    <2>1. UNCHANGED <<visible, granted, allowed, bindings, access>> /\ r.pc = "visible"
        BY <1>8 DEF EnsureVisible
    <2>2. CASE handler'[h].pc = "idle"
        BY <2>1, <2>2 DEF Above
    <2>3. ASSUME NEW g \in r.cur, IsVisible(g[2]), Goto(h, "look")
          PROVE  Tidy(h)'
        <3>1. r.cur = {g} BY <2>1
        <3>2. Above(g[2]) = {} => g[2] \in visible BY <2>3 DEF IsVisible
        <3>3. handler'[h].pc = "look" /\ handler'[h].cur = r.cur BY <2>3, GotoIs
        <3> QED BY <2>1, <3>1, <3>2, <3>3 DEF Above
    <2> QED BY <1>8, <2>2, <2>3, RaiseIs DEF EnsureVisible
<1>9. CASE LookForRow(h)
    <2> DEFINE b == r.cur \subseteq rows
               y == [r EXCEPT !.pc = "write", !.found = b]
    <2>1. y.pc = "write" /\ y.cur = r.cur
        <3> HIDE DEF b
        <3> QED BY <1>0 DEF Handler
    <2>2. Set(h, y) BY <1>9 DEF LookForRow
    <2> HIDE DEF y
    <2>3. handler'[h].pc = "write" /\ handler'[h].cur = r.cur BY <2>1, <2>2, SetIs
    <2> QED BY <1>9, <2>3 DEF LookForRow, Above
<1>10. CASE WriteRow(h)
    <2>1. handler'[h].pc \in {"idle", "tool"}
        BY <1>10, GotoIs, RaiseIs DEF WriteRow
    <2>2. allowed' = allowed \/ allowed' = allowed \cup r.cur
        BY <1>10 DEF WriteRow
    <2>3. UNCHANGED <<visible, granted, bindings, access>> /\ r.pc = "write"
        BY <1>10 DEF WriteRow
    <2> QED BY <2>1, <2>2, <2>3 DEF Above
<1>11. CASE WriteOff(h)
    <2>1. handler'[h].pc \in {"idle", "next"} BY <1>11, ReturnIs DEF WriteOff
    <2> QED BY <1>11, <2>1 DEF WriteOff, Above
<1>12. CASE ReadIds(h)
    <2> DEFINE y == [r EXCEPT !.pc = "bind", !.ids = granted]
    <2>1. y.pc = "bind" /\ y.ids = granted /\ y.op = r.op /\ y.tools = r.tools
        BY <1>0 DEF Handler
    <2>2. Set(h, y) BY <1>12 DEF ReadIds
    <2> HIDE DEF y
    <2>3. handler'[h] = y BY <2>2, SetIs
    <2> QED BY <1>12, <2>1, <2>3 DEF ReadIds, Above
<1>13. CASE WriteBindings(h)
    <2>1. /\ handler'[h].pc = "section" /\ handler'[h].ids = r.ids
          /\ handler'[h].op = r.op /\ handler'[h].tools = r.tools
        BY <1>13, GotoIs DEF WriteBindings
    <2> QED BY <1>13, <2>1 DEF WriteBindings, Above
<1>14. CASE WriteSection(h)
    <2>1. /\ UNCHANGED <<visible, granted, allowed, bindings>> /\ r.pc = "section"
          /\ access' = r.ids
        BY <1>14 DEF WriteSection
    <2>2. CASE r.op = "revoke"
        <3>1. /\ handler'[h].pc = "clearTool" /\ handler'[h].op = r.op
              /\ handler'[h].tools = r.tools
            BY <1>14, <2>2, GotoIs DEF WriteSection
        <3> QED BY <2>1, <3>1 DEF Above
    <2>3. CASE r.op # "revoke"
        <3>1. handler'[h].pc \in {"listFiles", "idle", "next", "compare"}
            BY <1>14, <2>3, GotoIs, ReturnIs DEF WriteSection
        <3> QED BY <2>1, <2>3, <3>1 DEF Above
    <2> QED BY <2>2, <2>3
<1>15. CASE ClearForTool(h)
    <2>1. handler'[h].pc \in {"idle", "next"} BY <1>15, ReturnIs DEF ClearForTool
    <2> QED BY <1>15, <2>1 DEF ClearForTool, Above
<1>16. CASE Rewrite(h)
    <2>1. handler'[h].pc \in {"idle", "next", "provider", "compare"}
        BY <1>16, ReturnIs, GotoIs DEF Rewrite
    <2> QED BY <1>16, <2>1 DEF Rewrite, Above
<1>17. CASE ReadProviderIds(h)
    <2> DEFINE y == [r EXCEPT !.pc = "section", !.ids = granted]
    <2>1. y.pc = "section" /\ y.ids = granted BY <1>0 DEF Handler
    <2>2. Set(h, y) BY <1>17 DEF ReadProviderIds
    <2> HIDE DEF y
    <2>3. handler'[h] = y BY <2>2, SetIs
    <2> QED BY <1>17, <2>1, <2>3 DEF ReadProviderIds, Above
<1>18. CASE Compare(h)
    <2>1. PICK desired \in SUBSET Tools :
            Set(h, [Idle EXCEPT !.pc = "next", !.batch = TRUE,
                      !.drop = granted \ desired, !.add = desired \ granted])
        BY <1>18 DEF Compare
    <2> DEFINE y == [Idle EXCEPT !.pc = "next", !.batch = TRUE,
                       !.drop = granted \ desired, !.add = desired \ granted]
    <2>2. y.pc = "next" BY DEF Idle
    <2>3. Set(h, y) BY <2>1
    <2> HIDE DEF y
    <2>4. handler'[h] = y BY <2>3, SetIs
    <2> QED BY <1>18, <2>2, <2>4 DEF Compare, Above
<1>19. CASE ReplaceNext(h)
    <2>0. /\ UNCHANGED <<visible, allowed, bindings, access>> /\ r.pc = "next"
        BY <1>19 DEF ReplaceNext
    <2>1. ASSUME NEW t \in r.drop, WriteRevoke(t),
                 Set(h, [r EXCEPT !.pc = "ids", !.op = "revoke",
                           !.tools = {t}, !.drop = @ \ {t}])
          PROVE  Tidy(h)'
        <3> DEFINE y == [r EXCEPT !.pc = "ids", !.op = "revoke",
                           !.tools = {t}, !.drop = @ \ {t}]
        <3>1. y.pc = "ids" /\ y.op = "revoke" /\ y.tools = {t} BY <1>0 DEF Handler
        <3>2. Set(h, y) BY <2>1
        <3> HIDE DEF y
        <3>3. handler'[h] = y BY <3>2, SetIs
        <3> QED BY <2>0, <2>1, <3>1, <3>3 DEF WriteRevoke, Above
    <2>2. ASSUME NEW t \in r.add, WriteGrant(t),
                 Set(h, [r EXCEPT !.pc = "ids", !.op = "grant",
                           !.tools = {t}, !.add = @ \ {t}])
          PROVE  Tidy(h)'
        <3> DEFINE y == [r EXCEPT !.pc = "ids", !.op = "grant",
                           !.tools = {t}, !.add = @ \ {t}]
        <3>1. y.pc = "ids" BY <1>0 DEF Handler
        <3>2. Set(h, y) BY <2>2
        <3> HIDE DEF y
        <3>3. handler'[h] = y BY <3>2, SetIs
        <3> QED BY <2>0, <2>2, <3>1, <3>3 DEF WriteGrant, Above
    <2>3. CASE Set(h, [Idle EXCEPT !.pc = "ids", !.op = "replace"]) /\ UNCHANGED granted
        <3> DEFINE y == [Idle EXCEPT !.pc = "ids", !.op = "replace"]
        <3>1. y.pc = "ids" BY DEF Idle
        <3>2. Set(h, y) BY <2>3
        <3> HIDE DEF y
        <3>3. handler'[h] = y BY <3>2, SetIs
        <3> QED BY <2>0, <2>3, <3>1, <3>3 DEF Above
    <2> QED BY <1>19, <2>1, <2>2, <2>3 DEF ReplaceNext
<1>20. CASE WriteScope(h)
    <2>1. handler'[h].pc \in {"idle", "next"} BY <1>20, ReturnIs DEF WriteScope
    <2> QED BY <1>20, <2>1 DEF WriteScope, Above
<1> QED BY <1>1, <1>2, <1>3, <1>4, <1>5, <1>6, <1>7, <1>8, <1>9, <1>10,
           <1>11, <1>12, <1>13, <1>14, <1>15, <1>16, <1>17, <1>18, <1>19, <1>20
        DEF Continue

LEMMA TidyRequest ==
    ASSUME TypeOK, NEW h \in Handlers, Tidy(h), Request(h)
    PROVE  Tidy(h)'
<1> USE DEF keycard, tools, perms, copies, bounds
<1> USE DEF Tidy, Cleared, Ensured, Projected
<1>0. handler[h].pc = "idle"
    BY DEF Request, Assign, Update, Remove, SetEligible, GrantTool, RevokeTool, SetScope,
           Allow, Deny, AssignToTool, Calls
<1>1. CASE Assign(h)
    BY <1>0, <1>1 DEF Assign, Calls, AssignFiles, AssignFolder, Above
<1>2. ASSUME Update(h) PROVE Tidy(h)'
    <2> DEFINE y == [Idle EXCEPT !.pc = "rewrite", !.op = "update", !.ids = bindings]
    <2>1. y.pc = "rewrite" /\ y.ids = bindings BY DEF Idle
    <2>2. Set(h, y) BY <1>2 DEF Update
    <2> HIDE DEF y
    <2>3. handler'[h] = y BY <2>2, SetIs
    <2> QED BY <1>0, <1>2, <2>1, <2>3 DEF Update, Calls, Above
<1>3. ASSUME NEW p \in Paths, Remove(h, p) PROVE Tidy(h)'
    <2> DEFINE y == [Idle EXCEPT !.pc = "clearFile", !.paths = {p}]
    <2>1. y.pc = "clearFile" /\ y.paths = {p} BY DEF Idle
    <2>2. Set(h, y) BY <1>3 DEF Remove
    <2> HIDE DEF y
    <2>3. handler'[h] = y BY <2>2, SetIs
    <2> QED BY <1>0, <1>3, <2>1, <2>3 DEF Remove, Calls, Above
<1>4. ASSUME NEW p \in Paths, NEW on \in BOOLEAN, SetEligible(h, p, on) PROVE Tidy(h)'
    <2> DEFINE y == [Idle EXCEPT !.pc = "mark", !.paths = {p}, !.on = on]
    <2>1. y.pc = "mark" BY DEF Idle
    <2>2. Set(h, y) BY <1>4 DEF SetEligible
    <2> HIDE DEF y
    <2>3. handler'[h] = y BY <2>2, SetIs
    <2> QED BY <1>0, <1>4, <2>1, <2>3 DEF SetEligible, Calls, Above
<1>5. ASSUME NEW t \in Tools, GrantTool(h, t) PROVE Tidy(h)'
    <2> DEFINE y == [Idle EXCEPT !.pc = "ids", !.op = "grant", !.tools = {t}]
    <2>1. y.pc = "ids" BY DEF Idle
    <2>2. Set(h, y) BY <1>5 DEF GrantTool
    <2> HIDE DEF y
    <2>3. handler'[h] = y BY <2>2, SetIs
    <2> QED BY <1>0, <1>5, <2>1, <2>3 DEF GrantTool, WriteGrant, Above
<1>6. ASSUME NEW t \in Tools, RevokeTool(h, t) PROVE Tidy(h)'
    <2> DEFINE y == [Idle EXCEPT !.pc = "ids", !.op = "revoke", !.tools = {t}]
    <2>1. y.pc = "ids" /\ y.op = "revoke" /\ y.tools = {t} BY DEF Idle
    <2>2. Set(h, y) BY <1>6 DEF RevokeTool
    <2> HIDE DEF y
    <2>3. handler'[h] = y BY <2>2, SetIs
    <2> QED BY <1>0, <1>6, <2>1, <2>3 DEF RevokeTool, WriteRevoke, Calls, Above
<1>7. ASSUME NEW t \in Tools, NEW s \in Scope, SetScope(h, t, s) PROVE Tidy(h)'
    <2> DEFINE y == [Idle EXCEPT !.pc = "scope", !.tools = {t}, !.to = s]
    <2>1. y.pc = "scope" BY DEF Idle
    <2>2. Set(h, y) BY <1>7 DEF SetScope
    <2> HIDE DEF y
    <2>3. handler'[h] = y BY <2>2, SetIs
    <2> QED BY <1>0, <1>7, <2>1, <2>3 DEF SetScope, Calls, Above
<1>8. ASSUME NEW t \in Tools, NEW p \in Paths, Allow(h, t, p) PROVE Tidy(h)'
    <2> DEFINE y == [Idle EXCEPT !.pc = "tool", !.todo = {<<t, p>>}]
    <2>1. y.pc = "tool" BY DEF Idle
    <2>2. Set(h, y) BY <1>8 DEF Allow
    <2> HIDE DEF y
    <2>3. handler'[h] = y BY <2>2, SetIs
    <2> QED BY <1>0, <1>8, <2>1, <2>3 DEF Allow, Calls, Above
<1>9. ASSUME NEW t \in Tools, NEW p \in Paths, Deny(h, t, p) PROVE Tidy(h)'
    <2> DEFINE y == [Idle EXCEPT !.pc = "off", !.cur = {<<t, p>>}]
    <2>1. y.pc = "off" BY DEF Idle
    <2>2. Set(h, y) BY <1>9 DEF Deny
    <2> HIDE DEF y
    <2>3. handler'[h] = y BY <2>2, SetIs
    <2> QED BY <1>0, <1>9, <2>1, <2>3 DEF Deny, Calls, Above
<1>10. ASSUME NEW t \in Tools, NEW p \in Paths, AssignToTool(h, t, p) PROVE Tidy(h)'
    <2> DEFINE y == [Idle EXCEPT !.pc = "direct", !.cur = {<<t, p>>}]
    <2>1. y.pc = "direct" /\ y.cur = {<<t, p>>} BY DEF Idle
    <2>2. Set(h, y) BY <1>10 DEF AssignToTool
    <2> HIDE DEF y
    <2>3. handler'[h] = y BY <2>2, SetIs
    <2>4. \A g, e \in handler'[h].cur : g = e BY <2>1, <2>3
    <2>5. /\ UNCHANGED <<granted, allowed, bindings, access>> /\ visible \subseteq visible'
        BY <1>10 DEF AssignToTool, Calls, AssignFiles, AssignFolder
    <2> QED BY <1>0, <2>1, <2>3, <2>4, <2>5 DEF Above
<1> QED BY <1>1, <1>2, <1>3, <1>4, <1>5, <1>6, <1>7, <1>8, <1>9, <1>10 DEF Request

LEMMA TidyStays ==
    ASSUME NEW h, Tidy(h), UNCHANGED <<visible, granted, allowed, bindings, access, handler>>
    PROVE  Tidy(h)'
<1>1. Cleared(h)' BY DEF Tidy, Cleared, Above
<1>2. Ensured(h)' BY DEF Tidy, Ensured, Above
<1>3. Projected(h)' BY DEF Tidy, Projected
<1> QED BY <1>1, <1>2, <1>3 DEF Tidy

LEMMA AlwaysTidy ==
    OneAtATime => (Spec => [](TypeOK /\ \A h \in Handlers : Tidy(h)))
<1> SUFFICES ASSUME OneAtATime
             PROVE  Spec => [](TypeOK /\ \A h \in Handlers : Tidy(h))
    OBVIOUS
<1> DEFINE I == TypeOK /\ \A h \in Handlers : Tidy(h)
<1>1. Init => I
    <2> SUFFICES ASSUME Init PROVE I OBVIOUS
    <2>1. TypeOK BY TypeInit
    <2>2. ASSUME NEW h \in Handlers PROVE Tidy(h)
        <3>1. handler[h].pc = "idle" BY DEF Init, Idle
        <3> QED BY <3>1 DEF Init, Tidy, Cleared, Ensured, Projected
    <2> QED BY <2>1, <2>2
<1>2. I /\ [Next]_vars => I'
    <2> SUFFICES ASSUME I, [Next]_vars PROVE I' OBVIOUS
    <2>1. TypeOK' BY TypeNext
    <2>2. ASSUME NEW h \in Handlers PROVE Tidy(h)'
        <3>1. ASSUME UNCHANGED <<visible, granted, allowed, bindings, access, handler>>
              PROVE  Tidy(h)'
            BY <3>1, TidyStays
        <3>2. CASE UNCHANGED vars
            BY <3>1, <3>2 DEF vars, tools, perms, copies, keycard
        <3>3. ASSUME NEW k \in Checkers, Check(k) PROVE Tidy(h)'
            <4>1. UNCHANGED <<keycard, tools, perms, copies, handler>>
                BY <3>3 DEF Check, BeginCheck, Refuse, ReadAssignment, CheckFile
            <4> QED BY <3>1, <4>1 DEF tools, perms, copies, keycard
        <3>4. ASSUME NEW g \in Handlers, Fault(g) PROVE FALSE
            BY <3>4, PermissionConstants DEF Fault, OneAtATime, TypeOK
        <3>5. ASSUME NEW g \in Handlers, Request(g) \/ Continue(g) PROVE Tidy(h)'
            <4>1. g = h BY DEF OneAtATime
            <4>2. Tidy(g)' BY <3>5, TidyRequest, TidyContinue
            <4> QED BY <4>1, <4>2
        <3> QED BY <3>2, <3>3, <3>4, <3>5 DEF Next
    <2> QED BY <2>1, <2>2
<1> HIDE DEF I
<1> QED BY <1>1, <1>2, PTL DEF Spec, I

(* When requests come one at a time and none is interrupted, no permission *)
(* is left of a tool that is not granted: neither by a revocation nor by   *)
(* replace_grants.                                                         *)
THEOREM RowsAreOfGrants == OneAtATime => (Spec => []RowsFollowGrants)
<1> SUFFICES ASSUME OneAtATime PROVE Spec => []RowsFollowGrants OBVIOUS
<1>1. (\A h \in Handlers : Tidy(h)) => RowsFollowGrants
    BY DEF OneAtATime, AtRest, RowsFollowGrants, Tidy, Cleared
<1>2. Spec => [](\A h \in Handlers : Tidy(h)) BY AlwaysTidy, PTL
<1> QED BY <1>1, <1>2, PTL

(* ... none on a path in no folder that the Keycard does not show, ...     *)
THEOREM LonePathsAreShown == OneAtATime => (Spec => []LonePathsAreBounded)
<1> SUFFICES ASSUME OneAtATime PROVE Spec => []LonePathsAreBounded OBVIOUS
<1>1. (\A h \in Handlers : Tidy(h)) => LonePathsAreBounded
    BY DEF OneAtATime, AtRest, LonePathsAreBounded, IsVisible, Tidy, Cleared
<1>2. Spec => [](\A h \in Handlers : Tidy(h)) BY AlwaysTidy, PTL
<1> QED BY <1>1, <1>2, PTL

(* ... and both projections name the granted tools.                        *)
THEOREM ProjectionsFollow == OneAtATime => (Spec => []ProjectionsInSync)
<1> SUFFICES ASSUME OneAtATime PROVE Spec => []ProjectionsInSync OBVIOUS
<1>1. (\A h \in Handlers : Tidy(h)) => ProjectionsInSync
    BY DEF OneAtATime, AtRest, ProjectionsInSync, Tidy, Projected
<1>2. Spec => [](\A h \in Handlers : Tidy(h)) BY AlwaysTidy, PTL
<1> QED BY <1>1, <1>2, PTL

-----------------------------------------------------------------------------
(* Requests that only add: whatever is granted and enabled at the same     *)
(* time, each permission that is missing is one that some handler is still *)
(* going to write, unless a request ended with an exception.               *)
OnlyAdding == Ops \cap {"remove", "disable", "revoke", "update", "deny"} = {}

Adds(h) ==
    /\ handler[h].pc \notin {"clearFile", "off", "clearTool", "rewrite", "provider",
                             "compare", "next"}
    /\ handler[h].pc \in {"ids", "bind", "section"} => handler[h].op = "grant"
    /\ handler[h].pc = "mark" => handler[h].on
    /\ ~handler[h].batch

Owes(h, t, f) ==
    \/ handler[h].pc = "listTools" /\ f \in handler[h].paths
    \/ handler[h].pc \in {"ids", "bind", "section", "listFiles"} /\ t \in handler[h].tools
    \/ handler[h].pc \in {"tool", "path", "look", "write"} /\ <<t, f>> \in handler[h].todo
    \/ handler[h].pc \in {"path", "look", "write"} /\ <<t, f>> \in handler[h].cur

Owed == ~failed => \A t \in granted : \A f \in visible \cap eligible \cap Files :
                     <<t, f>> \in allowed \/ \E h \in Handlers : Owes(h, t, f)

SyncInv == TypeOK /\ Owed /\ \A h \in Handlers : Adds(h)

(* A step of a handler that takes nothing away, writes or keeps what it    *)
(* owed, and owes what is new.                                             *)
Pays(h) ==
    /\ Adds(h)'
    /\ \A q \in Handlers \ {h} : handler'[q] = handler[q]
    /\ failed => failed'
    /\ ~failed' =>
         /\ allowed \subseteq allowed'
         /\ \A t \in granted' : \A f \in visible' \cap eligible' \cap Files :
              \/ t \in granted /\ f \in visible \cap eligible
              \/ Owes(h, t, f)'
         /\ \A t \in granted : \A f \in visible \cap eligible \cap Files :
              Owes(h, t, f) => <<t, f>> \in allowed' \/ Owes(h, t, f)'

LEMMA PaysKeeps ==
    ASSUME SyncInv, TypeOK', NEW h \in Handlers, Pays(h)
    PROVE  SyncInv'
<1>1. ASSUME NEW q \in Handlers PROVE Adds(q)'
    BY <1>1 DEF SyncInv, Pays, Adds
<1>2. ASSUME ~failed', NEW t \in granted', NEW f \in visible' \cap eligible' \cap Files
      PROVE  <<t, f>> \in allowed' \/ \E q \in Handlers : Owes(q, t, f)'
    <2>1. CASE Owes(h, t, f)' BY <2>1
    <2>2. CASE t \in granted /\ f \in visible \cap eligible
        <3>1. <<t, f>> \in allowed \/ \E q \in Handlers : Owes(q, t, f)
            BY <1>2, <2>2 DEF SyncInv, Owed, Pays
        <3>2. ASSUME NEW q \in Handlers \ {h}, Owes(q, t, f) PROVE Owes(q, t, f)'
            BY <3>2 DEF Pays, Owes
        <3>3. Owes(h, t, f) => <<t, f>> \in allowed' \/ Owes(h, t, f)'
            BY <1>2, <2>2 DEF Pays
        <3> QED BY <1>2, <3>1, <3>2, <3>3 DEF Pays
    <2> QED BY <1>2, <2>1, <2>2 DEF Pays
<1> QED BY <1>1, <1>2 DEF SyncInv, Owed

LEMMA OthersSet ==
    ASSUME TypeOK, NEW h \in Handlers, NEW x, Set(h, x)
    PROVE  \A q \in Handlers \ {h} : handler'[q] = handler[q]
BY DEF TypeOK, Set

LEMMA OthersMove ==
    ASSUME TypeOK, NEW h \in Handlers,
           Raise(h) \/ Return(h) \/ \E p \in Step : Goto(h, p)
    PROVE  \A q \in Handlers \ {h} : handler'[q] = handler[q]
BY OthersSet DEF Raise, Return, Goto

LEMMA RaisePays ==
    ASSUME SyncInv, NEW h \in Handlers, Raise(h)
    PROVE  Pays(h)
<1>1. handler'[h] = Idle /\ failed' BY SetIs DEF SyncInv, Raise
<1>2. Adds(h)' BY <1>1 DEF Adds, Idle
<1> QED BY <1>1, <1>2, OthersMove DEF SyncInv, Pays

LEMMA SyncContinue ==
    ASSUME SyncInv, NEW h \in Handlers, Continue(h)
    PROVE  Pays(h)
<1> USE DEF keycard, tools, perms, copies, bounds
<1>0. handler[h] \in Handler /\ TypeOK /\ Adds(h) BY DEF SyncInv, TypeOK
<1> DEFINE r == handler[h]
<1>1. ASSUME ClearForFile(h) \/ WriteOff(h) \/ ClearForTool(h) \/ Rewrite(h)
             \/ ReadProviderIds(h) \/ Compare(h) \/ ReplaceNext(h)
      PROVE  FALSE
    BY <1>0, <1>1 DEF Adds, ClearForFile, WriteOff, ClearForTool, Rewrite, ReadProviderIds,
                      Compare, ReplaceNext
<1>a. ASSUME UNCHANGED <<visible, eligible, granted, allowed, failed>>,
             \A q \in Handlers \ {h} : handler'[q] = handler[q], Adds(h)',
             \A t \in granted : \A f \in visible \cap eligible \cap Files :
               Owes(h, t, f) => Owes(h, t, f)'
      PROVE  Pays(h)
    BY <1>a DEF Pays
<1>2. CASE Mark(h)
    <2>1. /\ r.on /\ UNCHANGED <<visible, granted, allowed, failed>>
          /\ eligible' = eligible \cup r.paths /\ r.pc = "mark"
        BY <1>0, <1>2 DEF Mark, Adds
    <2>2. \A t, f : ~Owes(h, t, f) BY <2>1 DEF Owes
    <2>3. CASE r.paths \subseteq Folders /\ Return(h)
        <3>1. handler'[h] = Idle BY <1>0, <2>3, ReturnIs DEF Adds
        <3>2. Adds(h)' BY <3>1 DEF Adds, Idle
        <3>3. \A q \in Handlers \ {h} : handler'[q] = handler[q]
            BY <1>0, <2>3, OthersMove
        <3>4. \A f \in eligible' \cap Files : f \in eligible
            BY <2>1, <2>3, PermissionConstants
        <3> QED BY <2>1, <2>2, <3>2, <3>3, <3>4 DEF Pays
    <2>4. CASE Goto(h, "listTools")
        <3>1. /\ handler'[h].pc = "listTools" /\ handler'[h].paths = r.paths
              /\ handler'[h].batch = r.batch
            BY <1>0, <2>4, GotoIs
        <3>2. Adds(h)' BY <1>0, <3>1 DEF Adds
        <3>3. \A q \in Handlers \ {h} : handler'[q] = handler[q]
            BY <1>0, <2>4, OthersMove DEF Step
        <3>4. \A t, f : f \in r.paths => Owes(h, t, f)'
            BY <3>1 DEF Owes
        <3> QED BY <2>1, <2>2, <3>2, <3>3, <3>4 DEF Pays
    <2> QED BY <1>2, <2>1, <2>3, <2>4 DEF Mark
<1>3. CASE ListTools(h)
    <2> DEFINE y == [r EXCEPT !.pc = "tool", !.todo = granted \X r.paths]
    <2>1. y.pc = "tool" /\ y.todo = granted \X r.paths /\ y.batch = r.batch
        BY <1>0 DEF Handler
    <2>2. Set(h, y) BY <1>3 DEF ListTools
    <2> HIDE DEF y
    <2>3. handler'[h] = y /\ \A q \in Handlers \ {h} : handler'[q] = handler[q]
        BY <1>0, <2>2, SetIs, OthersSet
    <2>4. Adds(h)' BY <1>0, <2>1, <2>3 DEF Adds
    <2>5. \A t \in granted : \A f : Owes(h, t, f) => Owes(h, t, f)'
        BY <1>3, <2>1, <2>3 DEF Owes, ListTools
    <2> QED BY <1>3, <1>a, <2>3, <2>4, <2>5 DEF ListTools
<1>4. CASE ListFiles(h)
    <2> DEFINE y == [r EXCEPT !.pc = "tool",
                       !.todo = r.tools \X (visible \cap eligible \cap Files)]
    <2>1. /\ y.pc = "tool" /\ y.todo = r.tools \X (visible \cap eligible \cap Files)
          /\ y.batch = r.batch
        BY <1>0 DEF Handler
    <2>2. Set(h, y) BY <1>4 DEF ListFiles
    <2> HIDE DEF y
    <2>3. handler'[h] = y /\ \A q \in Handlers \ {h} : handler'[q] = handler[q]
        BY <1>0, <2>2, SetIs, OthersSet
    <2>4. Adds(h)' BY <1>0, <2>1, <2>3 DEF Adds
    <2>5. \A t : \A f \in visible \cap eligible \cap Files : Owes(h, t, f) => Owes(h, t, f)'
        BY <1>4, <2>1, <2>3 DEF Owes, ListFiles
    <2> QED BY <1>4, <1>a, <2>3, <2>4, <2>5 DEF ListFiles
<1>5. CASE EnsureTool(h)
    <2>0. r.pc = "tool" /\ UNCHANGED <<visible, eligible, granted, allowed>>
        BY <1>5 DEF EnsureTool
    <2>1. CASE r.todo = {} /\ Return(h) /\ UNCHANGED failed
        <3>1. handler'[h] = Idle BY <1>0, <2>1, ReturnIs DEF Adds
        <3>2. Adds(h)' BY <3>1 DEF Adds, Idle
        <3>3. \A q \in Handlers \ {h} : handler'[q] = handler[q]
            BY <1>0, <2>1, OthersMove
        <3>4. \A t, f : ~Owes(h, t, f) BY <2>0, <2>1 DEF Owes
        <3> QED BY <1>a, <2>0, <2>1, <3>2, <3>3, <3>4
    <2>2. ASSUME NEW g \in r.todo, UNCHANGED failed,
                 Set(h, [r EXCEPT !.pc = "path", !.cur = {g}, !.todo = @ \ {g}])
          PROVE  Pays(h)
        <3> DEFINE y == [r EXCEPT !.pc = "path", !.cur = {g}, !.todo = @ \ {g}]
        <3>1. y.pc = "path" /\ y.cur = {g} /\ y.todo = r.todo \ {g} /\ y.batch = r.batch
            BY <1>0 DEF Handler
        <3>2. Set(h, y) BY <2>2
        <3> HIDE DEF y
        <3>3. handler'[h] = y /\ \A q \in Handlers \ {h} : handler'[q] = handler[q]
            BY <1>0, <3>2, SetIs, OthersSet
        <3>4. Adds(h)' BY <1>0, <3>1, <3>3 DEF Adds
        <3>5. \A t, f : Owes(h, t, f) => Owes(h, t, f)'
            BY <2>0, <3>1, <3>3 DEF Owes
        <3> QED BY <1>a, <2>0, <2>2, <3>3, <3>4, <3>5
    <2> QED BY <1>5, <2>1, <2>2, RaisePays DEF EnsureTool
<1>b. ASSUME NEW p \in {"path", "visible"}, NEW q \in {"visible", "look"},
             r.pc = p, Goto(h, q), UNCHANGED <<visible, eligible, granted, allowed, failed>>,
             p = "path" => q = "look"
      PROVE  Pays(h)
    <2>1. /\ handler'[h].pc = q /\ handler'[h].todo = r.todo /\ handler'[h].cur = r.cur
          /\ handler'[h].batch = r.batch
        BY <1>0, <1>b, GotoIs
    <2>2. Adds(h)' BY <1>0, <2>1 DEF Adds
    <2>3. \A e \in Handlers \ {h} : handler'[e] = handler[e]
        BY <1>0, <1>b, OthersMove DEF Step
    <2>4. \A t, f : Owes(h, t, f) => Owes(h, t, f)'
        BY <1>b, <2>1 DEF Owes
    <2> QED BY <1>a, <1>b, <2>2, <2>3, <2>4
<1>6. CASE EnsurePath(h)
    BY <1>6, <1>b, RaisePays DEF EnsurePath
<1>7. CASE EnsureDirect(h)
    <2>1. CASE Goto(h, "visible") /\ UNCHANGED failed
        <3>1. handler'[h].pc = "visible" /\ handler'[h].batch = r.batch
            BY <1>0, <2>1, GotoIs
        <3>2. Adds(h)' BY <1>0, <3>1 DEF Adds
        <3>3. \A e \in Handlers \ {h} : handler'[e] = handler[e]
            BY <1>0, <2>1, OthersMove DEF Step
        <3>4. \A t, f : ~Owes(h, t, f) BY <1>7 DEF EnsureDirect, Owes
        <3> QED BY <1>7, <1>a, <2>1, <3>2, <3>3, <3>4 DEF EnsureDirect
    <2> QED BY <1>7, <2>1, RaisePays DEF EnsureDirect
<1>8. CASE EnsureVisible(h)
    BY <1>8, <1>b, RaisePays DEF EnsureVisible
<1>9. CASE LookForRow(h)
    <2> DEFINE b == r.cur \subseteq rows
               y == [r EXCEPT !.pc = "write", !.found = b]
    <2>1. y.pc = "write" /\ y.cur = r.cur /\ y.todo = r.todo /\ y.batch = r.batch
        <3> HIDE DEF b
        <3> QED BY <1>0 DEF Handler
    <2>2. Set(h, y) BY <1>9 DEF LookForRow
    <2> HIDE DEF y
    <2>3. handler'[h] = y /\ \A q \in Handlers \ {h} : handler'[q] = handler[q]
        BY <1>0, <2>2, SetIs, OthersSet
    <2>4. Adds(h)' BY <1>0, <2>1, <2>3 DEF Adds
    <2>5. \A t, f : Owes(h, t, f) => Owes(h, t, f)'
        BY <1>9, <2>1, <2>3 DEF Owes, LookForRow
    <2> QED BY <1>9, <1>a, <2>3, <2>4, <2>5 DEF LookForRow
<1>10. CASE WriteRow(h)
    <2>1. CASE allowed' = allowed \cup r.cur /\ Goto(h, "tool") /\ UNCHANGED failed
        <3>1. /\ handler'[h].pc = "tool" /\ handler'[h].todo = r.todo
              /\ handler'[h].batch = r.batch
            BY <1>0, <2>1, GotoIs
        <3>2. Adds(h)' BY <1>0, <3>1 DEF Adds
        <3>3. \A e \in Handlers \ {h} : handler'[e] = handler[e]
            BY <1>0, <2>1, OthersMove DEF Step
        <3>4. \A t, f : Owes(h, t, f) => <<t, f>> \in allowed' \/ Owes(h, t, f)'
            BY <1>10, <2>1, <3>1 DEF WriteRow, Owes
        <3>5. UNCHANGED <<visible, eligible, granted>>
            BY <1>10 DEF WriteRow
        <3> QED BY <2>1, <3>2, <3>3, <3>4, <3>5 DEF Pays
    <2> QED BY <1>10, <2>1, RaisePays DEF WriteRow
<1>12. CASE ReadIds(h)
    <2> DEFINE y == [r EXCEPT !.pc = "bind", !.ids = granted]
    <2>1. y.pc = "bind" /\ y.tools = r.tools /\ y.op = r.op /\ y.batch = r.batch
        BY <1>0 DEF Handler
    <2>2. Set(h, y) BY <1>12 DEF ReadIds
    <2> HIDE DEF y
    <2>3. handler'[h] = y /\ \A q \in Handlers \ {h} : handler'[q] = handler[q]
        BY <1>0, <2>2, SetIs, OthersSet
    <2>4. Adds(h)' BY <1>0, <1>12, <2>1, <2>3 DEF Adds, ReadIds
    <2>5. \A t, f : Owes(h, t, f) => Owes(h, t, f)'
        BY <1>12, <2>1, <2>3 DEF Owes, ReadIds
    <2> QED BY <1>12, <1>a, <2>3, <2>4, <2>5 DEF ReadIds
<1>13. CASE WriteBindings(h)
    <2>1. /\ handler'[h].pc = "section" /\ handler'[h].tools = r.tools
          /\ handler'[h].op = r.op /\ handler'[h].batch = r.batch
        BY <1>0, <1>13, GotoIs DEF WriteBindings
    <2>2. Adds(h)' BY <1>0, <1>13, <2>1 DEF Adds, WriteBindings
    <2>3. \A e \in Handlers \ {h} : handler'[e] = handler[e]
        BY <1>0, <1>13, OthersMove DEF WriteBindings, Step
    <2>4. \A t, f : Owes(h, t, f) => Owes(h, t, f)'
        BY <1>13, <2>1 DEF Owes, WriteBindings
    <2> QED BY <1>13, <1>a, <2>2, <2>3, <2>4 DEF WriteBindings
<1>14. CASE WriteSection(h)
    <2>0. r.op = "grant" /\ Goto(h, "listFiles")
        BY <1>0, <1>14 DEF WriteSection, Adds
    <2>1. /\ handler'[h].pc = "listFiles" /\ handler'[h].tools = r.tools
          /\ handler'[h].batch = r.batch
        BY <1>0, <2>0, GotoIs
    <2>2. Adds(h)' BY <1>0, <2>1 DEF Adds
    <2>3. \A e \in Handlers \ {h} : handler'[e] = handler[e]
        BY <1>0, <2>0, OthersMove DEF Step
    <2>4. \A t, f : Owes(h, t, f) => Owes(h, t, f)'
        BY <1>14, <2>1 DEF Owes, WriteSection
    <2> QED BY <1>14, <1>a, <2>2, <2>3, <2>4 DEF WriteSection
<1>20. CASE WriteScope(h)
    <2>1. handler'[h] = Idle BY <1>0, <1>20, ReturnIs DEF Adds, WriteScope
    <2>2. Adds(h)' BY <2>1 DEF Adds, Idle
    <2>3. \A q \in Handlers \ {h} : handler'[q] = handler[q]
        BY <1>0, <1>20, OthersMove DEF WriteScope
    <2>4. \A t, f : ~Owes(h, t, f) BY <1>20 DEF Owes, WriteScope
    <2> QED BY <1>20, <1>a, <2>2, <2>3, <2>4 DEF WriteScope
<1> QED BY <1>1, <1>2, <1>3, <1>4, <1>5, <1>6, <1>7, <1>8, <1>9, <1>10,
           <1>12, <1>13, <1>14, <1>20
        DEF Continue

LEMMA SyncRequest ==
    ASSUME SyncInv, OnlyAdding, NEW h \in Handlers, Request(h)
    PROVE  Pays(h)
<1> USE DEF keycard, tools, perms, copies, bounds
<1>0. TypeOK /\ Adds(h) BY DEF SyncInv
<1>1. handler[h].pc = "idle"
    BY DEF Request, Assign, Update, Remove, SetEligible, GrantTool, RevokeTool, SetScope,
           Allow, Deny, AssignToTool, Calls
<1>2. \A t, f : ~Owes(h, t, f) BY <1>1 DEF Owes
<1>3. ASSUME Update(h) PROVE FALSE
    BY <1>3 DEF Update, Calls, OnlyAdding
<1>4. ASSUME NEW p \in Paths, Remove(h, p) PROVE FALSE
    BY <1>4 DEF Remove, Calls, OnlyAdding
<1>5. ASSUME NEW t \in Tools, RevokeTool(h, t) PROVE FALSE
    BY <1>5 DEF RevokeTool, Calls, OnlyAdding
<1>6. ASSUME NEW t \in Tools, NEW p \in Paths, Deny(h, t, p) PROVE FALSE
    BY <1>6 DEF Deny, Calls, OnlyAdding
<1>a. ASSUME NEW x, Set(h, x), ~x.batch,
             x.pc \in {"tool", "scope", "direct"} \/ (x.pc = "mark" /\ x.on),
             UNCHANGED <<granted, allowed, failed>>,
             \A f \in visible' \cap eligible' \cap Files : f \in visible \cap eligible
      PROVE  Pays(h)
    <2>1. handler'[h] = x /\ \A q \in Handlers \ {h} : handler'[q] = handler[q]
        BY <1>0, <1>a, SetIs, OthersSet
    <2>2. Adds(h)' BY <1>a, <2>1 DEF Adds
    <2> QED BY <1>2, <1>a, <2>1, <2>2 DEF Pays
<1>7. CASE Assign(h)
    <2>1. \A f \in visible' \cap eligible' \cap Files : f \in visible \cap eligible
        BY <1>7, PermissionConstants DEF Assign, AssignFiles, AssignFolder
    <2>2. UNCHANGED <<granted, allowed, failed, handler>>
        BY <1>7 DEF Assign
    <2>3. Adds(h)' BY <1>0, <2>2 DEF Adds
    <2> QED BY <1>2, <2>1, <2>2, <2>3 DEF Pays
<1>8. ASSUME NEW p \in Paths, NEW on \in BOOLEAN, SetEligible(h, p, on) PROVE Pays(h)
    <2> DEFINE y == [Idle EXCEPT !.pc = "mark", !.paths = {p}, !.on = on]
    <2>0. on BY <1>8 DEF SetEligible, Calls, OnlyAdding
    <2>1. y.pc = "mark" /\ y.on = on /\ ~y.batch BY DEF Idle
    <2>2. Set(h, y) BY <1>8 DEF SetEligible
    <2> HIDE DEF y
    <2> QED BY <1>8, <1>a, <2>0, <2>1, <2>2 DEF SetEligible
<1>9. ASSUME NEW t \in Tools, GrantTool(h, t) PROVE Pays(h)
    <2> DEFINE y == [Idle EXCEPT !.pc = "ids", !.op = "grant", !.tools = {t}]
    <2>1. y.pc = "ids" /\ y.op = "grant" /\ y.tools = {t} /\ ~y.batch BY DEF Idle
    <2>2. Set(h, y) BY <1>9 DEF GrantTool
    <2> HIDE DEF y
    <2>3. handler'[h] = y /\ \A q \in Handlers \ {h} : handler'[q] = handler[q]
        BY <1>0, <2>2, SetIs, OthersSet
    <2>4. Adds(h)' BY <2>1, <2>3 DEF Adds
    <2>5. \A f : Owes(h, t, f)' BY <2>1, <2>3 DEF Owes
    <2>6. granted' = granted \cup {t} /\ UNCHANGED <<visible, eligible, allowed, failed>>
        BY <1>9 DEF GrantTool, WriteGrant
    <2> QED BY <1>2, <2>3, <2>4, <2>5, <2>6 DEF Pays
<1>10. ASSUME NEW t \in Tools, NEW s \in Scope, SetScope(h, t, s) PROVE Pays(h)
    <2> DEFINE y == [Idle EXCEPT !.pc = "scope", !.tools = {t}, !.to = s]
    <2>1. y.pc = "scope" /\ ~y.batch BY DEF Idle
    <2>2. Set(h, y) BY <1>10 DEF SetScope
    <2> HIDE DEF y
    <2> QED BY <1>10, <1>a, <2>1, <2>2 DEF SetScope
<1>11. ASSUME NEW t \in Tools, NEW p \in Paths, Allow(h, t, p) PROVE Pays(h)
    <2> DEFINE y == [Idle EXCEPT !.pc = "tool", !.todo = {<<t, p>>}]
    <2>1. y.pc = "tool" /\ ~y.batch BY DEF Idle
    <2>2. Set(h, y) BY <1>11 DEF Allow
    <2> HIDE DEF y
    <2> QED BY <1>11, <1>a, <2>1, <2>2 DEF Allow
<1>12. ASSUME NEW t \in Tools, NEW p \in Paths, AssignToTool(h, t, p) PROVE Pays(h)
    <2> DEFINE y == [Idle EXCEPT !.pc = "direct", !.cur = {<<t, p>>}]
    <2>1. y.pc = "direct" /\ ~y.batch BY DEF Idle
    <2>2. Set(h, y) BY <1>12 DEF AssignToTool
    <2> HIDE DEF y
    <2>3. \A f \in visible' \cap eligible' \cap Files : f \in visible \cap eligible
        BY <1>12, PermissionConstants DEF AssignToTool, AssignFiles, AssignFolder, Paths
    <2> QED BY <1>12, <1>a, <2>1, <2>2, <2>3 DEF AssignToTool
<1> QED BY <1>3, <1>4, <1>5, <1>6, <1>7, <1>8, <1>9, <1>10, <1>11, <1>12 DEF Request

LEMMA AlwaysSyncInv == OnlyAdding => (Spec => []SyncInv)
<1> SUFFICES ASSUME OnlyAdding PROVE Spec => []SyncInv OBVIOUS
<1>1. Init => SyncInv
    <2> SUFFICES ASSUME Init PROVE SyncInv OBVIOUS
    <2>1. TypeOK BY TypeInit
    <2>2. Owed BY DEF Init, Owed
    <2>3. \A h \in Handlers : handler[h] = Idle BY DEF Init
    <2>4. \A h \in Handlers : Adds(h) BY <2>3 DEF Adds, Idle
    <2> QED BY <2>1, <2>2, <2>4 DEF SyncInv
<1>2. SyncInv /\ [Next]_vars => SyncInv'
    <2> SUFFICES ASSUME SyncInv, [Next]_vars PROVE SyncInv' OBVIOUS
    <2>1. TypeOK' BY TypeNext DEF SyncInv
    <2>2. ASSUME UNCHANGED <<keycard, tools, perms, handler, failed>> PROVE SyncInv'
        <3>1. \A h \in Handlers : Adds(h)' BY <2>2 DEF SyncInv, Adds
        <3>2. Owed' BY <2>2 DEF SyncInv, Owed, Owes, keycard, tools, perms
        <3> QED BY <2>1, <3>1, <3>2 DEF SyncInv
    <2>3. CASE UNCHANGED vars BY <2>2, <2>3 DEF vars
    <2>4. ASSUME NEW k \in Checkers, Check(k) PROVE SyncInv'
        BY <2>2, <2>4 DEF Check, BeginCheck, Refuse, ReadAssignment, CheckFile
    <2>5. ASSUME NEW h \in Handlers, Request(h) \/ Continue(h) \/ Fault(h) PROVE SyncInv'
        <3>1. Pays(h) BY <2>5, SyncRequest, SyncContinue, RaisePays DEF Fault
        <3> QED BY <2>1, <3>1, PaysKeeps
    <2> QED BY <2>3, <2>4, <2>5 DEF Next
<1> QED BY <1>1, <1>2, PTL DEF Spec

(* While nothing is removed, disabled or revoked, every granted tool ends  *)
(* up allowed on every globally eligible file, in whatever order or at the *)
(* same time, by however many handlers, the tools are granted and the      *)
(* files assigned and enabled.                                             *)
THEOREM SyncsMeet == OnlyAdding => (Spec => []SyncComplete)
<1> SUFFICES ASSUME OnlyAdding PROVE Spec => []SyncComplete OBVIOUS
<1>1. SyncInv => SyncComplete
    <2> SUFFICES ASSUME SyncInv, AtRest, ~failed,
                        NEW t \in granted, NEW f \in visible \cap eligible \cap Files
                 PROVE  <<t, f>> \in allowed
        BY DEF SyncComplete
    <2>1. \A h \in Handlers : ~Owes(h, t, f) BY DEF AtRest, Owes
    <2> QED BY <2>1 DEF SyncInv, Owed
<1>2. Spec => []SyncInv BY AlwaysSyncInv
<1> QED BY <1>1, <1>2, PTL
=============================================================================
