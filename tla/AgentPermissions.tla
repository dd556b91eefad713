-------------------------- MODULE AgentPermissions --------------------------
(***************************************************************************)
(* What one agent may touch: its Keycard (agent_file_assignments), its     *)
(* granted tools (agent_capability_assignments), the per-tool permissions  *)
(* on paths (agent_tool_file_permissions) and the two projections of the   *)
(* granted tools kept in the agent's row and in its tool_access section.   *)
(* Request handlers change them in several transactions each; a running    *)
(* workflow asks is_capability_allowed_for_agent in between.  A step is    *)
(* one transaction, or the reads of one helper that decides on them.       *)
(***************************************************************************)
EXTENDS Integers, FiniteSets

CONSTANTS
    Files, Folders,  \* paths of either kind
    Inside,          \* Inside[d]: the paths below folder d, recursively
    Tools,           \* capability ids
    Handlers,        \* request-handler threads
    Checkers,        \* threads of running workflows that call a tool
    Ops,             \* bound: the routes the clients use
    MaxCalls,        \* bound: calls the clients make
    MaxFaults        \* bound: transactions that raise

Paths == Files \cup Folders
Op    == {"assign", "remove", "enable", "disable", "grant", "revoke",
          "update", "scope", "allow", "deny", "direct"}

ASSUME PermissionConstants ==
    /\ Files \cap Folders = {}
    /\ Inside \in [Folders -> SUBSET Paths]
    /\ Ops \subseteq Op
    /\ MaxCalls \in Nat /\ MaxFaults \in Nat

Scope == {"local", "global"}
Grant == Tools \X Paths

(* What a handler does next.                                               *)
Step == {"idle", "clearFile", "mark", "listTools", "listFiles", "tool",
         "path", "direct", "visible", "look", "write", "off", "ids", "bind",
         "section", "clearTool", "rewrite", "provider", "compare", "next",
         "scope"}

(* op: what the projection is refreshed for; tool, path, on, to: arguments *)
(* of the call; todo: permissions still to be granted; cur, found: the one *)
(* being granted and whether its row was there; ids: the tools it read;    *)
(* drop, add: what is left of replace_grants.                              *)
Handler == [pc : Step, op : {"grant", "revoke", "replace", "update"},
            tools : SUBSET Tools, paths : SUBSET Paths, on : BOOLEAN,
            to : Scope, todo : SUBSET Grant, cur : SUBSET Grant,
            found : BOOLEAN, ids : SUBSET Tools, batch : BOOLEAN,
            drop : SUBSET Tools, add : SUBSET Tools]

(* ask: target paths not looked at yet; barred: the tool was revoked when  *)
(* the check began and nobody has begun to grant it since.                 *)
Checker == [pc : {"idle", "grants", "files", "yes", "no"},
            tools : SUBSET Tools, ask : SUBSET Files, scope : Scope,
            barred : BOOLEAN]

VARIABLES
    visible, eligible,   \* Keycard: visibility_state, global_tool_eligible
    granted, scope,      \* assignment_state, scope (the row outlives a revoke)
    rows, allowed,       \* permissions that have a row; those in state granted
    bindings, access,    \* agents.tool_bindings, section tool_access
    handler, checker,    \* the threads
    barred,              \* history: tools revoked, and no grant begun since
    failed,              \* history: some request ended with an exception
    calls, faults

keycard == <<visible, eligible>>
tools   == <<granted, scope, barred>>
perms   == <<rows, allowed>>
copies  == <<bindings, access>>
bounds  == <<calls, faults>>
vars    == <<keycard, tools, perms, copies, handler, checker, failed, bounds>>

Idle == [pc |-> "idle", op |-> "update", tools |-> {}, paths |-> {},
         on |-> FALSE, to |-> "local", todo |-> {}, cur |-> {},
         found |-> FALSE, ids |-> {}, batch |-> FALSE, drop |-> {}, add |-> {}]

NoCheck == [pc |-> "idle", tools |-> {}, ask |-> {}, scope |-> "local",
            barred |-> FALSE]

Init ==
    /\ visible = {} /\ eligible = {}
    /\ granted = {} /\ scope = [t \in Tools |-> "local"]
    /\ rows = {} /\ allowed = {}
    /\ bindings = {} /\ access = {}
    /\ handler = [h \in Handlers |-> Idle]
    /\ checker = [k \in Checkers |-> NoCheck]
    /\ barred = {} /\ failed = FALSE
    /\ calls = 0 /\ faults = 0

Above(p) == {d \in Folders : p \in Inside[d]}

-----------------------------------------------------------------------------
(* What the tables say.                                                    *)

(* is_file_visible_to_agent, _is_path_visible *)
IsVisible(p) == p \in visible \/ Above(p) \cap visible # {}

(* is_file_globally_eligible *)
IsEligible(p) == \E q \in {p} \cup Above(p) : q \in visible \cap eligible

(* is_tool_allowed_on_file *)
IsAllowed(t, p) ==
    \/ \E q \in {p} \cup Above(p) : <<t, q>> \in allowed
    \/ Above(p) \cap visible \cap eligible # {}

(* The files of a set of entries, folders expanded recursively. *)
Expand(S) == (S \cap Files) \cup UNION {Inside[d] \cap Files : d \in S \cap Folders}

(* list_granted_file_paths *)
GrantedFiles(t) ==
    Expand({p \in Paths : <<t, p>> \in allowed})
      \cup Expand(visible \cap eligible \cap Folders)

(* list_visible_file_paths *)
VisibleFiles == Expand(visible)

(* _resolve_tool_permission_intersection: the files a workflow that invokes
   the tools T runs on. *)
Targets(T) ==
    IF T = {} THEN VisibleFiles
    ELSE {f \in Files : \A t \in T :
            f \in Expand({p \in Paths : <<t, p>> \in allowed})}

-----------------------------------------------------------------------------
(* Steps of a handler.                                                     *)

Set(h, x) == handler' = [handler EXCEPT ![h] = x]
Goto(h, p) == Set(h, [handler[h] EXCEPT !.pc = p])

(* The call returns to replace_grants' loop, or the request is answered.   *)
Return(h) ==
    Set(h, IF handler[h].batch
           THEN [Idle EXCEPT !.pc = "next", !.batch = TRUE,
                    !.drop = handler[h].drop, !.add = handler[h].add]
           ELSE Idle)

(* An exception leaves the handler: what is done stays done.               *)
Raise(h) == Set(h, Idle) /\ failed' = TRUE

Calls(h, op) ==
    /\ handler[h].pc = "idle" /\ op \in Ops
    /\ calls < MaxCalls /\ calls' = calls + 1
    /\ UNCHANGED <<faults, checker>>

(* assign_files: the entry of a file that was not visible starts off.      *)
AssignFiles(S) ==
    /\ visible' = visible \cup S
    /\ eligible' = eligible \ (S \ visible)

(* assign_folder: the entry keeps the eligibility its row has.             *)
AssignFolder(d) == visible' = visible \cup {d} /\ UNCHANGED eligible

Assign(h) ==
    /\ Calls(h, "assign")
    /\ \/ \E S \in (SUBSET Files) \ {{}} : AssignFiles(S)
       \/ \E d \in Folders : AssignFolder(d)
    /\ UNCHANGED <<tools, perms, copies, handler, failed>>

(* assign_to_tool_keycard: the entry is made before the tool is looked at. *)
AssignToTool(h, t, p) ==
    /\ Calls(h, "direct")
    /\ IF p \in Files THEN AssignFiles({p}) ELSE AssignFolder(p)
    /\ Set(h, [Idle EXCEPT !.pc = "direct", !.cur = {<<t, p>>}])
    /\ UNCHANGED <<tools, perms, copies, failed>>

(* Defect: the permissions on a removed path are left alone.               *)
RemoveKeepsRows(h, p) ==
    /\ Calls(h, "remove")
    /\ visible' = visible \ {p}
    /\ eligible' = IF p \in visible THEN eligible \ {p} ELSE eligible
    /\ UNCHANGED <<tools, perms, copies, handler, failed>>

(* remove_file *)
Remove(h, p) ==
    /\ Calls(h, "remove")
    /\ visible' = visible \ {p}
    /\ eligible' = IF p \in visible THEN eligible \ {p} ELSE eligible
    /\ Set(h, [Idle EXCEPT !.pc = "clearFile", !.paths = {p}])
    /\ UNCHANGED <<tools, perms, copies, failed>>

ClearForFile(h) ==
    /\ handler[h].pc = "clearFile"
    /\ allowed' = {g \in allowed : g[2] \notin handler[h].paths}
    /\ Return(h)
    /\ UNCHANGED <<keycard, tools, rows, copies, checker, failed, bounds>>

(* set_global_eligibility: the entry is read, then written whatever has    *)
(* become of it.                                                           *)
SetEligible(h, p, on) ==
    /\ Calls(h, IF on THEN "enable" ELSE "disable")
    /\ p \in visible
    /\ Set(h, [Idle EXCEPT !.pc = "mark", !.paths = {p}, !.on = on])
    /\ UNCHANGED <<keycard, tools, perms, copies, failed>>

Mark(h) ==
    /\ handler[h].pc = "mark"
    /\ eligible' = IF handler[h].on THEN eligible \cup handler[h].paths
                                    ELSE eligible \ handler[h].paths
    /\ IF ~handler[h].on THEN Goto(h, "clearFile")
       ELSE IF handler[h].paths \subseteq Folders THEN Return(h)
       ELSE Goto(h, "listTools")
    /\ UNCHANGED <<visible, tools, perms, copies, checker, failed, bounds>>

(* sync_for_global_enabled_file *)
ListTools(h) ==
    /\ handler[h].pc = "listTools"
    /\ Set(h, [handler[h] EXCEPT !.pc = "tool",
                 !.todo = granted \X handler[h].paths])
    /\ UNCHANGED <<keycard, tools, perms, copies, checker, failed, bounds>>

(* sync_for_new_granted_tool *)
ListFiles(h) ==
    /\ handler[h].pc = "listFiles"
    /\ Set(h, [handler[h] EXCEPT !.pc = "tool",
                 !.todo = handler[h].tools \X (visible \cap eligible \cap Files)])
    /\ UNCHANGED <<keycard, tools, perms, copies, checker, failed, bounds>>

(* set_allowed(allowed=True), called by the toggle route and by the syncs. *)
Allow(h, t, p) ==
    /\ Calls(h, "allow")
    /\ Set(h, [Idle EXCEPT !.pc = "tool", !.todo = {<<t, p>>}])
    /\ UNCHANGED <<keycard, tools, perms, copies, failed>>

(* _ensure_tool_granted for the next permission of the list.               *)
EnsureTool(h) ==
    /\ handler[h].pc = "tool"
    /\ \/ handler[h].todo = {} /\ Return(h) /\ UNCHANGED failed
       \/ \E g \in handler[h].todo :
            IF g[1] \in granted
            THEN /\ Set(h, [handler[h] EXCEPT !.pc = "path", !.cur = {g},
                              !.todo = @ \ {g}])
                 /\ UNCHANGED failed
            ELSE Raise(h)
    /\ UNCHANGED <<keycard, tools, perms, copies, checker, bounds>>

(* _ensure_visible_and_globally_eligible: an entry of its own decides for
   a path; otherwise one visible folder above it does, whichever row the
   query returns first. *)
Deciding(p) == IF p \in visible THEN {p} ELSE Above(p) \cap visible

EnsurePath(h) ==
    /\ handler[h].pc = "path"
    /\ \E g \in handler[h].cur :
         \/ /\ Deciding(g[2]) \cap eligible # {}
            /\ Goto(h, "look") /\ UNCHANGED failed
         \/ /\ Deciding(g[2]) = {} \/ Deciding(g[2]) \ eligible # {}
            /\ Raise(h)
    /\ UNCHANGED <<keycard, tools, perms, copies, checker, bounds>>

(* grant_direct: the tool, then the path. *)
EnsureDirect(h) ==
    /\ handler[h].pc = "direct"
    /\ IF \E g \in handler[h].cur : g[1] \in granted
       THEN Goto(h, "visible") /\ UNCHANGED failed
       ELSE Raise(h)
    /\ UNCHANGED <<keycard, tools, perms, copies, checker, bounds>>

EnsureVisible(h) ==
    /\ handler[h].pc = "visible"
    /\ IF \E g \in handler[h].cur : IsVisible(g[2])
       THEN Goto(h, "look") /\ UNCHANGED failed
       ELSE Raise(h)
    /\ UNCHANGED <<keycard, tools, perms, copies, checker, bounds>>

(* The SELECT that chooses between INSERT and UPDATE ... *)
LookForRow(h) ==
    /\ handler[h].pc = "look"
    /\ Set(h, [handler[h] EXCEPT !.pc = "write",
                 !.found = handler[h].cur \subseteq rows])
    /\ UNCHANGED <<keycard, tools, perms, copies, checker, failed, bounds>>

(* Defect: a broken UNIQUE constraint is taken for "already allowed".      *)
WriteRowQuietly(h) ==
    /\ handler[h].pc = "write"
    /\ IF ~handler[h].found /\ handler[h].cur \subseteq rows
       THEN Return(h) /\ UNCHANGED perms
       ELSE /\ rows' = rows \cup handler[h].cur
            /\ allowed' = allowed \cup handler[h].cur
            /\ Goto(h, "tool")
    /\ UNCHANGED <<keycard, tools, copies, checker, failed, bounds>>

(* ... and the write: an INSERT of a row somebody else has inserted since
   breaks UNIQUE(agent_id, capability_id, absolute_path). *)
WriteRow(h) ==
    /\ handler[h].pc = "write"
    /\ IF ~handler[h].found /\ handler[h].cur \subseteq rows
       THEN Raise(h) /\ UNCHANGED perms
       ELSE /\ rows' = rows \cup handler[h].cur
            /\ allowed' = allowed \cup handler[h].cur
            /\ Goto(h, "tool") /\ UNCHANGED failed
    /\ UNCHANGED <<keycard, tools, copies, checker, bounds>>

(* set_allowed(allowed=False) *)
Deny(h, t, p) ==
    /\ Calls(h, "deny") /\ t \in granted
    /\ Set(h, [Idle EXCEPT !.pc = "off", !.cur = {<<t, p>>}])
    /\ UNCHANGED <<keycard, tools, perms, copies, failed>>

WriteOff(h) ==
    /\ handler[h].pc = "off"
    /\ allowed' = allowed \ handler[h].cur
    /\ Return(h)
    /\ UNCHANGED <<keycard, tools, rows, copies, checker, failed, bounds>>

-----------------------------------------------------------------------------
(* Granted tools and their projections.                                    *)

(* Somebody begins to grant the tools T: checks begun before may say yes.  *)
Unbar(T) ==
    /\ barred' = barred \ T
    /\ checker' = [k \in Checkers |->
                     [checker[k] EXCEPT !.barred = @ /\ checker[k].tools \cap T = {}]]

WriteGrant(t)  == granted' = granted \cup {t} /\ Unbar({t})
WriteRevoke(t) ==
    /\ granted' = granted \ {t}
    /\ barred' = IF \E h \in Handlers : t \in handler[h].add
                 THEN barred ELSE barred \cup {t}

(* Defect: the projections are not refreshed after a grant.                *)
GrantNotProjected(h, t) ==
    /\ handler[h].pc = "idle" /\ "grant" \in Ops
    /\ calls < MaxCalls /\ calls' = calls + 1
    /\ WriteGrant(t)
    /\ Set(h, [Idle EXCEPT !.pc = "listFiles", !.op = "grant", !.tools = {t}])
    /\ UNCHANGED <<keycard, scope, perms, copies, failed, faults>>

(* grant; a catalog entry that is missing refuses the request before this. *)
GrantTool(h, t) ==
    /\ handler[h].pc = "idle" /\ "grant" \in Ops
    /\ calls < MaxCalls /\ calls' = calls + 1
    /\ WriteGrant(t)
    /\ Set(h, [Idle EXCEPT !.pc = "ids", !.op = "grant", !.tools = {t}])
    /\ UNCHANGED <<keycard, scope, perms, copies, failed, faults>>

RevokeTool(h, t) ==
    /\ Calls(h, "revoke")
    /\ WriteRevoke(t)
    /\ Set(h, [Idle EXCEPT !.pc = "ids", !.op = "revoke", !.tools = {t}])
    /\ UNCHANGED <<keycard, scope, perms, copies, failed>>

(* _sync_agent_tool_access_projection reads the granted tools once and
   writes them to the agent's row and, later, to its section. *)
ReadIds(h) ==
    /\ handler[h].pc = "ids"
    /\ Set(h, [handler[h] EXCEPT !.pc = "bind", !.ids = granted])
    /\ UNCHANGED <<keycard, tools, perms, copies, checker, failed, bounds>>

WriteBindings(h) ==
    /\ handler[h].pc = "bind"
    /\ bindings' = handler[h].ids
    /\ Goto(h, "section")
    /\ UNCHANGED <<keycard, tools, perms, access, checker, failed, bounds>>

(* Defect: a revoke ends with the projection.                              *)
WriteSectionNoClear(h) ==
    /\ handler[h].pc = "section"
    /\ access' = handler[h].ids
    /\ \/ handler[h].op = "grant"  /\ Goto(h, "listFiles")
       \/ handler[h].op \in {"revoke", "replace", "update"} /\ Return(h)
       \/ handler[h].op = "update" /\ Goto(h, "compare")
    /\ UNCHANGED <<keycard, tools, perms, bindings, checker, failed, bounds>>

WriteSection(h) ==
    /\ handler[h].pc = "section"
    /\ access' = handler[h].ids
    /\ \/ handler[h].op = "grant"  /\ Goto(h, "listFiles")
       \/ handler[h].op = "revoke" /\ Goto(h, "clearTool")
       \/ handler[h].op \in {"replace", "update"} /\ Return(h)
       \/ handler[h].op = "update" /\ Goto(h, "compare")
    /\ UNCHANGED <<keycard, tools, perms, bindings, checker, failed, bounds>>

ClearForTool(h) ==
    /\ handler[h].pc = "clearTool"
    /\ allowed' = {g \in allowed : g[1] \notin handler[h].tools}
    /\ Return(h)
    /\ UNCHANGED <<keycard, tools, rows, copies, checker, failed, bounds>>

(* AgentService.update writes back the tool_bindings it read, refreshes the
   section when the provider or model changes, and replaces the grants when
   the request names some. *)
Update(h) ==
    /\ Calls(h, "update")
    /\ Set(h, [Idle EXCEPT !.pc = "rewrite", !.op = "update", !.ids = bindings])
    /\ UNCHANGED <<keycard, tools, perms, copies, failed>>

Rewrite(h) ==
    /\ handler[h].pc = "rewrite"
    /\ bindings' = handler[h].ids
    /\ \/ Return(h) \/ Goto(h, "provider") \/ Goto(h, "compare")
    /\ UNCHANGED <<keycard, tools, perms, access, checker, failed, bounds>>

ReadProviderIds(h) ==
    /\ handler[h].pc = "provider"
    /\ Set(h, [handler[h] EXCEPT !.pc = "section", !.ids = granted])
    /\ UNCHANGED <<keycard, tools, perms, copies, checker, failed, bounds>>

(* replace_grants: what to revoke and to grant is decided once ... *)
Compare(h) ==
    /\ handler[h].pc = "compare"
    /\ \E desired \in SUBSET Tools :
         /\ Set(h, [Idle EXCEPT !.pc = "next", !.batch = TRUE,
                      !.drop = granted \ desired, !.add = desired \ granted])
         /\ Unbar(desired \ granted)
    /\ UNCHANGED <<keycard, granted, scope, perms, copies, failed, bounds>>

(* ... then done tool by tool, the revocations first. *)
ReplaceNext(h) ==
    /\ handler[h].pc = "next"
    /\ \/ \E t \in handler[h].drop :
            /\ WriteRevoke(t)
            /\ Set(h, [handler[h] EXCEPT !.pc = "ids", !.op = "revoke",
                         !.tools = {t}, !.drop = @ \ {t}])
            /\ UNCHANGED checker
       \/ /\ handler[h].drop = {}
          /\ \E t \in handler[h].add :
               /\ WriteGrant(t)
               /\ Set(h, [handler[h] EXCEPT !.pc = "ids", !.op = "grant",
                            !.tools = {t}, !.add = @ \ {t}])
       \/ /\ handler[h].drop = {} /\ handler[h].add = {}
          /\ Set(h, [Idle EXCEPT !.pc = "ids", !.op = "replace"])
          /\ UNCHANGED <<granted, barred, checker>>
    /\ UNCHANGED <<keycard, scope, perms, copies, failed, bounds>>

(* set_scope: the assignment is read, then written whatever has become of it. *)
SetScope(h, t, s) ==
    /\ Calls(h, "scope") /\ t \in granted
    /\ Set(h, [Idle EXCEPT !.pc = "scope", !.tools = {t}, !.to = s])
    /\ UNCHANGED <<keycard, tools, perms, copies, failed>>

WriteScope(h) ==
    /\ handler[h].pc = "scope"
    /\ scope' = [t \in Tools |-> IF t \in handler[h].tools
                                 THEN handler[h].to ELSE scope[t]]
    /\ Return(h)
    /\ UNCHANGED <<keycard, granted, barred, perms, copies, checker, failed,
                   bounds>>

(* A transaction raises ("database is locked"); a stop of the process is
   the same for every handler at once. *)
Fault(h) ==
    /\ handler[h].pc # "idle"
    /\ faults < MaxFaults /\ faults' = faults + 1
    /\ Raise(h)
    /\ UNCHANGED <<keycard, tools, perms, copies, checker, calls>>

-----------------------------------------------------------------------------
(* is_capability_allowed_for_agent, in the thread of a running workflow.   *)

SetChecker(k, x) == checker' = [checker EXCEPT ![k] = x]

BeginCheck(k, t, S) ==
    /\ checker[k].pc \in {"idle", "yes", "no"}
    /\ SetChecker(k, [NoCheck EXCEPT !.pc = "grants", !.tools = {t}, !.ask = S,
                        !.barred = t \in barred])
    /\ UNCHANGED <<keycard, tools, perms, copies, handler, failed, bounds>>

(* The agent is inactive, the package is not installed, or scan_repo was
   given no paths. *)
Refuse(k) ==
    /\ checker[k].pc \in {"grants", "files"}
    /\ SetChecker(k, [checker[k] EXCEPT !.pc = "no"])
    /\ UNCHANGED <<keycard, tools, perms, copies, handler, failed, bounds>>

(* Defect: the check asks the tool_access section for the granted tools.   *)
ReadProjection(k) ==
    /\ checker[k].pc = "grants"
    /\ \E t \in checker[k].tools :
         IF t \in access
         THEN SetChecker(k, [checker[k] EXCEPT !.pc = "files", !.scope = scope[t]])
         ELSE SetChecker(k, [checker[k] EXCEPT !.pc = "no"])
    /\ UNCHANGED <<keycard, tools, perms, copies, handler, failed, bounds>>

ReadAssignment(k) ==
    /\ checker[k].pc = "grants"
    /\ \E t \in checker[k].tools :
         IF t \in granted
         THEN SetChecker(k, [checker[k] EXCEPT !.pc = "files", !.scope = scope[t]])
         ELSE SetChecker(k, [checker[k] EXCEPT !.pc = "no"])
    /\ UNCHANGED <<keycard, tools, perms, copies, handler, failed, bounds>>

(* _is_file_scope_allowed: one target path after the other.                *)
InScope(k, f) ==
    IF checker[k].scope = "global" THEN IsEligible(f)
    ELSE \E t \in checker[k].tools : IsAllowed(t, f)

CheckFile(k) ==
    /\ checker[k].pc = "files"
    /\ \/ /\ checker[k].ask = {}
          /\ SetChecker(k, [checker[k] EXCEPT !.pc = "yes"])
       \/ \E f \in checker[k].ask :
            SetChecker(k, IF InScope(k, f)
                          THEN [checker[k] EXCEPT !.ask = @ \ {f}]
                          ELSE [checker[k] EXCEPT !.pc = "no"])
    /\ UNCHANGED <<keycard, tools, perms, copies, handler, failed, bounds>>

-----------------------------------------------------------------------------
Request(h) ==
    \/ Assign(h) \/ Update(h)
    \/ \E p \in Paths : Remove(h, p) \/ \E on \in BOOLEAN : SetEligible(h, p, on)
    \/ \E t \in Tools :
         \/ GrantTool(h, t) \/ RevokeTool(h, t)
         \/ \E s \in Scope : SetScope(h, t, s)
         \/ \E p \in Paths : Allow(h, t, p) \/ Deny(h, t, p) \/ AssignToTool(h, t, p)

Continue(h) ==
    \/ ClearForFile(h) \/ Mark(h) \/ ListTools(h) \/ ListFiles(h)
    \/ EnsureTool(h) \/ EnsurePath(h) \/ EnsureDirect(h) \/ EnsureVisible(h)
    \/ LookForRow(h) \/ WriteRow(h) \/ WriteOff(h)
    \/ ReadIds(h) \/ WriteBindings(h) \/ WriteSection(h) \/ ClearForTool(h)
    \/ Rewrite(h) \/ ReadProviderIds(h) \/ Compare(h) \/ ReplaceNext(h)
    \/ WriteScope(h)

Check(k) ==
    \/ \E t \in Tools, S \in SUBSET Files : BeginCheck(k, t, S)
    \/ Refuse(k) \/ ReadAssignment(k) \/ CheckFile(k)

Next ==
    \/ \E h \in Handlers : Request(h) \/ Continue(h) \/ Fault(h)
    \/ \E k \in Checkers : Check(k)

Spec == Init /\ [][Next]_vars

-----------------------------------------------------------------------------
TypeOK ==
    /\ visible \subseteq Paths /\ eligible \subseteq Paths
    /\ granted \subseteq Tools /\ scope \in [Tools -> Scope]
    /\ rows \subseteq Grant /\ allowed \subseteq rows
    /\ bindings \subseteq Tools /\ access \subseteq Tools
    /\ handler \in [Handlers -> Handler]
    /\ checker \in [Checkers -> Checker]
    /\ barred \subseteq Tools /\ failed \in BOOLEAN
    /\ calls \in 0 .. MaxCalls /\ faults \in 0 .. MaxFaults

AtRest == \A h \in Handlers : handler[h].pc = "idle"

(* A tool call that begins after the tool was revoked, and before anybody
   begins to grant it again, is refused, whatever syncs and updates of the
   projections are still under way. *)
RevokedIsRefused == \A k \in Checkers : ~(checker[k].barred /\ checker[k].pc = "yes")

(* When every request was answered without an exception, each granted tool
   is allowed on each globally eligible file, in whatever order the file
   was enabled and the tool granted, even at the same time. *)
SyncComplete ==
    AtRest /\ ~failed =>
      granted \X (visible \cap eligible \cap Files) \subseteq allowed

(* At rest, no permission is left of a tool that is not granted.           *)
RowsFollowGrants == AtRest => \A g \in allowed : g[1] \in granted

(* At rest, no permission is left on a path that is in no folder and that
   the Keycard does not show.  (Of a file inside a folder this is not so:
   the permission stays when the folder is removed.) *)
LonePathsAreBounded ==
    AtRest => \A g \in allowed : Above(g[2]) = {} => IsVisible(g[2])

(* At rest, tool_bindings and tool_access name the granted tools.          *)
ProjectionsInSync == AtRest => bindings = granted /\ access = granted

(* A file that enters the Keycard enters it with global eligibility off.   *)
FilesStartOff == [][\A f \in Files : f \in visible' \ visible => f \notin eligible']_vars
=============================================================================
