----------------------------- MODULE MeaningLayer -----------------------------
(***************************************************************************)
(* The meaning layer: from what the names of calls, decorators, base       *)
(* classes and imports suggest (abilities) over functions and files up to  *)
(* modules, subsystems and the system, each record with the evidence it    *)
(* rests on and a level of confidence.                                     *)
(*                                                                         *)
(* The stages are pure: each reads what the base analysis and the stages   *)
(* before it wrote (run_system_breakdown).  Files are numbered in the      *)
(* order of their paths, which is the order they are read in.              *)
(***************************************************************************)
EXTENDS PythonSource

CONSTANTS
    CallAbility,       \* called name to ability (_CALL_PATTERNS)
    DecoratorAbility,  \* decorator to ability   (_DECORATOR_PATTERNS)
    BaseAbility,       \* base class to ability  (_CLASS_BASE_PATTERNS)
    ImportAbility,     \* top module to ability  (_IMPORT_PATTERNS)
    SideEffects,       \* called names that count as side effects
    IgnoredCallees     \* called names that are no callees (_BUILTIN_NAMES)

(* ConfidenceLevel, by rank.                                               *)
Unknown == 0
Low     == 1
Medium  == 2
High    == 3

MinConfidence(levels) == IF levels = {} THEN Unknown ELSE Min(levels)

Degrade(level) == Max({Unknown, level - 1})
Upgrade(level) == Min({High, level + 1})

(* The last part of a scope, by which functions are told apart.            *)
BaseName(scope) == IF scope = <<>> THEN "module" ELSE Last(scope)[2]

-----------------------------------------------------------------------------
(* Abilities: the sites that suggest one, in passes over each file.        *)

Site(f, pass, at, scope, ability, level) ==
    [file |-> f, pass |-> pass, at |-> at, scope |-> scope, ability |-> ability,
     level |-> level]

(* A call is a side effect if its name is part of the text about one, that *)
(* is of the name called there or, by accident, of the scope of that call. *)
IsSideEffect(b, c) ==
    \E e \in {x \in b.calls : x.name \in SideEffects} :
      \/ \E s \in Suffixes(e.name) : IsPrefix(c.name, s)
      \/ \E i \in DOMAIN e.scope : c.name = <<e.scope[i][2]>>

CallSites(f, b) ==
    {Site(f, 1, c.at, c.scope, CallAbility[c.name],
          IF IsSideEffect(b, c) THEN High ELSE Medium) :
       c \in {x \in b.calls : x.name \in DOMAIN CallAbility}}

(* A decorator is recorded for the scope around what it decorates.         *)
DecoratorSites(f, text) ==
    {Site(f, 2, i, Bodies(text)[text[i].up], DecoratorAbility[text[i].node.name], Low) :
       i \in {j \in Places(text, {"decorator"}) :
                text[j].node.name \in DOMAIN DecoratorAbility}}

BaseSites(f, text) ==
    {Site(f, 3, i, Bodies(text)[text[i].up], BaseAbility[text[i].node.base], Medium) :
       i \in {j \in Places(text, {"class"}) : text[j].node.base \in DOMAIN BaseAbility}}

MainSites(f, b) ==
    IF b.main THEN {Site(f, 4, 0, <<>>, "has_script_entrypoint", High)} ELSE {}

(* REGISTRY[key] = handler.                                                *)
DynamicSites(f, text) ==
    {Site(f, 5, i, Bodies(text)[text[i].up], "can_dispatch_to_stored_handlers", Low) :
       i \in {j \in Places(text, {"assign"}) : /\ Last(text[j].node.target) = Key
                                               /\ text[j].node.from \in {"call", "name"}}}

(* Once per file and ability; a plain import has no module in its record,  *)
(* and the name of a relative one begins with a dot.                       *)
ImportSites(f, text) ==
    LET top(i)    == Head(text[i].node.mod)
        matching  == {i \in Places(text, {"from"}) :
                        text[i].node.level = 0 /\ top(i) \in DOMAIN ImportAbility}
        first(a)  == Min({i \in matching : ImportAbility[top(i)] = a})
    IN  {Site(f, 6, first(a), <<>>, a, Low) : a \in {ImportAbility[top(i)] : i \in matching}}

FileSites(f, text, b) ==
    CallSites(f, b) \cup DecoratorSites(f, text) \cup BaseSites(f, text)
    \cup MainSites(f, b) \cup DynamicSites(f, text) \cup ImportSites(f, text)

Before(s, t) ==
    \/ s.file < t.file
    \/ s.file = t.file /\ s.pass < t.pass
    \/ s.file = t.file /\ s.pass = t.pass /\ s.at <= t.at

(* The first site decides; a later one counts if its level is high, so a   *)
(* plain call does not raise what an import of an earlier file suggested.  *)
AbilityLevel(sites) ==
    LET first == CHOOSE s \in sites : \A t \in sites : Before(s, t)
    IN  IF \E s \in sites : s.level = High THEN High ELSE first.level

ExtractAbilities(seen, breakdown) ==
    LET parsed == {f \in DOMAIN breakdown : ~breakdown[f].broken}
        sites  == UNION {FileSites(f, seen.text[f], breakdown[f]) : f \in parsed}
        of(a)  == {s \in sites : s.ability = a}
    IN  [a \in {s.ability : s \in sites} |->
           [level |-> AbilityLevel(of(a)), sites |-> of(a),
            files |-> {s.file : s \in of(a)}]]

-----------------------------------------------------------------------------
(* Actions: an ability in a scope of a file.                               *)

(* A scope is resolved if the file defines its last name.                  *)
ResolvesScope(b, scope) == \E d \in b.symbols : d.name = BaseName(scope)

DeriveActions(abilities, breakdown) ==
    LET action(f, scope, a) ==
          LET sites == {s \in abilities[a].sites : s.file = f /\ s.scope = scope}
              base  == IF ResolvesScope(breakdown[f], scope) THEN abilities[a].level
                       ELSE Degrade(abilities[a].level)
          IN  [file |-> f, scope |-> scope, ability |-> a, sites |-> sites,
               level |-> IF Cardinality(sites) >= 2 THEN Upgrade(base) ELSE base]
    IN  {action(s.file, s.scope, s.ability) :
           s \in UNION {abilities[a].sites : a \in DOMAIN abilities}}

-----------------------------------------------------------------------------
(* Functions.                                                              *)

Sites(records)  == UNION {r.sites : r \in records}
Levels(records) == {r.level : r \in records}

(* _get_callee_names: by the last name of the scope, whatever is around it.*)
Callees(b, scope) ==
    {c.name : c \in {x \in b.calls : BaseName(x.scope) = BaseName(scope)}}
    \ {<<n>> : n \in IgnoredCallees}

(* _body_has_nontrivial_content.                                           *)
HasContent(text, scope) ==
    \E i \in Places(text, {"assign", "if"}) :
      BaseName(Bodies(text)[text[i].up]) = BaseName(scope)

Active == {"behaviorally_resolved", "coordinator", "thin_wrapper"}

Function(f, at, scope, class, level, actions) ==
    [file |-> f, at |-> at, scope |-> scope, class |-> class, level |-> level,
     actions |-> actions, sites |-> Sites(actions)]

(* Scopes with actions, the module's own included.                         *)
ResolvedFunctions(actions, breakdown) ==
    LET of(f, scope) == {a \in actions : a.file = f /\ a.scope = scope}
        class(f, scope) ==
          IF /\ Cardinality(of(f, scope)) <= 2
             /\ Cardinality(Callees(breakdown[f], scope)) >= 3
          THEN "coordinator" ELSE "behaviorally_resolved"
    IN  {Function(a.file, 0, a.scope, class(a.file, a.scope),
                  MinConfidence(Levels(of(a.file, a.scope))), of(a.file, a.scope)) :
           a \in actions}

(* Defect: a definition counts as covered by a namesake of another file.   *)
CoveredAnywhere(actions, f, d) == \E a \in actions : BaseName(a.scope) = d.name

(* A definition counts as covered by the actions of any namesake.          *)
Covered(actions, f, d) == \E a \in actions : a.file = f /\ BaseName(a.scope) = d.name

DiscoveredFunctions(actions, seen, breakdown) ==
    LET scope(d)   == Append(d.scope, <<"def", d.name>>)
        many(f, d) == Cardinality(Callees(breakdown[f], scope(d)))
        class(f, d) ==
          CASE many(f, d) >= 2 -> "coordinator"
            [] many(f, d) = 1 -> IF HasContent(seen.text[f], scope(d))
                                 THEN "thin_wrapper" ELSE "pure_wrapper"
            [] many(f, d) = 0 -> "structurally_discovered"
        open(f) == {d \in breakdown[f].symbols :
                      d.type \in {"function", "method"} /\ ~Covered(actions, f, d)}
    IN  UNION {{Function(f, d.at, scope(d), class(f, d), Unknown, {}) : d \in open(f)} :
                 f \in DOMAIN breakdown}

(* No action has a dimension, so the pass that hands the dimensions of     *)
(* callees on to their callers changes nothing.                            *)
DeriveFunctions(actions, seen, breakdown) ==
    ResolvedFunctions(actions, breakdown)
    \cup DiscoveredFunctions(actions, seen, breakdown)

-----------------------------------------------------------------------------
(* Files.                                                                  *)

(* Half of the functions active make a file's meaning medium, a quarter    *)
(* low at least.                                                           *)
DensityFloor(level, active, total) ==
    IF total = 0 THEN level
    ELSE IF 2 * active >= total THEN Max({level, Medium})
    ELSE IF 4 * active >= total THEN Max({level, Low})
    ELSE level

Floored(level, functions) ==
    DensityFloor(level, Cardinality({m \in functions : m.class \in Active}),
                 Cardinality(functions))

InFileOf(f, functions) == {m \in functions : m.file = f}

DerivePurposes(abilities, functions, breakdown) ==
    LET matched(f) == {a \in DOMAIN abilities : f \in abilities[a].files}
        level(f)   == IF matched(f) = {} THEN Low
                      ELSE MinConfidence({abilities[a].level : a \in matched(f)})
    IN  [f \in {g \in DOMAIN breakdown : ~breakdown[g].broken} |->
           [abilities |-> matched(f),
            level     |-> Floored(level(f), InFileOf(f, functions)),
            inferred  |-> matched(f) = {},
            sites     |-> {s \in UNION {abilities[a].sites : a \in matched(f)} :
                             s.file = f}]]

DeriveBehaviors(functions, breakdown) ==
    LET resolved(f) == {m \in InFileOf(f, functions) : m.actions # {}}
        level(f) == IF InFileOf(f, functions) = {} THEN Low
                    ELSE MinConfidence(Levels(resolved(f)))
    IN  [f \in {g \in DOMAIN breakdown : ~breakdown[g].broken} |->
           [functions |-> InFileOf(f, functions),
            level     |-> Floored(level(f), InFileOf(f, functions)),
            inferred  |-> resolved(f) = {},
            sites     |-> Sites(resolved(f))]]

-----------------------------------------------------------------------------
(* Workflows: the actions of the functions that a flow reaches, by name.   *)

FilesMatch(p, q) == IsSuffix(p, q) \/ IsSuffix(q, p)

(* Callees without a dot of the scopes of that last name in any file.      *)
CalledFrom(breakdown, name) ==
    {Head(c.name) : c \in {x \in UNION {breakdown[f].calls : f \in DOMAIN breakdown} :
                             /\ BaseName(x.scope) = name /\ Len(x.name) = 1
                             /\ Head(x.name) \notin IgnoredCallees}}

(* Two more hops, through names that have no actions.                      *)
ExpandNames(names, actions, breakdown) ==
    LET silent(S) == {n \in S : \A a \in actions : BaseName(a.scope) # n}
        hop[k \in 0 .. 2] ==
          IF k = 0 THEN [all |-> names, frontier |-> names]
          ELSE LET called == UNION {CalledFrom(breakdown, n) :
                                      n \in silent(hop[k - 1].frontier)}
                   new    == called \ hop[k - 1].all
               IN  [all |-> hop[k - 1].all \cup new, frontier |-> new]
    IN  hop[2].all

(* Defect: only the callees of the root.                                   *)
DirectNodesOf(flow) == {id \in {flow.root} \cup flow.callees : id[1] # "file"}

(* The nodes of a flow that have a name, in the order they are looked at:  *)
(* the root, then the others by type and file.                             *)
NodesOf(flow) == {id \in {flow.root} \cup {x[1] : x \in flow.found} : id[1] # "file"}

TypeRank == [class |-> 1, function |-> 2, method |-> 3, nested_function |-> 4]

LastNode(flow, name) ==
    LET named == {id \in NodesOf(flow) : id[4] = name}
        late  == IF named = {flow.root} THEN named ELSE named \ {flow.root}
    IN  CHOOSE x \in late : \A y \in late :
          \/ TypeRank[y[1]] < TypeRank[x[1]]
          \/ y[1] = x[1] /\ y[2] <= x[2]

(* Functions that register others: everything in their files.              *)
SiblingNames(flow, metrics, actions) ==
    LET registering == {id[2] : id \in {x \in NodesOf(flow) : x[4] = "register"}}
        files == registering \cap {a.file : a \in actions}
    IN  IF flow.type = "entry_point"
        THEN {id[4] : id \in {x \in DOMAIN metrics : metrics[x].file \in files}}
        ELSE {}

DeriveWorkflow(flow, metrics, actions, seen, breakdown) ==
    LET own   == {id[4] : id \in NodesOf(flow)}
        found == IF flow.callees = {} /\ flow.root[1] # "file"
                 THEN {Head(c) : c \in {x \in Callees(breakdown[flow.root[2]],
                                                      <<<<"def", flow.root[4]>>>>) :
                                          Len(x) = 1}}
                 ELSE {}
        names == ExpandNames(own \cup found, actions, breakdown)
                 \cup SiblingNames(flow, metrics, actions)
        steps == {a \in actions :
                    /\ BaseName(a.scope) \in names
                    /\ BaseName(a.scope) \in own =>
                         FilesMatch(seen.path[a.file],
                                    seen.path[LastNode(flow, BaseName(a.scope))[2]])}
    IN  [steps |-> steps, sites |-> Sites(steps), inferred |-> steps = {},
         level |-> IF Cardinality(steps) >= 2 THEN Medium ELSE Low]

DeriveWorkflows(flow, actions, seen, breakdown) ==
    [root \in {g.root : g \in flow.flows} |->
       DeriveWorkflow(CHOOSE g \in flow.flows : g.root = root, flow.metrics, actions,
                      seen, breakdown)]

-----------------------------------------------------------------------------
(* Modules, subsystems and the system.                                     *)

(* What nothing is known of has some weight if it is large and connected.  *)
StructuralFloor(level, cluster, known) ==
    LET files == Cardinality(cluster.files)
        calls == cluster.calls + cluster.outbound + cluster.inbound
    IN  IF level = Unknown /\ \/ files >= 5 /\ calls >= 10
                              \/ files >= 2 /\ calls >= 5 /\ known
        THEN Low ELSE level

SummarizeModules(cluster, purposes, behaviors) ==
    LET files(c)   == cluster.clusters[c].files \cap DOMAIN purposes
        both(c)    == <<{purposes[f] : f \in files(c)}, {behaviors[f] : f \in files(c)}>>
        first(c)   == IF files(c) = {} THEN Low
                      ELSE MinConfidence(Levels(both(c)[1]) \cup Levels(both(c)[2]))
        known(c)   == \E f \in files(c) : purposes[f].abilities # {}
        level(c)   == DensityFloor(StructuralFloor(first(c), cluster.clusters[c], known(c)),
                        Cardinality({f \in files(c) : purposes[f].level >= Medium}),
                        Cardinality(files(c)))
    IN  [c \in DOMAIN cluster.clusters |->
           [files |-> files(c), level |-> level(c),
            sites |-> Sites(both(c)[1]) \cup Sites(both(c)[2])]]

(* _top_level_prefix.                                                      *)
TopLevel(cluster) == IF cluster = <<>> THEN <<>> ELSE <<Head(cluster)>>

SummarizeSubsystems(modules) ==
    LET of(p) == {c \in DOMAIN modules : TopLevel(c) = p}
    IN  [p \in {TopLevel(c) : c \in DOMAIN modules} |->
           [modules |-> of(p),
            level   |-> MinConfidence({modules[c].level : c \in of(p)}),
            sites   |-> UNION {modules[c].sites : c \in of(p)}]]

SummarizeSystem(subsystems) ==
    LET S == DOMAIN subsystems
    IN  [level |-> IF S = {} THEN Low ELSE MinConfidence({subsystems[p].level : p \in S}),
         sites |-> UNION {subsystems[p].sites : p \in S},
         passThrough |-> Cardinality(S) = 1
                         /\ \A p \in S : Cardinality(subsystems[p].modules) <= 1]

-----------------------------------------------------------------------------
(* build_cross_reference_index.                                            *)
CrossReferences(m) ==
    [abilityToActions  |-> [a \in DOMAIN m.abilities |->
                              {x \in m.actions : x.ability = a}],
     actionToFunctions |-> [a \in UNION {x.actions : x \in m.functions} |->
                              {x \in m.functions : a \in x.actions}],
     functionToFile    |-> [x \in m.functions |-> x.file],
     fileToAbilities   |-> [f \in DOMAIN m.purposes |-> m.purposes[f].abilities],
     fileToModule      |-> [f \in UNION {m.modules[c].files : c \in DOMAIN m.modules} |->
                              CHOOSE c \in DOMAIN m.modules : f \in m.modules[c].files],
     moduleToSubsystem |-> [c \in UNION {m.subsystems[p].modules : p \in DOMAIN m.subsystems} |->
                              CHOOSE p \in DOMAIN m.subsystems : c \in m.subsystems[p].modules]]

(* validate_meaning_records: claims without evidence.                      *)
MeaningViolations(m) ==
    {<<"ability", a>> : a \in {x \in DOMAIN m.abilities : m.abilities[x].sites = {}}}
    \cup {<<"action", a>> : a \in {x \in m.actions : x.sites = {}}}
    \cup {<<"function", x>> : x \in {y \in m.functions : /\ y.at = 0 /\ y.actions = {}
                                                        /\ y.level \notin {Unknown, Low}}}
    \cup {<<"workflow", r>> : r \in {x \in DOMAIN m.workflows :
                                       /\ m.workflows[x].level >= Medium
                                       /\ m.workflows[x].steps = {}}}

(* validate_crossrefs: references to records that are not there.           *)
CrossrefViolations(m) ==
    {<<"function", x>> : x \in {y \in m.functions : ~(y.actions \subseteq m.actions)}}
    \cup {<<"purpose", f>> : f \in {g \in DOMAIN m.purposes :
                               ~(m.purposes[g].abilities \subseteq DOMAIN m.abilities)}}
    \cup {<<"behavior", f>> : f \in {g \in DOMAIN m.behaviors :
                               ~(m.behaviors[g].functions \subseteq m.functions)}}

(* run_system_breakdown.                                                   *)
Meaning(seen, breakdown, cluster, flow) ==
    LET abilities == ExtractAbilities(seen, breakdown)
        actions   == DeriveActions(abilities, breakdown)
        functions == DeriveFunctions(actions, seen, breakdown)
        purposes  == DerivePurposes(abilities, functions, breakdown)
        behaviors == DeriveBehaviors(functions, breakdown)
        modules   == SummarizeModules(cluster, purposes, behaviors)
        subsystems == SummarizeSubsystems(modules)
    IN  [abilities  |-> abilities,
         actions    |-> actions,
         functions  |-> functions,
         purposes   |-> purposes,
         behaviors  |-> behaviors,
         workflows  |-> DeriveWorkflows(flow, actions, seen, breakdown),
         modules    |-> modules,
         subsystems |-> subsystems,
         system     |-> SummarizeSystem(subsystems)]

(* OutputComposer.compose, and the validation before it.                   *)
Compose(m) ==
    [map        |-> m,
     index      |-> CrossReferences(m),
     violations |-> MeaningViolations(m) \cup CrossrefViolations(m)]
=============================================================================
