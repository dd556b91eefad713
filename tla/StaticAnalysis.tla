---------------------------- MODULE StaticAnalysis ----------------------------
(***************************************************************************)
(* The static analysis of a repository, stage by stage: scan, extraction,  *)
(* relation map, file breakdowns, enriched breakdowns and cluster map,     *)
(* flow map, context of the files, dossier and validation.                 *)
(*                                                                         *)
(* AnalysisWorkflow models in which order the stages run and what fails;   *)
(* this module models what they compute.  The repository is written first, *)
(* statement by statement, so that every small program over the names of a *)
(* project is analysed.                                                    *)
(***************************************************************************)
EXTENDS RelationMap, ArchitectureMap, MeaningLayer

CONSTANTS
    Projects,  \* the repositories to start from, see Project
    None       \* no artifact yet

(* A repository with what may be written into each of its files, how many  *)
(* edits are made at most, and the files that a run may be denied.         *)
Project(path, text, edits, budget, denied) ==
    [path |-> path, text |-> text, broken |-> {}, edits |-> edits,
     budget |-> budget, denied |-> denied]

(* A project has finitely many files, each with a path of its own and a    *)
(* syntax tree; what is written into it are nodes of one.  They are        *)
(* numbered from 1 as scan_repo sorts them: a.py before a/__init__.py.     *)
ASSUME ProjectsAssumption ==
    \A p \in Projects :
      /\ p = Project(p.path, p.text, p.edits, p.budget, p.denied)
      /\ IsFiniteSet(DOMAIN p.path) /\ DOMAIN p.path \subseteq Nat \ {NoFile}
      /\ DOMAIN p.text = DOMAIN p.path
      /\ \A f \in DOMAIN p.path : /\ p.path[f] \in Seq(STRING) \ {<<>>}
                                  /\ IsText(p.text[f])
                                  /\ \A node \in p.edits[f] : node \in Node
      /\ \A f, g \in DOMAIN p.path :
           /\ p.path[f] = p.path[g] => f = g
           /\ p.path[g] = Append(p.path[f], "__init__") => f < g

VARIABLES
    repo,        \* the files on disk
    scan,        \* scan_result: the files the run may see
    inventory,   \* one record per file
    relations,   \* the relation map
    breakdowns,  \* file_breakdowns
    enriched,    \* enriched_file_breakdowns
    clusters,    \* cluster_map
    flows,       \* flow_map
    context,     \* per-file context of the narration
    dossier,     \* repo_dossier
    checks,      \* validation: the checks that do not pass
    meaning      \* the records of the meaning layer, if it was asked for

vars == <<repo, scan, inventory, relations, breakdowns, enriched, clusters,
          flows, context, dossier, checks, meaning>>

-----------------------------------------------------------------------------
(* What the stages compute.                                                *)

(* The repository as the run sees it.                                      *)
Seen == [path   |-> [f \in scan |-> repo.path[f]],
         text   |-> [f \in scan |-> repo.text[f]],
         broken |-> repo.broken \cap scan]

(* build_file_breakdowns: the edges of a file are those whose ends are in  *)
(* it; a file that does not parse has a record and nothing in it.          *)
BuildFileBreakdowns(seen, inv, map) ==
    LET from(f) == {e \in map.edges : Known(map, e.from) /\ FileOf(map, e.from) = f}
        to(f)   == {e \in map.edges : Known(map, e.to) /\ FileOf(map, e.to) = f}
        breakdown(f) ==
          [broken   |-> FALSE,
           symbols  |-> inv[f].defs,
           calls    |-> inv[f].calls,
           imports  |-> inv[f].imports,
           main     |-> inv[f].main,
           top      |-> inv[f].top,
           outbound |-> from(f),
           inbound  |-> to(f),
           unresolvedCalls   |-> {u \in map.unresolvedCalls : u.at[1] = f},
           unresolvedImports |-> {p \in map.unresolvedImports : p[1] = f}]
        unparsed == [broken |-> TRUE, symbols |-> {}, calls |-> {}, imports |-> {},
                     main |-> FALSE, top |-> FALSE, outbound |-> {}, inbound |-> {},
                     unresolvedCalls |-> {}, unresolvedImports |-> {}]
    IN  [f \in Files(seen) |-> IF f \in seen.broken THEN unparsed ELSE breakdown(f)]

OfType(edges, type) == {e \in edges : e.type = type}

(* _build_unknown_candidates.                                              *)
UnknownCandidates(b) ==
    {w \in {"calls", "imports", "statements", "inbound"} :
       CASE w = "calls" ->
              b.calls # {} /\ OfType(b.outbound, "calls") = {} /\ b.unresolvedCalls # {}
         [] w = "imports" ->
              /\ b.imports # {} /\ OfType(b.outbound, "imports") = {}
              /\ b.unresolvedImports # {}
         [] w = "statements" -> b.symbols = {} /\ b.top
         [] w = "inbound"    -> b.calls # {} /\ OfType(b.inbound, "calls") = {}}

(* _build_observed_inputs: parameters of definitions and calls of input(). *)
ObservedInputs(text, b) ==
    {d.at : d \in {x \in b.symbols : x.type # "class" /\ text[x.at].node.param # NoName}}
    \cup {c.at : c \in {x \in b.calls : x.name = <<"input">>}}

(* _build_unresolved_items, counted.                                       *)
UnresolvedItems(b) == Cardinality(b.unresolvedCalls) + Cardinality(b.unresolvedImports)

(* build_enriched_file_breakdowns.                                         *)
BuildEnriched(seen, breakdown) ==
    [f \in DOMAIN breakdown |->
       [inputs  |-> ObservedInputs(seen.text[f], breakdown[f]),
        items   |-> UnresolvedItems(breakdown[f]),
        unknown |-> UnknownCandidates(breakdown[f])]]

(* build_per_file_context.                                                 *)
BuildContext(cluster, flow) ==
    LET towards(f, c, type) == Cardinality({x \in cluster.cross :
          x.from = f /\ cluster.of[x.to] = c /\ x.edge.type = type})
        back(f, c, type) == Cardinality({x \in cluster.cross :
          x.to = f /\ cluster.of[x.from] = c /\ x.edge.type = type})
        named(f, Test(_)) == {id \in DOMAIN flow.metrics :
                                flow.metrics[id].file = f /\ Test(flow.metrics[id])}
    IN  [f \in DOMAIN cluster.of |->
           [cluster  |-> cluster.of[f],
            hubs     |-> named(f, LAMBDA m : m.hub),
            flows    |-> UNION {flow.metrics[id].flows : id \in named(f, LAMBDA m : TRUE)},
            outbound |-> [x \in (DOMAIN cluster.clusters) \X {"calls", "imports"} |->
                            towards(f, x[1], x[2])],
            inbound  |-> [x \in (DOMAIN cluster.clusters) \X {"calls", "imports"} |->
                            back(f, x[1], x[2])]]]

(* _rank_files: how much of one kind each file that parses has.            *)
RankFiles(kept) == [f \in DOMAIN kept |-> Cardinality(kept[f])]

(* _count_symbol_names: names that several files define.                   *)
RepeatedNames(breakdown) ==
    LET defining(n) == {f \in DOMAIN breakdown :
                          \E d \in breakdown[f].symbols : d.name = n}
    IN  {n \in {d.name : d \in UNION {breakdown[f].symbols : f \in DOMAIN breakdown}} :
           Cardinality(defining(n)) > 1}

(* build_repo_dossier, with its architecture section.                      *)
BuildDossier(seen, map, breakdown, cluster, flow) ==
    LET parsed == {f \in DOMAIN breakdown : ~breakdown[f].broken}
    IN  [nodes       |-> Cardinality(map.nodes),
         edges       |-> Cardinality(map.edges),
         parseErrors |-> seen.broken,
         noSymbols   |-> {f \in parsed : breakdown[f].symbols = {}},
         main        |-> {f \in parsed : breakdown[f].main},
         imports     |-> RankFiles([f \in parsed |-> OfType(breakdown[f].outbound, "imports")]),
         calls       |-> RankFiles([f \in parsed |-> OfType(breakdown[f].outbound, "calls")]),
         called      |-> RankFiles([f \in parsed |-> OfType(breakdown[f].inbound, "calls")]),
         unresolved  |-> RankFiles([f \in parsed |-> breakdown[f].unresolvedCalls]),
         symbols     |-> RankFiles([f \in parsed |-> breakdown[f].symbols]),
         repeated    |-> RepeatedNames(breakdown),
         categories  |-> [c \in {u.category : u \in map.unresolvedCalls} |->
                            Cardinality({u \in map.unresolvedCalls : u.category = c})],
         external    |-> Cardinality(map.externalCalls),
         crossEdges  |-> Cardinality(cluster.cross),
         hubs        |-> {id \in DOMAIN flow.metrics : flow.metrics[id].hub},
         rooted      |-> [c \in DOMAIN cluster.clusters |->
                            Cardinality({g \in flow.flows :
                                           cluster.of[FileOf(map, g.root)] = c})]]

(* run_validation: a check compares two artifacts.  (Line ranges come from *)
(* the parser; breakdowns_align_with_inventory compares what               *)
(* files_accounted_for compares.)                                          *)
FilesAccountedFor(inv, breakdown) == DOMAIN inv = DOMAIN breakdown

ReferencedFilesExist(inv, map) ==
    \A e \in map.edges : \A id \in {e.from, e.to} :
      Known(map, id) => FileOf(map, id) \in DOMAIN inv

(* Defect: a repository without imports and calls has to have edges too.   *)
RelationMapNeverEmpty(inv, map) ==
    DOMAIN inv # {} => map.nodes # {} /\ map.edges # {}

RelationMapNotEmpty(inv, map) ==
    (\E f \in DOMAIN inv : inv[f].imports # {} \/ inv[f].calls # {})
      => map.nodes # {} /\ map.edges # {}

FlowRecordsCiteActualNodes(map, flow) ==
    \A g \in flow.flows : \A id \in {g.root} \cup g.callees : Known(map, id)

FailedChecks(inv, map, breakdown, flow) ==
    {c \in {"files_accounted_for", "referenced_files_exist", "relation_map_not_empty",
            "flow_records_cite_actual_nodes"} :
       CASE c = "files_accounted_for"    -> ~FilesAccountedFor(inv, breakdown)
         [] c = "referenced_files_exist" -> ~ReferencedFilesExist(inv, map)
         [] c = "relation_map_not_empty" -> ~RelationMapNotEmpty(inv, map)
         [] c = "flow_records_cite_actual_nodes" ->
              ~FlowRecordsCiteActualNodes(map, flow)}

-----------------------------------------------------------------------------
Init ==
    /\ repo \in Projects
    /\ scan = None /\ inventory = None /\ relations = None /\ breakdowns = None
    /\ enriched = None /\ clusters = None /\ flows = None /\ context = None
    /\ dossier = None /\ checks = None /\ meaning = None

(* The author of the repository adds a statement to a file, or leaves the  *)
(* file with a syntax error.                                               *)
Write(f) ==
    /\ scan = None /\ repo.budget > 0 /\ f \notin repo.broken
    /\ \E node \in repo.edits[f], up \in OpenAt(repo.text[f]) :
         repo' = [repo EXCEPT !.text[f] = Append(@, At(up, node)), !.budget = @ - 1]
    /\ UNCHANGED <<scan, inventory, relations, breakdowns, enriched, clusters,
                   flows, context, dossier, checks, meaning>>

Break(f) ==
    /\ scan = None /\ repo.budget > 0 /\ f \notin repo.broken
    /\ repo' = [repo EXCEPT !.broken = @ \cup {f}, !.budget = @ - 1]
    /\ UNCHANGED <<scan, inventory, relations, breakdowns, enriched, clusters,
                   flows, context, dossier, checks, meaning>>

(* python.scan_repo: the files, or those of visible_file_paths.            *)
ScanRepo ==
    /\ scan = None
    /\ \E denied \in {{}, repo.denied} : scan' = Files(repo) \ denied
    /\ UNCHANGED <<repo, inventory, relations, breakdowns, enriched, clusters,
                   flows, context, dossier, checks, meaning>>

(* analysis.extract_files and python.inventory.assemble: the files are     *)
(* extracted in parallel and sorted by path.                               *)
ExtractFiles ==
    /\ scan # None /\ inventory = None
    /\ inventory' = Inventory(Seen)
    /\ UNCHANGED <<repo, scan, relations, breakdowns, enriched, clusters, flows,
                   context, dossier, checks, meaning>>

BuildRelations ==
    /\ inventory # None /\ relations = None
    /\ relations' = BuildRelationMap(Seen)
    /\ UNCHANGED <<repo, scan, inventory, breakdowns, enriched, clusters, flows,
                   context, dossier, checks, meaning>>

BuildBreakdowns ==
    /\ relations # None /\ breakdowns = None
    /\ breakdowns' = BuildFileBreakdowns(Seen, inventory, relations)
    /\ UNCHANGED <<repo, scan, inventory, relations, enriched, clusters, flows,
                   context, dossier, checks, meaning>>

(* analysis.build_breakdowns: both are built from what is there.           *)
EnrichAndCluster ==
    /\ breakdowns # None /\ clusters = None
    /\ enriched' = BuildEnriched(Seen, breakdowns)
    /\ clusters' = BuildClusterMap(Seen, inventory, relations)
    /\ UNCHANGED <<repo, scan, inventory, relations, breakdowns, flows, context,
                   dossier, checks, meaning>>

BuildFlows ==
    /\ clusters # None /\ flows = None
    /\ flows' = BuildFlowMap(relations, clusters)
    /\ UNCHANGED <<repo, scan, inventory, relations, breakdowns, enriched,
                   clusters, context, dossier, checks, meaning>>

(* analysis.build_reports, and the context the narration starts from.      *)
BuildReports ==
    /\ flows # None /\ dossier = None
    /\ context' = BuildContext(clusters, flows)
    /\ dossier' = BuildDossier(Seen, relations, breakdowns, clusters, flows)
    /\ checks'  = FailedChecks(inventory, relations, breakdowns, flows)
    /\ UNCHANGED <<repo, scan, inventory, relations, breakdowns, enriched,
                   clusters, flows, meaning>>

(* The layered breakdown: the meaning layer, its validation, its output.   *)
DeriveMeaning ==
    /\ dossier # None /\ meaning = None
    /\ meaning' = Compose(Meaning(Seen, breakdowns, clusters, flows))
    /\ UNCHANGED <<repo, scan, inventory, relations, breakdowns, enriched,
                   clusters, flows, context, dossier, checks>>

Done == dossier # None /\ UNCHANGED vars

Next ==
    \/ \E f \in Files(repo) : Write(f) \/ Break(f)
    \/ ScanRepo \/ ExtractFiles \/ BuildRelations \/ BuildBreakdowns
    \/ EnrichAndCluster \/ BuildFlows \/ BuildReports \/ DeriveMeaning
    \/ Done

Spec == Init /\ [][Next]_vars

-----------------------------------------------------------------------------
(* Properties.                                                             *)

(* What Python itself binds, from the texts and the directories alone.     *)

BoundName(n) ==
    CASE n.kind \in {"def", "class"} -> n.name
      [] n.kind = "import" -> IF n.alias = NoName THEN Head(n.mod) ELSE n.alias
      [] n.kind = "from"   -> IF n.alias = NoName THEN n.name ELSE n.alias
      [] n.kind = "assign" -> IF Len(n.target) = 1 THEN Head(n.target) ELSE NoName
      [] OTHER -> NoName

(* Where a file binds a name, parameters included.                         *)
Bindings(f, name) ==
    {i \in DOMAIN repo.text[f] :
       LET n == repo.text[f][i].node IN
       BoundName(n) = name \/ (n.kind = "def" /\ n.param = name)}

(* The file of a module: a package before a module of the same name.       *)
ModuleAt(m) ==
    LET package == {f \in scan : repo.path[f] = Append(m, "__init__")}
    IN  IF package # {} THEN package
        ELSE {f \in scan : repo.path[f] = m /\ ~IsInit(repo.path[f])}

(* The directory that an import of a file starts from; none above the      *)
(* repository.                                                             *)
StartOf(f, n) ==
    LET dir == Front(repo.path[f])
    IN  IF n.kind = "import" \/ n.level = 0 THEN {<<>>}
        ELSE {SubSeq(dir, 1, k) : k \in {Len(dir) - (n.level - 1)} \cap Nat}

(* The one definition of a name in the files, if it is the one binding of  *)
(* that name there and at module level.                                    *)
OneDefinition(files, name) ==
    {x \in UNION {{f} \X DOMAIN repo.text[f] : f \in files \ repo.broken} :
       /\ Bindings(x[1], name) = {x[2]}
       /\ repo.text[x[1]][x[2]].node.kind \in {"def", "class"}
       /\ repo.text[x[1]][x[2]].node.name = name
       /\ Bodies(repo.text[x[1]])[repo.text[x[1]][x[2]].up] = <<>>}

(* The modules an import can mean by a name it binds; from a package below *)
(* the root of the repository, if the package binds no such name.          *)
MeantModule(f, n) ==
    IF n.kind = "import"
    THEN IF n.alias = NoName /\ Len(n.mod) > 1 THEN {} ELSE ModuleAt(n.mod)
    ELSE UNION {ModuleAt(Append(d \o n.mod, n.name)) :
                  d \in {e \in StartOf(f, n) :
                           /\ e \o n.mod # <<>> /\ ModuleAt(e \o n.mod) # {}
                           /\ \A g \in ModuleAt(e \o n.mod) :
                                g \notin repo.broken /\ Bindings(g, n.name) = {}}}

(* What a call means, when the name it begins with has one binding in the  *)
(* file: name() the definition or what it is imported from, module.name()  *)
(* the definition in the module.                                           *)
Meant(f, c) ==
    LET head   == Head(c.name)
        at     == CHOOSE i \in Bindings(f, head) : TRUE
        n      == repo.text[f][at].node
        around == Bodies(repo.text[f])[repo.text[f][at].up]
    IN  IF Cardinality(Bindings(f, head)) # 1 \/ head \in Builtins
           \/ ~IsPrefix(around, c.scope) THEN {}
        ELSE CASE Len(c.name) = 1 /\ n.kind \in {"def", "class"} ->
                    OneDefinition({f}, head)
               [] Len(c.name) = 1 /\ n.kind = "from" ->
                    OneDefinition(UNION {ModuleAt(d \o n.mod) : d \in StartOf(f, n)},
                                  n.name)
               [] Len(c.name) = 2 /\ n.kind \in {"import", "from"} ->
                    OneDefinition(MeantModule(f, n), c.name[2])
               [] OTHER -> {}

(* What variable.method() means, when the variable has one binding, and    *)
(* that is to a call of a class or a parameter annotated with one: the one *)
(* method of that name in the file of the class, which no other file       *)
(* defines too.                                                            *)
MeantMethod(f, c) ==
    LET at    == CHOOSE i \in Bindings(f, Head(c.name)) : TRUE
        n     == repo.text[f][at].node
        class == IF n.kind = "def" THEN <<n.type>> ELSE n.value
        scope == Bodies(repo.text[f])[IF n.kind = "def" THEN at ELSE repo.text[f][at].up]
        named(g) == {i \in DOMAIN repo.text[g] :
                       repo.text[g][i].node.kind \in {"def", "class"}
                       /\ repo.text[g][i].node.name = Last(c.name)}
        defined == UNION {{g} \X {i \in DOMAIN repo.text[g] :
                                    /\ repo.text[g][i].node.kind = "class"
                                    /\ repo.text[g][i].node.name = class[1]} :
                            g \in scan \ repo.broken}
    IN  IF /\ Len(c.name) = 2 /\ Head(c.name) \notin Builtins
           /\ Cardinality(Bindings(f, Head(c.name))) = 1
           /\ \/ /\ n.kind = "def" /\ n.param = Head(c.name)
                 /\ n.name # Head(c.name) /\ Head(c.name) # "self"
              \/ /\ n.kind = "assign" /\ n.target = <<Head(c.name)>>
                 /\ n.from = "call" /\ Len(n.value) = 1
           /\ class[1] \in Capital /\ IsPrefix(scope, c.scope)
        THEN {y \in UNION {{x[1]} \X named(x[1]) :
                             x \in Meant(f, [name |-> class, scope |-> scope])} :
                /\ Cardinality(named(y[1])) = 1
                /\ repo.text[y[1]][y[2]].node.kind = "def"
                /\ {<<y[1], repo.text[y[1]][y[2]].up>>} = defined}
        ELSE {}

(* The definition or class that a statement stands in, by file, scope and  *)
(* name, or the file itself.                                               *)
StandsIn(f, scope) ==
    IF scope = <<>> THEN <<f>> ELSE <<f, Front(scope), Last(scope)[2]>>

NameOf(id) == IF id[1] = "file" THEN <<id[2]>> ELSE Tail(id)

(* Call edges say what Python would call: when the name a call begins with *)
(* is bound once in its file, and by that binding stands for one           *)
(* definition, or for an object of one class, the call has one edge, from  *)
(* the definition it stands in to that definition or to the method         *)
(* (_resolve_call_target, the import tables and the variable hints).  No   *)
(* file may have the name the analysis gives the root package.             *)
RootIsUnnamed == \A f \in scan : Head(repo.path[f]) # Head(RootModule)

CallsReachTheirMeaning ==
    relations # None /\ RootIsUnnamed =>
      \A f \in scan \ repo.broken : \A c \in inventory[f].calls :
        \A x \in Meant(f, c) \cup MeantMethod(f, c) :
          {<<NameOf(e.from), e.to>> :
             e \in {d \in CallEdges(relations) : d.at = <<f, c.at>>}}
          = {<<StandsIn(f, c.scope),
               NodeId([file |-> x[1],
                       def  |-> CHOOSE d \in inventory[x[1]].defs : d.at = x[2]])>>}

(* Every call and every import of a file that parses ends in exactly one   *)
(* way, and both ends of every edge are nodes of files the run may see     *)
(* (build_relation_map; cluster_map, flow_map and the breakdowns skip an   *)
(* edge without comment if an end is not a node).                          *)
NothingIsLost ==
    relations # None =>
      LET seen  == scan \ repo.broken
          calls == UNION {{<<f, c.at>> : c \in inventory[f].calls} : f \in seen}
          imports == UNION {{f} \X inventory[f].imports : f \in seen}
          edges == {e.at : e \in CallEdges(relations)}
          open  == {u.at : u \in relations.unresolvedCalls}
      IN  /\ edges \cup open \cup relations.externalCalls = calls
          /\ edges \cap (open \cup relations.externalCalls) = {}
          /\ open \cap relations.externalCalls = {}
          /\ Cardinality(edges) = Cardinality(CallEdges(relations))
          /\ relations.externalImports \cup relations.unresolvedImports \subseteq imports
          /\ \A p \in imports :
               \/ p \in relations.externalImports \cup relations.unresolvedImports
               \/ \E e \in relations.edges : e.type = "imports" /\ e.at = p
          /\ \A e \in relations.edges :
               /\ Known(relations, e.from) /\ FileOf(relations, e.from) \in seen
               /\ Known(relations, e.to)   /\ FileOf(relations, e.to) \in seen

(* A flow holds what its root reaches by calls in at most MaxFlowDepth     *)
(* steps, each at the length of the shortest way there (_bfs_reachable).   *)
Within(root) ==
    LET within[k \in 0 .. MaxFlowDepth] ==
          IF k = 0 THEN {root}
          ELSE within[k - 1] \cup {e.to : e \in {d \in CallEdges(relations) :
                                                   d.from \in within[k - 1]}}
    IN  within

FlowsAreShortestPaths ==
    flows # None /\ CallEdges(relations) # {} =>
      \A g \in flows.flows :
        g.found = UNION {{<<id, k>> : id \in Within(g.root)[k] \ Within(g.root)[k - 1]} :
                           k \in 1 .. MaxFlowDepth}

(* Three quarters of the files share a cluster only if they do at every    *)
(* depth that may be tried (_select_cluster_depth, which stops early when  *)
(* a deeper split would change nothing).                                   *)
DominanceIsUnavoidable ==
    clusters # None /\ scan # {} =>
      LET dominant(d) == \E f \in scan :
            4 * Cardinality({g \in scan : ClusterAt(repo.path[g], d)
                                            = ClusterAt(repo.path[f], d)})
              > 3 * Cardinality(scan)
      IN  dominant(clusters.depth) => \A d \in 1 .. MaxClusterDepth : dominant(d)

(* The artifacts count the same edges: what leaves the files enters the    *)
(* files, what leaves the clusters enters the clusters and is in no        *)
(* cluster, the context of the files adds up to the clusters, the matrix   *)
(* and the dossier to the calls between clusters.                          *)
Total(count) == FoldFunction(LAMBDA n, total : n + total, 0, count)

ArtifactsAgree ==
    dossier # None =>
      LET C     == clusters.clusters
          files == DOMAIN breakdowns
          all   == Cardinality(relations.edges)
          cross == Cardinality(clusters.cross)
          crossCalls == Cardinality({x \in clusters.cross : x.edge.type = "calls"})
          both  == {"calls", "imports"}
      IN  /\ Total([f \in files |-> Cardinality(breakdowns[f].outbound)]) = all
          /\ Total([f \in files |-> Cardinality(breakdowns[f].inbound)]) = all
          /\ Total([c \in DOMAIN C |-> C[c].calls + C[c].imports + C[c].contains])
               + cross = all
          /\ \A c \in DOMAIN C :
               LET towards == C[c].files \X (DOMAIN C) \X both
               IN  /\ Total([x \in towards |-> context[x[1]].outbound[<<x[2], x[3]>>]])
                        = C[c].outbound
                   /\ Total([x \in towards |-> context[x[1]].inbound[<<x[2], x[3]>>]])
                        = C[c].inbound
          /\ Total([p \in DOMAIN flows.matrix |-> flows.matrix[p].calls]) = crossCalls
          /\ Total(dossier.rooted) = Cardinality(flows.flows)
          /\ Total(dossier.calls) = Total(dossier.called)
          /\ Total(dossier.unresolved) = Total(dossier.categories)

(* A check that fails means what it says, but for the relation map: it     *)
(* counts as unexpectedly empty exactly when nothing is defined and no     *)
(* import stays in the repository, which is how a script looks.            *)
ChecksMeanSomething ==
    dossier # None =>
      checks = IF /\ \E f \in scan : inventory[f].imports # {} \/ inventory[f].calls # {}
                  /\ \A f \in scan : inventory[f].defs = {}
                  /\ \A e \in relations.edges : e.type # "imports"
               THEN {"relation_map_not_empty"} ELSE {}

(* Whatever suggests an ability is the evidence of one action, by it of    *)
(* one function, and of the file, module and subsystem that the            *)
(* cross-reference index leads to, and of the system; nothing else is      *)
(* evidence, a record that is not inferred has some, the validation has    *)
(* nothing to report, and every function and method has a meaning, or a    *)
(* namesake in its file has one (run_system_breakdown,                     *)
(* build_cross_reference_index, validate_meaning_records).                 *)
EvidenceIsAccounted ==
    meaning # None =>
      LET m     == meaning.map
          index == meaning.index
          sites == UNION {m.abilities[a].sites : a \in DOMAIN m.abilities}
          acting(s) == {a \in index.abilityToActions[s.ability] : s \in a.sites}
          holding(s) == UNION {index.actionToFunctions[a] : a \in acting(s)}
      IN  /\ meaning.violations = {}
          /\ m.system.sites = sites
          /\ \A s \in sites :
               /\ Cardinality(acting(s)) = 1 /\ Cardinality(holding(s)) = 1
               /\ {index.functionToFile[x] : x \in holding(s)} = {s.file}
               /\ s.ability \in index.fileToAbilities[s.file]
               /\ s \in m.purposes[s.file].sites /\ s \in m.behaviors[s.file].sites
               /\ s \in m.modules[index.fileToModule[s.file]].sites
               /\ s \in m.subsystems[index.moduleToSubsystem[index.fileToModule[s.file]]].sites
          /\ \A f \in scan \ repo.broken :
               /\ m.purposes[f].inferred  <=> m.purposes[f].sites = {}
               /\ m.behaviors[f].inferred <=> m.behaviors[f].sites = {}
               /\ \A d \in inventory[f].defs :
                    d.type \in {"function", "method"} =>
                      \E x \in m.functions : x.file = f /\ BaseName(x.scope) = d.name

(* The steps of a workflow hold every action of every definition that its  *)
(* flow reaches, unless the flow reaches another definition of that name   *)
(* in another file: only one of the two files is looked at                 *)
(* (_derive_workflows, whose table from names to files has one entry per   *)
(* name).                                                                  *)
WorkflowsHaveTheirSteps ==
    meaning # None =>
      \A g \in flows.flows :
        LET reached == {id \in {g.root} \cup {x[1] : x \in g.found} : id[1] # "file"}
        IN  \A id \in reached : \A a \in meaning.map.actions :
              (/\ \A other \in reached : other[4] = id[4] => other[2] = id[2]
               /\ StandsIn(a.file, a.scope) = Tail(id))
              => a \in meaning.map.workflows[g.root].steps
=============================================================================
