--------------------------- MODULE ArchitectureMap ---------------------------
(***************************************************************************)
(* build_cluster_map and build_flow_map: files grouped into clusters by    *)
(* their directories, and the call graph followed from entry points.       *)
(* Both read a relation map, map, as RelationMap makes it; a cluster is    *)
(* named by the directories its files share, the root cluster by <<>>.     *)
(***************************************************************************)
EXTENDS PythonSource

CONSTANTS
    MaxClusterDepth,  \* _MAX_CLUSTER_DEPTH (6)
    MaxFlowDepth,     \* MAX_FLOW_DEPTH (8)
    HubThreshold,     \* HUB_THRESHOLD (5)
    EntryNames        \* names that make an anchor when no call was resolved

ASSUME DepthAssumption ==
    MaxClusterDepth \in Nat \ {0} /\ MaxFlowDepth \in Nat \ {0}

-----------------------------------------------------------------------------
(* Clusters.                                                               *)

Directories(path) == Front(path)

ClusterAt(path, depth) ==
    SubSeq(path, 1, Min({depth, Len(Directories(path))}))

Members(repo, depth, cluster) ==
    {f \in Files(repo) : ClusterAt(repo.path[f], depth) = cluster}

(* No cluster holds more than three quarters of the files.                 *)
Balanced(repo, depth) ==
    \A f \in Files(repo) :
      4 * Cardinality(Members(repo, depth, ClusterAt(repo.path[f], depth)))
        <= 3 * Cardinality(Files(repo))

(* Defect: a deeper split helps only if it splits every file further.      *)
SplittableEverywhere(repo, depth) ==
    \A f \in Files(repo) : Len(Directories(repo.path[f])) > depth

Splittable(repo, depth) ==
    \E f \in Files(repo) : Len(Directories(repo.path[f])) > depth

(* The first depth at which no cluster dominates, or no deeper one differs. *)
SelectClusterDepth(repo) ==
    IF Files(repo) = {} THEN 1
    ELSE Min({d \in 1 .. MaxClusterDepth : Balanced(repo, d) \/ ~Splittable(repo, d)}
             \cup {MaxClusterDepth})

StructuralRole(outbound, inbound, main) ==
    CASE main /\ outbound > 0     -> "entrypoint_driver"
      [] outbound + inbound = 0   -> "isolated"
      [] OTHER -> IF 4 * outbound >= 3 * (outbound + inbound) THEN "orchestrator"
                  ELSE IF 4 * outbound <= outbound + inbound THEN "library"
                  ELSE "utility"

(* The node of an id; of two nodes with one id the last, which is in the   *)
(* same file.                                                              *)
Known(map, id)  == \E n \in map.nodes : n.id = id
FileOf(map, id) == (CHOOSE n \in map.nodes : n.id = id).file

BuildClusterMap(repo, inv, map) ==
    LET depth == SelectClusterDepth(repo)
        of == [f \in Files(repo) |-> ClusterAt(repo.path[f], depth)]
        ends == {[edge |-> e, from |-> FileOf(map, e.from), to |-> FileOf(map, e.to)] :
                   e \in {x \in map.edges : Known(map, x.from) /\ Known(map, x.to)}}
        cross == {x \in ends : of[x.from] # of[x.to] /\ x.edge.type # "contains"}
        inner(c, type) == Cardinality({x \in ends : /\ of[x.from] = c /\ of[x.to] = c
                                                    /\ x.edge.type = type})
        outbound(c) == {x \in cross : of[x.from] = c}
        inbound(c)  == {x \in cross : of[x.to] = c}
        main(c) == {f \in Files(repo) : of[f] = c /\ inv[f].main}
    IN  [depth |-> depth,
         of    |-> of,
         cross |-> cross,
         clusters |->
           [c \in {of[f] : f \in Files(repo)} |->
              [files     |-> {f \in Files(repo) : of[f] = c},
               calls     |-> inner(c, "calls"),
               imports   |-> inner(c, "imports"),
               contains  |-> inner(c, "contains"),
               main      |-> main(c),
               entry     |-> main(c) # {} \/ c = <<>>,
               role      |-> StructuralRole(Cardinality(outbound(c)),
                               Cardinality(inbound(c)), main(c) # {}),
               outbound  |-> Cardinality(outbound(c)),
               inbound   |-> Cardinality(inbound(c)),
               connected |-> {of[x.to] : x \in outbound(c)}
                             \cup {of[x.from] : x \in inbound(c)},
               broken    |-> {f \in repo.broken : of[f] = c}]]]

-----------------------------------------------------------------------------
(* Flows.                                                                  *)

Callable(n) == n.type \in {"function", "method"}

CallEdges(map) == {e \in map.edges : e.type = "calls"}

(* Every callable and every caller has an entry in the forward graph.      *)
GraphEdges(map) == {e \in CallEdges(map) : Known(map, e.from) /\ Known(map, e.to)}

Forward(map) ==
    [id \in {n.id : n \in {m \in map.nodes : Callable(m)}}
            \cup {e.from : e \in GraphEdges(map)} |->
       {e.to : e \in {x \in GraphEdges(map) : x.from = id}}]

CallersOf(map, id) == {e.from : e \in {x \in GraphEdges(map) : x.to = id}}

MainFiles(clusters) == UNION {clusters[c].main : c \in DOMAIN clusters}

(* Callables of files with a main block; if there are none, whatever calls *)
(* or can be called and is not called: files and classes included.         *)
EntryPoints(map, clusters) ==
    LET mains == {n.id : n \in {m \in map.nodes :
                    Callable(m) /\ m.file \in MainFiles(clusters)}}
    IN  IF mains # {} THEN mains
        ELSE {id \in DOMAIN Forward(map) : CallersOf(map, id) = {}}

(* Defect: the last that was queued is searched first.                     *)
Stacked(graph, id, depth, seen, queue) ==
    FoldSet(LAMBDA next, q : <<<<next, depth>>>> \o q, queue,
            IF id \in DOMAIN graph THEN graph[id] \ seen ELSE {})

(* The breadth-first search over the calls: nodes are marked when they     *)
(* leave the queue, so one may be queued several times and counts at its   *)
(* first arrival.  What is found is a set of ids with their depths.        *)
Queued(graph, id, depth, seen, queue) ==
    FoldSet(LAMBDA next, q : Append(q, <<next, depth>>), queue,
            IF id \in DOMAIN graph THEN graph[id] \ seen ELSE {})

(* One turn of the loop, from the queue and what is found so far.          *)
Searched(graph, start, s) ==
    LET id    == Head(s[1])[1]
        depth == Head(s[1])[2]
        seen  == {start} \cup {x[1] : x \in s[2]}
    IN  IF id \in seen THEN <<Tail(s[1]), s[2]>>
        ELSE <<IF depth < MaxFlowDepth
               THEN Queued(graph, id, depth + 1, seen \cup {id}, Tail(s[1]))
               ELSE Tail(s[1]),
               s[2] \cup {<<id, depth>>}>>

Reachable(graph, start) ==
    LET ids == DOMAIN graph \cup UNION {graph[id] : id \in DOMAIN graph}
        search[s \in Seq(ids \X Nat) \X SUBSET (ids \X Nat)] ==
          IF s[1] = <<>> THEN s[2] ELSE search[Searched(graph, start, s)]
    IN  search[<<Queued(graph, start, 1, {start}, <<>>), {}>>]

Flow(root, found, callees, calls, unresolved, type) ==
    [root |-> root, found |-> found, callees |-> callees, calls |-> calls,
     unresolved |-> unresolved, type |-> type]

(* Defect: calls between different files.                                  *)
CrossingFiles(map, of, e) == FileOf(map, e.from) # FileOf(map, e.to)

(* Calls between different clusters, of those among the nodes of a flow.   *)
Crossing(map, of, e) == of[FileOf(map, e.from)] # of[FileOf(map, e.to)]

CrossingsIn(map, of, flow) ==
    LET ids == {flow.root} \cup {x[1] : x \in flow.found}
    IN  {e \in GraphEdges(map) : e.from \in ids /\ e.to \in ids /\ Crossing(map, of, e)}

FlowType(map, clusters, root, found) ==
    LET of(id)  == clusters.of[FileOf(map, id)]
        crosses == \E x \in found : of(x[1]) # of(root)
    IN  CASE FileOf(map, root) \in MainFiles(clusters.clusters) -> "entry_point"
          [] OTHER -> IF /\ CallersOf(map, root) = {} /\ crosses
                         /\ Cardinality(found) >= 3
                      THEN "pipeline" ELSE "library"

FlowRecord(map, clusters, root) ==
    LET found == Reachable(Forward(map), root)
        files == {FileOf(map, x[1]) : x \in found} \cup {FileOf(map, root)}
    IN  Flow(root, found, Forward(map)[root],
             Cardinality({e \in GraphEdges(map) : e.from = root}),
             Cardinality({u \in map.unresolvedCalls : u.at[1] \in files}),
             FlowType(map, clusters, root, found))

(* No call was resolved: a definition with the name of an entry point      *)
(* stands for the module it is in.                                         *)
SyntheticFlows(map) ==
    {Flow(n.id,
          {<<m.id, 0>> : m \in {x \in map.nodes :
                                  Callable(x) /\ x.file = n.file /\ x.id # n.id}},
          {}, 0, 0, "entry_point") :
       n \in {x \in map.nodes : Callable(x) /\ x.name \in EntryNames}}

FunctionMetrics(map, flows) ==
    [id \in {n.id : n \in {m \in map.nodes : Callable(m)}} |->
       LET inbound == Cardinality({e \in CallEdges(map) : e.to = id}) IN
       [file     |-> FileOf(map, id),
        inbound  |-> inbound,
        outbound |-> Cardinality({e \in CallEdges(map) : e.from = id}),
        hub      |-> inbound >= HubThreshold,
        flows    |-> {f.root : f \in {g \in flows :
                                        \E x \in g.found : x[1] = id}}]]

ClusterFlowMatrix(map, of, flows) ==
    LET crossing == {e \in CallEdges(map) : Crossing(map, of, e)}
        pair(e)  == <<of[FileOf(map, e.from)], of[FileOf(map, e.to)]>>
    IN  [p \in {pair(e) : e \in crossing} |->
           [calls |-> Cardinality({e \in crossing : pair(e) = p}),
            flows |-> {f.root : f \in {g \in flows :
                         \E e \in CrossingsIn(map, of, g) : pair(e) = p}}]]

BuildFlowMap(map, clusters) ==
    LET flows == {FlowRecord(map, clusters, root) :
                    root \in EntryPoints(map, clusters.clusters)}
    IN  IF GraphEdges(map) = {}
        THEN [flows |-> SyntheticFlows(map), metrics |-> FunctionMetrics(map, {}),
              matrix |-> <<>>]
        ELSE [flows |-> flows, metrics |-> FunctionMetrics(map, flows),
              matrix |-> ClusterFlowMatrix(map, clusters.of, flows)]
=============================================================================
