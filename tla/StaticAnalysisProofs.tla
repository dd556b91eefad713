------------------------- MODULE StaticAnalysisProofs -------------------------
(***************************************************************************)
(* What holds for every repository: where a relative import starts; that   *)
(* three quarters of the files share a cluster only if they do at every    *)
(* depth that may be tried; that the relation map loses and doubles no     *)
(* call and no import, and all its edges join nodes; what a failed check   *)
(* of the validation means; that the breadth-first search ends, and finds  *)
(* each node at the length of the shortest way to it; which steps a        *)
(* workflow has and where evidence goes in the meaning layer; that the     *)
(* artifacts that count edges, calls and flows count the same ones; and    *)
(* that a call with one meaning has one edge, to what it means.            *)
(***************************************************************************)
EXTENDS StaticAnalysis, FiniteSetTheorems, SequenceTheorems, WellFoundedInduction,
        TLAPS

(* A path below no directory that has the name of the root module.         *)
IsPath(path) == path \in Seq(STRING) /\ path # <<>>

LEMMA DirectoriesOfPath ==
    ASSUME NEW path, IsPath(path)
    PROVE  /\ Len(path) - 1 \in Nat
           /\ Directories(path) \in Seq(STRING)
           /\ Len(Directories(path)) = Len(path) - 1
<1>1. path \in Seq(STRING) /\ Len(path) - 1 \in Nat
  BY DEF IsPath
<1>2. \A i \in 1 .. Len(path) - 1 : path[i] \in STRING
  BY <1>1
<1> DEFINE n == Len(path) - 1
<1>3. SubSeq(path, 1, n) \in Seq(STRING)
      /\ Len(SubSeq(path, 1, n)) = IF 1 <= n THEN n - 1 + 1 ELSE 0
  <2> HIDE DEF n
  <2>1. n \in Int /\ \A i \in 1 .. n : path[i] \in STRING
    BY <1>1, <1>2 DEF n
  <2> QED
    BY <2>1, SubSeqProperties
<1>4. Directories(path) = SubSeq(path, 1, n)
  BY DEF Directories, Front
<1>5. n \in Nat
  BY <1>1
<1> HIDE DEF n
<1>6. Directories(path) \in Seq(STRING) /\ Len(Directories(path)) = n
  BY <1>3, <1>4, <1>5
<1> QED
  BY <1>5, <1>6 DEF n

-----------------------------------------------------------------------------
(* Relative imports.                                                       *)

(* The package of a file is its directory, for a package as for a module   *)
(* (_resolve_module_reference tells them apart by __init__.py).            *)
THEOREM PackageIsDirectory ==
    ASSUME NEW path, IsPath(path),
           ModuleName(path) = RootModule => Len(path) = 1
    PROVE  PackageParts(path) = Directories(path)
<1>1. path \in Seq(STRING) /\ Len(path) \in Nat /\ Len(path) >= 1
  BY DEF IsPath
<1>2. CASE ModuleName(path) = RootModule
  <2>1. Len(path) = 1
    BY <1>2
  <2>2. Front(path) = <<>>
    BY <1>1, <2>1 DEF Front
  <2> QED
    BY <1>2, <2>2 DEF PackageParts, Directories
<1>3. CASE ModuleName(path) # RootModule /\ IsInit(path)
  <2>1. path # <<"__init__">>
    BY <1>3 DEF ModuleName
  <2>2. ModuleName(path) = Front(path)
    BY <1>3, <2>1 DEF ModuleName
  <2> QED
    BY <1>3, <2>2 DEF PackageParts, Directories
<1>4. CASE ModuleName(path) # RootModule /\ ~IsInit(path)
  <2>1. path # <<"__init__">>
    BY <1>4 DEF ModuleName
  <2>2. ModuleName(path) = path
    BY <1>4, <2>1 DEF ModuleName
  <2> QED
    BY <1>4, <2>2 DEF PackageParts, Directories
<1> QED
  BY <1>2, <1>3, <1>4

(* "from ..m import": with level dots the import starts level - 1          *)
(* directories above the file, if there are so many.                       *)
THEOREM RelativeImportStartsAbove ==
    ASSUME NEW path, IsPath(path),
           ModuleName(path) = RootModule => Len(path) = 1,
           NEW mod \in Seq(STRING), mod # <<>>,
           NEW level \in Nat \ {0}, level <= Len(path)
    PROVE  ModuleReference(path, level, mod)
             = SubSeq(path, 1, Len(path) - level) \o mod
<1> DEFINE dir == Directories(path)
<1>1. path \in Seq(STRING) /\ Len(path) \in Nat /\ Len(path) >= 1
  BY DEF IsPath
<1>2. PackageParts(path) = dir
  BY PackageIsDirectory
<1>3. dir \in Seq(STRING) /\ Len(dir) = Len(path) - 1
  BY DirectoriesOfPath
<1>4. ~(level - 1 > Len(dir)) /\ level # 0
  BY <1>1, <1>3
<1>5. SubSeq(dir, 1, Len(dir) - (level - 1)) = SubSeq(path, 1, Len(path) - level)
  BY <1>1, <1>3 DEF Directories, Front
<1>6. SubSeq(path, 1, Len(path) - level) \o mod # <<>>
  <2>1. SubSeq(path, 1, Len(path) - level) \in Seq(STRING)
    BY <1>1
  <2> QED
    BY <2>1
<1> HIDE DEF dir
<1>7. ModuleReference(path, level, mod)
        = IF SubSeq(dir, 1, Len(dir) - (level - 1)) \o mod = <<>> THEN RootModule
          ELSE SubSeq(dir, 1, Len(dir) - (level - 1)) \o mod
  BY <1>2, <1>4 DEF ModuleReference
<1> QED
  BY <1>5, <1>6, <1>7

-----------------------------------------------------------------------------
(* Clusters by depth.                                                      *)

LEMMA LessIsWellFounded == IsWellFoundedOn({x \in Nat \X Nat : x[1] < x[2]}, Nat)
  BY NatLessThanWellFounded, Zenon DEF OpToRel

(* A set of natural numbers that is not empty has a least element.         *)
LEMMA LeastElement ==
    ASSUME NEW S \in SUBSET Nat, S # {}
    PROVE  Min(S) \in S /\ \A y \in S : Min(S) <= y
<1> DEFINE R == {x \in Nat \X Nat : x[1] < x[2]}
<1>1. IsWellFoundedOn(R, Nat)
  BY LessIsWellFounded
<1>2. PICK x \in S : \A y \in S : <<y, x>> \notin R
  <2> HIDE DEF R
  <2> QED
    BY <1>1, WFMin, Zenon
<1>3. \A y \in S : x <= y
  <2> TAKE y \in S
  <2>1. <<y, x>> \notin R
    BY <1>2
  <2>2. x \in Nat /\ y \in Nat
    OBVIOUS
  <2>3. ~(y < x)
    BY <2>1, <2>2 DEF R
  <2> QED
    BY <2>2, <2>3
<1> QED
  BY <1>3 DEF Min

LEMMA LesserOfTwo ==
    ASSUME NEW a \in Nat, NEW b \in Nat
    PROVE  Min({a, b}) = IF a <= b THEN a ELSE b
<1>1. Min({a, b}) \in {a, b} /\ \A y \in {a, b} : Min({a, b}) <= y
  BY LeastElement
<1> QED
  BY <1>1

LEMMA ClusterLength ==
    ASSUME NEW path, IsPath(path), NEW d \in Nat
    PROVE  /\ Len(path) - 1 \in Nat
           /\ Len(Directories(path)) = Len(path) - 1
           /\ ClusterAt(path, d)
                = SubSeq(path, 1, IF d <= Len(path) - 1 THEN d ELSE Len(path) - 1)
<1>1. path \in Seq(STRING) /\ Len(path) - 1 \in Nat
  BY DEF IsPath
<1>2. Len(Directories(path)) = Len(path) - 1
  BY DirectoriesOfPath
<1> QED
  BY <1>1, <1>2, LesserOfTwo DEF ClusterAt

(* A deeper depth only splits clusters: files that share one share every   *)
(* shallower one (_cluster_id_from_path).                                  *)
THEOREM DeeperIsFiner ==
    ASSUME NEW p, IsPath(p), NEW q, IsPath(q),
           NEW d \in Nat, NEW e \in Nat, d <= e,
           ClusterAt(p, e) = ClusterAt(q, e)
    PROVE  ClusterAt(p, d) = ClusterAt(q, d)
<1> DEFINE cut(path, n) == IF n <= Len(path) - 1 THEN n ELSE Len(path) - 1
<1>1. p \in Seq(STRING) /\ q \in Seq(STRING) /\ Len(p) - 1 \in Nat /\ Len(q) - 1 \in Nat
  BY DEF IsPath
<1>2. SubSeq(p, 1, cut(p, e)) = SubSeq(q, 1, cut(q, e))
  BY ClusterLength
<1>3. cut(p, e) = cut(q, e)
  <2>1. Len(SubSeq(p, 1, cut(p, e))) = cut(p, e)
    BY <1>1
  <2>2. Len(SubSeq(q, 1, cut(q, e))) = cut(q, e)
    BY <1>1
  <2> QED
    BY <1>2, <2>1, <2>2
<1>4. \A i \in 1 .. cut(p, e) : p[i] = q[i]
  <2> TAKE i \in 1 .. cut(p, e)
  <2>1. SubSeq(p, 1, cut(p, e))[i] = p[i]
    BY <1>1
  <2>2. SubSeq(q, 1, cut(q, e))[i] = q[i]
    BY <1>1, <1>3
  <2> QED
    BY <1>2, <2>1, <2>2
<1>5. cut(p, d) = cut(q, d) /\ cut(p, d) <= cut(p, e) /\ cut(p, d) \in Nat
  BY <1>1, <1>3
<1>6. SubSeq(p, 1, cut(p, d)) = SubSeq(q, 1, cut(q, d))
  <2> HIDE DEF cut
  <2>1. cut(p, d) <= Len(p) /\ cut(q, d) <= Len(q)
    BY <1>1 DEF cut
  <2>2. cut(p, e) \in Nat
    BY <1>1 DEF cut
  <2> QED
    BY <1>1, <1>4, <1>5, <2>1, <2>2
<1> QED
  BY <1>6, ClusterLength

(* What a repository needs for its clusters: finitely many files with      *)
(* paths.                                                                  *)
Located(r) ==
    /\ IsFiniteSet(DOMAIN r.path)
    /\ \A f \in DOMAIN r.path : IsPath(r.path[f])

(* Below the deepest directory every depth makes the same clusters.        *)
LEMMA SameBelow ==
    ASSUME NEW r, Located(r), NEW d \in Nat, NEW e \in Nat, d <= e,
           ~Splittable(r, d)
    PROVE  Balanced(r, e) => Balanced(r, d)
<1>1. \A f \in Files(r) : ClusterAt(r.path[f], d) = ClusterAt(r.path[f], e)
  <2> SUFFICES ASSUME NEW f \in Files(r)
               PROVE  ClusterAt(r.path[f], d) = ClusterAt(r.path[f], e)
    OBVIOUS
  <2>1. IsPath(r.path[f])
    BY DEF Located, Files
  <2>2. ~(Len(Directories(r.path[f])) > d)
    BY DEF Splittable
  <2>3. Len(r.path[f]) - 1 \in Nat /\ Len(r.path[f]) - 1 <= d
    BY <2>1, <2>2, DirectoriesOfPath
  <2>4. (IF d <= Len(r.path[f]) - 1 THEN d ELSE Len(r.path[f]) - 1)
          = IF e <= Len(r.path[f]) - 1 THEN e ELSE Len(r.path[f]) - 1
    BY <2>3
  <2> QED
    BY <2>1, <2>4, ClusterLength
<1>2. \A f \in Files(r) : Members(r, d, ClusterAt(r.path[f], d))
                            = Members(r, e, ClusterAt(r.path[f], e))
  BY <1>1 DEF Members
<1> QED
  BY <1>2 DEF Balanced

(* The depth that is selected is balanced if any that may be tried is.     *)
LEMMA SelectedIsBest ==
    ASSUME NEW r, Located(r), Files(r) # {},
           NEW d \in 1 .. MaxClusterDepth, Balanced(r, d)
    PROVE  Balanced(r, SelectClusterDepth(r))
<1> DEFINE good   == {n \in 1 .. MaxClusterDepth : Balanced(r, n) \/ ~Splittable(r, n)}
           tried  == good \cup {MaxClusterDepth}
           chosen == SelectClusterDepth(r)
<1>1. MaxClusterDepth \in Nat /\ MaxClusterDepth >= 1 /\ d \in Nat
  BY DepthAssumption
<1>2. chosen = Min(tried)
  BY DEF SelectClusterDepth
<1>3. tried \in SUBSET Nat /\ tried # {} /\ d \in tried
  BY <1>1
<1> HIDE DEF chosen
<1>4. chosen \in tried /\ chosen <= d
  <2> HIDE DEF tried
  <2> QED
    BY <1>2, <1>3, LeastElement
<1>5. chosen \in Nat
  BY <1>3, <1>4
<1>6. CASE chosen \in good
  <2>1. CASE Balanced(r, chosen)
    BY <2>1 DEF chosen
  <2>2. CASE ~Splittable(r, chosen)
    <3>1. Balanced(r, chosen)
      BY <1>1, <1>4, <1>5, <2>2, SameBelow
    <3> QED
      BY <3>1 DEF chosen
  <2> QED
    BY <1>6, <2>1, <2>2
<1>7. CASE chosen = MaxClusterDepth
  <2>1. chosen = d
    BY <1>1, <1>4, <1>7
  <2> QED
    BY <2>1 DEF chosen
<1> QED
  BY <1>4, <1>6, <1>7

-----------------------------------------------------------------------------
(* The stages.                                                             *)

(* The cluster map was made of the files that were found, and neither has  *)
(* changed since.                                                          *)
ClustersOfScan ==
    /\ "path" \in DOMAIN repo /\ Located(repo)
    /\ scan # None => scan \subseteq DOMAIN repo.path
    /\ inventory # None => scan # None
    /\ relations # None => inventory # None
    /\ breakdowns # None => relations # None
    /\ clusters # None => breakdowns # None /\ clusters.depth = SelectClusterDepth(Seen)

LEMMA InitClusters == Init => ClustersOfScan
<1> SUFFICES ASSUME Init PROVE ClustersOfScan
  OBVIOUS
<1>1. repo \in Projects
  BY DEF Init
<1>2. repo = Project(repo.path, repo.text, repo.edits, repo.budget, repo.denied)
  BY <1>1, ProjectsAssumption
<1>3. "path" \in DOMAIN repo
  BY <1>2 DEF Project
<1>4. Located(repo)
  BY <1>1, ProjectsAssumption DEF Located, IsPath
<1> QED
  BY <1>3, <1>4 DEF Init, ClustersOfScan

(* Nothing of the repository that the clusters depend on is edited.        *)
LEMMA WriteKeepsPaths ==
    ASSUME "path" \in DOMAIN repo, NEW f, Write(f) \/ Break(f)
    PROVE  "path" \in DOMAIN repo' /\ repo'.path = repo.path
<1>1. CASE Write(f)
  <2>1. PICK node, up :
          repo' = [repo EXCEPT !.text[f] = Append(@, At(up, node)), !.budget = @ - 1]
    BY <1>1 DEF Write
  <2> QED
    BY <2>1
<1>2. CASE Break(f)
  BY <1>2 DEF Break
<1> QED
  BY <1>1, <1>2

LEMMA NextClusters == ClustersOfScan /\ [Next]_vars => ClustersOfScan'
<1> SUFFICES ASSUME ClustersOfScan, [Next]_vars
             PROVE  ClustersOfScan'
  OBVIOUS
<1> USE DEF ClustersOfScan
<1>1. ASSUME NEW f \in Files(repo), Write(f) \/ Break(f)
      PROVE  ClustersOfScan'
  <2>1. "path" \in DOMAIN repo' /\ repo'.path = repo.path
    BY <1>1, WriteKeepsPaths
  <2>2. /\ scan = None /\ scan' = scan /\ inventory' = inventory
        /\ relations' = relations /\ breakdowns' = breakdowns
        /\ clusters' = clusters
    BY <1>1 DEF Write, Break
  <2>3. Located(repo)'
    BY <2>1 DEF Located
  <2> QED
    BY <2>1, <2>2, <2>3
<1>2. CASE ScanRepo
  BY <1>2 DEF ScanRepo, Files
<1>3. CASE ExtractFiles
  BY <1>3 DEF ExtractFiles, Seen
<1>4. CASE BuildRelations
  BY <1>4 DEF BuildRelations, Seen
<1>5. CASE BuildBreakdowns
  BY <1>5 DEF BuildBreakdowns, Seen
<1>6. CASE EnrichAndCluster
  <2>1. BuildClusterMap(Seen, inventory, relations).depth = SelectClusterDepth(Seen)
    BY DEF BuildClusterMap
  <2>2. Seen' = Seen
    BY <1>6 DEF EnrichAndCluster, Seen
  <2> QED
    BY <1>6, <2>1, <2>2 DEF EnrichAndCluster
<1>7. CASE BuildFlows
  BY <1>7 DEF BuildFlows, Seen
<1>8. CASE BuildReports
  BY <1>8 DEF BuildReports, Seen
<1>9. CASE DeriveMeaning
  BY <1>9 DEF DeriveMeaning, Seen
<1>10. CASE UNCHANGED vars
  BY <1>10 DEF vars, Seen
<1> QED
  BY <1>1, <1>2, <1>3, <1>4, <1>5, <1>6, <1>7, <1>8, <1>9, <1>10 DEF Next, Done

LEMMA ClustersAlways == Spec => []ClustersOfScan
<1> QED
  BY InitClusters, NextClusters, PTL DEF Spec

(* Three quarters of the files share a cluster only if they do at every    *)
(* depth that may be tried, whatever the repository and the depths.        *)
THEOREM DominanceIsUnavoidableAlways == Spec => []DominanceIsUnavoidable
<1>1. ClustersOfScan => DominanceIsUnavoidable
  <2> DEFINE share(d, f) == Cardinality({g \in scan : ClusterAt(repo.path[g], d)
                                                        = ClusterAt(repo.path[f], d)})
             dominant(d) == \E f \in scan : 4 * share(d, f) > 3 * Cardinality(scan)
  <2> SUFFICES ASSUME ClustersOfScan, clusters # None, scan # {},
                      dominant(clusters.depth), NEW d \in 1 .. MaxClusterDepth
               PROVE  dominant(d)
    BY DEF DominanceIsUnavoidable
  <2>1. scan \subseteq DOMAIN repo.path /\ clusters.depth = SelectClusterDepth(Seen)
    BY DEF ClustersOfScan
  <2>2. Files(Seen) = scan /\ \A f \in scan : Seen.path[f] = repo.path[f]
    BY DEF Files, Seen
  <2>3. IsFiniteSet(scan)
    BY <2>1, FS_Subset DEF ClustersOfScan, Located
  <2>4. Located(Seen)
    BY <2>1, <2>2, <2>3 DEF ClustersOfScan, Located, Files
  <2>5. \A n : Balanced(Seen, n) <=> \A f \in scan : 4 * share(n, f) <= 3 * Cardinality(scan)
    <3> TAKE n
    <3>1. \A f \in scan : Members(Seen, n, ClusterAt(Seen.path[f], n))
            = {g \in scan : ClusterAt(repo.path[g], n) = ClusterAt(repo.path[f], n)}
      BY <2>2 DEF Members
    <3> QED
      BY <2>2, <3>1 DEF Balanced
  <2>6. \A n : Balanced(Seen, n) <=> ~dominant(n)
    <3>1. \A n : \A f \in scan : share(n, f) \in Nat
      <4> TAKE n
      <4> TAKE f \in scan
      <4> QED
        BY <2>3, FS_Subset, FS_CardinalityType
    <3>2. Cardinality(scan) \in Nat
      BY <2>3, FS_CardinalityType
    <3> HIDE DEF share
    <3> QED
      BY <2>5, <3>1, <3>2
  <2> HIDE DEF dominant
  <2>7. ~Balanced(Seen, SelectClusterDepth(Seen))
    BY <2>1, <2>6
  <2>8. ~Balanced(Seen, d)
    BY <2>2, <2>4, <2>7, SelectedIsBest
  <2> QED
    BY <2>6, <2>8
<1> QED
  BY <1>1, ClustersAlways, PTL

-----------------------------------------------------------------------------
(* Induction, and the greatest of finitely many numbers.                   *)

LEMMA NatInduct ==
    ASSUME NEW S, 0 \in S, \A n \in Nat : n \in S => n + 1 \in S
    PROVE  \A n \in Nat : n \in S
<1> SUFFICES ASSUME Nat \ S # {}
             PROVE  FALSE
  OBVIOUS
<1> DEFINE n == Min(Nat \ S)
<1>1. n \in Nat \ S /\ \A m \in Nat \ S : n <= m
  BY LeastElement
<1> HIDE DEF n
<1>2. n # 0 /\ n - 1 \in Nat
  BY <1>1
<1>3. n - 1 \in S
  BY <1>1, <1>2
<1> QED
  BY <1>1, <1>2, <1>3

LEMMA GreatestElement ==
    ASSUME NEW S \in SUBSET Nat, IsFiniteSet(S), S # {}
    PROVE  Max(S) \in S /\ \A y \in S : Max(S) >= y
<1>1. PICK n \in Nat : ExistsBijection(1 .. n, S)
  BY FS_CardinalityType
<1>2. PICK f \in Bijection(1 .. n, S) : TRUE
  BY <1>1 DEF ExistsBijection
<1>3. f \in [1 .. n -> S] /\ \A s \in S : \E i \in 1 .. n : f[i] = s
  BY <1>2 DEF Bijection, Injection, Surjection
<1> DEFINE T == {k \in Nat : 1 <= k /\ k <= n =>
                   \E i \in 1 .. k : \A j \in 1 .. k : f[j] <= f[i]}
<1>4. 0 \in T
  OBVIOUS
<1>5. ASSUME NEW k \in Nat, k \in T
      PROVE  k + 1 \in T
  <2> SUFFICES ASSUME k + 1 <= n
               PROVE  \E i \in 1 .. k + 1 : \A j \in 1 .. k + 1 : f[j] <= f[i]
    OBVIOUS
  <2>1. \A j \in 1 .. k + 1 : f[j] \in Nat
    <3> TAKE j \in 1 .. k + 1
    <3>1. j \in 1 .. n
      OBVIOUS
    <3>2. f[j] \in S
      BY <1>3, <3>1
    <3> QED
      BY <3>2
  <2>2. CASE k = 0
    <3>1. 1 \in 1 .. k + 1 /\ \A j \in 1 .. k + 1 : f[j] <= f[1]
      BY <2>1, <2>2
    <3> QED
      BY <3>1
  <2>3. CASE k # 0
    <3>1. PICK i \in 1 .. k : \A j \in 1 .. k : f[j] <= f[i]
      BY <1>5, <2>3
    <3>2. CASE f[k + 1] <= f[i]
      <4>1. \A j \in 1 .. k + 1 : f[j] <= f[i]
        BY <3>1, <3>2
      <4> QED
        BY <4>1
    <3>3. CASE ~(f[k + 1] <= f[i])
      <4>1. \A j \in 1 .. k + 1 : f[j] <= f[k + 1]
        BY <2>1, <3>1, <3>3
      <4> QED
        BY <4>1
    <3> QED
      BY <3>2, <3>3
  <2> QED
    BY <2>2, <2>3
<1> HIDE DEF T
<1>6. n \in T
  BY <1>4, <1>5, NatInduct
<1>7. n >= 1
  <2>1. PICK s \in S : TRUE
    OBVIOUS
  <2>2. PICK i \in 1 .. n : f[i] = s
    BY <1>3
  <2> QED
    BY <2>2
<1>8. PICK i \in 1 .. n : \A j \in 1 .. n : f[j] <= f[i]
  BY <1>6, <1>7 DEF T
<1>9. f[i] \in S /\ \A y \in S : f[i] >= y
  BY <1>3, <1>8
<1> QED
  BY <1>9 DEF Max

LEMMA GreatestBelow ==
    ASSUME NEW n \in Nat, NEW S, S \subseteq 0 .. n, S # {}
    PROVE  Max(S) \in S /\ \A y \in S : Max(S) >= y
<1>1. S \in SUBSET Nat /\ S \in SUBSET (0 .. n)
  OBVIOUS
<1>2. IsFiniteSet(S)
  <2>1. 0 \in Int /\ n \in Int
    OBVIOUS
  <2>2. IsFiniteSet(0 .. n)
    BY <2>1, FS_Interval
  <2> QED
    BY <1>1, <2>2, FS_Subset
<1> QED
  BY <1>1, <1>2, GreatestElement

-----------------------------------------------------------------------------
(* Syntax trees.                                                           *)

LEMMA TextIs ==
    ASSUME NEW text, IsText(text)
    PROVE  /\ text \in Seq([up : Nat, node : Node]) /\ Len(text) \in Nat
           /\ DOMAIN text = 1 .. Len(text)
           /\ \A i \in DOMAIN text : /\ text[i].node \in Node
                                     /\ text[i].up \in 0 .. i - 1
                                     /\ text[i].up \in 0 .. Len(text)
<1>1. text \in Seq([up : Nat, node : Node]) /\ \A i \in DOMAIN text : text[i].up < i
  BY DEF IsText
<1>2. Len(text) \in Nat /\ DOMAIN text = 1 .. Len(text)
  BY <1>1
<1>3. \A i \in DOMAIN text : text[i] \in [up : Nat, node : Node]
  <2> DEFINE R == [up : Nat, node : Node]
  <2>1. text \in Seq(R)
    BY <1>1
  <2> HIDE DEF R
  <2>2. \A i \in DOMAIN text : text[i] \in R
    BY <2>1
  <2> QED
    BY <2>2 DEF R
<1>4. \A i \in DOMAIN text : text[i].node \in Node /\ text[i].up \in Nat
  BY <1>3
<1> QED
  BY <1>1, <1>2, <1>4

(* The scope around the body of a node, by the scope around the node.      *)
Frame == {"def", "class"} \X STRING

BodyOf(text, body, i) ==
    IF i = 0 THEN <<>>
    ELSE IF text[i].node.kind \in {"def", "class"}
         THEN Append(body[text[i].up], <<text[i].node.kind, text[i].node.name>>)
         ELSE body[text[i].up]

LEMMA NodeNames ==
    ASSUME NEW n \in Node
    PROVE  /\ n.kind \in {"def", "class"} => n.name \in STRING
           /\ n.kind = "import" => n.mod \in Seq(STRING)
  BY DEF Node

LEMMA BodyIsScope ==
    ASSUME NEW text, IsText(text), NEW body, NEW i \in 0 .. Len(text),
           i # 0 => body[text[i].up] \in Seq(Frame)
    PROVE  BodyOf(text, body, i) \in Seq(Frame)
<1>1. CASE i = 0
  BY <1>1 DEF BodyOf
<1>2. CASE i # 0 /\ text[i].node.kind \in {"def", "class"}
  <2>1. i \in DOMAIN text
    BY <1>2, TextIs
  <2>2. text[i].node \in Node
    BY <2>1, TextIs
  <2>3. text[i].node.name \in STRING
    BY <1>2, <2>2, NodeNames
  <2>4. <<text[i].node.kind, text[i].node.name>> \in Frame
    BY <1>2, <2>3 DEF Frame
  <2> QED
    BY <1>2, <2>4 DEF BodyOf
<1>3. CASE i # 0 /\ text[i].node.kind \notin {"def", "class"}
  BY <1>3 DEF BodyOf
<1> QED
  BY <1>1, <1>2, <1>3

LEMMA BodiesExist ==
    ASSUME NEW text, IsText(text)
    PROVE  \E b \in [0 .. Len(text) -> Seq(Frame)] :
             \A i \in 0 .. Len(text) : b[i] = BodyOf(text, b, i)
<1> DEFINE upto(b, m) == \A i \in 0 .. m : b[i] = BodyOf(text, b, i)
           S == {m \in Nat : m <= Len(text) =>
                   \E b \in [0 .. m -> Seq(Frame)] : upto(b, m)}
<1>0. Len(text) \in Nat
  BY TextIs
<1>1. 0 \in S
  <2> DEFINE b == [i \in 0 .. 0 |-> <<>>]
  <2>1. b \in [0 .. 0 -> Seq(Frame)] /\ upto(b, 0)
    BY DEF BodyOf
  <2> QED
    BY <2>1
<1>2. ASSUME NEW m \in Nat, m \in S
      PROVE  m + 1 \in S
  <2> SUFFICES ASSUME m + 1 <= Len(text)
               PROVE  \E b \in [0 .. m + 1 -> Seq(Frame)] : upto(b, m + 1)
    OBVIOUS
  <2>1. PICK b \in [0 .. m -> Seq(Frame)] : upto(b, m)
    BY <1>0, <1>2
  <2> DEFINE c == [i \in 0 .. m + 1 |-> IF i = m + 1 THEN BodyOf(text, b, i) ELSE b[i]]
  <2>2. ASSUME NEW i \in 0 .. m + 1
        PROVE  /\ i # 0 => text[i].up \in 0 .. m /\ c[text[i].up] = b[text[i].up]
               /\ BodyOf(text, c, i) = BodyOf(text, b, i)
    <3>1. i # 0 => text[i].up \in 0 .. i - 1
      <4>1. i # 0 => i \in DOMAIN text
        BY <1>0, TextIs
      <4> QED
        BY <4>1, TextIs
    <3>2. i # 0 => text[i].up \in 0 .. m
      BY <3>1
    <3>3. i # 0 => c[text[i].up] = b[text[i].up]
      BY <3>2
    <3> HIDE DEF c
    <3> QED
      BY <3>2, <3>3 DEF BodyOf
  <2>3. \A i \in 0 .. m + 1 : c[i] = BodyOf(text, c, i)
    <3> TAKE i \in 0 .. m + 1
    <3>1. i = m + 1 => c[i] = BodyOf(text, b, i)
      OBVIOUS
    <3>2. i # m + 1 => i \in 0 .. m /\ c[i] = b[i]
      OBVIOUS
    <3>3. i # m + 1 => b[i] = BodyOf(text, b, i)
      BY <2>1, <3>2
    <3> HIDE DEF c
    <3> QED
      BY <2>2, <3>1, <3>2, <3>3
  <2>4. \A i \in 0 .. m + 1 : c[i] \in Seq(Frame)
    <3> TAKE i \in 0 .. m + 1
    <3>1. CASE i = m + 1
      <4>1. b[text[m + 1].up] \in Seq(Frame)
        <5>1. m + 1 # 0 /\ m + 1 \in 0 .. m + 1
          OBVIOUS
        <5>2. text[m + 1].up \in 0 .. m
          BY <2>2, <5>1
        <5> QED
          BY <2>1, <5>2
      <4>2. m + 1 \in 0 .. Len(text)
        BY <1>0
      <4>3. BodyOf(text, b, m + 1) \in Seq(Frame)
        BY <4>1, <4>2, BodyIsScope
      <4> QED
        BY <3>1, <4>3
    <3>2. CASE i # m + 1
      BY <2>1, <3>2
    <3> QED
      BY <3>1, <3>2
  <2>5. c \in [0 .. m + 1 -> Seq(Frame)]
    BY <2>4
  <2> HIDE DEF c
  <2> QED
    BY <2>3, <2>5
<1> HIDE DEF S
<1>3. Len(text) \in S
  BY <1>0, <1>1, <1>2, NatInduct
<1> QED
  BY <1>0, <1>3 DEF S

LEMMA BodiesEquation ==
    ASSUME NEW text, IsText(text)
    PROVE  \A i \in 0 .. Len(text) : /\ Bodies(text)[i] = BodyOf(text, Bodies(text), i)
                                     /\ Bodies(text)[i] \in Seq(Frame)
<1> DEFINE E(g) == [i \in 0 .. Len(text) |-> BodyOf(text, g, i)]
<1>1. Bodies(text) = CHOOSE g : g = E(g)
  BY DEF Bodies, BodyOf
<1>2. PICK b \in [0 .. Len(text) -> Seq(Frame)] :
        \A i \in 0 .. Len(text) : b[i] = BodyOf(text, b, i)
  BY BodiesExist
<1>3. b = E(b)
  BY <1>2
<1>4. Bodies(text) = E(Bodies(text))
  <2> HIDE DEF E
  <2> QED
    BY <1>1, <1>3
<1>5. \A i \in 0 .. Len(text) : Bodies(text)[i] = BodyOf(text, Bodies(text), i)
  <2> DEFINE body == Bodies(text)
  <2> HIDE DEF body
  <2>1. body = [i \in 0 .. Len(text) |-> BodyOf(text, body, i)]
    BY <1>4 DEF body
  <2>2. \A i \in 0 .. Len(text) : body[i] = BodyOf(text, body, i)
    BY <2>1
  <2> QED
    BY <2>2 DEF body
<1> DEFINE body == Bodies(text)
           S == {m \in Nat : \A i \in 0 .. Len(text) : i <= m => body[i] \in Seq(Frame)}
<1> HIDE DEF body
<1>6. \A i \in 0 .. Len(text) : body[i] = BodyOf(text, body, i)
  BY <1>5 DEF body
<1>7. 0 \in S
  <2>1. ASSUME NEW i \in 0 .. Len(text), i <= 0
        PROVE  body[i] \in Seq(Frame)
    <3>1. i = 0
      BY <2>1
    <3> QED
      BY <3>1, <1>6, BodyIsScope
  <2> QED
    BY <2>1
<1>8. ASSUME NEW m \in Nat, m \in S
      PROVE  m + 1 \in S
  <2> SUFFICES ASSUME NEW i \in 0 .. Len(text), i <= m + 1
               PROVE  body[i] \in Seq(Frame)
    OBVIOUS
  <2>1. i # 0 => i \in DOMAIN text
    BY TextIs
  <2>2. i # 0 => text[i].up \in 0 .. i - 1 /\ text[i].up \in 0 .. Len(text)
    BY <2>1, TextIs
  <2>3. i # 0 => body[text[i].up] \in Seq(Frame)
    BY <1>8, <2>2
  <2> QED
    BY <1>6, <2>3, BodyIsScope
<1> HIDE DEF S
<1>9. \A m \in Nat : m \in S
  BY <1>7, <1>8, NatInduct
<1>10. \A i \in 0 .. Len(text) : body[i] \in Seq(Frame)
  <2> TAKE i \in 0 .. Len(text)
  <2>1. i \in Nat /\ i \in S
    BY <1>9
  <2> QED
    BY <2>1 DEF S
<1> QED
  BY <1>5, <1>10 DEF body

-----------------------------------------------------------------------------
(* What the index of a repository holds.                                   *)

(* A repository that can be analysed.                                      *)
Readable(r) ==
    /\ IsFiniteSet(Files(r)) /\ Files(r) \subseteq Nat \ {NoFile}
    /\ \A f \in Files(r) : IsText(r.text[f])

(* The definitions of the files that parse.                                *)
Definitions(r) == UNION {InFile(f, Inventory(r)[f].defs) : f \in Parsed(r)}

LEMMA InventoryIs ==
    ASSUME NEW r
    PROVE  /\ DOMAIN Inventory(r) = Files(r) /\ Parsed(r) \subseteq Files(r)
           /\ \A f \in Parsed(r) : Inventory(r)[f] = FileRecord(r.text[f])
           /\ \A f \in Files(r) \ Parsed(r) : Inventory(r)[f] = NoRecord
  BY DEF Inventory, Parsed

LEMMA ImportsOf ==
    ASSUME NEW r, NEW f \in Parsed(r)
    PROVE  Inventory(r)[f].imports = Places(r.text[f], {"import", "from"})
<1>1. Inventory(r)[f] = FileRecord(r.text[f])
  BY InventoryIs
<1>2. FileRecord(r.text[f]).imports = Places(r.text[f], {"import", "from"})
  BY DEF FileRecord
<1> QED
  BY <1>1, <1>2

LEMMA AltFiles == \A r : \A x \in AltNames(r) : x[2] \in Parsed(r)
<1> SUFFICES ASSUME NEW r, NEW x \in AltNames(r)
             PROVE  x[2] \in Parsed(r)
  OBVIOUS
<1> DEFINE pairs == {y \in (PathRoots(r) \ {<<>>}) \X Parsed(r) :
                       IsStrictPrefix(y[1], r.path[y[2]])}
           alt(y) == ModuleName(SubSeq(r.path[y[2]], Len(y[1]) + 1, Len(r.path[y[2]])))
<1>1. x \in {<<alt(y), y[2]>> : y \in pairs}
  BY DEF AltNames
<1> HIDE DEF alt
<1>2. PICK y \in pairs : x = <<alt(y), y[2]>>
  BY <1>1
<1>3. y[2] \in Parsed(r)
  OBVIOUS
<1> QED
  BY <1>2, <1>3

LEMMA ModuleFiles ==
    ASSUME NEW r, Readable(r)
    PROVE  \A m \in DOMAIN ModuleIndex(r) : ModuleIndex(r)[m] \in Parsed(r)
<1> DEFINE own(m) == {f \in Parsed(r) : ModuleName(r.path[f]) = m}
           alt(m) == {x[2] : x \in {y \in AltNames(r) : y[1] = m}}
           names  == {ModuleName(r.path[f]) : f \in Parsed(r)}
           extra  == {m \in {x[1] : x \in AltNames(r)} \ names : Cardinality(alt(m)) = 1}
<1>1. ModuleIndex(r)
        = [m \in names \cup extra |-> IF own(m) # {} THEN Max(own(m)) ELSE Max(alt(m))]
  BY DEF ModuleIndex
<1>2. ASSUME NEW S, S \subseteq Parsed(r), S # {}
      PROVE  Max(S) \in S
  <2>1. S \in SUBSET Files(r) /\ S \in SUBSET Nat
    BY <1>2 DEF Parsed, Readable
  <2>2. IsFiniteSet(S)
    BY <2>1, FS_Subset DEF Readable
  <2> QED
    BY <1>2, <2>1, <2>2, GreatestElement
<1>3. \A m : own(m) \subseteq Parsed(r) /\ alt(m) \subseteq Parsed(r)
  BY AltFiles
<1>4. \A m \in names \cup extra : own(m) # {} \/ alt(m) # {}
  OBVIOUS
<1> HIDE DEF own, alt, names, extra
<1>5. ASSUME NEW m \in names \cup extra
      PROVE  ModuleIndex(r)[m] \in Parsed(r)
  <2>1. CASE own(m) # {}
    <3>1. Max(own(m)) \in Parsed(r)
      BY <1>2, <1>3, <2>1
    <3> QED
      BY <1>1, <2>1, <3>1
  <2>2. CASE own(m) = {}
    <3>1. Max(alt(m)) \in Parsed(r)
      BY <1>2, <1>3, <1>4, <2>2
    <3> QED
      BY <1>1, <2>2, <3>1
  <2> QED
    BY <2>1, <2>2
<1>6. DOMAIN ModuleIndex(r) = names \cup extra
  BY <1>1
<1> QED
  BY <1>5, <1>6

-----------------------------------------------------------------------------
(* What an import brings in.                                               *)

(* A name is bound to definitions or to a file of the repository.          *)
Bound(r, b) == /\ b.targets \subseteq Definitions(r)
               /\ b.kind = "module" => b.file \in Parsed(r)

Ended(r, o) == /\ o.edge \in Parsed(r) \cup {NoFile}
               /\ o.edge # NoFile \/ o.binds \in {External, Nothing}
               /\ Bound(r, o.binds)

LEMMA OutcomeEnds ==
    ASSUME NEW r, NEW alias, NEW edge, NEW binds,
           edge \in Parsed(r) \cup {NoFile},
           edge # NoFile \/ binds \in {External, Nothing},
           Bound(r, binds)
    PROVE  Ended(r, Outcome(alias, edge, binds))
  BY DEF Ended, Outcome

LEMMA BindsNothing ==
    ASSUME NEW r
    PROVE  Bound(r, Nothing) /\ Bound(r, External)
  BY DEF Bound, Nothing, External

LEMMA BindsModule ==
    ASSUME NEW r, NEW f \in Parsed(r)
    PROVE  Bound(r, Module(f))
  BY DEF Bound, Module

LEMMA BindsSymbol ==
    ASSUME NEW r, NEW f \in Parsed(r), NEW D, D \subseteq Inventory(r)[f].defs
    PROVE  Bound(r, Symbol(InFile(f, D)))
<1>1. InFile(f, D) \subseteq Definitions(r)
  BY DEF InFile, Definitions
<1> QED
  BY <1>1 DEF Bound, Symbol

LEMMA ParsedIsFile ==
    ASSUME NEW r, Readable(r), NEW f \in Parsed(r)
    PROVE  f # NoFile
  BY DEF Readable, Parsed

LEMMA LongestPrefix ==
    ASSUME NEW s \in Seq(STRING), NEW P, P \subseteq Prefixes(s), P # {}
    PROVE  (CHOOSE p \in P : \A q \in P : Len(q) <= Len(p)) \in P
<1> DEFINE L == {Len(p) : p \in P}
<1>1. Len(s) \in Nat
  OBVIOUS
<1>2. \A p \in P : Len(p) \in 0 .. Len(s)
  <2> TAKE p \in P
  <2>1. PICK l \in 0 .. Len(s) : p = SubSeq(s, 1, l)
    BY DEF Prefixes
  <2>2. Len(SubSeq(s, 1, l)) = l
    BY <1>1
  <2> QED
    BY <2>1, <2>2
<1>3. L \subseteq 0 .. Len(s) /\ L # {}
  BY <1>2
<1> HIDE DEF L
<1>4. Max(L) \in L /\ \A y \in L : Max(L) >= y
  BY <1>1, <1>3, GreatestBelow
<1>5. PICK p \in P : Max(L) = Len(p)
  BY <1>4 DEF L
<1>6. \A q \in P : Len(q) <= Len(p)
  <2> TAKE q \in P
  <2>1. Len(q) \in L
    BY DEF L
  <2>2. Max(L) >= Len(q) /\ Len(q) \in Nat /\ Len(p) \in Nat
    BY <1>2, <1>4, <2>1
  <2> QED
    BY <1>5, <2>2
<1> QED
  BY <1>6

LEMMA ImportEnds ==
    ASSUME NEW r, Readable(r), NEW n, n.mod \in Seq(STRING)
    PROVE  Ended(r, ImportOutcome(ModuleIndex(r), n))
<1> DEFINE modules == ModuleIndex(r)
           known == {p \in Prefixes(n.mod) : p \in DOMAIN modules}
           alias == IF n.alias = NoName THEN Head(n.mod) ELSE n.alias
           longest == CHOOSE p \in known : \A q \in known : Len(q) <= Len(p)
<1>1. ImportOutcome(modules, n)
        = IF known # {} THEN Outcome(alias, modules[longest], Module(modules[longest]))
          ELSE IF ProbablyExternal(modules, n.mod) THEN Outcome(alias, NoFile, External)
          ELSE Outcome(alias, NoFile, Nothing)
  BY DEF ImportOutcome
<1>2. CASE known # {}
  <2>1. known \subseteq Prefixes(n.mod) /\ known \subseteq DOMAIN modules
    OBVIOUS
  <2>2. longest \in known
    <3> HIDE DEF known
    <3> QED
      BY <1>2, <2>1, LongestPrefix
  <2>3. modules[longest] \in Parsed(r)
    BY <2>1, <2>2, ModuleFiles
  <2> DEFINE file == modules[longest]
  <2> HIDE DEF longest, alias, modules, known, file
  <2>4. file \in Parsed(r) /\ file # NoFile /\ Bound(r, Module(file))
    BY <2>3, ParsedIsFile, BindsModule DEF file
  <2>5. Ended(r, Outcome(alias, file, Module(file)))
    BY <2>4, OutcomeEnds
  <2> QED
    BY <1>1, <1>2, <2>5 DEF file, modules
<1>3. CASE known = {}
  <2> HIDE DEF longest, alias, known
  <2>1. /\ Ended(r, Outcome(alias, NoFile, External))
        /\ Ended(r, Outcome(alias, NoFile, Nothing))
    BY BindsNothing, OutcomeEnds
  <2> QED
    BY <1>1, <1>3, <2>1
<1> QED
  BY <1>2, <1>3

LEMMA FromEnds ==
    ASSUME NEW r, Readable(r), NEW f, NEW n
    PROVE  Ended(r, FromOutcome(r, Inventory(r), ModuleIndex(r), f, n))
<1> DEFINE modules == ModuleIndex(r)
           m     == ModuleReference(r.path[f], n.level, n.mod)
           alias == IF n.alias = NoName THEN n.name ELSE n.alias
           file  == modules[m]
           named == {d \in Inventory(r)[file].defs : d.name = n.name}
           sub   == Append(m, n.name)
           binds == IF InFile(file, named) # {} THEN Symbol(InFile(file, named))
                    ELSE IF sub \in DOMAIN modules THEN Module(modules[sub])
                    ELSE Nothing
           out   == IF ProbablyExternal(modules, m) THEN External ELSE Nothing
<1>1. FromOutcome(r, Inventory(r), modules, f, n)
        = IF m \in DOMAIN modules THEN Outcome(alias, file, binds)
          ELSE Outcome(alias, NoFile, out)
  BY DEF FromOutcome
<1>2. named \subseteq Inventory(r)[file].defs
  OBVIOUS
<1>3. out \in {External, Nothing}
  OBVIOUS
<1> HIDE DEF m, alias, sub, named, out
<1>4. CASE m \in DOMAIN modules
  <2>1. file \in Parsed(r)
    BY <1>4, ModuleFiles
  <2>2. file # NoFile
    BY <2>1, ParsedIsFile
  <2>3. sub \in DOMAIN modules => modules[sub] \in Parsed(r)
    BY ModuleFiles
  <2> HIDE DEF file, modules
  <2>4. Bound(r, Symbol(InFile(file, named)))
    BY <1>2, <2>1, BindsSymbol
  <2>5. sub \in DOMAIN modules => Bound(r, Module(modules[sub]))
    BY <2>3, BindsModule
  <2>6. Bound(r, binds)
    BY <2>4, <2>5, BindsNothing
  <2> HIDE DEF binds
  <2>7. Ended(r, Outcome(alias, file, binds))
    BY <2>1, <2>2, <2>6, OutcomeEnds
  <2> QED
    BY <1>1, <1>4, <2>7 DEF modules
<1>5. CASE m \notin DOMAIN modules
  <2> HIDE DEF file, modules, binds
  <2>1. Bound(r, out)
    BY <1>3, BindsNothing
  <2>2. Ended(r, Outcome(alias, NoFile, out))
    BY <1>3, <2>1, OutcomeEnds
  <2> QED
    BY <1>1, <1>5, <2>2 DEF modules
<1> QED
  BY <1>4, <1>5

LEMMA IndexIs ==
    ASSUME NEW r
    PROVE  /\ Index(r).inv = Inventory(r) /\ Index(r).parsed = Parsed(r)
           /\ Index(r).text = r.text
           /\ DOMAIN Index(r).imports = Parsed(r)
           /\ \A f \in Parsed(r) :
                /\ DOMAIN Index(r).imports[f] = Inventory(r)[f].imports
                /\ \A i \in Inventory(r)[f].imports :
                     Index(r).imports[f][i]
                       = IF r.text[f][i].node.kind = "import"
                         THEN ImportOutcome(ModuleIndex(r), r.text[f][i].node)
                         ELSE FromOutcome(r, Inventory(r), ModuleIndex(r), f,
                                          r.text[f][i].node)
  BY DEF Index

(* Every import brings in what the repository has, or nothing.             *)
LEMMA ImportsEnd ==
    ASSUME NEW r, Readable(r), NEW f \in Parsed(r), NEW i \in Inventory(r)[f].imports
    PROVE  Ended(r, Index(r).imports[f][i])
<1> DEFINE n == r.text[f][i].node
<1>1. IsText(r.text[f])
  BY DEF Readable, Parsed
<1>2. i \in DOMAIN r.text[f]
  BY ImportsOf DEF Places
<1>3. n \in Node
  BY <1>1, <1>2, TextIs
<1>4. Index(r).imports[f][i]
        = IF n.kind = "import" THEN ImportOutcome(ModuleIndex(r), n)
          ELSE FromOutcome(r, Inventory(r), ModuleIndex(r), f, n)
  BY IndexIs
<1> HIDE DEF n
<1>5. n.kind = "import" => Ended(r, ImportOutcome(ModuleIndex(r), n))
  BY <1>3, NodeNames, ImportEnds
<1>6. Ended(r, FromOutcome(r, Inventory(r), ModuleIndex(r), f, n))
  BY FromEnds
<1> QED
  BY <1>4, <1>5, <1>6

LEMMA AliasBound ==
    ASSUME NEW r, Readable(r), NEW f \in Parsed(r), NEW name
    PROVE  Bound(r, AliasOf(Index(r), f, name))
<1> DEFINE binding == {i \in Inventory(r)[f].imports :
                         /\ Index(r).imports[f][i].alias = name
                         /\ Index(r).imports[f][i].binds.kind # "none"}
<1>1. AliasOf(Index(r), f, name)
        = IF binding = {} THEN Nothing ELSE Index(r).imports[f][Max(binding)].binds
  BY IndexIs DEF AliasOf
<1>2. binding \subseteq Inventory(r)[f].imports
  OBVIOUS
<1>3. IsText(r.text[f])
  BY DEF Readable, Parsed
<1>4. Len(r.text[f]) \in Nat /\ binding \subseteq 0 .. Len(r.text[f])
  <2>1. Len(r.text[f]) \in Nat /\ DOMAIN r.text[f] = 1 .. Len(r.text[f])
    BY <1>3, TextIs
  <2>2. binding \subseteq DOMAIN r.text[f]
    BY ImportsOf DEF Places
  <2> QED
    BY <2>1, <2>2
<1> HIDE DEF binding
<1>5. CASE binding # {}
  <2>1. Max(binding) \in Inventory(r)[f].imports
    BY <1>2, <1>4, <1>5, GreatestBelow
  <2>2. Ended(r, Index(r).imports[f][Max(binding)])
    BY <2>1, ImportsEnd
  <2> QED
    BY <1>1, <1>5, <2>2 DEF Ended
<1>6. CASE binding = {}
  BY <1>1, <1>6, BindsNothing
<1> QED
  BY <1>5, <1>6

-----------------------------------------------------------------------------
(* What a call is attributed to.                                           *)

LEMMA OneIsMember ==
    ASSUME NEW S, Cardinality(S) = 1
    PROVE  (CHOOSE x \in S : TRUE) \in S
<1>1. S # {}
  BY FS_EmptySet
<1> QED
  BY <1>1

LEMMA OnlyOfThem ==
    ASSUME NEW S, NEW how, NEW several
    PROVE  OnlyOf(S, how, several).to \subseteq S
<1>1. CASE Cardinality(S) = 1
  <2>1. (CHOOSE x \in S : TRUE) \in S
    BY <1>1, OneIsMember
  <2> QED
    BY <1>1, <2>1 DEF OnlyOf, Attributed
<1>2. CASE Cardinality(S) # 1
  BY <1>2 DEF OnlyOf, Missed
<1> QED
  BY <1>1, <1>2

LEMMA MissedNone == \A how : Missed(how).to = {}
  BY DEF Missed

LEMMA NamedDefined ==
    ASSUME NEW r, NEW f \in Parsed(r), NEW name
    PROVE  /\ Named(Index(r), f, name) \subseteq Definitions(r)
           /\ Methods(Index(r), f, name) \subseteq Definitions(r)
<1>1. Index(r).inv = Inventory(r)
  BY IndexIs
<1>2. Named(Index(r), f, name) \subseteq InFile(f, Inventory(r)[f].defs)
  BY <1>1 DEF Named, InFile
<1>3. Named(Index(r), f, name) \subseteq Definitions(r)
  BY <1>2 DEF Definitions
<1> QED
  BY <1>3 DEF Methods

LEMMA AllNamedDefined ==
    ASSUME NEW r, NEW name
    PROVE  AllNamed(Index(r), name) \subseteq Definitions(r)
<1>1. Index(r).parsed = Parsed(r)
  BY IndexIs
<1> QED
  BY <1>1, NamedDefined DEF AllNamed

LEMMA NameResolves ==
    ASSUME NEW r, Readable(r), NEW f \in Parsed(r), NEW name
    PROVE  ResolveName(Index(r), f, name).to \subseteq Definitions(r)
<1> DEFINE here  == Named(Index(r), f, name)
           alias == AliasOf(Index(r), f, name)
           there == AllNamed(Index(r), name)
<1>1. /\ here \subseteq Definitions(r) /\ there \subseteq Definitions(r)
      /\ alias.targets \subseteq Definitions(r)
  BY NamedDefined, AllNamedDefined, AliasBound DEF Bound
<1>2. \/ ResolveName(Index(r), f, name) = OnlyOf(here, "local_symbol", "ambiguous_local_symbol")
      \/ ResolveName(Index(r), f, name)
           = OnlyOf(alias.targets, "imported_symbol", "imported_symbol")
      \/ ResolveName(Index(r), f, name) = Missed(alias.kind)
      \/ ResolveName(Index(r), f, name)
           = OnlyOf(there, "global_unique_symbol", "ambiguous_global_symbol")
      \/ ResolveName(Index(r), f, name) = Missed("unresolved")
  BY DEF ResolveName
<1> HIDE DEF here, alias, there
<1>3. /\ OnlyOf(here, "local_symbol", "ambiguous_local_symbol").to \subseteq here
      /\ OnlyOf(alias.targets, "imported_symbol", "imported_symbol").to
           \subseteq alias.targets
      /\ OnlyOf(there, "global_unique_symbol", "ambiguous_global_symbol").to
           \subseteq there
  BY OnlyOfThem
<1>4. Missed(alias.kind).to = {} /\ Missed("unresolved").to = {}
  BY MissedNone
<1> QED
  BY <1>1, <1>2, <1>3, <1>4

LEMMA DottedResolves ==
    ASSUME NEW r, Readable(r), NEW f \in Parsed(r), NEW name
    PROVE  ResolveDotted(Index(r), f, name).to \subseteq Definitions(r)
<1> DEFINE ix    == Index(r)
           alias == AliasOf(ix, f, Head(name))
           here  == Named(ix, f, Head(name))
           there == Methods(ix, alias.file, Last(name))
           symbols == Named(ix, alias.file, Last(name))
           methods == Methods(ix, f, Last(name))
           out   == ResolveDotted(ix, f, name)
<1>1. /\ here \subseteq Definitions(r) /\ methods \subseteq Definitions(r)
      /\ alias.targets \subseteq Definitions(r)
      /\ alias.kind = "module" => alias.file \in Parsed(r)
  BY NamedDefined, AliasBound DEF Bound
<1>2. alias.kind = "module" => there \subseteq Definitions(r) /\ symbols \subseteq Definitions(r)
  BY <1>1, NamedDefined
<1>3. \/ /\ alias.kind = "module"
         /\ \/ out = OnlyOf(there, "imported_module_method", "")
            \/ out = OnlyOf(symbols, "imported_module_symbol",
                            "external_or_unresolved_module_attr")
      \/ out = OnlyOf(alias.targets, "imported_symbol_attr_base", "imported_symbol")
      \/ out = OnlyOf(methods, "same_file_method", "")
      \/ out = OnlyOf(here, "same_file_symbol_base", "ambiguous_local_symbol")
      \/ out = Missed("unresolved")
  BY Zenon DEF ResolveDotted
<1> HIDE DEF ix, alias, here, there, symbols, methods, out
<1>4. /\ \A S, how, several : OnlyOf(S, how, several).to \subseteq S
      /\ Missed("unresolved").to = {}
  BY OnlyOfThem, MissedNone
<1> QED
  BY <1>1, <1>2, <1>3, <1>4, Zenon DEF out, ix

LEMMA CallResolves ==
    ASSUME NEW r, Readable(r), NEW f \in Parsed(r), NEW name
    PROVE  ResolveCall(Index(r), f, name).to \subseteq Definitions(r)
<1>1. \/ ResolveCall(Index(r), f, name) = Missed("builtin")
      \/ ResolveCall(Index(r), f, name) = ResolveName(Index(r), f, Head(name))
      \/ ResolveCall(Index(r), f, name) = ResolveDotted(Index(r), f, name)
  BY DEF ResolveCall
<1> QED
  BY <1>1, MissedNone, NameResolves, DottedResolves

LEMMA HintedDefined ==
    ASSUME NEW r, NEW f, NEW scope, NEW name
    PROVE  /\ ByHint(Index(r), f, scope, name) \subseteq Definitions(r)
           /\ ByAttribute(Index(r), scope, name) \subseteq Definitions(r)
<1>1. \A class, method : MethodsOfClass(Index(r), class, method) \subseteq Definitions(r)
  <2> TAKE class, method
  <2>1. ClassFiles(Index(r), class) \subseteq Parsed(r)
    BY IndexIs DEF ClassFiles
  <2> QED
    BY <2>1, NamedDefined DEF MethodsOfClass
<1>2. ByHint(Index(r), f, scope, name) \subseteq Definitions(r)
  BY <1>1 DEF ByHint
<1>3. ByAttribute(Index(r), scope, name) \subseteq Definitions(r)
  BY <1>1 DEF ByAttribute
<1> QED
  BY <1>2, <1>3

(* A call is attributed to definitions of files that parse.                *)
LEMMA CallEnds ==
    ASSUME NEW r, Readable(r), NEW f \in Parsed(r), NEW c
    PROVE  CallOutcome(Index(r), f, c).to \subseteq Definitions(r)
<1> DEFINE ix    == Index(r)
           first == ResolveCall(ix, f, c.name)
           hint  == Hint(ix, f, c.scope, Head(c.name))
           guess == IF Len(c.name) > 1 THEN ByHint(ix, f, c.scope, c.name) ELSE {}
           attr  == ByAttribute(ix, c.scope, c.name)
           outside == first.how = "builtin" \/ AliasOf(ix, f, Head(c.name)) = External
           how   == IF outside THEN "outside" ELSE Category(first.how, hint, c.name)
<1>1. \/ CallOutcome(ix, f, c) = first
      \/ CallOutcome(ix, f, c) = OnlyOf(guess, "variable_hint", "")
      \/ CallOutcome(ix, f, c) = OnlyOf(attr, "attribute_type", "")
      \/ CallOutcome(ix, f, c) = Missed(how)
  BY Zenon DEF CallOutcome
<1>2. /\ first.to \subseteq Definitions(r) /\ guess \subseteq Definitions(r)
      /\ attr \subseteq Definitions(r)
  BY CallResolves, HintedDefined
<1> HIDE DEF ix, first, guess, attr, how
<1>3. /\ OnlyOf(guess, "variable_hint", "").to \subseteq guess
      /\ OnlyOf(attr, "attribute_type", "").to \subseteq attr
      /\ Missed(how).to = {}
  BY OnlyOfThem, MissedNone
<1> QED
  BY <1>1, <1>2, <1>3, Zenon DEF ix

-----------------------------------------------------------------------------
(* The relation map.                                                       *)

(* The calls of a repository with how they end.                            *)
CallsOf(r) ==
    UNION {{[file |-> f, call |-> c, end |-> CallOutcome(Index(r), f, c)] :
              c \in Index(r).inv[f].calls} : f \in Index(r).parsed}

CallEdge(r, x) ==
    Edge("calls", SourceNode(Index(r), x.file, x.call.scope),
         NodeId(CHOOSE y \in x.end.to : TRUE), x.file, x.call.at)

Resolved(r) == {CallEdge(r, x) : x \in {y \in CallsOf(r) : y.end.to # {}}}

Written(r) ==
    UNION {ContainsEdges(Index(r), f) \cup ImportEdges(Index(r), f) : f \in Parsed(r)}

FileNodes(r) ==
    {[id |-> FileNode(f), file |-> f, type |-> "file", name |-> NoName, at |-> 0] :
       f \in Parsed(r)}

DefNodes(r, f) ==
    {[id |-> NodeId(x), file |-> f, type |-> x.def.type, name |-> x.def.name,
      at |-> x.def.at] : x \in InFile(f, Inventory(r)[f].defs)}

LEMMA NodesAre ==
    ASSUME NEW r
    PROVE  BuildRelationMap(r).nodes = FileNodes(r) \cup UNION {DefNodes(r, f) : f \in Parsed(r)}
<1>1. Index(r).inv = Inventory(r) /\ Index(r).parsed = Parsed(r)
  BY IndexIs
<1>2. BuildRelationMap(r).nodes
        = {[id |-> FileNode(f), file |-> f, type |-> "file", name |-> NoName, at |-> 0] :
             f \in Index(r).parsed}
          \cup UNION {{[id |-> NodeId(x), file |-> f, type |-> x.def.type,
                        name |-> x.def.name, at |-> x.def.at] :
                       x \in InFile(f, Index(r).inv[f].defs)} : f \in Index(r).parsed}
  BY DEF BuildRelationMap
<1> QED
  BY <1>1, <1>2 DEF FileNodes, DefNodes

LEMMA EdgesAre ==
    ASSUME NEW r
    PROVE  BuildRelationMap(r).edges = Resolved(r) \cup Written(r)
<1>1. Index(r).parsed = Parsed(r)
  BY IndexIs
<1>2. BuildRelationMap(r).edges
        = Resolved(r)
          \cup UNION {ContainsEdges(Index(r), f) \cup ImportEdges(Index(r), f) :
                       f \in Index(r).parsed}
  BY DEF BuildRelationMap, Resolved, CallsOf, CallEdge
<1> QED
  BY <1>1, <1>2 DEF Written

LEMMA MapNodes ==
    ASSUME NEW r
    PROVE  /\ \A n \in BuildRelationMap(r).nodes : n.file \in Parsed(r)
           /\ \A f \in Parsed(r) : Known(BuildRelationMap(r), FileNode(f))
           /\ \A x \in Definitions(r) : Known(BuildRelationMap(r), NodeId(x))
<1> DEFINE nodes == BuildRelationMap(r).nodes
<1>1. nodes = FileNodes(r) \cup UNION {DefNodes(r, f) : f \in Parsed(r)}
  BY NodesAre
<1> HIDE DEF nodes
<1>2. \A n \in nodes : n.file \in Parsed(r)
  BY <1>1 DEF FileNodes, DefNodes
<1>3. ASSUME NEW f \in Parsed(r)
      PROVE  \E n \in nodes : n.id = FileNode(f)
  <2> DEFINE n == [id |-> FileNode(f), file |-> f, type |-> "file", name |-> NoName,
                   at |-> 0]
  <2>1. n \in FileNodes(r)
    BY DEF FileNodes
  <2>2. n.id = FileNode(f)
    OBVIOUS
  <2> HIDE DEF n
  <2> QED
    BY <1>1, <2>1, <2>2
<1>4. ASSUME NEW x \in Definitions(r)
      PROVE  \E n \in nodes : n.id = NodeId(x)
  <2>1. PICK f \in Parsed(r) : x \in InFile(f, Inventory(r)[f].defs)
    BY DEF Definitions
  <2> DEFINE n == [id |-> NodeId(x), file |-> f, type |-> x.def.type,
                   name |-> x.def.name, at |-> x.def.at]
  <2>2. n \in DefNodes(r, f)
    BY <2>1 DEF DefNodes
  <2>3. n.id = NodeId(x)
    OBVIOUS
  <2> HIDE DEF n
  <2> QED
    BY <1>1, <2>2, <2>3
<1> QED
  BY <1>2, <1>3, <1>4 DEF nodes, Known

(* A node that is there is of a file that parses.                          *)
LEMMA KnownFile ==
    ASSUME NEW r, NEW id, Known(BuildRelationMap(r), id)
    PROVE  FileOf(BuildRelationMap(r), id) \in Parsed(r)
<1> DEFINE nodes == BuildRelationMap(r).nodes
<1>1. \E n \in nodes : n.id = id
  BY DEF Known
<1>2. (CHOOSE n \in nodes : n.id = id) \in nodes
  BY <1>1
<1>3. \A n \in nodes : n.file \in Parsed(r)
  BY MapNodes
<1> HIDE DEF nodes
<1> QED
  BY <1>2, <1>3 DEF FileOf, nodes

(* The class that a method is contained in is defined next to it.          *)
LEMMA ClassOfMethod ==
    ASSUME NEW r, Readable(r), NEW f \in Parsed(r), NEW d \in Inventory(r)[f].defs,
           d.type = "method"
    PROVE  \E k \in Inventory(r)[f].defs :
             NodeId([file |-> f, def |-> k])
               = <<"class", f, Front(d.scope), Last(d.scope)[2]>>
<1> DEFINE text == r.text[f]
           body == Bodies(text)
<1>1. IsText(text)
  BY DEF Readable, Parsed
<1>2. Inventory(r)[f].defs
        = {[at |-> i, type |-> TypeOfDef(text, i), name |-> text[i].node.name,
            scope |-> body[text[i].up]] : i \in Places(text, {"def", "class"})}
  <2>1. Inventory(r)[f] = FileRecord(text)
    BY InventoryIs
  <2>2. FileRecord(text).defs
          = {[at |-> i, type |-> TypeOfDef(text, i), name |-> text[i].node.name,
              scope |-> body[text[i].up]] : i \in Places(text, {"def", "class"})}
    BY DEF FileRecord
  <2> QED
    BY <2>1, <2>2
<1> HIDE DEF text
<1>3. PICK i \in Places(text, {"def", "class"}) :
        d = [at |-> i, type |-> TypeOfDef(text, i), name |-> text[i].node.name,
             scope |-> body[text[i].up]]
  BY <1>2
<1> DEFINE up == text[i].up
<1>4. up # 0 /\ text[up].node.kind = "class"
  BY <1>3 DEF TypeOfDef
<1>5. up \in DOMAIN text
  <2>1. i \in DOMAIN text
    BY DEF Places
  <2>2. up \in 0 .. Len(text) /\ DOMAIN text = 1 .. Len(text)
    BY <1>1, <2>1, TextIs
  <2> QED
    BY <1>4, <2>2
<1> DEFINE k == [at |-> up, type |-> TypeOfDef(text, up), name |-> text[up].node.name,
                 scope |-> body[text[up].up]]
<1>6. k \in Inventory(r)[f].defs
  BY <1>2, <1>4, <1>5 DEF Places
<1>7. TypeOfDef(text, up) = "class"
  BY <1>4 DEF TypeOfDef
<1>8. body[up] = Append(body[text[up].up], <<"class", text[up].node.name>>)
      /\ body[text[up].up] \in Seq(Frame)
  <2>1. up \in 0 .. Len(text) /\ text[up].up \in 0 .. Len(text)
    BY <1>1, <1>5, TextIs
  <2>2. body[up] = BodyOf(text, body, up) /\ body[text[up].up] \in Seq(Frame)
    BY <1>1, <2>1, BodiesEquation
  <2> QED
    BY <1>4, <2>2, Zenon DEF BodyOf
<1> DEFINE outer == body[text[up].up]
           frame == <<"class", text[up].node.name>>
<1>9. Front(Append(outer, frame)) = outer /\ Last(Append(outer, frame)) = frame
  <2> HIDE DEF frame, outer
  <2>1. outer \in Seq(Frame)
    BY <1>8, Zenon DEF outer
  <2> QED
    BY <2>1 DEF Front, Last
<1>10. d.scope = Append(outer, frame)
  BY <1>3, <1>8, Zenon
<1>11. Front(d.scope) = outer /\ Last(d.scope)[2] = text[up].node.name
  <2>1. frame[2] = text[up].node.name
    OBVIOUS
  <2> HIDE DEF outer, frame
  <2> QED
    BY ONLY <1>9, <1>10, <2>1
<1>12. NodeId([file |-> f, def |-> k]) = <<"class", f, outer, text[up].node.name>>
  BY <1>7 DEF NodeId
<1> QED
  BY <1>6, <1>11, <1>12, Zenon

-----------------------------------------------------------------------------
(* The ends of the edges.                                                  *)

LEMMA EdgeIs ==
    ASSUME NEW type, NEW from, NEW to, NEW file, NEW at
    PROVE  LET e == Edge(type, from, to, file, at)
           IN  e.type = type /\ e.from = from /\ e.to = to /\ e.at = <<file, at>>
  BY DEF Edge

(* Both ends are nodes.                                                    *)
Joined(r, e) == /\ Known(BuildRelationMap(r), e.from)
                /\ Known(BuildRelationMap(r), e.to)

LEMMA SourceKnown ==
    ASSUME NEW r, NEW f \in Parsed(r), NEW scope
    PROVE  Known(BuildRelationMap(r), SourceNode(Index(r), f, scope))
<1> DEFINE here == {x \in InFile(f, Index(r).inv[f].defs) :
                      Append(x.def.scope,
                             <<IF x.def.type = "class" THEN "class" ELSE "def", x.def.name>>)
                        = scope}
           first == IF \E x \in here : x.def.type = "method"
                    THEN {x \in here : x.def.type = "method"} ELSE here
<1>1. SourceNode(Index(r), f, scope)
        = IF here = {} THEN FileNode(f) ELSE NodeId(CHOOSE x \in first : TRUE)
  BY DEF SourceNode
<1>2. here \subseteq Definitions(r)
  <2>1. Index(r).inv = Inventory(r)
    BY IndexIs
  <2> QED
    BY <2>1 DEF Definitions
<1>3. first \subseteq here /\ (here # {} => first # {})
  <2> HIDE DEF here
  <2> QED
    OBVIOUS
<1> HIDE DEF here, first
<1>4. CASE here = {}
  BY <1>1, <1>4, MapNodes
<1>5. CASE here # {}
  <2>1. (CHOOSE x \in first : TRUE) \in Definitions(r)
    <3>1. (CHOOSE x \in first : TRUE) \in first
      BY <1>3, <1>5
    <3> QED
      BY <1>2, <1>3, <3>1
  <2> QED
    BY <1>1, <1>5, <2>1, MapNodes
<1> QED
  BY <1>4, <1>5

LEMMA DefinedKnown ==
    ASSUME NEW r, NEW f \in Parsed(r), NEW d \in Inventory(r)[f].defs
    PROVE  Known(BuildRelationMap(r), NodeId([file |-> f, def |-> d]))
<1>1. [file |-> f, def |-> d] \in Definitions(r)
  BY DEF Definitions, InFile
<1> QED
  BY <1>1, MapNodes

LEMMA ContainsJoined ==
    ASSUME NEW r, Readable(r), NEW f \in Parsed(r), NEW e \in ContainsEdges(Index(r), f)
    PROVE  e.type = "contains" /\ Joined(r, e)
<1> DEFINE from(d) == IF d.type = "method"
                      THEN <<"class", f, Front(d.scope), Last(d.scope)[2]>> ELSE FileNode(f)
           to(d)   == NodeId([file |-> f, def |-> d])
<1>1. PICK d \in Inventory(r)[f].defs : e = Edge("contains", from(d), to(d), f, d.at)
  BY IndexIs DEF ContainsEdges
<1>2. Known(BuildRelationMap(r), from(d))
  <2>1. CASE d.type = "method"
    <3>1. PICK k \in Inventory(r)[f].defs :
            NodeId([file |-> f, def |-> k])
              = <<"class", f, Front(d.scope), Last(d.scope)[2]>>
      BY <2>1, ClassOfMethod
    <3>2. Known(BuildRelationMap(r), NodeId([file |-> f, def |-> k]))
      BY DefinedKnown
    <3> QED
      BY <2>1, <3>1, <3>2
  <2>2. CASE d.type # "method"
    BY <2>2, MapNodes
  <2> QED
    BY <2>1, <2>2
<1>3. Known(BuildRelationMap(r), to(d))
  BY DefinedKnown
<1> HIDE DEF from, to
<1>4. e.type = "contains" /\ e.from = from(d) /\ e.to = to(d)
  BY <1>1, EdgeIs
<1> QED
  BY <1>2, <1>3, <1>4 DEF Joined

LEMMA ImportEdgesAre ==
    ASSUME NEW r, Readable(r), NEW f \in Parsed(r)
    PROVE  /\ \A e \in ImportEdges(Index(r), f) : e.type = "imports" /\ Joined(r, e)
           /\ \A i \in Inventory(r)[f].imports :
                Index(r).imports[f][i].edge # NoFile =>
                  \E e \in ImportEdges(Index(r), f) : e.at = <<f, i>>
<1> DEFINE edge(i) == Index(r).imports[f][i].edge
           drawn   == {j \in Inventory(r)[f].imports : edge(j) # NoFile}
           E(i)    == Edge("imports", FileNode(f), FileNode(edge(i)), f, i)
<1>1. ImportEdges(Index(r), f) = {E(i) : i \in drawn}
  BY IndexIs DEF ImportEdges
<1>2. \A i \in drawn : edge(i) \in Parsed(r)
  BY ImportsEnd DEF Ended
<1>3. \A i \in drawn : E(i).type = "imports" /\ E(i).at = <<f, i>>
                       /\ E(i).from = FileNode(f) /\ E(i).to = FileNode(edge(i))
  BY EdgeIs
<1> HIDE DEF E
<1>4. ASSUME NEW e \in ImportEdges(Index(r), f)
      PROVE  e.type = "imports" /\ Joined(r, e)
  <2>1. PICK i \in drawn : e = E(i)
    BY <1>1
  <2>2. /\ Known(BuildRelationMap(r), FileNode(f))
        /\ Known(BuildRelationMap(r), FileNode(edge(i)))
    BY <1>2, MapNodes
  <2> QED
    BY <1>3, <2>1, <2>2 DEF Joined
<1>5. ASSUME NEW i \in Inventory(r)[f].imports, edge(i) # NoFile
      PROVE  \E e \in ImportEdges(Index(r), f) : e.at = <<f, i>>
  <2>1. i \in drawn
    BY <1>5
  <2> QED
    BY <1>1, <1>3, <2>1
<1> QED
  BY <1>4, <1>5

LEMMA CallsAre ==
    ASSUME NEW r
    PROVE  /\ \A x \in CallsOf(r) :
                /\ x.file \in Parsed(r) /\ x.call \in Inventory(r)[x.file].calls
                /\ x = [file |-> x.file, call |-> x.call,
                        end |-> CallOutcome(Index(r), x.file, x.call)]
           /\ \A f \in Parsed(r) : \A c \in Inventory(r)[f].calls :
                [file |-> f, call |-> c, end |-> CallOutcome(Index(r), f, c)] \in CallsOf(r)
<1> DEFINE R(f, c) == [file |-> f, call |-> c, end |-> CallOutcome(Index(r), f, c)]
<1>1. CallsOf(r) = UNION {{R(f, c) : c \in Inventory(r)[f].calls} : f \in Parsed(r)}
  BY IndexIs DEF CallsOf
<1>2. \A f, c : /\ R(f, c).file = f /\ R(f, c).call = c
                /\ R(f, c) = R(R(f, c).file, R(f, c).call)
  OBVIOUS
<1> HIDE DEF R
<1>3. ASSUME NEW x \in CallsOf(r)
      PROVE  /\ x.file \in Parsed(r) /\ x.call \in Inventory(r)[x.file].calls
             /\ x = R(x.file, x.call)
  <2>1. PICK f \in Parsed(r) : \E c \in Inventory(r)[f].calls : x = R(f, c)
    BY <1>1
  <2>2. PICK c \in Inventory(r)[f].calls : x = R(f, c)
    BY <2>1
  <2> QED
    BY <1>2, <2>2
<1>4. \A f \in Parsed(r) : \A c \in Inventory(r)[f].calls : R(f, c) \in CallsOf(r)
  BY <1>1
<1> QED
  BY <1>3, <1>4 DEF R

(* The call edges have the calls that were attributed.                     *)
LEMMA ResolvedIs ==
    ASSUME NEW r, Readable(r), NEW x \in CallsOf(r), x.end.to # {}
    PROVE  /\ CallEdge(r, x).type = "calls" /\ Joined(r, CallEdge(r, x))
           /\ CallEdge(r, x).at = <<x.file, x.call.at>>
           /\ Definitions(r) # {}
<1>1. /\ x.file \in Parsed(r)
      /\ x = [file |-> x.file, call |-> x.call,
              end |-> CallOutcome(Index(r), x.file, x.call)]
  BY CallsAre
<1>2. x.end = CallOutcome(Index(r), x.file, x.call)
  BY <1>1
<1>3. x.end.to \subseteq Definitions(r)
  BY <1>1, <1>2, CallEnds
<1>4. (CHOOSE y \in x.end.to : TRUE) \in Definitions(r)
  <2>1. (CHOOSE y \in x.end.to : TRUE) \in x.end.to
    OBVIOUS
  <2> QED
    BY <1>3, <2>1
<1>5. /\ Known(BuildRelationMap(r), SourceNode(Index(r), x.file, x.call.scope))
      /\ Known(BuildRelationMap(r), NodeId(CHOOSE y \in x.end.to : TRUE))
  BY <1>1, <1>4, SourceKnown, MapNodes
<1>6. /\ CallEdge(r, x).type = "calls"
      /\ CallEdge(r, x).from = SourceNode(Index(r), x.file, x.call.scope)
      /\ CallEdge(r, x).to = NodeId(CHOOSE y \in x.end.to : TRUE)
      /\ CallEdge(r, x).at = <<x.file, x.call.at>>
  BY EdgeIs DEF CallEdge
<1> QED
  BY <1>4, <1>5, <1>6 DEF Joined

(* Every edge of a relation map joins two of its nodes.                    *)
THEOREM EdgesJoinNodes ==
    ASSUME NEW r, Readable(r), NEW e \in BuildRelationMap(r).edges
    PROVE  /\ Joined(r, e)
           /\ e.type = "calls" <=> e \in Resolved(r)
           /\ e.type = "imports" <=> \E f \in Parsed(r) : e \in ImportEdges(Index(r), f)
<1>1. CASE e \in Resolved(r)
  <2>1. PICK x \in CallsOf(r) : x.end.to # {} /\ e = CallEdge(r, x)
    BY <1>1 DEF Resolved
  <2>2. e.type = "calls" /\ Joined(r, e)
    BY <2>1, ResolvedIs
  <2>3. \A f \in Parsed(r) : \A g \in ImportEdges(Index(r), f) : g.type = "imports"
    BY ImportEdgesAre
  <2> QED
    BY <1>1, <2>2, <2>3
<1>2. ASSUME NEW f \in Parsed(r), e \in ContainsEdges(Index(r), f)
      PROVE  e.type = "contains" /\ Joined(r, e)
  BY <1>2, ContainsJoined
<1>3. ASSUME NEW f \in Parsed(r), e \in ImportEdges(Index(r), f)
      PROVE  e.type = "imports" /\ Joined(r, e)
  BY <1>3, ImportEdgesAre
<1>4. \/ e \in Resolved(r)
      \/ \E f \in Parsed(r) : e \in ContainsEdges(Index(r), f) \cup ImportEdges(Index(r), f)
  BY EdgesAre DEF Written
<1>5. e \in Resolved(r) => e.type = "calls"
  <2> SUFFICES ASSUME e \in Resolved(r) PROVE e.type = "calls"
    OBVIOUS
  <2>1. PICK x \in CallsOf(r) : x.end.to # {} /\ e = CallEdge(r, x)
    BY DEF Resolved
  <2> QED
    BY <2>1, ResolvedIs
<1> QED
  BY <1>1, <1>2, <1>3, <1>4, <1>5

LEMMA CallEdgesAre ==
    ASSUME NEW r, Readable(r)
    PROVE  CallEdges(BuildRelationMap(r)) = Resolved(r)
  BY EdgesJoinNodes, EdgesAre DEF CallEdges

-----------------------------------------------------------------------------
(* Every call and every import is accounted for.                           *)

(* What is recorded of the call in a node.                                 *)
CallAt(text, i) ==
    [at |-> i, scope |-> Bodies(text)[text[i].up],
     name |-> IF text[i].node.kind = "call" THEN text[i].node.called
              ELSE text[i].node.value]

LEMMA CallIsAt ==
    ASSUME NEW r, NEW f \in Parsed(r), NEW c \in Inventory(r)[f].calls
    PROVE  /\ c.at \in DOMAIN r.text[f]
           /\ c = CallAt(r.text[f], c.at)
<1> DEFINE text == r.text[f]
           scope(i) == Bodies(text)[text[i].up]
           sets == {j \in Places(text, {"assign"}) : text[j].node.from = "call"}
           P(i, name) == [at |-> i, scope |-> scope(i), name |-> name]
<1>1. Inventory(r)[f].calls
        = {P(i, text[i].node.called) : i \in Places(text, {"call"})}
          \cup {P(i, text[i].node.value) : i \in sets}
  <2>1. Inventory(r)[f] = FileRecord(text)
    BY InventoryIs
  <2>2. FileRecord(text).calls
          = {P(i, text[i].node.called) : i \in Places(text, {"call"})}
            \cup {P(i, text[i].node.value) : i \in sets}
    BY DEF FileRecord
  <2> QED
    BY <2>1, <2>2, Zenon
<1>2. /\ \A i \in Places(text, {"call"}) : i \in DOMAIN text /\ text[i].node.kind = "call"
      /\ \A i \in sets : i \in DOMAIN text /\ text[i].node.kind = "assign"
  BY DEF Places
<1>3. \A i, name : P(i, name).at = i
  OBVIOUS
<1> HIDE DEF text, sets
<1>4. CASE \E i \in Places(text, {"call"}) : c = P(i, text[i].node.called)
  <2>1. PICK i \in Places(text, {"call"}) : c = P(i, text[i].node.called)
    BY <1>4
  <2>2. c.at = i /\ i \in DOMAIN text /\ text[i].node.kind = "call"
    BY <1>2, <2>1
  <2> QED
    BY <2>1, <2>2 DEF text, CallAt
<1>5. CASE \E i \in sets : c = P(i, text[i].node.value)
  <2>1. PICK i \in sets : c = P(i, text[i].node.value)
    BY <1>5
  <2>2. c.at = i /\ i \in DOMAIN text /\ text[i].node.kind = "assign"
    BY <1>2, <2>1
  <2> QED
    BY <2>1, <2>2 DEF text, CallAt
<1> HIDE DEF P
<1> QED
  BY <1>1, <1>4, <1>5

(* A place of a file holds one call.                                       *)
LEMMA OneCallAtAPlace ==
    ASSUME NEW r, NEW x \in CallsOf(r), NEW y \in CallsOf(r),
           <<x.file, x.call.at>> = <<y.file, y.call.at>>
    PROVE  x = y
<1>1. x.file = y.file /\ x.call.at = y.call.at
  OBVIOUS
<1>2. /\ x.file \in Parsed(r)
      /\ x.call \in Inventory(r)[x.file].calls /\ y.call \in Inventory(r)[x.file].calls
      /\ x = [file |-> x.file, call |-> x.call,
              end |-> CallOutcome(Index(r), x.file, x.call)]
      /\ y = [file |-> x.file, call |-> y.call,
              end |-> CallOutcome(Index(r), x.file, y.call)]
  BY <1>1, CallsAre
<1>3. x.call = CallAt(r.text[x.file], x.call.at)
  BY <1>2, CallIsAt
<1>4. y.call = CallAt(r.text[x.file], y.call.at)
  BY <1>2, CallIsAt
<1>5. x.call = y.call
  BY <1>1, <1>3, <1>4
<1> QED
  BY <1>2, <1>5

LEMMA PlacesFinite ==
    ASSUME NEW r, Readable(r)
    PROVE  IsFiniteSet(UNION {{f} \X DOMAIN r.text[f] : f \in Parsed(r)})
<1> DEFINE S == {{f} \X DOMAIN r.text[f] : f \in Parsed(r)}
           g == [f \in Parsed(r) |-> {f} \X DOMAIN r.text[f]]
<1>1. IsFiniteSet(Parsed(r))
  BY FS_Subset DEF Readable, Parsed
<1>2. g \in Surjection(Parsed(r), S)
  BY DEF Surjection
<1>3. IsFiniteSet(S)
  <2> HIDE DEF g, S
  <2> QED
    BY <1>1, <1>2, FS_Surjection
<1>4. ASSUME NEW f \in Parsed(r)
      PROVE  IsFiniteSet({f} \X DOMAIN r.text[f])
  <2>1. IsText(r.text[f])
    BY DEF Readable, Parsed
  <2>2. Len(r.text[f]) \in Nat /\ DOMAIN r.text[f] = 1 .. Len(r.text[f])
    BY <2>1, TextIs
  <2>3. IsFiniteSet(DOMAIN r.text[f])
    <3>1. Len(r.text[f]) \in Int /\ 1 \in Int
      BY <2>2
    <3>2. IsFiniteSet(1 .. Len(r.text[f]))
      BY <3>1, FS_Interval
    <3> QED
      BY <2>2, <3>2
  <2>4. IsFiniteSet({f})
    BY FS_Singleton
  <2> QED
    BY <2>3, <2>4, FS_Product
<1>5. \A T \in S : IsFiniteSet(T)
  BY <1>4
<1> HIDE DEF S
<1> QED
  BY <1>3, <1>5, FS_UNION DEF S

LEMMA CallsAccounted ==
    ASSUME NEW r, Readable(r)
    PROVE  LET map   == BuildRelationMap(r)
               edges == {e.at : e \in CallEdges(map)}
               open  == {u.at : u \in map.unresolvedCalls}
           IN  /\ edges \cup open \cup map.externalCalls
                    = UNION {{<<f, c.at>> : c \in Inventory(r)[f].calls} : f \in Parsed(r)}
               /\ edges \cap (open \cup map.externalCalls) = {}
               /\ open \cap map.externalCalls = {}
               /\ Cardinality(edges) = Cardinality(CallEdges(map))
<1> DEFINE map   == BuildRelationMap(r)
           edges == {e.at : e \in CallEdges(map)}
           open  == {u.at : u \in map.unresolvedCalls}
           calls == CallsOf(r)
           at(x) == <<x.file, x.call.at>>
           met   == {x \in calls : x.end.to # {}}
           out   == {x \in calls : x.end = Missed("outside")}
           left  == {x \in calls : x.end.to = {} /\ x.end # Missed("outside")}
           item(x) == [at |-> at(x), category |-> x.end.how]
           all   == UNION {{<<f, c.at>> : c \in Inventory(r)[f].calls} : f \in Parsed(r)}
<1>1. CallEdges(map) = {CallEdge(r, x) : x \in met}
  BY CallEdgesAre DEF Resolved
<1>2. map.externalCalls = {at(x) : x \in out} /\ map.unresolvedCalls = {item(x) : x \in left}
  BY DEF BuildRelationMap, CallsOf
<1>3. \A x \in met : CallEdge(r, x).at = at(x)
  BY ResolvedIs
<1>4. all = {at(x) : x \in calls}
  <2>1. ASSUME NEW p \in all
        PROVE  p \in {at(x) : x \in calls}
    <3>1. PICK f \in Parsed(r) : p \in {<<f, c.at>> : c \in Inventory(r)[f].calls}
      OBVIOUS
    <3>2. PICK c \in Inventory(r)[f].calls : p = <<f, c.at>>
      BY <3>1
    <3> DEFINE x == [file |-> f, call |-> c, end |-> CallOutcome(Index(r), f, c)]
    <3>3. x \in calls
      BY CallsAre
    <3>4. at(x) = p
      BY <3>2
    <3> HIDE DEF x
    <3> QED
      BY <3>3, <3>4
  <2>2. ASSUME NEW x \in calls
        PROVE  at(x) \in all
    <3>1. x.file \in Parsed(r) /\ x.call \in Inventory(r)[x.file].calls
      BY CallsAre
    <3> QED
      BY <3>1
  <2> HIDE DEF all, at, calls
  <2> QED
    BY <2>1, <2>2
<1>5. met \cup out \cup left = calls /\ met \cap (out \cup left) = {} /\ out \cap left = {}
  <2>1. Missed("outside").to = {}
    BY MissedNone
  <2> QED
    BY <2>1
<1>6. \A x \in calls : \A y \in calls : at(x) = at(y) => x = y
  BY OneCallAtAPlace
<1>7. \A x \in left : item(x).at = at(x)
  OBVIOUS
<1> HIDE DEF met, out, left, at, item, calls
<1>8. edges = {at(x) : x \in met}
  BY <1>1, <1>3
<1>9. open = {at(x) : x \in left}
  BY <1>2, <1>7
<1>10. edges \cup open \cup map.externalCalls = all
  <2> HIDE DEF edges, open, all, map
  <2> QED
    BY <1>2, <1>4, <1>5, <1>8, <1>9
<1>11. met \subseteq calls /\ out \subseteq calls /\ left \subseteq calls
  BY <1>5
<1>12. edges \cap (open \cup map.externalCalls) = {} /\ open \cap map.externalCalls = {}
  <2> HIDE DEF edges, open, map
  <2>1. ASSUME NEW p \in edges, p \in open \cup map.externalCalls
        PROVE  FALSE
    <3>1. PICK x \in met : p = at(x)
      BY <1>8, <2>1
    <3>2. PICK y \in out \cup left : p = at(y)
      BY <1>2, <1>9, <2>1
    <3>3. x = y
      BY <1>6, <1>11, <3>1, <3>2
    <3> QED
      BY <1>5, <3>3
  <2>2. ASSUME NEW p \in open, p \in map.externalCalls
        PROVE  FALSE
    <3>1. PICK x \in left : p = at(x)
      BY <1>9
    <3>2. PICK y \in out : p = at(y)
      BY <1>2, <2>2
    <3>3. x = y
      BY <1>6, <1>11, <3>1, <3>2
    <3> QED
      BY <1>5, <3>3
  <2> QED
    BY <2>1, <2>2
<1>13. Cardinality(edges) = Cardinality(CallEdges(map))
  <2> DEFINE E == CallEdges(map)
             g == [p \in edges |-> CHOOSE e \in E : e.at = p]
  <2>1. \A e \in E : \A d \in E : e.at = d.at => e = d
    <3> TAKE e \in E
    <3> TAKE d \in E
    <3> HAVE e.at = d.at
    <3>1. PICK x \in met : e = CallEdge(r, x)
      BY <1>1
    <3>2. PICK y \in met : d = CallEdge(r, y)
      BY <1>1
    <3>3. x = y
      BY <1>3, <1>6, <1>11, <3>1, <3>2
    <3> QED
      BY <3>1, <3>2, <3>3
  <2>2. edges = {e.at : e \in E}
    OBVIOUS
  <2>3. IsFiniteSet(edges)
    <3> DEFINE U == UNION {{f} \X DOMAIN r.text[f] : f \in Parsed(r)}
    <3>1. IsFiniteSet(U)
      BY PlacesFinite
    <3>2. all \subseteq U
      <4> SUFFICES ASSUME NEW f \in Parsed(r), NEW c \in Inventory(r)[f].calls
                   PROVE  <<f, c.at>> \in U
        OBVIOUS
      <4>1. c.at \in DOMAIN r.text[f]
        BY CallIsAt
      <4> QED
        BY <4>1
    <3>3. edges \subseteq all
      BY <1>10
    <3> HIDE DEF U, all, edges
    <3>4. edges \in SUBSET U
      BY <3>2, <3>3
    <3> QED
      BY <3>1, <3>4, FS_Subset
  <2> HIDE DEF E, edges
  <2>4. \A p \in edges : g[p] \in E /\ g[p].at = p
    BY <2>2
  <2>5. g \in Bijection(edges, E)
    <3>1. g \in [edges -> E]
      BY <2>4
    <3>2. \A p \in edges : \A q \in edges : g[p] = g[q] => p = q
      <4> HIDE DEF g
      <4> QED
        BY <2>4
    <3>3. \A e \in E : \E p \in edges : g[p] = e
      <4> TAKE e \in E
      <4>1. e.at \in edges
        BY <2>2
      <4> HIDE DEF g
      <4>2. g[e.at] = e
        BY <2>1, <2>4, <4>1
      <4> QED
        BY <4>1, <4>2
    <3> HIDE DEF g
    <3> QED
      BY <3>1, <3>2, <3>3 DEF Bijection, Injection, Surjection, IsInjective
  <2>6. ExistsBijection(edges, E)
    BY <2>5 DEF ExistsBijection
  <2> QED
    BY <2>3, <2>6, FS_Bijection DEF E
<1> QED
  BY <1>10, <1>12, <1>13

LEMMA ImportsAccounted ==
    ASSUME NEW r, Readable(r)
    PROVE  LET map  == BuildRelationMap(r)
               rest == map.externalImports \cup map.unresolvedImports
               imports == UNION {{f} \X Inventory(r)[f].imports : f \in Parsed(r)}
           IN  /\ rest \subseteq imports
               /\ \A p \in imports :
                    p \in rest \/ \E e \in map.edges : e.type = "imports" /\ e.at = p
<1> DEFINE map == BuildRelationMap(r)
           N(f, i) == [file |-> f, at |-> i, end |-> Index(r).imports[f][i]]
           names == UNION {{N(f, i) : i \in Inventory(r)[f].imports} : f \in Parsed(r)}
           imports == UNION {{f} \X Inventory(r)[f].imports : f \in Parsed(r)}
<1>1. /\ map.externalImports
           = {<<x.file, x.at>> : x \in {y \in names : y.end.binds = External}}
      /\ map.unresolvedImports
           = {<<x.file, x.at>> : x \in {y \in names : y.end.binds = Nothing}}
  <2>1. names = UNION {{[file |-> f, at |-> i, end |-> Index(r).imports[f][i]] :
                          i \in DOMAIN Index(r).imports[f]} : f \in Index(r).parsed}
    BY IndexIs
  <2> HIDE DEF names
  <2> QED
    BY <2>1 DEF BuildRelationMap
<1>2. \A f, i : N(f, i).file = f /\ N(f, i).at = i /\ N(f, i).end = Index(r).imports[f][i]
  OBVIOUS
<1> HIDE DEF N, map
<1>3. ASSUME NEW p \in map.externalImports \cup map.unresolvedImports
      PROVE  p \in imports
  <2>1. PICK x \in names : p = <<x.file, x.at>>
    BY <1>1
  <2>2. PICK f \in Parsed(r) : \E i \in Inventory(r)[f].imports : x = N(f, i)
    OBVIOUS
  <2>3. PICK i \in Inventory(r)[f].imports : x = N(f, i)
    BY <2>2
  <2> QED
    BY <1>2, <2>1, <2>3
<1>4. ASSUME NEW f \in Parsed(r), NEW i \in Inventory(r)[f].imports
      PROVE  \/ <<f, i>> \in map.externalImports \cup map.unresolvedImports
             \/ \E e \in map.edges : e.type = "imports" /\ e.at = <<f, i>>
  <2>1. N(f, i) \in names
    OBVIOUS
  <2>2. Ended(r, Index(r).imports[f][i])
    BY ImportsEnd
  <2>3. CASE Index(r).imports[f][i].edge # NoFile
    <3>1. PICK e \in ImportEdges(Index(r), f) : e.at = <<f, i>>
      BY <2>3, ImportEdgesAre
    <3>2. e.type = "imports"
      BY ImportEdgesAre
    <3>3. e \in map.edges
      BY EdgesAre DEF Written, map
    <3> QED
      BY <3>1, <3>2, <3>3
  <2>4. CASE Index(r).imports[f][i].edge = NoFile
    <3>1. Index(r).imports[f][i].binds \in {External, Nothing}
      BY <2>2, <2>4 DEF Ended
    <3> HIDE DEF names
    <3> QED
      BY <1>1, <1>2, <2>1, <3>1
  <2> QED
    BY <2>3, <2>4
<1>5. \A p \in imports : \E f \in Parsed(r) : \E i \in Inventory(r)[f].imports : p = <<f, i>>
  OBVIOUS
<1> HIDE DEF imports
<1> QED
  BY <1>3, <1>4, <1>5 DEF map, imports

-----------------------------------------------------------------------------
(* A statement more.                                                       *)

ChainOf(text, chain, i) == IF i = 0 THEN {0} ELSE {i} \cup chain[text[i].up]

LEMMA ChainsExist ==
    ASSUME NEW text, IsText(text)
    PROVE  \E b \in [0 .. Len(text) -> SUBSET (0 .. Len(text))] :
             \A i \in 0 .. Len(text) : b[i] = ChainOf(text, b, i)
<1> DEFINE upto(b, m) == \A i \in 0 .. m : b[i] = ChainOf(text, b, i)
           Q == SUBSET (0 .. Len(text))
           S == {m \in Nat : m <= Len(text) => \E b \in [0 .. m -> Q] : upto(b, m)}
<1>0. Len(text) \in Nat
  BY TextIs
<1>1. 0 \in S
  <2> DEFINE b == [i \in 0 .. 0 |-> {0}]
  <2>1. b \in [0 .. 0 -> Q] /\ upto(b, 0)
    BY <1>0 DEF ChainOf
  <2> QED
    BY <2>1
<1>2. ASSUME NEW m \in Nat, m \in S
      PROVE  m + 1 \in S
  <2> SUFFICES ASSUME m + 1 <= Len(text)
               PROVE  \E b \in [0 .. m + 1 -> Q] : upto(b, m + 1)
    OBVIOUS
  <2>1. PICK b \in [0 .. m -> Q] : upto(b, m)
    BY <1>0, <1>2
  <2> DEFINE c == [i \in 0 .. m + 1 |-> IF i = m + 1 THEN ChainOf(text, b, i) ELSE b[i]]
  <2>2. ASSUME NEW i \in 0 .. m + 1
        PROVE  /\ i # 0 => text[i].up \in 0 .. m /\ c[text[i].up] = b[text[i].up]
               /\ ChainOf(text, c, i) = ChainOf(text, b, i)
    <3>1. i # 0 => text[i].up \in 0 .. i - 1
      <4>1. i # 0 => i \in DOMAIN text
        BY <1>0, TextIs
      <4> QED
        BY <4>1, TextIs
    <3>2. i # 0 => text[i].up \in 0 .. m
      BY <3>1
    <3>3. i # 0 => c[text[i].up] = b[text[i].up]
      BY <3>2
    <3> HIDE DEF c
    <3> QED
      BY <3>2, <3>3 DEF ChainOf
  <2>3. \A i \in 0 .. m + 1 : c[i] = ChainOf(text, c, i)
    <3> TAKE i \in 0 .. m + 1
    <3>1. i = m + 1 => c[i] = ChainOf(text, b, i)
      OBVIOUS
    <3>2. i # m + 1 => i \in 0 .. m /\ c[i] = b[i]
      OBVIOUS
    <3>3. i # m + 1 => b[i] = ChainOf(text, b, i)
      BY <2>1, <3>2
    <3> HIDE DEF c
    <3> QED
      BY <2>2, <3>1, <3>2, <3>3
  <2>4. ASSUME NEW i \in 0 .. m + 1
        PROVE  c[i] \in Q
    <3>1. CASE i = m + 1
      <4>1. m + 1 # 0 /\ m + 1 \in 0 .. m + 1
        OBVIOUS
      <4>2. text[m + 1].up \in 0 .. m
        BY <2>2, <4>1
      <4>3. b[text[m + 1].up] \in Q
        BY <4>2
      <4>4. ChainOf(text, b, m + 1) \in Q
        BY <1>0, <4>3 DEF ChainOf
      <4> QED
        BY <3>1, <4>4
    <3>2. CASE i # m + 1
      <4>1. i \in 0 .. m /\ c[i] = b[i]
        BY <3>2
      <4> QED
        BY <4>1
    <3> QED
      BY <3>1, <3>2
  <2>5. c \in [0 .. m + 1 -> Q]
    BY <2>4
  <2> HIDE DEF c
  <2> QED
    BY <2>3, <2>5
<1> HIDE DEF S
<1>3. Len(text) \in S
  BY <1>0, <1>1, <1>2, NatInduct
<1> QED
  BY <1>0, <1>3 DEF S

LEMMA OpenPlaces ==
    ASSUME NEW text, IsText(text)
    PROVE  OpenAt(text) \subseteq 0 .. Len(text)
<1> DEFINE E(g) == [i \in 0 .. Len(text) |-> ChainOf(text, g, i)]
           chain == CHOOSE g : g = E(g)
<1>0. Len(text) \in Nat
  BY TextIs
<1>1. OpenAt(text) \subseteq chain[Len(text)]
  BY DEF OpenAt, ChainOf
<1>2. PICK b \in [0 .. Len(text) -> SUBSET (0 .. Len(text))] :
        \A i \in 0 .. Len(text) : b[i] = ChainOf(text, b, i)
  BY ChainsExist
<1>3. b = E(b)
  BY <1>2
<1>4. chain = E(chain)
  <2> HIDE DEF E
  <2> QED
    BY <1>3
<1> HIDE DEF chain
<1>5. \A i \in 0 .. Len(text) : chain[i] = ChainOf(text, chain, i)
  BY <1>4
<1> DEFINE S == {m \in Nat : \A i \in 0 .. Len(text) :
                   i <= m => chain[i] \subseteq 0 .. Len(text)}
<1>6. 0 \in S
  <2>1. ASSUME NEW i \in 0 .. Len(text), i <= 0
        PROVE  chain[i] \subseteq 0 .. Len(text)
    <3>1. i = 0
      BY <2>1
    <3> QED
      BY <1>0, <1>5, <3>1 DEF ChainOf
  <2> QED
    BY <2>1
<1>7. ASSUME NEW m \in Nat, m \in S
      PROVE  m + 1 \in S
  <2> SUFFICES ASSUME NEW i \in 0 .. Len(text), i <= m + 1
               PROVE  chain[i] \subseteq 0 .. Len(text)
    OBVIOUS
  <2>1. i # 0 => i \in DOMAIN text
    BY TextIs
  <2>2. i # 0 => text[i].up \in 0 .. i - 1 /\ text[i].up \in 0 .. Len(text)
    BY <2>1, TextIs
  <2>3. i # 0 => chain[text[i].up] \subseteq 0 .. Len(text)
    BY <1>7, <2>2
  <2> QED
    BY <1>0, <1>5, <2>3 DEF ChainOf
<1> HIDE DEF S
<1>8. Len(text) \in S
  BY <1>0, <1>6, <1>7, NatInduct
<1>9. chain[Len(text)] \subseteq 0 .. Len(text)
  BY <1>0, <1>8 DEF S
<1> QED
  BY <1>1, <1>9

LEMMA OneStatementMore ==
    ASSUME NEW text, IsText(text), NEW node \in Node, NEW up \in OpenAt(text)
    PROVE  IsText(Append(text, At(up, node)))
<1> DEFINE R == [up : Nat, node : Node]
           more == Append(text, At(up, node))
<1>1. text \in Seq(R) /\ Len(text) \in Nat /\ up \in 0 .. Len(text)
  BY TextIs, OpenPlaces
<1>2. At(up, node) \in R /\ At(up, node).up = up
  BY <1>1 DEF At
<1>3. \A i \in DOMAIN text : text[i].up < i
  BY DEF IsText
<1> HIDE DEF R
<1>4. more \in Seq(R)
  BY <1>1, <1>2
<1>5. DOMAIN more = 1 .. Len(text) + 1
  BY <1>1, <1>2
<1>6. \A i \in 1 .. Len(text) : more[i] = text[i] /\ i \in DOMAIN text
  BY <1>1
<1>7. more[Len(text) + 1] = At(up, node)
  BY <1>1
<1> HIDE DEF more
<1>8. ASSUME NEW i \in DOMAIN more
      PROVE  more[i].up < i
  <2>1. CASE i \in 1 .. Len(text)
    BY <1>3, <1>6, <2>1
  <2>2. CASE i = Len(text) + 1
    BY <1>1, <1>2, <1>7, <2>2
  <2> QED
    BY <1>1, <1>5, <2>1, <2>2
<1>9. IsText(more)
  BY <1>4, <1>8 DEF IsText, R
<1> QED
  BY <1>9 DEF more

-----------------------------------------------------------------------------
(* Every artifact is what its stage makes of the artifacts before it: the  *)
(* repository is not edited once it was scanned.                           *)

Editable(r) ==
    /\ {"path", "text", "edits", "broken"} \subseteq DOMAIN r
    /\ Readable(r) /\ DOMAIN r.text = Files(r)
    /\ \A f \in Files(r) : /\ IsPath(r.path[f])
                          /\ \A node \in r.edits[f] : node \in Node

Stages ==
    /\ Editable(repo)
    /\ scan # None => scan \subseteq Files(repo)
    /\ inventory # None => scan # None /\ inventory = Inventory(Seen)
    /\ relations # None => inventory # None /\ relations = BuildRelationMap(Seen)
    /\ breakdowns # None =>
         relations # None /\ breakdowns = BuildFileBreakdowns(Seen, inventory, relations)
    /\ clusters # None =>
         breakdowns # None /\ clusters = BuildClusterMap(Seen, inventory, relations)
    /\ flows # None => clusters # None /\ flows = BuildFlowMap(relations, clusters)
    /\ dossier # None =>
         /\ flows # None /\ checks = FailedChecks(inventory, relations, breakdowns, flows)
         /\ context = BuildContext(clusters, flows)
         /\ dossier = BuildDossier(Seen, relations, breakdowns, clusters, flows)
    /\ meaning # None =>
         dossier # None /\ meaning = Compose(Meaning(Seen, breakdowns, clusters, flows))

LEMMA InitStages == Init => Stages
<1> SUFFICES ASSUME Init PROVE Stages
  OBVIOUS
<1>1. repo \in Projects
  BY DEF Init
<1>2. repo = Project(repo.path, repo.text, repo.edits, repo.budget, repo.denied)
  BY <1>1, ProjectsAssumption
<1>3. {"path", "text", "edits", "broken"} \subseteq DOMAIN repo
  BY <1>2 DEF Project
<1>4. Readable(repo) /\ DOMAIN repo.text = Files(repo)
  BY <1>1, ProjectsAssumption DEF Readable, Files
<1>5. \A f \in Files(repo) : /\ IsPath(repo.path[f])
                            /\ \A node \in repo.edits[f] : node \in Node
  BY <1>1, ProjectsAssumption DEF Files, IsPath
<1> QED
  BY <1>3, <1>4, <1>5 DEF Init, Stages, Editable

LEMMA WriteEdits ==
    ASSUME Editable(repo), NEW f \in Files(repo), Write(f)
    PROVE  Editable(repo')
<1>1. PICK node \in repo.edits[f], up \in OpenAt(repo.text[f]) :
        repo' = [repo EXCEPT !.text[f] = Append(@, At(up, node)), !.budget = @ - 1]
  BY DEF Write
<1> DEFINE more == Append(repo.text[f], At(up, node))
<1>2. node \in Node /\ IsText(repo.text[f])
  BY DEF Editable, Readable
<1>3. IsText(more)
  BY <1>2, OneStatementMore
<1>4. /\ DOMAIN repo' = DOMAIN repo /\ repo'.path = repo.path /\ repo'.edits = repo.edits
      /\ repo'.text = [repo.text EXCEPT ![f] = more]
  BY <1>1 DEF Editable
<1> HIDE DEF more
<1>5. DOMAIN repo'.text = DOMAIN repo.text /\ Files(repo') = Files(repo)
  BY <1>4 DEF Files
<1>6. \A g \in Files(repo) : IsText(repo'.text[g])
  BY <1>3, <1>4 DEF Editable, Readable
<1>7. Readable(repo')
  BY <1>5, <1>6 DEF Editable, Readable
<1> QED
  BY <1>4, <1>5, <1>7 DEF Editable

LEMMA BreakEdits ==
    ASSUME Editable(repo), NEW f \in Files(repo), Break(f)
    PROVE  Editable(repo')
<1>1. /\ DOMAIN repo' = DOMAIN repo /\ repo'.path = repo.path /\ repo'.edits = repo.edits
      /\ repo'.text = repo.text
  BY DEF Break, Editable
<1>2. Files(repo') = Files(repo)
  BY <1>1 DEF Files
<1> QED
  BY <1>1, <1>2 DEF Editable, Readable

LEMMA NextStages == Stages /\ [Next]_vars => Stages'
<1> SUFFICES ASSUME Stages, [Next]_vars
             PROVE  Stages'
  OBVIOUS
<1>1. ASSUME NEW f \in Files(repo), Write(f) \/ Break(f)
      PROVE  Stages'
  <2>1. Editable(repo')
    BY <1>1, WriteEdits, BreakEdits DEF Stages
  <2>2. /\ scan = None /\ scan' = scan /\ inventory' = inventory
        /\ relations' = relations /\ breakdowns' = breakdowns
        /\ clusters' = clusters /\ flows' = flows /\ dossier' = dossier
        /\ meaning' = meaning
    BY <1>1 DEF Write, Break
  <2> QED
    BY <2>1, <2>2 DEF Stages
<1>2. CASE ScanRepo
  <2>1. PICK denied : scan' = Files(repo) \ denied
    BY <1>2 DEF ScanRepo
  <2>2. /\ scan = None /\ repo' = repo /\ inventory' = inventory
        /\ relations' = relations /\ breakdowns' = breakdowns
        /\ clusters' = clusters /\ flows' = flows /\ dossier' = dossier
        /\ meaning' = meaning
    BY <1>2 DEF ScanRepo
  <2> QED
    BY <2>1, <2>2 DEF Stages
<1>3. CASE ExtractFiles
  <2>1. Seen' = Seen
    BY <1>3 DEF ExtractFiles, Seen
  <2> QED
    BY <1>3, <2>1 DEF Stages, ExtractFiles
<1>4. CASE BuildRelations
  <2>1. Seen' = Seen
    BY <1>4 DEF BuildRelations, Seen
  <2> QED
    BY <1>4, <2>1 DEF Stages, BuildRelations
<1>5. CASE BuildBreakdowns
  <2>1. Seen' = Seen
    BY <1>5 DEF BuildBreakdowns, Seen
  <2> QED
    BY <1>5, <2>1 DEF Stages, BuildBreakdowns
<1>6. CASE EnrichAndCluster
  <2>1. Seen' = Seen
    BY <1>6 DEF EnrichAndCluster, Seen
  <2> QED
    BY <1>6, <2>1 DEF Stages, EnrichAndCluster
<1>7. CASE BuildFlows
  <2>1. Seen' = Seen
    BY <1>7 DEF BuildFlows, Seen
  <2> QED
    BY <1>7, <2>1 DEF Stages, BuildFlows
<1>8. CASE BuildReports
  <2>1. Seen' = Seen
    BY <1>8 DEF BuildReports, Seen
  <2> QED
    BY <1>8, <2>1 DEF Stages, BuildReports
<1>9. CASE DeriveMeaning
  <2>1. Seen' = Seen
    BY <1>9 DEF DeriveMeaning, Seen
  <2> QED
    BY <1>9, <2>1 DEF Stages, DeriveMeaning
<1>10. CASE UNCHANGED vars
  BY <1>10 DEF vars, Seen, Stages
<1> QED
  BY <1>1, <1>2, <1>3, <1>4, <1>5, <1>6, <1>7, <1>8, <1>9, <1>10 DEF Next, Done

LEMMA StagesAlways == Spec => []Stages
<1> QED
  BY InitStages, NextStages, PTL DEF Spec

LEMMA SeenIs ==
    ASSUME Stages, scan # None
    PROVE  /\ Readable(Seen) /\ Files(Seen) = scan /\ Parsed(Seen) = scan \ repo.broken
           /\ \A f \in scan : IsPath(Seen.path[f])
<1>1. scan \subseteq Files(repo) /\ Readable(repo)
  BY DEF Stages, Editable
<1>2. Files(Seen) = scan /\ \A f \in scan : Seen.text[f] = repo.text[f]
  BY DEF Files, Seen
<1>3. Seen.broken = repo.broken \cap scan
  BY DEF Seen
<1>4. IsFiniteSet(scan)
  <2>1. scan \in SUBSET Files(repo) /\ IsFiniteSet(Files(repo))
    BY <1>1 DEF Readable
  <2> QED
    BY <2>1, FS_Subset
<1>5. Readable(Seen)
  BY <1>1, <1>2, <1>4 DEF Readable
<1>6. \A f \in scan : IsPath(Seen.path[f])
  BY <1>1 DEF Stages, Editable, Seen
<1> QED
  BY <1>2, <1>3, <1>5, <1>6 DEF Parsed

(* No call and no import of a file that parses is lost, none is counted    *)
(* twice, and every edge joins two nodes of files the run may see, for     *)
(* every repository (build_relation_map).                                  *)
THEOREM NothingIsEverLost == Spec => []NothingIsLost
<1>1. Stages => NothingIsLost
  <2> SUFFICES ASSUME Stages, relations # None
               PROVE  NothingIsLost
    BY DEF NothingIsLost
  <2>1. scan # None /\ inventory = Inventory(Seen) /\ relations = BuildRelationMap(Seen)
    BY DEF Stages
  <2>2. Readable(Seen) /\ Parsed(Seen) = scan \ repo.broken
    BY <2>1, SeenIs
  <2> DEFINE seen == scan \ repo.broken
             edges == {e.at : e \in CallEdges(relations)}
             open  == {u.at : u \in relations.unresolvedCalls}
             rest  == relations.externalImports \cup relations.unresolvedImports
             calls == UNION {{<<f, c.at>> : c \in inventory[f].calls} : f \in seen}
             imports == UNION {{f} \X inventory[f].imports : f \in seen}
  <2>3. /\ edges \cup open \cup relations.externalCalls = calls
        /\ edges \cap (open \cup relations.externalCalls) = {}
        /\ open \cap relations.externalCalls = {}
        /\ Cardinality(edges) = Cardinality(CallEdges(relations))
    <3> DEFINE all(map, inv, S) ==
                 /\ {e.at : e \in CallEdges(map)} \cup {u.at : u \in map.unresolvedCalls}
                      \cup map.externalCalls
                    = UNION {{<<f, c.at>> : c \in inv[f].calls} : f \in S}
                 /\ {e.at : e \in CallEdges(map)} \cap
                      ({u.at : u \in map.unresolvedCalls} \cup map.externalCalls) = {}
                 /\ {u.at : u \in map.unresolvedCalls} \cap map.externalCalls = {}
                 /\ Cardinality({e.at : e \in CallEdges(map)})
                      = Cardinality(CallEdges(map))
    <3>1. all(BuildRelationMap(Seen), Inventory(Seen), Parsed(Seen))
      BY <2>2, CallsAccounted, Zenon
    <3> HIDE DEF all
    <3>2. all(relations, inventory, seen)
      BY <2>1, <2>2, <3>1
    <3> QED
      BY <3>2 DEF all
  <2>4. /\ rest \subseteq imports
        /\ \A p \in imports :
             p \in rest \/ \E e \in relations.edges : e.type = "imports" /\ e.at = p
    BY <2>1, <2>2, ImportsAccounted
  <2>5. ASSUME NEW e \in relations.edges
        PROVE  /\ Known(relations, e.from) /\ FileOf(relations, e.from) \in seen
               /\ Known(relations, e.to)   /\ FileOf(relations, e.to) \in seen
    <3>1. Joined(Seen, e)
      BY <2>1, <2>2, EdgesJoinNodes
    <3> QED
      BY <2>1, <2>2, <3>1, KnownFile DEF Joined
  <2> HIDE DEF edges, open, calls, imports, seen
  <2> QED
    BY <2>3, <2>4, <2>5, Zenon DEF NothingIsLost, edges, open, calls, imports, seen
<1> QED
  BY <1>1, StagesAlways, PTL

-----------------------------------------------------------------------------
(* The validation.                                                         *)

(* Roots and callees of flows are nodes, whatever the map and the clusters. *)
LEMMA FlowsCiteNodes ==
    ASSUME NEW map, NEW cluster
    PROVE  FlowRecordsCiteActualNodes(map, BuildFlowMap(map, cluster))
<1> DEFINE graph == Forward(map)
           roots == EntryPoints(map, cluster.clusters)
<1>1. \A id \in DOMAIN graph : Known(map, id) /\ \A to \in graph[id] : Known(map, to)
  BY DEF Forward, GraphEdges, Known
<1>2. roots \subseteq DOMAIN graph
  <2>1. \A n \in map.nodes : Callable(n) => n.id \in DOMAIN graph
    BY DEF Forward
  <2> HIDE DEF graph
  <2> QED
    BY <2>1 DEF EntryPoints, graph
<1>3. \A root : /\ FlowRecord(map, cluster, root).root = root
                /\ FlowRecord(map, cluster, root).callees = graph[root]
  BY DEF FlowRecord, Flow
<1>4. \A g \in SyntheticFlows(map) : Known(map, g.root) /\ g.callees = {}
  BY DEF SyntheticFlows, Flow, Known
<1>5. BuildFlowMap(map, cluster).flows
        = IF GraphEdges(map) = {} THEN SyntheticFlows(map)
          ELSE {FlowRecord(map, cluster, root) : root \in roots}
  BY DEF BuildFlowMap
<1> HIDE DEF graph, roots
<1>6. \A root \in roots : LET g == FlowRecord(map, cluster, root)
                          IN  Known(map, g.root) /\ \A id \in g.callees : Known(map, id)
  BY <1>1, <1>2, <1>3
<1>7. \A g \in BuildFlowMap(map, cluster).flows :
        Known(map, g.root) /\ \A id \in g.callees : Known(map, id)
  BY <1>4, <1>5, <1>6
<1> QED
  BY <1>7 DEF FlowRecordsCiteActualNodes

(* Nothing is written in a file that does not parse.                       *)
LEMMA WrittenIsParsed ==
    ASSUME NEW r, NEW f \in Files(r),
           \/ Inventory(r)[f].imports # {} \/ Inventory(r)[f].calls # {}
           \/ Inventory(r)[f].defs # {}
    PROVE  f \in Parsed(r)
  BY InventoryIs DEF NoRecord

(* A relation map has no edges if and only if nothing is defined and no    *)
(* import stays in the repository.                                         *)
LEMMA NoEdges ==
    ASSUME NEW r, Readable(r)
    PROVE  BuildRelationMap(r).edges = {} <=>
             /\ \A f \in Files(r) : Inventory(r)[f].defs = {}
             /\ \A e \in BuildRelationMap(r).edges : e.type # "imports"
<1> DEFINE edges == BuildRelationMap(r).edges
<1>1. ASSUME edges = {}, NEW f \in Files(r), NEW d \in Inventory(r)[f].defs
      PROVE  FALSE
  <2>1. f \in Parsed(r)
    BY <1>1, WrittenIsParsed
  <2>2. ContainsEdges(Index(r), f) # {}
    <3> DEFINE drawn(k) == Edge("contains",
                               IF k.type = "method"
                               THEN <<"class", f, Front(k.scope), Last(k.scope)[2]>>
                               ELSE FileNode(f),
                               NodeId([file |-> f, def |-> k]), f, k.at)
    <3>1. ContainsEdges(Index(r), f) = {drawn(k) : k \in Index(r).inv[f].defs}
      BY Zenon DEF ContainsEdges
    <3>2. d \in Index(r).inv[f].defs
      BY IndexIs
    <3> HIDE DEF drawn
    <3> QED
      BY ONLY <3>1, <3>2, Zenon
  <2>3. ContainsEdges(Index(r), f) \subseteq edges
    BY <2>1, EdgesAre DEF Written
  <2> QED
    BY <1>1, <2>2, <2>3
<1>2. ASSUME NEW e \in edges, e.type # "imports",
             \A f \in Files(r) : Inventory(r)[f].defs = {}
      PROVE  FALSE
  <2>1. Parsed(r) \subseteq Files(r)
    BY InventoryIs
  <2>2. Definitions(r) = {}
    BY <1>2, <2>1 DEF Definitions, InFile
  <2>3. CASE e \in Resolved(r)
    <3>1. PICK x \in CallsOf(r) : x.end.to # {} /\ e = CallEdge(r, x)
      BY <2>3 DEF Resolved
    <3> QED
      BY <2>2, <3>1, ResolvedIs
  <2>4. ASSUME NEW f \in Parsed(r), e \in ContainsEdges(Index(r), f)
        PROVE  FALSE
    BY <1>2, <2>1, <2>4, IndexIs DEF ContainsEdges
  <2>5. ASSUME NEW f \in Parsed(r), e \in ImportEdges(Index(r), f)
        PROVE  FALSE
    BY <1>2, <2>5, ImportEdgesAre
  <2> QED
    BY <2>3, <2>4, <2>5, EdgesAre DEF Written
<1> QED
  BY <1>1, <1>2

(* The checks of a run, from the files it may see.                         *)
LEMMA ChecksAre ==
    ASSUME NEW r, Readable(r), NEW cluster
    PROVE  LET map == BuildRelationMap(r)
               inv == Inventory(r)
           IN  FailedChecks(inv, map, BuildFileBreakdowns(r, inv, map),
                            BuildFlowMap(map, cluster))
               = IF /\ \E f \in Files(r) : inv[f].imports # {} \/ inv[f].calls # {}
                    /\ \A f \in Files(r) : inv[f].defs = {}
                    /\ \A e \in map.edges : e.type # "imports"
                 THEN {"relation_map_not_empty"} ELSE {}
<1> DEFINE map  == BuildRelationMap(r)
           inv  == Inventory(r)
           down == BuildFileBreakdowns(r, inv, map)
           flow == BuildFlowMap(map, cluster)
           bare == /\ \E f \in Files(r) : inv[f].imports # {} \/ inv[f].calls # {}
                   /\ \A f \in Files(r) : inv[f].defs = {}
                   /\ \A e \in map.edges : e.type # "imports"
<1>1. DOMAIN inv = Files(r) /\ DOMAIN down = Files(r)
  BY InventoryIs DEF BuildFileBreakdowns
<1>2. FilesAccountedFor(inv, down)
  BY <1>1 DEF FilesAccountedFor
<1>3. ReferencedFilesExist(inv, map)
  <2>1. \A id : Known(map, id) => FileOf(map, id) \in Parsed(r)
    BY KnownFile
  <2> QED
    BY <1>1, <2>1, InventoryIs DEF ReferencedFilesExist
<1>4. FlowRecordsCiteActualNodes(map, flow)
  BY FlowsCiteNodes
<1>5. RelationMapNotEmpty(inv, map) <=> ~bare
  <2>1. map.edges = {} <=> /\ \A f \in Files(r) : inv[f].defs = {}
                           /\ \A e \in map.edges : e.type # "imports"
    BY NoEdges
  <2>2. \A f \in Files(r) : inv[f].imports # {} \/ inv[f].calls # {} => map.nodes # {}
    <3> TAKE f \in Files(r)
    <3>1. f \in Parsed(r) => Known(map, FileNode(f))
      BY MapNodes
    <3> QED
      BY <3>1, WrittenIsParsed DEF Known
  <2> HIDE DEF map, inv
  <2> QED
    BY <1>1, <2>1, <2>2 DEF RelationMapNotEmpty
<1> HIDE DEF map, inv, down, flow, bare
<1>6. FailedChecks(inv, map, down, flow)
        = IF bare THEN {"relation_map_not_empty"} ELSE {}
  BY <1>2, <1>3, <1>4, <1>5 DEF FailedChecks
<1> QED
  BY <1>6 DEF map, inv, down, flow, bare

(* Of the checks of the validation only the one of the relation map can    *)
(* fail, and it does exactly when nothing is defined and no import stays   *)
(* in the repository, for every repository (run_validation).               *)
THEOREM ChecksAlwaysMeanSomething == Spec => []ChecksMeanSomething
<1>1. Stages => ChecksMeanSomething
  <2> SUFFICES ASSUME Stages, dossier # None
               PROVE  ChecksMeanSomething
    BY DEF ChecksMeanSomething
  <2>1. /\ scan # None /\ inventory = Inventory(Seen) /\ relations = BuildRelationMap(Seen)
        /\ breakdowns = BuildFileBreakdowns(Seen, inventory, relations)
        /\ flows = BuildFlowMap(relations, clusters)
        /\ checks = FailedChecks(inventory, relations, breakdowns, flows)
    BY DEF Stages
  <2>2. Readable(Seen) /\ Files(Seen) = scan
    BY <2>1, SeenIs
  <2> DEFINE all(S, inv, map, failed) ==
               failed = IF /\ \E f \in S : inv[f].imports # {} \/ inv[f].calls # {}
                           /\ \A f \in S : inv[f].defs = {}
                           /\ \A e \in map.edges : e.type # "imports"
                        THEN {"relation_map_not_empty"} ELSE {}
  <2>3. all(Files(Seen), Inventory(Seen), BuildRelationMap(Seen),
            FailedChecks(Inventory(Seen), BuildRelationMap(Seen),
                         BuildFileBreakdowns(Seen, Inventory(Seen), BuildRelationMap(Seen)),
                         BuildFlowMap(BuildRelationMap(Seen), clusters)))
    BY <2>2, ChecksAre
  <2> HIDE DEF all
  <2>4. all(scan, inventory, relations, checks)
    BY <2>1, <2>2, <2>3
  <2> QED
    BY <2>4 DEF all, ChecksMeanSomething
<1> QED
  BY <1>1, StagesAlways, PTL

-----------------------------------------------------------------------------
(* Sets that are folded into a queue.                                      *)

(* The calls found from one node, put in the queue one after the other.    *)
Folded(g, queue, depth, S) ==
    IF S = {} THEN queue
    ELSE LET x == CHOOSE x \in S : TRUE IN Append(g[S \ {x}], <<x, depth>>)

IsFold(g, M, queue, depth) == g = [S \in SUBSET M |-> Folded(g, queue, depth, S)]

(* The folds of a finite set exist.                                        *)
LEMMA FoldExists ==
    ASSUME NEW M, IsFiniteSet(M), NEW queue, NEW depth
    PROVE  \E g : IsFold(g, M, queue, depth)
<1> DEFINE small(n) == {S \in SUBSET M : Cardinality(S) <= n}
           some(n) == \E g : g = [S \in small(n) |-> Folded(g, queue, depth, S)]
           D == {n \in Nat : some(n)}
<1>1. \A S \in SUBSET M : IsFiniteSet(S) /\ Cardinality(S) \in Nat
  BY FS_Subset, FS_CardinalityType
<1>2. 0 \in D
  <2>1. \A S \in small(0) : S = {}
    BY <1>1, FS_EmptySet
  <2> DEFINE g == [S \in small(0) |-> queue]
  <2>2. g = [S \in small(0) |-> Folded(g, queue, depth, S)]
    BY <2>1 DEF Folded
  <2> QED
    BY <2>2
<1>3. ASSUME NEW n \in Nat, n \in D
      PROVE  n + 1 \in D
  <2>1. PICK g : g = [S \in small(n) |-> Folded(g, queue, depth, S)]
    BY <1>3
  <2> DEFINE h == [S \in small(n + 1) |-> IF S \in small(n) THEN g[S]
                                          ELSE Folded(g, queue, depth, S)]
  <2>2. small(n) \subseteq small(n + 1)
    BY <1>1
  <2>3. ASSUME NEW S \in small(n + 1), S # {}
        PROVE  S \ {CHOOSE x \in S : TRUE} \in small(n)
    <3>1. (CHOOSE x \in S : TRUE) \in S
      BY <2>3
    <3>2. IsFiniteSet(S) /\ Cardinality(S) \in Nat
      BY <1>1
    <3>3. Cardinality(S \ {CHOOSE x \in S : TRUE}) = Cardinality(S) - 1
      BY <3>1, <3>2, FS_RemoveElement
    <3> QED
      BY <3>2, <3>3
  <2>4. ASSUME NEW S \in small(n + 1)
        PROVE  h[S] = Folded(h, queue, depth, S)
    <3>1. Folded(h, queue, depth, S) = Folded(g, queue, depth, S)
      <4>1. CASE S = {}
        BY <4>1 DEF Folded
      <4>2. CASE S # {}
        <5> DEFINE T == S \ {CHOOSE x \in S : TRUE}
        <5>1. T \in small(n)
          BY <2>3, <4>2
        <5>2. h[T] = g[T]
          BY <2>2, <5>1
        <5> HIDE DEF h
        <5> QED
          BY <4>2, <5>2 DEF Folded
      <4> QED
        BY <4>1, <4>2
    <3>2. S \in small(n) => g[S] = Folded(g, queue, depth, S)
      BY <2>1
    <3>3. h[S] = IF S \in small(n) THEN g[S] ELSE Folded(g, queue, depth, S)
      OBVIOUS
    <3> HIDE DEF h
    <3> QED
      BY <3>1, <3>2, <3>3
  <2>5. h = [S \in small(n + 1) |-> h[S]]
    OBVIOUS
  <2> HIDE DEF h
  <2>6. h = [S \in small(n + 1) |-> Folded(h, queue, depth, S)]
    BY <2>4, <2>5
  <2>7. some(n + 1)
    BY <2>6
  <2> HIDE DEF some
  <2> QED
    BY <2>7
<1> HIDE DEF D
<1>4. Cardinality(M) \in Nat /\ Cardinality(M) \in D
  BY <1>2, <1>3, NatInduct, FS_CardinalityType
<1>5. small(Cardinality(M)) = SUBSET M
  <2>1. \A S \in SUBSET M : Cardinality(S) <= Cardinality(M)
    BY FS_Subset
  <2> QED
    BY <2>1
<1> QED
  BY <1>4, <1>5 DEF D, IsFold

(* The queue with a set of nodes at one depth behind it.                   *)
Behind(new, queue, depth, S) ==
    /\ Len(new) \in Nat /\ Len(queue) <= Len(new)
    /\ \A i \in 1 .. Len(queue) : new[i] = queue[i]
    /\ \A i \in Len(queue) + 1 .. Len(new) : \E y \in S : new[i] = <<y, depth>>
    /\ \A y \in S : \E i \in 1 .. Len(new) : new[i] = <<y, depth>>

LEMMA OneMoreBehind ==
    ASSUME NEW ids, NEW queue \in Seq(ids \X Nat), NEW depth \in Nat,
           NEW S \in SUBSET ids, NEW x \in S, NEW g \in Seq(ids \X Nat),
           Behind(g, queue, depth, S \ {x})
    PROVE  /\ Append(g, <<x, depth>>) \in Seq(ids \X Nat)
           /\ Behind(Append(g, <<x, depth>>), queue, depth, S)
<1> DEFINE new == Append(g, <<x, depth>>)
<1>1. /\ new \in Seq(ids \X Nat) /\ Len(new) = Len(g) + 1 /\ Len(g) \in Nat
      /\ new[Len(g) + 1] = <<x, depth>>
      /\ \A i \in 1 .. Len(g) : new[i] = g[i]
  <2>1. <<x, depth>> \in ids \X Nat
    OBVIOUS
  <2> QED
    BY <2>1, AppendProperties, LenProperties
<1> HIDE DEF new
<1>2. Len(queue) \in Nat
  OBVIOUS
<1>3. \A i \in 1 .. Len(queue) : new[i] = queue[i]
  BY <1>1, <1>2 DEF Behind
<1>4. ASSUME NEW i \in Len(queue) + 1 .. Len(new)
      PROVE  \E y \in S : new[i] = <<y, depth>>
  <2>1. CASE i = Len(g) + 1
    BY <1>1, <2>1
  <2>2. CASE i # Len(g) + 1
    <3>1. i \in Len(queue) + 1 .. Len(g) /\ i \in 1 .. Len(g)
      BY <1>1, <1>2, <2>2
    <3>2. PICK y \in S \ {x} : g[i] = <<y, depth>>
      BY <3>1 DEF Behind
    <3> QED
      BY <1>1, <3>1, <3>2
  <2> QED
    BY <2>1, <2>2
<1>5. ASSUME NEW y \in S
      PROVE  \E i \in 1 .. Len(new) : new[i] = <<y, depth>>
  <2>1. CASE y = x
    <3>1. Len(new) \in 1 .. Len(new) /\ new[Len(new)] = <<x, depth>>
      BY <1>1
    <3> QED
      BY <2>1, <3>1
  <2>2. CASE y # x
    <3>1. PICK i \in 1 .. Len(g) : g[i] = <<y, depth>>
      BY <2>2 DEF Behind
    <3>2. i \in 1 .. Len(new) /\ new[i] = g[i]
      BY <1>1
    <3> QED
      BY <3>1, <3>2
  <2> QED
    BY <2>1, <2>2
<1>6. Len(new) \in Nat /\ Len(queue) <= Len(new)
  BY <1>1, <1>2 DEF Behind
<1> QED
  BY <1>1, <1>3, <1>4, <1>5, <1>6 DEF Behind, new

(* What the fold leaves is the queue, with the nodes behind it.            *)
LEMMA FoldIsBehind ==
    ASSUME NEW ids, NEW M \in SUBSET ids, IsFiniteSet(M),
           NEW queue \in Seq(ids \X Nat), NEW depth \in Nat,
           NEW g, IsFold(g, M, queue, depth)
    PROVE  g[M] \in Seq(ids \X Nat) /\ Behind(g[M], queue, depth, M)
<1> DEFINE good(S) == g[S] \in Seq(ids \X Nat) /\ Behind(g[S], queue, depth, S)
           D == {n \in Nat : \A S \in SUBSET M : Cardinality(S) <= n => good(S)}
<1>1. \A S \in SUBSET M : /\ IsFiniteSet(S) /\ Cardinality(S) \in Nat
                          /\ Cardinality(S) <= Cardinality(M)
  BY FS_Subset, FS_CardinalityType
<1>2. \A S \in SUBSET M : g[S] = Folded(g, queue, depth, S)
  BY DEF IsFold
<1>3. good({})
  <2>1. g[{}] = queue
    BY <1>2 DEF Folded
  <2>2. Len(queue) \in Nat
    OBVIOUS
  <2>3. Behind(queue, queue, depth, {})
    BY <2>2 DEF Behind
  <2> QED
    BY <2>1, <2>3
<1>4. 0 \in D
  <2>1. \A S \in SUBSET M : Cardinality(S) <= 0 => S = {}
    BY <1>1, FS_EmptySet
  <2> HIDE DEF good
  <2> QED
    BY <1>3, <2>1
<1>5. ASSUME NEW n \in Nat, n \in D
      PROVE  n + 1 \in D
  <2> SUFFICES ASSUME NEW S \in SUBSET M, Cardinality(S) <= n + 1
               PROVE  good(S)
    OBVIOUS
  <2>1. CASE S = {}
    BY <1>3, <2>1
  <2>2. CASE S # {}
    <3> DEFINE x == CHOOSE x \in S : TRUE
               T == S \ {x}
    <3>1. x \in S
      BY <2>2
    <3>2. Cardinality(T) = Cardinality(S) - 1
      BY <1>1, <3>1, FS_RemoveElement
    <3>3. T \in SUBSET M /\ Cardinality(T) <= n
      BY <1>1, <3>2
    <3>4. good(T)
      BY <1>5, <3>3
    <3>5. g[S] = Append(g[T], <<x, depth>>)
      BY <1>2, <2>2 DEF Folded
    <3> HIDE DEF x
    <3>6. S \in SUBSET ids
      OBVIOUS
    <3>7. /\ Append(g[T], <<x, depth>>) \in Seq(ids \X Nat)
          /\ Behind(Append(g[T], <<x, depth>>), queue, depth, S)
      BY <3>1, <3>4, <3>6, OneMoreBehind
    <3> QED
      BY <3>5, <3>7
  <2> QED
    BY <2>1, <2>2
<1> HIDE DEF D, good
<1>6. Cardinality(M) \in Nat /\ Cardinality(M) \in D
  BY <1>4, <1>5, NatInduct, FS_CardinalityType
<1>7. good(M)
  BY <1>1, <1>6 DEF D
<1> QED
  BY <1>7 DEF good

(* The calls of a node that is visited go behind the queue, at its depth   *)
(* and in some order.                                                      *)
Calls(graph, id, seen) == IF id \in DOMAIN graph THEN graph[id] \ seen ELSE {}

LEMMA QueuedBehind ==
    ASSUME NEW graph, NEW ids, NEW id, NEW seen, NEW queue \in Seq(ids \X Nat),
           NEW depth \in Nat,
           Calls(graph, id, seen) \in SUBSET ids, IsFiniteSet(Calls(graph, id, seen))
    PROVE  /\ Queued(graph, id, depth, seen, queue) \in Seq(ids \X Nat)
           /\ Behind(Queued(graph, id, depth, seen, queue), queue, depth,
                     Calls(graph, id, seen))
<1> DEFINE M == Calls(graph, id, seen)
           f == CHOOSE g : IsFold(g, M, queue, depth)
<1>1. Queued(graph, id, depth, seen, queue) = f[M]
  BY DEF Queued, FoldSet, MapThenFoldSet, IsFold, Folded, Calls
<1> HIDE DEF M
<1>2. \E g : IsFold(g, M, queue, depth)
  BY FoldExists DEF M
<1>3. IsFold(f, M, queue, depth)
  BY <1>2
<1> HIDE DEF f
<1>4. f[M] \in Seq(ids \X Nat) /\ Behind(f[M], queue, depth, M)
  BY <1>3, FoldIsBehind DEF M
<1> QED
  BY <1>1, <1>4 DEF M

-----------------------------------------------------------------------------
(* The search over the calls, one turn at a time.                          *)

Ids(graph) == DOMAIN graph \cup UNION {graph[id] : id \in DOMAIN graph}

Stops(graph) == Ids(graph) \X Nat

SearchStates(graph) == Seq(Stops(graph)) \X SUBSET Stops(graph)

NextId(s)    == Head(s[1])[1]
NextDepth(s) == Head(s[1])[2]

Visited(start, found) == {start} \cup {x[1] : x \in found}

LEMMA VisitedIs ==
    ASSUME NEW start, NEW found, NEW y
    PROVE  y \in Visited(start, found) <=> y = start \/ \E x \in found : y = x[1]
  BY DEF Visited

LEMMA HeadIsAPlace ==
    ASSUME NEW graph, NEW q \in Seq(Stops(graph)), q # <<>>
    PROVE  /\ Head(q) \in Stops(graph) /\ Head(q) = q[1]
           /\ Head(q) = <<Head(q)[1], Head(q)[2]>>
           /\ Head(q)[1] \in Ids(graph) /\ Head(q)[2] \in Nat
           /\ Tail(q) \in Seq(Stops(graph)) /\ Len(Tail(q)) = Len(q) - 1
           /\ Len(q) \in Nat \ {0}
           /\ \A i \in 1 .. Len(q) - 1 : Tail(q)[i] = q[i + 1]
<1>1. /\ Head(q) \in Stops(graph) /\ Head(q) = q[1]
      /\ Tail(q) \in Seq(Stops(graph)) /\ Len(Tail(q)) = Len(q) - 1
      /\ Len(q) \in Nat \ {0}
      /\ \A i \in 1 .. Len(q) - 1 : Tail(q)[i] = q[i + 1]
  BY HeadTailProperties, EmptySeq, LenProperties
<1>2. \A x \in Stops(graph) : x = <<x[1], x[2]>> /\ x[1] \in Ids(graph) /\ x[2] \in Nat
  BY DEF Stops
<1> QED
  BY <1>1, <1>2

(* A turn drops a node that is seen already, or adds one to what is found  *)
(* and puts its calls behind the queue unless it is as deep as allowed.    *)
TurnTo(graph, start, s, t) ==
    /\ NextId(s) \in Visited(start, s[2]) => t[1] = Tail(s[1]) /\ t[2] = s[2]
    /\ NextId(s) \notin Visited(start, s[2]) =>
         /\ t[2] = s[2] \cup {<<NextId(s), NextDepth(s)>>}
         /\ NextDepth(s) < MaxFlowDepth =>
              Behind(t[1], Tail(s[1]), NextDepth(s) + 1,
                     Calls(graph, NextId(s), Visited(start, s[2]) \cup {NextId(s)}))
         /\ ~(NextDepth(s) < MaxFlowDepth) => t[1] = Tail(s[1])

LEMMA TurnShape ==
    ASSUME NEW graph, IsFiniteSet(Ids(graph)), NEW start,
           NEW s \in SearchStates(graph), s[1] # <<>>
    PROVE  /\ Searched(graph, start, s) \in SearchStates(graph)
           /\ TurnTo(graph, start, s, Searched(graph, start, s))
<1> DEFINE id == NextId(s)
           depth == NextDepth(s)
           seen == Visited(start, s[2])
           t == Searched(graph, start, s)
<1>1. s[1] \in Seq(Stops(graph)) /\ s[2] \in SUBSET Stops(graph)
  BY DEF SearchStates
<1>2. /\ Tail(s[1]) \in Seq(Stops(graph)) /\ id \in Ids(graph) /\ depth \in Nat
  BY <1>1, HeadIsAPlace DEF NextId, NextDepth
<1>3. <<id, depth>> \in Stops(graph)
  BY <1>2 DEF Stops
<1>4. t = IF id \in seen THEN <<Tail(s[1]), s[2]>>
          ELSE <<IF depth < MaxFlowDepth
                 THEN Queued(graph, id, depth + 1, seen \cup {id}, Tail(s[1]))
                 ELSE Tail(s[1]),
                 s[2] \cup {<<id, depth>>}>>
  BY DEF Searched, NextId, NextDepth, Visited
<1> HIDE DEF id, depth, t
<1> DEFINE C == Calls(graph, id, seen \cup {id})
<1>5. C \in SUBSET Ids(graph)
  BY DEF Calls, Ids
<1>6. IsFiniteSet(C)
  BY <1>5, FS_Subset
<1> HIDE DEF seen
<1>7. /\ Queued(graph, id, depth + 1, seen \cup {id}, Tail(s[1])) \in Seq(Stops(graph))
      /\ Behind(Queued(graph, id, depth + 1, seen \cup {id}, Tail(s[1])),
                Tail(s[1]), depth + 1, C)
  <2>1. depth + 1 \in Nat
    BY <1>2
  <2> QED
    BY <1>2, <1>5, <1>6, <2>1, QueuedBehind DEF Stops
<1> HIDE DEF C
<1>8. t \in SearchStates(graph)
  <2>1. CASE id \in seen
    BY <1>1, <1>2, <1>4, <2>1 DEF SearchStates
  <2>2. CASE id \notin seen
    <3>1. s[2] \cup {<<id, depth>>} \in SUBSET Stops(graph)
      BY <1>1, <1>3
    <3> QED
      BY <1>2, <1>4, <1>7, <2>2, <3>1 DEF SearchStates
  <2> QED
    BY <2>1, <2>2
<1>9. id \in seen => t[1] = Tail(s[1]) /\ t[2] = s[2]
  BY <1>4
<1>10. id \notin seen =>
         /\ t[2] = s[2] \cup {<<id, depth>>}
         /\ depth < MaxFlowDepth => Behind(t[1], Tail(s[1]), depth + 1, C)
         /\ ~(depth < MaxFlowDepth) => t[1] = Tail(s[1])
  BY <1>4, <1>7
<1> QED
  BY <1>8, <1>9, <1>10 DEF TurnTo, id, depth, t, seen, C

(* What holds of every state with an empty queue, and of a state when of   *)
(* the next one, holds of every state: a turn leaves fewer nodes unseen,   *)
(* or as many and a shorter queue.                                         *)
LEMMA SearchInduct ==
    ASSUME NEW graph, IsFiniteSet(Ids(graph)), NEW start, NEW T,
           \A s \in SearchStates(graph) : s[1] = <<>> => s \in T,
           \A s \in SearchStates(graph) :
             s[1] # <<>> /\ Searched(graph, start, s) \in T => s \in T
    PROVE  \A s \in SearchStates(graph) : s \in T
<1> DEFINE unseen(s) == Ids(graph) \ Visited(start, s[2])
           left(s) == Cardinality(unseen(s))
           all(n) == \A s \in SearchStates(graph) : left(s) < n => s \in T
           N == {n \in Nat : all(n)}
<1>1. \A s : unseen(s) \in SUBSET Ids(graph)
  OBVIOUS
<1>2. \A s : IsFiniteSet(unseen(s)) /\ left(s) \in Nat
  BY <1>1, FS_Subset, FS_CardinalityType
<1>3. \A s \in SearchStates(graph) : s[1] # <<>> =>
        \/ /\ NextId(s) \in Visited(start, s[2])
           /\ left(Searched(graph, start, s)) = left(s)
           /\ Len(Searched(graph, start, s)[1]) = Len(s[1]) - 1
        \/ left(Searched(graph, start, s)) = left(s) - 1
  <2> SUFFICES ASSUME NEW s \in SearchStates(graph), s[1] # <<>>
               PROVE  \/ /\ NextId(s) \in Visited(start, s[2])
                         /\ left(Searched(graph, start, s)) = left(s)
                         /\ Len(Searched(graph, start, s)[1]) = Len(s[1]) - 1
                      \/ left(Searched(graph, start, s)) = left(s) - 1
    OBVIOUS
  <2> DEFINE t == Searched(graph, start, s)
  <2>1. s[1] \in Seq(Stops(graph)) /\ s[2] \in SUBSET Stops(graph)
    BY DEF SearchStates
  <2>2. Len(Tail(s[1])) = Len(s[1]) - 1 /\ NextId(s) \in Ids(graph)
    BY <2>1, HeadIsAPlace DEF NextId
  <2>0. TurnTo(graph, start, s, t)
    BY TurnShape
  <2>3. CASE NextId(s) \in Visited(start, s[2])
    <3>1. t[1] = Tail(s[1]) /\ t[2] = s[2]
      BY <2>0, <2>3 DEF TurnTo
    <3> HIDE DEF t
    <3>2. unseen(t) = unseen(s)
      BY <3>1
    <3> QED
      BY <2>2, <2>3, <3>1, <3>2 DEF t
  <2>4. CASE NextId(s) \notin Visited(start, s[2])
    <3>1. t[2] = s[2] \cup {<<NextId(s), NextDepth(s)>>}
      BY <2>0, <2>4 DEF TurnTo
    <3> HIDE DEF t
    <3>2. \A y : y \in Visited(start, t[2]) <=> y \in Visited(start, s[2]) \/ y = NextId(s)
      <4> DEFINE e == <<NextId(s), NextDepth(s)>>
                 F == s[2]
                 G == t[2]
                 id == NextId(s)
      <4>1. e[1] = id /\ G = F \cup {e}
        BY <3>1
      <4> HIDE DEF e, F, G, id
      <4>2. \A y : (\E x \in G : y = x[1]) <=> (\E x \in F : y = x[1]) \/ y = id
        BY <4>1
      <4>3. \A y : y \in Visited(start, G) <=> y \in Visited(start, F) \/ y = id
        BY <4>2, VisitedIs
      <4> QED
        BY <4>3 DEF F, G, id
    <3>3. unseen(t) = unseen(s) \ {NextId(s)} /\ NextId(s) \in unseen(s)
      BY <2>2, <2>4, <3>2
    <3> HIDE DEF unseen
    <3>4. left(t) = left(s) - 1
      BY <1>2, <3>3, FS_RemoveElement
    <3> QED
      BY <3>4 DEF t
  <2> QED
    BY <2>3, <2>4
<1> HIDE DEF unseen, left
<1>4. 0 \in N
  BY <1>2
<1>5. ASSUME NEW n \in Nat, n \in N
      PROVE  n + 1 \in N
  <2> DEFINE short(k) == \A s \in SearchStates(graph) :
                           left(s) < n + 1 /\ Len(s[1]) <= k => s \in T
             K == {k \in Nat : short(k)}
  <2>1. \A s \in SearchStates(graph) : Len(s[1]) \in Nat /\ (Len(s[1]) <= 0 => s[1] = <<>>)
    <3> TAKE s \in SearchStates(graph)
    <3>1. s[1] \in Seq(Stops(graph))
      BY DEF SearchStates
    <3> QED
      BY <3>1, EmptySeq, LenProperties
  <2>2. 0 \in K
    BY <2>1
  <2>3. ASSUME NEW k \in Nat, k \in K
        PROVE  k + 1 \in K
    <3> SUFFICES ASSUME NEW s \in SearchStates(graph), left(s) < n + 1, Len(s[1]) <= k + 1
                 PROVE  s \in T
      OBVIOUS
    <3>1. CASE s[1] = <<>>
      BY <3>1
    <3>2. CASE s[1] # <<>>
      <4>1. Searched(graph, start, s) \in SearchStates(graph)
        BY <3>2, TurnShape
      <4>2. CASE /\ left(Searched(graph, start, s)) = left(s)
                 /\ Len(Searched(graph, start, s)[1]) = Len(s[1]) - 1
        <5>1. Len(Searched(graph, start, s)[1]) <= k
          BY <2>1, <4>2
        <5>2. Searched(graph, start, s) \in T
          BY <2>3, <4>1, <4>2, <5>1
        <5> QED
          BY <3>2, <5>2
      <4>3. CASE left(Searched(graph, start, s)) = left(s) - 1
        <5>1. left(Searched(graph, start, s)) < n
          BY <1>2, <4>3
        <5>2. Searched(graph, start, s) \in T
          BY <1>5, <4>1, <5>1
        <5> QED
          BY <3>2, <5>2
      <4> QED
        BY <1>3, <3>2, <4>2, <4>3
    <3> QED
      BY <3>1, <3>2
  <2> HIDE DEF K
  <2>4. \A k \in Nat : k \in K
    BY <2>2, <2>3, NatInduct
  <2>5. all(n + 1)
    <3> SUFFICES ASSUME NEW s \in SearchStates(graph), left(s) < n + 1
                 PROVE  s \in T
      OBVIOUS
    <3>1. Len(s[1]) \in K /\ Len(s[1]) \in Nat
      BY <2>1, <2>4
    <3> QED
      BY <3>1 DEF K
  <2> HIDE DEF all
  <2> QED
    BY <2>5
<1> HIDE DEF N
<1>6. \A n \in Nat : n \in N
  BY <1>4, <1>5, NatInduct
<1> SUFFICES ASSUME NEW s \in SearchStates(graph)
             PROVE  s \in T
  OBVIOUS
<1>7. left(s) + 1 \in N /\ left(s) \in Nat
  BY <1>2, <1>6
<1> QED
  BY <1>7 DEF N

(* The result of the search from every state, if there is such a function. *)
SearchFrom(f, graph, start, s) ==
    IF s[1] = <<>> THEN s[2] ELSE f[Searched(graph, start, s)]

IsSearch(f, graph, start) ==
    f = [s \in SearchStates(graph) |-> SearchFrom(f, graph, start, s)]

(* There is: the least set of pairs of a state and a result that has what  *)
(* an empty queue gives, and what the next state gives, is a function.     *)
LEMMA SearchExists ==
    ASSUME NEW graph, IsFiniteSet(Ids(graph)), NEW start
    PROVE  \E f : IsSearch(f, graph, start)
<1> DEFINE S == SearchStates(graph)
           R == SUBSET Stops(graph)
           next(s) == Searched(graph, start, s)
           ends(X) == \A s \in S : s[1] = <<>> => <<s, s[2]>> \in X
           turns(X) == \A s \in S, r \in R :
                         s[1] # <<>> /\ <<next(s), r>> \in X => <<s, r>> \in X
           G == {p \in S \X R : \A X \in SUBSET (S \X R) : ends(X) /\ turns(X) => p \in X}
<1>1. \A s \in S : s[2] \in R
  BY DEF SearchStates
<1>2. \A s \in S : s[1] # <<>> => next(s) \in S
  BY TurnShape
<1> HIDE DEF S, R, next
<1>3. ends(G)
  <2> TAKE s \in S
  <2> HAVE s[1] = <<>>
  <2>1. <<s, s[2]>> \in S \X R
    BY <1>1
  <2> QED
    BY <2>1
<1>4. turns(G)
  <2> TAKE s \in S, r \in R
  <2> HAVE s[1] # <<>> /\ <<next(s), r>> \in G
  <2>1. <<s, r>> \in S \X R
    OBVIOUS
  <2>2. ASSUME NEW X \in SUBSET (S \X R), ends(X), turns(X)
        PROVE  <<s, r>> \in X
    <3>1. <<next(s), r>> \in X
      BY <2>2
    <3> QED
      BY <2>2, <3>1
  <2> QED
    BY <2>1, <2>2
<1>5. \A X \in SUBSET (S \X R) : ends(X) /\ turns(X) => G \subseteq X
  OBVIOUS
<1>6. G \subseteq S \X R
  OBVIOUS
<1> HIDE DEF G
<1>7. \A s \in S, r \in R : s[1] = <<>> /\ <<s, r>> \in G => r = s[2]
  <2> TAKE s \in S, r \in R
  <2> HAVE s[1] = <<>> /\ <<s, r>> \in G
  <2> SUFFICES ASSUME r # s[2]
               PROVE  FALSE
    OBVIOUS
  <2> DEFINE X == G \ {<<s, r>>}
  <2>1. ends(X)
    <3> TAKE t \in S
    <3> HAVE t[1] = <<>>
    <3>1. <<t, t[2]>> \in G
      BY <1>3
    <3>2. <<t, t[2]>> # <<s, r>>
      OBVIOUS
    <3> QED
      BY <3>1, <3>2
  <2>2. turns(X)
    <3> TAKE t \in S, u \in R
    <3> HAVE t[1] # <<>> /\ <<next(t), u>> \in X
    <3>1. <<t, u>> \in G
      BY <1>4
    <3>2. <<t, u>> # <<s, r>>
      OBVIOUS
    <3> QED
      BY <3>1, <3>2
  <2>3. X \in SUBSET (S \X R)
    BY <1>6
  <2> HIDE DEF ends, turns
  <2>4. G \subseteq X
    BY <1>5, <2>1, <2>2, <2>3
  <2> QED
    BY <2>4
<1>8. \A s \in S, r \in R : s[1] # <<>> /\ <<s, r>> \in G => <<next(s), r>> \in G
  <2> TAKE s \in S, r \in R
  <2> HAVE s[1] # <<>> /\ <<s, r>> \in G
  <2> SUFFICES ASSUME <<next(s), r>> \notin G
               PROVE  FALSE
    OBVIOUS
  <2> DEFINE X == G \ {<<s, r>>}
  <2>1. ends(X)
    <3> TAKE t \in S
    <3> HAVE t[1] = <<>>
    <3>1. <<t, t[2]>> \in G
      BY <1>3
    <3>2. <<t, t[2]>> # <<s, r>>
      OBVIOUS
    <3> QED
      BY <3>1, <3>2
  <2>2. turns(X)
    <3> TAKE t \in S, u \in R
    <3> HAVE t[1] # <<>> /\ <<next(t), u>> \in X
    <3>1. <<t, u>> \in G
      BY <1>4
    <3>2. <<t, u>> # <<s, r>>
      <4> SUFFICES ASSUME t = s, u = r
                   PROVE  FALSE
        OBVIOUS
      <4> QED
        OBVIOUS
    <3> QED
      BY <3>1, <3>2
  <2>3. X \in SUBSET (S \X R)
    BY <1>6
  <2> HIDE DEF ends, turns
  <2>4. G \subseteq X
    BY <1>5, <2>1, <2>2, <2>3
  <2> QED
    BY <2>4
<1> DEFINE T == {s \in S : \E r \in R : /\ <<s, r>> \in G
                                        /\ \A u \in R : <<s, u>> \in G => u = r}
<1>9. \A s \in S : s[1] = <<>> => s \in T
  BY <1>1, <1>3, <1>7
<1>10. \A s \in S : s[1] # <<>> /\ next(s) \in T => s \in T
  <2> TAKE s \in S
  <2> HAVE s[1] # <<>> /\ next(s) \in T
  <2>1. PICK r \in R : <<next(s), r>> \in G /\ \A u \in R : <<next(s), u>> \in G => u = r
    OBVIOUS
  <2>2. <<s, r>> \in G
    BY <1>4, <2>1
  <2>3. \A u \in R : <<s, u>> \in G => u = r
    BY <1>8, <2>1
  <2> QED
    BY <2>2, <2>3
<1>11. \A s \in S : s \in T
  <2> HIDE DEF T
  <2> QED
    BY <1>9, <1>10, SearchInduct DEF S, next
<1> DEFINE result(s) == CHOOSE r \in R : <<s, r>> \in G
           f == [s \in S |-> result(s)]
<1>0. \A s \in S : result(s) \in R /\ <<s, result(s)>> \in G
  BY <1>11
<1> HIDE DEF result
<1>12. \A s \in S : f[s] \in R /\ <<s, f[s]>> \in G
  BY <1>0
<1>13. \A s \in S : f[s] = SearchFrom(f, graph, start, s)
  <2> TAKE s \in S
  <2>0. f[s] \in R /\ <<s, f[s]>> \in G
    BY <1>12
  <2> HIDE DEF f
  <2>1. CASE s[1] = <<>>
    <3>1. f[s] = s[2]
      BY <1>7, <2>0, <2>1
    <3> QED
      BY <2>1, <3>1 DEF SearchFrom
  <2>2. CASE s[1] # <<>>
    <3>1. <<next(s), f[s]>> \in G
      BY <1>8, <2>0, <2>2
    <3>2. next(s) \in S
      BY <1>2, <2>2
    <3>3. f[next(s)] \in R /\ <<next(s), f[next(s)]>> \in G
      BY <1>12, <3>2
    <3>4. PICK r \in R : \A u \in R : <<next(s), u>> \in G => u = r
      BY <1>11, <3>2
    <3>5. f[s] = f[next(s)]
      BY <2>0, <3>1, <3>3, <3>4
    <3> QED
      BY <2>2, <3>5 DEF SearchFrom, next
  <2> QED
    BY <2>1, <2>2
<1>14. f = [s \in S |-> f[s]]
  OBVIOUS
<1> HIDE DEF f
<1>15. f = [s \in S |-> SearchFrom(f, graph, start, s)]
  BY <1>13, <1>14
<1> QED
  BY <1>15 DEF IsSearch, S

(* The search from the calls of the start, as a fixed point of its turns.  *)
LEMMA ReachableIsSearch ==
    ASSUME NEW graph, IsFiniteSet(Ids(graph)), NEW start
    PROVE  \E f : /\ Reachable(graph, start) = f[<<Queued(graph, start, 1, {start}, <<>>), {}>>]
                  /\ \A s \in SearchStates(graph) :
                       f[s] = IF s[1] = <<>> THEN s[2] ELSE f[Searched(graph, start, s)]
<1> DEFINE f == CHOOSE g : IsSearch(g, graph, start)
<1>1. Reachable(graph, start) = f[<<Queued(graph, start, 1, {start}, <<>>), {}>>]
  BY DEF Reachable, IsSearch, SearchFrom, SearchStates, Stops, Ids
<1>2. IsSearch(f, graph, start)
  BY SearchExists
<1> HIDE DEF f
<1>3. \A s \in SearchStates(graph) : f[s] = SearchFrom(f, graph, start, s)
  BY <1>2 DEF IsSearch
<1> QED
  BY <1>1, <1>3 DEF SearchFrom

-----------------------------------------------------------------------------
(* The levels of a graph: what is reached in so many steps or fewer.       *)

NextOf(graph, x) == IF x \in DOMAIN graph THEN graph[x] ELSE {}

AreLevels(w, graph, start) ==
    /\ w[0] = {start}
    /\ \A k \in 1 .. MaxFlowDepth : \A y :
         y \in w[k] <=> y \in w[k - 1] \/ \E x \in w[k - 1] : y \in NextOf(graph, x)

(* What is found is at its level.                                          *)
AtLevels(w, found) ==
    \A x \in found : x[2] \in 1 .. MaxFlowDepth /\ x[1] \in w[x[2]] \ w[x[2] - 1]

(* What is queued is reached at its depth.                                 *)
QueueReached(w, q) ==
    \A i \in 1 .. Len(q) : q[i][2] \in 1 .. MaxFlowDepth /\ q[i][1] \in w[q[i][2]]

(* The queue is in the order of the depths, and holds at most two.         *)
QueueOrdered(q) ==
    \A i, j \in 1 .. Len(q) : i <= j => q[i][2] <= q[j][2] /\ q[j][2] <= q[i][2] + 1

(* The calls of what is found are visited or queued one deeper.            *)
CallsFollowed(graph, start, q, found) ==
    \A x \in found \cup {<<start, 0>>} : x[2] < MaxFlowDepth =>
      \A y \in NextOf(graph, x[1]) :
        y \in Visited(start, found) \/ \E i \in 1 .. Len(q) : q[i] = <<y, x[2] + 1>>

BreadthFirst(w, graph, start, s) ==
    /\ AtLevels(w, s[2]) /\ QueueReached(w, s[1]) /\ QueueOrdered(s[1])
    /\ CallsFollowed(graph, start, s[1], s[2])

LEMMA LevelsGrow ==
    ASSUME NEW w, NEW graph, NEW start, AreLevels(w, graph, start)
    PROVE  \A i, j \in 0 .. MaxFlowDepth : i <= j => w[i] \subseteq w[j]
<1> DEFINE below(j) == j <= MaxFlowDepth => \A i \in 0 .. j : w[i] \subseteq w[j]
           N == {j \in Nat : below(j)}
<1>0. MaxFlowDepth \in Nat
  BY DepthAssumption
<1>1. 0 \in N
  OBVIOUS
<1>2. ASSUME NEW j \in Nat, j \in N
      PROVE  j + 1 \in N
  <2> SUFFICES ASSUME j + 1 <= MaxFlowDepth, NEW i \in 0 .. j + 1
               PROVE  w[i] \subseteq w[j + 1]
    OBVIOUS
  <2>1. j + 1 \in 1 .. MaxFlowDepth /\ (j + 1) - 1 = j
    BY <1>0
  <2>2. w[j] \subseteq w[j + 1]
    BY <2>1 DEF AreLevels
  <2>3. i = j + 1 \/ (i \in 0 .. j /\ j <= MaxFlowDepth)
    BY <1>0
  <2> QED
    BY <1>2, <2>2, <2>3
<1> HIDE DEF N
<1>3. \A j \in Nat : j \in N
  BY <1>1, <1>2, NatInduct
<1> QED
  BY <1>0, <1>3 DEF N

(* What is reached in fewer steps than anything queued is visited.         *)
LEMMA BelowIsVisited ==
    ASSUME NEW w, NEW graph, NEW start, AreLevels(w, graph, start),
           NEW s \in SearchStates(graph), BreadthFirst(w, graph, start, s),
           NEW d \in 0 .. MaxFlowDepth,
           \A i \in 1 .. Len(s[1]) : s[1][i][2] > d
    PROVE  w[d] \subseteq Visited(start, s[2])
<1> DEFINE V == Visited(start, s[2])
           N == {k \in Nat : k <= d => w[k] \subseteq V}
<1>0. MaxFlowDepth \in Nat \ {0} /\ d \in Nat
  BY DepthAssumption
<1>1. start \in V /\ \A v \in V : v = start \/ \E x \in s[2] : x[1] = v
  BY DEF Visited
<1>2. s[2] \in SUBSET Stops(graph)
  BY DEF SearchStates
<1> HIDE DEF V
<1>3. 0 \in N
  BY <1>1 DEF AreLevels
<1>4. ASSUME NEW k \in Nat, k \in N
      PROVE  k + 1 \in N
  <2> SUFFICES ASSUME k + 1 <= d, NEW y \in w[k + 1]
               PROVE  y \in V
    OBVIOUS
  <2>1. w[k] \subseteq V /\ k + 1 \in 1 .. MaxFlowDepth /\ (k + 1) - 1 = k /\ k < MaxFlowDepth
    BY <1>0, <1>4
  <2>2. CASE y \in w[k]
    BY <2>1, <2>2
  <2>3. ASSUME NEW z \in w[k], y \in NextOf(graph, z)
        PROVE  y \in V
    <3>1. PICK x \in s[2] \cup {<<start, 0>>} : x[1] = z /\ x[2] \in Nat /\ x[2] <= k
      <4>1. CASE z = start
        <5> DEFINE x == <<start, 0>>
        <5>1. x \in s[2] \cup {<<start, 0>>} /\ x[1] = start /\ x[2] = 0
          OBVIOUS
        <5> HIDE DEF x
        <5> QED
          BY <4>1, <5>1
      <4>2. CASE z # start
        <5>1. PICK x \in s[2] : x[1] = z
          BY <1>1, <2>1, <4>2
        <5>2. x[2] \in 1 .. MaxFlowDepth /\ z \notin w[x[2] - 1]
          BY <5>1 DEF BreadthFirst, AtLevels
        <5>3. x[2] <= k
          <6> SUFFICES ASSUME x[2] > k
                       PROVE  FALSE
            BY <5>2
          <6>1. k \in 0 .. MaxFlowDepth /\ x[2] - 1 \in 0 .. MaxFlowDepth /\ k <= x[2] - 1
            BY <1>0, <2>1, <5>2
          <6>2. w[k] \subseteq w[x[2] - 1]
            BY <6>1, LevelsGrow
          <6> QED
            BY <5>2, <6>2
        <5> QED
          BY <5>1, <5>2, <5>3
      <4> QED
        BY <4>1, <4>2
    <3>2. x[2] < MaxFlowDepth
      BY <1>0, <2>1, <3>1
    <3>3. y \in Visited(start, s[2]) \/ \E i \in 1 .. Len(s[1]) : s[1][i] = <<y, x[2] + 1>>
      BY <2>3, <3>1, <3>2 DEF BreadthFirst, CallsFollowed
    <3>4. ASSUME NEW i \in 1 .. Len(s[1]), s[1][i] = <<y, x[2] + 1>>
          PROVE  FALSE
      <4>1. s[1][i][2] = x[2] + 1 /\ s[1][i][2] > d
        BY <3>4
      <4> QED
        BY <1>0, <2>1, <3>1, <4>1
    <3> QED
      BY <3>3, <3>4 DEF V
  <2> QED
    BY <2>1, <2>2, <2>3 DEF AreLevels
<1> HIDE DEF N
<1>5. d \in N
  BY <1>0, <1>3, <1>4, NatInduct
<1> QED
  BY <1>0, <1>5 DEF N, V

LEMMA CallsReachHigher ==
    ASSUME NEW w, NEW graph, NEW start, AreLevels(w, graph, start),
           NEW d \in 0 .. MaxFlowDepth, d < MaxFlowDepth, NEW x \in w[d],
           NEW y \in NextOf(graph, x)
    PROVE  d + 1 \in 1 .. MaxFlowDepth /\ y \in w[d + 1]
<1>1. MaxFlowDepth \in Nat
  BY DepthAssumption
<1>2. d + 1 \in 1 .. MaxFlowDepth /\ (d + 1) - 1 = d
  BY <1>1
<1> QED
  BY <1>2 DEF AreLevels

(* A node that is seen already is dropped.                                 *)
LEMMA DroppedKeeps ==
    ASSUME NEW w, NEW graph, NEW start, NEW s \in SearchStates(graph), s[1] # <<>>,
           BreadthFirst(w, graph, start, s), NextId(s) \in Visited(start, s[2]),
           NEW t \in SearchStates(graph), TurnTo(graph, start, s, t)
    PROVE  BreadthFirst(w, graph, start, t)
<1> DEFINE q == s[1]
           F == s[2]
           r == Tail(s[1])
<1>1. q \in Seq(Stops(graph))
  BY DEF SearchStates
<1>2. /\ Len(r) = Len(q) - 1 /\ Len(q) \in Nat \ {0}
      /\ \A i \in 1 .. Len(r) : r[i] = q[i + 1]
      /\ q[1][1] = NextId(s)
  BY <1>1, HeadIsAPlace DEF NextId
<1>3. AtLevels(w, F) /\ QueueReached(w, q) /\ QueueOrdered(q) /\ CallsFollowed(graph, start, q, F)
  BY DEF BreadthFirst
<1>0. t[1] = r /\ t[2] = F
  BY DEF TurnTo
<1> HIDE DEF q, F, r
<1>4. QueueReached(w, r)
  <2> SUFFICES ASSUME NEW i \in 1 .. Len(r)
               PROVE  r[i][2] \in 1 .. MaxFlowDepth /\ r[i][1] \in w[r[i][2]]
    BY DEF QueueReached
  <2>1. i + 1 \in 1 .. Len(q) /\ r[i] = q[i + 1]
    BY <1>2
  <2> QED
    BY <1>3, <2>1 DEF QueueReached
<1>5. QueueOrdered(r)
  <2> SUFFICES ASSUME NEW i \in 1 .. Len(r), NEW j \in 1 .. Len(r), i <= j
               PROVE  r[i][2] <= r[j][2] /\ r[j][2] <= r[i][2] + 1
    BY DEF QueueOrdered
  <2>1. /\ i + 1 \in 1 .. Len(q) /\ j + 1 \in 1 .. Len(q) /\ i + 1 <= j + 1
        /\ r[i] = q[i + 1] /\ r[j] = q[j + 1]
    BY <1>2
  <2> QED
    BY <1>3, <2>1 DEF QueueOrdered
<1>6. CallsFollowed(graph, start, r, F)
  <2> SUFFICES ASSUME NEW x \in F \cup {<<start, 0>>}, x[2] < MaxFlowDepth,
                      NEW y \in NextOf(graph, x[1]), y \notin Visited(start, F)
               PROVE  \E i \in 1 .. Len(r) : r[i] = <<y, x[2] + 1>>
    BY DEF CallsFollowed
  <2>1. PICK i \in 1 .. Len(q) : q[i] = <<y, x[2] + 1>>
    BY <1>3 DEF CallsFollowed
  <2>2. q[i][1] = y
    BY <2>1
  <2>3. i # 1
    BY <1>2, <2>2 DEF F
  <2>4. i - 1 \in 1 .. Len(r) /\ r[i - 1] = q[i]
    BY <1>2, <2>3
  <2> QED
    BY <2>1, <2>4
<1> QED
  BY <1>0, <1>3, <1>4, <1>5, <1>6 DEF BreadthFirst

(* A node that is new is found at the level of its depth.                  *)
LEMMA FoundKeeps ==
    ASSUME NEW w, NEW graph, NEW start, AreLevels(w, graph, start),
           NEW s \in SearchStates(graph), s[1] # <<>>,
           BreadthFirst(w, graph, start, s), NextId(s) \notin Visited(start, s[2]),
           NEW t \in SearchStates(graph),
           TurnTo(graph, start, s, t)
    PROVE  BreadthFirst(w, graph, start, t)
<1> DEFINE q == s[1]
           F == s[2]
           r == Tail(s[1])
           p == t[1]
           G == t[2]
           id == NextId(s)
           d == NextDepth(s)
           C == Calls(graph, id, Visited(start, F) \cup {id})
           e == <<id, d>>
<1>0. MaxFlowDepth \in Nat \ {0}
  BY DepthAssumption
<1>1. q \in Seq(Stops(graph)) /\ p \in Seq(Stops(graph)) /\ F \in SUBSET Stops(graph)
  BY DEF SearchStates
<1>2. /\ Len(r) = Len(q) - 1 /\ Len(q) \in Nat \ {0} /\ Len(p) \in Nat /\ Len(r) \in Nat
      /\ \A i \in 1 .. Len(r) : r[i] = q[i + 1]
      /\ q[1] = e
  BY <1>1, HeadIsAPlace, LenProperties DEF NextId, NextDepth
<1>3. AtLevels(w, F) /\ QueueReached(w, q) /\ QueueOrdered(q) /\ CallsFollowed(graph, start, q, F)
  BY DEF BreadthFirst
<1>4. e[1] = id /\ e[2] = d /\ G = F \cup {e}
  BY DEF TurnTo
<1>5. d < MaxFlowDepth => Behind(p, r, d + 1, C)
  BY DEF TurnTo
<1>6. ~(d < MaxFlowDepth) => p = r
  BY DEF TurnTo
<1>7. \A y : y \in C <=> y \in NextOf(graph, id) /\ y \notin Visited(start, F) /\ y # id
  BY DEF Calls, NextOf
<1>8. \A i \in 1 .. Len(q) : s[1][i] = q[i]
  OBVIOUS
<1>9. id \notin Visited(start, F)
  OBVIOUS
<1> HIDE DEF q, F, r, p, G, id, d, C, e
<1>10. d \in 1 .. MaxFlowDepth /\ id \in w[d]
  <2>1. 1 \in 1 .. Len(q)
    BY <1>2
  <2> QED
    BY <1>2, <1>3, <1>4, <2>1 DEF QueueReached
<1>11. w[d - 1] \subseteq Visited(start, F)
  <2>1. \A i \in 1 .. Len(q) : q[i][2] > d - 1
    <3> TAKE i \in 1 .. Len(q)
    <3>1. 1 \in 1 .. Len(q) /\ 1 <= i
      BY <1>2
    <3>2. q[1][2] <= q[i][2] /\ q[1][2] = d /\ q[i][2] \in 1 .. MaxFlowDepth
      BY <1>2, <1>3, <1>4, <3>1 DEF QueueOrdered, QueueReached
    <3> QED
      BY <1>0, <1>10, <3>2
  <2>2. d - 1 \in 0 .. MaxFlowDepth
    BY <1>0, <1>10
  <2> QED
    BY <2>1, <2>2, BelowIsVisited DEF q, F
<1>12. AtLevels(w, G)
  BY <1>3, <1>4, <1>9, <1>10, <1>11 DEF AtLevels
<1>13. Visited(start, G) = Visited(start, F) \cup {id}
  <2>1. \A y : (\E x \in G : y = x[1]) <=> (\E x \in F : y = x[1]) \/ y = id
    BY <1>4
  <2>2. \A y : y \in Visited(start, G) <=> y \in Visited(start, F) \/ y = id
    BY <2>1, VisitedIs
  <2> QED
    BY <2>2
(* The rest of the queue, and what came behind it.                         *)
<1>14. \A i \in 1 .. Len(r) : /\ r[i][2] \in 1 .. MaxFlowDepth /\ r[i][1] \in w[r[i][2]]
                              /\ d <= r[i][2] /\ r[i][2] <= d + 1
  <2> TAKE i \in 1 .. Len(r)
  <2>1. i + 1 \in 1 .. Len(q) /\ 1 \in 1 .. Len(q) /\ 1 <= i + 1 /\ r[i] = q[i + 1]
    BY <1>2
  <2>2. r[i][2] \in 1 .. MaxFlowDepth /\ r[i][1] \in w[r[i][2]]
    BY <1>3, <2>1 DEF QueueReached
  <2>3. q[1][2] <= q[i + 1][2] /\ q[i + 1][2] <= q[1][2] + 1
    BY <1>3, <2>1 DEF QueueOrdered
  <2> QED
    BY <1>2, <1>4, <2>1, <2>2, <2>3
<1>15. \A i, j \in 1 .. Len(r) : i <= j => r[i][2] <= r[j][2]
  <2> TAKE i \in 1 .. Len(r)
  <2> TAKE j \in 1 .. Len(r)
  <2> HAVE i <= j
  <2>1. i + 1 \in 1 .. Len(q) /\ j + 1 \in 1 .. Len(q) /\ i + 1 <= j + 1
    BY <1>2
  <2>2. q[i + 1][2] <= q[j + 1][2]
    BY <1>3, <2>1 DEF QueueOrdered
  <2> QED
    BY <1>2, <2>2
<1>16. /\ Len(r) <= Len(p)
       /\ \A i \in 1 .. Len(r) : p[i] = r[i]
       /\ \A i \in 1 .. Len(p) : i > Len(r) =>
            /\ d < MaxFlowDepth
            /\ p[i][2] = d + 1 /\ p[i][1] \in NextOf(graph, id)
  <2>1. CASE ~(d < MaxFlowDepth)
    BY <1>2, <1>6, <2>1
  <2>2. CASE d < MaxFlowDepth
    <3>1. Behind(p, r, d + 1, C)
      BY <1>5, <2>2
    <3>2. ASSUME NEW i \in 1 .. Len(p), i > Len(r)
          PROVE  p[i][2] = d + 1 /\ p[i][1] \in NextOf(graph, id)
      <4>1. i \in Len(r) + 1 .. Len(p)
        BY <1>2, <3>2
      <4>2. PICK y \in C : p[i] = <<y, d + 1>>
        BY <3>1, <4>1 DEF Behind
      <4> QED
        BY <1>7, <4>2
    <3> QED
      BY <2>2, <3>1, <3>2 DEF Behind
  <2> QED
    BY <2>1, <2>2
<1>17. \A i \in 1 .. Len(p) : /\ p[i][2] \in 1 .. MaxFlowDepth /\ p[i][1] \in w[p[i][2]]
                              /\ d <= p[i][2] /\ p[i][2] <= d + 1
  <2> TAKE i \in 1 .. Len(p)
  <2>1. CASE i <= Len(r)
    <3>1. i \in 1 .. Len(r)
      BY <1>2, <2>1
    <3> QED
      BY <1>14, <1>16, <3>1
  <2>2. CASE i > Len(r)
    <3>1. /\ d < MaxFlowDepth
          /\ p[i][2] = d + 1 /\ p[i][1] \in NextOf(graph, id)
      BY <1>16, <2>2
    <3>2. d \in 0 .. MaxFlowDepth
      BY <1>0, <1>10
    <3>3. d + 1 \in 1 .. MaxFlowDepth /\ p[i][1] \in w[d + 1]
      BY <1>10, <3>1, <3>2, CallsReachHigher
    <3> QED
      BY <1>0, <1>10, <3>1, <3>3
  <2> QED
    BY <1>2, <2>1, <2>2
<1>18. QueueReached(w, p)
  BY <1>17 DEF QueueReached
<1>19. QueueOrdered(p)
  <2> SUFFICES ASSUME NEW i \in 1 .. Len(p), NEW j \in 1 .. Len(p), i <= j
               PROVE  p[i][2] <= p[j][2] /\ p[j][2] <= p[i][2] + 1
    BY DEF QueueOrdered
  <2>1. /\ p[i][2] \in Nat /\ p[j][2] \in Nat /\ d \in Nat
        /\ d <= p[i][2] /\ p[i][2] <= d + 1 /\ d <= p[j][2] /\ p[j][2] <= d + 1
    BY <1>0, <1>10, <1>17
  <2>2. p[i][2] <= p[j][2]
    <3>1. CASE j <= Len(r)
      <4>1. i \in 1 .. Len(r) /\ j \in 1 .. Len(r)
        BY <1>2, <3>1
      <4>2. p[i] = r[i] /\ p[j] = r[j] /\ r[i][2] <= r[j][2]
        BY <1>15, <1>16, <4>1
      <4> QED
        BY <4>2
    <3>2. CASE j > Len(r)
      <4>1. p[j][2] = d + 1
        BY <1>16, <3>2
      <4> QED
        BY <2>1, <4>1
    <3> QED
      BY <1>2, <3>1, <3>2
  <2> QED
    BY <2>1, <2>2
<1>20. CallsFollowed(graph, start, p, G)
  <2> SUFFICES ASSUME NEW x \in G \cup {<<start, 0>>}, x[2] < MaxFlowDepth,
                      NEW y \in NextOf(graph, x[1]), y \notin Visited(start, G)
               PROVE  \E i \in 1 .. Len(p) : p[i] = <<y, x[2] + 1>>
    BY DEF CallsFollowed
  <2>0. y \notin Visited(start, F) /\ y # id
    BY <1>13
  <2>1. CASE x \in F \cup {<<start, 0>>}
    <3>1. PICK i \in 1 .. Len(q) : q[i] = <<y, x[2] + 1>>
      BY <1>3, <2>0, <2>1 DEF CallsFollowed
    <3>2. q[i][1] = y
      BY <3>1
    <3>3. i # 1
      BY <1>2, <1>4, <2>0, <3>2
    <3>4. i - 1 \in 1 .. Len(r) /\ r[i - 1] = q[i]
      BY <1>2, <3>3
    <3>5. i - 1 \in 1 .. Len(p) /\ p[i - 1] = q[i]
      BY <1>2, <1>16, <3>4
    <3> QED
      BY <3>1, <3>5
  <2>2. CASE x = e
    <3>1. x[1] = id /\ x[2] = d
      BY <1>4, <2>2
    <3>2. y \in C
      BY <1>7, <2>0, <3>1
    <3>3. Behind(p, r, d + 1, C)
      BY <1>5, <3>1
    <3>4. PICK i \in 1 .. Len(p) : p[i] = <<y, d + 1>>
      BY <3>2, <3>3 DEF Behind
    <3> QED
      BY <3>1, <3>4
  <2> QED
    BY <1>4, <2>1, <2>2
<1> QED
  BY <1>12, <1>18, <1>19, <1>20 DEF BreadthFirst, p, G

LEMMA TurnKeeps ==
    ASSUME NEW w, NEW graph, IsFiniteSet(Ids(graph)), NEW start, AreLevels(w, graph, start),
           NEW s \in SearchStates(graph), s[1] # <<>>, BreadthFirst(w, graph, start, s)
    PROVE  BreadthFirst(w, graph, start, Searched(graph, start, s))
<1> DEFINE t == Searched(graph, start, s)
<1>1. t \in SearchStates(graph) /\ TurnTo(graph, start, s, t)
  BY TurnShape
<1> HIDE DEF t
<1>2. BreadthFirst(w, graph, start, t)
  BY <1>1, DroppedKeeps, FoundKeeps
<1> QED
  BY <1>2 DEF t

(* The search starts with the calls of the start, one step away.           *)
LEMMA StartsBreadthFirst ==
    ASSUME NEW w, NEW graph, IsFiniteSet(Ids(graph)), NEW start, AreLevels(w, graph, start)
    PROVE  /\ <<Queued(graph, start, 1, {start}, <<>>), {}>> \in SearchStates(graph)
           /\ BreadthFirst(w, graph, start, <<Queued(graph, start, 1, {start}, <<>>), {}>>)
<1> DEFINE q == Queued(graph, start, 1, {start}, <<>>)
           C == Calls(graph, start, {start})
<1>0. MaxFlowDepth \in Nat \ {0}
  BY DepthAssumption
<1>1. C \in SUBSET Ids(graph)
  BY DEF Calls, Ids
<1>2. IsFiniteSet(C)
  BY <1>1, FS_Subset
<1>3. <<>> \in Seq(Stops(graph)) /\ Len(<<>>) = 0
  BY EmptySeq
<1>4. q \in Seq(Stops(graph)) /\ Behind(q, <<>>, 1, C)
  BY <1>1, <1>2, <1>3, QueuedBehind DEF Stops
<1>5. \A y : y \in C <=> y \in NextOf(graph, start) /\ y # start
  BY DEF Calls, NextOf
<1> HIDE DEF C, q
<1>6. \A i \in 1 .. Len(q) : q[i][2] = 1 /\ q[i][1] \in NextOf(graph, start)
  <2> TAKE i \in 1 .. Len(q)
  <2>1. i \in Len(<<>>) + 1 .. Len(q)
    BY <1>3
  <2>2. PICK y \in C : q[i] = <<y, 1>>
    BY <1>4, <2>1 DEF Behind
  <2>3. y \in NextOf(graph, start) /\ q[i][1] = y /\ q[i][2] = 1
    BY <1>5, <2>2
  <2> QED
    BY <2>3
<1>7. start \in w[0] /\ 0 \in 0 .. MaxFlowDepth /\ 0 < MaxFlowDepth
  BY <1>0 DEF AreLevels
<1>8. QueueReached(w, q)
  <2> SUFFICES ASSUME NEW i \in 1 .. Len(q)
               PROVE  q[i][2] \in 1 .. MaxFlowDepth /\ q[i][1] \in w[q[i][2]]
    BY DEF QueueReached
  <2>1. q[i][2] = 1 /\ q[i][1] \in NextOf(graph, start)
    BY <1>6
  <2>2. 0 + 1 \in 1 .. MaxFlowDepth /\ q[i][1] \in w[0 + 1]
    BY <1>7, <2>1, CallsReachHigher
  <2> QED
    BY <2>1, <2>2
<1>9. QueueOrdered(q)
  <2> SUFFICES ASSUME NEW i \in 1 .. Len(q), NEW j \in 1 .. Len(q)
               PROVE  q[i][2] <= q[j][2] /\ q[j][2] <= q[i][2] + 1
    BY DEF QueueOrdered
  <2>1. q[i][2] = 1 /\ q[j][2] = 1
    BY <1>6
  <2> QED
    BY <2>1
<1>10. CallsFollowed(graph, start, q, {})
  <2> SUFFICES ASSUME NEW x \in {} \cup {<<start, 0>>}, NEW y \in NextOf(graph, x[1]),
                      y \notin Visited(start, {})
               PROVE  \E i \in 1 .. Len(q) : q[i] = <<y, x[2] + 1>>
    BY DEF CallsFollowed
  <2>1. x[1] = start /\ x[2] + 1 = 1
    OBVIOUS
  <2>2. y # start
    BY DEF Visited
  <2>3. y \in C
    BY <1>5, <2>1, <2>2
  <2>4. PICK i \in 1 .. Len(q) : q[i] = <<y, 1>>
    BY <1>4, <2>3 DEF Behind
  <2> QED
    BY <2>1, <2>4
<1>11. AtLevels(w, {})
  BY DEF AtLevels
<1>12. <<q, {}>> \in SearchStates(graph)
  BY <1>4 DEF SearchStates
<1>13. BreadthFirst(w, graph, start, <<q, {}>>)
  BY <1>8, <1>9, <1>10, <1>11 DEF BreadthFirst
<1> QED
  BY <1>12, <1>13 DEF q

(* What is first reached at each level.                                    *)
Shortest(w) == UNION {{<<id, k>> : id \in w[k] \ w[k - 1]} : k \in 1 .. MaxFlowDepth}

(* With nothing left in the queue every level is visited.                  *)
LEMMA EndsShortest ==
    ASSUME NEW w, NEW graph, NEW start, AreLevels(w, graph, start),
           NEW s \in SearchStates(graph), s[1] = <<>>, BreadthFirst(w, graph, start, s)
    PROVE  s[2] = Shortest(w)
<1> DEFINE F == s[2]
<1>0. MaxFlowDepth \in Nat \ {0}
  BY DepthAssumption
<1>1. F \in SUBSET Stops(graph) /\ AtLevels(w, F)
  BY DEF SearchStates, BreadthFirst
<1>2. w[MaxFlowDepth] \subseteq Visited(start, F)
  <2>1. \A i \in 1 .. Len(s[1]) : s[1][i][2] > MaxFlowDepth
    BY EmptySeq
  <2>2. MaxFlowDepth \in 0 .. MaxFlowDepth
    BY <1>0
  <2> QED
    BY <2>1, <2>2, BelowIsVisited
<1> HIDE DEF F
<1>3. F \subseteq Shortest(w)
  <2> SUFFICES ASSUME NEW x \in F
               PROVE  x \in Shortest(w)
    OBVIOUS
  <2>1. x = <<x[1], x[2]>>
    BY <1>1 DEF Stops
  <2>2. x[2] \in 1 .. MaxFlowDepth /\ x[1] \in w[x[2]] \ w[x[2] - 1]
    BY <1>1 DEF AtLevels
  <2>3. x \in {<<id, x[2]>> : id \in w[x[2]] \ w[x[2] - 1]}
    BY <2>1, <2>2
  <2> QED
    BY <2>2, <2>3 DEF Shortest
<1>4. ASSUME NEW k \in 1 .. MaxFlowDepth, NEW id \in w[k] \ w[k - 1]
      PROVE  <<id, k>> \in F
  <2>1. /\ k \in 0 .. MaxFlowDepth /\ k - 1 \in 0 .. MaxFlowDepth /\ 0 \in 0 .. MaxFlowDepth
        /\ MaxFlowDepth \in 0 .. MaxFlowDepth /\ 0 <= k - 1 /\ k <= MaxFlowDepth
    BY <1>0
  <2>2. w[k] \subseteq w[MaxFlowDepth] /\ w[0] \subseteq w[k - 1]
    BY <2>1, LevelsGrow
  <2>3. id \in Visited(start, F) /\ id # start
    BY <1>2, <2>2 DEF AreLevels
  <2>4. PICK x \in F : x[1] = id
    BY <2>3 DEF Visited
  <2>5. x[2] \in 1 .. MaxFlowDepth /\ id \in w[x[2]] /\ id \notin w[x[2] - 1]
    BY <1>1, <2>4 DEF AtLevels
  <2>6. x[2] \in 0 .. MaxFlowDepth /\ x[2] - 1 \in 0 .. MaxFlowDepth
    BY <1>0, <2>5
  <2>7. ~(x[2] <= k - 1)
    BY <2>1, <2>5, <2>6, LevelsGrow
  <2>8. ~(k <= x[2] - 1)
    BY <2>1, <2>5, <2>6, LevelsGrow
  <2>9. x[2] = k
    BY <1>0, <2>5, <2>7, <2>8
  <2>10. x = <<x[1], x[2]>>
    BY <1>1 DEF Stops
  <2> QED
    BY <2>4, <2>9, <2>10
<1>5. Shortest(w) \subseteq F
  BY <1>4 DEF Shortest
<1> QED
  BY <1>3, <1>5 DEF F

(* The breadth-first search finds every node within reach once, at the     *)
(* length of the shortest way to it.                                       *)
LEMMA ReachableIsShortest ==
    ASSUME NEW w, NEW graph, IsFiniteSet(Ids(graph)), NEW start, AreLevels(w, graph, start)
    PROVE  Reachable(graph, start) = Shortest(w)
<1>1. PICK f : /\ Reachable(graph, start) = f[<<Queued(graph, start, 1, {start}, <<>>), {}>>]
               /\ \A s \in SearchStates(graph) :
                    f[s] = IF s[1] = <<>> THEN s[2] ELSE f[Searched(graph, start, s)]
  BY ReachableIsSearch
<1> DEFINE T == {s \in SearchStates(graph) :
                   BreadthFirst(w, graph, start, s) => f[s] = Shortest(w)}
<1>2. \A s \in SearchStates(graph) : s[1] = <<>> => s \in T
  BY <1>1, EndsShortest
<1>3. \A s \in SearchStates(graph) :
        s[1] # <<>> /\ Searched(graph, start, s) \in T => s \in T
  BY <1>1, TurnKeeps
<1> HIDE DEF T
<1>4. \A s \in SearchStates(graph) : s \in T
  BY <1>2, <1>3, SearchInduct
<1> DEFINE q == Queued(graph, start, 1, {start}, <<>>)
<1>5. <<q, {}>> \in SearchStates(graph) /\ BreadthFirst(w, graph, start, <<q, {}>>)
  BY StartsBreadthFirst
<1> HIDE DEF q
<1>6. f[<<q, {}>>] = Shortest(w)
  <2>1. <<q, {}>> \in T
    BY <1>4, <1>5
  <2> QED
    BY <1>5, <2>1 DEF T
<1> QED
  BY <1>1, <1>6 DEF q

(* What is within reach of a node, step by step.                           *)
LevelAt(map, w, root, k) ==
    IF k = 0 THEN {root}
    ELSE w[k - 1] \cup {e.to : e \in {d \in CallEdges(map) : d.from \in w[k - 1]}}

IsWithin(w, map, root) == w = [k \in 0 .. MaxFlowDepth |-> LevelAt(map, w, root, k)]

LEMMA WithinExists ==
    ASSUME NEW map, NEW root
    PROVE  \E w : IsWithin(w, map, root)
<1> DEFINE some(n) == \E w : w = [k \in 0 .. n |-> LevelAt(map, w, root, k)]
           N == {n \in Nat : some(n)}
<1>1. 0 \in N
  <2> DEFINE w == [k \in 0 .. 0 |-> {root}]
  <2>1. w = [k \in 0 .. 0 |-> LevelAt(map, w, root, k)]
    BY DEF LevelAt
  <2> QED
    BY <2>1
<1>2. ASSUME NEW n \in Nat, n \in N
      PROVE  n + 1 \in N
  <2>1. PICK w : w = [k \in 0 .. n |-> LevelAt(map, w, root, k)]
    BY <1>2
  <2> DEFINE v == [k \in 0 .. n + 1 |-> IF k \in 0 .. n THEN w[k]
                                        ELSE LevelAt(map, w, root, k)]
  <2>2. \A k \in 0 .. n : v[k] = w[k]
    OBVIOUS
  <2>3. \A k \in 0 .. n + 1 : v[k] = LevelAt(map, w, root, k)
    <3> TAKE k \in 0 .. n + 1
    <3>1. k \in 0 .. n => w[k] = LevelAt(map, w, root, k)
      BY <2>1
    <3> QED
      BY <3>1
  <2>4. v = [k \in 0 .. n + 1 |-> v[k]]
    OBVIOUS
  <2> HIDE DEF v
  <2>5. ASSUME NEW k \in 0 .. n + 1
        PROVE  LevelAt(map, v, root, k) = LevelAt(map, w, root, k)
    <3>1. CASE k = 0
      BY <3>1 DEF LevelAt
    <3>2. CASE k # 0
      <4>1. k - 1 \in 0 .. n
        BY <3>2
      <4>2. v[k - 1] = w[k - 1]
        BY <2>2, <4>1
      <4> QED
        BY <3>2, <4>2 DEF LevelAt
    <3> QED
      BY <3>1, <3>2
  <2>6. v = [k \in 0 .. n + 1 |-> LevelAt(map, v, root, k)]
    BY <2>3, <2>4, <2>5
  <2>7. some(n + 1)
    BY <2>6
  <2> HIDE DEF some
  <2> QED
    BY <2>7
<1> HIDE DEF N
<1>3. MaxFlowDepth \in Nat /\ MaxFlowDepth \in N
  BY <1>1, <1>2, NatInduct, DepthAssumption
<1> QED
  BY <1>3 DEF N, IsWithin

(* The graph of the flows has the call edges of the map and no others.     *)
LEMMA ForwardIs ==
    ASSUME NEW r, Readable(r)
    PROVE  /\ GraphEdges(BuildRelationMap(r)) = CallEdges(BuildRelationMap(r))
           /\ \A x, y : y \in NextOf(Forward(BuildRelationMap(r)), x) <=>
                          \E e \in CallEdges(BuildRelationMap(r)) : e.from = x /\ e.to = y
           /\ \A x \in Ids(Forward(BuildRelationMap(r))) : Known(BuildRelationMap(r), x)
<1> DEFINE map == BuildRelationMap(r)
<1>1. \A e \in CallEdges(map) : Known(map, e.from) /\ Known(map, e.to)
  <2>1. \A e \in CallEdges(map) : e \in map.edges
    BY DEF CallEdges
  <2> QED
    BY <2>1, EdgesJoinNodes DEF Joined
<1> HIDE DEF map
<1>2. GraphEdges(map) = CallEdges(map)
  BY <1>1 DEF GraphEdges
<1> DEFINE D == {n.id : n \in {m \in map.nodes : Callable(m)}}
                \cup {e.from : e \in CallEdges(map)}
<1>3. /\ DOMAIN Forward(map) = D
      /\ \A x \in D : Forward(map)[x] = {e.to : e \in {d \in CallEdges(map) : d.from = x}}
  BY <1>2 DEF Forward
<1>4. \A x \in D : Known(map, x)
  <2>1. \A n \in map.nodes : Known(map, n.id)
    BY DEF Known
  <2> QED
    BY <1>1, <2>1
<1>5. \A e \in CallEdges(map) : e.from \in D
  OBVIOUS
<1> HIDE DEF D
<1>6. \A x, y : y \in NextOf(Forward(map), x) <=> \E e \in CallEdges(map) : e.from = x /\ e.to = y
  BY <1>3, <1>5 DEF NextOf
<1>7. \A x \in Ids(Forward(map)) : Known(map, x)
  <2>1. \A x \in D : \A y \in Forward(map)[x] : Known(map, y)
    BY <1>1, <1>3
  <2> QED
    BY <1>3, <1>4, <2>1 DEF Ids
<1> QED
  BY <1>2, <1>6, <1>7 DEF map

(* A repository has finitely many nodes.                                   *)
LEMMA NodesFinite ==
    ASSUME NEW r, Readable(r)
    PROVE  IsFiniteSet({n.id : n \in BuildRelationMap(r).nodes})
<1> DEFINE P == UNION {{f} \X DOMAIN r.text[f] : f \in Parsed(r)}
           id(f, i) == <<TypeOfDef(r.text[f], i), f, Bodies(r.text[f])[r.text[f][i].up],
                         r.text[f][i].node.name>>
           g == [p \in P |-> id(p[1], p[2])]
           h == [f \in Parsed(r) |-> FileNode(f)]
           A == {g[p] : p \in P}
           B == {h[f] : f \in Parsed(r)}
<1>1. IsFiniteSet(P)
  BY PlacesFinite
<1>2. IsFiniteSet(Parsed(r))
  BY FS_Subset DEF Readable, Parsed
<1> HIDE DEF P
<1>3. IsFiniteSet(A)
  <2>1. g \in Surjection(P, A)
    BY Zenon DEF Surjection
  <2> HIDE DEF g, A
  <2> QED
    BY <1>1, <2>1, FS_Surjection
<1>4. IsFiniteSet(B)
  <2>1. h \in Surjection(Parsed(r), B)
    BY DEF Surjection
  <2> HIDE DEF h, B
  <2> QED
    BY <1>2, <2>1, FS_Surjection
<1>5. \A n \in FileNodes(r) : n.id \in B
  BY DEF FileNodes
<1>6. ASSUME NEW f \in Parsed(r), NEW n \in DefNodes(r, f)
      PROVE  n.id \in A
  <2> DEFINE text == r.text[f]
             defs == {[at |-> i, type |-> TypeOfDef(text, i), name |-> text[i].node.name,
                       scope |-> Bodies(text)[text[i].up]] : i \in Places(text, {"def", "class"})}
  <2>1. Inventory(r)[f].defs = defs
    <3>1. Inventory(r)[f] = FileRecord(text)
      BY InventoryIs
    <3>2. FileRecord(text).defs = defs
      BY DEF FileRecord
    <3> QED
      BY <3>1, <3>2
  <2>2. PICK x \in InFile(f, defs) : n.id = NodeId(x)
    <3> HIDE DEF defs
    <3> QED
      BY <2>1 DEF DefNodes
  <2>3. PICK d \in defs : x = [file |-> f, def |-> d]
    <3> HIDE DEF defs
    <3> QED
      BY <2>2 DEF InFile
  <2>4. PICK i \in Places(text, {"def", "class"}) :
          d = [at |-> i, type |-> TypeOfDef(text, i), name |-> text[i].node.name,
               scope |-> Bodies(text)[text[i].up]]
    BY <2>3
  <2>5. n.id = id(f, i)
    BY <2>2, <2>3, <2>4, Zenon DEF NodeId
  <2>6. <<f, i>> \in P
    <3>1. i \in DOMAIN r.text[f]
      BY <2>4 DEF Places
    <3> QED
      BY <3>1 DEF P
  <2> HIDE DEF id, text, defs
  <2>7. g[<<f, i>>] = id(f, i)
    BY <2>6
  <2> HIDE DEF g
  <2> QED
    BY <2>5, <2>6, <2>7
<1> HIDE DEF A, B
<1>7. {n.id : n \in BuildRelationMap(r).nodes} \in SUBSET (A \cup B)
  <2>1. BuildRelationMap(r).nodes = FileNodes(r) \cup UNION {DefNodes(r, f) : f \in Parsed(r)}
    BY NodesAre
  <2> QED
    BY <1>5, <1>6, <2>1
<1>8. IsFiniteSet(A \cup B)
  BY <1>3, <1>4, FS_Union
<1> QED
  BY <1>7, <1>8, FS_Subset

(* A flow that follows the calls holds what its root reaches.              *)
LEMMA FlowsAreFound ==
    ASSUME NEW r, Readable(r), NEW cluster, CallEdges(BuildRelationMap(r)) # {},
           NEW g \in BuildFlowMap(BuildRelationMap(r), cluster).flows,
           NEW w, IsWithin(w, BuildRelationMap(r), g.root)
    PROVE  g.found = Shortest(w)
<1> DEFINE map == BuildRelationMap(r)
           graph == Forward(map)
           root == g.root
<1>0. MaxFlowDepth \in Nat \ {0}
  BY DepthAssumption
<1>1. /\ GraphEdges(map) = CallEdges(map)
      /\ \A x, y : y \in NextOf(graph, x) <=> \E e \in CallEdges(map) : e.from = x /\ e.to = y
      /\ \A x \in Ids(graph) : Known(map, x)
  BY ForwardIs
<1>2. IsFiniteSet({n.id : n \in map.nodes})
  BY NodesFinite
<1> HIDE DEF map
<1>3. g.found = Reachable(graph, root)
  <2>1. BuildFlowMap(map, cluster).flows
          = {FlowRecord(map, cluster, x) : x \in EntryPoints(map, cluster.clusters)}
    BY <1>1 DEF BuildFlowMap, map
  <2>2. PICK x : g = FlowRecord(map, cluster, x)
    BY <2>1 DEF map
  <2>3. FlowRecord(map, cluster, x).root = x
        /\ FlowRecord(map, cluster, x).found = Reachable(Forward(map), x)
    BY DEF FlowRecord, Flow
  <2> QED
    BY <2>2, <2>3
<1>4. IsFiniteSet(Ids(graph))
  <2>1. Ids(graph) \in SUBSET {n.id : n \in map.nodes}
    BY <1>1 DEF Known
  <2> QED
    BY <1>2, <2>1, FS_Subset
<1> HIDE DEF graph, root
<1>5. AreLevels(w, graph, root)
  <2>1. \A k \in 0 .. MaxFlowDepth : w[k] = LevelAt(map, w, root, k)
    BY DEF IsWithin, map, root
  <2>2. w[0] = {root}
    <3>1. 0 \in 0 .. MaxFlowDepth
      BY <1>0
    <3> QED
      BY <2>1, <3>1 DEF LevelAt
  <2>3. ASSUME NEW k \in 1 .. MaxFlowDepth, NEW y
        PROVE  y \in w[k] <=> y \in w[k - 1] \/ \E x \in w[k - 1] : y \in NextOf(graph, x)
    <3>1. k \in 0 .. MaxFlowDepth /\ k # 0
      BY <1>0
    <3>2. w[k] = w[k - 1] \cup {e.to : e \in {d \in CallEdges(map) : d.from \in w[k - 1]}}
      BY <2>1, <3>1 DEF LevelAt
    <3>3. y \in w[k] <=> y \in w[k - 1] \/ \E e \in CallEdges(map) : e.from \in w[k - 1] /\ e.to = y
      BY <3>2
    <3> QED
      BY <1>1, <3>3
  <2> QED
    BY <2>2, <2>3 DEF AreLevels
<1> QED
  BY <1>3, <1>4, <1>5, ReachableIsShortest

(* Every flow holds what its root reaches by calls in at most MaxFlowDepth *)
(* steps, each at the length of the shortest way there, for every          *)
(* repository (_bfs_reachable).                                            *)
THEOREM FlowsAlwaysAreShortestPaths == Spec => []FlowsAreShortestPaths
<1>1. Stages => FlowsAreShortestPaths
  <2> SUFFICES ASSUME Stages, flows # None, CallEdges(relations) # {}, NEW g \in flows.flows
               PROVE  g.found = Shortest(Within(g.root))
    BY DEF FlowsAreShortestPaths, Shortest
  <2>1. /\ scan # None /\ relations = BuildRelationMap(Seen)
        /\ flows = BuildFlowMap(relations, clusters)
    BY DEF Stages
  <2>2. Readable(Seen)
    BY <2>1, SeenIs
  <2>3. IsWithin(Within(g.root), relations, g.root)
    <3>1. Within(g.root) = CHOOSE w : IsWithin(w, relations, g.root)
      BY DEF Within, IsWithin, LevelAt
    <3> QED
      BY <3>1, WithinExists
  <2> QED
    BY <2>1, <2>2, <2>3, FlowsAreFound
<1> QED
  BY <1>1, StagesAlways, PTL

-----------------------------------------------------------------------------
(* The nodes of the flows.                                                 *)

(* The node of a definition: its type, its file, its scope and its name.   *)
IsDefinitionId(r, id) ==
    /\ id = <<id[1], id[2], id[3], id[4]>>
    /\ id[1] \in DOMAIN TypeRank /\ id[2] \in Parsed(r)

LEMMA NodeIdIs ==
    ASSUME NEW r, NEW f \in Parsed(r), NEW d \in Inventory(r)[f].defs
    PROVE  /\ NodeId([file |-> f, def |-> d]) = <<d.type, f, d.scope, d.name>>
           /\ d.type \in DOMAIN TypeRank
<1> DEFINE text == r.text[f]
           P(i) == [at |-> i, type |-> TypeOfDef(text, i), name |-> text[i].node.name,
                    scope |-> Bodies(text)[text[i].up]]
<1>1. Inventory(r)[f].defs = {P(i) : i \in Places(text, {"def", "class"})}
  <2>1. Inventory(r)[f] = FileRecord(text)
    BY InventoryIs
  <2>2. FileRecord(text).defs = {P(i) : i \in Places(text, {"def", "class"})}
    BY DEF FileRecord
  <2> QED
    BY <2>1, <2>2
<1>2. PICK i : d = P(i)
  BY <1>1
<1>3. d.type = TypeOfDef(text, i)
  BY <1>2
<1>4. TypeOfDef(text, i) \in {"class", "method", "function", "nested_function"}
  BY DEF TypeOfDef
<1> QED
  BY <1>3, <1>4 DEF NodeId, TypeRank

LEMMA KnownIs ==
    ASSUME NEW r, NEW n \in BuildRelationMap(r).nodes
    PROVE  \/ n.id = FileNode(n.file) /\ n.id[1] = "file"
           \/ IsDefinitionId(r, n.id) /\ n.id[1] # "file" /\ n.id[2] = n.file
<1>1. n \in FileNodes(r) \/ \E f \in Parsed(r) : n \in DefNodes(r, f)
  BY NodesAre
<1>2. CASE n \in FileNodes(r)
  BY <1>2 DEF FileNodes, FileNode
<1>3. ASSUME NEW f \in Parsed(r), n \in DefNodes(r, f)
      PROVE  IsDefinitionId(r, n.id) /\ n.id[1] # "file" /\ n.id[2] = n.file
  <2>1. PICK x \in InFile(f, Inventory(r)[f].defs) : n.id = NodeId(x) /\ n.file = f
    BY <1>3 DEF DefNodes
  <2>2. PICK d \in Inventory(r)[f].defs : x = [file |-> f, def |-> d]
    BY <2>1 DEF InFile
  <2>3. n.id = <<d.type, f, d.scope, d.name>> /\ d.type \in DOMAIN TypeRank
    BY <2>1, <2>2, NodeIdIs
  <2> QED
    BY <2>1, <2>3 DEF IsDefinitionId, TypeRank
<1> QED
  BY <1>1, <1>2, <1>3

(* The nodes of a flow, its root first, are nodes of the map.              *)
LEMMA FlowNodesKnown ==
    ASSUME NEW r, Readable(r), NEW cluster,
           NEW g \in BuildFlowMap(BuildRelationMap(r), cluster).flows,
           NEW id \in {g.root} \cup {x[1] : x \in g.found}
    PROVE  Known(BuildRelationMap(r), id)
<1> DEFINE map == BuildRelationMap(r)
<1>1. Known(map, g.root)
  BY FlowsCiteNodes DEF FlowRecordsCiteActualNodes
<1>2. ASSUME CallEdges(map) # {}, NEW x \in g.found
      PROVE  Known(map, x[1])
  <2>1. PICK w : IsWithin(w, map, g.root)
    BY WithinExists
  <2>2. g.found = Shortest(w)
    BY <1>2, <2>1, FlowsAreFound
  <2>3. PICK k \in 1 .. MaxFlowDepth : x[1] \in w[k] \ w[k - 1]
    BY <1>2, <2>2 DEF Shortest
  <2>4. k \in 0 .. MaxFlowDepth /\ k # 0
    BY DepthAssumption
  <2>5. w[k] = w[k - 1] \cup {e.to : e \in {d \in CallEdges(map) : d.from \in w[k - 1]}}
    BY <2>1, <2>4 DEF IsWithin, LevelAt
  <2>6. PICK e \in map.edges : x[1] = e.to
    BY <2>3, <2>5 DEF CallEdges
  <2> QED
    BY <2>6, EdgesJoinNodes DEF Joined
<1>3. ASSUME CallEdges(map) = {}, NEW x \in g.found
      PROVE  Known(map, x[1])
  <2>1. GraphEdges(map) = {}
    BY <1>3, ForwardIs
  <2> HIDE DEF map
  <2>2. g \in SyntheticFlows(map)
    BY <2>1 DEF BuildFlowMap, map
  <2>3. PICK m \in map.nodes : x[1] = m.id
    BY <1>3, <2>2 DEF SyntheticFlows, Flow
  <2> QED
    BY <2>3 DEF Known
<1> QED
  BY <1>1, <1>2, <1>3

(* A root has one flow.                                                    *)
LEMMA OneFlowOfRoot ==
    ASSUME NEW r, Readable(r), NEW cluster,
           NEW g \in BuildFlowMap(BuildRelationMap(r), cluster).flows,
           NEW h \in BuildFlowMap(BuildRelationMap(r), cluster).flows,
           g.root = h.root
    PROVE  g = h
<1> DEFINE map == BuildRelationMap(r)
<1>1. \A n, m \in map.nodes : Callable(n) /\ Callable(m) /\ n.id = m.id => n.file = m.file
  <2> SUFFICES ASSUME NEW n \in map.nodes, NEW m \in map.nodes,
                      Callable(n), Callable(m), n.id = m.id
               PROVE  n.file = m.file
    OBVIOUS
  <2>1. /\ n.id = <<"file", n.file>> \/ n.id[2] = n.file
        /\ m.id = <<"file", m.file>> \/ m.id[2] = m.file
    BY KnownIs DEF FileNode
  <2> HIDE DEF map
  <2>2. n.id[2] = n.file /\ m.id[2] = m.file
    BY <2>1
  <2> QED
    BY <2>2
<1> HIDE DEF map
<1>2. CASE GraphEdges(map) = {}
  <2>1. g \in SyntheticFlows(map) /\ h \in SyntheticFlows(map)
    BY <1>2 DEF BuildFlowMap, map
  <2> DEFINE F(n) == Flow(n.id,
               {<<m.id, 0>> : m \in {x \in map.nodes :
                                  Callable(x) /\ x.file = n.file /\ x.id # n.id}},
               {}, 0, 0, "entry_point")
  <2>2. PICK n \in map.nodes : Callable(n) /\ g = F(n)
    BY <2>1 DEF SyntheticFlows
  <2>3. PICK m \in map.nodes : Callable(m) /\ h = F(m)
    BY <2>1 DEF SyntheticFlows
  <2>4. n.id = m.id
    BY <2>2, <2>3 DEF Flow
  <2>5. n.file = m.file
    BY <1>1, <2>2, <2>3, <2>4
  <2> QED
    BY <2>2, <2>3, <2>4, <2>5
<1>3. CASE GraphEdges(map) # {}
  <2>1. PICK x : g = FlowRecord(map, cluster, x)
    BY <1>3 DEF BuildFlowMap, map
  <2>2. PICK y : h = FlowRecord(map, cluster, y)
    BY <1>3 DEF BuildFlowMap, map
  <2>3. g.root = x /\ h.root = y
    BY <2>1, <2>2 DEF FlowRecord, Flow
  <2> QED
    BY <2>1, <2>2, <2>3
<1> QED
  BY <1>2, <1>3

(* Of the nodes of a flow that have a name, the one that is looked at is   *)
(* one of them.                                                            *)
LEMMA LastNodeIs ==
    ASSUME NEW flow, IsFiniteSet(NodesOf(flow)),
           \A x \in NodesOf(flow) : x[1] \in DOMAIN TypeRank /\ x[2] \in Nat,
           NEW id \in NodesOf(flow)
    PROVE  /\ LastNode(flow, id[4]) \in NodesOf(flow)
           /\ LastNode(flow, id[4])[4] = id[4]
<1> DEFINE named == {x \in NodesOf(flow) : x[4] = id[4]}
           late == IF named = {flow.root} THEN named ELSE named \ {flow.root}
           last(x) == \A y \in late : \/ TypeRank[y[1]] < TypeRank[x[1]]
                                      \/ y[1] = x[1] /\ y[2] <= x[2]
<1>1. late \subseteq named /\ late # {}
  OBVIOUS
<1>2. \E x \in late : last(x)
  <2> HIDE DEF late, last
  <2>1. \A x \in late : TypeRank[x[1]] \in 1 .. 4 /\ x[2] \in Nat
    BY <1>1 DEF TypeRank
  <2> DEFINE R == {TypeRank[x[1]] : x \in late}
  <2>2. R \subseteq 0 .. 4 /\ R # {}
    BY <1>1, <2>1
  <2> HIDE DEF R
  <2>3. Max(R) \in R /\ \A k \in R : Max(R) >= k
    BY <2>2, GreatestBelow
  <2> DEFINE F == {x[2] : x \in {y \in late : TypeRank[y[1]] = Max(R)}}
  <2>4. F \in SUBSET Nat /\ F # {}
    BY <2>1, <2>3 DEF R
  <2>5. IsFiniteSet(F)
    <3> DEFINE S == {y \in late : TypeRank[y[1]] = Max(R)}
               f == [y \in S |-> y[2]]
    <3>1. IsFiniteSet(S)
      <4>1. S \in SUBSET NodesOf(flow)
        BY <1>1
      <4> QED
        BY <4>1, FS_Subset
    <3>2. f \in Surjection(S, F)
      BY DEF Surjection
    <3> HIDE DEF S, f, F
    <3> QED
      BY <3>1, <3>2, FS_Surjection
  <2>6. Max(F) \in F /\ \A k \in F : Max(F) >= k
    BY <2>4, <2>5, GreatestElement
  <2>7. PICK x \in late : TypeRank[x[1]] = Max(R) /\ x[2] = Max(F)
    BY <2>6
  <2>8. ASSUME NEW y \in late
        PROVE  \/ TypeRank[y[1]] < TypeRank[x[1]]
               \/ y[1] = x[1] /\ y[2] <= x[2]
    <3>1. TypeRank[y[1]] \in R /\ TypeRank[y[1]] <= TypeRank[x[1]]
      BY <2>1, <2>2, <2>3, <2>7 DEF R
    <3>2. CASE TypeRank[y[1]] = TypeRank[x[1]]
      <4>1. y[2] \in F
        BY <2>7, <3>2
      <4>2. y[2] <= x[2]
        BY <2>1, <2>4, <2>6, <2>7, <4>1
      <4>3. x[1] \in DOMAIN TypeRank /\ y[1] \in DOMAIN TypeRank
        BY <1>1
      <4>4. y[1] = x[1]
        BY <3>2, <4>3 DEF TypeRank
      <4> QED
        BY <4>2, <4>4
    <3> QED
      BY <2>1, <3>1, <3>2
  <2> QED
    BY <2>7, <2>8 DEF last
<1>3. LastNode(flow, id[4]) = CHOOSE x \in late : last(x)
  BY DEF LastNode
<1>4. LastNode(flow, id[4]) \in late
  <2> HIDE DEF late, last
  <2> QED
    BY <1>2, <1>3
<1> QED
  BY <1>1, <1>4

(* The names that are looked for grow from those a flow starts with.       *)
NextHop(before, actions, breakdown) ==
    LET silent(S) == {n \in S : \A a \in actions : BaseName(a.scope) # n}
        called == UNION {CalledFrom(breakdown, n) : n \in silent(before.frontier)}
        new    == called \ before.all
    IN  [all |-> before.all \cup new, frontier |-> new]

HopAt(hop, names, actions, breakdown, k) ==
    IF k = 0 THEN [all |-> names, frontier |-> names]
    ELSE NextHop(hop[k - 1], actions, breakdown)

IsHops(hop, names, actions, breakdown) ==
    hop = [k \in 0 .. 2 |-> HopAt(hop, names, actions, breakdown, k)]

LEMMA NamesGrow ==
    ASSUME NEW names, NEW actions, NEW breakdown
    PROVE  names \subseteq ExpandNames(names, actions, breakdown)
<1> DEFINE at(h, k) == HopAt(h, names, actions, breakdown, k)
           h0 == [k \in 0 .. 2 |-> [all |-> names, frontier |-> names]]
           h1 == [h0 EXCEPT ![1] = at(h0, 1)]
           h2 == [h1 EXCEPT ![2] = at(h1, 2)]
           hop == CHOOSE h : IsHops(h, names, actions, breakdown)
<1>1. ExpandNames(names, actions, breakdown) = hop[2].all
  BY DEF ExpandNames, IsHops, HopAt, NextHop
<1>2. IsHops(h2, names, actions, breakdown)
  <2>1. /\ h1[0] = h0[0] /\ h1[1] = at(h0, 1) /\ DOMAIN h1 = 0 .. 2
        /\ h2[0] = h0[0] /\ h2[1] = h1[1] /\ h2[2] = at(h1, 2)
        /\ h2 = [k \in 0 .. 2 |-> h2[k]]
    OBVIOUS
  <2>2. h0[0] = at(h2, 0)
    BY DEF HopAt
  <2> HIDE DEF h0, h1, h2
  <2>3. at(h2, 1) = at(h0, 1)
    BY <2>1 DEF HopAt
  <2>4. at(h2, 2) = at(h1, 2)
    BY <2>1 DEF HopAt
  <2>5. \A k \in 0 .. 2 : h2[k] = at(h2, k)
    BY <2>1, <2>2, <2>3, <2>4
  <2> QED
    BY <2>1, <2>5 DEF IsHops
<1> HIDE DEF h0, h1, h2
<1>3. IsHops(hop, names, actions, breakdown)
  BY <1>2
<1> HIDE DEF hop
<1>4. \A k \in 0 .. 2 : hop[k] = at(hop, k)
  BY <1>3 DEF IsHops
<1>5. hop[0].all = names
  BY <1>4 DEF HopAt
<1>6. hop[0].all \subseteq hop[1].all /\ hop[1].all \subseteq hop[2].all
  <2>1. \A h : h.all \subseteq NextHop(h, actions, breakdown).all
    BY DEF NextHop
  <2>2. /\ hop[1] = NextHop(hop[0], actions, breakdown)
        /\ hop[2] = NextHop(hop[1], actions, breakdown)
    BY <1>4 DEF HopAt
  <2> QED
    BY <2>1, <2>2
<1> QED
  BY <1>1, <1>5, <1>6

LEMMA PathMatchesItself ==
    ASSUME NEW path, IsPath(path)
    PROVE  FilesMatch(path, path)
<1>1. Len(path) \in Nat
  BY DEF IsPath
<1>2. Reverse(path) = [i \in 1 .. Len(path) |-> path[(Len(path) - i) + 1]]
  BY DEF Reverse
<1>3. Len(Reverse(path)) = Len(path)
  BY <1>1, <1>2
<1> QED
  BY <1>1, <1>3 DEF FilesMatch, IsSuffix, IsPrefix

(* The steps of a workflow hold every action of every definition that its  *)
(* flow reaches, unless the flow reaches a namesake of it in another file, *)
(* for every repository (_derive_workflows).                               *)
THEOREM WorkflowsAlwaysHaveTheirSteps == Spec => []WorkflowsHaveTheirSteps
<1>1. Stages => WorkflowsHaveTheirSteps
  <2> SUFFICES ASSUME Stages, meaning # None, NEW g \in flows.flows,
                      NEW id \in NodesOf(g), NEW a \in meaning.map.actions,
                      \A other \in NodesOf(g) : other[4] = id[4] => other[2] = id[2],
                      StandsIn(a.file, a.scope) = Tail(id)
               PROVE  a \in meaning.map.workflows[g.root].steps
    BY DEF WorkflowsHaveTheirSteps, NodesOf
  <2>1. /\ scan # None /\ relations = BuildRelationMap(Seen)
        /\ flows = BuildFlowMap(relations, clusters)
        /\ meaning = Compose(Meaning(Seen, breakdowns, clusters, flows))
    BY DEF Stages
  <2>2. Readable(Seen)
    BY <2>1, SeenIs
  <2> DEFINE actions == meaning.map.actions
             flow == CHOOSE h \in flows.flows : h.root = g.root
  <2>3. meaning.map.workflows = DeriveWorkflows(flows, actions, Seen, breakdowns)
    BY <2>1 DEF Compose, Meaning
  <2>4. flow = g
    BY <2>1, <2>2, OneFlowOfRoot
  <2>5. meaning.map.workflows[g.root]
          = DeriveWorkflow(g, flows.metrics, actions, Seen, breakdowns)
    <3>1. g.root \in {h.root : h \in flows.flows}
      OBVIOUS
    <3> QED
      BY <2>3, <2>4, <3>1 DEF DeriveWorkflows
  <2> HIDE DEF flow
  <2>6. \A x \in NodesOf(g) : IsDefinitionId(Seen, x) /\ Known(relations, x)
    <3> TAKE x \in NodesOf(g)
    <3>1. Known(relations, x) /\ x[1] # "file"
      BY <2>1, <2>2, FlowNodesKnown DEF NodesOf
    <3>2. PICK n \in BuildRelationMap(Seen).nodes : n.id = x
      BY <2>1, <3>1 DEF Known
    <3>3. IsDefinitionId(Seen, n.id)
      BY <3>1, <3>2, KnownIs
    <3> QED
      BY <3>1, <3>2, <3>3
  <2>7. IsFiniteSet(NodesOf(g))
    <3>1. NodesOf(g) \in SUBSET {n.id : n \in BuildRelationMap(Seen).nodes}
      BY <2>1, <2>6 DEF Known
    <3> QED
      BY <2>2, <3>1, NodesFinite, FS_Subset
  <2>8. \A x \in NodesOf(g) : x[1] \in DOMAIN TypeRank /\ x[2] \in Nat
    BY <2>2, <2>6 DEF IsDefinitionId, Readable, Parsed
  <2>9. a.file = id[2] /\ BaseName(a.scope) = id[4]
    <3>1. Tail(id) = <<id[2], id[3], id[4]>>
      <4>1. id = <<id[1], id[2], id[3], id[4]>>
        BY <2>6 DEF IsDefinitionId
      <4> DEFINE v == <<id[1], id[2], id[3], id[4]>>
      <4>2. Tail(v) = <<id[2], id[3], id[4]>>
        OBVIOUS
      <4>3. id = v
        BY <4>1
      <4> HIDE DEF v
      <4> QED
        BY <4>2, <4>3
    <3>2. a.scope # <<>>
      <4>1. \A f, x, y, z : <<f>> # <<x, y, z>>
        OBVIOUS
      <4> QED
        BY <3>1, <4>1 DEF StandsIn
    <3>3. <<a.file, Front(a.scope), Last(a.scope)[2]>> = <<id[2], id[3], id[4]>>
      BY <3>1, <3>2 DEF StandsIn
    <3> QED
      BY <3>2, <3>3 DEF BaseName
  <2> DEFINE last == LastNode(g, id[4])
  <2>10. last \in NodesOf(g) /\ last[4] = id[4]
    BY <2>7, <2>8, LastNodeIs
  <2>11. last[2] = a.file
    BY <2>9, <2>10
  <2> HIDE DEF last
  <2>12. FilesMatch(Seen.path[a.file], Seen.path[a.file])
    <3>1. id[2] \in scan
      BY <2>1, <2>6, SeenIs DEF IsDefinitionId
    <3>2. IsPath(Seen.path[a.file])
      BY <2>1, <2>9, <3>1, SeenIs
    <3> QED
      BY <3>2, PathMatchesItself
  <2> DEFINE own == {x[4] : x \in NodesOf(g)}
             found == IF g.callees = {} /\ g.root[1] # "file"
                 THEN {Head(c) : c \in {x \in Callees(breakdowns[g.root[2]],
                                                      <<<<"def", g.root[4]>>>>) :
                                          Len(x) = 1}}
                 ELSE {}
             names == ExpandNames(own \cup found, actions, breakdowns)
                      \cup SiblingNames(g, flows.metrics, actions)
             matches(x) == FilesMatch(Seen.path[x.file],
                                      Seen.path[LastNode(g, BaseName(x.scope))[2]])
  <2>13. DeriveWorkflow(g, flows.metrics, actions, Seen, breakdowns).steps
           = {x \in actions : /\ BaseName(x.scope) \in names
                              /\ BaseName(x.scope) \in own => matches(x)}
    BY DEF DeriveWorkflow
  <2>14. BaseName(a.scope) \in names
    <3>1. own \cup found \subseteq ExpandNames(own \cup found, actions, breakdowns)
      BY NamesGrow
    <3> HIDE DEF found
    <3> QED
      BY <2>9, <3>1
  <2>15. matches(a)
    BY <2>9, <2>11, <2>12 DEF last
  <2> HIDE DEF names, own, matches
  <2> QED
    BY <2>5, <2>13, <2>14, <2>15
<1> QED
  BY <1>1, StagesAlways, PTL

-----------------------------------------------------------------------------
(* The evidence of the meaning layer.                                      *)

AllSites(seen, breakdown) ==
    UNION {FileSites(f, seen.text[f], breakdown[f]) :
             f \in {g \in DOMAIN breakdown : ~breakdown[g].broken}}

LEMMA BreakdownsAre ==
    ASSUME NEW r, NEW map
    PROVE  LET B == BuildFileBreakdowns(r, Inventory(r), map)
           IN  /\ DOMAIN B = Files(r)
               /\ {f \in DOMAIN B : ~B[f].broken} = Parsed(r)
               /\ \A f \in Parsed(r) : B[f].symbols = Inventory(r)[f].defs
<1> DEFINE B == BuildFileBreakdowns(r, Inventory(r), map)
<1>1. DOMAIN B = Files(r)
  BY DEF BuildFileBreakdowns
<1>2. \A f \in Files(r) : B[f].broken <=> f \in r.broken
  BY DEF BuildFileBreakdowns
<1>3. \A f \in Parsed(r) : B[f].symbols = Inventory(r)[f].defs
  BY DEF BuildFileBreakdowns, Parsed
<1> HIDE DEF B
<1>4. {f \in DOMAIN B : ~B[f].broken} = Parsed(r)
  BY <1>1, <1>2 DEF Parsed
<1> QED
  BY <1>1, <1>3, <1>4 DEF B

LEMMA SitesOfFile ==
    ASSUME NEW f, NEW text, NEW b, NEW s \in FileSites(f, text, b)
    PROVE  s.file = f
<1>1. \A pass, at, scope, ability, level :
        Site(f, pass, at, scope, ability, level).file = f
  BY DEF Site
<1>2. CASE s \in CallSites(f, b)
  BY <1>2, <1>1 DEF CallSites
<1>3. CASE s \in DecoratorSites(f, text)
  BY <1>3, <1>1 DEF DecoratorSites
<1>4. CASE s \in BaseSites(f, text)
  BY <1>4, <1>1 DEF BaseSites
<1>5. CASE s \in MainSites(f, b)
  BY <1>5, <1>1 DEF MainSites
<1>6. CASE s \in DynamicSites(f, text)
  BY <1>6, <1>1 DEF DynamicSites
<1>7. CASE s \in ImportSites(f, text)
  <2> DEFINE M == {i \in Places(text, {"from"}) :
                     text[i].node.level = 0 /\ Head(text[i].node.mod) \in DOMAIN ImportAbility}
             ability(i) == ImportAbility[Head(text[i].node.mod)]
             first(a) == Min({i \in M : ability(i) = a})
             T == {ability(i) : i \in M}
  <2>1. ImportSites(f, text) = {Site(f, 6, first(a), <<>>, a, Low) : a \in T}
    BY DEF ImportSites
  <2> HIDE DEF first, T
  <2> QED
    BY <1>1, <1>7, <2>1
<1> QED
  BY <1>2, <1>3, <1>4, <1>5, <1>6, <1>7 DEF FileSites

(* An ability holds the sites that suggest it, and their files.            *)
AreAbilities(A, S) ==
    /\ DOMAIN A = {s.ability : s \in S}
    /\ \A a \in DOMAIN A : /\ A[a].sites = {s \in S : s.ability = a}
                           /\ A[a].files = {s.file : s \in A[a].sites}

LEMMA AbilitiesAre ==
    ASSUME NEW seen, NEW B
    PROVE  AreAbilities(ExtractAbilities(seen, B), AllSites(seen, B))
<1> DEFINE S == AllSites(seen, B)
           of(a) == {s \in S : s.ability = a}
<1>1. ExtractAbilities(seen, B)
        = [a \in {s.ability : s \in S} |->
             [level |-> AbilityLevel(of(a)), sites |-> of(a),
              files |-> {s.file : s \in of(a)}]]
  BY DEF ExtractAbilities, AllSites
<1> DEFINE A == ExtractAbilities(seen, B)
<1> HIDE DEF S, A, of
<1>2. DOMAIN A = {s.ability : s \in S}
  BY <1>1 DEF A
<1>3. \A a \in DOMAIN A : A[a].sites = of(a) /\ A[a].files = {s.file : s \in of(a)}
  BY <1>1, <1>2 DEF A
<1>4. \A a : of(a) = {s \in S : s.ability = a}
  BY DEF of
<1>5. AreAbilities(A, S)
  BY <1>2, <1>3, <1>4 DEF AreAbilities
<1> QED
  BY <1>5 DEF A, S

(* Every site is the evidence of one action, with those of its file, scope *)
(* and ability.                                                            *)
AreActions(actions, S) ==
    /\ \A a \in actions :
         /\ a.sites # {}
         /\ a.sites = {s \in S : /\ s.file = a.file /\ s.scope = a.scope
                                 /\ s.ability = a.ability}
    /\ \A s \in S : \E a \in actions : s \in a.sites
    /\ \A a, b \in actions :
         a.file = b.file /\ a.scope = b.scope /\ a.ability = b.ability => a = b

LEMMA ActionsAre ==
    ASSUME NEW A, NEW S, AreAbilities(A, S), NEW B
    PROVE  AreActions(DeriveActions(A, B), S)
<1> DEFINE sites(f, scope, a) == {s \in A[a].sites : s.file = f /\ s.scope = scope}
           level(f, scope, a) ==
             LET base == IF ResolvesScope(B[f], scope) THEN A[a].level
                         ELSE Degrade(A[a].level)
             IN  IF Cardinality(sites(f, scope, a)) >= 2 THEN Upgrade(base) ELSE base
           action(f, scope, a) ==
             [file |-> f, scope |-> scope, ability |-> a, sites |-> sites(f, scope, a),
              level |-> level(f, scope, a)]
           D == UNION {A[a].sites : a \in DOMAIN A}
           actions == DeriveActions(A, B)
<1>1. actions = {action(s.file, s.scope, s.ability) : s \in D}
  BY DEF DeriveActions
<1>2. D = S
  <2>1. \A s \in S : s.ability \in DOMAIN A /\ s \in A[s.ability].sites
    BY DEF AreAbilities
  <2>2. \A a \in DOMAIN A : A[a].sites \subseteq S
    BY DEF AreAbilities
  <2> QED
    BY <2>1, <2>2
<1> HIDE DEF D, actions, level
<1>3. ASSUME NEW s \in S
      PROVE  sites(s.file, s.scope, s.ability)
               = {t \in S : t.file = s.file /\ t.scope = s.scope /\ t.ability = s.ability}
  BY <1>3 DEF AreAbilities
<1>4. ASSUME NEW a \in actions
      PROVE  \E s \in S : /\ a = action(s.file, s.scope, s.ability)
                          /\ a.sites = {t \in S : /\ t.file = a.file /\ t.scope = a.scope
                                                  /\ t.ability = a.ability}
                          /\ s \in a.sites
  <2>1. PICK s \in S : a = action(s.file, s.scope, s.ability)
    BY <1>1, <1>2
  <2>2. /\ a.file = s.file /\ a.scope = s.scope /\ a.ability = s.ability
        /\ a.sites = sites(s.file, s.scope, s.ability)
    BY <2>1
  <2> HIDE DEF sites, action
  <2> QED
    BY <1>3, <2>1, <2>2
<1>5. ASSUME NEW s \in S
      PROVE  \E a \in actions : s \in a.sites
  <2>1. action(s.file, s.scope, s.ability) \in actions
    BY <1>1, <1>2
  <2>2. s \in sites(s.file, s.scope, s.ability)
    BY <1>3
  <2> QED
    BY <2>1, <2>2
<1>6. \A a \in actions : a = action(a.file, a.scope, a.ability)
  <2>1. \A s : LET a == action(s.file, s.scope, s.ability)
               IN  a.file = s.file /\ a.scope = s.scope /\ a.ability = s.ability
    OBVIOUS
  <2> HIDE DEF action
  <2> QED
    BY <1>4, <2>1
<1> HIDE DEF action, sites
<1>7. \A a, b \in actions :
        a.file = b.file /\ a.scope = b.scope /\ a.ability = b.ability => a = b
  BY <1>6
<1>8. \A a \in actions :
        /\ a.sites # {}
        /\ a.sites = {s \in S : /\ s.file = a.file /\ s.scope = a.scope
                                /\ s.ability = a.ability}
  BY <1>4
<1> QED
  BY <1>5, <1>7, <1>8 DEF AreActions, actions

(* Every action belongs to one function, with those of its file and scope. *)
AreFunctions(functions, actions) ==
    /\ \A x \in functions :
         /\ x.sites = Sites(x.actions)
         /\ x.actions # {} => x.actions = {a \in actions : a.file = x.file /\ a.scope = x.scope}
         /\ x.at = 0 => x.actions # {}
    /\ \A a \in actions : \E x \in functions : a \in x.actions
    /\ \A x, y \in functions :
         /\ x.actions # {} /\ y.actions # {} /\ x.file = y.file /\ x.scope = y.scope
         => x = y

(* Every function and method has a meaning, or a namesake in its file has. *)
HaveMeaning(functions, r) ==
    \A f \in Parsed(r) : \A d \in Inventory(r)[f].defs :
      d.type \in {"function", "method"} =>
        \E x \in functions : x.file = f /\ BaseName(x.scope) = d.name

LEMMA DefinitionIs ==
    ASSUME NEW r, Readable(r), NEW f \in Parsed(r), NEW d \in Inventory(r)[f].defs
    PROVE  d.at # 0 /\ BaseName(Append(d.scope, <<"def", d.name>>)) = d.name
<1> DEFINE text == r.text[f]
           P(i) == [at |-> i, type |-> TypeOfDef(text, i), name |-> text[i].node.name,
                    scope |-> Bodies(text)[text[i].up]]
<1>1. Inventory(r)[f].defs = {P(i) : i \in Places(text, {"def", "class"})}
  <2>1. Inventory(r)[f] = FileRecord(text)
    BY InventoryIs
  <2>2. FileRecord(text).defs = {P(i) : i \in Places(text, {"def", "class"})}
    BY DEF FileRecord
  <2> QED
    BY <2>1, <2>2
<1>2. PICK i \in DOMAIN text : d = P(i)
  BY <1>1 DEF Places
<1>3. IsText(text)
  BY DEF Readable, Parsed
<1>4. i # 0 /\ text[i].up \in 0 .. Len(text)
  BY <1>3, TextIs
<1>5. Bodies(text)[text[i].up] \in Seq(Frame)
  BY <1>3, <1>4, BodiesEquation
<1>6. d.at = i /\ d.scope \in Seq(Frame)
  BY <1>2, <1>5
<1> DEFINE more == Append(d.scope, <<"def", d.name>>)
<1>7. Len(more) = Len(d.scope) + 1 /\ more[Len(d.scope) + 1] = <<"def", d.name>> /\ more # <<>>
  BY <1>6
<1> HIDE DEF more
<1>8. BaseName(more) = d.name
  BY <1>7 DEF BaseName, Last
<1> QED
  BY <1>4, <1>6, <1>8 DEF more

LEMMA ResolvedAre ==
    ASSUME NEW actions, NEW B
    PROVE  LET R == ResolvedFunctions(actions, B)
           IN  /\ AreFunctions(R, actions)
               /\ \A x \in R : x.actions # {}
<1> DEFINE of(f, scope) == {a \in actions : a.file = f /\ a.scope = scope}
           class(f, scope) ==
             IF /\ Cardinality(of(f, scope)) <= 2
                /\ Cardinality(Callees(B[f], scope)) >= 3
             THEN "coordinator" ELSE "behaviorally_resolved"
           function(f, scope) == Function(f, 0, scope, class(f, scope),
                                   MinConfidence(Levels(of(f, scope))), of(f, scope))
           R == ResolvedFunctions(actions, B)
<1>1. R = {function(a.file, a.scope) : a \in actions}
  BY DEF ResolvedFunctions
<1>2. \A f, scope : LET x == function(f, scope)
                    IN  /\ x.file = f /\ x.scope = scope /\ x.actions = of(f, scope)
                        /\ x.sites = Sites(x.actions)
  BY DEF Function
<1> HIDE DEF R, function, class
<1>3. \A x \in R : \E a \in actions : /\ x = function(a.file, a.scope)
                                      /\ x.file = a.file /\ x.scope = a.scope
                                      /\ x.actions = of(x.file, x.scope)
                                      /\ x.sites = Sites(x.actions)
                                      /\ a \in x.actions
  BY <1>1, <1>2
<1>4. \A a \in actions : \E x \in R : a \in x.actions
  BY <1>1, <1>2
<1> HIDE DEF of
<1>5. \A x, y \in R : x.file = y.file /\ x.scope = y.scope => x = y
  BY <1>3
<1>6. \A x \in R : /\ x.actions # {} /\ x.sites = Sites(x.actions)
                   /\ x.actions = of(x.file, x.scope)
  BY <1>3
<1> QED
  BY <1>4, <1>5, <1>6 DEF AreFunctions, R, of

LEMMA DiscoveredAre ==
    ASSUME NEW r, Readable(r), NEW map, NEW actions
    PROVE  LET B == BuildFileBreakdowns(r, Inventory(r), map)
               D == DiscoveredFunctions(actions, r, B)
           IN  /\ \A x \in D : x.actions = {} /\ x.sites = Sites(x.actions) /\ x.at # 0
               /\ \A f \in Parsed(r) : \A d \in Inventory(r)[f].defs :
                    d.type \in {"function", "method"} /\ ~Covered(actions, f, d) =>
                      \E x \in D : x.file = f /\ BaseName(x.scope) = d.name
<1> DEFINE B == BuildFileBreakdowns(r, Inventory(r), map)
           scope(d) == Append(d.scope, <<"def", d.name>>)
           many(f, d) == Cardinality(Callees(B[f], scope(d)))
           class(f, d) ==
             CASE many(f, d) >= 2 -> "coordinator"
               [] many(f, d) = 1 -> IF HasContent(r.text[f], scope(d))
                                    THEN "thin_wrapper" ELSE "pure_wrapper"
               [] many(f, d) = 0 -> "structurally_discovered"
           open(f) == {d \in B[f].symbols :
                         d.type \in {"function", "method"} /\ ~Covered(actions, f, d)}
           found(f, d) == Function(f, d.at, scope(d), class(f, d), Unknown, {})
           D == DiscoveredFunctions(actions, r, B)
<1>1. D = UNION {{found(f, d) : d \in open(f)} : f \in DOMAIN B}
  BY DEF DiscoveredFunctions
<1>2. \A f, d : LET x == found(f, d)
                IN  /\ x.file = f /\ x.at = d.at /\ x.scope = scope(d) /\ x.actions = {}
                    /\ x.sites = Sites(x.actions)
  BY DEF Function
<1> HIDE DEF D, found, class
<1>3. /\ DOMAIN B = Files(r) /\ Parsed(r) \subseteq Files(r)
      /\ \A f \in Parsed(r) : B[f].symbols = Inventory(r)[f].defs
      /\ \A f \in DOMAIN B : B[f].symbols # {} => f \in Parsed(r)
  <2>1. \A f \in Files(r) : B[f].symbols # {} => f \notin r.broken
    BY DEF BuildFileBreakdowns
  <2> QED
    BY <2>1, BreakdownsAre DEF Parsed
<1> HIDE DEF B
<1>4. ASSUME NEW x \in D
      PROVE  x.actions = {} /\ x.sites = Sites(x.actions) /\ x.at # 0
  <2>1. PICK f \in DOMAIN B : \E d \in B[f].symbols : x = found(f, d)
    BY <1>1
  <2>2. PICK d \in B[f].symbols : x = found(f, d)
    BY <2>1
  <2>3. f \in Parsed(r) /\ d \in Inventory(r)[f].defs
    BY <1>3
  <2>4. d.at # 0
    BY <2>3, DefinitionIs
  <2> HIDE DEF scope
  <2> QED
    BY <1>2, <2>2, <2>4
<1>5. ASSUME NEW f \in Parsed(r), NEW d \in Inventory(r)[f].defs,
             d.type \in {"function", "method"}, ~Covered(actions, f, d)
      PROVE  \E x \in D : x.file = f /\ BaseName(x.scope) = d.name
  <2>1. f \in DOMAIN B /\ d \in open(f)
    BY <1>3, <1>5
  <2>2. found(f, d) \in D
    BY <1>1, <2>1
  <2>3. BaseName(scope(d)) = d.name
    BY DefinitionIs
  <2> QED
    BY <1>2, <2>2, <2>3
<1> QED
  BY <1>4, <1>5 DEF B, D

LEMMA FunctionsAre ==
    ASSUME NEW r, Readable(r), NEW map, NEW actions
    PROVE  LET B == BuildFileBreakdowns(r, Inventory(r), map)
           IN  /\ AreFunctions(DeriveFunctions(actions, r, B), actions)
               /\ HaveMeaning(DeriveFunctions(actions, r, B), r)
<1> DEFINE B == BuildFileBreakdowns(r, Inventory(r), map)
           R == ResolvedFunctions(actions, B)
           D == DiscoveredFunctions(actions, r, B)
<1>1. AreFunctions(R, actions) /\ \A x \in R : x.actions # {}
  BY ResolvedAre
<1>2. /\ \A x \in D : x.actions = {} /\ x.sites = Sites(x.actions) /\ x.at # 0
      /\ \A f \in Parsed(r) : \A d \in Inventory(r)[f].defs :
           d.type \in {"function", "method"} /\ ~Covered(actions, f, d) =>
             \E x \in D : x.file = f /\ BaseName(x.scope) = d.name
  BY DiscoveredAre
<1>3. DeriveFunctions(actions, r, B) = R \cup D
  BY DEF DeriveFunctions
<1> HIDE DEF B, R, D
<1>4. AreFunctions(R \cup D, actions)
  BY <1>1, <1>2 DEF AreFunctions
<1>5. HaveMeaning(R \cup D, r)
  <2> SUFFICES ASSUME NEW f \in Parsed(r), NEW d \in Inventory(r)[f].defs,
                      d.type \in {"function", "method"}, Covered(actions, f, d)
               PROVE  \E x \in R : x.file = f /\ BaseName(x.scope) = d.name
    BY <1>2 DEF HaveMeaning
  <2>1. PICK a \in actions : a.file = f /\ BaseName(a.scope) = d.name
    BY DEF Covered
  <2>2. PICK x \in R : a \in x.actions
    BY <1>1 DEF AreFunctions
  <2>3. x.file = a.file /\ x.scope = a.scope
    BY <1>1, <2>2 DEF AreFunctions
  <2> QED
    BY <2>1, <2>3
<1> QED
  BY <1>3, <1>4, <1>5 DEF B

(* Purposes and behaviors hold the evidence of their file.                 *)
AreMeanings(meanings, parsed, S) ==
    /\ DOMAIN meanings = parsed
    /\ \A f \in parsed : /\ meanings[f].sites = {s \in S : s.file = f}
                         /\ meanings[f].inferred <=> meanings[f].sites = {}

(* A file has the abilities of its sites.                                  *)
HaveAbilities(purposes, S) ==
    \A f \in DOMAIN purposes :
      purposes[f].abilities = {s.ability : s \in {t \in S : t.file = f}}

LEMMA PurposesAre ==
    ASSUME NEW A, NEW S, AreAbilities(A, S), NEW functions, NEW B
    PROVE  LET P == DerivePurposes(A, functions, B)
           IN  AreMeanings(P, {f \in DOMAIN B : ~B[f].broken}, S) /\ HaveAbilities(P, S)
<1> DEFINE parsed == {f \in DOMAIN B : ~B[f].broken}
           matched(f) == {a \in DOMAIN A : f \in A[a].files}
           level(f) == IF matched(f) = {} THEN Low
                       ELSE MinConfidence({A[a].level : a \in matched(f)})
           sites(f) == {s \in UNION {A[a].sites : a \in matched(f)} : s.file = f}
           P == DerivePurposes(A, functions, B)
<1>1. P = [f \in parsed |->
             [abilities |-> matched(f), level |-> Floored(level(f), InFileOf(f, functions)),
              inferred |-> matched(f) = {}, sites |-> sites(f)]]
  BY DEF DerivePurposes
<1> HIDE DEF P, level, parsed
<1>2. ASSUME NEW f
      PROVE  matched(f) = {s.ability : s \in {t \in S : t.file = f}}
  <2>1. \A a \in matched(f) : \E s \in S : s.file = f /\ s.ability = a
    BY DEF AreAbilities
  <2>2. \A s \in S : s.file = f => s.ability \in matched(f)
    BY DEF AreAbilities
  <2> QED
    BY <2>1, <2>2
<1>3. ASSUME NEW f
      PROVE  sites(f) = {s \in S : s.file = f}
  <2>1. sites(f) \subseteq {s \in S : s.file = f}
    BY DEF AreAbilities
  <2>2. ASSUME NEW s \in S, s.file = f
        PROVE  s \in sites(f)
    <3>1. s.ability \in matched(f) /\ s \in A[s.ability].sites
      BY <2>2 DEF AreAbilities
    <3> QED
      BY <2>2, <3>1
  <2> QED
    BY <2>1, <2>2
<1> HIDE DEF matched, sites
<1>4. /\ DOMAIN P = parsed
      /\ \A f \in parsed : /\ P[f].abilities = matched(f) /\ P[f].sites = sites(f)
                           /\ P[f].inferred <=> matched(f) = {}
  BY <1>1
<1>5. \A f \in parsed : matched(f) = {} <=> sites(f) = {}
  BY <1>2, <1>3
<1> QED
  BY <1>2, <1>3, <1>4, <1>5 DEF AreMeanings, HaveAbilities, P, parsed

LEMMA BehaviorsAre ==
    ASSUME NEW S, NEW actions, AreActions(actions, S),
           NEW functions, AreFunctions(functions, actions), NEW B
    PROVE  LET H == DeriveBehaviors(functions, B)
           IN  /\ AreMeanings(H, {f \in DOMAIN B : ~B[f].broken}, S)
               /\ \A f \in DOMAIN H : H[f].functions \subseteq functions
<1> DEFINE parsed == {f \in DOMAIN B : ~B[f].broken}
           resolved(f) == {x \in InFileOf(f, functions) : x.actions # {}}
           level(f) == IF InFileOf(f, functions) = {} THEN Low
                       ELSE MinConfidence(Levels(resolved(f)))
           H == DeriveBehaviors(functions, B)
<1>1. H = [f \in parsed |->
             [functions |-> InFileOf(f, functions),
              level |-> Floored(level(f), InFileOf(f, functions)),
              inferred |-> resolved(f) = {}, sites |-> Sites(resolved(f))]]
  BY DEF DeriveBehaviors
<1> HIDE DEF H, level, parsed
<1>2. ASSUME NEW f, NEW s \in Sites(resolved(f))
      PROVE  s \in S /\ s.file = f
  <2>1. PICK x \in resolved(f) : s \in x.sites
    BY <1>2 DEF Sites
  <2>2. /\ x \in functions /\ x.file = f /\ x.sites = Sites(x.actions)
        /\ x.actions = {a \in actions : a.file = x.file /\ a.scope = x.scope}
    BY <2>1 DEF AreFunctions, InFileOf
  <2>3. PICK a \in x.actions : s \in a.sites
    BY <2>1, <2>2 DEF Sites
  <2>4. a \in actions /\ a.file = f
    BY <2>2, <2>3
  <2> QED
    BY <2>3, <2>4 DEF AreActions
<1>3. ASSUME NEW f, NEW s \in S, s.file = f
      PROVE  s \in Sites(resolved(f))
  <2>1. PICK a \in actions : s \in a.sites
    BY DEF AreActions
  <2>2. a.file = f
    BY <1>3, <2>1 DEF AreActions
  <2>3. PICK x \in functions : a \in x.actions
    BY DEF AreFunctions
  <2>4. x.file = f /\ x.sites = Sites(x.actions)
    BY <2>2, <2>3 DEF AreFunctions
  <2>5. x \in resolved(f) /\ s \in x.sites
    BY <2>1, <2>3, <2>4 DEF InFileOf, Sites
  <2> QED
    BY <2>5 DEF Sites
<1>4. ASSUME NEW f, NEW x \in resolved(f)
      PROVE  Sites(resolved(f)) # {}
  <2>1. PICK a \in x.actions : TRUE
    OBVIOUS
  <2>2. x \in functions /\ x.sites = Sites(x.actions) /\ a \in actions
    BY <2>1 DEF AreFunctions, InFileOf
  <2>3. a.sites # {}
    BY <2>2 DEF AreActions
  <2>4. x.sites # {}
    BY <2>1, <2>2, <2>3 DEF Sites
  <2> QED
    BY <2>4 DEF Sites
<1>5. \A f : /\ Sites(resolved(f)) = {s \in S : s.file = f}
             /\ resolved(f) = {} => Sites(resolved(f)) = {}
  BY <1>2, <1>3 DEF Sites
<1>6. \A f : InFileOf(f, functions) \subseteq functions
  BY DEF InFileOf
<1> HIDE DEF resolved
<1>7. /\ DOMAIN H = parsed
      /\ \A f \in parsed : /\ H[f].functions = InFileOf(f, functions)
                           /\ H[f].sites = Sites(resolved(f))
                           /\ H[f].inferred <=> resolved(f) = {}
  BY <1>1
<1>8. \A f : Sites(resolved(f)) = {} => resolved(f) = {}
  BY <1>4
<1> QED
  BY <1>5, <1>6, <1>7, <1>8 DEF AreMeanings, H, parsed

(* A cluster, a module of it, has the files of the cluster.                *)
LEMMA ClustersAre ==
    ASSUME NEW r, NEW map
    PROVE  LET C == BuildClusterMap(r, Inventory(r), map)
           IN  /\ DOMAIN C.clusters = {C.of[f] : f \in Files(r)}
               /\ \A c \in DOMAIN C.clusters :
                    C.clusters[c].files = {f \in Files(r) : C.of[f] = c}
<1> DEFINE C == BuildClusterMap(r, Inventory(r), map)
           K == C.clusters
<1>1. DOMAIN K = {C.of[f] : f \in Files(r)}
  BY DEF BuildClusterMap
<1>2. \A c \in DOMAIN K : K[c].files = {f \in Files(r) : C.of[f] = c}
  BY Zenon DEF BuildClusterMap
<1> QED
  BY <1>1, <1>2

(* Modules, subsystems and the system hold the evidence below them.        *)
AreModules(modules, parsed, S, C) ==
    /\ DOMAIN modules = DOMAIN C.clusters
    /\ \A c \in DOMAIN modules :
         /\ modules[c].files = {f \in parsed : C.of[f] = c}
         /\ modules[c].sites = {s \in S : s.file \in modules[c].files}

LEMMA ModulesAre ==
    ASSUME NEW r, NEW map, NEW S, NEW P, NEW H,
           AreMeanings(P, Parsed(r), S), AreMeanings(H, Parsed(r), S)
    PROVE  LET C == BuildClusterMap(r, Inventory(r), map)
           IN  AreModules(SummarizeModules(C, P, H), Parsed(r), S, C)
<1> DEFINE C == BuildClusterMap(r, Inventory(r), map)
           files(c) == C.clusters[c].files \cap DOMAIN P
           both(c) == <<{P[f] : f \in files(c)}, {H[f] : f \in files(c)}>>
           first(c) == IF files(c) = {} THEN Low
                       ELSE MinConfidence(Levels(both(c)[1]) \cup Levels(both(c)[2]))
           known(c) == \E f \in files(c) : P[f].abilities # {}
           level(c) == DensityFloor(StructuralFloor(first(c), C.clusters[c], known(c)),
                         Cardinality({f \in files(c) : P[f].level >= Medium}),
                         Cardinality(files(c)))
           M == SummarizeModules(C, P, H)
<1>1. M = [c \in DOMAIN C.clusters |->
             [files |-> files(c), level |-> level(c),
              sites |-> Sites(both(c)[1]) \cup Sites(both(c)[2])]]
  BY DEF SummarizeModules
<1>2. \A c \in DOMAIN C.clusters : C.clusters[c].files = {f \in Files(r) : C.of[f] = c}
  BY ClustersAre
<1> HIDE DEF M, level, C
<1>3. \A c \in DOMAIN C.clusters : files(c) = {f \in Parsed(r) : C.of[f] = c}
  BY <1>2 DEF AreMeanings, Parsed
<1>4. ASSUME NEW c \in DOMAIN C.clusters
      PROVE  Sites(both(c)[1]) \cup Sites(both(c)[2]) = {s \in S : s.file \in files(c)}
  <2>1. files(c) \subseteq Parsed(r)
    BY <1>3
  <2> HIDE DEF files
  <2>2. Sites(both(c)[1]) = UNION {P[f].sites : f \in files(c)}
    BY DEF Sites
  <2>3. Sites(both(c)[2]) = UNION {H[f].sites : f \in files(c)}
    BY DEF Sites
  <2>4. \A f \in files(c) : P[f].sites = {s \in S : s.file = f} /\ H[f].sites = {s \in S : s.file = f}
    BY <2>1 DEF AreMeanings
  <2> QED
    BY <2>2, <2>3, <2>4
<1> HIDE DEF files, both
<1>5. /\ DOMAIN M = DOMAIN C.clusters
      /\ \A c \in DOMAIN C.clusters :
           /\ M[c].files = files(c)
           /\ M[c].sites = Sites(both(c)[1]) \cup Sites(both(c)[2])
  BY <1>1
<1>6. AreModules(M, Parsed(r), S, C)
  BY <1>3, <1>4, <1>5 DEF AreModules
<1> QED
  BY <1>6 DEF M, C

AreSubsystems(subsystems, modules) ==
    /\ DOMAIN subsystems = {TopLevel(c) : c \in DOMAIN modules}
    /\ \A p \in DOMAIN subsystems :
         /\ subsystems[p].modules = {c \in DOMAIN modules : TopLevel(c) = p}
         /\ subsystems[p].sites = UNION {modules[c].sites : c \in subsystems[p].modules}

LEMMA SubsystemsAre ==
    ASSUME NEW modules
    PROVE  AreSubsystems(SummarizeSubsystems(modules), modules)
<1> DEFINE of(p) == {c \in DOMAIN modules : TopLevel(c) = p}
           level(p) == MinConfidence({modules[c].level : c \in of(p)})
           S == SummarizeSubsystems(modules)
<1>1. S = [p \in {TopLevel(c) : c \in DOMAIN modules} |->
             [modules |-> of(p), level |-> level(p),
              sites |-> UNION {modules[c].sites : c \in of(p)}]]
  BY DEF SummarizeSubsystems
<1> HIDE DEF S, of, level
<1>2. /\ DOMAIN S = {TopLevel(c) : c \in DOMAIN modules}
      /\ \A p \in DOMAIN S : /\ S[p].modules = of(p)
                             /\ S[p].sites = UNION {modules[c].sites : c \in of(p)}
  BY <1>1
<1> QED
  BY <1>2 DEF AreSubsystems, S, of

(* The system has the evidence of every file that parses.                  *)
LEMMA SystemHasAll ==
    ASSUME NEW C, NEW S, NEW parsed, NEW modules, NEW subsystems,
           AreModules(modules, parsed, S, C), AreSubsystems(subsystems, modules),
           \A f \in parsed : C.of[f] \in DOMAIN C.clusters,
           \A s \in S : s.file \in parsed
    PROVE  SummarizeSystem(subsystems).sites = S
<1>1. SummarizeSystem(subsystems).sites = UNION {subsystems[p].sites : p \in DOMAIN subsystems}
  BY DEF SummarizeSystem
<1>2. ASSUME NEW p \in DOMAIN subsystems, NEW s \in subsystems[p].sites
      PROVE  s \in S
  <2>1. PICK c \in DOMAIN modules : s \in modules[c].sites
    BY <1>2 DEF AreSubsystems
  <2> QED
    BY <2>1 DEF AreModules
<1>3. ASSUME NEW s \in S
      PROVE  \E p \in DOMAIN subsystems : s \in subsystems[p].sites
  <2> DEFINE c == C.of[s.file]
  <2>1. c \in DOMAIN modules /\ s \in modules[c].sites
    BY DEF AreModules
  <2> HIDE DEF c
  <2> QED
    BY <2>1 DEF AreSubsystems
<1> QED
  BY <1>1, <1>2, <1>3

(* What the stages of the meaning layer hand on to one another.            *)
IsMeaning(m, r, S, C) ==
    /\ \A s \in S : s.file \in Parsed(r)
    /\ AreAbilities(m.abilities, S) /\ AreActions(m.actions, S)
    /\ AreFunctions(m.functions, m.actions) /\ HaveMeaning(m.functions, r)
    /\ AreMeanings(m.purposes, Parsed(r), S)
    /\ HaveAbilities(m.purposes, S)
    /\ AreMeanings(m.behaviors, Parsed(r), S)
    /\ \A f \in DOMAIN m.behaviors : m.behaviors[f].functions \subseteq m.functions
    /\ AreModules(m.modules, Parsed(r), S, C)
    /\ \A f \in Parsed(r) : C.of[f] \in DOMAIN C.clusters
    /\ AreSubsystems(m.subsystems, m.modules)
    /\ m.system.sites = S

LEMMA MeaningIs ==
    ASSUME NEW r, Readable(r), NEW map, NEW flow
    PROVE  LET B == BuildFileBreakdowns(r, Inventory(r), map)
               C == BuildClusterMap(r, Inventory(r), map)
               m == Meaning(r, B, C, flow)
           IN  /\ IsMeaning(m, r, AllSites(r, B), C)
               /\ m.workflows = DeriveWorkflows(flow, m.actions, r, B)
<1> DEFINE B == BuildFileBreakdowns(r, Inventory(r), map)
           C == BuildClusterMap(r, Inventory(r), map)
           S == AllSites(r, B)
           A == ExtractAbilities(r, B)
           actions == DeriveActions(A, B)
           functions == DeriveFunctions(actions, r, B)
           P == DerivePurposes(A, functions, B)
           H == DeriveBehaviors(functions, B)
           modules == SummarizeModules(C, P, H)
           subsystems == SummarizeSubsystems(modules)
           system == SummarizeSystem(subsystems)
           workflows == DeriveWorkflows(flow, actions, r, B)
           m == Meaning(r, B, C, flow)
<1>1. m = [abilities |-> A, actions |-> actions, functions |-> functions, purposes |-> P,
           behaviors |-> H, workflows |-> workflows, modules |-> modules,
           subsystems |-> subsystems, system |-> system]
  BY DEF Meaning
<1>2. AreAbilities(A, S)
  BY AbilitiesAre
<1> HIDE DEF A
<1>3. AreActions(actions, S)
  BY <1>2, ActionsAre
<1> HIDE DEF actions
<1>4. AreFunctions(functions, actions) /\ HaveMeaning(functions, r)
  BY FunctionsAre
<1>5. Parsed(r) = {f \in DOMAIN B : ~B[f].broken}
  BY BreakdownsAre
<1> HIDE DEF functions
<1>6. \A s \in S : s.file \in Parsed(r)
  BY <1>5, SitesOfFile DEF AllSites
<1> HIDE DEF S, B
<1>7. AreMeanings(P, Parsed(r), S) /\ HaveAbilities(P, S)
  BY <1>2, <1>5, PurposesAre
<1>8. AreMeanings(H, Parsed(r), S) /\ \A f \in DOMAIN H : H[f].functions \subseteq functions
  BY <1>3, <1>4, <1>5, BehaviorsAre
<1> HIDE DEF P, H
<1>9. AreModules(modules, Parsed(r), S, C)
  BY <1>7, <1>8, ModulesAre
<1> HIDE DEF modules
<1>10. AreSubsystems(subsystems, modules)
  BY SubsystemsAre
<1>11. \A f \in Parsed(r) : C.of[f] \in DOMAIN C.clusters
  <2>1. DOMAIN C.clusters = {C.of[f] : f \in Files(r)}
    BY ClustersAre
  <2> HIDE DEF C
  <2> QED
    BY <2>1 DEF Parsed
<1> HIDE DEF subsystems, C
<1>12. system.sites = S
  BY <1>6, <1>9, <1>10, <1>11, SystemHasAll
<1> HIDE DEF system, workflows, m
<1>13. /\ m.abilities = A /\ m.actions = actions /\ m.functions = functions
       /\ m.purposes = P /\ m.behaviors = H /\ m.workflows = workflows
       /\ m.modules = modules /\ m.subsystems = subsystems /\ m.system = system
  BY <1>1
<1>14. IsMeaning(m, r, S, C)
  BY <1>2, <1>3, <1>4, <1>6, <1>7, <1>8, <1>9, <1>10, <1>11, <1>12, <1>13 DEF IsMeaning
<1>15. m.workflows = DeriveWorkflows(flow, m.actions, r, B)
  BY <1>13 DEF workflows
<1> QED
  BY <1>14, <1>15 DEF m, S, C, B

(* The validation of the meaning layer has nothing to report.              *)
LEMMA NoViolations ==
    ASSUME NEW m, NEW r, NEW S, NEW C, IsMeaning(m, r, S, C), NEW flow, NEW B,
           m.workflows = DeriveWorkflows(flow, m.actions, r, B)
    PROVE  MeaningViolations(m) \cup CrossrefViolations(m) = {}
<1>1. ASSUME NEW a \in DOMAIN m.abilities
      PROVE  m.abilities[a].sites # {}
  BY DEF IsMeaning, AreAbilities
<1>2. ASSUME NEW a \in m.actions
      PROVE  a.sites # {}
  BY DEF IsMeaning, AreActions
<1>3. ASSUME NEW x \in m.functions
      PROVE  /\ ~(x.at = 0 /\ x.actions = {})
             /\ x.actions \subseteq m.actions
  BY DEF IsMeaning, AreFunctions
<1>4. ASSUME NEW root \in DOMAIN m.workflows
      PROVE  ~(m.workflows[root].level >= Medium /\ m.workflows[root].steps = {})
  <2>1. PICK g : m.workflows[root] = DeriveWorkflow(g, flow.metrics, m.actions, r, B)
    BY DEF DeriveWorkflows
  <2> DEFINE w == DeriveWorkflow(g, flow.metrics, m.actions, r, B)
  <2>2. w.level = IF Cardinality(w.steps) >= 2 THEN Medium ELSE Low
    BY DEF DeriveWorkflow
  <2> HIDE DEF w
  <2>3. w.steps = {} => w.level = Low
    BY <2>2, FS_EmptySet
  <2> QED
    BY <2>1, <2>3 DEF w, Low, Medium
<1>5. ASSUME NEW f \in DOMAIN m.purposes
      PROVE  m.purposes[f].abilities \subseteq DOMAIN m.abilities
  BY DEF IsMeaning, AreAbilities, HaveAbilities
<1>6. \A f \in DOMAIN m.behaviors : m.behaviors[f].functions \subseteq m.functions
  BY DEF IsMeaning
<1>7. MeaningViolations(m) = {}
  BY <1>1, <1>2, <1>3, <1>4 DEF MeaningViolations
<1>8. CrossrefViolations(m) = {}
  BY <1>3, <1>5, <1>6 DEF CrossrefViolations
<1> QED
  BY <1>7, <1>8

(* The index leads from a site to the one action and the one function.     *)
Acting(index, s) == {a \in index.abilityToActions[s.ability] : s \in a.sites}

Holding(index, s) == UNION {index.actionToFunctions[a] : a \in Acting(index, s)}

OneOfEach(index, s) ==
    \E a, x : /\ Acting(index, s) = {a} /\ Holding(index, s) = {x}
              /\ index.functionToFile[x] = s.file

LEMMA IndexedActions ==
    ASSUME NEW m, NEW r, NEW S, NEW C, IsMeaning(m, r, S, C), NEW s \in S
    PROVE  OneOfEach(CrossReferences(m), s)
<1> DEFINE index == CrossReferences(m)
           acting == {a \in index.abilityToActions[s.ability] : s \in a.sites}
           holding == UNION {index.actionToFunctions[a] : a \in acting}
<1>1. /\ index.abilityToActions = [a \in DOMAIN m.abilities |-> {x \in m.actions : x.ability = a}]
      /\ index.actionToFunctions = [a \in UNION {x.actions : x \in m.functions} |->
                                      {x \in m.functions : a \in x.actions}]
      /\ index.functionToFile = [x \in m.functions |-> x.file]
  BY DEF CrossReferences
<1> HIDE DEF index
<1>2. PICK a \in m.actions : s \in a.sites
  BY DEF IsMeaning, AreActions
<1>3. \A b \in m.actions : s \in b.sites => /\ b.file = s.file /\ b.scope = s.scope
                                            /\ b.ability = s.ability
  BY DEF IsMeaning, AreActions
<1>4. \A b \in m.actions : s \in b.sites => b = a
  <2>1. \A b, c \in m.actions :
          b.file = c.file /\ b.scope = c.scope /\ b.ability = c.ability => b = c
    BY DEF IsMeaning, AreActions
  <2> QED
    BY <1>2, <1>3, <2>1
<1>5. acting = {a}
  <2>1. s.ability \in DOMAIN m.abilities
    BY DEF IsMeaning, AreAbilities
  <2> QED
    BY <1>1, <1>2, <1>3, <1>4, <2>1
<1>6. PICK x \in m.functions : a \in x.actions
  BY <1>2 DEF IsMeaning, AreFunctions
<1>7. \A y \in m.functions : a \in y.actions => y.file = a.file /\ y.scope = a.scope
  BY DEF IsMeaning, AreFunctions
<1>8. \A y \in m.functions : a \in y.actions => y = x
  BY <1>6, <1>7 DEF IsMeaning, AreFunctions
<1> HIDE DEF acting
<1>9. holding = {x}
  <2>1. a \in UNION {y.actions : y \in m.functions}
    BY <1>6
  <2>2. holding = index.actionToFunctions[a]
    BY <1>5
  <2>3. index.actionToFunctions[a] = {y \in m.functions : a \in y.actions}
    BY <1>1, <2>1
  <2>4. {y \in m.functions : a \in y.actions} = {x}
    BY <1>6, <1>8
  <2> HIDE DEF holding
  <2> QED
    BY <2>2, <2>3, <2>4
<1>10. index.functionToFile[x] = s.file
  BY <1>1, <1>2, <1>3, <1>6, <1>7
<1> QED
  BY <1>5, <1>9, <1>10 DEF acting, index, Acting, Holding, OneOfEach

(* The index leads from a file to its module and its subsystem.            *)
LEMMA IndexedModules ==
    ASSUME NEW m, NEW r, NEW S, NEW C, IsMeaning(m, r, S, C), NEW s \in S
    PROVE  LET index == CrossReferences(m)
               c == index.fileToModule[s.file]
           IN  /\ s \in m.modules[c].sites
               /\ s \in m.subsystems[index.moduleToSubsystem[c]].sites
<1> DEFINE index == CrossReferences(m)
           c == index.fileToModule[s.file]
           p == index.moduleToSubsystem[c]
           D == UNION {m.modules[d].files : d \in DOMAIN m.modules}
           E == UNION {m.subsystems[q].modules : q \in DOMAIN m.subsystems}
<1>1. /\ index.fileToModule =
           [f \in D |-> CHOOSE d \in DOMAIN m.modules : f \in m.modules[d].files]
      /\ index.moduleToSubsystem =
           [d \in E |-> CHOOSE q \in DOMAIN m.subsystems : d \in m.subsystems[q].modules]
  BY DEF CrossReferences
<1> HIDE DEF index
<1>2. \E d \in DOMAIN m.modules : s.file \in m.modules[d].files
  BY DEF IsMeaning, AreModules
<1>3. c \in DOMAIN m.modules /\ s.file \in m.modules[c].files
  <2>1. c = CHOOSE d \in DOMAIN m.modules : s.file \in m.modules[d].files
    BY <1>1, <1>2
  <2> HIDE DEF c
  <2> QED
    BY <1>2, <2>1
<1> HIDE DEF c
<1>4. s \in m.modules[c].sites
  BY <1>3 DEF IsMeaning, AreModules
<1>5. \E q \in DOMAIN m.subsystems : c \in m.subsystems[q].modules
  BY <1>3 DEF IsMeaning, AreSubsystems
<1>6. p \in DOMAIN m.subsystems /\ c \in m.subsystems[p].modules
  <2>1. p = CHOOSE q \in DOMAIN m.subsystems : c \in m.subsystems[q].modules
    BY <1>1, <1>5
  <2> HIDE DEF p
  <2> QED
    BY <1>5, <2>1
<1> HIDE DEF p
<1>7. s \in m.subsystems[p].sites
  BY <1>4, <1>6 DEF IsMeaning, AreSubsystems
<1> QED
  BY <1>4, <1>7 DEF p, c, index

(* Whatever suggests an ability is the evidence of one action, by it of    *)
(* one function, and of the file, module and subsystem that the index      *)
(* leads to, and of the system; nothing else is evidence, and the          *)
(* validation has nothing to report, for every repository                  *)
(* (run_system_breakdown, build_cross_reference_index).                    *)
THEOREM EvidenceIsAlwaysAccounted == Spec => []EvidenceIsAccounted
<1>1. Stages => EvidenceIsAccounted
  <2> SUFFICES ASSUME Stages, meaning # None
               PROVE  EvidenceIsAccounted
    BY Zenon DEF EvidenceIsAccounted
  <2>1. /\ scan # None /\ inventory = Inventory(Seen) /\ relations = BuildRelationMap(Seen)
        /\ breakdowns = BuildFileBreakdowns(Seen, inventory, relations)
        /\ clusters = BuildClusterMap(Seen, inventory, relations)
        /\ meaning = Compose(Meaning(Seen, breakdowns, clusters, flows))
    BY DEF Stages
  <2>2. Readable(Seen) /\ Parsed(Seen) = scan \ repo.broken
    BY <2>1, SeenIs
  <2> DEFINE m == meaning.map
             index == meaning.index
             S == AllSites(Seen, breakdowns)
  <2>3. /\ m = Meaning(Seen, breakdowns, clusters, flows)
        /\ index = CrossReferences(m)
        /\ meaning.violations = MeaningViolations(m) \cup CrossrefViolations(m)
    BY <2>1 DEF Compose
  <2>4. IsMeaning(m, Seen, S, clusters) /\ m.workflows = DeriveWorkflows(flows, m.actions, Seen, breakdowns)
    BY <2>1, <2>2, <2>3, MeaningIs
  <2> HIDE DEF m, index, S
  <2> DEFINE sites == UNION {m.abilities[a].sites : a \in DOMAIN m.abilities}
             acting(s) == {a \in index.abilityToActions[s.ability] : s \in a.sites}
             holding(s) == UNION {index.actionToFunctions[a] : a \in acting(s)}
  <2>5. meaning.violations = {}
    BY <2>3, <2>4, NoViolations
  <2>6. sites = S /\ m.system.sites = S
    <3>1. AreAbilities(m.abilities, S) /\ m.system.sites = S
      BY <2>4 DEF IsMeaning
    <3>2. \A s \in S : s.ability \in DOMAIN m.abilities /\ s \in m.abilities[s.ability].sites
      BY <3>1 DEF AreAbilities
    <3>3. \A a \in DOMAIN m.abilities : m.abilities[a].sites \subseteq S
      BY <3>1 DEF AreAbilities
    <3> QED
      BY <3>1, <3>2, <3>3
  <2>7. ASSUME NEW s \in S
        PROVE  /\ Cardinality(acting(s)) = 1 /\ Cardinality(holding(s)) = 1
               /\ {index.functionToFile[x] : x \in holding(s)} = {s.file}
    <3>1. PICK a, x : /\ Acting(index, s) = {a} /\ Holding(index, s) = {x}
                      /\ index.functionToFile[x] = s.file
      <4>1. OneOfEach(index, s)
        BY <2>3, <2>4, IndexedActions
      <4> QED
        BY <4>1 DEF OneOfEach
    <3>2. acting(s) = {a} /\ holding(s) = {x}
      BY <3>1 DEF Acting, Holding
    <3> HIDE DEF acting, holding
    <3>3. Cardinality({a}) = 1 /\ Cardinality({x}) = 1
      BY FS_Singleton
    <3>4. {index.functionToFile[y] : y \in {x}} = {s.file}
      BY <3>1
    <3> QED
      BY <3>2, <3>3, <3>4
  <2>8. ASSUME NEW s \in S
        PROVE  /\ s.ability \in index.fileToAbilities[s.file]
               /\ s \in m.purposes[s.file].sites /\ s \in m.behaviors[s.file].sites
               /\ s \in m.modules[index.fileToModule[s.file]].sites
               /\ s \in m.subsystems[index.moduleToSubsystem[index.fileToModule[s.file]]].sites
    <3>1. s.file \in Parsed(Seen)
      BY <2>4 DEF IsMeaning
    <3>2. s \in m.purposes[s.file].sites /\ s \in m.behaviors[s.file].sites
      BY <2>4, <3>1 DEF IsMeaning, AreMeanings
    <3>3. s.file \in DOMAIN m.purposes /\ s.ability \in m.purposes[s.file].abilities
      BY <2>4, <3>1 DEF IsMeaning, AreMeanings, HaveAbilities
    <3>4. index.fileToAbilities = [f \in DOMAIN m.purposes |-> m.purposes[f].abilities]
      BY <2>3 DEF CrossReferences
    <3> QED
      BY <2>3, <2>4, <3>2, <3>3, <3>4, IndexedModules
  <2>9. ASSUME NEW f \in scan \ repo.broken
        PROVE  /\ m.purposes[f].inferred  <=> m.purposes[f].sites = {}
               /\ m.behaviors[f].inferred <=> m.behaviors[f].sites = {}
               /\ \A d \in inventory[f].defs :
                    d.type \in {"function", "method"} =>
                      \E x \in m.functions : x.file = f /\ BaseName(x.scope) = d.name
    <3>1. f \in Parsed(Seen)
      BY <2>2
    <3>2. HaveMeaning(m.functions, Seen) /\ inventory = Inventory(Seen)
      BY <2>1, <2>4 DEF IsMeaning
    <3>3. AreMeanings(m.purposes, Parsed(Seen), S) /\ AreMeanings(m.behaviors, Parsed(Seen), S)
      BY <2>4 DEF IsMeaning
    <3> QED
      BY <3>1, <3>2, <3>3 DEF HaveMeaning, AreMeanings
  <2> HIDE DEF sites, acting, holding
  <2>10. \A s \in sites :
               /\ Cardinality(acting(s)) = 1 /\ Cardinality(holding(s)) = 1
               /\ {index.functionToFile[x] : x \in holding(s)} = {s.file}
               /\ s.ability \in index.fileToAbilities[s.file]
               /\ s \in m.purposes[s.file].sites /\ s \in m.behaviors[s.file].sites
               /\ s \in m.modules[index.fileToModule[s.file]].sites
               /\ s \in m.subsystems[index.moduleToSubsystem[index.fileToModule[s.file]]].sites
    BY <2>6, <2>7, <2>8
  <2> QED
    BY <2>5, <2>6, <2>9, <2>10, Zenon
       DEF EvidenceIsAccounted, sites, acting, holding, m, index
<1> QED
  BY <1>1, StagesAlways, PTL

-----------------------------------------------------------------------------
(* Totals: what is counted by parts adds up to the whole.                  *)

Summed(g, count, S) ==
    IF S = {} THEN 0 ELSE LET x == CHOOSE x \in S : TRUE IN count[x] + g[S \ {x}]

(* The parts of a set, by what a function maps its elements to.            *)
AreParts(count, E, h) ==
    /\ IsFiniteSet(E) /\ IsFiniteSet(DOMAIN count)
    /\ \A e \in E : h[e] \in DOMAIN count
    /\ \A i \in DOMAIN count : count[i] = Cardinality({e \in E : h[e] = i})

LEMMA OnePartMore ==
    ASSUME NEW count, NEW E, NEW h, AreParts(count, E, h),
           NEW S \in SUBSET DOMAIN count, NEW x \in S
    PROVE  Cardinality({e \in E : h[e] \in S})
             = count[x] + Cardinality({e \in E : h[e] \in S \ {x}})
<1> DEFINE A == {e \in E : h[e] = x}
           B == {e \in E : h[e] \in S \ {x}}
<1>1. {e \in E : h[e] \in S} = A \cup B /\ A \cap B = {}
  OBVIOUS
<1>2. A \in SUBSET E /\ B \in SUBSET E
  OBVIOUS
<1>3. count[x] = Cardinality(A)
  BY DEF AreParts
<1> HIDE DEF A, B
<1>4. IsFiniteSet(A) /\ IsFiniteSet(B)
  BY <1>2, FS_Subset DEF AreParts
<1>5. Cardinality(A) \in Nat /\ Cardinality(B) \in Nat
  BY <1>4, FS_CardinalityType
<1>6. Cardinality(A \cup B) = Cardinality(A) + Cardinality(B) - Cardinality(A \cap B)
  BY <1>4, FS_Union
<1>7. Cardinality(A \cap B) = 0
  BY <1>1, FS_EmptySet
<1>8. Cardinality(A \cup B) = count[x] + Cardinality(B)
  BY <1>1, <1>3, <1>5, <1>6, <1>7
<1> QED
  BY <1>1, <1>8, Zenon DEF B

LEMMA TotalOfParts ==
    ASSUME NEW count, NEW E, NEW h, AreParts(count, E, h)
    PROVE  Total(count) = Cardinality(E)
<1> DEFINE M == DOMAIN count
           IsSum(g) == g = [S \in SUBSET M |-> Summed(g, count, S)]
           of(S) == Cardinality({e \in E : h[e] \in S})
           f == CHOOSE g : IsSum(g)
<1>1. Total(count) = f[M]
  BY DEF Total, FoldFunction, FoldFunctionOnSet, MapThenFoldSet, Summed
<1>2. of({}) = 0
  <2>1. {e \in E : h[e] \in {}} = {}
    OBVIOUS
  <2> QED
    BY <2>1, FS_EmptySet
<1>3. \A S \in SUBSET M : \A x \in S : of(S) = count[x] + of(S \ {x})
  BY OnePartMore
<1>4. \A S \in SUBSET M : S # {} => (CHOOSE x \in S : TRUE) \in S
  OBVIOUS
<1>5. of(M) = Cardinality(E)
  <2>1. {e \in E : h[e] \in M} = E
    BY DEF AreParts
  <2> QED
    BY <2>1
<1> HIDE DEF of
<1>6. \E g : IsSum(g)
  <2> DEFINE g == [S \in SUBSET M |-> of(S)]
  <2>1. ASSUME NEW S \in SUBSET M
        PROVE  of(S) = Summed(g, count, S)
    <3>1. CASE S = {}
      BY <1>2, <3>1 DEF Summed
    <3>2. CASE S # {}
      <4> DEFINE x == CHOOSE x \in S : TRUE
      <4>1. x \in S /\ S \ {x} \in SUBSET M
        BY <1>4, <3>2
      <4>2. g[S \ {x}] = of(S \ {x})
        BY <4>1
      <4>3. Summed(g, count, S) = count[x] + g[S \ {x}]
        BY <3>2 DEF Summed
      <4> HIDE DEF x, g
      <4> QED
        BY <1>3, <4>1, <4>2, <4>3
    <3> QED
      BY <3>1, <3>2
  <2>2. g = [S \in SUBSET M |-> Summed(g, count, S)]
    BY <2>1
  <2> QED
    BY <2>2
<1>7. IsSum(f)
  BY <1>6
<1> HIDE DEF f
<1>8. \A S \in SUBSET M : f[S] = Summed(f, count, S)
  BY <1>7
<1> DEFINE D == {n \in Nat : \A S \in SUBSET M : Cardinality(S) <= n => f[S] = of(S)}
<1>9. \A S \in SUBSET M : /\ IsFiniteSet(S) /\ Cardinality(S) \in Nat
                          /\ Cardinality(S) <= Cardinality(M)
  BY FS_Subset, FS_CardinalityType DEF AreParts
<1>10. f[{}] = of({})
  BY <1>2, <1>8 DEF Summed
<1>11. 0 \in D
  <2>1. \A S \in SUBSET M : Cardinality(S) <= 0 => S = {}
    BY <1>9, FS_EmptySet
  <2> QED
    BY <1>10, <2>1
<1>12. ASSUME NEW n \in Nat, n \in D
       PROVE  n + 1 \in D
  <2> SUFFICES ASSUME NEW S \in SUBSET M, Cardinality(S) <= n + 1, S # {}
               PROVE  f[S] = of(S)
    BY <1>10
  <2> DEFINE x == CHOOSE x \in S : TRUE
             T == S \ {x}
  <2>1. x \in S
    BY <1>4
  <2>2. f[S] = count[x] + f[T]
    BY <1>8 DEF Summed
  <2> HIDE DEF x
  <2>3. Cardinality(T) = Cardinality(S) - 1
    BY <1>9, <2>1, FS_RemoveElement
  <2>4. T \in SUBSET M /\ Cardinality(T) <= n
    BY <1>9, <2>3
  <2>5. f[T] = of(T)
    BY <1>12, <2>4
  <2>6. of(S) = count[x] + of(T)
    BY <1>3, <2>1
  <2> QED
    BY <2>2, <2>5, <2>6
<1> HIDE DEF D
<1>13. Cardinality(M) \in Nat /\ Cardinality(M) \in D
  BY <1>9, <1>11, <1>12, NatInduct
<1>14. f[M] = of(M)
  BY <1>9, <1>13 DEF D
<1> QED
  BY <1>1, <1>5, <1>14

(* What is counted is finite.                                              *)
LEMMA OfFinitelyMany ==
    ASSUME NEW S, IsFiniteSet(S), NEW g, NEW T, \A t \in T : \E x \in S : t = g[x]
    PROVE  IsFiniteSet(T)
<1> DEFINE h == [x \in S |-> g[x]]
           U == {h[x] : x \in S}
<1>1. h \in Surjection(S, U)
  BY DEF Surjection
<1>2. T \in SUBSET U
  OBVIOUS
<1> HIDE DEF h, U
<1> QED
  BY <1>1, <1>2, FS_Surjection, FS_Subset

LEMMA CallsFinite ==
    ASSUME NEW r, Readable(r)
    PROVE  IsFiniteSet(CallsOf(r))
<1> DEFINE P == UNION {{f} \X DOMAIN r.text[f] : f \in Parsed(r)}
           R(f, c) == [file |-> f, call |-> c, end |-> CallOutcome(Index(r), f, c)]
           C(p) == CallAt(r.text[p[1]], p[2])
           g == [p \in P |-> R(p[1], C(p))]
<1>1. IsFiniteSet(P)
  BY PlacesFinite
<1>2. ASSUME NEW x \in CallsOf(r)
      PROVE  \E p \in P : x = g[p]
  <2> DEFINE p == <<x.file, x.call.at>>
  <2>1. /\ x.file \in Parsed(r) /\ x.call \in Inventory(r)[x.file].calls
        /\ x = R(x.file, x.call)
    BY CallsAre
  <2>2. x.call.at \in DOMAIN r.text[x.file] /\ x.call = CallAt(r.text[x.file], x.call.at)
    BY <2>1, CallIsAt
  <2>3. p \in P /\ p[1] = x.file /\ p[2] = x.call.at
    BY <2>1, <2>2
  <2>4. C(p) = x.call
    BY <2>2, <2>3
  <2>5. x = R(p[1], C(p))
    <3> HIDE DEF p, R, C
    <3> QED
      BY <2>1, <2>3, <2>4
  <2> HIDE DEF p, R, C, P
  <2> QED
    BY <2>3, <2>5
<1> HIDE DEF g, P
<1> QED
  BY <1>1, <1>2, OfFinitelyMany

LEMMA EdgesFinite ==
    ASSUME NEW r, Readable(r)
    PROVE  IsFiniteSet(BuildRelationMap(r).edges)
<1> DEFINE P == UNION {{f} \X DOMAIN r.text[f] : f \in Parsed(r)}
           text(p) == r.text[p[1]]
           D(p) == [at |-> p[2], type |-> TypeOfDef(text(p), p[2]),
                    name |-> text(p)[p[2]].node.name,
                    scope |-> Bodies(text(p))[text(p)[p[2]].up]]
           K(f, d) == Edge("contains",
                           IF d.type = "method"
                           THEN <<"class", f, Front(d.scope), Last(d.scope)[2]>> ELSE FileNode(f),
                           NodeId([file |-> f, def |-> d]), f, d.at)
           I(f, i) == Edge("imports", FileNode(f), FileNode(Index(r).imports[f][i].edge), f, i)
           called == [x \in CallsOf(r) |-> CallEdge(r, x)]
           held == [p \in P |-> K(p[1], D(p))]
           imported == [p \in P |-> I(p[1], p[2])]
           Held == UNION {ContainsEdges(Index(r), f) : f \in Parsed(r)}
           Imported == UNION {ImportEdges(Index(r), f) : f \in Parsed(r)}
<1>1. IsFiniteSet(P)
  BY PlacesFinite
<1>2. IsFiniteSet(Resolved(r))
  <2>1. \A e \in Resolved(r) : \E x \in CallsOf(r) : e = called[x]
    BY DEF Resolved
  <2> HIDE DEF called
  <2> QED
    BY <2>1, CallsFinite, OfFinitelyMany
<1>3. ASSUME NEW f \in Parsed(r), NEW e \in ContainsEdges(Index(r), f)
      PROVE  \E p \in P : e = held[p]
  <2> DEFINE defs == {[at |-> i, type |-> TypeOfDef(r.text[f], i),
                       name |-> r.text[f][i].node.name,
                       scope |-> Bodies(r.text[f])[r.text[f][i].up]] :
                        i \in Places(r.text[f], {"def", "class"})}
  <2>1. Inventory(r)[f].defs = defs
    <3>1. Inventory(r)[f] = FileRecord(r.text[f])
      BY InventoryIs
    <3>2. FileRecord(r.text[f]).defs = defs
      BY DEF FileRecord
    <3> QED
      BY <3>1, <3>2
  <2>2. PICK d \in defs : e = K(f, d)
    <3>1. Index(r).inv = Inventory(r)
      BY IndexIs
    <3> HIDE DEF defs
    <3> QED
      BY <2>1, <3>1 DEF ContainsEdges
  <2>3. PICK i \in Places(r.text[f], {"def", "class"}) : d = D(<<f, i>>)
    BY <2>2
  <2>4. <<f, i>> \in P /\ <<f, i>>[1] = f
    BY <2>3 DEF Places
  <2> HIDE DEF K, D, P
  <2>5. held[<<f, i>>] = K(f, d)
    BY <2>3, <2>4
  <2> QED
    BY <2>2, <2>4, <2>5
<1>4. ASSUME NEW f \in Parsed(r), NEW e \in ImportEdges(Index(r), f)
      PROVE  \E p \in P : e = imported[p]
  <2>1. PICK i \in DOMAIN Index(r).imports[f] : e = I(f, i)
    BY DEF ImportEdges
  <2>2. i \in Inventory(r)[f].imports
    BY <2>1, IndexIs
  <2>3. i \in DOMAIN r.text[f]
    BY <2>2, ImportsOf DEF Places
  <2>4. <<f, i>> \in P
    BY <2>3
  <2> HIDE DEF I, P
  <2>5. imported[<<f, i>>] = I(f, i)
    BY <2>4
  <2> QED
    BY <2>1, <2>4, <2>5
<1> HIDE DEF held, imported, P
<1>5. IsFiniteSet(Held)
  <2>1. \A e \in Held : \E p \in P : e = held[p]
    BY <1>3
  <2> HIDE DEF Held
  <2> QED
    BY <1>1, <2>1, OfFinitelyMany
<1>6. IsFiniteSet(Imported)
  <2>1. \A e \in Imported : \E p \in P : e = imported[p]
    BY <1>4
  <2> HIDE DEF Imported
  <2> QED
    BY <1>1, <2>1, OfFinitelyMany
<1>7. BuildRelationMap(r).edges = Resolved(r) \cup (Held \cup Imported)
  BY EdgesAre DEF Written
<1> HIDE DEF Held, Imported
<1> QED
  BY <1>2, <1>5, <1>6, <1>7, FS_Union

(* A call that is not resolved is recorded with its place.                 *)
LEMMA UnresolvedAre ==
    ASSUME NEW r, Readable(r)
    PROVE  /\ IsFiniteSet(BuildRelationMap(r).unresolvedCalls)
           /\ \A u \in BuildRelationMap(r).unresolvedCalls : u.at[1] \in Parsed(r)
<1> DEFINE U == [x \in CallsOf(r) |-> [at |-> <<x.file, x.call.at>>, category |-> x.end.how]]
           unresolved == BuildRelationMap(r).unresolvedCalls
<1>1. unresolved = {[at |-> <<x.file, x.call.at>>, category |-> x.end.how] :
                      x \in {y \in CallsOf(r) : y.end.to = {} /\ y.end # Missed("outside")}}
  BY DEF BuildRelationMap, CallsOf
<1>2. \A u \in unresolved : \E x \in CallsOf(r) : u = U[x] /\ u.at[1] = x.file
  BY <1>1
<1> HIDE DEF U, unresolved
<1>3. IsFiniteSet(unresolved)
  BY <1>2, CallsFinite, OfFinitelyMany
<1>4. \A u \in unresolved : u.at[1] \in Parsed(r)
  BY <1>2, CallsAre
<1> QED
  BY <1>3, <1>4 DEF unresolved

(* The file of a node is the second part of its id.                        *)
LEMMA FileIsNamed ==
    ASSUME NEW r, NEW id, Known(BuildRelationMap(r), id)
    PROVE  FileOf(BuildRelationMap(r), id) = id[2]
<1> DEFINE nodes == BuildRelationMap(r).nodes
           n == CHOOSE m \in nodes : m.id = id
<1>1. \E m \in nodes : m.id = id
  BY DEF Known
<1>2. n \in nodes /\ n.id = id
  BY <1>1
<1>3. FileOf(BuildRelationMap(r), id) = n.file
  BY DEF FileOf
<1> HIDE DEF n
<1>4. n.id[2] = n.file
  BY <1>2, KnownIs DEF FileNode
<1> QED
  BY <1>2, <1>3, <1>4

(* An edge is of one of three types; one that says what contains what      *)
(* stays in its file.                                                      *)
LEMMA EdgesBetweenFiles ==
    ASSUME NEW r, Readable(r), NEW e \in BuildRelationMap(r).edges
    PROVE  LET map == BuildRelationMap(r)
           IN  /\ Known(map, e.from) /\ Known(map, e.to)
               /\ FileOf(map, e.from) \in Parsed(r) /\ FileOf(map, e.to) \in Parsed(r)
               /\ e.type \in {"calls", "imports", "contains"}
               /\ e.type = "contains" => FileOf(map, e.from) = FileOf(map, e.to)
<1> DEFINE map == BuildRelationMap(r)
<1>1. Known(map, e.from) /\ Known(map, e.to)
  BY EdgesJoinNodes DEF Joined
<1>2. FileOf(map, e.from) \in Parsed(r) /\ FileOf(map, e.to) \in Parsed(r)
  BY <1>1, KnownFile
<1>3. \/ e.type = "calls"
      \/ \E f \in Parsed(r) : e \in ContainsEdges(Index(r), f)
      \/ e.type = "imports"
  BY EdgesAre, EdgesJoinNodes DEF Written
<1>4. ASSUME NEW f \in Parsed(r), e \in ContainsEdges(Index(r), f)
      PROVE  e.type = "contains" /\ FileOf(map, e.from) = FileOf(map, e.to)
  <2> DEFINE from(d) == IF d.type = "method"
                        THEN <<"class", f, Front(d.scope), Last(d.scope)[2]>> ELSE FileNode(f)
             to(d)   == NodeId([file |-> f, def |-> d])
  <2>1. PICK d \in Inventory(r)[f].defs : e = Edge("contains", from(d), to(d), f, d.at)
    BY <1>4, IndexIs DEF ContainsEdges
  <2>2. from(d)[2] = f
    BY DEF FileNode
  <2>3. to(d)[2] = f
    BY NodeIdIs
  <2> HIDE DEF from, to
  <2>4. e.type = "contains" /\ e.from = from(d) /\ e.to = to(d)
    BY <2>1 DEF Edge
  <2>5. FileOf(map, e.from) = e.from[2] /\ FileOf(map, e.to) = e.to[2]
    BY <1>1, FileIsNamed
  <2> QED
    BY <2>2, <2>3, <2>4, <2>5
<1> HIDE DEF map
<1> QED
  BY <1>1, <1>2, <1>3, <1>4 DEF map

LEMMA FilesFinite ==
    ASSUME NEW r, Readable(r)
    PROVE  IsFiniteSet(Files(r)) /\ IsFiniteSet(Parsed(r))
  BY FS_Subset DEF Readable, Parsed

(* What the breakdown of a file holds.                                     *)
LEMMA BreakdownHolds ==
    ASSUME NEW r, Readable(r)
    PROVE  LET map == BuildRelationMap(r)
               B   == BuildFileBreakdowns(r, Inventory(r), map)
           IN  /\ \A f \in Files(r) :
                    /\ B[f].outbound = {e \in map.edges : FileOf(map, e.from) = f}
                    /\ B[f].inbound = {e \in map.edges : FileOf(map, e.to) = f}
               /\ \A f \in Parsed(r) :
                    B[f].unresolvedCalls = {u \in map.unresolvedCalls : u.at[1] = f}
<1> DEFINE map == BuildRelationMap(r)
           B   == BuildFileBreakdowns(r, Inventory(r), map)
<1>1. \A e \in map.edges : /\ Known(map, e.from) /\ Known(map, e.to)
                           /\ FileOf(map, e.from) \in Parsed(r)
                           /\ FileOf(map, e.to) \in Parsed(r)
  BY EdgesBetweenFiles
<1> HIDE DEF map
<1>2. \A f \in Parsed(r) :
        /\ B[f].outbound = {e \in map.edges : Known(map, e.from) /\ FileOf(map, e.from) = f}
        /\ B[f].inbound = {e \in map.edges : Known(map, e.to) /\ FileOf(map, e.to) = f}
        /\ B[f].unresolvedCalls = {u \in map.unresolvedCalls : u.at[1] = f}
  BY DEF BuildFileBreakdowns, Parsed
<1>3. \A f \in Files(r) \ Parsed(r) : B[f].outbound = {} /\ B[f].inbound = {}
  BY DEF BuildFileBreakdowns, Parsed
<1> HIDE DEF B
<1>4. ASSUME NEW f \in Files(r)
      PROVE  /\ B[f].outbound = {e \in map.edges : FileOf(map, e.from) = f}
             /\ B[f].inbound = {e \in map.edges : FileOf(map, e.to) = f}
  <2>1. CASE f \in Parsed(r)
    BY <1>1, <1>2, <2>1
  <2>2. CASE f \notin Parsed(r)
    <3>1. /\ {e \in map.edges : FileOf(map, e.from) = f} = {}
          /\ {e \in map.edges : FileOf(map, e.to) = f} = {}
      BY <1>1, <2>2
    <3> QED
      BY <1>3, <2>2, <3>1
  <2> QED
    BY <2>1, <2>2
<1> QED
  BY <1>2, <1>4 DEF map, B

(* What leaves the files, and what enters them, are all the edges.         *)
LEMMA FilesCountEdges ==
    ASSUME NEW r, Readable(r)
    PROVE  LET map == BuildRelationMap(r)
               B   == BuildFileBreakdowns(r, Inventory(r), map)
           IN  /\ Total([f \in DOMAIN B |-> Cardinality(B[f].outbound)])
                    = Cardinality(map.edges)
               /\ Total([f \in DOMAIN B |-> Cardinality(B[f].inbound)])
                    = Cardinality(map.edges)
<1> DEFINE map == BuildRelationMap(r)
           B   == BuildFileBreakdowns(r, Inventory(r), map)
           E   == map.edges
           left    == [e \in E |-> FileOf(map, e.from)]
           entered == [e \in E |-> FileOf(map, e.to)]
           out == [f \in DOMAIN B |-> Cardinality(B[f].outbound)]
           in  == [f \in DOMAIN B |-> Cardinality(B[f].inbound)]
<1>1. DOMAIN B = Files(r) /\ IsFiniteSet(Files(r)) /\ Parsed(r) \subseteq Files(r)
  BY BreakdownsAre, FilesFinite DEF Parsed
<1>2. \A f \in Files(r) : /\ B[f].outbound = {e \in E : FileOf(map, e.from) = f}
                          /\ B[f].inbound = {e \in E : FileOf(map, e.to) = f}
  BY BreakdownHolds
<1>3. \A e \in E : FileOf(map, e.from) \in Parsed(r) /\ FileOf(map, e.to) \in Parsed(r)
  BY EdgesBetweenFiles
<1>4. IsFiniteSet(E)
  BY EdgesFinite
<1> HIDE DEF B, map, E
<1>5. AreParts(out, E, left)
  <2>1. \A f \in Files(r) : B[f].outbound = {e \in E : left[e] = f}
    BY <1>2
  <2>2. \A e \in E : left[e] \in DOMAIN out
    BY <1>1, <1>3
  <2>3. \A f \in DOMAIN out : out[f] = Cardinality({e \in E : left[e] = f})
    <3> HIDE DEF left
    <3> QED
      BY <1>1, <2>1
  <2> QED
    BY <1>1, <1>4, <2>2, <2>3 DEF AreParts
<1>6. AreParts(in, E, entered)
  <2>1. \A f \in Files(r) : B[f].inbound = {e \in E : entered[e] = f}
    BY <1>2
  <2>2. \A e \in E : entered[e] \in DOMAIN in
    BY <1>1, <1>3
  <2>3. \A f \in DOMAIN in : in[f] = Cardinality({e \in E : entered[e] = f})
    <3> HIDE DEF entered
    <3> QED
      BY <1>1, <2>1
  <2> QED
    BY <1>1, <1>4, <2>2, <2>3 DEF AreParts
<1> HIDE DEF in, out, left, entered
<1>7. Total(out) = Cardinality(E) /\ Total(in) = Cardinality(E)
  BY <1>5, <1>6, TotalOfParts
<1> QED
  BY <1>7 DEF in, out, B, E, map

(* The edges with the files they join, as the cluster map sees them.       *)
EndsOf(map) ==
    {[edge |-> e, from |-> FileOf(map, e.from), to |-> FileOf(map, e.to)] : e \in map.edges}

(* What the cluster map holds of them.                                     *)
HoldEnds(C, files, ends) ==
    /\ DOMAIN C.of = files
    /\ DOMAIN C.clusters = {C.of[f] : f \in files}
    /\ C.cross = {x \in ends : C.of[x.from] # C.of[x.to] /\ x.edge.type # "contains"}
    /\ \A c \in DOMAIN C.clusters :
         /\ C.clusters[c].files = {f \in files : C.of[f] = c}
         /\ C.clusters[c].calls = Cardinality({x \in ends :
              C.of[x.from] = c /\ C.of[x.to] = c /\ x.edge.type = "calls"})
         /\ C.clusters[c].imports = Cardinality({x \in ends :
              C.of[x.from] = c /\ C.of[x.to] = c /\ x.edge.type = "imports"})
         /\ C.clusters[c].contains = Cardinality({x \in ends :
              C.of[x.from] = c /\ C.of[x.to] = c /\ x.edge.type = "contains"})
         /\ C.clusters[c].outbound = Cardinality({x \in C.cross : C.of[x.from] = c})
         /\ C.clusters[c].inbound = Cardinality({x \in C.cross : C.of[x.to] = c})

LEMMA ClusterHolds ==
    ASSUME NEW r, Readable(r)
    PROVE  HoldEnds(BuildClusterMap(r, Inventory(r), BuildRelationMap(r)), Files(r),
                    EndsOf(BuildRelationMap(r)))
<1> DEFINE map  == BuildRelationMap(r)
           C    == BuildClusterMap(r, Inventory(r), map)
           K    == C.clusters
           ends == EndsOf(map)
           known == {[edge |-> e, from |-> FileOf(map, e.from), to |-> FileOf(map, e.to)] :
                       e \in {x \in map.edges : Known(map, x.from) /\ Known(map, x.to)}}
<1>1. known = ends
  <2>1. \A e \in map.edges : Known(map, e.from) /\ Known(map, e.to)
    BY EdgesBetweenFiles
  <2>2. {x \in map.edges : Known(map, x.from) /\ Known(map, x.to)} = map.edges
    BY <2>1
  <2> QED
    BY <2>2 DEF EndsOf
<1>2. DOMAIN C.of = Files(r) /\ DOMAIN K = {C.of[f] : f \in Files(r)}
  BY DEF BuildClusterMap
<1>3. C.cross = {x \in known : C.of[x.from] # C.of[x.to] /\ x.edge.type # "contains"}
  BY DEF BuildClusterMap
<1>4. ASSUME NEW c \in DOMAIN K
      PROVE  /\ K[c].files = {f \in Files(r) : C.of[f] = c}
             /\ K[c].calls = Cardinality({x \in known :
                  C.of[x.from] = c /\ C.of[x.to] = c /\ x.edge.type = "calls"})
             /\ K[c].imports = Cardinality({x \in known :
                  C.of[x.from] = c /\ C.of[x.to] = c /\ x.edge.type = "imports"})
             /\ K[c].contains = Cardinality({x \in known :
                  C.of[x.from] = c /\ C.of[x.to] = c /\ x.edge.type = "contains"})
             /\ K[c].outbound = Cardinality({x \in C.cross : C.of[x.from] = c})
             /\ K[c].inbound = Cardinality({x \in C.cross : C.of[x.to] = c})
  <2>1. K[c].files = {f \in Files(r) : C.of[f] = c}
    BY Zenon DEF BuildClusterMap
  <2>2. K[c].calls = Cardinality({x \in known :
          C.of[x.from] = c /\ C.of[x.to] = c /\ x.edge.type = "calls"})
    BY Zenon DEF BuildClusterMap
  <2>3. K[c].imports = Cardinality({x \in known :
          C.of[x.from] = c /\ C.of[x.to] = c /\ x.edge.type = "imports"})
    BY Zenon DEF BuildClusterMap
  <2>4. K[c].contains = Cardinality({x \in known :
          C.of[x.from] = c /\ C.of[x.to] = c /\ x.edge.type = "contains"})
    BY Zenon DEF BuildClusterMap
  <2>5. K[c].outbound = Cardinality({x \in C.cross : C.of[x.from] = c})
    BY Zenon DEF BuildClusterMap
  <2>6. K[c].inbound = Cardinality({x \in C.cross : C.of[x.to] = c})
    BY Zenon DEF BuildClusterMap
  <2> HIDE DEF known, K, C
  <2> QED
    BY <2>1, <2>2, <2>3, <2>4, <2>5, <2>6
<1> HIDE DEF known, C
<1>5. HoldEnds(C, Files(r), known)
  BY <1>2, <1>3, <1>4 DEF HoldEnds
<1> QED
  BY <1>1, <1>5 DEF C

(* There are as many as there are edges.                                   *)
LEMMA EndsCounted ==
    ASSUME NEW r, Readable(r)
    PROVE  LET map  == BuildRelationMap(r)
               ends == EndsOf(map)
           IN  /\ IsFiniteSet(ends) /\ Cardinality(ends) = Cardinality(map.edges)
               /\ \A x \in ends :
                    /\ x = [edge |-> x.edge, from |-> FileOf(map, x.edge.from),
                            to |-> FileOf(map, x.edge.to)]
                    /\ x.edge \in map.edges
                    /\ x.from \in Parsed(r) /\ x.to \in Parsed(r)
                    /\ x.edge.type \in {"calls", "imports", "contains"}
                    /\ x.edge.type = "contains" => x.from = x.to
<1> DEFINE map  == BuildRelationMap(r)
           ends == EndsOf(map)
           end(e) == [edge |-> e, from |-> FileOf(map, e.from), to |-> FileOf(map, e.to)]
           g == [e \in map.edges |-> end(e)]
<1>1. IsFiniteSet(map.edges)
  BY EdgesFinite
<1>2. ends = {end(e) : e \in map.edges}
  BY DEF EndsOf
<1>3. \A e \in map.edges : /\ FileOf(map, e.from) \in Parsed(r)
                           /\ FileOf(map, e.to) \in Parsed(r)
                           /\ e.type \in {"calls", "imports", "contains"}
                           /\ e.type = "contains" => FileOf(map, e.from) = FileOf(map, e.to)
  BY EdgesBetweenFiles
<1> HIDE DEF map, ends
<1>4. \A x \in ends :
        /\ x = [edge |-> x.edge, from |-> FileOf(map, x.edge.from),
                to |-> FileOf(map, x.edge.to)]
        /\ x.edge \in map.edges
        /\ x.from \in Parsed(r) /\ x.to \in Parsed(r)
        /\ x.edge.type \in {"calls", "imports", "contains"}
        /\ x.edge.type = "contains" => x.from = x.to
  BY <1>2, <1>3
<1>5. g \in Bijection(map.edges, ends)
  <2>1. \A e \in map.edges : end(e).edge = e
    OBVIOUS
  <2> HIDE DEF end
  <2> QED
    BY <1>2, <2>1 DEF Bijection, Injection, IsInjective, Surjection
<1> HIDE DEF g
<1>6. ExistsBijection(map.edges, ends)
  BY <1>5 DEF ExistsBijection
<1>7. IsFiniteSet(ends) /\ Cardinality(ends) = Cardinality(map.edges)
  BY <1>1, <1>6, FS_Bijection
<1> QED
  BY <1>4, <1>7 DEF map, ends

LEMMA ThreeTypes ==
    ASSUME NEW S, IsFiniteSet(S),
           \A x \in S : x.edge.type \in {"calls", "imports", "contains"}
    PROVE  Cardinality({x \in S : x.edge.type = "calls"})
             + Cardinality({x \in S : x.edge.type = "imports"})
             + Cardinality({x \in S : x.edge.type = "contains"}) = Cardinality(S)
<1> DEFINE A == {x \in S : x.edge.type = "calls"}
           B == {x \in S : x.edge.type = "imports"}
           D == {x \in S : x.edge.type = "contains"}
<1>1. /\ A \in SUBSET S /\ B \in SUBSET S /\ D \in SUBSET S /\ S = (A \cup B) \cup D
      /\ A \cap B = {} /\ (A \cup B) \cap D = {}
  OBVIOUS
<1> HIDE DEF A, B, D
<1>2. IsFiniteSet(A) /\ IsFiniteSet(B) /\ IsFiniteSet(D)
  BY <1>1, FS_Subset
<1>3. Cardinality(A) \in Nat /\ Cardinality(B) \in Nat /\ Cardinality(D) \in Nat
  BY <1>2, FS_CardinalityType
<1>4. Cardinality({}) = 0
  BY FS_EmptySet
<1>5. IsFiniteSet(A \cup B) /\ Cardinality(A \cup B) = Cardinality(A) + Cardinality(B) - 0
  BY <1>1, <1>2, <1>4, FS_Union
<1>6. Cardinality((A \cup B) \cup D) = Cardinality(A \cup B) + Cardinality(D) - 0
  BY <1>1, <1>2, <1>4, <1>5, FS_Union
<1>7. Cardinality(A) + Cardinality(B) + Cardinality(D) = Cardinality(S)
  BY <1>1, <1>3, <1>5, <1>6
<1> QED
  BY <1>7 DEF A, B, D

(* What stays in the clusters, and what joins two, are all the edges.      *)
LEMMA ClustersCountEdges ==
    ASSUME NEW r, Readable(r)
    PROVE  LET map == BuildRelationMap(r)
               C   == BuildClusterMap(r, Inventory(r), map)
               K   == C.clusters
           IN  Total([c \in DOMAIN K |-> K[c].calls + K[c].imports + K[c].contains])
                 + Cardinality(C.cross) = Cardinality(map.edges)
<1> DEFINE map  == BuildRelationMap(r)
           C    == BuildClusterMap(r, Inventory(r), map)
           K    == C.clusters
           ends == EndsOf(map)
           of   == C.of
           inner == {x \in ends : of[x.from] = of[x.to]}
           home == [x \in inner |-> of[x.from]]
           count == [c \in DOMAIN K |-> K[c].calls + K[c].imports + K[c].contains]
<1>0. HoldEnds(C, Files(r), ends)
  BY ClusterHolds
<1>2. /\ IsFiniteSet(ends) /\ Cardinality(ends) = Cardinality(map.edges)
      /\ \A x \in ends :
           /\ x.from \in Parsed(r) /\ x.to \in Parsed(r)
           /\ x.edge.type \in {"calls", "imports", "contains"}
           /\ x.edge.type = "contains" => x.from = x.to
  BY EndsCounted
<1>3. IsFiniteSet(Files(r)) /\ Parsed(r) \subseteq Files(r)
  BY FilesFinite DEF Parsed
<1> HIDE DEF map, C, ends
<1>1. /\ DOMAIN K = {of[f] : f \in Files(r)}
      /\ C.cross = {x \in ends : of[x.from] # of[x.to] /\ x.edge.type # "contains"}
      /\ \A c \in DOMAIN K :
           /\ K[c].calls = Cardinality({x \in ends :
                of[x.from] = c /\ of[x.to] = c /\ x.edge.type = "calls"})
           /\ K[c].imports = Cardinality({x \in ends :
                of[x.from] = c /\ of[x.to] = c /\ x.edge.type = "imports"})
           /\ K[c].contains = Cardinality({x \in ends :
                of[x.from] = c /\ of[x.to] = c /\ x.edge.type = "contains"})
  BY <1>0 DEF HoldEnds
<1>4. /\ inner \in SUBSET ends /\ C.cross \in SUBSET ends
      /\ ends = inner \cup C.cross /\ inner \cap C.cross = {}
  BY <1>1, <1>2
<1>5. IsFiniteSet(inner) /\ IsFiniteSet(C.cross)
  BY <1>2, <1>4, FS_Subset
<1>6. IsFiniteSet(DOMAIN K)
  <2>1. \A c \in DOMAIN K : \E f \in Files(r) : c = of[f]
    BY <1>1
  <2> QED
    BY <1>3, <2>1, OfFinitelyMany
<1>7. ASSUME NEW c \in DOMAIN K
      PROVE  count[c] = Cardinality({x \in inner : home[x] = c})
  <2> DEFINE S == {x \in inner : home[x] = c}
  <2>1. S = {x \in ends : of[x.from] = c /\ of[x.to] = c}
    OBVIOUS
  <2>2. IsFiniteSet(S) /\ \A x \in S : x.edge.type \in {"calls", "imports", "contains"}
    <3>1. S \in SUBSET ends
      BY <2>1
    <3> QED
      BY <1>2, <3>1, FS_Subset
  <2>3. /\ {x \in ends : of[x.from] = c /\ of[x.to] = c /\ x.edge.type = "calls"}
             = {x \in S : x.edge.type = "calls"}
        /\ {x \in ends : of[x.from] = c /\ of[x.to] = c /\ x.edge.type = "imports"}
             = {x \in S : x.edge.type = "imports"}
        /\ {x \in ends : of[x.from] = c /\ of[x.to] = c /\ x.edge.type = "contains"}
             = {x \in S : x.edge.type = "contains"}
    BY <2>1
  <2>4. count[c] = K[c].calls + K[c].imports + K[c].contains
    OBVIOUS
  <2> HIDE DEF S, count
  <2>5. count[c] = Cardinality(S)
    BY <1>1, <2>2, <2>3, <2>4, ThreeTypes
  <2> QED
    BY <2>5 DEF S
<1>8. \A x \in inner : home[x] \in DOMAIN K
  BY <1>1, <1>2, <1>3
<1>9. DOMAIN count = DOMAIN K
  OBVIOUS
<1> HIDE DEF inner, home, count
<1>10. Total(count) = Cardinality(inner)
  <2>1. AreParts(count, inner, home)
    BY <1>5, <1>6, <1>7, <1>8, <1>9 DEF AreParts
  <2> QED
    BY <2>1, TotalOfParts
<1>11. Cardinality(inner) + Cardinality(C.cross) = Cardinality(ends)
  <2>1. Cardinality(inner) \in Nat /\ Cardinality(C.cross) \in Nat
    BY <1>5, FS_CardinalityType
  <2>2. Cardinality(inner \cup C.cross)
          = Cardinality(inner) + Cardinality(C.cross) - Cardinality(inner \cap C.cross)
    BY <1>5, FS_Union
  <2>3. Cardinality(inner \cap C.cross) = 0
    BY <1>4, FS_EmptySet
  <2> QED
    BY <1>4, <2>1, <2>2, <2>3
<1> QED
  BY <1>2, <1>10, <1>11 DEF count, map, C

(* What the files of a cluster send to and get from other clusters, by     *)
(* type, is what the cluster does.                                         *)
LEMMA ContextCountsClusters ==
    ASSUME NEW r, Readable(r), NEW flow,
           NEW c \in DOMAIN BuildClusterMap(r, Inventory(r), BuildRelationMap(r)).clusters
    PROVE  LET C       == BuildClusterMap(r, Inventory(r), BuildRelationMap(r))
               K       == C.clusters
               X       == BuildContext(C, flow)
               towards == K[c].files \X (DOMAIN K) \X {"calls", "imports"}
           IN  /\ Total([x \in towards |-> X[x[1]].outbound[<<x[2], x[3]>>]]) = K[c].outbound
               /\ Total([x \in towards |-> X[x[1]].inbound[<<x[2], x[3]>>]]) = K[c].inbound
<1> DEFINE C       == BuildClusterMap(r, Inventory(r), BuildRelationMap(r))
           K       == C.clusters
           of      == C.of
           both    == {"calls", "imports"}
           X       == BuildContext(C, flow)
           towards == K[c].files \X (DOMAIN K) \X both
           ends    == EndsOf(BuildRelationMap(r))
           sent    == {x \in C.cross : of[x.from] = c}
           got     == {x \in C.cross : of[x.to] = c}
           outs    == [x \in sent |-> <<x.from, of[x.to], x.edge.type>>]
           ins     == [x \in got |-> <<x.to, of[x.from], x.edge.type>>]
           outward == [x \in towards |-> X[x[1]].outbound[<<x[2], x[3]>>]]
           inward  == [x \in towards |-> X[x[1]].inbound[<<x[2], x[3]>>]]
           out(f, d, t) == Cardinality({x \in C.cross :
                             x.from = f /\ of[x.to] = d /\ x.edge.type = t})
           in(f, d, t)  == Cardinality({x \in C.cross :
                             x.to = f /\ of[x.from] = d /\ x.edge.type = t})
<1>0. HoldEnds(C, Files(r), ends)
  BY ClusterHolds
<1>1. /\ IsFiniteSet(ends)
      /\ \A x \in ends : /\ x.from \in Files(r) /\ x.to \in Files(r)
                         /\ x.edge.type \in {"calls", "imports", "contains"}
  BY EndsCounted DEF Parsed
<1>2. IsFiniteSet(Files(r))
  BY FilesFinite
<1>3. \A f \in DOMAIN of : \A d \in DOMAIN K : \A t \in both :
        /\ X[f].outbound[<<d, t>>] = out(f, d, t)
        /\ X[f].inbound[<<d, t>>] = in(f, d, t)
  <2> SUFFICES ASSUME NEW f \in DOMAIN of, NEW d \in DOMAIN K, NEW t \in both
               PROVE  /\ X[f].outbound[<<d, t>>] = out(f, d, t)
                      /\ X[f].inbound[<<d, t>>] = in(f, d, t)
    OBVIOUS
  <2> HIDE DEF C
  <2>1. X[f].outbound = [y \in (DOMAIN K) \X both |-> out(f, y[1], y[2])]
    BY DEF BuildContext
  <2>2. X[f].inbound = [y \in (DOMAIN K) \X both |-> in(f, y[1], y[2])]
    BY DEF BuildContext
  <2>3. <<d, t>> \in (DOMAIN K) \X both /\ <<d, t>>[1] = d /\ <<d, t>>[2] = t
    OBVIOUS
  <2> HIDE DEF out, in, X
  <2> QED
    BY <2>1, <2>2, <2>3
<1> HIDE DEF C, X, ends
<1>4. /\ DOMAIN of = Files(r) /\ DOMAIN K = {of[f] : f \in Files(r)}
      /\ C.cross = {x \in ends : of[x.from] # of[x.to] /\ x.edge.type # "contains"}
      /\ K[c].files = {f \in Files(r) : of[f] = c}
      /\ K[c].outbound = Cardinality(sent) /\ K[c].inbound = Cardinality(got)
  BY <1>0 DEF HoldEnds, C
<1>5. IsFiniteSet(sent) /\ IsFiniteSet(got)
  <2>1. sent \in SUBSET ends /\ got \in SUBSET ends
    BY <1>4
  <2> QED
    BY <1>1, <2>1, FS_Subset
<1>6. IsFiniteSet(towards)
  <2>1. IsFiniteSet(K[c].files)
    <3>1. K[c].files \in SUBSET Files(r)
      BY <1>4
    <3> QED
      BY <1>2, <3>1, FS_Subset
  <2>2. IsFiniteSet(DOMAIN K)
    <3>1. \A d \in DOMAIN K : \E f \in Files(r) : d = of[f]
      BY <1>4
    <3> QED
      BY <1>2, <3>1, OfFinitelyMany
  <2>3. IsFiniteSet(both)
    <3>1. IsFiniteSet({"calls"} \cup {"imports"})
      BY FS_Singleton, FS_Union
    <3>2. {"calls"} \cup {"imports"} = both
      OBVIOUS
    <3> QED
      BY <3>1, <3>2
  <2> DEFINE S == (K[c].files \X (DOMAIN K)) \X both
             g == [p \in S |-> <<p[1][1], p[1][2], p[2]>>]
  <2>4. IsFiniteSet(S)
    <3>1. IsFiniteSet(K[c].files \X (DOMAIN K))
      BY <2>1, <2>2, FS_Product
    <3> QED
      BY <2>3, <3>1, FS_Product
  <2>5. \A x \in towards : \E p \in S : x = g[p]
    <3> SUFFICES ASSUME NEW x \in towards PROVE \E p \in S : x = g[p]
      OBVIOUS
    <3>1. <<<<x[1], x[2]>>, x[3]>> \in S /\ x = <<x[1], x[2], x[3]>>
      OBVIOUS
    <3> QED
      BY <3>1
  <2> HIDE DEF S, g
  <2> QED
    BY <2>4, <2>5, OfFinitelyMany
<1>7. /\ \A x \in sent : outs[x] \in towards
      /\ \A x \in got : ins[x] \in towards
  BY <1>1, <1>4
<1>8. ASSUME NEW i \in towards
      PROVE  /\ outward[i] = Cardinality({x \in sent : outs[x] = i})
             /\ inward[i] = Cardinality({x \in got : ins[x] = i})
  <2>1. /\ i = <<i[1], i[2], i[3]>> /\ i[1] \in Files(r) /\ of[i[1]] = c
        /\ i[2] \in DOMAIN K /\ i[3] \in both
    BY <1>4
  <2>2. /\ outward[i] = Cardinality({x \in C.cross :
             x.from = i[1] /\ of[x.to] = i[2] /\ x.edge.type = i[3]})
        /\ inward[i] = Cardinality({x \in C.cross :
             x.to = i[1] /\ of[x.from] = i[2] /\ x.edge.type = i[3]})
    <3>1. /\ outward[i] = X[i[1]].outbound[<<i[2], i[3]>>]
          /\ inward[i] = X[i[1]].inbound[<<i[2], i[3]>>]
      OBVIOUS
    <3> HIDE DEF outward, inward, out, in
    <3>2. /\ outward[i] = out(i[1], i[2], i[3])
          /\ inward[i] = in(i[1], i[2], i[3])
      BY <1>3, <1>4, <2>1, <3>1
    <3> QED
      BY <3>2 DEF out, in
  <2>3. {x \in C.cross : x.from = i[1] /\ of[x.to] = i[2] /\ x.edge.type = i[3]}
          = {x \in sent : outs[x] = i}
    BY <2>1
  <2>4. {x \in C.cross : x.to = i[1] /\ of[x.from] = i[2] /\ x.edge.type = i[3]}
          = {x \in got : ins[x] = i}
    BY <2>1
  <2> HIDE DEF sent, got, outs, ins, outward, inward
  <2> QED
    BY <2>2, <2>3, <2>4
<1>9. DOMAIN outward = towards /\ DOMAIN inward = towards
  OBVIOUS
<1> HIDE DEF sent, got, outs, ins, outward, inward, towards
<1>10. AreParts(outward, sent, outs) /\ AreParts(inward, got, ins)
  BY <1>5, <1>6, <1>7, <1>8, <1>9 DEF AreParts
<1>11. Total(outward) = Cardinality(sent) /\ Total(inward) = Cardinality(got)
  BY <1>10, TotalOfParts
<1>12. Total(outward) = K[c].outbound /\ Total(inward) = K[c].inbound
  BY <1>4, <1>11
<1> QED
  BY <1>12 DEF outward, inward, towards, X, C

(* The matrix counts the calls between clusters.                           *)
LEMMA MatrixCountsCalls ==
    ASSUME NEW r, Readable(r)
    PROVE  LET map == BuildRelationMap(r)
               C   == BuildClusterMap(r, Inventory(r), map)
               F   == BuildFlowMap(map, C)
           IN  Total([p \in DOMAIN F.matrix |-> F.matrix[p].calls])
                 = Cardinality({x \in C.cross : x.edge.type = "calls"})
<1> DEFINE map  == BuildRelationMap(r)
           C    == BuildClusterMap(r, Inventory(r), map)
           of   == C.of
           F    == BuildFlowMap(map, C)
           M    == F.matrix
           ends == EndsOf(map)
           crossing == {e \in CallEdges(map) : of[FileOf(map, e.from)] # of[FileOf(map, e.to)]}
           pair  == [e \in crossing |-> <<of[FileOf(map, e.from)], of[FileOf(map, e.to)]>>]
           calls == {x \in C.cross : x.edge.type = "calls"}
           end(e) == [edge |-> e, from |-> FileOf(map, e.from), to |-> FileOf(map, e.to)]
           g == [e \in crossing |-> end(e)]
           count == [p \in DOMAIN M |-> M[p].calls]
<1>0. HoldEnds(C, Files(r), ends)
  BY ClusterHolds
<1>1. GraphEdges(map) = CallEdges(map)
  BY ForwardIs
<1>2. ends = {end(e) : e \in map.edges}
  BY DEF EndsOf
<1>3. IsFiniteSet(map.edges)
  BY EdgesFinite
<1> HIDE DEF map, C, ends
<1>4. C.cross = {x \in ends : of[x.from] # of[x.to] /\ x.edge.type # "contains"}
  BY <1>0 DEF HoldEnds
<1>5. g \in Bijection(crossing, calls)
  <2>1. \A e \in crossing : e \in map.edges /\ e.type = "calls"
    BY DEF CallEdges
  <2>2. \A e : end(e).edge = e /\ end(e).from = FileOf(map, e.from)
               /\ end(e).to = FileOf(map, e.to)
    OBVIOUS
  <2> HIDE DEF end
  <2>3. \A e \in crossing : end(e) \in calls
    BY <1>2, <1>4, <2>1, <2>2
  <2>4. \A x \in calls : \E e \in crossing : x = end(e)
    BY <1>2, <1>4, <2>2 DEF CallEdges
  <2> HIDE DEF crossing, calls
  <2> QED
    BY <2>2, <2>3, <2>4 DEF Bijection, Injection, IsInjective, Surjection
<1>6. IsFiniteSet(crossing)
  <2>1. crossing \in SUBSET map.edges
    BY DEF CallEdges
  <2> QED
    BY <1>3, <2>1, FS_Subset
<1>7. Cardinality(crossing) = Cardinality(calls)
  <2>1. ExistsBijection(crossing, calls)
    BY <1>5 DEF ExistsBijection
  <2> HIDE DEF crossing, calls
  <2> QED
    BY <1>6, <2>1, FS_Bijection
<1>8. AreParts(count, crossing, pair)
  <2>1. CASE CallEdges(map) = {}
    <3>1. M = <<>>
      BY <1>1, <2>1 DEF BuildFlowMap
    <3>2. DOMAIN count = {} /\ crossing = {}
      BY <2>1, <3>1
    <3> HIDE DEF count, crossing, pair
    <3> QED
      BY <3>2, FS_EmptySet DEF AreParts
  <2>2. CASE CallEdges(map) # {}
    <3>1. PICK followed : M = ClusterFlowMatrix(map, of, followed)
      BY <1>1, <2>2 DEF BuildFlowMap
    <3>2. /\ DOMAIN M = {pair[e] : e \in crossing}
          /\ \A p \in DOMAIN M : M[p].calls = Cardinality({e \in crossing : pair[e] = p})
      <4> DEFINE meant == {e \in CallEdges(map) : Crossing(map, of, e)}
                 P(e) == <<of[FileOf(map, e.from)], of[FileOf(map, e.to)]>>
      <4>1. meant = crossing
        BY DEF Crossing
      <4> HIDE DEF crossing
      <4>2. \A e \in crossing : pair[e] = P(e)
        OBVIOUS
      <4>3. /\ DOMAIN M = {P(e) : e \in meant}
            /\ \A p \in DOMAIN M : M[p].calls = Cardinality({e \in meant : P(e) = p})
        <5>1. DOMAIN M = {P(e) : e \in meant}
          BY <3>1 DEF ClusterFlowMatrix
        <5>2. \A p \in DOMAIN M : M[p].calls = Cardinality({e \in meant : P(e) = p})
          <6> HIDE DEF M
          <6> QED
            BY <3>1 DEF ClusterFlowMatrix
        <5> QED
          BY <5>1, <5>2
      <4> HIDE DEF meant, pair, P, M
      <4>4. {P(e) : e \in crossing} = {pair[e] : e \in crossing}
        BY <4>2
      <4>5. \A p : {e \in crossing : P(e) = p} = {e \in crossing : pair[e] = p}
        BY <4>2
      <4> QED
        BY <4>1, <4>3, <4>4, <4>5
    <3> HIDE DEF M, crossing, pair
    <3>3. IsFiniteSet(DOMAIN M)
      <4>1. \A p \in DOMAIN M : \E e \in crossing : p = pair[e]
        BY <3>2
      <4> QED
        BY <1>6, <4>1, OfFinitelyMany
    <3>4. DOMAIN count = DOMAIN M /\ \A p \in DOMAIN M : count[p] = M[p].calls
      OBVIOUS
    <3> HIDE DEF count
    <3> QED
      BY <1>6, <3>2, <3>3, <3>4 DEF AreParts
  <2> QED
    BY <2>1, <2>2
<1> HIDE DEF count, crossing, pair, calls
<1>9. Total(count) = Cardinality(calls)
  BY <1>7, <1>8, TotalOfParts
<1> QED
  BY <1>9 DEF count, calls, C, map

(* Every flow is rooted in one cluster.                                    *)
LEMMA FlowsFinite ==
    ASSUME NEW r, Readable(r), NEW cluster
    PROVE  IsFiniteSet(BuildFlowMap(BuildRelationMap(r), cluster).flows)
<1> DEFINE map == BuildRelationMap(r)
           G == BuildFlowMap(map, cluster).flows
           ids == {n.id : n \in map.nodes}
           root == [g \in G |-> g.root]
<1>1. \A g \in G : g.root \in ids
  BY FlowsCiteNodes DEF FlowRecordsCiteActualNodes, Known
<1>2. \A g, h \in G : g.root = h.root => g = h
  BY OneFlowOfRoot
<1>3. IsFiniteSet(ids)
  BY NodesFinite
<1> HIDE DEF G, ids
<1>4. root \in Injection(G, ids)
  BY <1>1, <1>2 DEF Injection, IsInjective
<1> HIDE DEF root
<1>5. IsFiniteSet(G)
  BY <1>3, <1>4, FS_Injection
<1> QED
  BY <1>5 DEF G

LEMMA ClustersRootFlows ==
    ASSUME NEW r, Readable(r)
    PROVE  LET map == BuildRelationMap(r)
               C   == BuildClusterMap(r, Inventory(r), map)
               G   == BuildFlowMap(map, C).flows
           IN  Total([c \in DOMAIN C.clusters |->
                        Cardinality({g \in G : C.of[FileOf(map, g.root)] = c})])
                 = Cardinality(G)
<1> DEFINE map == BuildRelationMap(r)
           C   == BuildClusterMap(r, Inventory(r), map)
           K   == C.clusters
           of  == C.of
           G   == BuildFlowMap(map, C).flows
           home  == [g \in G |-> of[FileOf(map, g.root)]]
           count == [c \in DOMAIN K |->
                       Cardinality({g \in G : of[FileOf(map, g.root)] = c})]
<1>1. IsFiniteSet(G)
  BY FlowsFinite
<1>2. \A g \in G : FileOf(map, g.root) \in Files(r)
  <2>1. \A g \in G : Known(map, g.root)
    BY FlowsCiteNodes DEF FlowRecordsCiteActualNodes
  <2> QED
    BY <2>1, KnownFile DEF Parsed
<1>3. DOMAIN K = {of[f] : f \in Files(r)}
  BY ClusterHolds DEF HoldEnds
<1> HIDE DEF map, C, G
<1>4. IsFiniteSet(DOMAIN K)
  <2>1. \A c \in DOMAIN K : \E f \in Files(r) : c = of[f]
    BY <1>3
  <2> QED
    BY <2>1, FilesFinite, OfFinitelyMany
<1>5. \A g \in G : home[g] \in DOMAIN K
  BY <1>2, <1>3
<1>6. ASSUME NEW c \in DOMAIN K
      PROVE  count[c] = Cardinality({g \in G : home[g] = c})
  <2>1. {g \in G : home[g] = c} = {g \in G : of[FileOf(map, g.root)] = c}
    OBVIOUS
  <2>2. count[c] = Cardinality({g \in G : of[FileOf(map, g.root)] = c})
    OBVIOUS
  <2> HIDE DEF home, count
  <2> QED
    BY <2>1, <2>2
<1>7. DOMAIN count = DOMAIN K
  OBVIOUS
<1> HIDE DEF home, count
<1>8. AreParts(count, G, home)
  BY <1>1, <1>4, <1>5, <1>6, <1>7 DEF AreParts
<1>9. Total(count) = Cardinality(G)
  BY <1>8, TotalOfParts
<1> QED
  BY <1>9 DEF count, G, map, C

(* Each call that is resolved is made in one file and ends in one file;    *)
(* each that is not is made in one file, and has one category.             *)
LEMMA FilesCountCalls ==
    ASSUME NEW r, Readable(r)
    PROVE  LET map == BuildRelationMap(r)
               B   == BuildFileBreakdowns(r, Inventory(r), map)
           IN  Total([f \in Parsed(r) |-> Cardinality(OfType(B[f].outbound, "calls"))])
                 = Total([f \in Parsed(r) |-> Cardinality(OfType(B[f].inbound, "calls"))])
<1> DEFINE map == BuildRelationMap(r)
           B   == BuildFileBreakdowns(r, Inventory(r), map)
           E   == CallEdges(map)
           left    == [e \in E |-> FileOf(map, e.from)]
           entered == [e \in E |-> FileOf(map, e.to)]
           out == [f \in Parsed(r) |-> Cardinality(OfType(B[f].outbound, "calls"))]
           in  == [f \in Parsed(r) |-> Cardinality(OfType(B[f].inbound, "calls"))]
<1>1. IsFiniteSet(Parsed(r)) /\ Parsed(r) \subseteq Files(r)
  BY FilesFinite DEF Parsed
<1>2. \A f \in Files(r) :
        /\ B[f].outbound = {e \in map.edges : FileOf(map, e.from) = f}
        /\ B[f].inbound = {e \in map.edges : FileOf(map, e.to) = f}
  BY BreakdownHolds
<1>3. \A e \in E : FileOf(map, e.from) \in Parsed(r) /\ FileOf(map, e.to) \in Parsed(r)
  BY EdgesBetweenFiles DEF CallEdges
<1>4. IsFiniteSet(E)
  <2>1. E \in SUBSET map.edges
    BY DEF CallEdges
  <2> QED
    BY <2>1, EdgesFinite, FS_Subset
<1> HIDE DEF B, map
<1>5. ASSUME NEW f \in Parsed(r)
      PROVE  /\ OfType(B[f].outbound, "calls") = {e \in E : left[e] = f}
             /\ OfType(B[f].inbound, "calls") = {e \in E : entered[e] = f}
  BY <1>1, <1>2 DEF OfType, CallEdges
<1>6. /\ DOMAIN out = Parsed(r) /\ DOMAIN in = Parsed(r)
      /\ \A f \in Parsed(r) : /\ out[f] = Cardinality(OfType(B[f].outbound, "calls"))
                              /\ in[f] = Cardinality(OfType(B[f].inbound, "calls"))
  OBVIOUS
<1>7. \A e \in E : left[e] \in Parsed(r) /\ entered[e] \in Parsed(r)
  BY <1>3
<1> HIDE DEF E, left, entered, out, in
<1>8. AreParts(out, E, left) /\ AreParts(in, E, entered)
  <2>1. /\ \A f \in Parsed(r) : out[f] = Cardinality({e \in E : left[e] = f})
        /\ \A f \in Parsed(r) : in[f] = Cardinality({e \in E : entered[e] = f})
    BY <1>5, <1>6
  <2>2. AreParts(out, E, left)
    BY <1>1, <1>4, <1>6, <1>7, <2>1 DEF AreParts
  <2>3. AreParts(in, E, entered)
    BY <1>1, <1>4, <1>6, <1>7, <2>1 DEF AreParts
  <2> QED
    BY <2>2, <2>3
<1>9. Total(out) = Cardinality(E) /\ Total(in) = Cardinality(E)
  BY <1>8, TotalOfParts
<1> QED
  BY <1>9 DEF out, in, B, map

LEMMA FilesCountUnresolved ==
    ASSUME NEW r, Readable(r)
    PROVE  LET map == BuildRelationMap(r)
               B   == BuildFileBreakdowns(r, Inventory(r), map)
           IN  Total([f \in Parsed(r) |-> Cardinality(B[f].unresolvedCalls)])
                 = Total([c \in {u.category : u \in map.unresolvedCalls} |->
                            Cardinality({u \in map.unresolvedCalls : u.category = c})])
<1> DEFINE map == BuildRelationMap(r)
           B   == BuildFileBreakdowns(r, Inventory(r), map)
           U   == map.unresolvedCalls
           kinds == {u.category : u \in U}
           made == [u \in U |-> u.at[1]]
           kind == [u \in U |-> u.category]
           left == [f \in Parsed(r) |-> Cardinality(B[f].unresolvedCalls)]
           sorted == [c \in kinds |-> Cardinality({u \in U : u.category = c})]
<1>1. IsFiniteSet(Parsed(r))
  BY FilesFinite
<1>2. \A f \in Parsed(r) : B[f].unresolvedCalls = {u \in U : u.at[1] = f}
  BY BreakdownHolds
<1>3. IsFiniteSet(U) /\ \A u \in U : u.at[1] \in Parsed(r)
  BY UnresolvedAre
<1> HIDE DEF B, map, U
<1>4. IsFiniteSet(kinds) /\ \A u \in U : kind[u] \in kinds
  <2>1. \A c \in kinds : \E u \in U : c = kind[u]
    OBVIOUS
  <2>2. \A u \in U : kind[u] \in kinds
    OBVIOUS
  <2> HIDE DEF kinds, kind
  <2> QED
    BY <1>3, <2>1, <2>2, OfFinitelyMany
<1>5. \A f \in Parsed(r) : B[f].unresolvedCalls = {u \in U : made[u] = f}
  BY <1>2
<1>6. \A c : {u \in U : u.category = c} = {u \in U : kind[u] = c}
  OBVIOUS
<1>7. \A u \in U : made[u] \in Parsed(r)
  BY <1>3
<1>8. /\ DOMAIN left = Parsed(r) /\ DOMAIN sorted = kinds
      /\ \A f \in Parsed(r) : left[f] = Cardinality(B[f].unresolvedCalls)
      /\ \A c \in kinds : sorted[c] = Cardinality({u \in U : u.category = c})
  OBVIOUS
<1> HIDE DEF made, kind, kinds, left, sorted
<1>9. AreParts(left, U, made)
  BY <1>1, <1>3, <1>5, <1>7, <1>8 DEF AreParts
<1>10. AreParts(sorted, U, kind)
  BY <1>3, <1>4, <1>6, <1>8 DEF AreParts
<1>11. Total(left) = Cardinality(U) /\ Total(sorted) = Cardinality(U)
  BY <1>9, <1>10, TotalOfParts
<1> QED
  BY <1>11 DEF left, sorted, kinds, U, B, map

(* The artifacts count the same edges, flows and calls, for every          *)
(* repository: cluster map, context, flow matrix and dossier are each      *)
(* added up from the relation map (build_cluster_map,                      *)
(* build_per_file_context, build_flow_map, build_repo_dossier).            *)
THEOREM ArtifactsAlwaysAgree == Spec => []ArtifactsAgree
<1>1. Stages => ArtifactsAgree
  <2> SUFFICES ASSUME Stages, dossier # None
               PROVE  ArtifactsAgree
    BY DEF ArtifactsAgree
  <2> DEFINE map == BuildRelationMap(Seen)
             inv == Inventory(Seen)
             B   == BuildFileBreakdowns(Seen, inv, map)
             C   == BuildClusterMap(Seen, inv, map)
             F   == BuildFlowMap(map, C)
             X   == BuildContext(C, F)
             D   == BuildDossier(Seen, map, B, C, F)
             both == {"calls", "imports"}
  <2>1. /\ scan # None /\ inventory = inv /\ relations = map /\ breakdowns = B
        /\ clusters = C /\ flows = F /\ context = X /\ dossier = D
    BY DEF Stages
  <2>2. Readable(Seen)
    BY <2>1, SeenIs
  <2>3. /\ Total([f \in DOMAIN B |-> Cardinality(B[f].outbound)]) = Cardinality(map.edges)
        /\ Total([f \in DOMAIN B |-> Cardinality(B[f].inbound)]) = Cardinality(map.edges)
    BY <2>2, FilesCountEdges
  <2>4. Total([c \in DOMAIN C.clusters |-> C.clusters[c].calls + C.clusters[c].imports
                                             + C.clusters[c].contains])
          + Cardinality(C.cross) = Cardinality(map.edges)
    BY <2>2, ClustersCountEdges
  <2>5. \A c \in DOMAIN C.clusters :
          LET towards == C.clusters[c].files \X (DOMAIN C.clusters) \X both
          IN  /\ Total([x \in towards |-> X[x[1]].outbound[<<x[2], x[3]>>]])
                   = C.clusters[c].outbound
              /\ Total([x \in towards |-> X[x[1]].inbound[<<x[2], x[3]>>]])
                   = C.clusters[c].inbound
    BY <2>2, ContextCountsClusters
  <2>6. Total([p \in DOMAIN F.matrix |-> F.matrix[p].calls])
          = Cardinality({x \in C.cross : x.edge.type = "calls"})
    BY <2>2, MatrixCountsCalls
  <2>7. /\ Total(D.rooted) = Cardinality(F.flows)
        /\ Total(D.calls) = Total(D.called)
        /\ Total(D.unresolved) = Total(D.categories)
    <3> DEFINE P == Parsed(Seen)
    <3>1. {f \in DOMAIN B : ~B[f].broken} = P
      BY BreakdownsAre
    <3>2. /\ Total([c \in DOMAIN C.clusters |->
                      Cardinality({g \in F.flows : C.of[FileOf(map, g.root)] = c})])
               = Cardinality(F.flows)
          /\ Total([f \in P |-> Cardinality(OfType(B[f].outbound, "calls"))])
               = Total([f \in P |-> Cardinality(OfType(B[f].inbound, "calls"))])
          /\ Total([f \in P |-> Cardinality(B[f].unresolvedCalls)])
               = Total([c \in {u.category : u \in map.unresolvedCalls} |->
                          Cardinality({u \in map.unresolvedCalls : u.category = c})])
      BY <2>2, ClustersRootFlows, FilesCountCalls, FilesCountUnresolved
    <3> HIDE DEF map, B, C, F, P
    <3>3. /\ D.rooted = [c \in DOMAIN C.clusters |->
                           Cardinality({g \in F.flows : C.of[FileOf(map, g.root)] = c})]
          /\ D.calls = [f \in P |-> Cardinality(OfType(B[f].outbound, "calls"))]
          /\ D.called = [f \in P |-> Cardinality(OfType(B[f].inbound, "calls"))]
          /\ D.unresolved = [f \in P |-> Cardinality(B[f].unresolvedCalls)]
          /\ D.categories = [c \in {u.category : u \in map.unresolvedCalls} |->
                               Cardinality({u \in map.unresolvedCalls : u.category = c})]
      BY <3>1 DEF BuildDossier, RankFiles
    <3> HIDE DEF D
    <3> QED
      BY <3>2, <3>3
  <2> HIDE DEF map, inv, B, C, F, X, D
  <2> QED
    BY <2>1, <2>3, <2>4, <2>5, <2>6, <2>7 DEF ArtifactsAgree
<1> QED
  BY <1>1, StagesAlways, PTL

-----------------------------------------------------------------------------
(* Calls and what they mean.                                               *)

(* Paths are told apart and numbered as they are sorted.                   *)
Numbered ==
    \A f, g \in Files(repo) :
      /\ repo.path[f] = repo.path[g] => f = g
      /\ repo.path[g] = Append(repo.path[f], "__init__") => f < g

LEMMA NumberedAlways == Spec => []Numbered
<1>1. Init => Numbered
  <2> SUFFICES ASSUME Init PROVE Numbered
    OBVIOUS
  <2>1. repo \in Projects
    BY DEF Init
  <2> QED
    BY <2>1, ProjectsAssumption DEF Numbered, Files
<1>2. Stages /\ Numbered /\ [Next]_vars => Numbered'
  <2> SUFFICES ASSUME Stages, Numbered, [Next]_vars
               PROVE  Numbered'
    OBVIOUS
  <2>1. repo'.path = repo.path
    <3>1. ASSUME NEW f \in Files(repo), Write(f)
          PROVE  repo'.path = repo.path
      BY <3>1 DEF Write, Stages, Editable
    <3>2. ASSUME NEW f \in Files(repo), Break(f)
          PROVE  repo'.path = repo.path
      BY <3>2 DEF Break, Stages, Editable
    <3>3. ScanRepo \/ ExtractFiles \/ BuildRelations \/ BuildBreakdowns
            \/ EnrichAndCluster \/ BuildFlows \/ BuildReports \/ DeriveMeaning
            \/ UNCHANGED vars => repo' = repo
      BY DEF ScanRepo, ExtractFiles, BuildRelations, BuildBreakdowns,
             EnrichAndCluster, BuildFlows, BuildReports, DeriveMeaning, vars
    <3> QED
      BY <3>1, <3>2, <3>3 DEF Next, Done
  <2> QED
    BY <2>1 DEF Numbered, Files
<1> QED
  BY <1>1, <1>2, StagesAlways, PTL DEF Spec

(* A repository that was scanned, as the properties and as the stages      *)
(* read it.                                                                *)
Scanned == /\ Stages /\ Numbered /\ RootIsUnnamed
           /\ scan # None /\ inventory = Inventory(Seen)

Read == scan \ repo.broken

LEMMA ReadIs ==
    ASSUME Scanned
    PROVE  /\ Readable(Seen) /\ Parsed(Seen) = Read /\ Read \subseteq scan
           /\ scan \subseteq Files(repo) /\ scan \subseteq Nat /\ IsFiniteSet(Read)
           /\ \A f \in scan : /\ Seen.text[f] = repo.text[f] /\ IsText(repo.text[f])
                              /\ Seen.path[f] = repo.path[f] /\ IsPath(repo.path[f])
<1>1. /\ Readable(Seen) /\ Files(Seen) = scan /\ Parsed(Seen) = Read
      /\ \A f \in scan : IsPath(Seen.path[f])
  BY SeenIs DEF Scanned, Read
<1>2. \A f \in scan : Seen.text[f] = repo.text[f] /\ Seen.path[f] = repo.path[f]
  BY DEF Seen
<1>3. scan \subseteq Files(repo) /\ scan \subseteq Nat /\ IsFiniteSet(scan)
  BY <1>1 DEF Scanned, Stages, Readable
<1>4. Read \in SUBSET scan
  BY DEF Read
<1>5. IsFiniteSet(Read)
  BY <1>3, <1>4, FS_Subset
<1> QED
  BY <1>1, <1>2, <1>3, <1>4, <1>5 DEF Readable

(* The definition at a place of a file, and the places that define a name. *)
RecordAt(text, i) == [at |-> i, type |-> TypeOfDef(text, i), name |-> text[i].node.name,
                      scope |-> Bodies(text)[text[i].up]]

DefAt(f, i) == [file |-> f, def |-> RecordAt(repo.text[f], i)]

PlacesOf(f, name) == {i \in DOMAIN repo.text[f] :
                        /\ repo.text[f][i].node.kind \in {"def", "class"}
                        /\ repo.text[f][i].node.name = name}

LEMMA RecordsAre ==
    ASSUME Scanned, NEW f \in Read
    PROVE  /\ Inventory(Seen)[f].defs
                = {RecordAt(repo.text[f], i) : i \in Places(repo.text[f], {"def", "class"})}
           /\ \A i \in Places(repo.text[f], {"def", "class"}) :
                (CHOOSE d \in Inventory(Seen)[f].defs : d.at = i) = RecordAt(repo.text[f], i)
<1> DEFINE text == repo.text[f]
           P == Places(text, {"def", "class"})
<1>1. Inventory(Seen)[f] = FileRecord(text)
  BY ReadIs, InventoryIs
<1>2. FileRecord(text).defs = {RecordAt(text, i) : i \in P}
  BY DEF FileRecord, RecordAt
<1>3. \A i \in P : RecordAt(text, i).at = i
  BY DEF RecordAt
<1> HIDE DEF P, text
<1>4. Inventory(Seen)[f].defs = {RecordAt(text, i) : i \in P}
  BY <1>1, <1>2
<1>5. ASSUME NEW i \in P
      PROVE  (CHOOSE d \in Inventory(Seen)[f].defs : d.at = i) = RecordAt(text, i)
  <2> DEFINE D == Inventory(Seen)[f].defs
  <2>1. RecordAt(text, i) \in D /\ RecordAt(text, i).at = i
    BY <1>3, <1>4
  <2>2. \A d \in D : d.at = i => d = RecordAt(text, i)
    BY <1>3, <1>4
  <2> HIDE DEF D
  <2> QED
    BY <2>1, <2>2 DEF D
<1> QED
  BY <1>4, <1>5 DEF P, text

LEMMA NamedAre ==
    ASSUME Scanned, NEW f \in Read, NEW name
    PROVE  Named(Index(Seen), f, name) = {DefAt(f, i) : i \in PlacesOf(f, name)}
<1> DEFINE text == repo.text[f]
           P == Places(text, {"def", "class"})
<1>1. Named(Index(Seen), f, name)
        = {[file |-> f, def |-> d] : d \in {e \in Inventory(Seen)[f].defs : e.name = name}}
  BY IndexIs DEF Named, InFile
<1>2. Inventory(Seen)[f].defs = {RecordAt(text, i) : i \in P}
  BY RecordsAre
<1>3. \A i : RecordAt(text, i).name = text[i].node.name
  BY DEF RecordAt
<1>4. PlacesOf(f, name) = {i \in P : text[i].node.name = name}
  BY DEF PlacesOf, Places
<1>5. {e \in Inventory(Seen)[f].defs : e.name = name}
        = {RecordAt(text, i) : i \in PlacesOf(f, name)}
  <2> HIDE DEF P, text
  <2> QED
    BY <1>2, <1>3, <1>4
<1> QED
  BY <1>1, <1>5 DEF DefAt

LEMMA PlaceIsBinding ==
    ASSUME NEW f, NEW name
    PROVE  PlacesOf(f, name) \subseteq Bindings(f, name)
  BY DEF PlacesOf, Bindings, BoundName

(* One definition of the name.                                             *)
LEMMA OneNamed ==
    ASSUME Scanned, NEW f \in Read, NEW name, NEW i, PlacesOf(f, name) = {i}
    PROVE  /\ Named(Index(Seen), f, name) = {DefAt(f, i)}
           /\ Methods(Index(Seen), f, name)
                = IF TypeOfDef(repo.text[f], i) = "method" THEN {DefAt(f, i)} ELSE {}
<1>1. Named(Index(Seen), f, name) = {DefAt(f, i)}
  BY NamedAre
<1>2. DefAt(f, i).def.type = TypeOfDef(repo.text[f], i)
  BY DEF DefAt, RecordAt
<1> QED
  BY <1>1, <1>2 DEF Methods

LEMMA OnlyOfOne ==
    ASSUME NEW x, NEW how, NEW several
    PROVE  Cardinality({x}) = 1 /\ OnlyOf({x}, how, several) = Attributed(x, how)
<1>1. Cardinality({x}) = 1
  BY FS_Singleton
<1> QED
  BY <1>1 DEF OnlyOf

(* What a file binds a name to, by the alias table.                        *)
LEMMA OutcomeAlias ==
    ASSUME NEW f \in Parsed(Seen), NEW i \in Inventory(Seen)[f].imports
    PROVE  Index(Seen).imports[f][i].alias
             = IF Seen.text[f][i].node.alias = NoName
               THEN IF Seen.text[f][i].node.kind = "import"
                    THEN Head(Seen.text[f][i].node.mod) ELSE Seen.text[f][i].node.name
               ELSE Seen.text[f][i].node.alias
<1> DEFINE n == Seen.text[f][i].node
<1>1. \A m : ImportOutcome(m, n).alias
               = IF n.alias = NoName THEN Head(n.mod) ELSE n.alias
  BY DEF ImportOutcome, Outcome
<1>2. \A r, v, m : FromOutcome(r, v, m, f, n).alias
               = IF n.alias = NoName THEN n.name ELSE n.alias
  BY DEF FromOutcome, Outcome
<1>3. Index(Seen).imports[f][i]
        = IF n.kind = "import" THEN ImportOutcome(ModuleIndex(Seen), n)
          ELSE FromOutcome(Seen, Inventory(Seen), ModuleIndex(Seen), f, n)
  BY IndexIs
<1> HIDE DEF n
<1> QED
  BY <1>1, <1>2, <1>3 DEF n

LEMMA MaxOfOne ==
    ASSUME NEW i \in Nat
    PROVE  Max({i}) = i
<1>1. IsFiniteSet({i}) /\ {i} \in SUBSET Nat /\ {i} # {}
  BY FS_Singleton
<1> QED
  BY <1>1, GreatestElement

(* A name that is bound once is what that statement binds it to.           *)
LEMMA OneAlias ==
    ASSUME Scanned, NEW f \in Read, NEW name, NEW at, Bindings(f, name) = {at}
    PROVE  /\ at \in DOMAIN repo.text[f] /\ at \in Nat
           /\ AliasOf(Index(Seen), f, name)
                = IF /\ repo.text[f][at].node.kind \in {"import", "from"}
                     /\ Index(Seen).imports[f][at].binds.kind # "none"
                  THEN Index(Seen).imports[f][at].binds ELSE Nothing
<1> DEFINE text == repo.text[f]
           ix == Index(Seen)
           I == Places(text, {"import", "from"})
           binding == {i \in I : /\ ix.imports[f][i].alias = name
                                 /\ ix.imports[f][i].binds.kind # "none"}
<1>1. /\ f \in Parsed(Seen) /\ Seen.text[f] = text /\ IsText(text)
  BY ReadIs
<1>2. Inventory(Seen)[f].imports = I
  BY <1>1, ImportsOf
<1>3. AliasOf(ix, f, name) = IF binding = {} THEN Nothing ELSE ix.imports[f][Max(binding)].binds
  BY <1>1, <1>2, IndexIs DEF AliasOf
<1>4. at \in DOMAIN text /\ at \in Nat
  <2>1. at \in DOMAIN text
    BY DEF Bindings
  <2> QED
    BY <1>1, <2>1, TextIs
<1>5. ASSUME NEW i \in I
      PROVE  ix.imports[f][i].alias = BoundName(text[i].node)
  <2>1. text[i].node.kind \in {"import", "from"}
    BY DEF Places
  <2>2. ix.imports[f][i].alias
          = IF text[i].node.alias = NoName
            THEN IF text[i].node.kind = "import" THEN Head(text[i].node.mod)
                 ELSE text[i].node.name
            ELSE text[i].node.alias
    BY <1>1, <1>2, OutcomeAlias
  <2> QED
    BY <2>1, <2>2 DEF BoundName
<1>6. \A i \in I : i \in DOMAIN text
  BY DEF Places
<1>7. \A i \in DOMAIN text : BoundName(text[i].node) = name => i \in Bindings(f, name)
  BY DEF Bindings
<1>8. \A i \in binding : i = at
  BY <1>5, <1>6, <1>7
<1>9. at \in I <=> text[at].node.kind \in {"import", "from"}
  BY <1>4 DEF Places
<1>10. at \in I => ix.imports[f][at].alias = name
  <2> SUFFICES ASSUME at \in I PROVE ix.imports[f][at].alias = name
    OBVIOUS
  <2>1. BoundName(text[at].node) = name \/ (text[at].node.kind = "def" /\ text[at].node.param = name)
    BY DEF Bindings
  <2>2. text[at].node.kind # "def"
    BY <1>9
  <2> QED
    BY <1>5, <2>1, <2>2
<1>11. binding = IF at \in I /\ ix.imports[f][at].binds.kind # "none" THEN {at} ELSE {}
  <2> HIDE DEF I, ix
  <2> QED
    BY <1>8, <1>10
<1>12. Max({at}) = at
  BY <1>4, MaxOfOne
<1> HIDE DEF binding, I, ix
<1>13. AliasOf(ix, f, name) = IF at \in I /\ ix.imports[f][at].binds.kind # "none"
                             THEN ix.imports[f][at].binds ELSE Nothing
  BY <1>3, <1>11, <1>12
<1> QED
  BY <1>4, <1>9, <1>13 DEF ix

(* The index of modules by the names imports use: the root package has one *)
(* of its own.                                                             *)
ModuleKey(m) == IF m = <<>> THEN RootModule ELSE m

LEMMA FrontOfAppend ==
    ASSUME NEW T, NEW s \in Seq(T), NEW e \in T
    PROVE  /\ Append(s, e) \in Seq(T) /\ Append(s, e) # <<>>
           /\ Front(Append(s, e)) = s /\ Last(Append(s, e)) = e
           /\ Head(Append(s, e)) = IF s = <<>> THEN e ELSE Head(s)
<1>1. /\ Append(s, e) \in Seq(T) /\ Append(s, e) # <<>>
      /\ Len(Append(s, e)) = Len(s) + 1 /\ Append(s, e)[Len(s) + 1] = e
  BY AppendProperties
<1>2. Head(Append(s, e)) = IF s = <<>> THEN e ELSE Head(s)
  BY HeadTailAppend
<1>3. Front(Append(s, e)) = s
  BY DEF Front
<1>4. Last(Append(s, e)) = e
  BY <1>1 DEF Last
<1> QED
  BY <1>1, <1>2, <1>3, <1>4

LEMMA FrontAndLast ==
    ASSUME NEW T, NEW s \in Seq(T), s # <<>>
    PROVE  /\ Front(s) \in Seq(T) /\ Last(s) \in T
           /\ s = Append(Front(s), Last(s))
<1>1. PICK t \in Seq(T), e \in T : s = Append(t, e)
  BY SequenceEmptyOrAppend
<1>2. Front(s) = t /\ Last(s) = e
  BY <1>1, FrontOfAppend
<1> QED
  BY <1>1, <1>2

LEMMA InitAppended ==
    ASSUME NEW m \in Seq(STRING)
    PROVE  /\ Front(Append(m, "__init__")) = m /\ Last(Append(m, "__init__")) = "__init__"
           /\ m # <<>> => Head(Append(m, "__init__")) = Head(m)
<1> DEFINE T == STRING \cup {"__init__"}
<1>1. m \in Seq(T) /\ "__init__" \in T
  <2>1. STRING \subseteq T /\ "__init__" \in T
    OBVIOUS
  <2> HIDE DEF T
  <2> QED
    BY <2>1, SeqMonotonic
<1> HIDE DEF T
<1> QED
  BY <1>1, FrontOfAppend

LEMMA NamesOfModules ==
    ASSUME NEW path, IsPath(path), Head(path) # Head(RootModule)
    PROVE  /\ ModuleName(path) = RootModule <=> path = <<"__init__">>
           /\ path # <<"__init__">> =>
                ModuleName(path) = IF IsInit(path) THEN Front(path) ELSE path
           /\ \A m \in Seq(STRING) : path = Append(m, "__init__") =>
                ModuleName(path) = ModuleKey(m) /\ IsInit(path)
           /\ IsInit(path) => path = Append(Front(path), "__init__")
<1>1. path \in Seq(STRING) /\ path # <<>>
  BY DEF IsPath
<1>2. Front(path) \in Seq(STRING) /\ path = Append(Front(path), Last(path))
  BY <1>1, FrontAndLast
<1>3. Head(RootModule) = "__root__" /\ RootModule # <<>>
  BY DEF RootModule
<1>4. path # RootModule
  BY <1>3
<1>5. Front(path) # RootModule
  <2> SUFFICES ASSUME Front(path) = RootModule PROVE FALSE
    OBVIOUS
  <2>1. Last(path) \in STRING
    BY <1>1, FrontAndLast
  <2>2. Head(Append(Front(path), Last(path))) = Head(Front(path))
    BY <1>2, <1>3, <2>1, FrontOfAppend
  <2> QED
    BY <1>2, <2>2
<1>6. path = <<"__init__">> => ModuleName(path) = RootModule
  BY DEF ModuleName
<1>7. path # <<"__init__">> =>
        ModuleName(path) = IF IsInit(path) THEN Front(path) ELSE path
  BY DEF ModuleName
<1>8. ASSUME NEW m \in Seq(STRING), path = Append(m, "__init__")
      PROVE  ModuleName(path) = ModuleKey(m) /\ IsInit(path)
  <2>1. Front(path) = m /\ Last(path) = "__init__"
    <3>1. Front(Append(m, "__init__")) = m /\ Last(Append(m, "__init__")) = "__init__"
      BY InitAppended
    <3> QED
      BY <1>8, <3>1, Zenon
  <2>2. IsInit(path)
    BY <2>1 DEF IsInit
  <2>3. CASE m = <<>>
    <3>1. path = <<"__init__">>
      BY <1>8, <2>3
    <3> QED
      BY <1>6, <2>2, <2>3, <3>1 DEF ModuleKey
  <2>4. CASE m # <<>>
    <3>1. path # <<"__init__">>
      <4>1. Front(<<"__init__">>) = <<>>
        BY DEF Front
      <4> QED
        BY <2>1, <2>4, <4>1
    <3> QED
      BY <1>7, <2>1, <2>2, <2>4, <3>1 DEF ModuleKey
  <2> QED
    BY <2>3, <2>4
<1>9. IsInit(path) => path = Append(Front(path), "__init__")
  BY <1>2 DEF IsInit
<1> QED
  BY <1>4, <1>5, <1>6, <1>7, <1>8, <1>9

(* The module index has the file that Python finds, if that file parses.   *)
LEMMA ModuleIsThere ==
    ASSUME Scanned, NEW m \in Seq(STRING), NEW g \in ModuleAt(m), g \in Read
    PROVE  ModuleKey(m) \in DOMAIN ModuleIndex(Seen) /\ ModuleIndex(Seen)[ModuleKey(m)] = g
<1> DEFINE r == Seen
           key == ModuleKey(m)
           package == {f \in scan : repo.path[f] = Append(m, "__init__")}
           own(k) == {f \in Parsed(r) : ModuleName(r.path[f]) = k}
           alt(k) == {x[2] : x \in {y \in AltNames(r) : y[1] = k}}
           names  == {ModuleName(r.path[f]) : f \in Parsed(r)}
           extra  == {k \in {x[1] : x \in AltNames(r)} \ names : Cardinality(alt(k)) = 1}
<1>1. ModuleIndex(r)
        = [k \in names \cup extra |-> IF own(k) # {} THEN Max(own(k)) ELSE Max(alt(k))]
  BY DEF ModuleIndex
<1>2. /\ Parsed(r) = Read /\ Read \subseteq scan /\ scan \subseteq Nat /\ IsFiniteSet(Read)
      /\ \A f \in scan : r.path[f] = repo.path[f] /\ IsPath(repo.path[f])
  BY ReadIs
<1>3. \A f \in scan : Head(repo.path[f]) # Head(RootModule)
  BY DEF Scanned, RootIsUnnamed
<1>4. \A f, h \in scan : /\ repo.path[f] = repo.path[h] => f = h
                         /\ repo.path[h] = Append(repo.path[f], "__init__") => f < h
  BY ReadIs DEF Scanned, Numbered
<1>5. \/ package # {} /\ g \in package
      \/ package = {} /\ repo.path[g] = m /\ ~IsInit(repo.path[g])
  BY DEF ModuleAt
<1>6. ModuleName(repo.path[g]) = key
  <2>1. CASE g \in package
    <3>1. repo.path[g] = Append(m, "__init__")
      BY <2>1
    <3> QED
      BY <1>2, <1>3, <3>1, NamesOfModules
  <2>2. CASE repo.path[g] = m /\ ~IsInit(repo.path[g])
    <3>1. m # <<>> /\ m # <<"__init__">>
      <4>1. IsInit(<<"__init__">>)
        BY DEF IsInit, Last
      <4> QED
        BY <1>2, <2>2, <4>1 DEF IsPath
    <3>2. ModuleName(repo.path[g]) = repo.path[g]
      BY <1>2, <1>3, <2>2, <3>1, NamesOfModules
    <3> QED
      BY <2>2, <3>1, <3>2 DEF ModuleKey
  <2> QED
    BY <1>5, <2>1, <2>2
<1>7. g \in own(key)
  BY <1>2, <1>6
<1>8. ASSUME NEW h \in own(key)
      PROVE  g >= h
  <2>1. h \in scan /\ g \in scan /\ g \in Nat /\ h \in Nat /\ ModuleName(repo.path[h]) = key
    BY <1>2
  <2>2. m # RootModule
    <3> SUFFICES ASSUME m = RootModule PROVE FALSE
      OBVIOUS
    <3>1. Head(Append(m, "__init__")) = Head(RootModule)
      BY InitAppended DEF RootModule
    <3> QED
      BY <1>3, <1>5, <2>1, <3>1
  <2>3. CASE m = <<>>
    <3>1. key = RootModule /\ Append(m, "__init__") = <<"__init__">>
      BY <2>3 DEF ModuleKey
    <3>2. repo.path[h] = <<"__init__">> /\ repo.path[g] = <<"__init__">>
      BY <1>2, <1>3, <1>6, <2>1, <3>1, NamesOfModules
    <3> QED
      BY <1>4, <2>1, <3>2
  <2>4. CASE m # <<>>
    <3>1. key = m
      BY <2>4 DEF ModuleKey
    <3>2. repo.path[h] # <<"__init__">>
      BY <1>2, <1>3, <2>1, <2>2, <3>1, NamesOfModules
    <3>3. CASE IsInit(repo.path[h])
      <4>1. repo.path[h] = Append(m, "__init__")
        BY <1>2, <1>3, <2>1, <3>1, <3>2, <3>3, NamesOfModules
      <4>2. h \in package
        BY <2>1, <4>1
      <4>3. repo.path[g] = Append(m, "__init__")
        BY <1>5, <4>2
      <4>4. g = h
        BY <1>4, <2>1, <4>1, <4>3
      <4> QED
        BY <2>1, <4>4
    <3>4. CASE ~IsInit(repo.path[h])
      <4>1. repo.path[h] = m
        BY <1>2, <1>3, <2>1, <3>1, <3>2, <3>4, NamesOfModules
      <4>2. CASE repo.path[g] = Append(m, "__init__")
        <5>1. h < g
          BY <1>4, <2>1, <4>1, <4>2
        <5> QED
          BY <2>1, <5>1
      <4>3. CASE repo.path[g] = m
        BY <1>4, <2>1, <4>1, <4>3
      <4> QED
        BY <1>5, <4>2, <4>3
    <3> QED
      BY <3>3, <3>4
  <2> QED
    BY <2>3, <2>4
<1>9. Max(own(key)) = g
  <2>1. own(key) \in SUBSET Read /\ own(key) \in SUBSET Nat
    BY <1>2
  <2>2. IsFiniteSet(own(key))
    BY <1>2, <2>1, FS_Subset
  <2> HIDE DEF own, key
  <2>3. Max(own(key)) \in own(key) /\ Max(own(key)) >= g
    BY <1>7, <2>1, <2>2, GreatestElement
  <2>4. g >= Max(own(key)) /\ g \in Nat /\ Max(own(key)) \in Nat
    BY <1>7, <1>8, <2>1, <2>3
  <2> QED
    BY <2>3, <2>4
<1>10. key \in names
  BY <1>2, <1>6
<1> HIDE DEF own, alt, names, extra, key
<1>11. key \in names \cup extra /\ own(key) # {}
  BY <1>7, <1>10
<1> QED
  BY <1>1, <1>9, <1>11 DEF key

LEMMA ImportNodes ==
    ASSUME NEW n \in Node
    PROVE  /\ n.kind = "import" => n.mod \in Seq(STRING) /\ n.mod # <<>>
           /\ n.kind = "from" => n.level \in Nat /\ n.mod \in Seq(STRING) /\ n.name \in STRING
           /\ n.kind = "assign" => n.value \in Seq(STRING)
  BY DEF Node

(* "from m import": the module that m means, from the directory it starts. *)
LEMMA ReferenceIs ==
    ASSUME Scanned, NEW f \in Read, NEW n, n.kind = "from", n.level \in Nat,
           n.mod \in Seq(STRING), NEW d \in StartOf(f, n)
    PROVE  /\ d \o n.mod \in Seq(STRING)
           /\ ModuleReference(Seen.path[f], n.level, n.mod) = ModuleKey(d \o n.mod)
<1> DEFINE path == repo.path[f]
           dir == Front(path)
           level == n.level
<1>1. IsPath(path) /\ Seen.path[f] = path /\ Head(path) # Head(RootModule)
  BY ReadIs DEF Scanned, RootIsUnnamed
<1>2. dir \in Seq(STRING)
  BY <1>1, FrontAndLast DEF IsPath
<1>3. PackageParts(path) = dir
  <2>1. ModuleName(path) = RootModule => Len(path) = 1
    BY <1>1, NamesOfModules
  <2> QED
    BY <1>1, <2>1, PackageIsDirectory DEF Directories
<1>4. CASE level = 0
  <2>1. d = <<>>
    BY <1>4 DEF StartOf
  <2>2. d \o n.mod = n.mod
    BY <2>1, ConcatEmptySeq
  <2> QED
    BY <1>1, <1>4, <2>2 DEF ModuleReference, ModuleKey
<1>5. CASE level # 0
  <2> DEFINE k == Len(dir) - (level - 1)
  <2>1. d = SubSeq(dir, 1, k) /\ k \in Nat
    <3>1. d \in {SubSeq(dir, 1, j) : j \in {Len(dir) - (level - 1)} \cap Nat}
      BY <1>5 DEF StartOf
    <3> QED
      BY <3>1
  <2>2. Len(dir) \in Nat /\ level - 1 \in Nat /\ k <= Len(dir)
    BY <1>2, <1>5
  <2>3. d \in Seq(STRING)
    <3>1. \A i \in 1 .. k : dir[i] \in STRING
      BY <1>2, <2>1, <2>2
    <3> HIDE DEF k
    <3>2. 1 \in Int /\ k \in Int
      BY <2>1
    <3> QED
      BY <2>1, <3>1, <3>2, SubSeqProperties
  <2>4. ~(level - 1 > Len(dir))
    BY <2>1, <2>2
  <2>5. d \o n.mod \in Seq(STRING)
    BY <2>3, ConcatProperties
  <2> HIDE DEF dir, level, path
  <2>6. ModuleReference(path, level, n.mod) = IF d \o n.mod = <<>> THEN RootModule
                                              ELSE d \o n.mod
    BY <1>3, <1>5, <2>1, <2>4 DEF ModuleReference
  <2> QED
    BY <1>1, <2>5, <2>6 DEF ModuleKey, level, path
<1> QED
  BY <1>4, <1>5

(* What "import m" binds a name to, m a module of a file that parses.      *)
LEMMA ImportBinds ==
    ASSUME Scanned, NEW n, n.mod \in Seq(STRING), n.mod # <<>>,
           NEW g \in ModuleAt(n.mod), g \in Read
    PROVE  ImportOutcome(ModuleIndex(Seen), n).binds = Module(g)
<1> DEFINE modules == ModuleIndex(Seen)
           known == {p \in Prefixes(n.mod) : p \in DOMAIN modules}
           longest == CHOOSE p \in known : \A q \in known : Len(q) <= Len(p)
<1>1. n.mod \in DOMAIN modules /\ modules[n.mod] = g
  BY ModuleIsThere DEF ModuleKey
<1>2. Len(n.mod) \in Nat /\ SubSeq(n.mod, 1, Len(n.mod)) = n.mod
  BY SubSeqFull
<1>3. n.mod \in known
  BY <1>1, <1>2 DEF Prefixes
<1>4. \A p \in known : /\ Len(p) <= Len(n.mod)
                       /\ Len(n.mod) <= Len(p) => p = n.mod
  <2> TAKE p \in known
  <2>1. PICK l \in 0 .. Len(n.mod) : p = SubSeq(n.mod, 1, l)
    BY DEF Prefixes
  <2>2. Len(p) = l
    BY <1>2, <2>1
  <2>3. Len(n.mod) <= l => l = Len(n.mod)
    BY <1>2, <2>1
  <2> QED
    BY <1>2, <2>1, <2>2, <2>3
<1>5. longest = n.mod
  <2> HIDE DEF known
  <2>1. \E p \in known : \A q \in known : Len(q) <= Len(p)
    BY <1>3, <1>4
  <2>2. longest \in known /\ Len(n.mod) <= Len(longest)
    BY <1>3, <2>1
  <2> QED
    BY <1>4, <2>2
<1> DEFINE alias == IF n.alias = NoName THEN Head(n.mod) ELSE n.alias
<1>6. ImportOutcome(modules, n)
        = IF known # {} THEN Outcome(alias, modules[longest], Module(modules[longest]))
          ELSE IF ProbablyExternal(modules, n.mod) THEN Outcome(alias, NoFile, External)
          ELSE Outcome(alias, NoFile, Nothing)
  BY DEF ImportOutcome
<1>7. known # {}
  BY <1>3
<1> HIDE DEF modules, known, longest, alias
<1>8. ImportOutcome(modules, n) = Outcome(alias, g, Module(g))
  BY <1>1, <1>5, <1>6, <1>7
<1> QED
  BY <1>8 DEF Outcome, modules

(* What "from m import x" binds a name to, m a module of a file that       *)
(* parses.                                                                 *)
LEMMA FromBinds ==
    ASSUME Scanned, NEW f \in Read, NEW n, n.kind = "from", n.level \in Nat,
           n.mod \in Seq(STRING), NEW d \in StartOf(f, n),
           NEW g \in ModuleAt(d \o n.mod), g \in Read
    PROVE  LET sub == Append(ModuleKey(d \o n.mod), n.name)
           IN  FromOutcome(Seen, Inventory(Seen), ModuleIndex(Seen), f, n).binds
                 = IF Named(Index(Seen), g, n.name) # {}
                   THEN Symbol(Named(Index(Seen), g, n.name))
                   ELSE IF sub \in DOMAIN ModuleIndex(Seen)
                   THEN Module(ModuleIndex(Seen)[sub]) ELSE Nothing
<1> DEFINE modules == ModuleIndex(Seen)
           m     == ModuleReference(Seen.path[f], n.level, n.mod)
           alias == IF n.alias = NoName THEN n.name ELSE n.alias
           file  == modules[m]
           defs  == InFile(file, {x \in Inventory(Seen)[file].defs : x.name = n.name})
           sub   == Append(m, n.name)
           binds == IF defs # {} THEN Symbol(defs)
                    ELSE IF sub \in DOMAIN modules THEN Module(modules[sub])
                    ELSE Nothing
<1>1. m = ModuleKey(d \o n.mod) /\ d \o n.mod \in Seq(STRING)
  BY ReferenceIs
<1>2. m \in DOMAIN modules /\ file = g
  BY <1>1, ModuleIsThere
<1>3. defs = Named(Index(Seen), g, n.name)
  BY <1>2, IndexIs DEF Named
<1>4. FromOutcome(Seen, Inventory(Seen), modules, f, n)
        = IF m \in DOMAIN modules THEN Outcome(alias, file, binds)
          ELSE Outcome(alias, NoFile, IF ProbablyExternal(modules, m) THEN External
                                      ELSE Nothing)
  BY DEF FromOutcome
<1> HIDE DEF modules, m, alias, file, defs, binds
<1>5. FromOutcome(Seen, Inventory(Seen), modules, f, n) = Outcome(alias, file, binds)
  BY <1>2, <1>4
<1>6. FromOutcome(Seen, Inventory(Seen), modules, f, n).binds = binds
  BY <1>5 DEF Outcome
<1> QED
  BY <1>1, <1>3, <1>6 DEF binds, modules

(* One definition, the only one of its name in its file.                   *)
IsOne(x, name) ==
    /\ x[1] \in Read /\ x[2] \in DOMAIN repo.text[x[1]]
    /\ PlacesOf(x[1], name) = {x[2]}
    /\ TypeOfDef(repo.text[x[1]], x[2]) # "method"

LEMMA NoMethodAtModuleLevel ==
    ASSUME NEW text, IsText(text), NEW i \in DOMAIN text, Bodies(text)[text[i].up] = <<>>
    PROVE  TypeOfDef(text, i) # "method"
<1> DEFINE up == text[i].up
<1>1. up \in 0 .. Len(text) /\ (up # 0 => up \in DOMAIN text)
  BY TextIs
<1>2. CASE up # 0 /\ text[up].node.kind = "class"
  <2> DEFINE body == Bodies(text)
             frame == <<text[up].node.kind, text[up].node.name>>
  <2>1. text[up].up \in 0 .. Len(text)
    BY <1>1, <1>2, TextIs
  <2>2. body[up] = BodyOf(text, body, up) /\ body[text[up].up] \in Seq(Frame)
        /\ body[up] \in Seq(Frame)
    BY <1>1, <2>1, BodiesEquation
  <2>3. body[up] = Append(body[text[up].up], frame)
    BY <1>2, <2>2, Zenon DEF BodyOf
  <2>4. Append(body[text[up].up], frame) # <<>>
    <3> HIDE DEF body, frame
    <3>1. body[text[up].up] \in Seq(Frame \cup {frame}) /\ frame \in Frame \cup {frame}
      BY <2>2, SeqMonotonic
    <3> QED
      BY <3>1, AppendProperties
  <2> QED
    BY <2>3, <2>4, Zenon
<1>3. CASE ~(up # 0 /\ text[up].node.kind = "class")
  BY <1>3 DEF TypeOfDef
<1> QED
  BY <1>2, <1>3

LEMMA OneDefinitionIs ==
    ASSUME Scanned, NEW files, files \subseteq scan, NEW name,
           NEW x \in OneDefinition(files, name)
    PROVE  IsOne(x, name) /\ x[1] \in files
<1>1. /\ x \in UNION {{f} \X DOMAIN repo.text[f] : f \in files \ repo.broken}
      /\ Bindings(x[1], name) = {x[2]}
      /\ repo.text[x[1]][x[2]].node.kind \in {"def", "class"}
      /\ repo.text[x[1]][x[2]].node.name = name
      /\ Bodies(repo.text[x[1]])[repo.text[x[1]][x[2]].up] = <<>>
  BY DEF OneDefinition
<1>2. PICK f \in files \ repo.broken : x \in {f} \X DOMAIN repo.text[f]
  BY <1>1
<1>3. x[1] = f /\ x[2] \in DOMAIN repo.text[x[1]]
  BY <1>2
<1>4. x[1] \in Read /\ x[1] \in files
  BY <1>3 DEF Read
<1>5. x[2] \in PlacesOf(x[1], name)
  BY <1>1, <1>3 DEF PlacesOf
<1>6. PlacesOf(x[1], name) \subseteq {x[2]}
  BY <1>1, PlaceIsBinding
<1>7. IsText(repo.text[x[1]])
  BY <1>4, ReadIs
<1>8. TypeOfDef(repo.text[x[1]], x[2]) # "method"
  BY <1>1, <1>3, <1>7, NoMethodAtModuleLevel
<1> QED
  BY <1>3, <1>4, <1>5, <1>6, <1>8 DEF IsOne

LEMMA OneNamedOne ==
    ASSUME Scanned, NEW x, NEW name, IsOne(x, name)
    PROVE  /\ Named(Index(Seen), x[1], name) = {DefAt(x[1], x[2])}
           /\ Methods(Index(Seen), x[1], name) = {}
  BY OneNamed DEF IsOne

(* A name that is bound once.                                              *)
LEMMA OneBinding ==
    ASSUME Scanned, NEW f \in Read, NEW name, Cardinality(Bindings(f, name)) = 1
    PROVE  Bindings(f, name) = {CHOOSE i \in Bindings(f, name) : TRUE}
<1> DEFINE B == Bindings(f, name)
<1>1. IsText(repo.text[f])
  BY ReadIs
<1>2. Len(repo.text[f]) \in Int /\ 1 \in Int /\ DOMAIN repo.text[f] = 1 .. Len(repo.text[f])
  BY <1>1, TextIs
<1>3. B \in SUBSET DOMAIN repo.text[f]
  BY DEF Bindings
<1>4. IsFiniteSet(DOMAIN repo.text[f])
  <2>1. IsFiniteSet(1 .. Len(repo.text[f]))
    BY <1>2, FS_Interval
  <2> QED
    BY <1>2, <2>1
<1> HIDE DEF B
<1>5. IsFiniteSet(B)
  BY <1>3, <1>4, FS_Subset
<1>6. \E i : B = {i}
  BY <1>5, FS_Singleton DEF B
<1> QED
  BY <1>6 DEF B

(* The statement a name is bound by, when it is bound once.                *)
BoundBy(f, name, at, n) ==
    /\ Bindings(f, name) = {at} /\ n = repo.text[f][at].node
    /\ name \notin Builtins

LEMMA BoundByIs ==
    ASSUME Scanned, NEW f \in Read, NEW name, NEW at, NEW n, BoundBy(f, name, at, n)
    PROVE  /\ n \in Node /\ at \in DOMAIN repo.text[f]
           /\ n.kind \notin {"def", "class"} \/ n.name # name =>
                Named(Index(Seen), f, name) = {}
           /\ n.kind \notin {"import", "from"} => AliasOf(Index(Seen), f, name) = Nothing
           /\ n.kind = "import" =>
                LET b == ImportOutcome(ModuleIndex(Seen), n).binds
                IN  b.kind # "none" => AliasOf(Index(Seen), f, name) = b
           /\ n.kind = "from" =>
                LET b == FromOutcome(Seen, Inventory(Seen), ModuleIndex(Seen), f, n).binds
                IN  b.kind # "none" => AliasOf(Index(Seen), f, name) = b
<1> DEFINE ix == Index(Seen)
<1>1. /\ at \in DOMAIN repo.text[f]
      /\ AliasOf(ix, f, name)
           = IF n.kind \in {"import", "from"} /\ ix.imports[f][at].binds.kind # "none"
             THEN ix.imports[f][at].binds ELSE Nothing
  BY OneAlias DEF BoundBy
<1>2. n \in Node
  <2>1. IsText(repo.text[f])
    BY ReadIs
  <2> QED
    BY <1>1, <2>1, TextIs DEF BoundBy
<1>3. n.kind \notin {"def", "class"} \/ n.name # name => Named(ix, f, name) = {}
  <2> SUFFICES ASSUME n.kind \notin {"def", "class"} \/ n.name # name
               PROVE  Named(ix, f, name) = {}
    OBVIOUS
  <2>1. PlacesOf(f, name) \subseteq {at}
    BY PlaceIsBinding DEF BoundBy
  <2>2. at \notin PlacesOf(f, name)
    BY DEF PlacesOf, BoundBy
  <2>3. PlacesOf(f, name) = {}
    BY <2>1, <2>2
  <2> QED
    BY <2>3, NamedAre
<1>4. n.kind \in {"import", "from"} =>
        ix.imports[f][at] = IF n.kind = "import" THEN ImportOutcome(ModuleIndex(Seen), n)
                            ELSE FromOutcome(Seen, Inventory(Seen), ModuleIndex(Seen), f, n)
  <2> SUFFICES ASSUME n.kind \in {"import", "from"}
               PROVE  ix.imports[f][at]
                        = IF n.kind = "import" THEN ImportOutcome(ModuleIndex(Seen), n)
                          ELSE FromOutcome(Seen, Inventory(Seen), ModuleIndex(Seen), f, n)
    OBVIOUS
  <2>1. f \in Parsed(Seen) /\ Seen.text[f] = repo.text[f]
    BY ReadIs
  <2>2. at \in Inventory(Seen)[f].imports
    BY <1>1, <2>1, ImportsOf DEF Places, BoundBy
  <2> QED
    BY <2>1, <2>2, IndexIs DEF BoundBy
<1> HIDE DEF ix
<1> QED
  BY <1>1, <1>2, <1>3, <1>4 DEF ix

(* name(): a definition of the file, or the one it was imported from.      *)
LEMMA LocalCall ==
    ASSUME Scanned, NEW f \in Read, NEW name, NEW x, x[1] = f, IsOne(x, name)
    PROVE  ResolveName(Index(Seen), f, name).to = {DefAt(x[1], x[2])}
<1> DEFINE here == Named(Index(Seen), f, name)
           y == DefAt(x[1], x[2])
<1>1. here = {y}
  BY OneNamedOne
<1>2. here # {} =>
        ResolveName(Index(Seen), f, name) = OnlyOf(here, "local_symbol", "ambiguous_local_symbol")
  BY DEF ResolveName
<1> HIDE DEF here, y
<1>3. here # {}
  BY <1>1
<1>4. ResolveName(Index(Seen), f, name) = Attributed(y, "local_symbol")
  BY <1>1, <1>2, <1>3, OnlyOfOne
<1> QED
  BY <1>4 DEF Attributed, y

LEMMA ImportedCall ==
    ASSUME Scanned, NEW f \in Read, NEW name, NEW at, NEW n, BoundBy(f, name, at, n),
           n.kind = "from", NEW d \in StartOf(f, n), NEW x,
           x[1] \in ModuleAt(d \o n.mod), IsOne(x, n.name)
    PROVE  ResolveName(Index(Seen), f, name).to = {DefAt(x[1], x[2])}
<1> DEFINE here == Named(Index(Seen), f, name)
           alias == AliasOf(Index(Seen), f, name)
           y == DefAt(x[1], x[2])
           b == FromOutcome(Seen, Inventory(Seen), ModuleIndex(Seen), f, n).binds
<1>1. n \in Node /\ here = {} /\ (b.kind # "none" => alias = b)
  BY BoundByIs
<1>2. n.level \in Nat /\ n.mod \in Seq(STRING)
  BY <1>1, ImportNodes
<1>3. Named(Index(Seen), x[1], n.name) = {y} /\ x[1] \in Read
  BY OneNamedOne DEF IsOne
<1>4. b = Symbol({y})
  <2>1. Named(Index(Seen), x[1], n.name) # {}
    BY <1>3
  <2>2. Named(Index(Seen), x[1], n.name) # {} =>
          b = Symbol(Named(Index(Seen), x[1], n.name))
    BY <1>2, <1>3, FromBinds
  <2> QED
    BY <1>3, <2>1, <2>2
<1>5. here = {} /\ alias.kind = "symbol" =>
        ResolveName(Index(Seen), f, name)
          = OnlyOf(alias.targets, "imported_symbol", "imported_symbol")
  <2>1. alias.kind = "symbol" => alias # Nothing /\ alias.kind \notin {"module", "external"}
    BY DEF Nothing
  <2> DEFINE there == AllNamed(Index(Seen), name)
  <2>2. ResolveName(Index(Seen), f, name)
          = CASE here # {} -> OnlyOf(here, "local_symbol", "ambiguous_local_symbol")
              [] here = {} /\ alias.kind = "symbol" ->
                   OnlyOf(alias.targets, "imported_symbol", "imported_symbol")
              [] here = {} /\ alias.kind \in {"module", "external"} -> Missed(alias.kind)
              [] here = {} /\ alias = Nothing /\ there # {} ->
                   OnlyOf(there, "global_unique_symbol", "ambiguous_global_symbol")
              [] OTHER -> Missed("unresolved")
    BY DEF ResolveName
  <2> HIDE DEF here, alias, there
  <2> QED
    BY <2>1, <2>2
<1> HIDE DEF here, alias, y, b
<1>6. b.kind = "symbol" /\ b.targets = {y}
  BY <1>4 DEF Symbol
<1>7. ResolveName(Index(Seen), f, name) = OnlyOf({y}, "imported_symbol", "imported_symbol")
  BY <1>1, <1>5, <1>6
<1>8. OnlyOf({y}, "imported_symbol", "imported_symbol") = Attributed(y, "imported_symbol")
  BY OnlyOfOne
<1> QED
  BY <1>7, <1>8 DEF Attributed, y

(* module.name(): the definition in the module.                            *)
LEMMA ModuleCall ==
    ASSUME Scanned, NEW f \in Read, NEW name, NEW x, IsOne(x, Last(name)),
           AliasOf(Index(Seen), f, Head(name)) = Module(x[1])
    PROVE  ResolveDotted(Index(Seen), f, name).to = {DefAt(x[1], x[2])}
<1> DEFINE alias == AliasOf(Index(Seen), f, Head(name))
           g == alias.file
           method == Methods(Index(Seen), g, Last(name))
           symbol == Named(Index(Seen), g, Last(name))
           y == DefAt(x[1], x[2])
<1>1. alias.kind = "module" /\ g = x[1]
  BY DEF Module
<1>2. symbol = {y} /\ method = {}
  BY <1>1, OneNamedOne
<1>3. alias.kind = "module" =>
        ResolveDotted(Index(Seen), f, name)
          = IF Cardinality(method) = 1 THEN OnlyOf(method, "imported_module_method", "")
            ELSE OnlyOf(symbol, "imported_module_symbol", "external_or_unresolved_module_attr")
  BY DEF ResolveDotted
<1> HIDE DEF alias, g, method, symbol, y
<1>4. Cardinality(method) # 1
  BY <1>2, FS_EmptySet
<1>5. ResolveDotted(Index(Seen), f, name)
        = OnlyOf({y}, "imported_module_symbol", "external_or_unresolved_module_attr")
  BY <1>1, <1>2, <1>3, <1>4
<1>6. ResolveDotted(Index(Seen), f, name) = Attributed(y, "imported_module_symbol")
  BY <1>5, OnlyOfOne
<1> QED
  BY <1>6 DEF Attributed, y

LEMMA ModulesAreFiles ==
    ASSUME NEW f, NEW n
    PROVE  /\ \A m : ModuleAt(m) \subseteq scan
           /\ MeantModule(f, n) \subseteq scan
           /\ UNION {ModuleAt(d \o n.mod) : d \in StartOf(f, n)} \subseteq scan
<1>1. \A m : ModuleAt(m) \subseteq scan
  BY DEF ModuleAt
<1> QED
  BY <1>1 DEF MeantModule

LEMMA MeantModuleIs ==
    ASSUME Scanned, NEW f \in Read, NEW name, NEW at, NEW n, BoundBy(f, name, at, n),
           n.kind \in {"import", "from"}, NEW g \in MeantModule(f, n), g \in Read
    PROVE  AliasOf(Index(Seen), f, name) = Module(g)
<1>1. n \in Node
  BY BoundByIs
<1>2. Module(g).kind # "none"
  BY DEF Module
<1>3. CASE n.kind = "import"
  <2>1. n.mod \in Seq(STRING) /\ n.mod # <<>>
    BY <1>1, <1>3, ImportNodes
  <2>2. g \in ModuleAt(n.mod)
    BY <1>3 DEF MeantModule
  <2>3. ImportOutcome(ModuleIndex(Seen), n).binds = Module(g)
    BY <2>1, <2>2, ImportBinds
  <2> QED
    BY <1>2, <1>3, <2>3, BoundByIs
<1>4. CASE n.kind = "from"
  <2>1. n.level \in Nat /\ n.mod \in Seq(STRING) /\ n.name \in STRING
    BY <1>1, <1>4, ImportNodes
  <2>2. PICK d \in StartOf(f, n) :
          /\ d \o n.mod # <<>> /\ ModuleAt(d \o n.mod) # {}
          /\ \A h \in ModuleAt(d \o n.mod) : h \notin repo.broken /\ Bindings(h, n.name) = {}
          /\ g \in ModuleAt(Append(d \o n.mod, n.name))
    BY <1>4 DEF MeantModule
  <2>3. PICK h \in ModuleAt(d \o n.mod) : h \notin repo.broken /\ Bindings(h, n.name) = {}
    BY <2>2
  <2>4. h \in Read
    BY <2>3, ModulesAreFiles DEF Read
  <2>5. Named(Index(Seen), h, n.name) = {}
    <3>1. PlacesOf(h, n.name) = {}
      BY <2>3, PlaceIsBinding
    <3> QED
      BY <2>4, <3>1, NamedAre
  <2> DEFINE m == d \o n.mod
             sub == Append(m, n.name)
  <2>6. m \in Seq(STRING) /\ m # <<>>
    BY <1>4, <2>1, <2>2, ReferenceIs
  <2>7. sub \in Seq(STRING) /\ sub # <<>>
    <3> HIDE DEF m
    <3> QED
      BY <2>1, <2>6, AppendProperties
  <2>8. sub \in DOMAIN ModuleIndex(Seen) /\ ModuleIndex(Seen)[sub] = g
    <3>1. g \in ModuleAt(sub) /\ ModuleKey(sub) = sub
      BY <2>2, <2>7 DEF ModuleKey
    <3> HIDE DEF sub
    <3> QED
      BY <2>7, <3>1, ModuleIsThere
  <2>9. FromOutcome(Seen, Inventory(Seen), ModuleIndex(Seen), f, n).binds
          = IF Named(Index(Seen), h, n.name) # {}
            THEN Symbol(Named(Index(Seen), h, n.name))
            ELSE IF Append(ModuleKey(m), n.name) \in DOMAIN ModuleIndex(Seen)
            THEN Module(ModuleIndex(Seen)[Append(ModuleKey(m), n.name)]) ELSE Nothing
    BY <1>4, <2>1, <2>3, <2>4, FromBinds
  <2>10. ModuleKey(m) = m
    BY <2>6 DEF ModuleKey
  <2> HIDE DEF m
  <2>11. FromOutcome(Seen, Inventory(Seen), ModuleIndex(Seen), f, n).binds = Module(g)
    BY <2>5, <2>8, <2>9, <2>10
  <2> QED
    BY <1>2, <1>4, <2>11, BoundByIs
<1> QED
  BY <1>3, <1>4

LEMMA MeantCase ==
    ASSUME Scanned, NEW f \in Read, NEW c, NEW x \in Meant(f, c)
    PROVE  \E at, n :
             /\ BoundBy(f, Head(c.name), at, n)
             /\ \/ /\ Len(c.name) = 1 /\ n.kind \in {"def", "class"}
                   /\ x \in OneDefinition({f}, Head(c.name))
                \/ /\ Len(c.name) = 1 /\ n.kind = "from"
                   /\ x \in OneDefinition(UNION {ModuleAt(d \o n.mod) : d \in StartOf(f, n)},
                                          n.name)
                \/ /\ Len(c.name) = 2 /\ n.kind \in {"import", "from"}
                   /\ x \in OneDefinition(MeantModule(f, n), c.name[2])
<1> DEFINE head == Head(c.name)
           at == CHOOSE i \in Bindings(f, head) : TRUE
           n == repo.text[f][at].node
           around == Bodies(repo.text[f])[repo.text[f][at].up]
           A == Len(c.name) = 1 /\ n.kind \in {"def", "class"}
           B == Len(c.name) = 1 /\ n.kind = "from"
           C == Len(c.name) = 2 /\ n.kind \in {"import", "from"}
           SA == OneDefinition({f}, head)
           SB == OneDefinition(UNION {ModuleAt(d \o n.mod) : d \in StartOf(f, n)}, n.name)
           SC == OneDefinition(MeantModule(f, n), c.name[2])
<1>1. Meant(f, c) = IF Cardinality(Bindings(f, head)) # 1 \/ head \in Builtins
                       \/ ~IsPrefix(around, c.scope) THEN {}
                    ELSE CASE A -> SA [] B -> SB [] C -> SC [] OTHER -> {}
  BY Zenon DEF Meant
<1> HIDE DEF around, A, B, C, SA, SB, SC
<1>2. Cardinality(Bindings(f, head)) = 1 /\ head \notin Builtins
  BY <1>1
<1>3. (A /\ x \in SA) \/ (B /\ x \in SB) \/ (C /\ x \in SC)
  BY <1>1
<1>4. BoundBy(f, head, at, n)
  BY <1>2, OneBinding DEF BoundBy
<1> HIDE DEF at, n
<1> QED
  BY <1>3, <1>4 DEF A, B, C, SA, SB, SC

(* A call that has a meaning is attributed to it.                          *)
LEMMA MeantResolves ==
    ASSUME Scanned, NEW f \in Read, NEW c, NEW x \in Meant(f, c)
    PROVE  /\ x[1] \in Read /\ x[2] \in DOMAIN repo.text[x[1]]
           /\ repo.text[x[1]][x[2]].node.kind \in {"def", "class"}
           /\ ResolveCall(Index(Seen), f, c.name).to = {DefAt(x[1], x[2])}
<1> DEFINE ix == Index(Seen)
           name == c.name
           head == Head(c.name)
           y == DefAt(x[1], x[2])
<1>1. PICK at, n :
        /\ BoundBy(f, head, at, n)
        /\ \/ /\ Len(name) = 1 /\ n.kind \in {"def", "class"}
              /\ x \in OneDefinition({f}, head)
           \/ /\ Len(name) = 1 /\ n.kind = "from"
              /\ x \in OneDefinition(UNION {ModuleAt(d \o n.mod) : d \in StartOf(f, n)}, n.name)
           \/ /\ Len(name) = 2 /\ n.kind \in {"import", "from"}
              /\ x \in OneDefinition(MeantModule(f, n), name[2])
  BY MeantCase
<1>2. head \notin Builtins
  BY <1>1 DEF BoundBy
<1>3. ResolveCall(ix, f, name) = IF Len(name) = 1 THEN ResolveName(ix, f, head)
                                 ELSE ResolveDotted(ix, f, name)
  BY <1>2 DEF ResolveCall
<1>4. {f} \subseteq scan
  BY ReadIs
<1> HIDE DEF ix, y
<1>5. CASE Len(name) = 1 /\ x \in OneDefinition({f}, head)
  <2>1. IsOne(x, head) /\ x[1] = f
    BY <1>4, <1>5, OneDefinitionIs
  <2>2. ResolveName(ix, f, head).to = {y}
    BY <2>1, LocalCall DEF ix, y
  <2>3. x[1] \in Read /\ x[2] \in PlacesOf(x[1], head)
    BY <2>1 DEF IsOne
  <2> QED
    BY <1>3, <1>5, <2>2, <2>3 DEF PlacesOf, ix, y
<1>6. CASE /\ Len(name) = 1 /\ n.kind = "from"
           /\ x \in OneDefinition(UNION {ModuleAt(d \o n.mod) : d \in StartOf(f, n)}, n.name)
  <2> DEFINE files == UNION {ModuleAt(d \o n.mod) : d \in StartOf(f, n)}
  <2>1. files \subseteq scan
    BY ModulesAreFiles
  <2>2. IsOne(x, n.name) /\ x[1] \in files
    <3> HIDE DEF files
    <3> QED
      BY <1>6, <2>1, OneDefinitionIs DEF files
  <2>3. PICK d \in StartOf(f, n) : x[1] \in ModuleAt(d \o n.mod)
    BY <2>2
  <2> HIDE DEF files
  <2>4. ResolveName(ix, f, head).to = {y}
    BY <1>1, <1>6, <2>2, <2>3, ImportedCall DEF ix, y
  <2>5. x[1] \in Read /\ x[2] \in PlacesOf(x[1], n.name)
    BY <2>2 DEF IsOne
  <2> QED
    BY <1>3, <1>6, <2>4, <2>5 DEF PlacesOf, ix, y
<1>7. CASE /\ Len(name) = 2 /\ n.kind \in {"import", "from"}
           /\ x \in OneDefinition(MeantModule(f, n), name[2])
  <2>1. MeantModule(f, n) \subseteq scan
    BY ModulesAreFiles
  <2>2. IsOne(x, name[2]) /\ x[1] \in MeantModule(f, n)
    BY <1>7, <2>1, OneDefinitionIs
  <2>3. x[1] \in Read /\ x[2] \in PlacesOf(x[1], name[2])
    BY <2>2 DEF IsOne
  <2>4. AliasOf(ix, f, head) = Module(x[1])
    BY <1>1, <1>7, <2>2, <2>3, MeantModuleIs DEF ix
  <2>5. Last(name) = name[2]
    BY <1>7 DEF Last
  <2>6. ResolveDotted(ix, f, name).to = {y}
    BY <2>2, <2>4, <2>5, ModuleCall DEF ix, y
  <2> QED
    BY <1>3, <1>7, <2>3, <2>6 DEF PlacesOf, ix, y
<1> QED
  BY <1>1, <1>5, <1>6, <1>7

(* At most one place, in order.                                            *)
LEMMA OrderedOne ==
    /\ Ordered({}) = <<>>
    /\ \A i : Ordered({i}) = <<i>>
<1>1. Ordered({}) = <<>>
  <2>1. Cardinality({}) = 0
    BY FS_EmptySet
  <2>2. Ordered({}) = CHOOSE s \in [1 .. 0 -> {}] :
                        \A k, l \in DOMAIN s : k < l => s[k] < s[l]
    BY <2>1 DEF Ordered
  <2>3. <<>> \in [1 .. 0 -> {}]
    OBVIOUS
  <2>4. \A s \in [1 .. 0 -> {}] : s = <<>>
    <3> TAKE s \in [1 .. 0 -> {}]
    <3>1. DOMAIN s = {} /\ s \in [{} -> {}] /\ <<>> \in [{} -> {}]
      BY <2>3
    <3> QED
      BY <3>1
  <2>5. \A k, l \in DOMAIN <<>> : k < l => <<>>[k] < <<>>[l]
    OBVIOUS
  <2> QED
    BY <2>2, <2>3, <2>4, <2>5
<1>2. ASSUME NEW i
      PROVE  Ordered({i}) = <<i>>
  <2>1. Cardinality({i}) = 1
    BY FS_Singleton
  <2>2. Ordered({i}) = CHOOSE s \in [1 .. 1 -> {i}] :
                         \A k, l \in DOMAIN s : k < l => s[k] < s[l]
    BY <2>1 DEF Ordered
  <2>3. <<i>> \in [1 .. 1 -> {i}]
    OBVIOUS
  <2>4. \A s \in [1 .. 1 -> {i}] : s = <<i>>
    <3> TAKE s \in [1 .. 1 -> {i}]
    <3>1. s[1] = i
      OBVIOUS
    <3>2. <<i>> \in [1 .. 1 -> {i}] /\ \A k \in 1 .. 1 : s[k] = <<i>>[k]
      BY <3>1
    <3> QED
      BY <3>2
  <2>5. \A k, l \in DOMAIN <<i>> : k < l => <<i>>[k] < <<i>>[l]
    OBVIOUS
  <2> QED
    BY <2>2, <2>3, <2>4, <2>5
<1> QED
  BY <1>1, <1>2

(* A statement that says of which class a name is: a parameter annotated   *)
(* with it, or an assignment of a call; what it says, and where it holds.  *)
Speaks(n, name) ==
    \/ n.kind = "def" /\ n.param = name /\ name # "self" /\ n.type \in Capital
    \/ /\ n.kind = "assign" /\ n.target = <<name>>
       /\ n.from = "call" /\ Len(n.value) = 1 /\ n.value[1] \in Capital

Said(n) == IF n.kind = "def" THEN <<"type", <<n.type>>>> ELSE <<"call", n.value>>

HoldsIn(f, at) ==
    Bodies(repo.text[f])[IF repo.text[f][at].node.kind = "def" THEN at
                         ELSE repo.text[f][at].up]

LEMMA HintsAre ==
    ASSUME Scanned, NEW f \in Read, NEW name, NEW at, NEW n, BoundBy(f, name, at, n),
           Speaks(n, name), NEW p
    PROVE  HintsIn(Index(Seen), f, p, name)
             = IF HoldsIn(f, at) = p THEN <<Said(n)>> ELSE <<>>
<1> DEFINE ix == Index(Seen)
           text == repo.text[f]
           body == Bodies(text)
           sets == {i \in Places(text, {"assign"}) :
                      text[i].node.target = <<name>> /\ body[text[i].up] = p}
           typed(types) == {i \in Places(text, {"def"}) :
                              /\ body[i] = p
                              /\ text[i].node.param = name
                              /\ text[i].node.type \in Capital
                              /\ TypeOfDef(text, i) \in types}
           said(i) == IF text[i].node.kind = "def" THEN <<"type", <<text[i].node.type>>>>
                      ELSE IF text[i].node.from = "call" THEN <<"call", text[i].node.value>>
                      ELSE <<text[i].node.from, <<>>>>
           own == IF name = "self" THEN {} ELSE typed({"method"})
           others == typed({"function", "nested_function"})
           order == Ordered(sets) \o Ordered(own) \o Ordered(others)
<1>1. ix.text[f] = text
  BY IndexIs, ReadIs
<1>2. HintsIn(ix, f, p, name) = [k \in DOMAIN order |-> said(order[k])]
  BY <1>1 DEF HintsIn
<1>3. at \in DOMAIN text /\ n = text[at].node
  BY BoundByIs DEF BoundBy
<1>4. \A i \in Places(text, {"assign"}) : text[i].node.target = <<name>> => i = at
  <2> SUFFICES ASSUME NEW i \in Places(text, {"assign"}), text[i].node.target = <<name>>
               PROVE  i \in Bindings(f, name)
    BY DEF BoundBy
  <2>1. i \in DOMAIN text /\ text[i].node.kind = "assign"
    BY DEF Places
  <2>2. Len(text[i].node.target) = 1 /\ Head(text[i].node.target) = name
    OBVIOUS
  <2>3. BoundName(text[i].node) = name
    BY <2>1, <2>2 DEF BoundName
  <2> QED
    BY <2>1, <2>3 DEF Bindings
<1>5. \A i \in Places(text, {"def"}) : text[i].node.param = name => i = at
  <2> SUFFICES ASSUME NEW i \in Places(text, {"def"}), text[i].node.param = name
               PROVE  i \in Bindings(f, name)
    BY DEF BoundBy
  <2> QED
    BY DEF Places, Bindings
<1>6. \A types : typed(types) = IF /\ n.kind = "def" /\ n.param = name /\ n.type \in Capital
                                   /\ body[at] = p /\ TypeOfDef(text, at) \in types
                                THEN {at} ELSE {}
  BY <1>3, <1>5 DEF Places
<1>7. sets = IF n.kind = "assign" /\ n.target = <<name>> /\ body[text[at].up] = p
             THEN {at} ELSE {}
  BY <1>3, <1>4 DEF Places
<1>8. said(at) = Said(n)
  BY <1>3 DEF Said, Speaks
<1>9. HoldsIn(f, at) = IF n.kind = "def" THEN body[at] ELSE body[text[at].up]
  BY <1>3 DEF HoldsIn
<1>10. n.kind = "def" => TypeOfDef(text, at) \in {"method", "function", "nested_function"}
  BY <1>3 DEF TypeOfDef
<1> HIDE DEF typed, sets
<1>11. own = IF n.kind = "def" /\ body[at] = p /\ TypeOfDef(text, at) = "method"
             THEN {at} ELSE {}
  BY <1>6 DEF Speaks
<1>12. others = IF n.kind = "def" /\ body[at] = p /\ TypeOfDef(text, at) # "method"
                THEN {at} ELSE {}
  BY <1>6, <1>10 DEF Speaks
<1>13. sets = IF n.kind = "assign" /\ body[text[at].up] = p THEN {at} ELSE {}
  BY <1>7 DEF Speaks
<1> HIDE DEF own, others, body, text
<1>14. order = IF HoldsIn(f, at) = p THEN <<at>> ELSE <<>>
  <2>1. <<at>> \o <<>> = <<at>> /\ <<>> \o <<at>> = <<at>> /\ <<>> \o <<>> = <<>>
    <3>1. <<at>> \in Seq({at}) /\ <<>> \in Seq({at})
      OBVIOUS
    <3> QED
      BY <3>1, ConcatEmptySeq
  <2>2. n.kind \in {"def", "assign"}
    BY DEF Speaks
  <2> QED
    BY <1>9, <1>11, <1>12, <1>13, <2>1, <2>2, OrderedOne
<1> HIDE DEF order, said
<1>15. CASE HoldsIn(f, at) = p
  <2>1. DOMAIN order = 1 .. 1 /\ order[1] = at
    BY <1>14, <1>15
  <2>2. HintsIn(ix, f, p, name) = [k \in 1 .. 1 |-> Said(n)]
    BY <1>2, <1>8, <2>1
  <2>3. [k \in 1 .. 1 |-> Said(n)] = <<Said(n)>>
    <3> DEFINE s == Said(n)
    <3> HIDE DEF s
    <3>1. [k \in 1 .. 1 |-> s] = <<s>>
      OBVIOUS
    <3> QED
      BY <3>1 DEF s
  <2> QED
    BY <1>15, <2>2, <2>3
<1>16. CASE HoldsIn(f, at) # p
  <2>1. DOMAIN order = {}
    BY <1>14, <1>16
  <2>2. HintsIn(ix, f, p, name) = [k \in {} |-> said(order[k])]
    BY <1>2, <2>1
  <2>3. [k \in {} |-> said(order[k])] = <<>>
    OBVIOUS
  <2> QED
    BY <1>16, <2>2, <2>3
<1> QED
  BY <1>15, <1>16

(* The class a name is of where it is used: the one statement that says so *)
(* is found from every scope inside the one it holds in.                   *)
LEMMA HintIs ==
    ASSUME Scanned, NEW f \in Read, NEW name, NEW at, NEW n, BoundBy(f, name, at, n),
           Speaks(n, name), NEW scope \in Seq(Frame), IsPrefix(HoldsIn(f, at), scope)
    PROVE  Hint(Index(Seen), f, scope, name) = <<Said(n)>>
<1> DEFINE ix == Index(Seen)
           p0 == HoldsIn(f, at)
           H(p) == HintsIn(ix, f, p, name)
           saying == {p \in Prefixes(scope) : H(p) # <<>>}
           inner == CHOOSE p \in saying : \A q \in saying : Len(q) <= Len(p)
<1>1. \A p : H(p) = IF p0 = p THEN <<Said(n)>> ELSE <<>>
  BY HintsAre
<1>2. <<Said(n)>> # <<>>
  OBVIOUS
<1>3. p0 \in Seq(Frame)
  <2>1. at \in DOMAIN repo.text[f] /\ IsText(repo.text[f])
    BY BoundByIs, ReadIs
  <2>2. at \in 0 .. Len(repo.text[f]) /\ repo.text[f][at].up \in 0 .. Len(repo.text[f])
    BY <2>1, TextIs
  <2> QED
    BY <2>1, <2>2, BodiesEquation DEF HoldsIn
<1>4. p0 \in Prefixes(scope)
  <2>1. Len(p0) <= Len(scope) /\ SubSeq(p0, 1, Len(p0)) = SubSeq(scope, 1, Len(p0))
    BY DEF IsPrefix
  <2>2. SubSeq(p0, 1, Len(p0)) = p0
    BY <1>3, SubSeqFull
  <2>3. Len(p0) \in 0 .. Len(scope)
    <3>1. Len(p0) \in Nat /\ Len(scope) \in Nat
      BY <1>3, LenProperties
    <3> QED
      BY <2>1, <3>1
  <2> QED
    BY <2>1, <2>2, <2>3 DEF Prefixes
<1> HIDE DEF H, p0
<1>5. saying = {p0}
  BY <1>1, <1>2, <1>4
<1>6. Len(p0) <= Len(p0)
  <2>1. Len(p0) \in Nat
    BY <1>3, LenProperties
  <2> QED
    BY <2>1
<1>7. Hint(ix, f, scope, name) = IF saying = {} THEN <<>> ELSE H(inner)
  BY DEF Hint, H
<1> HIDE DEF saying
<1>8. inner = p0
  BY <1>5, <1>6
<1> HIDE DEF inner
<1>9. saying # {}
  BY <1>5
<1> QED
  BY <1>1, <1>7, <1>8, <1>9

LEMMA ClassSaid ==
    ASSUME NEW n \in Node, NEW name, Speaks(n, name)
    PROVE  ClassOfHint(<<Said(n)>>)
             = {IF n.kind = "def" THEN n.type ELSE n.value[1]}
<1> DEFINE hint == <<Said(n)>>
           class == IF n.kind = "def" THEN n.type ELSE n.value[1]
<1>1. Len(hint) = 1 /\ hint[1] = Said(n) /\ hint # <<>>
  OBVIOUS
<1>2. 2 .. Len(hint) - 1 = {}
  BY <1>1
<1>3. /\ Len(Said(n)[2]) = 1 /\ Said(n)[1] \in {"call", "type"}
      /\ Head(Said(n)[2]) = class /\ class \in Capital
  <2>1. CASE n.kind = "def"
    <3>1. Said(n) = <<"type", <<n.type>>>> /\ class = n.type /\ n.type \in Capital
      BY <2>1 DEF Said, Speaks
    <3> QED
      BY <3>1
  <2>2. CASE n.kind # "def"
    <3>1. /\ Said(n) = <<"call", n.value>> /\ class = n.value[1] /\ n.value[1] \in Capital
          /\ Len(n.value) = 1 /\ n.kind = "assign"
      BY <2>2 DEF Said, Speaks
    <3>2. n.value \in Seq(STRING)
      BY <3>1, ImportNodes
    <3>3. Head(n.value) = n.value[1]
      BY <3>2
    <3> QED
      BY <3>1, <3>3
  <2> QED
    BY <2>1, <2>2
<1> HIDE DEF hint, class
<1>4. \A k \in 2 .. Len(hint) - 1 : hint[k] = hint[1]
  BY <1>2
<1>5. ClassOfHint(hint) = {Head(hint[1][2])}
  BY <1>1, <1>3, <1>4 DEF ClassOfHint
<1> QED
  BY <1>1, <1>3, <1>5 DEF hint, class

(* The files of a class that one file defines.                             *)
ClassPlaces(class) ==
    UNION {{g} \X {i \in DOMAIN repo.text[g] : /\ repo.text[g][i].node.kind = "class"
                                               /\ repo.text[g][i].node.name = class} :
             g \in scan \ repo.broken}

IsOnly(S, x) == S = {x}

LEMMA OneClassFile ==
    ASSUME Scanned, NEW class, NEW g, NEW i, IsOnly(ClassPlaces(class), <<g, i>>)
    PROVE  /\ ClassFiles(Index(Seen), class) = {g}
           /\ g \in Read /\ i \in DOMAIN repo.text[g] /\ repo.text[g][i].node.kind = "class"
<1> DEFINE ix == Index(Seen)
<1>0. ClassPlaces(class) = {<<g, i>>}
  BY DEF IsOnly
<1>1. \A h \in Read : \A j \in DOMAIN repo.text[h] :
        /\ repo.text[h][j].node.kind = "class" /\ repo.text[h][j].node.name = class
        => <<h, j>> \in ClassPlaces(class)
  BY DEF ClassPlaces, Read
<1>2. /\ g \in Read /\ i \in DOMAIN repo.text[g] /\ repo.text[g][i].node.kind = "class"
      /\ repo.text[g][i].node.name = class
  <2>1. <<g, i>> \in ClassPlaces(class)
    BY <1>0
  <2> QED
    BY <2>1 DEF ClassPlaces, Read
<1>3. ix.parsed = Read
  BY IndexIs, ReadIs
<1>4. ASSUME NEW h \in Read
      PROVE  (\E x \in Named(ix, h, class) : x.def.type = "class")
               <=> \E j \in PlacesOf(h, class) : repo.text[h][j].node.kind = "class"
  <2>1. Named(ix, h, class) = {DefAt(h, j) : j \in PlacesOf(h, class)}
    BY NamedAre
  <2>2. \A j : DefAt(h, j).def.type = TypeOfDef(repo.text[h], j)
    BY DEF DefAt, RecordAt
  <2>3. \A j : TypeOfDef(repo.text[h], j) = "class" <=> repo.text[h][j].node.kind = "class"
    BY DEF TypeOfDef
  <2> HIDE DEF ix
  <2> QED
    BY <2>1, <2>2, <2>3
<1>5. ASSUME NEW h \in ClassFiles(ix, class)
      PROVE  h = g
  <2>1. h \in Read /\ \E j \in PlacesOf(h, class) : repo.text[h][j].node.kind = "class"
    BY <1>3, <1>4 DEF ClassFiles
  <2>2. PICK j \in PlacesOf(h, class) : repo.text[h][j].node.kind = "class"
    BY <2>1
  <2>3. <<h, j>> \in ClassPlaces(class)
    BY <1>1, <2>1, <2>2 DEF PlacesOf
  <2> QED
    BY <1>0, <2>3
<1>6. g \in ClassFiles(ix, class)
  <2>1. i \in PlacesOf(g, class)
    BY <1>2 DEF PlacesOf
  <2> QED
    BY <1>2, <1>3, <1>4, <2>1 DEF ClassFiles
<1> QED
  BY <1>2, <1>5, <1>6

LEMMA MeantMethodCase ==
    ASSUME Scanned, NEW f \in Read, NEW c, NEW y \in MeantMethod(f, c)
    PROVE  \E at, n, class, x :
             /\ BoundBy(f, Head(c.name), at, n) /\ Len(c.name) = 2
             /\ n.kind # "def" \/ n.name # Head(c.name)
             /\ class = IF n.kind = "def" THEN n.type ELSE n.value[1]
             /\ Speaks(n, Head(c.name)) /\ IsPrefix(HoldsIn(f, at), c.scope)
             /\ \E a, b : x \in Meant(f, [name |-> a, scope |-> b])
             /\ y \in {x[1]} \X PlacesOf(x[1], Last(c.name))
             /\ Cardinality(PlacesOf(y[1], Last(c.name))) = 1
             /\ repo.text[y[1]][y[2]].node.kind = "def"
             /\ ClassPlaces(class) = {<<y[1], repo.text[y[1]][y[2]].up>>}
<1> DEFINE head == Head(c.name)
           at == CHOOSE i \in Bindings(f, head) : TRUE
           n == repo.text[f][at].node
           class == IF n.kind = "def" THEN <<n.type>> ELSE n.value
           scope == Bodies(repo.text[f])[IF n.kind = "def" THEN at ELSE repo.text[f][at].up]
           call == [name |-> class, scope |-> scope]
           ok == /\ Len(c.name) = 2 /\ head \notin Builtins
                 /\ Cardinality(Bindings(f, head)) = 1
                 /\ \/ /\ n.kind = "def" /\ n.param = head
                       /\ n.name # head /\ head # "self"
                    \/ /\ n.kind = "assign" /\ n.target = <<head>>
                       /\ n.from = "call" /\ Len(n.value) = 1
                 /\ class[1] \in Capital /\ IsPrefix(scope, c.scope)
<1>1. MeantMethod(f, c)
        = IF ok
          THEN {z \in UNION {{x[1]} \X PlacesOf(x[1], Last(c.name)) : x \in Meant(f, call)} :
                  /\ Cardinality(PlacesOf(z[1], Last(c.name))) = 1
                  /\ repo.text[z[1]][z[2]].node.kind = "def"
                  /\ {<<z[1], repo.text[z[1]][z[2]].up>>} = ClassPlaces(class[1])}
          ELSE {}
  BY Zenon DEF MeantMethod, PlacesOf, ClassPlaces
<1>2. ok
  <2> HIDE DEF ok
  <2> QED
    BY <1>1, Zenon
<1>3. BoundBy(f, head, at, n)
  BY <1>2, OneBinding, Zenon DEF BoundBy
<1>4. PICK x \in Meant(f, call) : y \in {x[1]} \X PlacesOf(x[1], Last(c.name))
  <2> DEFINE P(x) == {x[1]} \X PlacesOf(x[1], Last(c.name))
             U == UNION {P(x) : x \in Meant(f, call)}
  <2>1. y \in U
    <3> HIDE DEF ok, P, call, class
    <3> QED
      BY <1>1 DEF P
  <2> HIDE DEF P, call
  <2>2. \E x \in Meant(f, call) : y \in P(x)
    BY <2>1
  <2> QED
    BY <2>2, Zenon DEF P
<1>5. /\ Cardinality(PlacesOf(y[1], Last(c.name))) = 1
      /\ repo.text[y[1]][y[2]].node.kind = "def"
      /\ {<<y[1], repo.text[y[1]][y[2]].up>>} = ClassPlaces(class[1])
  <2> HIDE DEF ok, call, class
  <2> QED
    BY <1>1
<1>6. class[1] = IF n.kind = "def" THEN n.type ELSE n.value[1]
  <2>1. <<n.type>>[1] = n.type
    OBVIOUS
  <2> HIDE DEF n
  <2>2. CASE n.kind = "def"
    BY <2>1, <2>2
  <2>3. CASE n.kind # "def"
    BY <2>3
  <2> QED
    BY <2>2, <2>3
<1>7. Speaks(n, head) /\ (n.kind # "def" \/ n.name # head)
  <2> HIDE DEF head, at, n
  <2> QED
    BY <1>2, <1>6 DEF Speaks
<1>8. IsPrefix(HoldsIn(f, at), c.scope)
  BY <1>2, Zenon DEF HoldsIn
<1>9. \E a, b : x \in Meant(f, [name |-> a, scope |-> b])
  BY <1>4, Zenon
<1>10. Len(c.name) = 2
  BY <1>2, Zenon
<1> HIDE DEF at, n, class, call, ok, head
<1> QED
  BY <1>3, <1>4, <1>5, <1>6, <1>7, <1>8, <1>9, <1>10 DEF head


(* A call of a method of a variable is attributed to the method.           *)
LEMMA OneMethodOfClass ==
    ASSUME Scanned, NEW class, NEW tail, NEW y,
           ClassPlaces(class) = {<<y[1], repo.text[y[1]][y[2]].up>>},
           y[2] \in PlacesOf(y[1], tail), Cardinality(PlacesOf(y[1], tail)) = 1,
           repo.text[y[1]][y[2]].node.kind = "def"
    PROVE  /\ y[1] \in Read /\ y[2] \in DOMAIN repo.text[y[1]]
           /\ MethodsOfClass(Index(Seen), class, tail) = {DefAt(y[1], y[2])}
<1> DEFINE g == y[1]
           i == y[2]
           up == repo.text[g][i].up
           ix == Index(Seen)
<1>1. /\ ClassFiles(ix, class) = {g} /\ g \in Read
      /\ up \in DOMAIN repo.text[g] /\ repo.text[g][up].node.kind = "class"
  <2>1. IsOnly(ClassPlaces(class), <<g, up>>)
    BY DEF IsOnly
  <2> HIDE DEF g, up
  <2> QED
    BY <2>1, OneClassFile
<1>2. i \in DOMAIN repo.text[g]
  BY DEF PlacesOf
<1>3. IsText(repo.text[g])
  BY <1>1, ReadIs
<1>4. DOMAIN repo.text[g] = 1 .. Len(repo.text[g]) /\ Len(repo.text[g]) \in Int
  BY <1>3, TextIs
<1>5. PlacesOf(g, tail) = {i}
  <2> DEFINE P == PlacesOf(g, tail)
  <2>1. P \in SUBSET DOMAIN repo.text[g]
    BY Zenon DEF PlacesOf
  <2>2. IsFiniteSet(DOMAIN repo.text[g])
    <3>1. IsFiniteSet(1 .. Len(repo.text[g]))
      BY <1>4, FS_Interval
    <3> QED
      BY <1>4, <3>1
  <2> HIDE DEF P
  <2>3. IsFiniteSet(P)
    BY <2>1, <2>2, FS_Subset
  <2>4. \E j : P = {j}
    BY <2>3, FS_Singleton DEF P
  <2> QED
    BY <2>4 DEF P
<1>6. TypeOfDef(repo.text[g], i) = "method"
  <2>1. up # 0
    BY <1>1, <1>4
  <2> QED
    BY <1>1, <2>1 DEF TypeOfDef
<1>7. Methods(ix, g, tail) = {DefAt(g, i)}
  BY <1>1, <1>5, <1>6, OneNamed
<1>8. MethodsOfClass(ix, class, tail) = {DefAt(g, i)}
  <2> HIDE DEF ix, g, i
  <2> QED
    BY <1>1, <1>7 DEF MethodsOfClass
<1> QED
  BY <1>1, <1>2, <1>8

(* The class a statement says a name is of.                                *)
SaidClass(n) == IF n.kind = "def" THEN n.type ELSE n.value[1]

LEMMA VariableCall ==
    ASSUME Scanned, NEW f \in Read, NEW c, c.scope \in Seq(Frame), Len(c.name) = 2,
           NEW at, NEW n, BoundBy(f, Head(c.name), at, n),
           n.kind # "def" \/ n.name # Head(c.name), Speaks(n, Head(c.name)),
           IsPrefix(HoldsIn(f, at), c.scope),
           NEW d, IsOnly(MethodsOfClass(Index(Seen), SaidClass(n), Last(c.name)), d)
    PROVE  IsOnly(CallOutcome(Index(Seen), f, c).to, d)
<1> DEFINE ix == Index(Seen)
           head == Head(c.name)
           first == ResolveCall(ix, f, c.name)
           guess == ByHint(ix, f, c.scope, c.name)
<1>1. /\ n \in Node /\ head \notin Builtins
      /\ AliasOf(ix, f, head) = Nothing /\ Named(ix, f, head) = {}
  <2>1. n.kind \notin {"import", "from"} /\ n.kind # "class"
    BY DEF Speaks
  <2>2. n \in Node /\ Named(ix, f, head) = {} /\ AliasOf(ix, f, head) = Nothing
    BY <2>1, BoundByIs
  <2> QED
    BY <2>2 DEF BoundBy
<1>2. ResolveDotted(ix, f, c.name) = Missed("unresolved")
  <2>1. Nothing.kind = "none"
    BY DEF Nothing
  <2>2. ResolveDotted(ix, f, c.name)
          = LET alias == AliasOf(ix, f, head)
                here  == Named(ix, f, head)
                tail  == Last(c.name)
                method(g) == Methods(ix, g, tail)
                symbol(g) == Named(ix, g, tail)
            IN  CASE alias.kind = "module" ->
                       IF Cardinality(method(alias.file)) = 1
                       THEN OnlyOf(method(alias.file), "imported_module_method", "")
                       ELSE OnlyOf(symbol(alias.file), "imported_module_symbol",
                                   "external_or_unresolved_module_attr")
                  [] alias.kind = "symbol" ->
                       OnlyOf(alias.targets, "imported_symbol_attr_base", "imported_symbol")
                  [] alias.kind \notin {"module", "symbol"} /\ here # {} ->
                       IF Cardinality(here) = 1 /\ Cardinality(method(f)) = 1
                       THEN OnlyOf(method(f), "same_file_method", "")
                       ELSE OnlyOf(here, "same_file_symbol_base", "ambiguous_local_symbol")
                  [] OTHER -> Missed("unresolved")
    BY DEF ResolveDotted
  <2> HIDE DEF ix, head
  <2> QED
    BY <1>1, <2>1, <2>2
<1>3. first = Missed("unresolved")
  <2> HIDE DEF ix
  <2> QED
    BY <1>1, <1>2 DEF ResolveCall
<1>4. first.to = {} /\ first.how # "builtin"
  BY <1>3 DEF Missed
<1>5. guess = {d}
  <2>1. Hint(ix, f, c.scope, head) = <<Said(n)>>
    BY HintIs
  <2>2. ClassOfHint(Hint(ix, f, c.scope, head)) = {SaidClass(n)}
    BY <1>1, <2>1, ClassSaid DEF SaidClass
  <2> HIDE DEF ix, head
  <2>3. guess = UNION {MethodsOfClass(ix, k, Last(c.name)) : k \in {SaidClass(n)}}
    BY <2>2 DEF ByHint, head
  <2> QED
    BY <2>3 DEF IsOnly, ix
<1>6. CallOutcome(ix, f, c)
        = LET all == IF Len(c.name) > 1 THEN guess ELSE {}
              attr == ByAttribute(ix, c.scope, c.name)
              outside == first.how = "builtin" \/ AliasOf(ix, f, head) = External
          IN  CASE first.to # {} -> first
                [] first.to = {} /\ first.how # "builtin" /\ Cardinality(all) = 1 ->
                     OnlyOf(all, "variable_hint", "")
                [] /\ first.to = {} /\ first.how # "builtin"
                   /\ Cardinality(all) # 1 /\ Cardinality(attr) = 1 ->
                     OnlyOf(attr, "attribute_type", "")
                [] OTHER -> Missed(IF outside THEN "outside"
                                   ELSE Category(first.how, Hint(ix, f, c.scope, head),
                                                 c.name))
  BY DEF CallOutcome
<1>7. (IF Len(c.name) > 1 THEN guess ELSE {}) = {d}
  BY <1>5
<1> HIDE DEF ix, head, first, guess
<1>8. Cardinality({d}) = 1 /\ OnlyOf({d}, "variable_hint", "") = Attributed(d, "variable_hint")
  BY OnlyOfOne
<1>9. CallOutcome(ix, f, c) = Attributed(d, "variable_hint")
  BY <1>4, <1>6, <1>7, <1>8
<1> QED
  BY <1>9 DEF Attributed, IsOnly, ix

LEMMA MeantMethodResolves ==
    ASSUME Scanned, NEW f \in Read, NEW c, c.scope \in Seq(Frame), NEW y \in MeantMethod(f, c)
    PROVE  /\ y[1] \in Read /\ y[2] \in DOMAIN repo.text[y[1]]
           /\ repo.text[y[1]][y[2]].node.kind \in {"def", "class"}
           /\ CallOutcome(Index(Seen), f, c).to = {DefAt(y[1], y[2])}
<1>1. PICK at, n, class, x :
        /\ BoundBy(f, Head(c.name), at, n) /\ Len(c.name) = 2
        /\ n.kind # "def" \/ n.name # Head(c.name)
        /\ class = IF n.kind = "def" THEN n.type ELSE n.value[1]
        /\ Speaks(n, Head(c.name)) /\ IsPrefix(HoldsIn(f, at), c.scope)
        /\ \E a, b : x \in Meant(f, [name |-> a, scope |-> b])
        /\ y \in {x[1]} \X PlacesOf(x[1], Last(c.name))
        /\ Cardinality(PlacesOf(y[1], Last(c.name))) = 1
        /\ repo.text[y[1]][y[2]].node.kind = "def"
        /\ ClassPlaces(class) = {<<y[1], repo.text[y[1]][y[2]].up>>}
  BY MeantMethodCase
<1>2. y[1] = x[1] /\ y[2] \in PlacesOf(y[1], Last(c.name))
  BY <1>1
<1>3. /\ y[1] \in Read /\ y[2] \in DOMAIN repo.text[y[1]]
      /\ MethodsOfClass(Index(Seen), class, Last(c.name)) = {DefAt(y[1], y[2])}
  BY <1>1, <1>2, OneMethodOfClass
<1>4. CallOutcome(Index(Seen), f, c).to = {DefAt(y[1], y[2])}
  <2> DEFINE d == DefAt(y[1], y[2])
  <2>1. IsOnly(MethodsOfClass(Index(Seen), SaidClass(n), Last(c.name)), d)
    BY <1>1, <1>3 DEF SaidClass, IsOnly
  <2> HIDE DEF d
  <2>2. BoundBy(f, Head(c.name), at, n) /\ Len(c.name) = 2
    BY <1>1
  <2>3. /\ n.kind # "def" \/ n.name # Head(c.name)
        /\ Speaks(n, Head(c.name)) /\ IsPrefix(HoldsIn(f, at), c.scope)
    BY <1>1
  <2>4. IsOnly(CallOutcome(Index(Seen), f, c).to, d)
    BY <2>1, <2>2, <2>3, VariableCall
  <2> QED
    BY <2>4 DEF IsOnly, d
<1> QED
  BY <1>1, <1>3, <1>4


(* A scope is that of the body of a definition or a class of the file.     *)
Opens(text, j, scope) ==
    /\ j \in Places(text, {"def", "class"})
    /\ scope = Append(Bodies(text)[text[j].up], <<text[j].node.kind, text[j].node.name>>)

LEMMA ScopeIsOpened ==
    ASSUME NEW text, IsText(text)
    PROVE  \A i \in 0 .. Len(text) :
             Bodies(text)[i] = <<>> \/ \E j : Opens(text, j, Bodies(text)[i])
<1> DEFINE body == Bodies(text)
           opened(i) == body[i] = <<>> \/ \E j : Opens(text, j, body[i])
           S == {m \in Nat : \A i \in 0 .. Len(text) : i <= m => opened(i)}
<1>1. \A i \in 0 .. Len(text) : body[i] = BodyOf(text, body, i)
  BY BodiesEquation
<1>2. \A i \in 0 .. Len(text) : i # 0 => i \in DOMAIN text /\ text[i].up \in 0 .. i - 1
  BY TextIs
<1>3. Len(text) \in Nat
  BY TextIs
<1>4. \A i \in 0 .. Len(text) : i # 0 /\ text[i].node.kind \in {"def", "class"} => opened(i)
  BY <1>1, <1>2 DEF BodyOf, Opens, Places
<1>5. \A i \in 0 .. Len(text) :
        i # 0 /\ text[i].node.kind \notin {"def", "class"} => body[i] = body[text[i].up]
  <2> HIDE DEF body
  <2> QED
    BY <1>1 DEF BodyOf
<1>6. 0 \in 0 .. Len(text) => body[0] = <<>>
  <2> HIDE DEF body
  <2> QED
    BY <1>1 DEF BodyOf
<1> HIDE DEF body
<1>7. 0 \in S
  BY <1>3, <1>6
<1>8. ASSUME NEW m \in Nat, m \in S
      PROVE  m + 1 \in S
  <2> SUFFICES ASSUME NEW i \in 0 .. Len(text), i <= m + 1, i # 0,
                      text[i].node.kind \notin {"def", "class"}
               PROVE  opened(i)
    BY <1>4, <1>6
  <2>1. text[i].up \in 0 .. Len(text) /\ text[i].up <= m
    BY <1>2, <1>3
  <2>2. opened(text[i].up)
    BY <1>8, <2>1
  <2> QED
    BY <1>5, <2>2
<1> HIDE DEF S
<1>9. Len(text) \in S
  BY <1>3, <1>7, <1>8, NatInduct
<1> QED
  BY <1>3, <1>9 DEF S, body

(* The node a statement is attributed to is named as what it stands in.    *)
LEMMA SourceIsScope ==
    ASSUME Scanned, NEW f \in Read, NEW i \in 0 .. Len(repo.text[f])
    PROVE  NameOf(SourceNode(Index(Seen), f, Bodies(repo.text[f])[i]))
             = StandsIn(f, Bodies(repo.text[f])[i])
<1> DEFINE text == repo.text[f]
           scope == Bodies(text)[i]
           framed(x) == Append(x.def.scope,
                          <<IF x.def.type = "class" THEN "class" ELSE "def", x.def.name>>)
           D == InFile(f, Index(Seen).inv[f].defs)
           here == {x \in D : framed(x) = scope}
           first == IF \E x \in here : x.def.type = "method"
                    THEN {x \in here : x.def.type = "method"} ELSE here
           y == CHOOSE x \in first : TRUE
<1>1. SourceNode(Index(Seen), f, scope) = IF here = {} THEN FileNode(f) ELSE NodeId(y)
  BY DEF SourceNode
<1>2. IsText(text)
  BY ReadIs
<1>3. D = {DefAt(f, j) : j \in Places(text, {"def", "class"})}
  <2>1. Index(Seen).inv[f].defs = {RecordAt(text, j) : j \in Places(text, {"def", "class"})}
    BY RecordsAre, IndexIs
  <2> QED
    BY <2>1 DEF InFile, DefAt
<1>4. ASSUME NEW j \in Places(text, {"def", "class"})
      PROVE  LET x == DefAt(f, j)
                 frame == <<text[j].node.kind, text[j].node.name>>
             IN  /\ framed(x) = Append(x.def.scope, frame)
                 /\ x.def.scope = Bodies(text)[text[j].up]
                 /\ x.def.scope \in Seq(Frame) /\ frame \in Frame /\ frame[2] = x.def.name
                 /\ NodeId(x)[1] # "file" /\ Tail(NodeId(x)) = <<f, x.def.scope, x.def.name>>
  <2> DEFINE x == DefAt(f, j)
             frame == <<text[j].node.kind, text[j].node.name>>
  <2>1. /\ x.file = f /\ x.def.scope = Bodies(text)[text[j].up]
        /\ x.def.name = text[j].node.name /\ x.def.type = TypeOfDef(text, j)
    BY DEF DefAt, RecordAt
  <2>2. j \in DOMAIN text /\ text[j].node.kind \in {"def", "class"}
    BY DEF Places
  <2>3. text[j].node \in Node /\ text[j].up \in 0 .. Len(text)
    BY <1>2, <2>2, TextIs
  <2>4. text[j].node.name \in STRING
    BY <2>2, <2>3, NodeNames
  <2>5. frame \in Frame /\ frame[2] = text[j].node.name
    BY <2>2, <2>4 DEF Frame
  <2>6. x.def.scope \in Seq(Frame)
    BY <1>2, <2>1, <2>3, BodiesEquation
  <2>7. /\ x.def.type = "class" <=> text[j].node.kind = "class"
        /\ x.def.type \in {"class", "method", "function", "nested_function"}
    BY <2>1 DEF TypeOfDef
  <2>8. (IF x.def.type = "class" THEN "class" ELSE "def") = text[j].node.kind
    BY <2>2, <2>7
  <2>9. framed(x) = Append(x.def.scope, frame)
    BY <2>1, <2>8, Zenon
  <2>10. NodeId(x)[1] = x.def.type /\ Tail(NodeId(x)) = <<f, x.def.scope, x.def.name>>
    <3> DEFINE a == x.def.type
               b == x.def.scope
               d == x.def.name
    <3>1. NodeId(x) = <<a, f, b, d>>
      BY <2>1 DEF NodeId
    <3> HIDE DEF a, b, d, x
    <3>2. <<a, f, b, d>>[1] = a /\ Tail(<<a, f, b, d>>) = <<f, b, d>>
      OBVIOUS
    <3> QED
      BY <3>1, <3>2 DEF a, b, d
  <2> HIDE DEF x
  <2> QED
    BY <2>1, <2>5, <2>6, <2>7, <2>9, <2>10, Zenon DEF x
<1>5. scope \in Seq(Frame)
  BY <1>2, BodiesEquation
<1>6. CASE scope = <<>>
  <2>1. ASSUME NEW x \in here PROVE FALSE
    <3>1. PICK j \in Places(text, {"def", "class"}) : x = DefAt(f, j)
      BY <1>3
    <3>2. framed(x) = <<>>
      BY <1>6
    <3>3. /\ framed(x) = Append(x.def.scope, <<text[j].node.kind, text[j].node.name>>)
          /\ x.def.scope \in Seq(Frame) /\ <<text[j].node.kind, text[j].node.name>> \in Frame
      BY <1>4, <3>1, Zenon
    <3> HIDE DEF framed
    <3> QED
      BY <3>2, <3>3, FrontOfAppend
  <2>2. here = {}
    BY <2>1
  <2>3. NameOf(FileNode(f)) = <<f>>
    BY DEF NameOf, FileNode
  <2> HIDE DEF here, y, scope
  <2> QED
    BY <1>1, <1>6, <2>2, <2>3 DEF StandsIn, scope
<1>7. CASE scope # <<>>
  <2>1. PICK j : Opens(text, j, scope)
    BY <1>2, <1>7, ScopeIsOpened
  <2>2. DefAt(f, j) \in here
    <3>1. j \in Places(text, {"def", "class"}) /\ DefAt(f, j) \in D
      BY <1>3, <2>1, Zenon DEF Opens
    <3>2. framed(DefAt(f, j)) = scope
      BY <1>4, <2>1, <3>1, Zenon DEF Opens
    <3> HIDE DEF framed, D, scope
    <3> QED
      BY <3>1, <3>2
  <2>3. y \in here
    <3> HIDE DEF here
    <3> QED
      BY <2>2
  <2>4. PICK k \in Places(text, {"def", "class"}) : y = DefAt(f, k)
    <3> HIDE DEF y
    <3> QED
      BY <1>3, <2>3
  <2>5. framed(y) = scope
    <3> HIDE DEF y, framed
    <3> QED
      BY <2>3
  <2> DEFINE s == y.def.scope
             frame == <<text[k].node.kind, text[k].node.name>>
  <2>6. /\ scope = Append(s, frame) /\ s \in Seq(Frame) /\ frame \in Frame
        /\ frame[2] = y.def.name
        /\ NodeId(y)[1] # "file" /\ Tail(NodeId(y)) = <<f, s, y.def.name>>
    <3> HIDE DEF y, framed
    <3> QED
      BY <1>4, <2>4, <2>5
  <2> HIDE DEF frame, s, y, scope
  <2>7. Front(scope) = s /\ Last(scope) = frame
    BY <2>6, FrontOfAppend
  <2>8. StandsIn(f, scope) = <<f, s, y.def.name>>
    BY <1>7, <2>6, <2>7 DEF StandsIn
  <2>9. NameOf(NodeId(y)) = <<f, s, y.def.name>>
    BY <2>6 DEF NameOf
  <2> HIDE DEF here
  <2> QED
    BY <1>1, <2>2, <2>8, <2>9 DEF scope
<1> QED
  BY <1>6, <1>7


(* A call that is attributed to one definition has one edge.               *)
LEMMA OneEdge ==
    ASSUME Scanned, NEW f \in Read, NEW c \in Inventory(Seen)[f].calls,
           NEW d, IsOnly(CallOutcome(Index(Seen), f, c).to, d)
    PROVE  {<<NameOf(e.from), e.to>> :
              e \in {k \in CallEdges(BuildRelationMap(Seen)) : k.at = <<f, c.at>>}}
             = {<<StandsIn(f, c.scope), NodeId(d)>>}
<1> DEFINE x == [file |-> f, call |-> c, end |-> CallOutcome(Index(Seen), f, c)]
           here == {k \in CallEdges(BuildRelationMap(Seen)) : k.at = <<f, c.at>>}
           edge == CallEdge(Seen, x)
<1>1. f \in Parsed(Seen) /\ Readable(Seen)
  BY ReadIs
<1>2. x \in CallsOf(Seen) /\ x.file = f /\ x.call = c /\ x.end.to = {d}
  BY <1>1, CallsAre DEF IsOnly
<1>3. CallEdges(BuildRelationMap(Seen))
        = {CallEdge(Seen, y) : y \in {z \in CallsOf(Seen) : z.end.to # {}}}
  BY <1>1, CallEdgesAre DEF Resolved
<1>4. \A y \in CallsOf(Seen) : y.end.to # {} =>
        CallEdge(Seen, y).at = <<y.file, y.call.at>>
  BY <1>1, ResolvedIs
<1>5. /\ edge.from = SourceNode(Index(Seen), f, c.scope)
      /\ edge.to = NodeId(d) /\ edge.at = <<f, c.at>>
  <2>1. /\ edge.from = SourceNode(Index(Seen), x.file, x.call.scope)
        /\ edge.to = NodeId(CHOOSE y \in x.end.to : TRUE)
        /\ edge.at = <<x.file, x.call.at>>
    <3> HIDE DEF x
    <3> QED
      BY EdgeIs DEF CallEdge
  <2>2. (CHOOSE y \in {d} : TRUE) = d
    OBVIOUS
  <2> HIDE DEF x, edge
  <2> QED
    BY <1>2, <2>1, <2>2
<1>6. here = {edge}
  <2> HIDE DEF x
  <2>1. edge \in here
    BY <1>2, <1>3, <1>5
  <2>2. ASSUME NEW e \in here
        PROVE  e = edge
    <3>1. PICK y \in CallsOf(Seen) : y.end.to # {} /\ e = CallEdge(Seen, y)
      BY <1>3
    <3>2. <<y.file, y.call.at>> = <<x.file, x.call.at>>
      BY <1>2, <1>4, <3>1
    <3>3. y = x
      BY <1>2, <3>1, <3>2, OneCallAtAPlace
    <3> QED
      BY <3>1, <3>3
  <2> HIDE DEF edge, here
  <2> QED
    BY <2>1, <2>2
<1>7. NameOf(SourceNode(Index(Seen), f, c.scope)) = StandsIn(f, c.scope)
  <2>1. c.at \in DOMAIN Seen.text[f] /\ c = CallAt(Seen.text[f], c.at)
    BY <1>1, CallIsAt
  <2>2. Seen.text[f] = repo.text[f] /\ IsText(repo.text[f])
    BY ReadIs
  <2>3. repo.text[f][c.at].up \in 0 .. Len(repo.text[f])
    BY <2>1, <2>2, TextIs
  <2>4. c.scope = Bodies(repo.text[f])[repo.text[f][c.at].up]
    BY <2>1, <2>2 DEF CallAt
  <2> QED
    BY <2>3, <2>4, SourceIsScope
<1> HIDE DEF here, edge, x
<1>8. {<<NameOf(e.from), e.to>> : e \in here} = {<<NameOf(edge.from), edge.to>>}
  BY <1>6
<1> QED
  BY <1>5, <1>7, <1>8 DEF here

(* Whatever a call means, for every project: when the name it begins with  *)
(* is bound once and so stands for one definition, or for an object of one *)
(* class, the relation map has one edge for the call, from the definition  *)
(* around it to that definition or method (build_relation_map).            *)
THEOREM CallsAlwaysReachTheirMeaning == Spec => []CallsReachTheirMeaning
<1>1. Stages /\ Numbered => CallsReachTheirMeaning
  <2> SUFFICES ASSUME Stages, Numbered, relations # None, RootIsUnnamed
               PROVE  CallsReachTheirMeaning
    BY DEF CallsReachTheirMeaning
  <2>1. /\ scan # None /\ inventory = Inventory(Seen)
        /\ relations = BuildRelationMap(Seen)
    BY DEF Stages
  <2>2. Scanned
    BY <2>1 DEF Scanned
  <2> DEFINE edges(map, f, c) == {<<NameOf(e.from), e.to>> :
                                    e \in {k \in CallEdges(map) : k.at = <<f, c.at>>}}
             meant(inv, f, c, x) ==
               {<<StandsIn(f, c.scope),
                  NodeId([file |-> x[1], def |-> CHOOSE k \in inv[x[1]].defs : k.at = x[2]])>>}
             same(map, inv) ==
               \A f \in Read : \A c \in inv[f].calls :
                 \A x \in Meant(f, c) \cup MeantMethod(f, c) :
                   edges(map, f, c) = meant(inv, f, c, x)
  <2>3. same(relations, inventory) => CallsReachTheirMeaning
    BY Zenon DEF CallsReachTheirMeaning, Read
  <2>4. same(BuildRelationMap(Seen), Inventory(Seen)) => same(relations, inventory)
    <3> HIDE DEF same
    <3> QED
      BY <2>1
  <2> SUFFICES ASSUME NEW f \in Read, NEW c \in Inventory(Seen)[f].calls,
                      NEW x \in Meant(f, c) \cup MeantMethod(f, c)
               PROVE  edges(BuildRelationMap(Seen), f, c) = meant(Inventory(Seen), f, c, x)
    BY <2>3, <2>4, Zenon
  <2>5. c.scope \in Seq(Frame)
    <3>1. f \in Parsed(Seen) /\ Seen.text[f] = repo.text[f] /\ IsText(repo.text[f])
      BY <2>2, ReadIs
    <3>2. c.at \in DOMAIN Seen.text[f] /\ c = CallAt(Seen.text[f], c.at)
      BY <3>1, CallIsAt
    <3>3. repo.text[f][c.at].up \in 0 .. Len(repo.text[f])
      BY <3>1, <3>2, TextIs
    <3>4. c.scope = Bodies(repo.text[f])[repo.text[f][c.at].up]
      BY <3>1, <3>2 DEF CallAt
    <3> QED
      BY <3>1, <3>3, <3>4, BodiesEquation
  <2> DEFINE d == DefAt(x[1], x[2])
             to == CallOutcome(Index(Seen), f, c).to
  <2>6. /\ x[1] \in Read /\ x[2] \in DOMAIN repo.text[x[1]]
        /\ repo.text[x[1]][x[2]].node.kind \in {"def", "class"}
        /\ to = {d}
    <3>1. CASE x \in Meant(f, c)
      <4>1. ResolveCall(Index(Seen), f, c.name).to # {} =>
              CallOutcome(Index(Seen), f, c) = ResolveCall(Index(Seen), f, c.name)
        BY DEF CallOutcome
      <4>2. /\ x[1] \in Read /\ x[2] \in DOMAIN repo.text[x[1]]
            /\ repo.text[x[1]][x[2]].node.kind \in {"def", "class"}
            /\ ResolveCall(Index(Seen), f, c.name).to = {d}
        BY <2>2, <3>1, MeantResolves
      <4> HIDE DEF d
      <4> QED
        BY <4>1, <4>2
    <3>2. CASE x \in MeantMethod(f, c)
      BY <2>2, <2>5, <3>2, MeantMethodResolves
    <3> QED
      BY <3>1, <3>2
  <2>7. d = [file |-> x[1], def |-> CHOOSE e \in Inventory(Seen)[x[1]].defs : e.at = x[2]]
    <3>1. x[2] \in Places(repo.text[x[1]], {"def", "class"})
      BY <2>6 DEF Places
    <3>2. (CHOOSE e \in Inventory(Seen)[x[1]].defs : e.at = x[2])
            = RecordAt(repo.text[x[1]], x[2])
      BY <2>2, <2>6, <3>1, RecordsAre
    <3> QED
      BY <3>2 DEF DefAt
  <2> HIDE DEF d
  <2>8. IsOnly(to, d)
    BY <2>6 DEF IsOnly
  <2>9. edges(BuildRelationMap(Seen), f, c) = {<<StandsIn(f, c.scope), NodeId(d)>>}
    BY <2>2, <2>8, OneEdge, Zenon
  <2>10. meant(Inventory(Seen), f, c, x) = {<<StandsIn(f, c.scope), NodeId(d)>>}
    BY <2>7
  <2> QED
    BY <2>9, <2>10
<1> QED
  BY <1>1, StagesAlways, NumberedAlways, PTL
=============================================================================
