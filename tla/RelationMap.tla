----------------------------- MODULE RelationMap -----------------------------
(***************************************************************************)
(* build_relation_map: which definitions, imports and calls of a           *)
(* repository refer to which.  Nothing is executed: a call is attributed   *)
(* to a definition by name, through the imports of the file, the names     *)
(* that are unique in the repository, and what assignments and annotations *)
(* say about the class of a variable.                                      *)
(*                                                                         *)
(* Everything is read from an index of the repository, ix, which           *)
(* Index(repo) makes once: the paths and the texts, the inventory, the     *)
(* module index and what each import of each file brings in.               *)
(***************************************************************************)
EXTENDS PythonSource

(* A definition is named by its file and its record; two definitions may   *)
(* have the same node id, when a scope defines a name twice.               *)
FileNode(f)  == <<"file", f>>
NodeId(x)    == <<x.def.type, x.file, x.def.scope, x.def.name>>
InFile(f, D) == {[file |-> f, def |-> d] : d \in D}

Named(ix, f, name)   == InFile(f, {d \in ix.inv[f].defs : d.name = name})
Methods(ix, f, name) == {x \in Named(ix, f, name) : x.def.type = "method"}
AllNamed(ix, name)   == UNION {Named(ix, f, name) : f \in ix.parsed}
ClassFiles(ix, name) ==
    {f \in ix.parsed : \E x \in Named(ix, f, name) : x.def.type = "class"}

-----------------------------------------------------------------------------
(* Modules.                                                                *)

PackageDirs(repo) ==
    {Front(repo.path[f]) : f \in {g \in Parsed(repo) : IsInit(repo.path[g])}} \ {<<>>}

(* Directories that hold packages and are none; of two of them of which    *)
(* one holds the other, the shallower.                                     *)
PathRoots(repo) ==
    LET packages == PackageDirs(repo)
        raw      == {Front(p) : p \in packages} \ packages
    IN  {r \in raw : ~ \E o \in raw \ {<<>>} : IsStrictPrefix(o, r)}

(* The name a file has below a path root that is not the repository.       *)
AltNames(repo) ==
    {<<ModuleName(SubSeq(repo.path[x[2]], Len(x[1]) + 1, Len(repo.path[x[2]]))),
       x[2]>> :
     x \in {y \in (PathRoots(repo) \ {<<>>}) \X Parsed(repo) :
              IsStrictPrefix(y[1], repo.path[y[2]])}}
    \ {<<RootModule, f>> : f \in Parsed(repo)}

(* Module name to file: of two files with one name the last; an            *)
(* alternative name only if one file has it and no file has it as its own. *)
ModuleIndex(repo) ==
    LET own(m) == {f \in Parsed(repo) : ModuleName(repo.path[f]) = m}
        alt(m) == {x[2] : x \in {y \in AltNames(repo) : y[1] = m}}
        names  == {ModuleName(repo.path[f]) : f \in Parsed(repo)}
        extra  == {m \in {x[1] : x \in AltNames(repo)} \ names :
                     Cardinality(alt(m)) = 1}
    IN  [m \in names \cup extra |-> IF own(m) # {} THEN Max(own(m)) ELSE Max(alt(m))]

(* Not a module of the repository, and no other module of it begins so.    *)
ProbablyExternal(modules, m) ==
    /\ m # RootModule
    /\ Head(m) \notin {Head(n) : n \in DOMAIN modules \ {RootModule}}

(* Defect: a package is taken for a module of the package around it.       *)
PackagePartsOfModule(path) == Front(ModuleName(path))

PackageParts(path) ==
    IF ModuleName(path) = RootModule THEN <<>>
    ELSE IF IsInit(path) THEN ModuleName(path)
    ELSE Front(ModuleName(path))

(* "from ..x import": one level is the package of the file, each further   *)
(* one the package around it, and never further up than the root.          *)
ModuleReference(path, level, mod) ==
    LET package == PackageParts(path)
        up      == level - 1
        base    == IF up > Len(package) THEN <<>>
                   ELSE SubSeq(package, 1, Len(package) - up)
        whole   == IF level = 0 THEN mod ELSE base \o mod
    IN  IF whole = <<>> THEN RootModule ELSE whole

-----------------------------------------------------------------------------
(* What an import brings in: a module, the definitions of a name, or       *)
(* something from outside; and whether the file gets an edge to another.   *)
Nothing  == [kind |-> "none",            file |-> 0, targets |-> {}]
External == [kind |-> "external",        file |-> 0, targets |-> {}]
Module(f)       == [kind |-> "module",   file |-> f, targets |-> {}]
Symbol(targets) == [kind |-> "symbol",   file |-> 0, targets |-> targets]

NoFile == 0
Outcome(alias, edge, binds) == [alias |-> alias, edge |-> edge, binds |-> binds]

(* import a.b.c: the longest prefix that is a module of the repository;    *)
(* without "as" the name bound is the first part.                          *)
ImportOutcome(modules, n) ==
    LET known == {p \in Prefixes(n.mod) : p \in DOMAIN modules}
        alias == IF n.alias = NoName THEN Head(n.mod) ELSE n.alias
        file  == modules[CHOOSE p \in known : \A q \in known : Len(q) <= Len(p)]
    IN  IF known # {} THEN Outcome(alias, file, Module(file))
        ELSE IF ProbablyExternal(modules, n.mod)
             THEN Outcome(alias, NoFile, External)
        ELSE Outcome(alias, NoFile, Nothing)

(* from m import x: a definition in m, whatever its scope, before a module *)
(* of the package m.                                                       *)
FromOutcome(repo, inv, modules, f, n) ==
    LET m     == ModuleReference(repo.path[f], n.level, n.mod)
        alias == IF n.alias = NoName THEN n.name ELSE n.alias
        file  == modules[m]
        defs  == InFile(file, {d \in inv[file].defs : d.name = n.name})
        sub   == Append(m, n.name)
    IN  IF m \in DOMAIN modules
        THEN Outcome(alias, file,
               IF defs # {} THEN Symbol(defs)
               ELSE IF sub \in DOMAIN modules THEN Module(modules[sub])
               ELSE Nothing)
        ELSE Outcome(alias, NoFile,
               IF ProbablyExternal(modules, m) THEN External ELSE Nothing)

Index(repo) ==
    LET inv     == Inventory(repo)
        modules == ModuleIndex(repo)
        outcome(f, n) == IF n.kind = "import" THEN ImportOutcome(modules, n)
                         ELSE FromOutcome(repo, inv, modules, f, n)
    IN  [text    |-> repo.text,
         parsed  |-> Parsed(repo),
         inv     |-> inv,
         imports |-> [f \in Parsed(repo) |->
                        [i \in inv[f].imports |-> outcome(f, repo.text[f][i].node)]]]

(* The alias table of a file: the last import that binds the name counts,  *)
(* and one that brings in nothing binds nothing.                           *)
AliasOf(ix, f, name) ==
    LET binding == {i \in DOMAIN ix.imports[f] :
                      /\ ix.imports[f][i].alias = name
                      /\ ix.imports[f][i].binds.kind # "none"}
    IN  IF binding = {} THEN Nothing ELSE ix.imports[f][Max(binding)].binds

-----------------------------------------------------------------------------
(* _resolve_call_target: how a call was attributed, and to which           *)
(* definitions (one, or none).                                             *)
Attributed(x, how) == [to |-> {x}, how |-> how]
Missed(how)        == [to |-> {}, how |-> how]

(* The only definition there is, or none because there are several.        *)
OnlyOf(S, how, several) ==
    IF Cardinality(S) = 1 THEN Attributed(CHOOSE x \in S : TRUE, how)
    ELSE Missed(several)

(* f(): a definition of the file, whatever its scope, before an import,    *)
(* before the only definition of that name anywhere.                       *)
ResolveName(ix, f, name) ==
    LET here  == Named(ix, f, name)
        alias == AliasOf(ix, f, name)
        there == AllNamed(ix, name)
    IN  CASE here # {} -> OnlyOf(here, "local_symbol", "ambiguous_local_symbol")
          [] here = {} /\ alias.kind = "symbol" ->
               OnlyOf(alias.targets, "imported_symbol", "imported_symbol")
          [] here = {} /\ alias.kind \in {"module", "external"} -> Missed(alias.kind)
          [] here = {} /\ alias = Nothing /\ there # {} ->
               OnlyOf(there, "global_unique_symbol", "ambiguous_global_symbol")
          [] OTHER -> Missed("unresolved")

(* a.b.f(): by what a is.  In the file of a module, and in the file of the *)
(* call, the only method f; else what a itself stands for.                 *)
ResolveDotted(ix, f, name) ==
    LET alias == AliasOf(ix, f, Head(name))
        here  == Named(ix, f, Head(name))
        tail  == Last(name)
        method(g) == Methods(ix, g, tail)
        symbol(g) == Named(ix, g, tail)
    IN  CASE alias.kind = "module" ->
               IF Cardinality(method(alias.file)) = 1
               THEN OnlyOf(method(alias.file), "imported_module_method", "")
               ELSE OnlyOf(symbol(alias.file), "imported_module_symbol",
                           "external_or_unresolved_module_attr")
          [] alias.kind = "symbol" ->
               OnlyOf(alias.targets, "imported_symbol_attr_base", "imported_symbol")
          [] alias.kind \notin {"module", "symbol"} /\ here # {} ->
               IF Cardinality(here) = 1 /\ Cardinality(method(f)) = 1
               THEN OnlyOf(method(f), "same_file_method", "")
               ELSE OnlyOf(here, "same_file_symbol_base", "ambiguous_local_symbol")
          [] OTHER -> Missed("unresolved")

ResolveCall(ix, f, name) ==
    IF Head(name) \in Builtins THEN Missed("builtin")
    ELSE IF Len(name) = 1 THEN ResolveName(ix, f, Head(name))
    ELSE ResolveDotted(ix, f, name)

-----------------------------------------------------------------------------
(* The class of a variable, from the assignments and annotations.          *)

(* Places of a text in its order.                                          *)
Ordered(S) == CHOOSE s \in [1 .. Cardinality(S) -> S] :
                \A k, l \in DOMAIN s : k < l => s[k] < s[l]

(* What the assignments to a variable and the annotations of a parameter   *)
(* say in one scope, in the order they are read.                           *)
HintsIn(ix, f, scope, var) ==
    LET text == ix.text[f]
        body == Bodies(text)
        sets == {i \in Places(text, {"assign"}) :
                   text[i].node.target = <<var>> /\ body[text[i].up] = scope}
        typed(types) == {i \in Places(text, {"def"}) :
                           /\ body[i] = scope
                           /\ text[i].node.param = var
                           /\ text[i].node.type \in Capital
                           /\ TypeOfDef(text, i) \in types}
        said(i) == IF text[i].node.kind = "def" THEN <<"type", <<text[i].node.type>>>>
                   ELSE IF text[i].node.from = "call"
                        THEN <<"call", text[i].node.value>>
                        ELSE <<text[i].node.from, <<>>>>
        order == Ordered(sets)
                   \o Ordered(IF var = "self" THEN {} ELSE typed({"method"}))
                   \o Ordered(typed({"function", "nested_function"}))
    IN  [k \in DOMAIN order |-> said(order[k])]

(* Innermost scope first; a class body counts as a scope around its        *)
(* methods.                                                                *)
Hint(ix, f, scope, var) ==
    LET saying == {p \in Prefixes(scope) : HintsIn(ix, f, p, var) # <<>>}
    IN  IF saying = {} THEN <<>>
        ELSE HintsIn(ix, f, CHOOSE p \in saying : \A q \in saying : Len(q) <= Len(p),
                     var)

(* The first hint counts, even if the last one differs ("mixed"); if one   *)
(* before the last does, the merged hint names no class.                   *)
ClassOfHint(hint) ==
    IF /\ hint # <<>>
       /\ \A k \in 2 .. Len(hint) - 1 : hint[k] = hint[1]
       /\ Len(hint[1][2]) = 1 /\ hint[1][1] \in {"call", "type"}
       /\ Head(hint[1][2]) \in Capital
    THEN {Head(hint[1][2])} ELSE {}

(* Methods of that name in the files that define the class, whatever class *)
(* of the file they belong to.                                             *)
MethodsOfClass(ix, class, name) ==
    UNION {Methods(ix, f, name) : f \in ClassFiles(ix, class)}

ByHint(ix, f, scope, name) ==
    UNION {MethodsOfClass(ix, c, Last(name)) :
             c \in ClassOfHint(Hint(ix, f, scope, Head(name)))}

InnerClass(scope) ==
    LET classes == {k \in DOMAIN scope : scope[k][1] = "class"}
    IN  IF classes = {} THEN {} ELSE {scope[Max(classes)][2]}

(* The last, by file and by place, of some places.                         *)
LastOf(S) == CHOOSE x \in S : \A y \in S : y[1] < x[1] \/ (y[1] = x[1] /\ y[2] <= x[2])

(* The class a parameter of __init__ is annotated with, among all classes  *)
(* of that name.                                                           *)
InitParam(ix, class, param) ==
    LET inits == {x \in UNION {{f} \X DOMAIN ix.text[f] : f \in ix.parsed} :
                    LET n == ix.text[x[1]][x[2]].node IN
                    /\ n.kind = "def" /\ n.name = "__init__"
                    /\ TypeOfDef(ix.text[x[1]], x[2]) = "method"
                    /\ InnerClass(Bodies(ix.text[x[1]])[x[2]]) = {class}
                    /\ n.param = param /\ param # "self"
                    /\ n.type \in Capital /\ ClassFiles(ix, n.type) # {}}
    IN  IF inits = {} THEN {} ELSE {ix.text[LastOf(inits)[1]][LastOf(inits)[2]].node.type}

(* self.attr = Class(...), or self.attr = param, in an __init__.           *)
AssignedClass(ix, class, n) ==
    CASE n.from = "call" ->
           {c \in {Last(n.value)} : c \in Capital /\ ClassFiles(ix, c) # {}}
      [] n.from = "name" -> InitParam(ix, class, Head(n.value))
      [] OTHER -> {}

AttributeClass(ix, class, attr) ==
    LET sets == {x \in UNION {{f} \X DOMAIN ix.text[f] : f \in ix.parsed} :
                   LET text  == ix.text[x[1]]
                       n     == text[x[2]].node
                       scope == Bodies(text)[text[x[2]].up] IN
                   /\ n.kind = "assign" /\ n.target = <<"self", attr>>
                   /\ scope # <<>> /\ Last(scope) = <<"def", "__init__">>
                   /\ InnerClass(scope) = {class}
                   /\ AssignedClass(ix, class, n) # {}}
    IN  IF sets = {} THEN {}
        ELSE AssignedClass(ix, class, ix.text[LastOf(sets)[1]][LastOf(sets)[2]].node)

ByAttribute(ix, scope, name) ==
    IF Head(name) = "self" /\ Len(name) = 3
    THEN UNION {MethodsOfClass(ix, a, name[3]) :
                  a \in UNION {AttributeClass(ix, c, name[2]) : c \in InnerClass(scope)}}
    ELSE {}

-----------------------------------------------------------------------------
(* The node a call is made from: the innermost definition, a method before *)
(* a function of the same scope and name; the file at module level.        *)
SourceNode(ix, f, scope) ==
    LET here == {x \in InFile(f, ix.inv[f].defs) :
                   Append(x.def.scope,
                          <<IF x.def.type = "class" THEN "class" ELSE "def", x.def.name>>)
                     = scope}
        first == IF \E x \in here : x.def.type = "method"
                 THEN {x \in here : x.def.type = "method"} ELSE here
    IN  IF here = {} THEN FileNode(f) ELSE NodeId(CHOOSE x \in first : TRUE)

(* The category the dossier counts an unresolved call under; the methods   *)
(* of a variable about which something is known are one category here.     *)
Category(how, hint, name) ==
    CASE how = "imported_symbol" -> "ambiguous_imported_symbol"
      [] how \in {"ambiguous_local_symbol", "ambiguous_global_symbol"} -> how
      [] how \in {"unresolved", "module", "external_or_unresolved_module_attr"} ->
           IF hint # <<>> THEN "method_of_variable"
           ELSE IF Last(name) \in ContainerMethods THEN "container_or_object_method"
           ELSE IF how = "external_or_unresolved_module_attr"
                THEN "imported_module_attribute_call"
           ELSE IF Len(name) = 1 THEN "unresolved_internal_call"
           ELSE IF Head(name) \in Capital THEN "dotted_attribute_call"
           ELSE "attribute_call_on_variable"

(* How a call of file f ends: as an edge to one definition, as external or *)
(* as unresolved.                                                          *)
CallOutcome(ix, f, c) ==
    LET first   == ResolveCall(ix, f, c.name)
        hint    == Hint(ix, f, c.scope, Head(c.name))
        guess   == IF Len(c.name) > 1 THEN ByHint(ix, f, c.scope, c.name) ELSE {}
        attr    == ByAttribute(ix, c.scope, c.name)
        outside == first.how = "builtin" \/ AliasOf(ix, f, Head(c.name)) = External
    IN  CASE first.to # {} -> first
          [] first.to = {} /\ first.how # "builtin" /\ Cardinality(guess) = 1 ->
               OnlyOf(guess, "variable_hint", "")
          [] /\ first.to = {} /\ first.how # "builtin"
             /\ Cardinality(guess) # 1 /\ Cardinality(attr) = 1 ->
               OnlyOf(attr, "attribute_type", "")
          [] OTHER -> Missed(IF outside THEN "outside"
                             ELSE Category(first.how, hint, c.name))

Edge(type, from, to, file, at) ==
    [type |-> type, from |-> from, to |-> to, at |-> <<file, at>>]

(* Defect: a method is contained in a class of the scope it stands in.     *)
ContainsEdgesOfScope(ix, f) ==
    {Edge("contains",
          IF d.type = "method"
          THEN <<"class", f, d.scope, Last(d.scope)[2]>> ELSE FileNode(f),
          NodeId([file |-> f, def |-> d]), f, d.at) : d \in ix.inv[f].defs}

ContainsEdges(ix, f) ==
    {Edge("contains",
          IF d.type = "method"
          THEN <<"class", f, Front(d.scope), Last(d.scope)[2]>> ELSE FileNode(f),
          NodeId([file |-> f, def |-> d]), f, d.at) : d \in ix.inv[f].defs}

ImportEdges(ix, f) ==
    {Edge("imports", FileNode(f), FileNode(ix.imports[f][i].edge), f, i) :
       i \in {j \in DOMAIN ix.imports[f] : ix.imports[f][j].edge # NoFile}}

BuildRelationMap(repo) ==
    LET ix    == Index(repo)
        calls == UNION {{[file |-> f, call |-> c, end |-> CallOutcome(ix, f, c)] :
                           c \in ix.inv[f].calls} : f \in ix.parsed}
        names == UNION {{[file |-> f, at |-> i, end |-> ix.imports[f][i]] :
                           i \in DOMAIN ix.imports[f]} : f \in ix.parsed}
        place(x) == <<x.file, x.call.at>>
    IN  [nodes |-> {[id |-> FileNode(f), file |-> f, type |-> "file", name |-> NoName,
                     at |-> 0] : f \in ix.parsed}
                   \cup UNION {{[id |-> NodeId(x), file |-> f, type |-> x.def.type,
                                 name |-> x.def.name, at |-> x.def.at] :
                                x \in InFile(f, ix.inv[f].defs)} : f \in ix.parsed},
         edges |-> {Edge("calls", SourceNode(ix, x.file, x.call.scope),
                              NodeId(CHOOSE y \in x.end.to : TRUE), x.file, x.call.at) :
                         x \in {y \in calls : y.end.to # {}}}
                   \cup UNION {ContainsEdges(ix, f) \cup ImportEdges(ix, f) :
                                f \in ix.parsed},
         externalCalls   |-> {place(x) : x \in {y \in calls : y.end = Missed("outside")}},
         unresolvedCalls |-> {[at |-> place(x), category |-> x.end.how] :
                              x \in {y \in calls : y.end.to = {}
                                                  /\ y.end # Missed("outside")}},
         externalImports   |-> {<<x.file, x.at>> :
                                x \in {y \in names : y.end.binds = External}},
         unresolvedImports |-> {<<x.file, x.at>> :
                                x \in {y \in names : y.end.binds = Nothing}},
         roots |-> PathRoots(repo)]
=============================================================================
