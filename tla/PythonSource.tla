---------------------------- MODULE PythonSource ----------------------------
(***************************************************************************)
(* A repository as the analysis reads it, and what the extractor records   *)
(* of each file (FileExtractor, an ast.NodeVisitor).                       *)
(*                                                                         *)
(* A file is a path and a text.  A path is a sequence of names, the last   *)
(* of which is the stem of the file.  A text is the syntax tree in source  *)
(* order: a sequence of nodes, each with the index of the node it is       *)
(* nested in (0: the module itself).                                       *)
(***************************************************************************)
EXTENDS Integers, SequencesExt

CONSTANTS
    Builtins,          \* names of Python's builtins
    Capital,           \* the names that begin with a capital letter
    ContainerMethods   \* names of methods that containers have

NoName == "-"
Key    == "[]"

(* The nodes of a syntax tree, by constructor.  A definition may annotate  *)
(* one parameter with a type; an import brings in one name per statement;  *)
(* a class has one base at most; x[key] = value has the target x, Key.  A  *)
(* decorator stands before its definition, in the scope around it.         *)
Def(name, param, type) ==
    [kind |-> "def", name |-> name, param |-> param, type |-> type]
Derived(name, base) == [kind |-> "class", name |-> name, base |-> base]
Class(name)   == Derived(name, NoName)
Decorator(name) == [kind |-> "decorator", name |-> name]
If(main)      == [kind |-> "if", main |-> main]
Call(called)   == [kind |-> "call", called |-> called]
Import(mod, alias) == [kind |-> "import", mod |-> mod, alias |-> alias]
From(level, mod, name, alias) ==
    [kind |-> "from", level |-> level, mod |-> mod, name |-> name,
     alias |-> alias]
Assign(target, from, value) ==
    [kind |-> "assign", target |-> target, from |-> from, value |-> value]

Node ==
    [kind : {"def"}, name : STRING, param : STRING, type : STRING]
    \cup [kind : {"class"}, name : STRING, base : STRING]
    \cup [kind : {"decorator"}, name : STRING]
    \cup [kind : {"if"}, main : BOOLEAN]
    \cup [kind : {"call"}, called : Seq(STRING) \ {<<>>}]
    \cup [kind : {"import"}, mod : Seq(STRING) \ {<<>>}, alias : STRING]
    \cup [kind : {"from"}, level : Nat, mod : Seq(STRING), name : STRING, alias : STRING]
    \cup [kind : {"assign"}, target : Seq(STRING), from : {"call", "name", "other"},
          value : Seq(STRING)]

(* A node in its place: after what it is nested in.                        *)
At(up, node) == [up |-> up, node |-> node]

IsText(text) ==
    /\ text \in Seq([up : Nat, node : Node])
    /\ \A i \in DOMAIN text : text[i].up < i

Files(repo)  == DOMAIN repo.path
Parsed(repo) == Files(repo) \ repo.broken

(* Source order: a node is nested in the last one, or in something that    *)
(* the last one is nested in.                                              *)
OpenAt(text) ==
    LET chain[i \in 0 .. Len(text)] ==
          IF i = 0 THEN {0} ELSE {i} \cup chain[text[i].up]
    IN  {i \in chain[Len(text)] :
           i = 0 \/ text[i].node.kind \in {"def", "class", "if"}}

-----------------------------------------------------------------------------
(* scope_stack: the definitions and classes around the body of a node.     *)
Bodies(text) ==
    LET body[i \in 0 .. Len(text)] ==
          IF i = 0 THEN <<>>
          ELSE IF text[i].node.kind \in {"def", "class"}
               THEN Append(body[text[i].up],
                           <<text[i].node.kind, text[i].node.name>>)
               ELSE body[text[i].up]
    IN  body

(* Nodes at these places in the text.                                      *)
Places(text, kinds) == {i \in DOMAIN text : text[i].node.kind \in kinds}

(* A definition directly in the body of a class is a method of it; one     *)
(* below an if of a class body is not, and counts as a nested function.    *)
TypeOfDef(text, i) ==
    LET up == text[i].up IN
    IF text[i].node.kind = "class" THEN "class"
    ELSE IF up # 0 /\ text[up].node.kind = "class" THEN "method"
    ELSE IF Bodies(text)[up] = <<>> THEN "function"
    ELSE "nested_function"

(* One record per definition, call, import and assignment of a file; an    *)
(* import is recorded for the file whatever function it stands in, and the *)
(* value of an assignment is visited for the call in it.                   *)
FileRecord(text) ==
    LET body == Bodies(text)
        scope(i) == body[text[i].up]
    IN  [defs    |-> {[at |-> i, type |-> TypeOfDef(text, i),
                       name |-> text[i].node.name, scope |-> scope(i)] :
                      i \in Places(text, {"def", "class"})},
         calls   |-> {[at |-> i, scope |-> scope(i), name |-> text[i].node.called] :
                      i \in Places(text, {"call"})}
                     \cup
                     {[at |-> i, scope |-> scope(i), name |-> text[i].node.value] :
                      i \in {j \in Places(text, {"assign"}) :
                               text[j].node.from = "call"}},
         imports |-> Places(text, {"import", "from"}),
         main    |-> \E i \in Places(text, {"if"}) :
                       text[i].node.main /\ scope(i) = <<>>,
         top     |-> \E i \in Places(text, {"import", "from", "if", "assign", "call"}) :
                       scope(i) = <<>>]

(* The inventory: every file, with a record if it parses.                  *)
NoRecord == [defs |-> {}, calls |-> {}, imports |-> {}, main |-> FALSE,
             top |-> FALSE]

Inventory(repo) ==
    [f \in Files(repo) |->
       IF f \in Parsed(repo) THEN FileRecord(repo.text[f]) ELSE NoRecord]

-----------------------------------------------------------------------------
(* Module names.                                                           *)
RootModule == <<"__root__">>

IsInit(path) == Last(path) = "__init__"

ModuleName(path) ==
    IF path = <<"__init__">> THEN RootModule
    ELSE IF IsInit(path) THEN Front(path)
    ELSE path
=============================================================================
