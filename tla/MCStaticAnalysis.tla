--------------------------- MODULE MCStaticAnalysis ---------------------------
(***************************************************************************)
(* Small repositories: one about imports, one about classes and variables, *)
(* one about chains of calls, and all sets of four files over a few        *)
(* directories.                                                            *)
(***************************************************************************)
EXTENDS StaticAnalysis

MCCapital    == {"Box", "Own"}
MCContainers == {"get"}
MCBuiltins   == {"print", "input"}
MCIgnored    == {"print"}
MCEntryNames == {"run"}

MCCallAbility ==
    (<<"print">> :> "can_emit_text_output") @@ (<<"input">> :> "can_accept_user_input")
    @@ (<<"asyncio", "sleep">> :> "can_schedule_tasks")
MCDecoratorAbility == "app.route" :> "can_register_route"
MCBaseAbility      == [Protocol |-> "can_define_interface"]
MCImportAbility    == [celery |-> "can_schedule_tasks"]
MCSideEffects      == {<<"print">>}

Plain(name)  == Def(name, NoName, NoName)
Top(node)    == At(0, node)

(* A package with a module f, a module below it, and a script.             *)
ImportsProject ==
    Project(<<<<"app">>, <<"pkg", "__init__">>, <<"pkg", "a">>, <<"pkg", "sub", "b">>>>,
            <<<<>>, <<>>, <<Top(Plain("f"))>>, <<>>>>,
            <<{From(0, <<"pkg">>, "f", NoName), From(0, <<"pkg">>, "a", NoName),
               From(0, <<"pkg", "a">>, "f", "g"), Import(<<"pkg", "a">>, "a"),
               Import(<<"os">>, NoName), Call(<<"f">>), Call(<<"g">>), Call(<<"a", "f">>),
               Call(<<"os", "f">>), Call(<<"print">>)},
              {From(1, <<"a">>, "f", NoName), From(1, <<"sub">>, "b", NoName),
               Plain("f"), Call(<<"f">>), Call(<<"b", "f">>)},
              {},
              {From(2, <<"a">>, "f", NoName), From(2, <<>>, "a", NoName),
               From(1, <<"a">>, "f", NoName), From(4, <<>>, "app", NoName),
               Plain("f"), Call(<<"f">>), Call(<<"a", "f">>)}>>,
            3, {3})

(* A package below a directory that is none, next to a second directory    *)
(* with a package of the same name in some of them.                        *)
RootsProject(second) ==
    Project(<<<<"lib", second, "__init__">>, <<"src", "pkg", "__init__">>,
              <<"src", "pkg", "a">>, <<"use">>>>,
            <<<<>>, <<>>, <<Top(Plain("f"))>>, <<>>>>,
            <<{Plain("f")}, {Plain("f"), From(1, <<"a">>, "f", NoName)},
              {Call(<<"f">>)},
              {From(0, <<"pkg">>, "f", NoName), From(0, <<"pkg", "a">>, "f", NoName),
               Import(<<"pkg", "b">>, NoName), Call(<<"f">>), Call(<<"pkg", "f">>)}>>,
            3, {2})

(* Two files with a class and a method each, and a third that uses them.   *)
ClassesProject ==
    Project(<<<<"box">>, <<"own">>, <<"use">>>>,
            <<<<Top(Class("Box")), At(1, Plain("get"))>>,
              <<Top(Class("Own"))>>,
              <<Top(From(0, <<"box">>, "Box", NoName))>>>>,
            <<{Call(<<"get">>)},
              {Plain("get"), Def("__init__", "box", "Box"),
               Assign(<<"self", "box">>, "name", <<"box">>),
               Assign(<<"self", "box">>, "call", <<"Box">>),
               Call(<<"self", "box", "get">>), Class("Box")},
              {Def("use", "x", "Box"), Assign(<<"x">>, "call", <<"Box">>),
               Assign(<<"x">>, "other", <<>>), Call(<<"x", "get">>),
               Call(<<"Box", "get">>), If(TRUE)}>>,
            3, {1})

(* Four functions in two directories, for chains and cycles of calls.      *)
FlowsProject ==
    Project(<<<<"main">>, <<"p", "f">>, <<"p", "g">>, <<"q", "h">>>>,
            <<<<Top(Plain("run"))>>, <<Top(Plain("f"))>>, <<Top(Plain("g"))>>,
              <<Top(Plain("h"))>>>>,
            <<{Call(<<"f">>), Call(<<"g">>), If(TRUE)},
              {Call(<<"g">>), Call(<<"h">>)},
              {Call(<<"f">>), Call(<<"h">>)},
              {Call(<<"run">>), Call(<<"f">>)}>>,
            3, {3})

(* Two functions of one name, a registry and what hints at abilities.      *)
MeaningProject ==
    Project(<<<<"app">>, <<"p", "f">>, <<"p", "g">>>>,
            <<<<Top(From(0, <<"p", "f">>, "f", NoName)),
                Top(From(0, <<"p", "g">>, "register", NoName)),
                Top(Plain("run")), At(3, Call(<<"f">>)), At(3, Call(<<"register">>))>>,
              <<Top(Plain("f")), At(1, Call(<<"input">>))>>,
              <<Top(From(0, <<"p", "f">>, "f", NoName)), Top(Plain("g")),
                At(2, Call(<<"print">>)), Top(Plain("register")),
                At(4, Call(<<"f">>)), At(4, Call(<<"os", "f">>)),
                At(4, Call(<<"os", "g">>))>>>>,
            <<{If(TRUE), Call(<<"print">>)},
              {Derived("E", "Protocol"), Plain("run"), Decorator("app.route"),
               From(0, <<"celery">>, "task", NoName)},
              {Call(<<"print">>), Call(<<"asyncio", "sleep">>), Plain("f"),
               Assign(<<"table", Key>>, "name", <<"g">>)}>>,
            3, {2})

(* Four files, each in one of these directories.                           *)
Directory == <<<<>>, <<"p">>, <<"p", "q">>, <<"p", "q", "r">>, <<"p", "s">>>>

TreeProjects ==
    {Project([i \in 1 .. 4 |-> Append(Directory[d[i]], <<"m1", "m2", "m3", "m4">>[i])],
             [i \in 1 .. 4 |-> <<>>], [i \in 1 .. 4 |-> {}], 0, {1}) :
       d \in {x \in [1 .. 4 -> DOMAIN Directory] : \A i \in 1 .. 3 : x[i] <= x[i + 1]}}

MCProjects ==
    {ImportsProject, ClassesProject, FlowsProject, MeaningProject,
     RootsProject("pkg"), RootsProject("other")} \cup TreeProjects
=============================================================================
