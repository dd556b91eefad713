-------------------------- MODULE MCAgentWorkflows --------------------------
(* An instance of AgentWorkflows for TLC: two functions, a combination of  *)
(* both, one of that, one of one, one that contains itself, an id nobody   *)
(* provides, and a blueprint with two workflows.                           *)
EXTENDS AgentWorkflows, TLC
CONSTANTS f, g, both, outer, pair, loop, gone, h1, h2

Functions_  == {f, g}
Composites_ == {both, outer, pair, loop}
Gone        == {gone}
OrderOf == both :> <<g, f>> @@ outer :> <<f, both>> @@ pair :> <<f>> @@ loop :> <<loop>>
LogicOf == both :> "first" @@ outer :> "merge" @@ pair :> "collect" @@ loop :> "merge"
KeysOf  == f :> {"x", "y"} @@ g :> {"y"}
EditedTools  == {f, g}
OwnedAtStart == {f, both, outer, pair, loop}

TwoTargets == {1, 2}
OneTarget  == {1}

AllCodes   == {"", "base", "deep", "odd", "old"}
BlankCodes == {""}
OddCodes   == {"odd"}
(* "deep" reaches its tools as capability_registry["..."].                 *)
AttributesOf == "" :> {} @@ "base" :> {outer, pair} @@ "deep" :> {} @@ "odd" :> {} @@ "old" :> {}
CallsOf == "" :> <<>> @@ "base" :> <<outer, pair>> @@ "deep" :> <<loop>> @@ "odd" :> <<>> @@ "old" :> <<gone, f>>

FormsOf == {<<"C", "deep">>, <<"C", "base">>}
BlueprintOf  == [tools |-> <<[cap |-> g, scope |-> "global"]>>,
            folder |-> TRUE, eligible |-> TRUE,
            workflows |-> << [name |-> "A", code |-> "base", kind |-> "explicit", assigned |-> {}],
                             [name |-> "B", code |-> "", assigned |-> {"manual"}] >>]
PatchesOf == {"active" :> FALSE @@ "assigned" :> {"other"}, "code" :> "odd"}
OrdersOf  == {<<2, 1, 2>>}
TwoHandlers == {h1, h2}
OneHandler  == {h1}
Symmetry == Permutations(TwoHandlers)
=============================================================================
