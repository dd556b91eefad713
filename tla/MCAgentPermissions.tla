------------------------ MODULE MCAgentPermissions ------------------------
(* Instances of AgentPermissions for TLC.                                  *)
EXTENDS AgentPermissions, TLC
CONSTANTS t1, t2, f1, f2, d1, h1, h2, k1

OneTool  == {t1}
TwoTools == {t1, t2}
OneFile  == {f1}
TwoFiles == {f1, f2}
OneFolder   == {d1}
OneHandler  == {h1}
TwoHandlers == {h1, h2}
OneChecker  == {k1}

NothingInside == [d \in {} |-> {}]
FileInFolder  == [d \in {d1} |-> {f1}]

AllOps     == Op
SyncOps    == {"assign", "enable", "grant", "direct", "scope"}
RevokeOps  == {"assign", "remove", "enable", "grant", "revoke", "update"}

Symmetry == Permutations(TwoTools) \cup Permutations(TwoHandlers)
ToolSymmetry    == Permutations(TwoTools)
HandlerSymmetry == Permutations(TwoHandlers)
=============================================================================
