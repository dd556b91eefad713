------------------------ MODULE MCCapabilityCatalog ------------------------
(* Instances of CapabilityCatalog for TLC.                                 *)
EXTENDS CapabilityCatalog, TLC
CONSTANTS c1, c2, d1, d2, h1, h2, good, other, bare, broken

OneCap    == {c1}
TwoCaps   == {c1, c2}
OneDraft  == {d1}
TwoDrafts == {d1, d2}
OneHandler  == {h1}
TwoHandlers == {h1, h2}

(* broken cannot be installed; bare brings no source text; where just good *)
(* is valid, other can be installed but fails validate_capability.         *)
ThreeBodies   == {good, other, broken}
FourBodies    == {good, other, bare, broken}
GoodOther     == {good, other}
GoodOtherBare == {good, other, bare}
JustGood      == {good}

(* Releases that ship c1, and one that drops it.                           *)
OneRelease  == {[c \in TwoCaps |-> IF c = c1 THEN good ELSE NoBody]}
TwoReleases == {[c \in OneCap |-> good], [c \in OneCap |-> NoBody]}

AllOps  == Op

(* The intake validates and publishes in one call.                         *)
RaceOps == Op \ {"save", "validate"}

HandlerSymmetry == Permutations(TwoHandlers)
DraftSymmetry == Permutations(TwoDrafts)
=============================================================================
