--------------------------- MODULE MCRunLifecycle ---------------------------
(* Instances of RunLifecycle for TLC: agents and threads are model values. *)
EXTENDS RunLifecycle, TLC
CONSTANTS a1, c1, w1, w2

OneAgent   == {a1}
OneClient  == {c1}
OneWorker  == {w1}
TwoWorkers == {w1, w2}

AnyKind      == Kind
=============================================================================
