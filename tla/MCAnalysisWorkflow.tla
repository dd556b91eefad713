------------------------ MODULE MCAnalysisWorkflow ------------------------
(* Instances of AnalysisWorkflow for TLC.                                  *)
EXTENDS AnalysisWorkflow, TLC
CONSTANTS f1, f2

TwoFiles    == {f1, f2}
AllThenOne  == << TwoFiles, {f1} >>
OddRequests == {-1, 0}
UpsetsOf    == [k \in Kind |-> IF k = "base" THEN 2 ELSE 1]
=============================================================================
