--------------------------- MODULE MCDecisionPipeline ---------------------------
(* Small instances of DecisionPipeline.  Requests are interchangeable, which the *)
(* runs without liveness properties use.                                         *)
EXTENDS DecisionPipeline, TLC

Interchangeable == Permutations(Request)
================================================================================
