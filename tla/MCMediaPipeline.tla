-------------------------- MODULE MCMediaPipeline --------------------------
(* Instances of MediaPipeline.                                               *)
EXTENDS MediaPipeline, TLC

CONSTANTS m1, m2

OneFile == {m1}
TwoFiles == {m1, m2}

AllOps == OpNames
=============================================================================
