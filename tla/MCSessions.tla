----------------------------- MODULE MCSessions -----------------------------
(* Instances of Sessions.                                                    *)
EXTENDS Sessions, TLC

CONSTANTS d1, d2

TwoDevices == {d1, d2}
OneDevice == {d1}

Computers == [d \in {d1, d2} |-> "pc"]
Computer == [d \in {d1} |-> "pc"]
Mixed == (d1 :> "pc") @@ (d2 :> "other")

AllOps == OpNames
ResetOps == {"login", "validate", "reset"}

Symmetry == Permutations(Proc)
=============================================================================
