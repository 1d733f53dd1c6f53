----------------------------- MODULE MCQrLogin -----------------------------
(* Instances of QrLogin.                                                     *)
EXTENDS QrLogin, TLC

CONSTANTS u1, u2, c1, c2

TwoUsers == {u1, u2}
OneUser == {u1}
TwoCodes == {c1, c2}
OneCode == {c1}

AllOps == OpNames

\* u1 has used the browser of c1 before.
Known == {<<u1, c1>>}
AllKnown == {u1} \X {c1, c2}
Strange == {}

Symmetry == Permutations(Proc)
=============================================================================
