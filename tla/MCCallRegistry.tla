-------------------------- MODULE MCCallRegistry --------------------------
(* CallRegistry for TLC: three users, the operations of each run.          *)
EXTENDS CallRegistry, TLC

CONSTANTS A, B, C

TwoUsers == {A, B}
ThreeUsers == {A, B, C}

\* Alice calls Bob; both may hang up, Bob may reject, the ringing timer and the
\* grace timer of a disconnect may fire.
EndOps == {<<"start", A, B>>, <<"hangup", A, B>>, <<"hangup", B, A>>,
           <<"reject", B, A>>, <<"timeout", A, B>>, <<"gone", A, B>>}

\* A call that is answered, dropped, resumed, and ended by its grace timer, a
\* user, a privacy change or a block.
TalkOps == {<<"start", A, B>>, <<"accept", B, A>>, <<"media", B, A>>, <<"drop", A, B>>,
            <<"return", A, B>>, <<"gone", A, B>>, <<"hangup", A, B>>, <<"hangup", B, A>>,
            <<"enforce", A, B>>, <<"block", A, B>>}

\* Bob hangs up late, when Alice already calls Carol.
LateOps == {<<"start", A, B>>, <<"start", A, C>>, <<"hangup", A, B>>, <<"hangup", B, A>>}

AcceptOps == {<<"start", A, B>>, <<"accept", B, A>>, <<"hangup", A, B>>}

Symmetry == Permutations(Proc)
=============================================================================
