------------------------- MODULE MCGroupMembership -------------------------
(* Instances of GroupMembership for TLC. *)
EXTENDS GroupMembership, TLC

CONSTANTS A, B, C

Users == {A, B, C}
OneFounder == {B}

Of(o, S, T) == {<<o, u, {v}>> : u \in S, v \in T}

\* Who is the administrator, who leaves, who is removed, who is added again (C
\* comes and goes, but hands nothing over and removes nobody else); one of them pins and unpins, and the administrator edits the description.
MemberOps ==
    Of("transfer", {A, B}, Users) \union Of("remove", {A, B}, Users) \union {<<"remove", C, {C}>>}
    \union Of("add", {A, B}, {C})
    \union Of("pin", {B}, {A}) \union Of("unpin", {B}, {A}) \union Of("describe", {A}, {A})

\* Requests, their reviews and withdrawals, and the switch of the group.
JoinOps ==
    {<<"join", C, {C}>>, <<"cancel", C, {C}>>, <<"remove", A, {C}>>, <<"remove", C, {C}>>,
     <<"invite", B, {A, C}>>, <<"dissolve", A, {A}>>}
    \union Of("approve", {A}, {C}) \union Of("reject", {A}, {C})
    \union Of("open", {A}, {A}) \union Of("close", {A}, {A}) \union Of("add", {A, B}, {C})

Symmetry == Permutations(Proc)
=============================================================================
