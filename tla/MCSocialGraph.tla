--------------------------- MODULE MCSocialGraph ---------------------------
(* Instances of SocialGraph: who may call what.                              *)
EXTENDS SocialGraph, TLC

\* Both sides may ask; UserA also cancels, blocks and unblocks, UserB answers
\* and unfriends.
CrossingOps == {<<UserA, "send">>, <<UserA, "cancel">>, <<UserA, "block">>, <<UserA, "unblock">>,
                <<UserB, "send">>, <<UserB, "accept">>, <<UserB, "remove">>}

\* UserA blocks and unblocks while the two deal with requests.
BlockOps == {<<UserA, "send">>, <<UserA, "block">>, <<UserA, "unblock">>,
             <<UserB, "send">>, <<UserB, "accept">>, <<UserB, "remove">>}

\* Requests go one way: UserA asks, UserB answers, either one may unfriend.
OneWayOps == {<<UserA, "send">>, <<UserB, "accept">>, <<UserB, "decline">>,
              <<UserA, "remove">>, <<UserB, "remove">>}

Symmetry == Permutations(Proc)
=============================================================================
