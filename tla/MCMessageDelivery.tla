------------------------- MODULE MCMessageDelivery -------------------------
(* Instances of MessageDelivery: the members, their keys and their calls.   *)
EXTENDS MessageDelivery, TLC

CONSTANTS alice, bob, k1

OneKey == {k1}
AliceSends == (k1 :> alice)

\* alice, who is connected, writes, over her socket or by HTTP; bob comes, goes
\* and reads.
Chat == {<<alice, "send">>, <<alice, "post">>}
           \cup ({bob} \X {"seen", "connect", "disconnect"})

\* In a direct conversation, where receipts count, bob also acknowledges and
\* alice reports her own message as seen.
AliceToBob == [k \in Kinds |->
    IF k = "DIRECT" THEN Chat \cup {<<alice, "seen">>, <<bob, "delivered">>} ELSE Chat]

\* alice writes and bob reads on two devices.
TwoReaders == [k \in Kinds |-> {<<alice, "post">>, <<bob, "seen">>, <<bob, "connect">>}]

Connected == {alice}

\* The kinds differ only in what a delivery and a seen record.
DirectFaults == [k \in Kinds |-> IF k = "DIRECT" THEN 1 ELSE 0]

Symmetry == Permutations(Proc)
=============================================================================
