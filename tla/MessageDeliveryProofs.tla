----------------------- MODULE MessageDeliveryProofs -----------------------
(***************************************************************************)
(* Proofs about MessageDelivery for every set of handlers, members and     *)
(* keys and every bound: types, idempotent sends and receipts.             *)
(*                                                                         *)
(* OneRowPerKey says what the unique index of client_message_id gives:     *)
(* what a handler holds, what the cache names and what was answered is the *)
(* one committed row of the key.  EmittedFirst carries an emit over the    *)
(* awaits to the receipt; Addressed and Counted tie the receipts of a      *)
(* direct message to its sender, so that a receipt is counted when and     *)
(* only when it changes.                                                   *)
(***************************************************************************)
EXTENDS MessageDelivery, FiniteSetTheorems, TLAPS
-----------------------------------------------------------------------------
\* Row i is the committed message of key k.
Stored(i, k) == i \in Ids /\ row[i] = [key |-> k, state |-> "committed"]

\* The control points at which a handler holds a stored message.
Holding == {"setex", "event", "members", "deliver", "emit", "mark", "unread", "enqueue", "ack"}

\* The control points of a send, which has a key and, from its insert on, a row.
SendLabels == {"cached", "insert", "commit"} \cup Holding
SendKeys ==
    \A p \in Proc :
      /\ req[p].at \in SendLabels => req[p].key \in Keys
      /\ req[p].at \in Holding \cup {"commit"} => req[p].msg \in Ids

TypeInv == TypeOK /\ SendKeys

\* A key has one row, the sequence points past every row, and a handler whose
\* transaction is open is the only one to have its row.
OneRowPerKey ==
    /\ \A i, j \in Ids : /\ row[i].state # "free" /\ row[j].state # "free"
                         /\ row[i].key = row[j].key
                         => i = j
    /\ \A i \in Ids : i >= nextId => row[i] = Free
    /\ \A p \in Proc : req[p].at = "commit" =>
         row[req[p].msg] = [key |-> req[p].key, state |-> "open"]
    /\ \A p, q \in Proc : req[p].at = "commit" /\ req[q].at = "commit" /\ req[p].msg = req[q].msg => p = q

\* What handlers, cache and clients hold is stored.
HeldIsStored ==
    /\ \A p \in Proc : req[p].at \in Holding => Stored(req[p].msg, req[p].key)
    /\ \A k \in Keys : idem[k] # 0 => Stored(idem[k], k)
    /\ \A k \in Keys : \A i \in answered[k] : Stored(i, k)

KeyInv == TypeInv /\ OneRowPerKey /\ HeldIsStored
-----------------------------------------------------------------------------
(* Types.                                                                  *)

\* The steps that only move their handler to another control point, those of a
\* send ...
LEMMA SendMoves ==
  ASSUME NEW p \in Proc,
         \/ Commit(p) \/ Rollback(p) \/ SetIdempotency(p) \/ PublishSent(p) \/ Emit(p)
         \/ MarkOne(p) \/ IncrementUnread(p) \/ Enqueue(p) \/ Refuse(p) \/ Acknowledge(p)
  PROVE  \E l \in {"idle", "setex", "event", "ack", "members", "mark", "unread", "deliver"} :
           /\ Goto(p, l) /\ req[p].at \in SendLabels
           /\ l # "idle" => req[p].at \in Holding \cup {"commit"}
           /\ l = "mark" => Emit(p)
<1>1. CASE Commit(p) \/ Rollback(p) \/ SetIdempotency(p) \/ PublishSent(p) \/ Refuse(p)
  BY <1>1 DEF Commit, Rollback, SetIdempotency, PublishSent, Refuse, SendLabels, Holding
<1>2. CASE MarkOne(p) \/ IncrementUnread(p) \/ Enqueue(p) \/ Acknowledge(p)
  BY <1>2 DEF MarkOne, IncrementUnread, Enqueue, Acknowledge, SendLabels, Holding
<1>3. CASE Emit(p)
  <2>1. req[p].at = "emit" /\ (Goto(p, "mark") \/ Goto(p, "unread"))
    BY <1>3 DEF Emit
  <2> QED
    BY <1>3, <2>1 DEF SendLabels, Holding
<1> QED
  BY <1>1, <1>2, <1>3

\* ... and the others.
LEMMA OtherMoves ==
  ASSUME NEW p \in Proc,
         \/ MarkAcked(p) \/ MarkSeen(p) \/ MovePointer(p) \/ CountRange(p) \/ ResetUnread(p)
         \/ SetUserOnline(p) \/ SyncEmit(p) \/ SyncMark(p) \/ SyncClear(p)
         \/ RemoveDevice(p) \/ CountDevices(p) \/ SetUserOffline(p) \/ Throw(p)
  PROVE  \E l \in {"idle", "count", "reset", "syncread", "syncmark", "syncclear", "devices", "offline"} :
           /\ Goto(p, l)
           /\ l = "count" => MovePointer(p)
           /\ l = "syncmark" => SyncEmit(p)
<1>1. CASE MarkAcked(p) \/ MarkSeen(p) \/ MovePointer(p) \/ CountRange(p) \/ ResetUnread(p) \/ Throw(p)
  BY <1>1 DEF MarkAcked, MarkSeen, MovePointer, CountRange, ResetUnread, Throw
<1>2. CASE SetUserOnline(p) \/ SyncEmit(p) \/ SyncMark(p) \/ SyncClear(p)
  BY <1>2 DEF SetUserOnline, SyncEmit, SyncMark, SyncClear
<1>3. CASE RemoveDevice(p) \/ CountDevices(p) \/ SetUserOffline(p)
  BY <1>3 DEF RemoveDevice, CountDevices, SetUserOffline
<1> QED
  BY <1>1, <1>2, <1>3

\* There is a member, and a handler at rest is a request.
LEMMA IdleType == Idle \in Request
<1>1. (CHOOSE u \in Users : TRUE) \in Users
  BY UsersAssumption
<1> QED
  BY <1>1, BoundAssumption DEF Idle, Request, Labels, OpNames

\* Moving a handler to another control point keeps it a request.
LEMMA GotoType ==
  ASSUME NEW p \in Proc, NEW l \in Labels, req \in [Proc -> Request], Goto(p, l)
  PROVE  req' \in [Proc -> Request]
<1>1. [req[p] EXCEPT !.at = l] \in Request
  BY DEF Request
<1> QED
  BY <1>1, IdleType DEF Goto

\* The initial state has the types.
LEMMA InitType == Init => TypeOK
<1> SUFFICES ASSUME Init PROVE TypeOK
  OBVIOUS
<1>1. req \in [Proc -> Request]
  BY IdleType DEF Init
<1>2. row \in [Ids -> [key : Keys \cup {NULL}, state : {"free", "open", "committed"}]]
  BY DEF Init, Free
<1>3. /\ kind \in {"DIRECT", "GROUP"} /\ nextId \in 1..(MaxIds + 1)
      /\ lastRead \in [Users -> 0..MaxIds] /\ idem \in [Keys -> 0..MaxIds]
      /\ sends \in 0..MaxSends /\ faults \in Nat
  BY KindAssumption, BoundAssumption DEF Init
<1>4. entry \in [Ids -> [Users -> Entries]]
  BY DEF Init, Entries
<1> QED
  BY <1>1, <1>2, <1>3, <1>4 DEF Init, TypeOK

\* The receipt update keeps receipts and counters in their types.
LEMMA MarkType ==
  ASSUME NEW S, NEW u \in Users, MarkDelivered(S, u),
         entry \in [Ids -> [Users -> Entries]], delivered \in [Ids -> Nat]
  PROVE  entry' \in [Ids -> [Users -> Entries]] /\ delivered' \in [Ids -> Nat]
<1>1. \A e \in Entries : SetDelivered(e) \in Entries
  BY DEF SetDelivered, Entries
<1> QED
  BY <1>1 DEF MarkDelivered

\* Every call and every step of a handler leaves a request.
LEMMA RequestStep ==
  ASSUME TypeInv, NEW p \in Proc, Begin(p) \/ Step(p)
  PROVE  req' \in [Proc -> Request]
<1> USE DEF Labels
<1>0. req \in [Proc -> Request] /\ req[p] \in Request
  BY DEF TypeInv, TypeOK
<1>1. /\ req[p].me \in Users /\ req[p].ids \subseteq Ids /\ req[p].todo \subseteq Users
      /\ req[p].msg \in 0..MaxIds /\ req[p].key \in Keys \cup {NULL}
  BY <1>0 DEF Request
<1>2. ASSUME NEW o \in {"send", "post"}, NEW k \in Keys, BeginSend(p, o, k)
      PROVE  req' \in [Proc -> Request]
  <2>1. [Idle EXCEPT !.at = "cached", !.op = o, !.me = SenderOf[k], !.key = k] \in Request
    BY IdleType, SenderAssumption DEF Idle, Request, OpNames
  <2> QED
    BY <1>0, <1>2, <2>1 DEF BeginSend
<1>3. ASSUME NEW u \in Users, NEW S \in SUBSET Ids, NEW o \in OpNames, NEW l \in Labels,
             req' = [req EXCEPT ![p] = [Idle EXCEPT !.at = l, !.op = o, !.me = u, !.ids = S]]
      PROVE  req' \in [Proc -> Request]
  <2>1. [Idle EXCEPT !.at = l, !.op = o, !.me = u, !.ids = S] \in Request
    BY ZenonT(60), IdleType DEF Idle, Request
  <2> QED
    BY <1>0, <1>3, <2>1
<1>4. ASSUME NEW u \in Users, NEW o \in OpNames, NEW l \in Labels, Start(p, u, o, l)
      PROVE  req' \in [Proc -> Request]
  <2>1. [Idle EXCEPT !.at = l, !.op = o, !.me = u] \in Request
    BY ZenonT(60), IdleType DEF Idle, Request
  <2> QED
    BY <1>0, <1>4, <2>1 DEF Start
<1>5. CASE Begin(p)
  <2>1. ASSUME NEW u \in Users, NEW i \in Ids, BeginDelivered(p, u, i)
        PROVE  req' \in [Proc -> Request]
    <3>1. {i} \in SUBSET Ids
      OBVIOUS
    <3> QED
      BY <1>3, <2>1, <3>1 DEF BeginDelivered, OpNames
  <2>2. ASSUME NEW u \in Users, NEW S \in SUBSET Ids, BeginSeen(p, u, S)
        PROVE  req' \in [Proc -> Request]
    BY <1>3, <2>2 DEF BeginSeen, OpNames
  <2>3. ASSUME NEW u \in Users, BeginConnect(p, u) \/ BeginDisconnect(p, u)
        PROVE  req' \in [Proc -> Request]
    BY <1>4, <2>3 DEF BeginConnect, BeginDisconnect, OpNames
  <2> QED
    BY <1>2, <1>5, <2>1, <2>2, <2>3 DEF Begin
<1>6. CASE CheckIdempotency(p)
  <2> DEFINE l == IF idem[req[p].key] = 0 THEN "insert" ELSE IF req[p].op = "post" THEN "ack" ELSE "members"
  <2>1. idem[req[p].key] \in 0..MaxIds
    BY <1>6 DEF CheckIdempotency, TypeInv, SendKeys, SendLabels, TypeOK
  <2>2. [req[p] EXCEPT !.msg = idem[req[p].key], !.at = l] \in Request
    BY ZenonT(60), <1>0, <2>1 DEF Request
  <2> QED
    BY <1>0, <1>6, <2>2 DEF CheckIdempotency
<1>7. ASSUME NEW i \in Ids, NEW l \in Labels,
             req' = [req EXCEPT ![p] = [@ EXCEPT !.at = l, !.msg = i]]
      PROVE  req' \in [Proc -> Request]
  <2>1. i \in 0..MaxIds
    BY BoundAssumption DEF Ids
  <2>2. [req[p] EXCEPT !.at = l, !.msg = i] \in Request
    BY <1>0, <2>1 DEF Request
  <2> QED
    BY <1>0, <1>7, <2>2
<1>8. CASE Insert(p)
  <2>1. nextId <= MaxIds => nextId \in Ids
    BY DEF TypeInv, TypeOK, Ids
  <2> QED
    BY <1>7, <1>8, <2>1 DEF Insert, Committed
<1>9. CASE \/ Refuse(p) \/ Throw(p) \/ Commit(p) \/ Rollback(p) \/ SetIdempotency(p) \/ PublishSent(p)
           \/ Emit(p) \/ MarkOne(p) \/ IncrementUnread(p) \/ Enqueue(p) \/ Acknowledge(p)
           \/ MarkAcked(p) \/ MarkSeen(p) \/ MovePointer(p) \/ CountRange(p) \/ ResetUnread(p)
           \/ SetUserOnline(p) \/ SyncEmit(p) \/ SyncMark(p) \/ SyncClear(p)
           \/ RemoveDevice(p) \/ CountDevices(p) \/ SetUserOffline(p)
  <2>1. \E l \in Labels : Goto(p, l)
    BY <1>9, SendMoves, OtherMoves DEF Labels
  <2> QED
    BY <1>0, <2>1, GotoType
<1>10. CASE GetMembers(p)
  <2>1. [req[p] EXCEPT !.at = "deliver", !.todo = Users \ {req[p].me}] \in Request
    BY <1>0 DEF Request
  <2> QED
    BY <1>0, <1>10, <2>1 DEF GetMembers
<1>11. CASE CheckOnline(p)
  <2>1. ASSUME NEW u \in req[p].todo, NEW l \in {"emit", "enqueue"},
               req' = [req EXCEPT ![p] = [@ EXCEPT !.at = l, !.to = {u}, !.todo = req[p].todo \ {u}]]
        PROVE  req' \in [Proc -> Request]
    <3>1. [req[p] EXCEPT !.at = l, !.to = {u}, !.todo = req[p].todo \ {u}] \in Request
      BY <1>0, <1>1 DEF Request
    <3> QED
      BY <1>0, <2>1, <3>1
  <2> QED
    BY <1>0, <1>11, <2>1, GotoType DEF CheckOnline
<1>12. CASE ReadPointer(p)
  <2>1. lastRead[req[p].me] \in 0..MaxIds
    BY <1>1 DEF TypeInv, TypeOK
  <2>2. ASSUME NEW i \in req[p].ids, NEW l \in {"reset", "move"}
        PROVE  [req[p] EXCEPT !.prev = lastRead[req[p].me], !.msg = i, !.at = l] \in Request
    <3>1. i \in 0..MaxIds
      BY <1>1, BoundAssumption DEF Ids
    <3> QED
      BY <1>0, <2>1, <3>1 DEF Request
  <2> QED
    BY <1>0, <1>12, <2>2 DEF ReadPointer
<1>13. CASE SyncRead(p)
  <2>1. queue[req[p].me] \in SUBSET Ids
    BY <1>1 DEF TypeInv, TypeOK
  <2>2. [req[p] EXCEPT !.at = "syncemit", !.ids = queue[req[p].me]] \in Request
    BY <1>0, <2>1 DEF Request
  <2> QED
    BY <1>0, <1>13, <2>2, GotoType DEF SyncRead
<1> QED
  BY <1>5, <1>6, <1>8, <1>9, <1>10, <1>11, <1>12, <1>13 DEF Step

\* What a move to another control point leaves of the handlers.
LEMMA GotoFields ==
  ASSUME TypeOK, NEW p \in Proc, NEW l, Goto(p, l)
  PROVE  /\ \A q \in Proc \ {p} : req'[q] = req[q]
         /\ req'[p].at = l
         /\ l # "idle" => /\ req'[p].key = req[p].key /\ req'[p].msg = req[p].msg
                          /\ req'[p].me = req[p].me /\ req'[p].ids = req[p].ids
                          /\ req'[p].to = req[p].to /\ req'[p].todo = req[p].todo
<1>1. req \in [Proc -> Request] /\ req[p] \in Request
  BY DEF TypeOK
<1>2. [req[p] EXCEPT !.at = l] = [at |-> l, op |-> req[p].op, me |-> req[p].me, key |-> req[p].key,
        msg |-> req[p].msg, ids |-> req[p].ids, todo |-> req[p].todo, to |-> req[p].to, prev |-> req[p].prev]
  BY <1>1 DEF Request
<1>3. Idle.at = "idle"
  BY DEF Idle
<1> QED
  BY <1>1, <1>2, <1>3 DEF Goto

\* What the steps that change the locals of a handler leave of them.
LEMMA StepFields ==
  ASSUME TypeOK, NEW p \in Proc
  PROVE  /\ Begin(p) \/ Step(p) => \A q \in Proc \ {p} : req'[q] = req[q]
         /\ CheckIdempotency(p) =>
              /\ req'[p].at \in {"insert", "ack", "members"}
              /\ req'[p].at # "insert" => req'[p].msg # 0
              /\ req'[p].msg = idem[req[p].key]
              /\ req'[p].key = req[p].key /\ req'[p].me = req[p].me
              /\ req'[p].to = req[p].to /\ req'[p].todo = req[p].todo
         /\ Insert(p) => /\ req'[p].at \in {"setex", "commit"} /\ req'[p].key = req[p].key
                         /\ req'[p].me = req[p].me
                         /\ req'[p].to = req[p].to /\ req'[p].todo = req[p].todo
         /\ GetMembers(p) =>
              /\ req'[p].at = "deliver" /\ req'[p].key = req[p].key /\ req'[p].msg = req[p].msg
              /\ req'[p].me = req[p].me /\ req'[p].to = req[p].to /\ req'[p].todo = Users \ {req[p].me}
         /\ CheckOnline(p) =>
              /\ req'[p].at \in {"emit", "enqueue", "ack"} /\ req'[p].key = req[p].key
              /\ req'[p].msg = req[p].msg /\ req'[p].me = req[p].me
              /\ req'[p].to \subseteq req[p].to \cup req[p].todo /\ req'[p].todo \subseteq req[p].todo
         /\ ReadPointer(p) => req'[p].at \in {"reset", "move"}
         /\ SyncRead(p) => \/ req'[p].at = "idle"
                           \/ /\ req'[p].at = "syncemit" /\ req'[p].me = req[p].me
                              /\ req'[p].ids = queue[req[p].me]
<1>0. req \in [Proc -> Request] /\ req[p] \in Request
  BY DEF TypeOK
<1>1. ASSUME Begin(p) PROVE \A q \in Proc \ {p} : req'[q] = req[q]
  BY <1>0, <1>1 DEF Begin, BeginSend, BeginDelivered, BeginSeen, BeginConnect, BeginDisconnect, Start
<1>2. ASSUME Step(p) PROVE \A q \in Proc \ {p} : req'[q] = req[q]
  <2>1. ASSUME NEW l, Goto(p, l) PROVE \A q \in Proc \ {p} : req'[q] = req[q]
    BY <1>0, <2>1 DEF Goto
  <2> QED
    BY <1>0, <1>2, <2>1 DEF Step, CheckIdempotency, Refuse, Throw, Insert, Commit, Rollback, SetIdempotency,
       PublishSent, GetMembers, CheckOnline, Emit, MarkOne, IncrementUnread, Enqueue, Acknowledge,
       MarkAcked, MarkSeen, ReadPointer, MovePointer, CountRange, ResetUnread, SetUserOnline, SyncRead,
       SyncEmit, SyncMark, SyncClear, RemoveDevice, CountDevices, SetUserOffline
<1>3. ASSUME CheckIdempotency(p)
      PROVE  /\ req'[p].at \in {"insert", "ack", "members"}
             /\ req'[p].at # "insert" => req'[p].msg # 0
             /\ req'[p].msg = idem[req[p].key]
             /\ req'[p].key = req[p].key /\ req'[p].me = req[p].me
             /\ req'[p].to = req[p].to /\ req'[p].todo = req[p].todo
  BY <1>0, <1>3 DEF CheckIdempotency, Request
<1>4. ASSUME Insert(p)
      PROVE  /\ req'[p].at \in {"setex", "commit"} /\ req'[p].key = req[p].key
             /\ req'[p].me = req[p].me
             /\ req'[p].to = req[p].to /\ req'[p].todo = req[p].todo
  <2>1. ASSUME NEW i, NEW l \in {"setex", "commit"},
               req' = [req EXCEPT ![p] = [@ EXCEPT !.at = l, !.msg = i]]
        PROVE  /\ req'[p].at \in {"setex", "commit"} /\ req'[p].key = req[p].key
               /\ req'[p].me = req[p].me
               /\ req'[p].to = req[p].to /\ req'[p].todo = req[p].todo
    BY <1>0, <2>1 DEF Request
  <2> QED
    BY <1>4, <2>1 DEF Insert
<1>5. ASSUME GetMembers(p)
      PROVE  /\ req'[p].at = "deliver" /\ req'[p].key = req[p].key /\ req'[p].msg = req[p].msg
             /\ req'[p].me = req[p].me /\ req'[p].to = req[p].to /\ req'[p].todo = Users \ {req[p].me}
  BY <1>0, <1>5 DEF GetMembers, Request
<1>6. ASSUME CheckOnline(p)
      PROVE  /\ req'[p].at \in {"emit", "enqueue", "ack"} /\ req'[p].key = req[p].key
             /\ req'[p].msg = req[p].msg /\ req'[p].me = req[p].me
             /\ req'[p].to \subseteq req[p].to \cup req[p].todo /\ req'[p].todo \subseteq req[p].todo
  <2>1. CASE Goto(p, "ack")
    BY <2>1, GotoFields
  <2>2. ASSUME NEW u \in req[p].todo, NEW l \in {"emit", "enqueue"},
               req' = [req EXCEPT ![p] = [@ EXCEPT !.at = l, !.to = {u}, !.todo = req[p].todo \ {u}]]
        PROVE  /\ req'[p].at \in {"emit", "enqueue", "ack"} /\ req'[p].key = req[p].key
               /\ req'[p].msg = req[p].msg /\ req'[p].me = req[p].me
               /\ req'[p].to \subseteq req[p].to \cup req[p].todo /\ req'[p].todo \subseteq req[p].todo
    BY <1>0, <2>2 DEF Request
  <2> QED
    BY <1>6, <2>1, <2>2 DEF CheckOnline
<1>7. ASSUME ReadPointer(p) PROVE req'[p].at \in {"reset", "move"}
  BY <1>0, <1>7 DEF ReadPointer, Request
<1>8. ASSUME SyncRead(p)
      PROVE  \/ req'[p].at = "idle"
             \/ req'[p].at = "syncemit" /\ req'[p].me = req[p].me /\ req'[p].ids = queue[req[p].me]
  <2>1. CASE Goto(p, "idle")
    BY <2>1, GotoFields
  <2>2. CASE req' = [req EXCEPT ![p] = [@ EXCEPT !.at = "syncemit", !.ids = queue[req[p].me]]]
    BY <1>0, <2>2 DEF Request
  <2> QED
    BY <1>8, <2>1, <2>2 DEF SyncRead
<1> QED
  BY <1>1, <1>2, <1>3, <1>4, <1>5, <1>6, <1>7, <1>8

\* A handler at a step of a send keeps its key; only BeginSend starts one.
LEMMA SendKeysStep ==
  ASSUME TypeInv, NEW p \in Proc, Begin(p) \/ Step(p)
  PROVE  SendKeys'
<1> USE DEF SendKeys, SendLabels, Holding
<1> DEFINE OK == /\ req'[p].at \in SendLabels => req'[p].key \in Keys
                 /\ req'[p].at \in Holding \cup {"commit"} => req'[p].msg \in Ids
<1>0. /\ TypeOK /\ \A q \in Proc \ {p} : req'[q] = req[q]
      /\ req[p] \in Request /\ req \in [Proc -> Request]
  BY StepFields DEF TypeInv, TypeOK
<1>1. SUFFICES OK
  BY <1>0 DEF TypeInv
<1>2. ASSUME NEW l, Goto(p, l),
             \/ l \notin SendLabels
             \/ req[p].at \in Holding \cup {"commit"}
      PROVE  OK
  BY <1>0, <1>2, GotoFields DEF TypeInv
<1>3. CASE Begin(p)
  <2>1. ASSUME NEW o, NEW k \in Keys, BeginSend(p, o, k)
        PROVE  req'[p].key \in Keys /\ req'[p].at = "cached"
    BY <1>0, <2>1 DEF BeginSend, Idle, TypeOK
  <2>2. ASSUME NEW u, NEW i, BeginDelivered(p, u, i) PROVE req'[p].at \notin SendLabels
    BY <1>0, <2>2 DEF BeginDelivered, Idle, TypeOK
  <2>3. ASSUME NEW u, NEW S, BeginSeen(p, u, S) PROVE req'[p].at \notin SendLabels
    BY <1>0, <2>3 DEF BeginSeen, Idle, TypeOK
  <2>4. ASSUME NEW u, BeginConnect(p, u) \/ BeginDisconnect(p, u) PROVE req'[p].at \notin SendLabels
    <3>1. ASSUME NEW o, NEW l \in {"register", "remove"}, Start(p, u, o, l)
          PROVE  req'[p].at \notin SendLabels
      BY <1>0, <3>1 DEF Start, Idle, TypeOK
    <3> QED
      BY <2>4, <3>1 DEF BeginConnect, BeginDisconnect
  <2> QED
    BY <1>3, <2>1, <2>2, <2>3, <2>4 DEF Begin
<1>4. CASE \/ Refuse(p) \/ Throw(p) \/ Commit(p) \/ Rollback(p) \/ SetIdempotency(p) \/ PublishSent(p)
           \/ Emit(p) \/ MarkOne(p) \/ IncrementUnread(p) \/ Enqueue(p) \/ Acknowledge(p)
           \/ MarkAcked(p) \/ MarkSeen(p) \/ MovePointer(p) \/ CountRange(p) \/ ResetUnread(p)
           \/ SetUserOnline(p) \/ SyncEmit(p) \/ SyncMark(p) \/ SyncClear(p)
           \/ RemoveDevice(p) \/ CountDevices(p) \/ SetUserOffline(p)
  <2>1. \E l \in Labels : Goto(p, l) /\ (l \notin SendLabels \/ req[p].at \in Holding \cup {"commit"})
    BY <1>4, SendMoves, OtherMoves DEF Labels, SendLabels, Holding
  <2> QED
    BY <1>2, <2>1
<1>5. CASE CheckIdempotency(p) \/ Insert(p) \/ GetMembers(p) \/ CheckOnline(p)
  <2>1. req[p].at \in SendLabels /\ req[p].key \in Keys
    BY <1>5 DEF CheckIdempotency, Insert, GetMembers, CheckOnline, TypeInv
  <2>2. req'[p].key = req[p].key
    BY <1>0, <1>5, StepFields
  <2>3. CASE CheckIdempotency(p)
    <3>1. idem[req[p].key] # 0 => idem[req[p].key] \in Ids
      BY <1>0, <2>1, BoundAssumption DEF TypeOK, Ids
    <3> QED
      <4>1. /\ req'[p].at \in {"insert", "ack", "members"}
            /\ req'[p].at # "insert" => req'[p].msg # 0
            /\ req'[p].msg = idem[req[p].key]
        BY <1>0, <2>3, StepFields
      <4> QED
        BY <2>1, <2>2, <3>1, <4>1
  <2>4. CASE Insert(p)
    <3>1. ASSUME NEW i \in Ids, NEW l, req' = [req EXCEPT ![p] = [@ EXCEPT !.at = l, !.msg = i]]
          PROVE  req'[p].msg \in Ids
      BY <1>0, <3>1 DEF Request
    <3>2. nextId <= MaxIds => nextId \in Ids
      BY <1>0 DEF TypeOK, Ids
    <3>3. req'[p].msg \in Ids
      BY <2>4, <3>1, <3>2 DEF Insert, Committed
    <3> QED
      BY <2>1, <2>2, <3>3
  <2>5. CASE GetMembers(p) \/ CheckOnline(p)
    <3>1. req[p].msg \in Ids
      BY <2>5 DEF GetMembers, CheckOnline, TypeInv
    <3> QED
      BY <1>0, <2>1, <2>2, <2>5, <3>1, StepFields
  <2> QED
    BY <1>5, <2>3, <2>4, <2>5
<1>6. CASE ReadPointer(p) \/ SyncRead(p)
  BY <1>0, <1>6, StepFields
<1> QED
  BY <1>3, <1>4, <1>5, <1>6 DEF Step

\* Every step keeps every variable in its type.
LEMMA TypeStep == TypeInv /\ [Next]_vars => TypeInv'
<1> SUFFICES ASSUME TypeInv, [Next]_vars PROVE TypeInv'
  OBVIOUS
<1> USE DEF rowVars, tally, readVars, userVars, counters
<1>0. TypeOK
  BY DEF TypeInv
<1>1. ASSUME NEW p \in Proc, Begin(p) PROVE TypeOK'
  <2>1. req' \in [Proc -> Request]
    BY <1>1, RequestStep
  <2>2. ASSUME NEW o, NEW k \in Keys, BeginSend(p, o, k) PROVE TypeOK'
    <3>1. sends' \in 0..MaxSends
      BY <1>0, <2>2, BoundAssumption DEF BeginSend, TypeOK
    <3> QED
      BY <1>0, <2>1, <2>2, <3>1 DEF BeginSend, TypeOK
  <2>3. ASSUME NEW u \in Users, NEW i, BeginDelivered(p, u, i) PROVE TypeOK'
    BY <1>0, <2>1, <2>3 DEF BeginDelivered, TypeOK
  <2>4. ASSUME NEW u \in Users, NEW S, BeginSeen(p, u, S) PROVE TypeOK'
    BY <1>0, <2>1, <2>4 DEF BeginSeen, TypeOK
  <2>5. ASSUME NEW u \in Users, BeginConnect(p, u) \/ BeginDisconnect(p, u) PROVE TypeOK'
    <3>1. socks' \in [Users -> Nat]
      <4>1. socks \in [Users -> Nat] /\ socks[u] \in Nat
        BY <1>0 DEF TypeOK
      <4>2. socks' = [socks EXCEPT ![u] = @ + 1] \/ (socks[u] > 0 /\ socks' = [socks EXCEPT ![u] = @ - 1])
        BY <2>5 DEF BeginConnect, BeginDisconnect
      <4> QED
        BY <4>1, <4>2
    <3> QED
      BY <1>0, <2>1, <2>5, <3>1 DEF BeginConnect, BeginDisconnect, TypeOK
  <2> QED
    BY <1>1, <2>2, <2>3, <2>4, <2>5 DEF Begin
<1>2. ASSUME NEW p \in Proc, Step(p) PROVE TypeOK'
  <2>0. /\ req' \in [Proc -> Request] /\ req[p].me \in Users /\ req[p].key \in Keys \cup {NULL}
        /\ req[p].ids \subseteq Ids /\ req[p].to \subseteq Users /\ req[p].msg \in 0..MaxIds
    BY <1>0, <1>2, RequestStep DEF TypeOK, Request
  <2>1. CASE \/ CheckIdempotency(p) \/ Refuse(p) \/ Throw(p) \/ PublishSent(p) \/ GetMembers(p)
             \/ CheckOnline(p) \/ ReadPointer(p) \/ SyncRead(p) \/ CountDevices(p)
    <3>1. UNCHANGED faults \/ (faults < MaxFaults[kind] /\ faults' = faults + 1)
      BY <2>1 DEF CheckIdempotency, Refuse, Throw, PublishSent, GetMembers, CheckOnline, ReadPointer,
         SyncRead, CountDevices
    <3>2. faults \in Nat
      BY <1>0 DEF TypeOK
    <3>3. faults' \in Nat
      BY <3>1, <3>2, BoundAssumption
    <3> QED
      BY <1>0, <2>0, <2>1, <3>3 DEF CheckIdempotency, Refuse, Throw, PublishSent, GetMembers, CheckOnline,
         ReadPointer, SyncRead, CountDevices, TypeOK
  <2>2. CASE Insert(p)
    <3>1. req[p].key \in Keys
      BY <2>2 DEF Insert, TypeInv, SendKeys, SendLabels
    <3>2. \/ UNCHANGED <<row, nextId>>
          \/ /\ nextId <= MaxIds /\ nextId' = nextId + 1
             /\ row' = [row EXCEPT ![nextId] = [key |-> req[p].key, state |-> "open"]]
      BY <2>2 DEF Insert
    <3>3. row' \in [Ids -> [key : Keys \cup {NULL}, state : {"free", "open", "committed"}]]
      BY <1>0, <3>1, <3>2 DEF TypeOK
    <3>4. nextId' \in 1..(MaxIds + 1)
      BY <1>0, <3>2, BoundAssumption DEF TypeOK
    <3> QED
      BY <1>0, <2>0, <2>2, <3>3, <3>4 DEF Insert, TypeOK
  <2>3. CASE Commit(p)
    <3>1. [u \in Users |-> IF kind = "DIRECT" /\ u # req[p].me THEN "none" ELSE "absent"] \in [Users -> Entries]
      BY DEF Entries
    <3>2. entry' \in [Ids -> [Users -> Entries]]
      BY <1>0, <2>3, <3>1 DEF Commit, TypeOK
    <3>3. row' \in [Ids -> [key : Keys \cup {NULL}, state : {"free", "open", "committed"}]]
      BY ZenonT(60), <1>0, <2>3 DEF Commit, TypeOK
    <3> QED
      BY <1>0, <2>0, <2>3, <3>2, <3>3 DEF Commit, TypeOK
  <2>4. CASE Rollback(p)
    <3>1. row' \in [Ids -> [key : Keys \cup {NULL}, state : {"free", "open", "committed"}]]
      BY <1>0, <2>4 DEF Rollback, TypeOK, Free
    <3> QED
      BY <1>0, <2>0, <2>4, <3>1 DEF Rollback, TypeOK
  <2>5. CASE SetIdempotency(p)
    <3>1. idem' \in [Keys -> 0..MaxIds]
      BY <1>0, <2>0, <2>5 DEF SetIdempotency, TypeOK
    <3> QED
      BY <1>0, <2>0, <2>5, <3>1 DEF SetIdempotency, TypeOK
  <2>6. CASE Emit(p)
    <3>1. req[p].msg \in Ids
      BY <2>6 DEF Emit, TypeInv, SendKeys, Holding
    <3> QED
      BY <1>0, <2>0, <2>6, <3>1 DEF Emit, TypeOK
  <2>7. CASE MarkOne(p) \/ SyncMark(p) \/ MarkAcked(p)
    <3>1. /\ entry \in [Ids -> [Users -> Entries]] /\ delivered \in [Ids -> Nat]
      BY <1>0 DEF TypeOK
    <3>2. entry' \in [Ids -> [Users -> Entries]] /\ delivered' \in [Ids -> Nat]
      BY <2>0, <2>7, <3>1, MarkType DEF MarkOne, SyncMark, MarkAcked
    <3> QED
      BY <1>0, <2>0, <2>7, <3>2 DEF MarkOne, SyncMark, MarkAcked, TypeOK
  <2>8. CASE IncrementUnread(p) \/ ResetUnread(p)
    <3>1. unread' \in [Users -> Nat]
      <4>1. unread \in [Users -> Nat]
        BY <1>0 DEF TypeOK
      <4>2. CASE IncrementUnread(p)
        BY <4>1, <4>2 DEF IncrementUnread
      <4>3. CASE ResetUnread(p)
        BY <4>1, <4>3 DEF ResetUnread
      <4> QED
        BY <2>8, <4>2, <4>3
    <3> QED
      BY <1>0, <2>0, <2>8, <3>1 DEF IncrementUnread, ResetUnread, TypeOK
  <2>9. CASE Enqueue(p)
    <3>1. req[p].msg \in Ids
      BY <2>9 DEF Enqueue, TypeInv, SendKeys, Holding
    <3>2. queue' \in [Users -> SUBSET Ids]
      BY <1>0, <2>0, <2>9, <3>1 DEF Enqueue, TypeOK
    <3> QED
      BY <1>0, <2>0, <2>9, <3>2 DEF Enqueue, TypeOK
  <2>10. CASE Acknowledge(p)
    <3>1. req[p].msg \in Ids
      BY <2>10 DEF Acknowledge, TypeInv, SendKeys, Holding
    <3> QED
      BY <1>0, <2>0, <2>10, <3>1 DEF Acknowledge, TypeOK
  <2>11. CASE MarkSeen(p)
    <3>1. \A e \in Entries : SetSeen(e) \in Entries
      BY DEF SetSeen, Entries
    <3>2. entry' \in [Ids -> [Users -> Entries]]
      <4>1. entry \in [Ids -> [Users -> Entries]]
        BY <1>0 DEF TypeOK
      <4>2. \E hit : entry' = [i \in Ids |-> [entry[i] EXCEPT ![req[p].me] = IF i \in hit THEN SetSeen(@) ELSE @]]
        BY <2>11 DEF MarkSeen
      <4> QED
        BY <2>0, <3>1, <4>1, <4>2
    <3>3. seen' \in [Ids -> Nat] /\ delivered' \in [Ids -> Nat]
      <4>1. seen \in [Ids -> Nat] /\ delivered \in [Ids -> Nat]
        BY <1>0 DEF TypeOK
      <4>2. seen' \in [Ids -> Nat]
        BY <2>11, <4>1 DEF MarkSeen
      <4>3. delivered' \in [Ids -> Nat]
        BY <2>11, <4>1 DEF MarkSeen
      <4> QED
        BY <4>2, <4>3
    <3>4. own' \in [Ids -> Nat] /\ early' \in [Ids -> SUBSET Users]
      <4>1. own \in [Ids -> Nat] /\ early \in [Ids -> SUBSET Users]
        BY <1>0 DEF TypeOK
      <4>2. own' \in [Ids -> Nat]
        BY <2>11, <4>1 DEF MarkSeen
      <4>3. early' \in [Ids -> SUBSET Users]
        BY <2>0, <2>11, <4>1 DEF MarkSeen
      <4> QED
        BY <4>2, <4>3
    <3> QED
      BY <1>0, <2>0, <2>11, <3>2, <3>3, <3>4 DEF MarkSeen, TypeOK
  <2>12. CASE MovePointer(p)
    BY <1>0, <2>0, <2>12 DEF MovePointer, TypeOK
  <2>13. CASE CountRange(p)
    <3>1. seen' \in [Ids -> Nat]
      <4>1. seen \in [Ids -> Nat]
        BY <1>0 DEF TypeOK
      <4> QED
        BY <2>13, <4>1 DEF CountRange
    <3>2. UNCHANGED <<kind, row, nextId, entry, delivered, own, early, lastRead, unread, idem, queue,
                      socks, devices, online, sends, faults, answered, emitted>>
      BY <2>13 DEF CountRange
    <3> QED
      BY <1>0, <2>0, <3>1, <3>2 DEF TypeOK
  <2>14. CASE SyncEmit(p) \/ SyncClear(p)
    <3>1. CASE SyncEmit(p)
      <4>1. emitted' \in [Users -> SUBSET Ids]
        BY <1>0, <2>0, <3>1 DEF SyncEmit, TypeOK
      <4> QED
        BY <1>0, <2>0, <3>1, <4>1 DEF SyncEmit, TypeOK
    <3>2. CASE SyncClear(p)
      <4>1. queue' \in [Users -> SUBSET Ids]
        BY <1>0, <2>0, <3>2 DEF SyncClear, TypeOK
      <4> QED
        BY <1>0, <2>0, <3>2, <4>1 DEF SyncClear, TypeOK
    <3> QED
      BY <2>14, <3>1, <3>2
  <2>15. CASE SetUserOnline(p) \/ RemoveDevice(p) \/ SetUserOffline(p)
    <3>1. devices' \in [Users -> Nat] /\ online' \in [Users -> BOOLEAN]
      <4>0. devices \in [Users -> Nat] /\ devices[req[p].me] \in Nat
        BY <1>0, <2>0 DEF TypeOK
      <4>1. online \in [Users -> BOOLEAN]
        BY <1>0 DEF TypeOK
      <4>2. ASSUME SetUserOnline(p) PROVE devices' \in [Users -> Nat] /\ online' \in [Users -> BOOLEAN]
        <5>1. devices' \in [Users -> Nat]
          <6>1. devices' = [devices EXCEPT ![req[p].me] = @ + 1]
            BY <4>2 DEF SetUserOnline
          <6> QED
            BY <2>0, <4>0, <6>1
        <5>2. online' \in [Users -> BOOLEAN]
          BY <2>0, <4>1, <4>2 DEF SetUserOnline
        <5> QED
          BY <5>1, <5>2
      <4>3. ASSUME RemoveDevice(p) PROVE devices' \in [Users -> Nat] /\ online' \in [Users -> BOOLEAN]
        <5>1. devices' \in [Users -> Nat]
          <6>1. devices' = [devices EXCEPT ![req[p].me] = IF @ = 0 THEN 0 ELSE @ - 1]
            BY <4>3 DEF RemoveDevice
          <6> QED
            BY <2>0, <4>0, <6>1
        <5>2. online' \in [Users -> BOOLEAN]
          BY <2>0, <4>1, <4>3 DEF RemoveDevice
        <5> QED
          BY <5>1, <5>2
      <4>4. ASSUME SetUserOffline(p) PROVE devices' \in [Users -> Nat] /\ online' \in [Users -> BOOLEAN]
        <5>1. devices' \in [Users -> Nat]
          BY <4>0, <4>4 DEF SetUserOffline
        <5>2. online' \in [Users -> BOOLEAN]
          BY <2>0, <4>1, <4>4 DEF SetUserOffline
        <5> QED
          BY <5>1, <5>2
      <4> QED
        BY <2>15, <4>2, <4>3, <4>4
    <3> QED
      BY <1>0, <2>0, <2>15, <3>1 DEF SetUserOnline, RemoveDevice, SetUserOffline, TypeOK
  <2> QED
    BY <1>2, <2>1, <2>2, <2>3, <2>4, <2>5, <2>6, <2>7, <2>8, <2>9, <2>10, <2>11, <2>12, <2>13, <2>14,
       <2>15 DEF Step
<1>3. ASSUME NEW k \in Keys, KeyExpires(k) PROVE TypeOK'
  BY <1>0, <1>3, BoundAssumption DEF KeyExpires, TypeOK
<1>4. ASSUME NEW u \in Users, QueueExpires(u) \/ StatusExpires(u) PROVE TypeOK'
  BY <1>0, <1>4 DEF QueueExpires, StatusExpires, TypeOK
<1>5. ASSUME Crash PROVE TypeOK'
  <2>1. faults' \in Nat /\ req' \in [Proc -> Request]
    BY <1>0, <1>5, IdleType, BoundAssumption DEF Crash, TypeOK
  <2>2. row' \in [Ids -> [key : Keys \cup {NULL}, state : {"free", "open", "committed"}]]
    BY <1>0, <1>5 DEF Crash, TypeOK, Free
  <2> QED
    BY <1>0, <1>5, <2>1, <2>2 DEF Crash, TypeOK
<1>6. ASSUME UNCHANGED vars PROVE TypeOK'
  BY <1>0, <1>6 DEF vars, TypeOK
<1>7. TypeOK'
  BY <1>1, <1>2, <1>3, <1>4, <1>5, <1>6 DEF Next
<1>8. ASSUME NEW x, KeyExpires(x) \/ QueueExpires(x) \/ StatusExpires(x) PROVE SendKeys'
  BY <1>8 DEF KeyExpires, QueueExpires, StatusExpires, TypeInv, SendKeys
<1>9. ASSUME Crash PROVE SendKeys'
  BY <1>0, <1>9 DEF Crash, Idle, SendKeys, SendLabels, Holding
<1>10. ASSUME UNCHANGED vars PROVE SendKeys'
  BY <1>10 DEF vars, TypeInv, SendKeys
<1>11. SendKeys'
  BY <1>8, <1>9, <1>10, SendKeysStep DEF Next
<1> QED
  BY <1>7, <1>11 DEF TypeInv

\* Every variable keeps its type in every behaviour of the program.
THEOREM TypeCorrect == Spec => []TypeOK
<1>1. Init => TypeInv
  <2>1. Init => SendKeys
    BY DEF Init, Idle, SendKeys, SendLabels, Holding
  <2> QED
    BY <2>1, InitType DEF TypeInv
<1>2. TypeInv => TypeOK
  BY DEF TypeInv
<1> QED
  BY <1>1, <1>2, TypeStep, PTL DEF Spec
-----------------------------------------------------------------------------
(* One row per key.                                                        *)

\* A step that leaves the rows alone, opens no transaction and holds, caches
\* and answers only what is stored keeps the invariant.
LEMMA KeyFrame ==
  ASSUME KeyInv, TypeInv', NEW p \in Proc,
         \A q \in Proc \ {p} : req'[q] = req[q],
         UNCHANGED <<row, nextId>>,
         req'[p].at # "commit",
         req'[p].at \in Holding => Stored(req'[p].msg, req'[p].key),
         \A k \in Keys : idem'[k] # 0 => Stored(idem'[k], k),
         \A k \in Keys : \A i \in answered'[k] : Stored(i, k)
  PROVE  KeyInv'
<1>1. \A i, k : Stored(i, k)' <=> Stored(i, k)
  BY DEF Stored
<1>2. OneRowPerKey'
  BY DEF KeyInv, OneRowPerKey
<1>3. HeldIsStored'
  BY <1>1 DEF KeyInv, HeldIsStored, Stored
<1> QED
  BY <1>2, <1>3 DEF KeyInv

\* The handler, the cache and the answers after a move within the delivery.
LEMMA KeyGoto ==
  ASSUME KeyInv, TypeInv', NEW p \in Proc, NEW l, Goto(p, l),
         l # "commit", l \in Holding => req[p].at \in Holding,
         UNCHANGED <<row, nextId>>,
         \A k \in Keys : idem'[k] # 0 => Stored(idem'[k], k),
         \A k \in Keys : \A i \in answered'[k] : Stored(i, k)
  PROVE  KeyInv'
<1>1. TypeOK
  BY DEF KeyInv, TypeInv
<1>2. \A q \in Proc \ {p} : req'[q] = req[q]
  BY <1>1, GotoFields
<1>3. req'[p].at = l
  BY <1>1, GotoFields
<1>4. l \in Holding => Stored(req'[p].msg, req'[p].key)
  <2>1. "idle" \notin Holding
    BY DEF Holding
  <2>2. req[p].at \in Holding => Stored(req[p].msg, req[p].key)
    BY DEF KeyInv, HeldIsStored
  <2> QED
    BY <1>1, <2>1, <2>2, GotoFields
<1> QED
  BY <1>2, <1>3, <1>4, KeyFrame

\* The insert of a row: the unique index lets it in only when no open or
\* committed row has the key; else it answers with the committed one.
LEMMA KeyInsert == ASSUME KeyInv, TypeInv', NEW p \in Proc, Insert(p) PROVE KeyInv'
<1>0. TypeOK /\ TypeInv /\ OneRowPerKey /\ HeldIsStored
      /\ req \in [Proc -> Request] /\ req[p] \in Request /\ req[p].key \in Keys
  BY DEF KeyInv, TypeInv, TypeOK, Insert, SendKeys, SendLabels
<1>1. \A q \in Proc \ {p} : req'[q] = req[q]
  BY <1>0, StepFields DEF Step
<1>2. UNCHANGED <<idem, answered>>
  BY DEF Insert
<1>3. CASE \E i \in Committed : /\ row[i].key = req[p].key
                               /\ req' = [req EXCEPT ![p] = [@ EXCEPT !.at = "setex", !.msg = i]]
                               /\ UNCHANGED <<row, nextId>>
  <2> PICK i \in Committed : /\ row[i].key = req[p].key
                            /\ req' = [req EXCEPT ![p] = [@ EXCEPT !.at = "setex", !.msg = i]]
                            /\ UNCHANGED <<row, nextId>>
    BY <1>3
  <2>1. req'[p].at = "setex" /\ req'[p].msg = i /\ req'[p].key = req[p].key
    BY <1>0 DEF Request
  <2>2. Stored(i, req[p].key)
    BY <1>0 DEF Committed, Stored, TypeOK
  <2> QED
    BY <1>0, <1>1, <1>2, <2>1, <2>2, KeyFrame DEF HeldIsStored
<1>4. CASE /\ {i \in Committed : row[i].key = req[p].key} = {} /\ nextId <= MaxIds
           /\ row' = [row EXCEPT ![nextId] = [key |-> req[p].key, state |-> "open"]]
           /\ nextId' = nextId + 1
           /\ req' = [req EXCEPT ![p] = [@ EXCEPT !.at = "commit", !.msg = nextId]]
  <2>1. nextId \in Ids /\ nextId \in Nat
    BY <1>0, <1>4 DEF TypeOK, Ids
  <2>2. req'[p].at = "commit" /\ req'[p].msg = nextId /\ req'[p].key = req[p].key
    BY <1>0, <1>4 DEF Request
  <2>3. row[nextId].state = "free"
    BY <1>0, <2>1 DEF OneRowPerKey, Free
  <2>4. \A i \in Ids : row[i].state # "free" => row[i].key # req[p].key
    <3> SUFFICES ASSUME NEW i \in Ids, row[i].state # "free", row[i].key = req[p].key PROVE FALSE
      OBVIOUS
    <3>1. row[i] \in [key : Keys \cup {NULL}, state : {"free", "open", "committed"}]
      BY <1>0 DEF TypeOK
    <3>2. row[i].state # "committed"
      BY <1>4 DEF Committed
    <3>3. row[i] = [key |-> req[p].key, state |-> "open"]
      BY <3>1, <3>2
    <3> QED
      BY <3>3 DEF Insert
  <2>5. /\ row'[nextId] = [key |-> req[p].key, state |-> "open"]
        /\ \A i \in Ids \ {nextId} : row'[i] = row[i]
    BY <1>0, <1>4, <2>1 DEF TypeOK
  <2>6. \A i, k : Stored(i, k) => Stored(i, k)'
    BY <2>3, <2>5 DEF Stored
  <2>7. HeldIsStored'
    BY <1>0, <1>1, <1>2, <2>2, <2>6 DEF HeldIsStored, Holding
  <2>8. \A q \in Proc \ {p} : req[q].at = "commit" => req[q].msg # nextId /\ req[q].msg \in Ids
    <3>1. \A q \in Proc : req[q].at = "commit" => req[q].msg \in Ids /\ row[req[q].msg].state = "open"
      <4> SUFFICES ASSUME NEW q \in Proc, req[q].at = "commit"
                   PROVE  req[q].msg \in Ids /\ row[req[q].msg].state = "open"
        OBVIOUS
      <4>1. row[req[q].msg] = [key |-> req[q].key, state |-> "open"]
        BY <1>0 DEF OneRowPerKey
      <4>2. req[q].msg \in Ids
        BY <1>0 DEF TypeInv, SendKeys
      <4> QED
        BY <4>1, <4>2
    <3> QED
      BY <2>3, <3>1
  <2>9. OneRowPerKey'
    <3>1. \A i, j \in Ids : /\ row'[i].state # "free" /\ row'[j].state # "free"
                            /\ row'[i].key = row'[j].key
                            => i = j
      BY <1>0, <2>4, <2>5 DEF OneRowPerKey
    <3>2. \A i \in Ids : i >= nextId' => row'[i] = Free
      BY <1>0, <1>4, <2>1, <2>5 DEF OneRowPerKey, Ids
    <3>3. \A q \in Proc : req'[q].at = "commit" =>
            row'[req'[q].msg] = [key |-> req'[q].key, state |-> "open"]
      BY <1>0, <1>1, <2>2, <2>5, <2>8 DEF OneRowPerKey
    <3>4. \A q, r \in Proc : req'[q].at = "commit" /\ req'[r].at = "commit" /\ req'[q].msg = req'[r].msg
                             => q = r
      BY <1>0, <1>1, <2>2, <2>8 DEF OneRowPerKey
    <3> QED
      BY <3>1, <3>2, <3>3, <3>4 DEF OneRowPerKey
  <2> QED
    BY <2>7, <2>9 DEF KeyInv
<1> QED
  BY <1>3, <1>4 DEF Insert

\* The end of a transaction, either way, is seen by no row but its own.
LEMMA KeyEnd == ASSUME KeyInv, TypeInv', NEW p \in Proc, Commit(p) \/ Rollback(p) PROVE KeyInv'
<1> DEFINE i == req[p].msg
<1>0. TypeOK /\ TypeInv /\ OneRowPerKey /\ HeldIsStored
  BY DEF KeyInv, TypeInv
<1>1. /\ i \in Ids /\ row[i] = [key |-> req[p].key, state |-> "open"]
      /\ \A q \in Proc \ {p} : req[q].at = "commit" => req[q].msg # i
  BY <1>0 DEF Commit, Rollback, OneRowPerKey, TypeInv, SendKeys
<1>2. /\ row'[i] = [key |-> req[p].key, state |-> "committed"] \/ row'[i] = Free
      /\ Commit(p) => row'[i] = [key |-> req[p].key, state |-> "committed"]
      /\ \A j \in Ids \ {i} : row'[j] = row[j]
  BY <1>0, <1>1 DEF Commit, Rollback, TypeOK
<1>3. UNCHANGED <<idem, answered, nextId>>
  BY DEF Commit, Rollback
<1>4. /\ \A q \in Proc \ {p} : req'[q] = req[q]
      /\ \/ req'[p].at = "idle"
         \/ Commit(p) /\ req'[p].at = "setex" /\ req'[p].msg = i /\ req'[p].key = req[p].key
  <2>1. CASE Commit(p)
    BY <1>0, <2>1, GotoFields DEF Commit
  <2>2. CASE Rollback(p)
    BY <1>0, <2>2, GotoFields DEF Rollback
  <2> QED
    BY <2>1, <2>2
<1>5. \A j, k : Stored(j, k) => Stored(j, k)'
  BY <1>1, <1>2 DEF Stored
<1>7. HeldIsStored'
  <2>1. ASSUME NEW q \in Proc, req'[q].at \in Holding PROVE Stored(req[q].msg, req[q].key)'
    <3>1. CASE q = p
      BY <1>1, <1>2, <1>4, <2>1, <3>1 DEF Stored, Holding
    <3>2. CASE q # p
      BY <1>0, <1>4, <1>5, <2>1, <3>2 DEF HeldIsStored
    <3> QED
      BY <3>1, <3>2
  <2> QED
    BY <1>0, <1>3, <1>5, <2>1 DEF HeldIsStored
<1>8. OneRowPerKey'
  <2>1. \A j, k \in Ids : /\ row'[j].state # "free" /\ row'[k].state # "free"
                          /\ row'[j].key = row'[k].key
                          => j = k
    <3>1. \A j \in Ids : row'[j].state # "free" => row[j].state # "free" /\ row'[j].key = row[j].key
      BY <1>1, <1>2 DEF Free
    <3> QED
      BY <1>0, <3>1 DEF OneRowPerKey
  <2>2. \A j \in Ids : j >= nextId' => row'[j] = Free
    <3>1. ~(i >= nextId)
      BY <1>0, <1>1 DEF OneRowPerKey, Free
    <3> QED
      BY <1>0, <1>2, <1>3, <3>1 DEF OneRowPerKey
  <2>3. \A q \in Proc : req'[q].at = "commit" =>
          row'[req'[q].msg] = [key |-> req'[q].key, state |-> "open"]
    <3>1. \A q \in Proc : req[q].at = "commit" => req[q].msg \in Ids
      BY <1>0 DEF TypeInv, SendKeys
    <3> QED
      BY <1>0, <1>1, <1>2, <1>4, <3>1 DEF OneRowPerKey
  <2>4. \A q, r \in Proc : req'[q].at = "commit" /\ req'[r].at = "commit" /\ req'[q].msg = req'[r].msg
                           => q = r
    BY <1>0, <1>4 DEF OneRowPerKey
  <2> QED
    BY <2>1, <2>2, <2>3, <2>4 DEF OneRowPerKey
<1> QED
  BY <1>7, <1>8 DEF KeyInv

\* Every step keeps one row per key.
LEMMA KeyStep == KeyInv /\ [Next]_vars => KeyInv'
<1> SUFFICES ASSUME KeyInv, [Next]_vars PROVE KeyInv'
  OBVIOUS
<1> USE DEF rowVars, tally, readVars, userVars, counters
<1>0. TypeOK /\ TypeInv' /\ OneRowPerKey /\ HeldIsStored
  BY TypeStep DEF KeyInv, TypeInv
<1>1. ASSUME NEW p \in Proc, Begin(p) PROVE KeyInv'
  <2>1. UNCHANGED <<row, nextId, idem, answered>>
    BY <1>1 DEF Begin, BeginSend, BeginDelivered, BeginSeen, BeginConnect, BeginDisconnect
  <2>2. req'[p].at \notin Holding \cup {"commit"}
    <3>1. ASSUME NEW u, NEW o, NEW l \in {"register", "remove"}, Start(p, u, o, l)
          PROVE  req'[p].at = l
      BY <1>0, <3>1 DEF Start, Idle, TypeOK
    <3>2. ASSUME NEW o, NEW k, BeginSend(p, o, k) PROVE req'[p].at = "cached"
      BY <1>0, <3>2 DEF BeginSend, Idle, TypeOK
    <3>3. ASSUME NEW u, NEW i, BeginDelivered(p, u, i) PROVE req'[p].at = "acked"
      BY <1>0, <3>3 DEF BeginDelivered, Idle, TypeOK
    <3>4. ASSUME NEW u, NEW S, BeginSeen(p, u, S) PROVE req'[p].at = "seen"
      BY <1>0, <3>4 DEF BeginSeen, Idle, TypeOK
    <3> QED
      BY <1>1, <3>1, <3>2, <3>3, <3>4 DEF Begin, BeginConnect, BeginDisconnect, Holding
  <2>3. \A q \in Proc \ {p} : req'[q] = req[q]
    BY <1>0, <1>1, StepFields
  <2> QED
    BY <1>0, <2>1, <2>2, <2>3, KeyFrame DEF HeldIsStored
<1>2. ASSUME NEW p \in Proc,
             \/ Refuse(p) \/ Throw(p) \/ PublishSent(p) \/ Emit(p) \/ MarkOne(p) \/ IncrementUnread(p) \/ Enqueue(p)
             \/ MarkAcked(p) \/ MarkSeen(p) \/ MovePointer(p) \/ CountRange(p) \/ ResetUnread(p)
             \/ SetUserOnline(p) \/ SyncEmit(p) \/ SyncMark(p) \/ SyncClear(p)
             \/ RemoveDevice(p) \/ CountDevices(p) \/ SetUserOffline(p)
      PROVE  KeyInv'
  <2>1. UNCHANGED <<row, nextId, idem, answered>>
    BY <1>2 DEF Refuse, Throw, PublishSent, Emit, MarkOne, IncrementUnread, Enqueue, MarkAcked, MarkSeen,
       MovePointer, CountRange, ResetUnread, SetUserOnline, SyncEmit, SyncMark, SyncClear, RemoveDevice,
       CountDevices, SetUserOffline
  <2>2. \E l : Goto(p, l) /\ l # "commit" /\ (l \in Holding => req[p].at \in Holding)
    <3>1. CASE Refuse(p) \/ PublishSent(p) \/ Emit(p) \/ MarkOne(p) \/ IncrementUnread(p) \/ Enqueue(p)
      <4>1. req[p].at # "commit"
        BY <3>1 DEF Refuse, PublishSent, Emit, MarkOne, IncrementUnread, Enqueue
      <4> QED
        BY <3>1, <4>1, SendMoves DEF Holding
    <3>2. CASE ~(Refuse(p) \/ PublishSent(p) \/ Emit(p) \/ MarkOne(p) \/ IncrementUnread(p) \/ Enqueue(p))
      BY <1>2, <3>2, OtherMoves DEF Holding
    <3> QED
      BY <3>1, <3>2
  <2> QED
    BY <1>0, <2>1, <2>2, KeyGoto DEF HeldIsStored
<1>3. ASSUME NEW p \in Proc, SetIdempotency(p) \/ Acknowledge(p) PROVE KeyInv'
  <2>0. Stored(req[p].msg, req[p].key) /\ req[p].key \in Keys
    BY <1>0, <1>3 DEF SetIdempotency, Acknowledge, HeldIsStored, Holding, KeyInv, TypeInv, SendKeys, SendLabels
  <2>1. \A k \in Keys : idem'[k] # 0 => Stored(idem'[k], k)
    BY <1>0, <1>3, <2>0 DEF SetIdempotency, Acknowledge, HeldIsStored, TypeOK
  <2>2. \A k \in Keys : \A i \in answered'[k] : Stored(i, k)
    BY <1>0, <1>3, <2>0 DEF SetIdempotency, Acknowledge, HeldIsStored, TypeOK
  <2>3. UNCHANGED <<row, nextId>>
    BY <1>3 DEF SetIdempotency, Acknowledge
  <2>4. \E l : Goto(p, l) /\ l # "commit" /\ (l \in Holding => req[p].at \in Holding)
    BY <1>3 DEF SetIdempotency, Acknowledge, Holding
  <2> QED
    BY <1>0, <2>1, <2>2, <2>3, <2>4, KeyGoto
<1>4. ASSUME NEW p \in Proc,
             CheckIdempotency(p) \/ GetMembers(p) \/ CheckOnline(p) \/ ReadPointer(p) \/ SyncRead(p)
      PROVE  KeyInv'
  <2>1. UNCHANGED <<row, nextId, idem, answered>>
    BY <1>4 DEF CheckIdempotency, GetMembers, CheckOnline, ReadPointer, SyncRead
  <2>2. \A q \in Proc \ {p} : req'[q] = req[q]
    BY <1>0, <1>4, StepFields DEF Step
  <2>3. req'[p].at # "commit" /\ (req'[p].at \in Holding => Stored(req'[p].msg, req'[p].key))
    <3>1. CASE CheckIdempotency(p)
      <4>1. req[p].key \in Keys
        BY <3>1 DEF CheckIdempotency, KeyInv, TypeInv, SendKeys, SendLabels
      <4>2. /\ req'[p].at \in {"insert", "ack", "members"}
            /\ req'[p].at # "insert" => req'[p].msg # 0
            /\ req'[p].msg = idem[req[p].key] /\ req'[p].key = req[p].key
        BY <1>0, <3>1, StepFields
      <4> QED
        BY <1>0, <4>1, <4>2 DEF HeldIsStored, Holding
    <3>2. CASE GetMembers(p) \/ CheckOnline(p)
      <4>1. Stored(req[p].msg, req[p].key)
        BY <1>0, <3>2 DEF GetMembers, CheckOnline, HeldIsStored, Holding
      <4>2. /\ req'[p].at \in {"deliver", "emit", "enqueue", "ack"}
            /\ req'[p].msg = req[p].msg /\ req'[p].key = req[p].key
        BY <1>0, <3>2, StepFields
      <4> QED
        BY <4>1, <4>2
    <3>3. CASE ReadPointer(p) \/ SyncRead(p)
      <4>1. req'[p].at \in {"reset", "move", "idle", "syncemit"}
        BY <1>0, <3>3, StepFields
      <4> QED
        BY <4>1 DEF Holding
    <3> QED
      BY <1>4, <3>1, <3>2, <3>3
  <2> QED
    BY <1>0, <2>1, <2>2, <2>3, KeyFrame DEF HeldIsStored
<1>5. ASSUME NEW p \in Proc, Begin(p) \/ Step(p) PROVE KeyInv'
  BY <1>0, <1>1, <1>2, <1>3, <1>4, <1>5, KeyInsert, KeyEnd DEF Step
<1>6. ASSUME NEW x, KeyExpires(x) \/ QueueExpires(x) \/ StatusExpires(x) PROVE KeyInv'
  <2>1. UNCHANGED <<row, nextId, req, answered>>
    BY <1>6 DEF KeyExpires, QueueExpires, StatusExpires
  <2>2. \A k \in Keys : idem'[k] = idem[k] \/ idem'[k] = 0
    BY <1>0, <1>6 DEF KeyExpires, QueueExpires, StatusExpires, TypeOK
  <2>3. \A i, k : Stored(i, k) => Stored(i, k)'
    BY <2>1 DEF Stored
  <2> QED
    BY <1>0, <2>1, <2>2, <2>3 DEF KeyInv, OneRowPerKey, HeldIsStored, Stored
<1>7. ASSUME Crash PROVE KeyInv'
  <2>1. /\ UNCHANGED <<nextId, idem, answered>> /\ \A p \in Proc : req'[p].at = "idle"
        /\ \A i \in Ids : row'[i] = IF row[i].state = "open" THEN Free ELSE row[i]
    BY <1>0, <1>7 DEF Crash, Idle
  <2>2. \A i, k : Stored(i, k) => Stored(i, k)'
    BY <2>1 DEF Stored
  <2>3. HeldIsStored'
    BY <1>0, <2>1, <2>2 DEF HeldIsStored, Holding
  <2>4. OneRowPerKey'
    BY <1>0, <2>1 DEF OneRowPerKey, Free
  <2> QED
    BY <1>0, <2>3, <2>4 DEF KeyInv
<1>8. ASSUME UNCHANGED vars PROVE KeyInv'
  BY <1>0, <1>8 DEF vars, KeyInv, OneRowPerKey, HeldIsStored, Stored
<1> QED
  BY <1>5, <1>6, <1>7, <1>8 DEF Next

\* Nothing is held in the initial state.
LEMMA InitKey == Init => KeyInv
<1>1. Init => TypeInv
  <2>1. Init => SendKeys
    BY DEF Init, Idle, SendKeys, SendLabels, Holding
  <2> QED
    BY <2>1, InitType DEF TypeInv
<1>2. Init => OneRowPerKey /\ HeldIsStored
  BY DEF Init, OneRowPerKey, HeldIsStored, Holding, Idle, Free
<1> QED
  BY <1>1, <1>2 DEF KeyInv

\* What is held is stored, always.
LEMMA KeyInvariant == Spec => []KeyInv
BY InitKey, KeyStep, PTL DEF Spec

\* Every answered send of a key names the one stored message of that key.
THEOREM SameAnswerHolds == Spec => []SameAnswer
<1>1. KeyInv => SameAnswer
  BY DEF KeyInv, OneRowPerKey, HeldIsStored, Stored, SameAnswer
<1> QED
  BY <1>1, KeyInvariant, PTL

\* A cached idempotency key names a stored message of that key.
THEOREM CacheNamesRowHolds == Spec => []CacheNamesRow
<1>1. KeyInv => CacheNamesRow
  BY DEF KeyInv, HeldIsStored, Stored, CacheNamesRow
<1> QED
  BY <1>1, KeyInvariant, PTL
-----------------------------------------------------------------------------
\* Who is about to write a delivered tick has emitted the message.
EmittedFirst ==
    /\ TickAfterEmit
    /\ \A p \in Proc :
         /\ req[p].at = "mark" => \A u \in req[p].to : req[p].msg \in emitted[u]
         /\ req[p].at \in {"acked", "syncmark"} => req[p].ids \subseteq emitted[req[p].me]

\* A send is its sender's and goes to the others; what a handler marks as
\* delivered are messages of other members, and so is what is queued; what it
\* marks as seen are messages.
Addressed ==
    /\ \A p \in Proc :
         /\ req[p].at \in SendLabels =>
              req[p].me = SenderOf[req[p].key] /\ req[p].me \notin req[p].to \cup req[p].todo
         /\ req[p].at \in {"acked", "syncemit", "syncmark"} => req[p].ids \subseteq Others(req[p].me)
         /\ req[p].at = "seen" => req[p].ids \subseteq Committed
         /\ req[p].at \in {"move", "count"} => kind = "GROUP"
    /\ \A u \in Users : queue[u] \subseteq Others(u)

\* The members of whom a receipt is counted.
DeliveredTo(i) == {u \in Users : ~NoDelivered(entry[i][u])}
SeenBy(i) == {u \in Users : ~NoSeen(entry[i][u])}

Balanced(i) ==
    /\ \A u \in Users : entry[i][u] = "absent" <=> u = Sender(i)
    /\ \A u \in early[i] : entry[i][u] \in {"seenonly", "seen"}
    /\ seen[i] = own[i] + Cardinality(SeenBy(i))
    /\ delivered[i] = own[i] + Cardinality(DeliveredTo(i)) + Cardinality(early[i])
Blank(i) == delivered[i] = 0 /\ seen[i] = 0 /\ own[i] = 0 /\ early[i] = {}

\* From the commit on everyone but the sender has a receipt, and no message is
\* counted before.
Counted == kind = "DIRECT" => \A i \in Ids : IF i \in Committed THEN Balanced(i) ELSE Blank(i)

AddressInv == KeyInv /\ Addressed
CountInv == AddressInv /\ Counted
-----------------------------------------------------------------------------
\* The control points whose locals matter to a receipt, by the step that leads
\* to them.
LEMMA NewLabels ==
  ASSUME TypeOK, NEW p \in Proc, Begin(p) \/ Step(p)
  PROVE  /\ req'[p].at = "mark" => Emit(p)
         /\ req'[p].at = "acked" => \E u \in Users, i \in Ids : BeginDelivered(p, u, i)
         /\ req'[p].at = "seen" => \E u \in Users, S \in SUBSET Ids : BeginSeen(p, u, S)
         /\ req'[p].at = "syncemit" => SyncRead(p)
         /\ req'[p].at = "syncmark" => SyncEmit(p)
         /\ req'[p].at = "move" => ReadPointer(p)
         /\ req'[p].at = "count" => MovePointer(p)
<1> DEFINE L == {"mark", "acked", "seen", "syncemit", "syncmark", "move", "count"}
<1>1. CASE Begin(p)
  <2>1. ASSUME NEW u, NEW o, NEW l \in {"register", "remove"}, Start(p, u, o, l)
        PROVE  req'[p].at \notin L
    BY <2>1 DEF Start, Idle, TypeOK
  <2>2. ASSUME NEW o, NEW k, BeginSend(p, o, k) PROVE req'[p].at \notin L
    BY <2>2 DEF BeginSend, Idle, TypeOK
  <2>3. ASSUME NEW u, NEW i, BeginDelivered(p, u, i) PROVE req'[p].at = "acked"
    BY <2>3 DEF BeginDelivered, Idle, TypeOK
  <2>4. ASSUME NEW u, NEW S, BeginSeen(p, u, S) PROVE req'[p].at = "seen"
    BY <2>4 DEF BeginSeen, Idle, TypeOK
  <2> QED
    BY <1>1, <2>1, <2>2, <2>3, <2>4 DEF Begin, BeginConnect, BeginDisconnect
<1>2. CASE \/ Refuse(p) \/ Throw(p) \/ Commit(p) \/ Rollback(p) \/ SetIdempotency(p) \/ PublishSent(p)
           \/ Emit(p) \/ MarkOne(p) \/ IncrementUnread(p) \/ Enqueue(p) \/ Acknowledge(p)
           \/ MarkAcked(p) \/ MarkSeen(p) \/ MovePointer(p) \/ CountRange(p) \/ ResetUnread(p)
           \/ SetUserOnline(p) \/ SyncEmit(p) \/ SyncMark(p) \/ SyncClear(p)
           \/ RemoveDevice(p) \/ CountDevices(p) \/ SetUserOffline(p)
  <2>1. \E l : /\ Goto(p, l)
               /\ l \in L => \/ l = "count" /\ MovePointer(p)
                             \/ l = "mark" /\ Emit(p)
                             \/ l = "syncmark" /\ SyncEmit(p)
    BY <1>2, SendMoves, OtherMoves
  <2> QED
    BY <2>1, GotoFields
<1>4. CASE CheckIdempotency(p) \/ Insert(p) \/ GetMembers(p) \/ CheckOnline(p)
  <2>1. req'[p].at \in {"insert", "ack", "members", "setex", "commit", "deliver", "emit", "enqueue"}
    BY <1>4, StepFields
  <2> QED
    BY <2>1
<1>5. CASE ReadPointer(p)
  BY <1>5, StepFields
<1>6. CASE SyncRead(p)
  BY <1>6, StepFields
<1> QED
  BY <1>1, <1>2, <1>4, <1>5, <1>6 DEF Step

\* A statement that marks messages of S delivered to u ticks nothing else.
LEMMA MarkTicks ==
  ASSUME TypeOK, NEW S, NEW u \in Users, MarkDelivered(S, u), TickAfterEmit, S \subseteq emitted[u]
  PROVE  \A i \in Ids, v \in Users : ~NoDelivered(entry'[i][v]) => i \in emitted[v]
<1> SUFFICES ASSUME NEW i \in Ids, NEW v \in Users, ~NoDelivered(entry'[i][v])
             PROVE  i \in emitted[v]
  OBVIOUS
<1>1. entry'[i][v] = entry[i][v] \/ (v = u /\ i \in S)
  BY DEF MarkDelivered, TypeOK
<1> QED
  BY <1>1 DEF TickAfterEmit

\* Every step writes a delivered tick only after the emit.
LEMMA TickStep == TypeInv /\ EmittedFirst /\ [Next]_vars => EmittedFirst'
<1> SUFFICES ASSUME TypeInv, EmittedFirst, [Next]_vars PROVE EmittedFirst'
  OBVIOUS
<1> USE DEF rowVars, tally, readVars, userVars, counters
<1>0. TypeOK /\ TypeOK' /\ TickAfterEmit
  BY TypeStep DEF TypeInv, EmittedFirst
<1>1. ASSUME NEW p \in Proc, Begin(p) \/ Step(p) PROVE EmittedFirst'
  <2>0. \A q \in Proc \ {p} : req'[q] = req[q]
    BY <1>0, <1>1, StepFields
  <2>1. req[p].me \in Users /\ req[p].to \subseteq Users
    BY <1>0 DEF TypeOK, Request
  <2>2. \A u \in Users : emitted[u] \subseteq emitted'[u]
    <3>1. CASE Emit(p) \/ SyncEmit(p)
      <4>1. emitted \in [Users -> SUBSET Ids]
        BY <1>0 DEF TypeOK
      <4>2. CASE Emit(p)
        BY <4>2 DEF Emit
      <4>3. CASE SyncEmit(p)
        BY <2>1, <4>1, <4>3 DEF SyncEmit
      <4> QED
        BY <3>1, <4>2, <4>3
    <3>2. CASE ~(Emit(p) \/ SyncEmit(p))
      <4>1. UNCHANGED emitted
        BY <1>1, <3>2 DEF Begin, BeginSend, BeginDelivered, BeginSeen, BeginConnect, BeginDisconnect,
           Step, CheckIdempotency, Refuse, Throw, Insert, Commit, Rollback, SetIdempotency, PublishSent,
           GetMembers, CheckOnline, MarkOne, IncrementUnread, Enqueue, Acknowledge,
           MarkAcked, MarkSeen, ReadPointer, MovePointer, CountRange, ResetUnread, SetUserOnline, SyncRead,
           SyncMark, SyncClear, RemoveDevice, CountDevices, SetUserOffline
      <4> QED
        BY <4>1
    <3> QED
      BY <3>1, <3>2
  <2>3. \A i \in Ids, v \in Users : ~NoDelivered(entry'[i][v]) => i \in emitted[v]
    <3>1. CASE MarkOne(p)
      <4>1. PICK u \in req[p].to : MarkDelivered({req[p].msg}, u)
        BY <3>1 DEF MarkOne
      <4>2. {req[p].msg} \subseteq emitted[u]
        BY <3>1, <4>1 DEF MarkOne, EmittedFirst
      <4> QED
        BY <1>0, <2>1, <4>1, <4>2, MarkTicks
    <3>2. CASE MarkAcked(p) \/ SyncMark(p)
      <4>1. req[p].ids \subseteq emitted[req[p].me]
        BY <3>2 DEF MarkAcked, SyncMark, EmittedFirst
      <4>2. MarkDelivered(req[p].ids, req[p].me) \/ UNCHANGED entry
        BY <3>2 DEF MarkAcked, SyncMark
      <4>3. CASE MarkDelivered(req[p].ids, req[p].me)
        BY <1>0, <2>1, <4>1, <4>3, MarkTicks
      <4> QED
        BY <1>0, <4>2, <4>3 DEF TickAfterEmit
    <3>3. CASE MarkSeen(p)
      <4>1. \A i \in Ids, v \in Users : entry'[i][v] \in {entry[i][v], SetSeen(entry[i][v])}
        BY <1>0, <3>3 DEF MarkSeen, TypeOK
      <4>2. \A e \in Entries : ~NoDelivered(SetSeen(e)) => ~NoDelivered(e)
        BY DEF NoDelivered, SetSeen, Entries
      <4>3. \A i \in Ids, v \in Users : entry[i][v] \in Entries
        BY <1>0 DEF TypeOK
      <4> QED
        BY <1>0, <4>1, <4>2, <4>3 DEF TickAfterEmit
    <3>4. CASE Commit(p)
      <4>1. \A i \in Ids, v \in Users : ~NoDelivered(entry'[i][v]) => entry'[i][v] = entry[i][v]
        BY <1>0, <3>4 DEF Commit, TypeOK, NoDelivered
      <4> QED
        BY <1>0, <4>1 DEF TickAfterEmit
    <3>5. CASE ~(MarkOne(p) \/ MarkAcked(p) \/ SyncMark(p) \/ MarkSeen(p) \/ Commit(p))
      <4>1. UNCHANGED entry
        BY <1>1, <3>5 DEF Begin, BeginSend, BeginDelivered, BeginSeen, BeginConnect, BeginDisconnect,
           Step, CheckIdempotency, Refuse, Throw, Insert, Rollback, SetIdempotency, PublishSent,
           GetMembers, CheckOnline, Emit, IncrementUnread, Enqueue, Acknowledge,
           ReadPointer, MovePointer, CountRange, ResetUnread, SetUserOnline, SyncRead,
           SyncEmit, SyncClear, RemoveDevice, CountDevices, SetUserOffline
      <4> QED
        BY <1>0, <4>1 DEF TickAfterEmit
    <3> QED
      BY <3>1, <3>2, <3>3, <3>4, <3>5
  <2>4. TickAfterEmit'
    BY <2>2, <2>3 DEF TickAfterEmit
  <2>5. req'[p].at = "mark" => \A u \in req'[p].to : req'[p].msg \in emitted'[u]
    <3> SUFFICES ASSUME req'[p].at = "mark" PROVE \A u \in req'[p].to : req'[p].msg \in emitted'[u]
      OBVIOUS
    <3>1. Emit(p) /\ Goto(p, "mark")
      BY <1>0, <1>1, NewLabels, GotoFields DEF Emit
    <3>2. req'[p].to = req[p].to /\ req'[p].msg = req[p].msg
      BY <1>0, <3>1, GotoFields
    <3> QED
      BY <2>1, <3>1, <3>2 DEF Emit
  <2>6. req'[p].at = "acked" => req'[p].ids \subseteq emitted'[req'[p].me]
    <3> SUFFICES ASSUME req'[p].at = "acked" PROVE req'[p].ids \subseteq emitted'[req'[p].me]
      OBVIOUS
    <3>1. PICK u \in Users, i \in Ids : BeginDelivered(p, u, i)
      BY <1>0, <1>1, NewLabels
    <3>2. req'[p].ids = {i} /\ req'[p].me = u
      BY <1>0, <3>1 DEF BeginDelivered, Idle, TypeOK
    <3> QED
      BY <2>2, <3>1, <3>2 DEF BeginDelivered
  <2>7. req'[p].at = "syncmark" => req'[p].ids \subseteq emitted'[req'[p].me]
    <3> SUFFICES ASSUME req'[p].at = "syncmark" PROVE req'[p].ids \subseteq emitted'[req'[p].me]
      OBVIOUS
    <3>1. SyncEmit(p)
      BY <1>0, <1>1, NewLabels
    <3>2. req'[p].ids = req[p].ids /\ req'[p].me = req[p].me
      BY <1>0, <3>1, GotoFields DEF SyncEmit
    <3> QED
      BY <1>0, <2>1, <3>1, <3>2 DEF SyncEmit, TypeOK
  <2>8. ASSUME NEW q \in Proc \ {p}
        PROVE  /\ req'[q].at = "mark" => \A u \in req'[q].to : req'[q].msg \in emitted'[u]
               /\ req'[q].at \in {"acked", "syncmark"} => req'[q].ids \subseteq emitted'[req'[q].me]
    <3>1. req[q].me \in Users /\ req[q].to \subseteq Users
      BY <1>0 DEF TypeOK, Request
    <3> QED
      BY <2>0, <2>2, <3>1 DEF EmittedFirst
  <2> QED
    BY <2>4, <2>5, <2>6, <2>7, <2>8 DEF EmittedFirst
<1>2. ASSUME NEW x, KeyExpires(x) \/ QueueExpires(x) \/ StatusExpires(x) PROVE EmittedFirst'
  BY <1>2 DEF KeyExpires, QueueExpires, StatusExpires, EmittedFirst, TickAfterEmit
<1>3. ASSUME Crash PROVE EmittedFirst'
  BY <1>0, <1>3 DEF Crash, Idle, EmittedFirst, TickAfterEmit
<1>4. ASSUME UNCHANGED vars PROVE EmittedFirst'
  BY <1>4 DEF vars, EmittedFirst, TickAfterEmit
<1> QED
  BY <1>1, <1>2, <1>3, <1>4 DEF Next

\* A delivered tick is set only after the message was emitted to the user,
\* wherever the server dies and whichever path sets it.
THEOREM TickAfterEmitHolds == Spec => []TickAfterEmit
<1>1. Init => EmittedFirst
  BY DEF Init, Idle, EmittedFirst, TickAfterEmit, NoDelivered
<1>2. EmittedFirst => TickAfterEmit
  BY DEF EmittedFirst
<1>3. KeyInv => TypeInv
  BY DEF KeyInv
<1> QED
  BY <1>1, <1>2, <1>3, KeyInvariant, TickStep, PTL DEF Spec

\* A committed row stays as it is.
LEMMA CommittedStays ==
  ASSUME KeyInv, [Next]_vars
  PROVE  /\ \A i \in Committed : i \in Committed' /\ Sender(i)' = Sender(i)
         /\ \A u \in Users : Others(u) \subseteq Others(u)'
<1> USE DEF rowVars, tally
<1>0. TypeOK /\ OneRowPerKey
  BY DEF KeyInv, TypeInv
<1>1. ASSUME NEW i \in Ids, row[i].state = "committed" PROVE row'[i] = row[i]
  <2>1. ASSUME NEW p \in Proc, Insert(p) PROVE row'[i] = row[i]
    <3>1. row[nextId] # row[i] \/ nextId \notin Ids
      <4>1. nextId \in Ids => row[nextId] = Free
        BY <1>0 DEF OneRowPerKey, TypeOK, Ids
      <4> QED
        BY <1>1, <4>1 DEF Free
    <3> QED
      BY <1>0, <2>1, <3>1 DEF Insert, TypeOK
  <2>2. ASSUME NEW p \in Proc, Commit(p) \/ Rollback(p) PROVE row'[i] = row[i]
    <3>1. row[req[p].msg].state = "open"
      <4>1. row[req[p].msg] = [key |-> req[p].key, state |-> "open"]
        BY <1>0, <2>2 DEF Commit, Rollback, OneRowPerKey
      <4> QED
        BY <4>1
    <3> QED
      BY <1>0, <1>1, <2>2, <3>1 DEF Commit, Rollback, TypeOK
  <2>3. ASSUME Crash PROVE row'[i] = row[i]
    BY <1>1, <2>3 DEF Crash
  <2>4. ASSUME NEW p \in Proc, Begin(p) \/ Step(p), ~(Insert(p) \/ Commit(p) \/ Rollback(p))
        PROVE  UNCHANGED row
    BY <2>4 DEF Begin, BeginSend, BeginDelivered, BeginSeen, BeginConnect, BeginDisconnect,
       Step, CheckIdempotency, Refuse, Throw, SetIdempotency, PublishSent,
       GetMembers, CheckOnline, Emit, MarkOne, IncrementUnread, Enqueue, Acknowledge,
       MarkAcked, MarkSeen, ReadPointer, MovePointer, CountRange, ResetUnread, SetUserOnline, SyncRead,
       SyncEmit, SyncMark, SyncClear, RemoveDevice, CountDevices, SetUserOffline
  <2>5. ASSUME NEW x, KeyExpires(x) \/ QueueExpires(x) \/ StatusExpires(x) PROVE UNCHANGED row
    BY <2>5 DEF KeyExpires, QueueExpires, StatusExpires
  <2>6. UNCHANGED vars => UNCHANGED row
    BY DEF vars
  <2> QED
    BY <2>1, <2>2, <2>3, <2>4, <2>5, <2>6 DEF Next
<1>2. \A i \in Committed : i \in Committed' /\ Sender(i)' = Sender(i)
  BY <1>1 DEF Committed, Sender
<1> QED
  BY <1>2 DEF Others

\* Every step leaves messages addressed.
LEMMA AddressStep == AddressInv /\ [Next]_vars => AddressInv'
<1> SUFFICES ASSUME AddressInv, [Next]_vars PROVE AddressInv'
  OBVIOUS
<1> USE DEF rowVars, tally, readVars, userVars, counters
<1>0. KeyInv /\ KeyInv' /\ TypeOK /\ TypeOK' /\ Addressed /\ SendKeys /\ HeldIsStored
  BY KeyStep DEF AddressInv, KeyInv, TypeInv
<1>k. UNCHANGED kind
  <2>1. ASSUME NEW p \in Proc, Begin(p) PROVE UNCHANGED kind
    BY <2>1 DEF Begin, BeginSend, BeginDelivered, BeginSeen, BeginConnect, BeginDisconnect
  <2>2. ASSUME NEW p \in Proc, Step(p) PROVE UNCHANGED kind
    BY <2>2 DEF Step, CheckIdempotency, Refuse, Throw, Insert, Commit, Rollback, SetIdempotency, PublishSent,
       GetMembers, CheckOnline, Emit, MarkOne, IncrementUnread, Enqueue, Acknowledge,
       MarkAcked, MarkSeen, ReadPointer, MovePointer, CountRange, ResetUnread, SetUserOnline, SyncRead,
       SyncEmit, SyncMark, SyncClear, RemoveDevice, CountDevices, SetUserOffline
  <2>3. ASSUME NEW x, KeyExpires(x) \/ QueueExpires(x) \/ StatusExpires(x) PROVE UNCHANGED kind
    BY <2>3 DEF KeyExpires, QueueExpires, StatusExpires
  <2>4. (Crash \/ UNCHANGED vars) => UNCHANGED kind
    BY DEF Crash, vars
  <2> QED
    BY <2>1, <2>2, <2>3, <2>4 DEF Next
<1>o. \A u \in Users : Others(u) \subseteq Others(u)'
  BY <1>0, CommittedStays
<1>1. ASSUME NEW p \in Proc, Begin(p) \/ Step(p) PROVE Addressed'
  <2>0. \A q \in Proc \ {p} : req'[q] = req[q]
    BY <1>0, <1>1, StepFields
  <2>1. req[p] \in Request /\ req[p].me \in Users /\ req[p].to \subseteq Users
    BY <1>0 DEF TypeOK, Request
  <2>2. req'[p].at \in SendLabels =>
          req'[p].me = SenderOf[req'[p].key] /\ req'[p].me \notin req'[p].to \cup req'[p].todo
    <3> DEFINE Good == req'[p].me = SenderOf[req'[p].key] /\ req'[p].me \notin req'[p].to \cup req'[p].todo
    <3>1. CASE \E l : Goto(p, l) /\ (l \in SendLabels => req[p].at \in SendLabels)
      <4>1. "idle" \notin SendLabels
        BY DEF SendLabels, Holding
      <4> QED
        BY <1>0, <3>1, <4>1, GotoFields DEF Addressed
    <3>2. CASE \/ Refuse(p) \/ Throw(p) \/ Commit(p) \/ Rollback(p) \/ SetIdempotency(p) \/ PublishSent(p)
               \/ Emit(p) \/ MarkOne(p) \/ IncrementUnread(p) \/ Enqueue(p) \/ Acknowledge(p)
               \/ MarkAcked(p) \/ MarkSeen(p) \/ MovePointer(p) \/ CountRange(p) \/ ResetUnread(p)
               \/ SetUserOnline(p) \/ SyncEmit(p) \/ SyncMark(p) \/ SyncClear(p)
               \/ RemoveDevice(p) \/ CountDevices(p) \/ SetUserOffline(p)
      <4>1. CASE \/ Commit(p) \/ Rollback(p) \/ SetIdempotency(p) \/ PublishSent(p) \/ Emit(p)
                 \/ MarkOne(p) \/ IncrementUnread(p) \/ Enqueue(p) \/ Refuse(p) \/ Acknowledge(p)
        <5>1. \E l : Goto(p, l) /\ req[p].at \in SendLabels
          BY <4>1, SendMoves
        <5> QED
          BY <3>1, <5>1
      <4>2. CASE \/ MarkAcked(p) \/ MarkSeen(p) \/ MovePointer(p) \/ CountRange(p) \/ ResetUnread(p)
                 \/ SetUserOnline(p) \/ SyncEmit(p) \/ SyncMark(p) \/ SyncClear(p)
                 \/ RemoveDevice(p) \/ CountDevices(p) \/ SetUserOffline(p) \/ Throw(p)
        <5>1. \E l \in {"idle", "count", "reset", "syncread", "syncmark", "syncclear", "devices",
                        "offline"} : Goto(p, l)
          BY <4>2, OtherMoves
        <5> QED
          BY <3>1, <5>1 DEF SendLabels, Holding
      <4> QED
        BY <3>2, <4>1, <4>2
    <3>3. CASE CheckIdempotency(p) \/ Insert(p) \/ CheckOnline(p)
      <4>1. req[p].at \in SendLabels
        BY <3>3 DEF CheckIdempotency, Insert, CheckOnline, SendLabels, Holding
      <4>2. /\ req'[p].key = req[p].key /\ req'[p].me = req[p].me
            /\ req'[p].to \cup req'[p].todo \subseteq req[p].to \cup req[p].todo
        BY <1>0, <3>3, StepFields
      <4> QED
        BY <1>0, <4>1, <4>2 DEF Addressed
    <3>4. CASE GetMembers(p)
      <4>1. req[p].at \in SendLabels
        BY <3>4 DEF GetMembers, SendLabels, Holding
      <4>2. /\ req'[p].key = req[p].key /\ req'[p].me = req[p].me
            /\ req'[p].to = req[p].to /\ req'[p].todo = Users \ {req[p].me}
        BY <1>0, <3>4, StepFields
      <4> QED
        BY <1>0, <4>1, <4>2 DEF Addressed
    <3>5. CASE ReadPointer(p) \/ SyncRead(p)
      BY <1>0, <3>5, StepFields DEF SendLabels, Holding
    <3>6. CASE Begin(p)
      <4>1. ASSUME NEW u, NEW o, NEW l \in {"register", "remove"}, Start(p, u, o, l)
            PROVE  req'[p].at \notin SendLabels
        BY <1>0, <4>1 DEF Start, Idle, TypeOK, SendLabels, Holding
      <4>2. ASSUME NEW o, NEW k, BeginSend(p, o, k) PROVE Good
        BY <1>0, <4>2 DEF BeginSend, Idle, TypeOK
      <4>3. ASSUME NEW u, NEW i, BeginDelivered(p, u, i) PROVE req'[p].at = "acked"
        BY <1>0, <4>3 DEF BeginDelivered, Idle, TypeOK
      <4>4. ASSUME NEW u, NEW S, BeginSeen(p, u, S) PROVE req'[p].at = "seen"
        BY <1>0, <4>4 DEF BeginSeen, Idle, TypeOK
      <4>5. "acked" \notin SendLabels /\ "seen" \notin SendLabels
        BY DEF SendLabels, Holding
      <4> QED
        BY <3>6, <4>1, <4>2, <4>3, <4>4, <4>5 DEF Begin, BeginConnect, BeginDisconnect
    <3> QED
      BY <1>1, <3>2, <3>3, <3>4, <3>5, <3>6 DEF Step
  <2>3. /\ req'[p].at \in {"acked", "syncemit", "syncmark"} => req'[p].ids \subseteq Others(req'[p].me)
        /\ req'[p].at = "seen" => req'[p].ids \subseteq Committed
    <3>1. ASSUME NEW u, NEW i, BeginDelivered(p, u, i) PROVE req'[p].ids \subseteq Others(req'[p].me)
      <4>1. req'[p].ids = {i} /\ req'[p].me = u
        BY <1>0, <3>1 DEF BeginDelivered, Idle, TypeOK
      <4> QED
        BY <3>1, <4>1 DEF BeginDelivered
    <3>2. ASSUME NEW u, NEW S, BeginSeen(p, u, S) PROVE req'[p].ids \subseteq Committed
      <4>1. req'[p].ids = S /\ req'[p].me = u
        BY <1>0, <3>2 DEF BeginSeen, Idle, TypeOK
      <4> QED
        BY <3>2, <4>1 DEF BeginSeen
    <3>3. ASSUME SyncRead(p), req'[p].at = "syncemit" PROVE req'[p].ids \subseteq Others(req'[p].me)
      <4>1. req'[p].ids = queue[req[p].me] /\ req'[p].me = req[p].me
        BY <1>0, <3>3, StepFields
      <4> QED
        BY <1>0, <2>1, <4>1 DEF Addressed
    <3>4. ASSUME SyncEmit(p) PROVE req'[p].ids \subseteq Others(req'[p].me)
      <4>1. req'[p].ids = req[p].ids /\ req'[p].me = req[p].me
        BY <1>0, <3>4, GotoFields DEF SyncEmit
      <4> QED
        BY <1>0, <3>4, <4>1 DEF Addressed, SyncEmit
    <3> QED
      BY <1>0, <1>1, <3>1, <3>2, <3>3, <3>4, NewLabels
  <2>4. req'[p].at \in {"move", "count"} => kind = "GROUP"
    <3>1. MovePointer(p) => kind = "GROUP"
      BY <1>0 DEF MovePointer, Addressed
    <3> QED
      BY <1>0, <1>1, <3>1, NewLabels DEF ReadPointer
  <2>5. \A u \in Users : queue'[u] \subseteq Others(u)
    <3>1. CASE Enqueue(p)
      <4>1. Stored(req[p].msg, req[p].key) /\ req[p].me = SenderOf[req[p].key]
            /\ req[p].me \notin req[p].to
        BY <1>0, <3>1 DEF Enqueue, HeldIsStored, Addressed, SendLabels, Holding
      <4>2. \A u \in req[p].to : req[p].msg \in Others(u)
        BY <4>1 DEF Stored, Others, Committed, Sender
      <4>3. \A u \in Users : queue'[u] \subseteq queue[u] \cup (IF u \in req[p].to THEN {req[p].msg} ELSE {})
        BY <1>0, <3>1 DEF Enqueue, TypeOK
      <4> QED
        BY <1>0, <4>2, <4>3 DEF Addressed
    <3>2. CASE SyncClear(p)
      BY <1>0, <3>2 DEF SyncClear, TypeOK, Addressed
    <3>3. CASE ~(Enqueue(p) \/ SyncClear(p))
      <4>1. UNCHANGED queue
        BY <1>1, <3>3 DEF Begin, BeginSend, BeginDelivered, BeginSeen, BeginConnect, BeginDisconnect,
           Step, CheckIdempotency, Refuse, Throw, Insert, Commit, Rollback, SetIdempotency, PublishSent,
           GetMembers, CheckOnline, Emit, MarkOne, IncrementUnread, Acknowledge,
           MarkAcked, MarkSeen, ReadPointer, MovePointer, CountRange, ResetUnread, SetUserOnline, SyncRead,
           SyncEmit, SyncMark, RemoveDevice, CountDevices, SetUserOffline
      <4> QED
        BY <1>0, <4>1 DEF Addressed
    <3> QED
      BY <3>1, <3>2, <3>3
  <2>6. \A q \in Proc :
          /\ req'[q].at \in {"acked", "syncemit", "syncmark"} => req'[q].ids \subseteq Others(req'[q].me)
          /\ req'[q].at = "seen" => req'[q].ids \subseteq Committed
    BY <1>0, <2>0, <2>3 DEF Addressed
  <2>7. \A q \in Proc : req'[q].me \in Users
    BY <1>0 DEF TypeOK, Request
  <2>8. \A q \in Proc :
          /\ req'[q].at \in {"acked", "syncemit", "syncmark"} => req'[q].ids \subseteq Others(req[q].me)'
          /\ req'[q].at = "seen" => req'[q].ids \subseteq Committed'
    BY <1>0, <1>o, <2>6, <2>7, CommittedStays DEF Others, Committed, Sender
  <2>9. \A u \in Users : queue'[u] \subseteq Others(u)'
    BY <1>o, <2>5
  <2>10. \A q \in Proc :
           /\ req'[q].at \in SendLabels =>
                req'[q].me = SenderOf[req'[q].key] /\ req'[q].me \notin req'[q].to \cup req'[q].todo
           /\ req'[q].at \in {"move", "count"} => kind = "GROUP"
    BY <1>0, <2>0, <2>2, <2>4 DEF Addressed
  <2> QED
    BY <1>k, <2>8, <2>9, <2>10 DEF Addressed
<1>2. ASSUME NEW x, KeyExpires(x) \/ QueueExpires(x) \/ StatusExpires(x) PROVE Addressed'
  <2>1. UNCHANGED <<row, req, kind>> /\ \A u \in Users : queue'[u] = queue[u] \/ queue'[u] = {}
    BY <1>0, <1>2 DEF KeyExpires, QueueExpires, StatusExpires, TypeOK
  <2>2. \A u : Others(u)' = Others(u)
    BY <2>1 DEF Others, Committed, Sender
  <2> QED
    BY <1>0, <2>1, <2>2 DEF Addressed, Others, Committed, Sender
<1>3. ASSUME Crash PROVE Addressed'
  <2>1. UNCHANGED queue /\ \A p \in Proc : req'[p].at = "idle"
    BY <1>3 DEF Crash, Idle
  <2>2. \A u \in Users : queue'[u] \subseteq Others(u)'
    BY <1>0, <1>o, <2>1 DEF Addressed
  <2> QED
    BY <2>1, <2>2 DEF Addressed, SendLabels, Holding
<1>4. ASSUME UNCHANGED vars PROVE Addressed'
  BY <1>0, <1>4 DEF vars, Addressed, Others, Committed, Sender
<1> QED
  BY <1>0, <1>1, <1>2, <1>3, <1>4 DEF Next, AddressInv

\* One member more is one more to count.
LEMMA OneMore ==
  ASSUME NEW A \in SUBSET Users, NEW u \in Users, u \notin A
  PROVE  Cardinality(A \cup {u}) = Cardinality(A) + 1
<1>1. IsFiniteSet(A)
  BY UsersAssumption, FS_Subset
<1> QED
  BY <1>1, FS_AddElement

\* A receipt of one direct message changes: the members it is counted of.
LEMMA ReceiptChange ==
  ASSUME TypeOK, NEW i \in Ids, NEW u \in Users,
         NEW e \in Entries, entry'[i] = [entry[i] EXCEPT ![u] = e]
  PROVE  /\ NoDelivered(entry[i][u]) /\ ~NoDelivered(e) =>
              Cardinality(DeliveredTo(i)') = Cardinality(DeliveredTo(i)) + 1
         /\ (NoDelivered(entry[i][u]) <=> NoDelivered(e)) => DeliveredTo(i)' = DeliveredTo(i)
         /\ NoSeen(entry[i][u]) /\ ~NoSeen(e) =>
              Cardinality(SeenBy(i)') = Cardinality(SeenBy(i)) + 1
         /\ (NoSeen(entry[i][u]) <=> NoSeen(e)) => SeenBy(i)' = SeenBy(i)
<1>1. entry[i] \in [Users -> Entries]
  BY DEF TypeOK
<1>2. entry'[i][u] = e /\ \A v \in Users \ {u} : entry'[i][v] = entry[i][v]
  BY <1>1
<1>3. NoDelivered(entry[i][u]) /\ ~NoDelivered(e) =>
        DeliveredTo(i)' = DeliveredTo(i) \cup {u} /\ u \notin DeliveredTo(i)
  BY <1>2 DEF DeliveredTo
<1>4. NoSeen(entry[i][u]) /\ ~NoSeen(e) => SeenBy(i)' = SeenBy(i) \cup {u} /\ u \notin SeenBy(i)
  BY <1>2 DEF SeenBy
<1>5. DeliveredTo(i) \in SUBSET Users /\ SeenBy(i) \in SUBSET Users
  BY DEF DeliveredTo, SeenBy
<1>6. (NoDelivered(entry[i][u]) <=> NoDelivered(e)) => DeliveredTo(i)' = DeliveredTo(i)
  BY <1>2 DEF DeliveredTo
<1>7. (NoSeen(entry[i][u]) <=> NoSeen(e)) => SeenBy(i)' = SeenBy(i)
  BY <1>2 DEF SeenBy
<1>8. NoDelivered(entry[i][u]) /\ ~NoDelivered(e) =>
        Cardinality(DeliveredTo(i)') = Cardinality(DeliveredTo(i)) + 1
  BY <1>3, <1>5, OneMore
<1>9. NoSeen(entry[i][u]) /\ ~NoSeen(e) => Cardinality(SeenBy(i)') = Cardinality(SeenBy(i)) + 1
  BY <1>4, <1>5, OneMore
<1> QED
  BY <1>6, <1>7, <1>8, <1>9

\* A message of which nothing changes stays balanced, and so does a blank one.
LEMMA SameMessage ==
  ASSUME NEW i \in Ids, entry'[i] = entry[i], delivered'[i] = delivered[i], seen'[i] = seen[i],
         own'[i] = own[i], early'[i] = early[i], row'[i] = row[i]
  PROVE  (Balanced(i)' <=> Balanced(i)) /\ (Blank(i)' <=> Blank(i))
BY DEF Balanced, Blank, Sender, DeliveredTo, SeenBy

\* The members counted are finitely many.
LEMMA CountTypes ==
  ASSUME TypeOK, NEW i \in Ids
  PROVE  /\ Cardinality(DeliveredTo(i)) \in Nat /\ Cardinality(SeenBy(i)) \in Nat
         /\ early[i] \subseteq Users /\ Cardinality(early[i]) \in Nat
         /\ delivered[i] \in Nat /\ seen[i] \in Nat /\ own[i] \in Nat
         /\ entry[i] \in [Users -> Entries]
<1>1. \A A \in SUBSET Users : Cardinality(A) \in Nat
  BY UsersAssumption, FS_Subset, FS_CardinalityType
<1>2. /\ DeliveredTo(i) \in SUBSET Users /\ SeenBy(i) \in SUBSET Users /\ early[i] \in SUBSET Users
      /\ delivered[i] \in Nat /\ seen[i] \in Nat /\ own[i] \in Nat
      /\ entry[i] \in [Users -> Entries]
  BY DEF TypeOK, DeliveredTo, SeenBy
<1> QED
  BY <1>1, <1>2

\* A step that leaves rows, receipts and counters alone keeps the counts.
LEMMA CountFrame ==
  ASSUME Counted, UNCHANGED <<kind, row, entry, delivered, seen, own, early>>
  PROVE  Counted'
BY DEF Counted, Balanced, Blank, Committed, Sender, DeliveredTo, SeenBy

\* Marking messages of others delivered keeps the counts.
LEMMA CountMark ==
  ASSUME TypeOK, Counted, NEW S, NEW u \in Users, MarkDelivered(S, u), S \subseteq Others(u),
         UNCHANGED <<kind, row, seen, own, early>>
  PROVE  Counted'
<1>0. CASE UNCHANGED <<entry, delivered>>
  BY <1>0, CountFrame
<1> SUFFICES ASSUME ~UNCHANGED <<entry, delivered>>, kind = "DIRECT", NEW i \in Ids
             PROVE  IF i \in Committed THEN Balanced(i)' ELSE Blank(i)'
  BY <1>0 DEF Counted, Committed
<1> DEFINE hit == i \in S /\ row[i].state = "committed" /\ NoDelivered(entry[i][u])
<1>1. /\ entry'[i] = [entry[i] EXCEPT ![u] = IF hit THEN SetDelivered(entry[i][u]) ELSE entry[i][u]]
      /\ delivered'[i] = delivered[i] + (IF hit THEN 1 ELSE 0)
  BY DEF MarkDelivered
<1>2. IF i \in Committed THEN Balanced(i) ELSE Blank(i)
  BY DEF Counted
<1>3. CASE ~hit
  <2>1. entry'[i] = entry[i] /\ delivered'[i] = delivered[i]
    BY <1>1, <1>3, CountTypes
  <2> QED
    BY <1>2, <2>1, SameMessage
<1>4. CASE hit
  <2>1. i \in Committed /\ Balanced(i) /\ u # Sender(i)
    BY <1>2, <1>4 DEF Others, Committed
  <2>2. entry[i][u] \in {"none", "seenonly"}
    BY <1>4, <2>1 DEF NoDelivered, Balanced
  <2> DEFINE e == SetDelivered(entry[i][u])
  <2>3. /\ e \in Entries /\ e # "absent" /\ ~NoDelivered(e) /\ (NoSeen(entry[i][u]) <=> NoSeen(e))
        /\ (entry[i][u] = "seenonly" => e = "seen")
    BY <2>2 DEF SetDelivered, Entries, NoDelivered, NoSeen
  <2>4. entry'[i] = [entry[i] EXCEPT ![u] = e] /\ delivered'[i] = delivered[i] + 1
    BY <1>1, <1>4
  <2> HIDE DEF e
  <2>5. Cardinality(DeliveredTo(i)') = Cardinality(DeliveredTo(i)) + 1 /\ SeenBy(i)' = SeenBy(i)
    BY <1>4, <2>3, <2>4, ReceiptChange
  <2>6. \A v \in Users : entry'[i][v] = IF v = u THEN e ELSE entry[i][v]
    BY <2>4, CountTypes
  <2>7. \A v \in Users : entry'[i][v] = "absent" <=> v = Sender(i)'
    BY <2>1, <2>3, <2>6 DEF Balanced, Sender
  <2>8. \A v \in early'[i] : entry'[i][v] \in {"seenonly", "seen"}
    BY <2>1, <2>2, <2>3, <2>6, CountTypes DEF Balanced
  <2>9. seen'[i] = own'[i] + Cardinality(SeenBy(i)')
    BY <2>1, <2>5 DEF Balanced
  <2>10. delivered'[i] = own'[i] + Cardinality(DeliveredTo(i)') + Cardinality(early'[i])
    BY <2>1, <2>4, <2>5, CountTypes DEF Balanced
  <2> QED
    BY <2>1, <2>7, <2>8, <2>9, <2>10 DEF Balanced
<1> QED
  BY <1>3, <1>4

\* Marking messages seen keeps the counts.  A user whose delivery was not
\* recorded is counted as both, and again when it is; a sender has no receipt
\* and is counted for nothing.
LEMMA CountSeen ==
  ASSUME AddressInv, Counted, NEW p \in Proc, MarkSeen(p)
  PROVE  Counted'
<1> DEFINE u == req[p].me
           S == req[p].ids
<1>0. TypeOK /\ u \in Users /\ S \subseteq Committed /\ UNCHANGED <<kind, row>>
  BY DEF AddressInv, KeyInv, TypeInv, TypeOK, Request, Addressed, MarkSeen
<1> SUFFICES ASSUME kind = "DIRECT", NEW i \in Ids
             PROVE  IF i \in Committed THEN Balanced(i)' ELSE Blank(i)'
  BY <1>0 DEF Counted, Committed
<1> DEFINE hit == i \in S /\ NoSeen(entry[i][u])
<1>1. /\ entry'[i] = [entry[i] EXCEPT ![u] = IF hit THEN SetSeen(entry[i][u]) ELSE entry[i][u]]
      /\ delivered'[i] = delivered[i] + (IF hit /\ NoDelivered(entry[i][u]) THEN 1 ELSE 0)
      /\ seen'[i] = seen[i] + (IF hit THEN 1 ELSE 0)
  BY DEF MarkSeen
<1>2. /\ own'[i] = own[i] + (IF hit /\ Sender(i) = u THEN 1 ELSE 0)
      /\ early'[i] = early[i] \cup {v \in {u} : hit /\ entry[i][u] = "none"}
  BY DEF MarkSeen
<1>3. IF i \in Committed THEN Balanced(i) ELSE Blank(i)
  BY DEF Counted
<1>t. /\ Cardinality(DeliveredTo(i)) \in Nat /\ Cardinality(SeenBy(i)) \in Nat
      /\ early[i] \subseteq Users /\ Cardinality(early[i]) \in Nat
      /\ delivered[i] \in Nat /\ seen[i] \in Nat /\ own[i] \in Nat
      /\ entry[i] \in [Users -> Entries]
  BY <1>0, CountTypes
<1>4. CASE ~hit
  <2>1. /\ entry'[i] = entry[i] /\ delivered'[i] = delivered[i] /\ seen'[i] = seen[i]
        /\ own'[i] = own[i] /\ early'[i] = early[i]
    BY <1>1, <1>2, <1>4, <1>t
  <2> QED
    BY <1>0, <1>3, <2>1, SameMessage
<1>5. CASE hit /\ u = Sender(i)
  <2>1. i \in Committed /\ Balanced(i) /\ entry[i][u] = "absent"
    BY <1>0, <1>3, <1>5 DEF Balanced
  <2>2. SetSeen("absent") = "absent" /\ NoDelivered("absent")
    BY DEF SetSeen, NoDelivered
  <2>3. /\ entry'[i] = entry[i] /\ early'[i] = early[i] /\ own'[i] = own[i] + 1
        /\ delivered'[i] = delivered[i] + 1 /\ seen'[i] = seen[i] + 1
    BY <1>1, <1>2, <1>5, <1>t, <2>1, <2>2
  <2>4. DeliveredTo(i)' = DeliveredTo(i) /\ SeenBy(i)' = SeenBy(i) /\ Sender(i)' = Sender(i)
    BY <1>0, <2>3 DEF DeliveredTo, SeenBy, Sender
  <2> QED
    BY <1>t, <2>1, <2>3, <2>4 DEF Balanced
<1>6. CASE hit /\ u # Sender(i)
  <2>1. i \in Committed /\ Balanced(i) /\ entry[i][u] \in {"none", "delivered"}
    BY <1>0, <1>3, <1>6, <1>t DEF Balanced, NoSeen
  <2> DEFINE e == SetSeen(entry[i][u])
  <2>2. /\ e \in {"seenonly", "seen"} /\ e \in Entries /\ ~NoSeen(e) /\ NoSeen(entry[i][u])
        /\ (NoDelivered(entry[i][u]) <=> NoDelivered(e))
        /\ (NoDelivered(entry[i][u]) <=> entry[i][u] = "none")
    BY <2>1 DEF SetSeen, Entries, NoDelivered, NoSeen
  <2>3. entry'[i] = [entry[i] EXCEPT ![u] = e] /\ seen'[i] = seen[i] + 1 /\ own'[i] = own[i]
    BY <1>1, <1>2, <1>6, <1>t
  <2> HIDE DEF e
  <2>4. Cardinality(SeenBy(i)') = Cardinality(SeenBy(i)) + 1 /\ DeliveredTo(i)' = DeliveredTo(i)
    BY <1>0, <2>2, <2>3, ReceiptChange
  <2>5. \A v \in Users : entry'[i][v] = IF v = u THEN e ELSE entry[i][v]
    BY <1>t, <2>3
  <2>6. \A v \in Users : entry'[i][v] = "absent" <=> v = Sender(i)'
    BY <1>0, <1>6, <2>1, <2>2, <2>5 DEF Balanced, Sender
  <2>7. \A v \in early'[i] : entry'[i][v] \in {"seenonly", "seen"}
    BY <1>0, <1>2, <1>t, <2>1, <2>2, <2>5 DEF Balanced
  <2>8. seen'[i] = own'[i] + Cardinality(SeenBy(i)')
    BY <1>t, <2>1, <2>3, <2>4 DEF Balanced
  <2>9. delivered'[i] = own'[i] + Cardinality(DeliveredTo(i)') + Cardinality(early'[i])
    <3>1. CASE entry[i][u] = "none"
      <4>1. early'[i] = early[i] \cup {u} /\ u \notin early[i]
        BY <1>2, <1>6, <2>1, <3>1 DEF Balanced
      <4>2. Cardinality(early'[i]) = Cardinality(early[i]) + 1
        BY <1>0, <1>t, <4>1, OneMore
      <4>3. delivered'[i] = delivered[i] + 1
        BY <1>1, <1>6, <2>2, <3>1
      <4> QED
        BY <1>t, <2>1, <2>3, <2>4, <4>2, <4>3 DEF Balanced
    <3>2. CASE entry[i][u] # "none"
      <4>1. early'[i] = early[i] /\ delivered'[i] = delivered[i]
        BY <1>1, <1>2, <1>t, <2>2, <3>2
      <4> QED
        BY <1>t, <2>1, <2>3, <2>4, <4>1 DEF Balanced
    <3> QED
      BY <3>1, <3>2
  <2> QED
    BY <2>1, <2>6, <2>7, <2>8, <2>9 DEF Balanced
<1> QED
  BY <1>4, <1>5, <1>6

\* A message is committed with a receipt of everyone but its sender, of whom
\* nobody is counted yet.
LEMMA CountCommit ==
  ASSUME AddressInv, Counted, NEW p \in Proc, Commit(p)
  PROVE  Counted'
<1> PICK m : m = req[p].msg
  OBVIOUS
<1>0. TypeOK /\ SendKeys /\ OneRowPerKey /\ Addressed
  BY DEF AddressInv, KeyInv, TypeInv
<1>1. /\ req[p].at = "commit" /\ UNCHANGED <<kind, delivered, seen, own, early>>
      /\ row' = [row EXCEPT ![m] = [@ EXCEPT !.state = "committed"]]
      /\ entry' = [entry EXCEPT ![m] =
           [u \in Users |-> IF kind = "DIRECT" /\ u # req[p].me THEN "none" ELSE "absent"]]
  BY DEF Commit, tally
<1>2. /\ m \in Ids /\ req[p].me = SenderOf[req[p].key]
      /\ row[m] = [key |-> req[p].key, state |-> "open"]
  BY <1>0, <1>1 DEF SendKeys, OneRowPerKey, Addressed, SendLabels
<1>3. row'[m] = [key |-> req[p].key, state |-> "committed"]
  BY <1>0, <1>1, <1>2 DEF TypeOK
<1>4. \A i \in Ids \ {m} : row'[i] = row[i] /\ entry'[i] = entry[i]
  BY <1>0, <1>1, <1>2 DEF TypeOK
<1> SUFFICES ASSUME kind = "DIRECT", NEW i \in Ids
             PROVE  IF i \in Committed' THEN Balanced(i)' ELSE Blank(i)'
  BY <1>1 DEF Counted
<1>5. CASE i # m
  <2>1. (Balanced(i)' <=> Balanced(i)) /\ (Blank(i)' <=> Blank(i)) /\ (i \in Committed' <=> i \in Committed)
    BY <1>1, <1>4, <1>5, SameMessage DEF Committed
  <2> QED
    BY <2>1 DEF Counted
<1>6. CASE i = m
  <2>1. entry'[m] = [u \in Users |-> IF u # req[p].me THEN "none" ELSE "absent"]
    BY <1>0, <1>1, <1>2 DEF TypeOK
  <2>2. Sender(m)' = req[p].me
    BY <1>2, <1>3 DEF Sender
  <2>3. delivered'[m] = 0 /\ seen'[m] = 0 /\ own'[m] = 0 /\ early'[m] = {}
    BY <1>1, <1>2 DEF Counted, Committed, Blank
  <2>4. DeliveredTo(m)' = {} /\ SeenBy(m)' = {}
    <3>1. \A v \in Users : entry'[m][v] \in {"none", "absent"}
      BY <2>1
    <3> QED
      BY <3>1 DEF DeliveredTo, SeenBy, NoDelivered, NoSeen
  <2>5. Cardinality({}) = 0
    BY FS_EmptySet
  <2>6. \A v \in Users : entry'[m][v] = "absent" <=> v = Sender(m)'
    BY <2>1, <2>2
  <2>7. Balanced(m)'
    BY <2>3, <2>4, <2>5, <2>6 DEF Balanced
  <2>8. m \in Committed'
    BY <1>2, <1>3 DEF Committed
  <2> QED
    BY <1>6, <2>7, <2>8
<1> QED
  BY <1>5, <1>6

\* A step that changes rows only, and commits none, keeps the counts.
LEMMA CountRows ==
  ASSUME AddressInv, Counted, [Next]_vars, UNCHANGED <<kind, entry, delivered, seen, own, early>>,
         \A i \in Ids : row'[i].state = "committed" => row[i].state = "committed"
  PROVE  Counted'
<1>1. \A i \in Committed : i \in Committed' /\ Sender(i)' = Sender(i)
  BY CommittedStays DEF AddressInv
<1>2. Committed' = Committed
  BY <1>1 DEF Committed
<1> QED
  BY <1>1, <1>2 DEF Counted, Balanced, Blank, DeliveredTo, SeenBy

\* Every step counts each receipt of a direct message when it changes.
LEMMA CountStep == CountInv /\ [Next]_vars => CountInv'
<1> SUFFICES ASSUME CountInv, [Next]_vars PROVE Counted'
  BY AddressStep DEF CountInv
<1> USE DEF rowVars, tally, readVars, userVars, counters
<1>0. /\ AddressInv /\ Counted /\ Addressed /\ TypeOK /\ HeldIsStored /\ OneRowPerKey
      /\ req \in [Proc -> Request]
  BY DEF CountInv, AddressInv, KeyInv, TypeInv, TypeOK
<1>1. ASSUME NEW p \in Proc, Commit(p) \/ MarkSeen(p) PROVE Counted'
  BY <1>0, <1>1, CountCommit, CountSeen
<1>2. ASSUME NEW p \in Proc, Insert(p) \/ Rollback(p) PROVE Counted'
  <2>1. UNCHANGED <<kind, entry, delivered, seen, own, early>>
    BY <1>2 DEF Insert, Rollback
  <2>2. \A i \in Ids : row'[i].state = "committed" => row[i].state = "committed"
    <3>1. ASSUME NEW i \in Ids, NEW r, r.state # "committed",
                 row' = [row EXCEPT ![i] = r]
          PROVE  \A j \in Ids : row'[j].state = "committed" => row[j].state = "committed"
      BY <1>0, <3>1 DEF TypeOK
    <3>2. CASE Insert(p)
      <4>1. nextId <= MaxIds => nextId \in Ids
        BY <1>0 DEF TypeOK, Ids
      <4>2. [key |-> req[p].key, state |-> "open"].state # "committed"
        OBVIOUS
      <4> QED
        BY <3>1, <3>2, <4>1, <4>2 DEF Insert
    <3>3. CASE Rollback(p)
      <4>1. req[p].msg \in Ids
        BY <1>0, <3>3 DEF Rollback, AddressInv, KeyInv, TypeInv, SendKeys
      <4>2. Free.state # "committed"
        BY DEF Free
      <4> QED
        BY <3>1, <3>3, <4>1, <4>2 DEF Rollback
    <3> QED
      BY <1>2, <3>2, <3>3
  <2> QED
    BY <1>0, <2>1, <2>2, CountRows
<1>3. ASSUME NEW p \in Proc, MarkOne(p) PROVE Counted'
  <2>1. PICK u \in req[p].to : MarkDelivered({req[p].msg}, u)
    BY <1>3 DEF MarkOne
  <2>2. /\ Stored(req[p].msg, req[p].key)
        /\ req[p].me = SenderOf[req[p].key] /\ req[p].me \notin req[p].to
    BY <1>0, <1>3 DEF MarkOne, HeldIsStored, Addressed, SendLabels, Holding
  <2>3. u \in Users /\ {req[p].msg} \subseteq Others(u)
    BY <1>0, <2>1, <2>2 DEF Stored, Others, Committed, Sender, Request
  <2>4. UNCHANGED <<kind, row, seen, own, early>>
    BY <1>3 DEF MarkOne
  <2> QED
    BY <1>0, <2>1, <2>3, <2>4, CountMark
<1>4. ASSUME NEW p \in Proc, MarkAcked(p) \/ SyncMark(p) PROVE Counted'
  <2>1. req[p].me \in Users /\ req[p].ids \subseteq Others(req[p].me)
    BY <1>0, <1>4 DEF MarkAcked, SyncMark, Addressed, Request
  <2>2. UNCHANGED <<kind, row, seen, own, early>>
    BY <1>4 DEF MarkAcked, SyncMark
  <2>3. MarkDelivered(req[p].ids, req[p].me) \/ UNCHANGED <<entry, delivered>>
    BY <1>4 DEF MarkAcked, SyncMark
  <2> QED
    BY <1>0, <2>1, <2>2, <2>3, CountMark, CountFrame
<1>5. ASSUME NEW p \in Proc, CountRange(p) PROVE Counted'
  <2>1. kind = "GROUP" /\ kind' = kind
    BY <1>0, <1>5 DEF CountRange, Addressed
  <2> QED
    BY <2>1 DEF Counted
<1>6. ASSUME NEW p \in Proc,
             \/ Begin(p)
             \/ CheckIdempotency(p) \/ Refuse(p) \/ Throw(p) \/ SetIdempotency(p) \/ PublishSent(p)
             \/ GetMembers(p) \/ CheckOnline(p) \/ Emit(p) \/ IncrementUnread(p)
             \/ Enqueue(p) \/ Acknowledge(p)
             \/ ReadPointer(p) \/ MovePointer(p) \/ ResetUnread(p)
             \/ SetUserOnline(p) \/ SyncRead(p) \/ SyncEmit(p) \/ SyncClear(p)
             \/ RemoveDevice(p) \/ CountDevices(p) \/ SetUserOffline(p)
      PROVE  Counted'
  <2>1. UNCHANGED <<kind, row, entry, delivered, seen, own, early>>
    BY <1>6 DEF Begin, BeginSend, BeginDelivered, BeginSeen, BeginConnect, BeginDisconnect,
       CheckIdempotency, Refuse, Throw, SetIdempotency, PublishSent, GetMembers, CheckOnline, Emit,
       IncrementUnread, Enqueue, Acknowledge, ReadPointer, MovePointer, ResetUnread, SetUserOnline,
       SyncRead, SyncEmit, SyncClear, RemoveDevice, CountDevices, SetUserOffline
  <2> QED
    BY <1>0, <2>1, CountFrame
<1>7. ASSUME NEW x, KeyExpires(x) \/ QueueExpires(x) \/ StatusExpires(x) PROVE Counted'
  <2>1. UNCHANGED <<kind, row, entry, delivered, seen, own, early>>
    BY <1>7 DEF KeyExpires, QueueExpires, StatusExpires
  <2> QED
    BY <1>0, <2>1, CountFrame
<1>8. ASSUME Crash PROVE Counted'
  <2>1. UNCHANGED <<kind, entry, delivered, seen, own, early>>
    BY <1>8 DEF Crash
  <2>2. \A i \in Ids : row'[i].state = "committed" => row[i].state = "committed"
    BY <1>8 DEF Crash, Free
  <2> QED
    BY <1>0, <2>1, <2>2, CountRows
<1>9. CASE UNCHANGED vars
  BY <1>0, <1>9, CountFrame DEF vars
<1>10. ASSUME NEW p \in Proc, Step(p) PROVE Counted'
  BY <1>1, <1>2, <1>3, <1>4, <1>5, <1>6, <1>10 DEF Step
<1> QED
  BY <1>6, <1>7, <1>8, <1>9, <1>10 DEF Next

\* The counters of a direct message are its receipts, one more for a user whose
\* seen came before its delivery, and the reports of the sender about its own
\* message, for any number of handlers, keys and messages.
THEOREM CountsAgreeHolds == Spec => []CountsAgree
<1>1. Init => Addressed /\ Counted
  BY DEF Init, Idle, Free, Addressed, SendLabels, Holding, Counted, Blank, Committed
<1>2. CountInv => CountsAgree
  BY DEF CountInv, Counted, Balanced, Committed, CountsAgree, DeliveredTo, SeenBy
<1>3. KeyInv /\ Addressed /\ Counted => CountInv
  BY DEF CountInv, AddressInv
<1>4. Init => CountInv
  BY <1>1, <1>3, InitKey
<1> QED
  BY <1>2, <1>4, CountStep, PTL DEF Spec
=============================================================================
