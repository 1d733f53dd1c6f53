-------------------------- MODULE MessageDelivery --------------------------
(***************************************************************************)
(* One conversation: its Message rows with their receipts, the Redis       *)
(* idempotency keys of the sends, the members' offline queues, unread      *)
(* counters and presence.                                                  *)
(*                                                                         *)
(* Each member of Proc is a handler being served (a socket message, an     *)
(* HTTP call, a connect or a disconnect), split at every await that reads  *)
(* or writes shared state.  Message ids are numbers in the order of        *)
(* autoincrement; bodies, media and display names are left out.            *)
(***************************************************************************)
EXTENDS Integers, FiniteSets

CONSTANTS
    Proc,        \* handlers in flight
    Users,       \* the ACTIVE members of the conversation
    Present,     \* the members that have a socket to begin with
    Keys,        \* clientMessageIds
    SenderOf,    \* which member's client made each key
    NULL,        \* no key
    Kinds,       \* the conversation types to check: "DIRECT", "GROUP"
    Ops,         \* by kind, which calls the members' clients make: <<user, operation>>
    MaxIds,      \* bound: ids the sequence may hand out
    MaxSends,    \* bound: sends and fallbacks that may be started
    MaxSockets,  \* bound: sockets of one user
    MaxFaults,   \* bound, by kind: restarts of the server and calls that throw
    MaxOwn,      \* bound: counted reports of a sender about its own message
    MaxQueue     \* MAX_QUEUE_SIZE

OpNames == {"send", "post", "delivered", "seen", "connect", "disconnect"}

ASSUME SenderAssumption == SenderOf \in [Keys -> Users] /\ NULL \notin Keys
ASSUME UsersAssumption == Users # {} /\ IsFiniteSet(Users) /\ Present \subseteq Users
ASSUME KindAssumption ==
    Kinds \subseteq {"DIRECT", "GROUP"} /\ ("DIRECT" \in Kinds => Cardinality(Users) = 2)
ASSUME OpsAssumption == Ops \in [Kinds -> SUBSET (Users \X OpNames)]
ASSUME BoundAssumption ==
    /\ MaxIds \in Nat /\ MaxSends \in Nat /\ MaxSockets \in Nat
    /\ MaxFaults \in [Kinds -> Nat] /\ MaxOwn \in Nat /\ MaxQueue \in Nat \ {0}

Ids == 1..MaxIds

VARIABLES
    kind,       \* conversations.type
    row,        \* messages: [key, state] by id
    nextId,     \* the sequence of messages.id
    entry,      \* messages.direct_receipts by id and user
    delivered,  \* messages.delivered_count
    seen,       \* messages.seen_count
    own,        \* history: times the sender of a message was counted as its reader
    early,      \* history: users counted as readers before their delivery was recorded
    lastRead,   \* conversation_members.last_read_message_id
    unread,     \* conversation_members.unread_count
    idem,       \* Redis: idempotency key -> id, 0 when absent
    queue,      \* Redis: offline queue of each user
    socks,      \* live sockets of each user
    devices,    \* Redis: size of the user's device set
    online,     \* Redis: the user's status key says ONLINE
    req,        \* the handlers
    sends, faults,
    answered,   \* history: ids that sends of a key were answered with
    emitted     \* history: messages emitted to a user's sockets

tally    == <<own, early>>
rowVars  == <<row, nextId, entry, delivered, seen, tally>>
readVars == <<lastRead, unread>>
userVars == <<socks, devices, online>>
counters == <<sends, faults>>
vars == <<kind, rowVars, readVars, idem, queue, userVars, req, counters, answered, emitted>>

-----------------------------------------------------------------------------
Free == [key |-> NULL, state |-> "free"]

Committed == {i \in Ids : row[i].state = "committed"}
Sender(i) == SenderOf[row[i].key]

\* What a member other than the sender may have been shown.
Others(u) == {i \in Committed : Sender(i) # u}

\* A handler that returns forgets its locals.
Idle == [at |-> "idle", op |-> "send", me |-> CHOOSE u \in Users : TRUE,
         key |-> NULL, msg |-> 0, ids |-> {}, todo |-> {}, to |-> {}, prev |-> 0]

Goto(p, l) == req' = [req EXCEPT ![p] = IF l = "idle" THEN Idle ELSE [@ EXCEPT !.at = l]]

\* The receipt states of direct_receipts[u]: no entry, {null, null},
\* {delivered, null}, {null, seen}, {delivered, seen}.
Entries == {"absent", "none", "delivered", "seenonly", "seen"}
NoDelivered(e) == e \in {"absent", "none", "seenonly"}
NoSeen(e) == e \in {"absent", "none", "delivered"}

\* jsonb_set with the path {user, field} leaves an object without the entry of
\* that user unchanged.
SetDelivered(e) ==
    CASE e = "none" -> "delivered"
      [] e = "seenonly" -> "seen"
      [] OTHER -> e

\* COALESCE passes over SQL's NULL only: the JSON null that the send stored as
\* delivered stays when a message is seen first.
SetSeen(e) ==
    CASE e = "none" -> "seenonly"
      [] e = "delivered" -> "seen"
      [] OTHER -> e

\* Mutant: the counter moves whether or not the receipt was there.
Bug_MarkDelivered(S, u) ==
    LET hit == {i \in S : row[i].state = "committed"} IN
    /\ entry' = [i \in Ids |-> [entry[i] EXCEPT ![u] = IF i \in hit THEN SetDelivered(@) ELSE @]]
    /\ delivered' = [i \in Ids |-> delivered[i] + (IF i \in hit THEN 1 ELSE 0)]

\* UPDATE ... WHERE id = ANY(S) AND delivered IS NULL: one atomic statement,
\* whose failure is caught and logged.
MarkDelivered(S, u) ==
    LET hit == {i \in S : row[i].state = "committed" /\ NoDelivered(entry[i][u])} IN
    \/ /\ entry' = [i \in Ids |-> [entry[i] EXCEPT ![u] = IF i \in hit THEN SetDelivered(@) ELSE @]]
       /\ delivered' = [i \in Ids |-> delivered[i] + (IF i \in hit THEN 1 ELSE 0)]
    \/ UNCHANGED <<entry, delivered>>

-----------------------------------------------------------------------------
Init ==
    /\ kind \in Kinds
    /\ row = [i \in Ids |-> Free] /\ nextId = 1
    /\ entry = [i \in Ids |-> [u \in Users |-> "absent"]]
    /\ delivered = [i \in Ids |-> 0] /\ seen = [i \in Ids |-> 0]
    /\ own = [i \in Ids |-> 0] /\ early = [i \in Ids |-> {}]
    /\ lastRead = [u \in Users |-> 0] /\ unread = [u \in Users |-> 0]
    /\ idem = [k \in Keys |-> 0]
    /\ queue = [u \in Users |-> {}]
    /\ socks = [u \in Users |-> IF u \in Present THEN 1 ELSE 0]
    /\ devices = socks /\ online = [u \in Users |-> u \in Present]
    /\ req = [p \in Proc |-> Idle]
    /\ sends = 0 /\ faults = 0
    /\ answered = [k \in Keys |-> {}] /\ emitted = [u \in Users |-> {}]

(* The calls.                                                              *)

Start(p, u, o, l) ==
    /\ req[p].at = "idle" /\ <<u, o>> \in Ops[kind]
    /\ req' = [req EXCEPT ![p] = [Idle EXCEPT !.at = l, !.op = o, !.me = u]]

\* handleSendMessage over a socket, or POST /messages when its answer is late;
\* the client keeps the clientMessageId for both and for every retry.
BeginSend(p, o, k) ==
    /\ o \in {"send", "post"} /\ sends < MaxSends
    /\ o = "send" => socks[SenderOf[k]] > 0
    /\ req[p].at = "idle" /\ <<SenderOf[k], o>> \in Ops[kind]
    /\ req' = [req EXCEPT ![p] =
         [Idle EXCEPT !.at = "cached", !.op = o, !.me = SenderOf[k], !.key = k]]
    /\ sends' = sends + 1
    /\ UNCHANGED <<kind, rowVars, readVars, idem, queue, userVars, faults, answered, emitted>>

\* message:delivered from a client that was shown the message.
BeginDelivered(p, u, i) ==
    /\ i \in emitted[u] \cap Others(u) /\ socks[u] > 0
    /\ req[p].at = "idle" /\ <<u, "delivered">> \in Ops[kind]
    /\ req' = [req EXCEPT ![p] =
         [Idle EXCEPT !.at = "acked", !.op = "delivered", !.me = u, !.ids = {i}]]
    /\ UNCHANGED <<kind, rowVars, readVars, idem, queue, userVars, counters, answered, emitted>>

\* Reports about a message that have been started and not yet counted.
Reports(u, i) == {p \in Proc : req[p].at = "seen" /\ req[p].me = u /\ i \in req[p].ids}

\* message:seen with any messages of the conversation, however the client got
\* them.  Nothing leaves out the caller's own.
BeginSeen(p, u, S) ==
    /\ S # {} /\ S \subseteq Committed /\ socks[u] > 0
    /\ \A i \in S : Sender(i) = u => own[i] + Cardinality(Reports(u, i)) < MaxOwn
    /\ req[p].at = "idle" /\ <<u, "seen">> \in Ops[kind]
    /\ req' = [req EXCEPT ![p] =
         [Idle EXCEPT !.at = "seen", !.op = "seen", !.me = u, !.ids = S]]
    /\ UNCHANGED <<kind, rowVars, readVars, idem, queue, userVars, counters, answered, emitted>>

\* handleConnection of an authenticated socket.
BeginConnect(p, u) ==
    /\ socks[u] < MaxSockets
    /\ Start(p, u, "connect", "register")
    /\ socks' = [socks EXCEPT ![u] = @ + 1]
    /\ UNCHANGED <<kind, rowVars, readVars, idem, queue, devices, online, counters, answered, emitted>>

\* handleDisconnect: the socket is gone when the handler starts.
BeginDisconnect(p, u) ==
    /\ socks[u] > 0
    /\ Start(p, u, "disconnect", "remove")
    /\ socks' = [socks EXCEPT ![u] = @ - 1]
    /\ UNCHANGED <<kind, rowVars, readVars, idem, queue, devices, online, counters, answered, emitted>>

-----------------------------------------------------------------------------
(* sendMessage.                                                            *)

\* checkIdempotency; a hit skips every check and the storing.
CheckIdempotency(p) ==
    LET hit == idem[req[p].key] IN
    /\ req[p].at = "cached"
    /\ req' = [req EXCEPT ![p] =
         [@ EXCEPT !.msg = hit,
                   !.at = IF hit = 0 THEN "insert" ELSE IF req[p].op = "post" THEN "ack" ELSE "members"]]
    /\ UNCHANGED <<kind, rowVars, readVars, idem, queue, userVars, counters, answered, emitted>>

\* The checks of membership, privacy, media and reply refuse the send.
Refuse(p) ==
    /\ req[p].at = "insert" /\ Goto(p, "idle")
    /\ UNCHANGED <<kind, rowVars, readVars, idem, queue, userVars, counters, answered, emitted>>

\* Mutant: client_message_id without its unique index.
Bug_Insert(p) ==
    /\ req[p].at = "insert" /\ nextId <= MaxIds
    /\ row' = [row EXCEPT ![nextId] = [key |-> req[p].key, state |-> "open"]]
    /\ nextId' = nextId + 1
    /\ req' = [req EXCEPT ![p] = [@ EXCEPT !.at = "commit", !.msg = nextId]]
    /\ UNCHANGED <<kind, entry, delivered, seen, tally, readVars, idem, queue, userVars, counters, answered, emitted>>

\* persistMessage: the transaction inserts the row.  The unique index makes it
\* wait for an open insert of the same key and refuses a committed one (P2002),
\* which handlePersistError turns into the stored message.
Insert(p) ==
    LET k == req[p].key
        stored == {i \in Committed : row[i].key = k}
    IN
    /\ req[p].at = "insert"
    /\ \A i \in Ids : row[i] # [key |-> k, state |-> "open"]
    /\ \/ /\ stored # {}
          /\ \E i \in stored : req' = [req EXCEPT ![p] = [@ EXCEPT !.at = "setex", !.msg = i]]
          /\ UNCHANGED <<row, nextId>>
       \/ /\ stored = {} /\ nextId <= MaxIds
          /\ row' = [row EXCEPT ![nextId] = [key |-> k, state |-> "open"]]
          /\ nextId' = nextId + 1
          /\ req' = [req EXCEPT ![p] = [@ EXCEPT !.at = "commit", !.msg = nextId]]
    /\ UNCHANGED <<kind, entry, delivered, seen, tally, readVars, idem, queue, userVars, counters, answered, emitted>>

\* The transaction commits: a direct message has a receipt of its recipient.
Commit(p) ==
    LET i == req[p].msg IN
    /\ req[p].at = "commit"
    /\ row' = [row EXCEPT ![i] = [@ EXCEPT !.state = "committed"]]
    /\ entry' = [entry EXCEPT ![i] =
         [u \in Users |-> IF kind = "DIRECT" /\ u # req[p].me THEN "none" ELSE "absent"]]
    /\ Goto(p, "setex")
    /\ UNCHANGED <<kind, nextId, delivered, seen, tally, readVars, idem, queue, userVars, counters, answered, emitted>>

\* Mutant: handlePersistError does not rethrow what it does not know.
Bug_Rollback(p) ==
    /\ req[p].at = "commit"
    /\ row' = [row EXCEPT ![req[p].msg] = Free]
    /\ Goto(p, "setex")
    /\ UNCHANGED <<kind, nextId, entry, delivered, seen, tally, readVars, idem, queue, userVars, counters, answered, emitted>>

\* The transaction fails (P2003, lost connection) and the send with it.
Rollback(p) ==
    /\ req[p].at = "commit"
    /\ row' = [row EXCEPT ![req[p].msg] = Free]
    /\ Goto(p, "idle")
    /\ UNCHANGED <<kind, nextId, entry, delivered, seen, tally, readVars, idem, queue, userVars, counters, answered, emitted>>

SetIdempotency(p) ==
    /\ req[p].at = "setex"
    /\ idem' = [idem EXCEPT ![req[p].key] = req[p].msg]
    /\ Goto(p, "event")
    /\ UNCHANGED <<kind, rowVars, readVars, queue, userVars, counters, answered, emitted>>

\* publish(MessageSentEvent, throwOnListenerError).
PublishSent(p) ==
    /\ req[p].at = "event"
    /\ Goto(p, IF req[p].op = "post" THEN "ack" ELSE "members")
    /\ UNCHANGED <<kind, rowVars, readVars, idem, queue, userVars, counters, answered, emitted>>

-----------------------------------------------------------------------------
(* sendMessageAndBroadcast: the delivery to the recipients, one by one.    *)

GetMembers(p) ==
    /\ req[p].at = "members"
    /\ req' = [req EXCEPT ![p] = [@ EXCEPT !.at = "deliver", !.todo = Users \ {req[p].me}]]
    /\ UNCHANGED <<kind, rowVars, readVars, idem, queue, userVars, counters, answered, emitted>>

CheckOnline(p) ==
    /\ req[p].at = "deliver"
    /\ \/ \E u \in req[p].todo :
            req' = [req EXCEPT ![p] = [@ EXCEPT !.at = IF online[u] THEN "emit" ELSE "enqueue",
                                                !.to = {u}, !.todo = req[p].todo \ {u}]]
       \/ req[p].todo = {} /\ Goto(p, "ack")
    /\ UNCHANGED <<kind, rowVars, readVars, idem, queue, userVars, counters, answered, emitted>>

\* message:new goes to the sockets the registry lists, live or not.
Emit(p) ==
    /\ req[p].at = "emit"
    /\ emitted' = [u \in Users |-> IF u \in req[p].to THEN emitted[u] \cup {req[p].msg} ELSE emitted[u]]
    /\ Goto(p, IF kind = "DIRECT" THEN "mark" ELSE "unread")
    /\ UNCHANGED <<kind, rowVars, readVars, idem, queue, userVars, counters, answered>>

MarkOne(p) ==
    /\ req[p].at = "mark"
    /\ \E u \in req[p].to : MarkDelivered({req[p].msg}, u)
    /\ Goto(p, "unread")
    /\ UNCHANGED <<kind, row, nextId, seen, tally, readVars, idem, queue, userVars, counters, answered, emitted>>

IncrementUnread(p) ==
    /\ req[p].at = "unread"
    /\ unread' = [u \in Users |-> unread[u] + (IF u \in req[p].to THEN 1 ELSE 0)]
    /\ Goto(p, "deliver")
    /\ UNCHANGED <<kind, rowVars, lastRead, idem, queue, userVars, counters, answered, emitted>>

\* enqueueMessage: ZADD, then the oldest entries over MAX_QUEUE_SIZE go.
Enqueue(p) ==
    /\ req[p].at = "enqueue"
    /\ \E u \in req[p].to :
         LET q == queue[u] \cup {req[p].msg} IN
         queue' = [queue EXCEPT ![u] = {i \in q : Cardinality({j \in q : j > i}) < MaxQueue}]
    /\ Goto(p, "deliver")
    /\ UNCHANGED <<kind, rowVars, readVars, idem, userVars, counters, answered, emitted>>

\* message:sent to the sender, or the HTTP answer.
Acknowledge(p) ==
    /\ req[p].at = "ack"
    /\ answered' = [answered EXCEPT ![req[p].key] = @ \cup {req[p].msg}]
    /\ Goto(p, "idle")
    /\ UNCHANGED <<kind, rowVars, readVars, idem, queue, userVars, counters, emitted>>

-----------------------------------------------------------------------------
(* Receipts.                                                               *)

\* handleMessageDeliveredInternal.
MarkAcked(p) ==
    /\ req[p].at = "acked"
    /\ \/ kind = "DIRECT" /\ MarkDelivered(req[p].ids, req[p].me)
       \/ kind = "GROUP" /\ UNCHANGED <<entry, delivered>>
    /\ Goto(p, "idle")
    /\ UNCHANGED <<kind, row, nextId, seen, tally, readVars, idem, queue, userVars, counters, answered, emitted>>

\* markDirectSeen: UPDATE ... WHERE id = ANY(ids) AND seen IS NULL.
MarkSeen(p) ==
    LET u == req[p].me
        hit == {i \in req[p].ids : NoSeen(entry[i][u])}
    IN
    /\ req[p].at = "seen" /\ kind = "DIRECT"
    /\ entry' = [i \in Ids |-> [entry[i] EXCEPT ![u] = IF i \in hit THEN SetSeen(@) ELSE @]]
    /\ seen' = [i \in Ids |-> seen[i] + (IF i \in hit THEN 1 ELSE 0)]
    /\ delivered' = [i \in Ids |-> delivered[i] + (IF i \in hit /\ NoDelivered(entry[i][u]) THEN 1 ELSE 0)]
    /\ own' = [i \in Ids |-> own[i] + (IF i \in hit /\ Sender(i) = u THEN 1 ELSE 0)]
    /\ early' = [i \in Ids |-> early[i] \cup {v \in {u} : i \in hit /\ entry[i][u] = "none"}]
    /\ Goto(p, "reset")
    /\ UNCHANGED <<kind, row, nextId, readVars, idem, queue, userVars, counters, answered, emitted>>

\* markGroupConversationRead reads the pointer, moves it, then counts the range.
ReadPointer(p) ==
    LET prev == lastRead[req[p].me] IN
    /\ req[p].at = "seen" /\ kind = "GROUP"
    /\ \E latest \in req[p].ids :
         /\ \A i \in req[p].ids : i <= latest
         /\ req' = [req EXCEPT ![p] =
              [@ EXCEPT !.prev = prev, !.msg = latest, !.at = IF prev >= latest THEN "reset" ELSE "move"]]
    /\ UNCHANGED <<kind, rowVars, readVars, idem, queue, userVars, counters, answered, emitted>>

MovePointer(p) ==
    /\ req[p].at = "move"
    /\ lastRead' = [lastRead EXCEPT ![req[p].me] = req[p].msg]
    /\ Goto(p, "count")
    /\ UNCHANGED <<kind, rowVars, unread, idem, queue, userVars, counters, answered, emitted>>

CountRange(p) ==
    /\ req[p].at = "count"
    /\ seen' = [i \in Ids |-> seen[i] +
         (IF i \in Others(req[p].me) /\ i > req[p].prev /\ i <= req[p].msg THEN 1 ELSE 0)]
    /\ Goto(p, "reset")
    /\ UNCHANGED <<kind, row, nextId, entry, delivered, tally, readVars, idem, queue, userVars, counters, answered, emitted>>

ResetUnread(p) ==
    /\ req[p].at = "reset"
    /\ unread' = [unread EXCEPT ![req[p].me] = 0]
    /\ Goto(p, "idle")
    /\ UNCHANGED <<kind, rowVars, lastRead, idem, queue, userVars, counters, answered, emitted>>

-----------------------------------------------------------------------------
(* Presence and the offline queue.                                         *)

\* setUserOnline, one pipeline; each socket is a device of its own.
SetUserOnline(p) ==
    /\ req[p].at = "register"
    /\ online' = [online EXCEPT ![req[p].me] = TRUE]
    /\ devices' = [devices EXCEPT ![req[p].me] = @ + 1]
    /\ Goto(p, "syncread")
    /\ UNCHANGED <<kind, rowVars, readVars, idem, queue, socks, counters, answered, emitted>>

\* Mutant: the queue is marked as delivered before anything is emitted.
Bug_SyncRead(p) ==
    LET q == queue[req[p].me] IN
    /\ req[p].at = "syncread"
    /\ \/ (q = {} \/ socks[req[p].me] = 0) /\ Goto(p, "idle")
       \/ q # {} /\ req' = [req EXCEPT ![p] = [@ EXCEPT !.at = "syncmark", !.ids = q]]
    /\ UNCHANGED <<kind, rowVars, readVars, idem, queue, userVars, counters, answered, emitted>>

\* syncOfflineMessages: ZRANGE, emit messages:sync, mark, DEL.  It returns at
\* once when the cleanup of a disconnect has taken the socket's userId.
SyncRead(p) ==
    LET q == queue[req[p].me] IN
    /\ req[p].at = "syncread"
    /\ \/ (q = {} \/ socks[req[p].me] = 0) /\ Goto(p, "idle")
       \/ q # {} /\ req' = [req EXCEPT ![p] = [@ EXCEPT !.at = "syncemit", !.ids = q]]
    /\ UNCHANGED <<kind, rowVars, readVars, idem, queue, userVars, counters, answered, emitted>>

SyncEmit(p) ==
    /\ req[p].at = "syncemit"
    /\ emitted' = [emitted EXCEPT ![req[p].me] = @ \cup req[p].ids]
    /\ Goto(p, "syncmark")
    /\ UNCHANGED <<kind, rowVars, readVars, idem, queue, userVars, counters, answered>>

\* bulkMarkDirectDelivered, whatever the type of the conversation.
SyncMark(p) ==
    /\ req[p].at = "syncmark"
    /\ MarkDelivered(req[p].ids, req[p].me)
    /\ Goto(p, "syncclear")
    /\ UNCHANGED <<kind, row, nextId, seen, tally, readVars, idem, queue, userVars, counters, answered, emitted>>

SyncClear(p) ==
    /\ req[p].at = "syncclear"
    /\ queue' = [queue EXCEPT ![req[p].me] = {}]
    /\ Goto(p, "idle")
    /\ UNCHANGED <<kind, rowVars, readVars, idem, userVars, counters, answered, emitted>>

\* Mutant: removing a device that is no longer in the set still counts down.
Bug_RemoveDevice(p) ==
    /\ req[p].at = "remove"
    /\ devices' = [devices EXCEPT ![req[p].me] = @ - 1]
    /\ Goto(p, "devices")
    /\ UNCHANGED <<kind, rowVars, readVars, idem, queue, socks, online, counters, answered, emitted>>

\* removeUserDevice: SREM, then SCARD, then setUserOffline.
RemoveDevice(p) ==
    /\ req[p].at = "remove"
    /\ devices' = [devices EXCEPT ![req[p].me] = IF @ = 0 THEN 0 ELSE @ - 1]
    /\ Goto(p, "devices")
    /\ UNCHANGED <<kind, rowVars, readVars, idem, queue, socks, online, counters, answered, emitted>>

CountDevices(p) ==
    /\ req[p].at = "devices"
    /\ Goto(p, IF devices[req[p].me] = 0 THEN "offline" ELSE "idle")
    /\ UNCHANGED <<kind, rowVars, readVars, idem, queue, userVars, counters, answered, emitted>>

SetUserOffline(p) ==
    /\ req[p].at = "offline"
    /\ online' = [online EXCEPT ![req[p].me] = FALSE]
    /\ devices' = [devices EXCEPT ![req[p].me] = 0]
    /\ Goto(p, "idle")
    /\ UNCHANGED <<kind, rowVars, readVars, idem, queue, socks, counters, answered, emitted>>

-----------------------------------------------------------------------------
(* The environment.                                                        *)

\* The next database or Redis call, or a listener of MessageSentEvent, throws
\* and the handler with it: what it has done stays.
Throw(p) ==
    /\ req[p].at \notin {"idle", "commit"} /\ Goto(p, "idle")
    /\ faults < MaxFaults[kind] /\ faults' = faults + 1
    /\ UNCHANGED <<kind, rowVars, readVars, idem, queue, userVars, sends, answered, emitted>>

\* Redis TTLs: of the idempotency key, of the queue, of the status key, which
\* heartbeats keep while a socket is alive.
KeyExpires(k) ==
    /\ idem[k] # 0 /\ idem' = [idem EXCEPT ![k] = 0]
    /\ UNCHANGED <<kind, rowVars, readVars, queue, userVars, req, counters, answered, emitted>>

QueueExpires(u) ==
    /\ queue[u] # {} /\ queue' = [queue EXCEPT ![u] = {}]
    /\ UNCHANGED <<kind, rowVars, readVars, idem, userVars, req, counters, answered, emitted>>

StatusExpires(u) ==
    /\ socks[u] = 0 /\ online[u] /\ online' = [online EXCEPT ![u] = FALSE]
    /\ UNCHANGED <<kind, rowVars, readVars, idem, queue, socks, devices, req, counters, answered, emitted>>

\* The server process dies: its handlers and sockets are gone, PostgreSQL rolls
\* back what was open, Redis keeps its keys.
Crash ==
    /\ faults < MaxFaults[kind] /\ faults' = faults + 1
    /\ req' = [p \in Proc |-> Idle]
    /\ row' = [i \in Ids |-> IF row[i].state = "open" THEN Free ELSE row[i]]
    /\ socks' = [u \in Users |-> 0]
    /\ UNCHANGED <<kind, nextId, entry, delivered, seen, tally, readVars, idem, queue, devices, online,
                   sends, answered, emitted>>

Step(p) ==
    \/ CheckIdempotency(p) \/ Refuse(p) \/ Insert(p) \/ Commit(p) \/ Rollback(p)
    \/ SetIdempotency(p) \/ PublishSent(p)
    \/ GetMembers(p) \/ CheckOnline(p) \/ Emit(p) \/ MarkOne(p) \/ IncrementUnread(p)
    \/ Enqueue(p) \/ Acknowledge(p)
    \/ MarkAcked(p) \/ MarkSeen(p) \/ ReadPointer(p) \/ MovePointer(p) \/ CountRange(p) \/ ResetUnread(p)
    \/ SetUserOnline(p) \/ SyncRead(p) \/ SyncEmit(p) \/ SyncMark(p) \/ SyncClear(p)
    \/ RemoveDevice(p) \/ CountDevices(p) \/ SetUserOffline(p)
    \/ Throw(p)

Begin(p) ==
    \/ \E o \in {"send", "post"}, k \in Keys : BeginSend(p, o, k)
    \/ \E u \in Users, i \in Ids : BeginDelivered(p, u, i)
    \/ \E u \in Users, S \in SUBSET Ids : BeginSeen(p, u, S)
    \/ \E u \in Users : BeginConnect(p, u) \/ BeginDisconnect(p, u)

Next ==
    \/ \E p \in Proc : Begin(p) \/ Step(p)
    \/ \E k \in Keys : KeyExpires(k)
    \/ \E u \in Users : QueueExpires(u) \/ StatusExpires(u)
    \/ Crash

Spec == Init /\ [][Next]_vars
-----------------------------------------------------------------------------
(* Properties.                                                             *)

Labels == {"idle", "cached", "insert", "commit", "setex", "event", "members", "deliver", "emit",
           "mark", "unread", "enqueue", "ack", "acked", "seen", "move", "count", "reset",
           "register", "syncread", "syncemit", "syncmark", "syncclear", "remove", "devices", "offline"}

Request == [at : Labels, op : OpNames, me : Users, key : Keys \cup {NULL}, msg : 0..MaxIds,
            ids : SUBSET Ids, todo : SUBSET Users, to : SUBSET Users, prev : 0..MaxIds]

\* The type of every variable.
TypeOK ==
    /\ kind \in {"DIRECT", "GROUP"}
    /\ row \in [Ids -> [key : Keys \cup {NULL}, state : {"free", "open", "committed"}]]
    /\ nextId \in 1..(MaxIds + 1)
    /\ entry \in [Ids -> [Users -> Entries]]
    /\ delivered \in [Ids -> Nat] /\ seen \in [Ids -> Nat]
    /\ own \in [Ids -> Nat] /\ early \in [Ids -> SUBSET Users]
    /\ lastRead \in [Users -> 0..MaxIds] /\ unread \in [Users -> Nat]
    /\ idem \in [Keys -> 0..MaxIds]
    /\ queue \in [Users -> SUBSET Ids]
    /\ socks \in [Users -> Nat] /\ devices \in [Users -> Nat] /\ online \in [Users -> BOOLEAN]
    /\ req \in [Proc -> Request]
    /\ sends \in 0..MaxSends /\ faults \in Nat
    /\ answered \in [Keys -> SUBSET Ids] /\ emitted \in [Users -> SUBSET Ids]

\* Every answered send of one clientMessageId names the same stored message,
\* however socket send, HTTP fallback and retries overlap, whatever expires and
\* wherever the server died ("Idempotency", message.service.ts:422).
SameAnswer ==
    \A k \in Keys : \A i, j \in answered[k] :
        i = j /\ row[i] = [key |-> k, state |-> "committed"]

\* A cached idempotency key always names a stored message of that key, so
\* findUniqueOrThrow of checkIdempotency cannot fail a retry.
CacheNamesRow ==
    \A k \in Keys : idem[k] # 0 => row[idem[k]] = [key |-> k, state |-> "committed"]

\* The counters of a direct message against its receipts, through overlapping
\* delivery, client's acknowledgement, offline sync and seen.  seen_count is the
\* number of users that have a seen receipt, and one more for every time the
\* sender reported its own message, which has no receipt to fill; delivered_count
\* is the number of delivered receipts, one more for a user whose seen came
\* first, which does not set delivered, and as many for the sender's reports.
CountsAgree ==
    kind = "DIRECT" => \A i \in Committed :
        /\ seen[i] = own[i] + Cardinality({u \in Users : ~NoSeen(entry[i][u])})
        /\ delivered[i] = own[i] + Cardinality({u \in Users : ~NoDelivered(entry[i][u])})
                                + Cardinality(early[i])

\* A delivered tick is set only after the message was emitted to that user, also
\* when the user has seen it in the history, or the server dies in between.
TickAfterEmit ==
    \A i \in Ids, u \in Users : ~NoDelivered(entry[i][u]) => i \in emitted[u]

\* A group message is counted as seen at most once for each member that read it
\* (receipt.service.ts:177 "to avoid double-count (R3)", :207 "no race
\* condition (R2)").
CountedOnce ==
    kind = "GROUP" => \A i \in Committed : seen[i] <= Cardinality(Users \ {Sender(i)})
=============================================================================
