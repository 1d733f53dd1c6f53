--------------------------- MODULE RemindersProofs ---------------------------
(* Theorems about Reminders: the types, and that each arming of a reminder   *)
(* is announced at most once, for any number of instances and reminders.     *)
EXTENDS Reminders, FiniteSetTheorems, TLAPS

USE RemindersAssumption

ServerState == [at: {"idle", "loop", "emit"}, batch: SUBSET Reminder, cur: Reminder \X Nat]
Request == [at: {"idle", "count", "insert", "find", "write", "reset", "delete"},
            op: OpNames, r: Reminder, seen: BOOLEAN]

Small(s) == Cardinality(server[s].batch) <= BatchSize

-----------------------------------------------------------------------------
(* Steps on the records of the state.                                        *)

LEMMA AnyReminderType == AnyReminder \in Reminder
  BY DEF AnyReminder

LEMMA IdleType == Idle \in Request
  BY AnyReminderType DEF Idle, Request, OpNames

LEMMA RestingType == Resting \in ServerState
  BY AnyReminderType DEF Resting, ServerState

\* A request that goes on to a control point keeps its other fields.
LEMMA GotoType ==
    ASSUME req \in [Proc -> Request], NEW p \in Proc,
           NEW l \in {"idle", "count", "insert", "find", "write", "reset", "delete"},
           Goto(p, l)
    PROVE  req' \in [Proc -> Request]
<1>1. CASE l = "idle"
  BY <1>1, IdleType DEF Goto
<1>2. CASE l # "idle"
  <2>1. req' = [req EXCEPT ![p] = [@ EXCEPT !.at = l]]
    BY <1>2 DEF Goto
  <2>2. [req[p] EXCEPT !.at = l] \in Request
    BY DEF Request
  <2>3. QED
    BY <2>1, <2>2
<1>3. QED
  BY <1>1, <1>2

\* Going on with a part of a batch.
LEMMA NextOfType ==
    ASSUME server \in [Server -> ServerState], \A t \in Server : Small(t),
           NEW s \in Server, NEW b \in SUBSET Reminder, Cardinality(b) <= BatchSize,
           NextOf(s, b)
    PROVE  /\ server' \in [Server -> ServerState]
           /\ \A t \in Server : Small(t)'
           /\ ~Emitting(s)'
           /\ \A t \in Server \ {s} : server'[t] = server[t]
<1> DEFINE new == IF b = {} THEN Resting ELSE [Resting EXCEPT !.at = "loop", !.batch = b]
<1>1. server' = [server EXCEPT ![s] = new]
  BY DEF NextOf
<1>2. new \in ServerState /\ new.at # "emit"
  BY RestingType DEF Resting, ServerState
<1>3. Cardinality(new.batch) <= BatchSize
  <2>1. Cardinality({}) = 0
    BY FS_EmptySet
  <2>2. new.batch = b
    BY DEF Resting
  <2>3. QED
    BY <2>2
<1> HIDE DEF new
<1>4. server'[s] = new /\ \A t \in Server \ {s} : server'[t] = server[t]
  BY <1>1
<1>5. \A t \in Server : Small(t)'
  BY <1>3, <1>4 DEF Small
<1>6. QED
  BY <1>1, <1>2, <1>4, <1>5 DEF Emitting

\* What remains of a batch is no larger.
LEMMA Smaller ==
    ASSUME NEW b \in SUBSET Reminder, Cardinality(b) <= BatchSize, NEW r
    PROVE  Cardinality(b \ {r}) <= BatchSize
<1>1. IsFiniteSet(b) /\ IsFiniteSet(b \ {r})
  BY FS_Subset
<1>2. Cardinality(b \ {r}) <= Cardinality(b)
  BY <1>1, FS_Subset
<1>3. Cardinality(b) \in Nat /\ Cardinality(b \ {r}) \in Nat
  BY <1>1, FS_CardinalityType
<1>4. QED
  BY <1>2, <1>3

-----------------------------------------------------------------------------
(* The types.                                                                *)

\* What an update leaves is a row.
LEMMA EditedType ==
    ASSUME NEW row \in Row, NEW o \in OpNames, NEW seen \in BOOLEAN
    PROVE  /\ Edited(row, o, seen) \in Row
           /\ ~Edited(row, o, seen).triggered => ~row.triggered
  BY DEF Edited, Row, Moves

\* A row whose mark is set anew is a row.
LEMMA RowType ==
    ASSUME NEW row \in Row, NEW v \in BOOLEAN
    PROVE  /\ [row EXCEPT !.triggered = v] \in Row /\ [row EXCEPT !.due = v] \in Row
           /\ [row EXCEPT !.completed = v] \in Row
           /\ [row EXCEPT !.triggered = v].triggered = v
           /\ [row EXCEPT !.due = v].triggered = row.triggered
           /\ [row EXCEPT !.completed = v].triggered = row.triggered
  BY DEF Row

\* What stands in the table is a row.
LEMMA ExistsType ==
    ASSUME rem \in [Reminder -> Row \cup {NULL}], NEW r \in Reminder, Exists(r)
    PROVE  rem[r] \in Row
  BY DEF Exists

LEMMA InitTypes == Init => TypeOK
<1> SUFFICES ASSUME Init PROVE TypeOK
  OBVIOUS
<1>1. server \in [Server -> ServerState] /\ req \in [Proc -> Request]
  BY RestingType, IdleType DEF Init
<1>2. \A s \in Server : Cardinality(server[s].batch) <= BatchSize
  <2>1. \A s \in Server : server[s].batch = {}
    BY DEF Init, Resting
  <2>2. Cardinality({}) = 0
    BY FS_EmptySet
  <2>3. QED
    BY <2>1, <2>2
<1>3. QED
  BY <1>1, <1>2 DEF Init, TypeOK, ServerState, Request

\* A step of a request.
LEMMA RequestTypes ==
    ASSUME TypeOK, NEW p \in Proc, Step(p)
    PROVE  TypeOK'
<1>1. req \in [Proc -> Request] /\ rem \in [Reminder -> Row \cup {NULL}] /\ armed \in [Reminder -> Nat]
  BY DEF TypeOK, Request
<1> DEFINE r == req[p].r
<1>2. r \in Reminder /\ req[p].op \in OpNames /\ req[p].seen \in BOOLEAN
  BY <1>1 DEF Request
<1>3. UNCHANGED <<server, news, client, shown, calls, faults, announced>>
  BY DEF Step, CountActive, Insert, Find, Write, Reset, Delete, screen, counts
<1>4. /\ req' \in [Proc -> Request]
      /\ rem' \in [Reminder -> Row \cup {NULL}]
      /\ armed' \in [Reminder -> Nat]
  <2>1. CASE CountActive(p)
    BY <1>1, <2>1, GotoType DEF CountActive
  <2>2. CASE Insert(p)
    BY <1>1, <1>2, <2>2, GotoType DEF Insert, NewRow, Row
  <2>3. CASE Find(p)
    <3>1. CASE ~Exists(r) /\ Goto(p, "idle")
      BY <1>1, <2>3, <3>1, GotoType DEF Find
    <3>2. CASE /\ Exists(r)
               /\ req' = [req EXCEPT ![p].at = IF req[p].op = "remove" THEN "delete" ELSE "write",
                                     ![p].seen = rem[r].triggered]
      <4>1. rem[r].triggered \in BOOLEAN
        BY <1>1, <1>2, <3>2, ExistsType DEF Row
      <4> DEFINE at == IF req[p].op = "remove" THEN "delete" ELSE "write"
                 new == [req[p] EXCEPT !.at = at, !.seen = rem[r].triggered]
      <4>2. new \in Request
        <5>1. at \in {"delete", "write"} /\ req[p] \in Request
          BY <1>1
        <5> HIDE DEF at
        <5>2. QED
          BY <4>1, <5>1 DEF Request
      <4>3. req' = [req EXCEPT ![p] = new]
        BY <3>2
      <4> HIDE DEF new
      <4>4. req' \in [Proc -> Request]
        BY <1>1, <4>2, <4>3
      <4>5. QED
        BY <1>1, <2>3, <4>4 DEF Find
    <3>3. QED
      BY <2>3, <3>1, <3>2 DEF Find
  <2>4. CASE Write(p)
    <3>1. CASE Exists(r)
      <4>1. rem[r] \in Row
        BY <1>1, <1>2, <3>1 DEF Exists
      <4>2. rem' = [rem EXCEPT ![r] = Edited(rem[r], req[p].op, req[p].seen)]
        BY <2>4, <3>1 DEF Write
      <4>3. Goto(p, "reset") \/ Goto(p, "idle")
        BY <2>4, <3>1 DEF Write
      <4>4. QED
        BY <1>1, <1>2, <2>4, <4>1, <4>2, <4>3, EditedType, GotoType DEF Write
    <3>2. CASE ~Exists(r)
      BY <1>1, <2>4, <3>2, GotoType DEF Write
    <3>3. QED
      BY <3>1, <3>2
  <2>5. CASE Reset(p)
    <3>1. Goto(p, "idle")
      BY <2>5 DEF Reset
    <3>2. CASE Exists(r)
      <4>1. [rem[r] EXCEPT !.triggered = FALSE] \in Row
        BY <1>1, <1>2, <3>2, ExistsType, RowType
      <4>2. rem' = [rem EXCEPT ![r] = [rem[r] EXCEPT !.triggered = FALSE]] /\ armed' = [armed EXCEPT ![r] = @ + 1]
        BY <2>5, <3>2 DEF Reset
      <4>3. QED
        BY <1>1, <1>2, <3>1, <4>1, <4>2, GotoType
    <3>3. CASE ~Exists(r)
      BY <1>1, <2>5, <3>1, <3>3, GotoType DEF Reset
    <3>4. QED
      BY <3>2, <3>3
  <2>6. CASE Delete(p)
    BY <1>1, <2>6, GotoType DEF Delete
  <2>7. QED
    BY <2>1, <2>2, <2>3, <2>4, <2>5, <2>6 DEF Step
<1>5. QED
  BY <1>3, <1>4 DEF TypeOK, Request

\* A step of a poll.
LEMMA PollTypes ==
    ASSUME TypeOK, NEW s \in Server, Tick(s)
    PROVE  TypeOK'
<1>1. /\ server \in [Server -> ServerState] /\ \A t \in Server : Small(t)
      /\ rem \in [Reminder -> Row \cup {NULL}] /\ armed \in [Reminder -> Nat]
  BY DEF TypeOK, ServerState, Small
<1>2. server[s].batch \in SUBSET Reminder /\ server[s].cur \in Reminder \X Nat
  BY <1>1 DEF ServerState
<1>3. server' \in [Server -> ServerState] /\ \A t \in Server : Small(t)'
  <2>1. CASE Poll(s)
    <3>1. PICK batch \in SUBSET DueNow : Cardinality(batch) <= BatchSize /\ NextOf(s, batch)
      BY <2>1 DEF Poll
    <3>2. batch \in SUBSET Reminder
      BY DEF DueNow
    <3>3. QED
      BY <1>1, <3>1, <3>2, NextOfType
  <2>2. CASE Mark(s)
    <3>1. PICK r \in server[s].batch :
             \/ server' = [server EXCEPT ![s] = [at |-> "emit", batch |-> @.batch \ {r},
                                                 cur |-> <<r, armed[r]>>]]
             \/ NextOf(s, server[s].batch \ {r})
      BY <2>2 DEF Mark
    <3>2. Cardinality(server[s].batch \ {r}) <= BatchSize
      BY <1>1, <1>2, Smaller DEF Small
    <3>3. CASE NextOf(s, server[s].batch \ {r})
      BY <1>1, <1>2, <3>2, <3>3, NextOfType
    <3>4. CASE server' = [server EXCEPT ![s] = [at |-> "emit", batch |-> @.batch \ {r},
                                                cur |-> <<r, armed[r]>>]]
      <4>1. r \in Reminder
        BY <1>2
      <4>2. \A t \in Server : server'[t].batch = IF t = s THEN server[s].batch \ {r} ELSE server[t].batch
        BY <1>1, <3>4
      <4>3. \A t \in Server : Small(t)'
        BY <1>1, <3>2, <4>2 DEF Small
      <4>4. QED
        BY <1>1, <1>2, <3>4, <4>1, <4>3 DEF ServerState
    <3>5. QED
      BY <3>1, <3>3, <3>4
  <2>3. CASE Emit(s)
    <3>1. NextOf(s, server[s].batch)
      BY <2>3 DEF Emit
    <3>2. QED
      BY <1>1, <1>2, <3>1, NextOfType DEF Small
  <2>4. QED
    BY <2>1, <2>2, <2>3 DEF Tick
<1>4. rem' \in [Reminder -> Row \cup {NULL}]
  <2>1. CASE Mark(s)
    <3>1. PICK r \in server[s].batch :
             \/ Exists(r) /\ rem' = [rem EXCEPT ![r] = [rem[r] EXCEPT !.triggered = TRUE]]
             \/ UNCHANGED rem
      BY <2>1 DEF Mark
    <3>2. r \in Reminder
      BY <1>2
    <3>3. Exists(r) => [rem[r] EXCEPT !.triggered = TRUE] \in Row
      BY <1>1, <3>2, ExistsType, RowType
    <3>4. QED
      BY <1>1, <3>1, <3>2, <3>3
  <2>2. QED
    BY <1>1, <2>1 DEF Tick, Poll, Emit
<1>5. news' \in [Server -> SUBSET Reminder] /\ announced' \subseteq Reminder \X Nat
  BY <1>2 DEF TypeOK, Tick, Poll, Mark, Emit
<1>6. UNCHANGED <<client, shown, req, calls, faults, armed>>
  BY DEF Tick, Poll, Mark, Emit, screen, counts
<1>7. QED
  BY <1>3, <1>4, <1>5, <1>6 DEF TypeOK, ServerState, Small

\* The steps of neither a request nor a poll.
Around ==
    \/ \E p \in Proc, o \in OpNames, r \in Reminder : Begin(p, o, r)
    \/ \E s \in Server : Crash(s) \/ \E r \in Reminder : Deliver(s, r)
    \/ \E r \in Reminder : ComesDue(r) \/ AutoComplete(r) \/ Dismiss(r)
    \/ Connect \/ Fetch \/ Disconnect \/ Fail \/ FetchFails

LEMMA AroundTypes == TypeOK /\ Around => TypeOK'
<1> SUFFICES ASSUME TypeOK, Around PROVE TypeOK'
  OBVIOUS
<1>1. /\ server \in [Server -> ServerState] /\ \A t \in Server : Small(t)
      /\ req \in [Proc -> Request]
      /\ rem \in [Reminder -> Row \cup {NULL}]
  BY DEF TypeOK, ServerState, Small, Request
<1>2. ASSUME NEW p \in Proc, NEW o \in OpNames, NEW r \in Reminder, Begin(p, o, r) PROVE TypeOK'
  <2> DEFINE at == IF o = "create" THEN "count" ELSE "find"
             new == [Idle EXCEPT !.at = at, !.op = o, !.r = r]
  <2>1. new \in Request
    <3>1. at \in {"count", "find"}
      OBVIOUS
    <3> HIDE DEF at
    <3>2. QED
      BY <3>1, IdleType DEF Request
  <2>2. req' = [req EXCEPT ![p] = new]
    BY <1>2 DEF Begin
  <2>3. calls < MaxCalls /\ calls' = calls + 1
    BY <1>2 DEF Begin
  <2> HIDE DEF new
  <2>4. req' \in [Proc -> Request]
    BY <1>1, <2>1, <2>2
  <2>5. calls' \in 0..MaxCalls
    BY <2>3 DEF TypeOK
  <2>6. UNCHANGED <<rem, server, news, client, shown, faults, armed, announced>>
    BY <1>2 DEF Begin, screen
  <2>7. QED
    BY <2>4, <2>5, <2>6 DEF TypeOK, Request
<1>3. ASSUME NEW s \in Server, Crash(s) PROVE TypeOK'
  <2>1. server' = [server EXCEPT ![s] = Resting] /\ news' = [news EXCEPT ![s] = {}]
    BY <1>3 DEF Crash
  <2>2. server' \in [Server -> ServerState]
    BY <1>1, <2>1, RestingType
  <2>3. \A t \in Server : Cardinality(server'[t].batch) <= BatchSize
    <3>1. \A t \in Server : server'[t].batch = {} \/ server'[t] = server[t]
      BY <1>1, <2>1 DEF Resting
    <3>2. Cardinality({}) = 0
      BY FS_EmptySet
    <3>3. TAKE t \in Server
    <3>4. CASE server'[t].batch = {}
      BY <3>2, <3>4
    <3>5. CASE server'[t] = server[t]
      BY <1>1, <3>5 DEF Small
    <3>6. QED
      BY <3>1, <3>4, <3>5
  <2>4. faults' \in 0..MaxFaults
    BY <1>3 DEF Crash, TypeOK
  <2>5. UNCHANGED <<rem, client, shown, req, calls, armed, announced>>
    BY <1>3 DEF Crash, screen
  <2>6. QED
    BY <2>1, <2>2, <2>3, <2>4, <2>5 DEF TypeOK, ServerState
<1>4. ASSUME NEW s \in Server, NEW r \in Reminder, Deliver(s, r) PROVE TypeOK'
  BY <1>4 DEF Deliver, TypeOK, counts
<1>5. ASSUME NEW r \in Reminder, ComesDue(r) \/ AutoComplete(r) \/ Dismiss(r) PROVE TypeOK'
  <2>1. rem' \in [Reminder -> Row \cup {NULL}]
    <3>1. CASE ComesDue(r)
      BY <1>1, <3>1, ExistsType, RowType DEF ComesDue
    <3>2. CASE AutoComplete(r)
      <4>1. Exists(r) /\ rem' = [rem EXCEPT ![r] = [rem[r] EXCEPT !.completed = TRUE]]
        BY <3>2 DEF AutoComplete, Unacknowledged, Active
      <4>2. QED
        BY <1>1, <4>1, ExistsType, RowType
    <3>3. CASE Dismiss(r)
      BY <1>1, <3>3 DEF Dismiss
    <3>4. QED
      BY <1>5, <3>1, <3>2, <3>3
  <2>2. shown' \subseteq Reminder
    BY <1>5 DEF ComesDue, AutoComplete, Dismiss, screen, TypeOK
  <2>3. UNCHANGED <<server, news, client, req, calls, faults, armed, announced>>
    BY <1>5 DEF ComesDue, AutoComplete, Dismiss, screen, counts
  <2>4. QED
    BY <2>1, <2>2, <2>3 DEF TypeOK
<1>6. ASSUME Connect \/ Fetch \/ Disconnect \/ FetchFails PROVE TypeOK'
  BY <1>6 DEF Connect, Fetch, Disconnect, FetchFails, TypeOK, counts
<1>7. ASSUME Fail PROVE TypeOK'
  <2>1. UNCHANGED <<rem, news, client, shown, calls, armed, announced>> /\ faults' \in 0..MaxFaults
    BY <1>7 DEF Fail, screen, TypeOK
  <2>2. CASE \E p \in Proc : req[p].at # "idle" /\ Goto(p, "idle") /\ UNCHANGED server
    <3>1. req' \in [Proc -> Request]
      BY <1>1, <2>2, GotoType
    <3>2. QED
      BY <2>1, <2>2, <3>1 DEF TypeOK, Request
  <2>3. CASE /\ \E s \in Server : server[s].at = "loop"
                  /\ \E r \in server[s].batch : NextOf(s, server[s].batch \ {r})
             /\ UNCHANGED req
    <3>1. PICK s \in Server : \E r \in server[s].batch : NextOf(s, server[s].batch \ {r})
      BY <2>3
    <3> PICK r \in server[s].batch : NextOf(s, server[s].batch \ {r})
      BY <3>1
    <3>2. server[s].batch \in SUBSET Reminder
      BY <1>1 DEF ServerState
    <3>3. Cardinality(server[s].batch \ {r}) <= BatchSize
      BY <1>1, <3>2, Smaller DEF Small
    <3>4. server' \in [Server -> ServerState] /\ \A t \in Server : Small(t)'
      BY <1>1, <3>1, <3>2, <3>3, NextOfType
    <3>5. QED
      BY <2>1, <2>3, <3>4 DEF TypeOK, ServerState, Small
  <2>4. QED
    BY <1>7, <2>2, <2>3 DEF Fail
<1>8. QED
  BY <1>2, <1>3, <1>4, <1>5, <1>6, <1>7 DEF Around

LEMMA NextKinds ==
    ASSUME Next
    PROVE  (\E p \in Proc : Step(p)) \/ (\E s \in Server : Tick(s)) \/ Around
  BY DEF Next, Around

LEMMA StutterTypes == TypeOK /\ UNCHANGED vars => TypeOK'
  BY DEF vars, screen, counts, TypeOK

\* Rows, polls, requests and screens have their types in every state, and no
\* poll holds more than a batch.
THEOREM TypeCorrect == Spec => []TypeOK
<1>1. Init => TypeOK
  BY InitTypes
<1>2. TypeOK /\ [Next]_vars => TypeOK'
  BY NextKinds, RequestTypes, PollTypes, AroundTypes, StutterTypes
<1>3. QED
  BY <1>1, <1>2, PTL DEF Spec

-----------------------------------------------------------------------------
(* Each arming is announced once.                                            *)

\* No poll holds, and no event announced, an arming that has not been.
HeldWasArmed == \A s \in Server : Emitting(s) => server[s].cur[2] <= armed[server[s].cur[1]]
AnnouncedWasArmed == \A a \in announced : a[2] <= armed[a[1]]

\* The arming of a reminder that was not triggered is fresh: no poll holds it
\* and no event announced it.
Fresh(r) ==
    /\ <<r, armed[r]>> \notin announced
    /\ \A s \in Server : Emitting(s) => server[s].cur # <<r, armed[r]>>
Untriggered(r) == IF Exists(r) THEN ~rem[r].triggered ELSE FALSE
WaitingIsFresh == \A r \in Reminder : Untriggered(r) => Fresh(r)

Once == HeldWasArmed /\ AnnouncedWasArmed /\ WaitingIsFresh /\ AnnouncedOnce

LEMMA InitOnce == Init => Once
  BY DEF Init, Once, HeldWasArmed, AnnouncedWasArmed, WaitingIsFresh, Untriggered, Exists,
         AnnouncedOnce, Emitting, Resting

\* What neither sets a reminder, nor marks one, nor announces one.
Calm ==
    /\ armed' = armed /\ announced' = announced
    /\ \A s \in Server : Emitting(s)' => Emitting(s) /\ server'[s].cur = server[s].cur
    /\ \A r \in Reminder : Untriggered(r)' => Untriggered(r)

LEMMA CalmKeeps == ASSUME Once, Calm PROVE Once'
<1>1. HeldWasArmed' /\ AnnouncedWasArmed' /\ AnnouncedOnce'
  BY DEF Once, Calm, HeldWasArmed, AnnouncedWasArmed, AnnouncedOnce
<1>2. ASSUME NEW r \in Reminder, Untriggered(r)' PROVE Fresh(r)'
  <2>1. Fresh(r)
    BY <1>2 DEF Calm, Once, WaitingIsFresh
  <2>2. QED
    BY <2>1 DEF Calm, Fresh
<1>3. QED
  BY <1>1, <1>2 DEF Once, WaitingIsFresh

\* A reminder is set: its new arming is later than all that are held or announced.
LEMMA ArmKeeps ==
    ASSUME TypeOK, Once, NEW r \in Reminder,
           armed' = [armed EXCEPT ![r] = @ + 1], UNCHANGED <<server, announced>>,
           \A q \in Reminder \ {r} : Untriggered(q)' => Untriggered(q)
    PROVE  Once'
<1>1. /\ armed \in [Reminder -> Nat] /\ announced \subseteq Reminder \X Nat
      /\ server \in [Server -> ServerState]
  BY DEF TypeOK, ServerState
<1>2. \A s \in Server : server[s].cur \in Reminder \X Nat /\ Emitting(s)' = Emitting(s)
  BY <1>1 DEF ServerState, Emitting
<1>3. armed'[r] = armed[r] + 1 /\ \A q \in Reminder \ {r} : armed'[q] = armed[q]
  BY <1>1
<1>4. \A q \in Reminder : armed'[q] \in Nat /\ armed[q] \in Nat /\ armed[q] <= armed'[q]
  BY <1>1, <1>3
<1>5. HeldWasArmed'
  <2>1. ASSUME NEW s \in Server, Emitting(s) PROVE server[s].cur[2] <= armed'[server[s].cur[1]]
    <3>1. server[s].cur[1] \in Reminder /\ server[s].cur[2] \in Nat
      BY <1>2
    <3>2. server[s].cur[2] <= armed[server[s].cur[1]]
      BY <2>1 DEF Once, HeldWasArmed
    <3>3. QED
      BY <1>4, <3>1, <3>2
  <2>2. QED
    BY <1>2, <2>1 DEF HeldWasArmed
<1>6. AnnouncedWasArmed'
  <2>1. ASSUME NEW a \in announced PROVE a[2] <= armed'[a[1]]
    <3>1. a[1] \in Reminder /\ a[2] \in Nat
      BY <1>1
    <3>2. a[2] <= armed[a[1]]
      BY DEF Once, AnnouncedWasArmed
    <3>3. QED
      BY <1>4, <3>1, <3>2
  <2>2. QED
    BY <2>1 DEF AnnouncedWasArmed
<1>7. ASSUME NEW q \in Reminder, Untriggered(q)' PROVE Fresh(q)'
  <2>1. CASE q # r
    BY <1>2, <1>3, <1>7, <2>1 DEF Once, WaitingIsFresh, Fresh
  <2>2. CASE q = r
    <3>1. <<r, armed'[r]>> \notin announced
      <4>1. SUFFICES ASSUME <<r, armed'[r]>> \in announced PROVE FALSE
        OBVIOUS
      <4>2. <<r, armed'[r]>>[2] <= armed[<<r, armed'[r]>>[1]]
        BY <4>1 DEF Once, AnnouncedWasArmed
      <4>3. armed'[r] <= armed[r]
        BY <4>2
      <4>4. QED
        BY <1>3, <1>4, <4>3
    <3>2. ASSUME NEW s \in Server, Emitting(s), server[s].cur = <<r, armed'[r]>> PROVE FALSE
      <4>1. server[s].cur[2] <= armed[server[s].cur[1]]
        BY <3>2 DEF Once, HeldWasArmed
      <4>2. armed'[r] <= armed[r]
        BY <3>2, <4>1
      <4>3. QED
        BY <1>3, <1>4, <4>2
    <3>3. QED
      BY <1>2, <2>2, <3>1, <3>2 DEF Fresh
  <2>3. QED
    BY <2>1, <2>2
<1>8. AnnouncedOnce'
  BY <1>2 DEF Once, AnnouncedOnce
<1>9. QED
  BY <1>5, <1>6, <1>7, <1>8 DEF Once, WaitingIsFresh

LEMMA RequestOnce ==
    ASSUME TypeOK, Once, NEW p \in Proc, Step(p)
    PROVE  Once'
<1> DEFINE r == req[p].r
<1>1. /\ r \in Reminder /\ req[p].op \in OpNames /\ req[p].seen \in BOOLEAN
      /\ rem \in [Reminder -> Row \cup {NULL}]
  BY DEF TypeOK
<1>2. UNCHANGED <<server, announced>>
  BY DEF Step, CountActive, Insert, Find, Write, Reset, Delete
<1>3. CASE CountActive(p) \/ Find(p) \/ Write(p) \/ Delete(p)
  <2>1. UNCHANGED armed
    BY <1>3 DEF CountActive, Find, Write, Delete
  <2>2. ASSUME NEW q \in Reminder, Untriggered(q)' PROVE Untriggered(q)
    <3>1. CASE UNCHANGED rem
      BY <2>2, <3>1 DEF Untriggered, Exists
    <3>2. CASE Write(p) /\ Exists(r)
      <4>1. rem[r] \in Row
        BY <1>1, <3>2, ExistsType
      <4>2. rem' = [rem EXCEPT ![r] = Edited(rem[r], req[p].op, req[p].seen)]
        BY <3>2 DEF Write
      <4>3. ~Edited(rem[r], req[p].op, req[p].seen).triggered => ~rem[r].triggered
        BY <1>1, <4>1, EditedType
      <4>4. CASE q = r
        BY <1>1, <2>2, <3>2, <4>2, <4>3, <4>4 DEF Untriggered, Exists
      <4>5. CASE q # r
        BY <1>1, <2>2, <4>2, <4>5 DEF Untriggered, Exists
      <4>6. QED
        BY <4>4, <4>5
    <3>3. CASE Delete(p)
      BY <1>1, <2>2, <3>3 DEF Untriggered, Exists, Delete
    <3>4. QED
      BY <1>3, <3>1, <3>2, <3>3 DEF CountActive, Find, Write
  <2>3. QED
    BY <1>2, <2>1, <2>2, CalmKeeps DEF Calm, Emitting
<1>4. CASE Insert(p)
  <2>1. armed' = [armed EXCEPT ![r] = @ + 1] /\ rem' = [rem EXCEPT ![r] = NewRow]
    BY <1>4 DEF Insert
  <2>2. \A q \in Reminder \ {r} : Untriggered(q)' => Untriggered(q)
    BY <1>1, <2>1 DEF Untriggered, Exists
  <2>3. QED
    BY <1>1, <1>2, <2>1, <2>2, ArmKeeps
<1>5. CASE Reset(p)
  <2>1. CASE Exists(r)
    <3>1. /\ armed' = [armed EXCEPT ![r] = @ + 1]
          /\ rem' = [rem EXCEPT ![r] = [rem[r] EXCEPT !.triggered = FALSE]]
      BY <1>5, <2>1 DEF Reset
    <3>2. \A q \in Reminder \ {r} : Untriggered(q)' => Untriggered(q)
      BY <1>1, <3>1 DEF Untriggered, Exists
    <3>3. QED
      BY <1>1, <1>2, <3>1, <3>2, ArmKeeps
  <2>2. CASE ~Exists(r)
    <3>1. UNCHANGED <<rem, armed>>
      BY <1>5, <2>2 DEF Reset
    <3>2. QED
      BY <1>2, <3>1, CalmKeeps DEF Calm, Emitting, Untriggered, Exists
  <2>3. QED
    BY <2>1, <2>2
<1>6. QED
  BY <1>3, <1>4, <1>5 DEF Step

LEMMA AroundOnce ==
    ASSUME TypeOK, Once, Around
    PROVE  Once'
<1>1. /\ server \in [Server -> ServerState] /\ \A t \in Server : Small(t)
      /\ rem \in [Reminder -> Row \cup {NULL}]
  BY DEF TypeOK, ServerState, Small
<1>2. UNCHANGED <<armed, announced>>
  BY DEF Around, Begin, Crash, Deliver, ComesDue, AutoComplete, Dismiss, Connect, Fetch,
         Disconnect, Fail, FetchFails
<1>3. \A r \in Reminder : Untriggered(r)' => Untriggered(r)
  <2>1. ASSUME NEW q \in Reminder, ComesDue(q) \/ AutoComplete(q)
        PROVE  \A r \in Reminder : Untriggered(r)' => Untriggered(r)
    <3>1. /\ Exists(q)
          /\ \/ rem' = [rem EXCEPT ![q] = [rem[q] EXCEPT !.due = TRUE]]
             \/ rem' = [rem EXCEPT ![q] = [rem[q] EXCEPT !.completed = TRUE]]
      BY <2>1 DEF ComesDue, AutoComplete, Unacknowledged, Active
    <3>2. rem[q] \in Row
      BY <1>1, <3>1, ExistsType
    <3>3. rem'[q].triggered = rem[q].triggered
      <4>1. rem'[q] = [rem[q] EXCEPT !.due = TRUE] \/ rem'[q] = [rem[q] EXCEPT !.completed = TRUE]
        BY <1>1, <3>1
      <4>2. QED
        BY <3>2, <4>1, RowType
    <3>4. \A r \in Reminder \ {q} : rem'[r] = rem[r]
      BY <1>1, <3>1
    <3>5. QED
      BY <3>1, <3>3, <3>4 DEF Untriggered, Exists
  <2>2. CASE UNCHANGED rem
    BY <2>2 DEF Untriggered, Exists
  <2>3. QED
    BY <2>1, <2>2 DEF Around, Begin, Crash, Deliver, Dismiss, Connect, Fetch, Disconnect, Fail,
                      FetchFails
<1>4. \A s \in Server : Emitting(s)' => Emitting(s) /\ server'[s].cur = server[s].cur
  <2>1. ASSUME NEW t \in Server, Crash(t)
        PROVE  \A s \in Server : Emitting(s)' => Emitting(s) /\ server'[s].cur = server[s].cur
    BY <1>1, <2>1 DEF Crash, Emitting, Resting
  <2>2. ASSUME NEW t \in Server, NEW r \in server[t].batch, NextOf(t, server[t].batch \ {r})
        PROVE  \A s \in Server : Emitting(s)' => Emitting(s) /\ server'[s].cur = server[s].cur
    <3>1. server[t].batch \in SUBSET Reminder
      BY <1>1 DEF ServerState
    <3>2. Cardinality(server[t].batch \ {r}) <= BatchSize
      BY <1>1, <3>1, Smaller DEF Small
    <3>3. ~Emitting(t)' /\ \A s \in Server \ {t} : server'[s] = server[s]
      BY <1>1, <2>2, <3>1, <3>2, NextOfType
    <3>4. QED
      BY <3>3 DEF Emitting
  <2>3. CASE UNCHANGED server
    BY <2>3 DEF Emitting
  <2>4. QED
    BY <2>1, <2>2, <2>3 DEF Around, Begin, Deliver, ComesDue, AutoComplete, Dismiss, Connect,
                            Fetch, Disconnect, Fail, FetchFails
<1>5. QED
  BY <1>2, <1>3, <1>4, CalmKeeps DEF Calm

\* An instance marks r: it alone holds the arming of r, which was fresh.
LEMMA MarkOnce ==
    ASSUME TypeOK, Once, NEW s \in Server, NEW r \in server[s].batch,
           Exists(r), ~rem[r].triggered,
           rem' = [rem EXCEPT ![r].triggered = TRUE],
           server' = [server EXCEPT ![s] = [at |-> "emit", batch |-> @.batch \ {r},
                                            cur |-> <<r, armed[r]>>]],
           UNCHANGED <<armed, announced>>
    PROVE  Once'
<1>1. /\ server \in [Server -> ServerState] /\ rem \in [Reminder -> Row \cup {NULL}]
      /\ armed \in [Reminder -> Nat]
  BY DEF TypeOK, ServerState
<1>2. r \in Reminder
  BY <1>1 DEF ServerState
<1>3. /\ Emitting(s)' /\ server'[s].cur = <<r, armed[r]>>
      /\ \A t \in Server \ {s} : server'[t] = server[t] /\ (Emitting(t)' <=> Emitting(t))
  BY <1>1 DEF Emitting
<1>4. Fresh(r)
  BY <1>2 DEF Once, WaitingIsFresh, Untriggered
<1>5. HeldWasArmed'
  <2>1. server'[s].cur[2] <= armed[server'[s].cur[1]]
    BY <1>1, <1>2, <1>3
  <2>2. QED
    BY <1>3, <2>1 DEF Once, HeldWasArmed
<1>6. AnnouncedWasArmed'
  BY DEF Once, AnnouncedWasArmed
<1>7. ASSUME NEW q \in Reminder, Untriggered(q)' PROVE Fresh(q)'
  <2>1. ASSUME q = r PROVE FALSE
    <3>1. rem[r] \in Row
      BY <1>1, <1>2, ExistsType
    <3>2. rem'[r] = [rem[r] EXCEPT !.triggered = TRUE]
      BY <1>1, <1>2
    <3>3. rem'[r].triggered
      <4>1. [rem[r] EXCEPT !.triggered = TRUE].triggered
        BY <3>1, RowType
      <4>2. QED
        BY <3>2, <4>1
    <3>4. Exists(q)' /\ ~rem'[q].triggered
      BY <1>7 DEF Untriggered
    <3>5. QED
      BY <2>1, <3>3, <3>4
  <2>2. Untriggered(q)
    BY <1>1, <1>2, <1>7, <2>1 DEF Untriggered, Exists
  <2>3. Fresh(q)
    BY <2>2 DEF Once, WaitingIsFresh
  <2>4. <<r, armed[r]>> # <<q, armed[q]>>
    BY <2>1
  <2>5. QED
    BY <1>3, <2>3, <2>4 DEF Fresh
<1>8. AnnouncedOnce'
  BY <1>3, <1>4 DEF Once, AnnouncedOnce, Fresh
<1>9. QED
  BY <1>5, <1>6, <1>7, <1>8 DEF Once, WaitingIsFresh

\* An instance announces what it holds, which nobody else holds.
LEMMA EmitOnce ==
    ASSUME TypeOK, Once, NEW s \in Server, Emit(s)
    PROVE  Once'
<1>1. /\ server \in [Server -> ServerState] /\ \A t \in Server : Small(t)
  BY DEF TypeOK, ServerState, Small
<1>2. /\ Emitting(s) /\ announced' = announced \cup {server[s].cur}
      /\ NextOf(s, server[s].batch) /\ UNCHANGED <<rem, armed>>
  BY DEF Emit, Emitting
<1>3. ~Emitting(s)' /\ \A t \in Server \ {s} : server'[t] = server[t] /\ (Emitting(t)' <=> Emitting(t))
  <2>1. server[s].batch \in SUBSET Reminder /\ Cardinality(server[s].batch) <= BatchSize
    BY <1>1 DEF ServerState, Small
  <2>2. ~Emitting(s)' /\ \A t \in Server \ {s} : server'[t] = server[t]
    BY <1>1, <1>2, <2>1, NextOfType
  <2>3. QED
    BY <2>2 DEF Emitting
<1>4. HeldWasArmed'
  BY <1>2, <1>3 DEF Once, HeldWasArmed
<1>5. AnnouncedWasArmed'
  BY <1>2 DEF Once, AnnouncedWasArmed, HeldWasArmed
<1>6. ASSUME NEW q \in Reminder, Untriggered(q)' PROVE Fresh(q)'
  <2>1. Fresh(q)
    BY <1>2, <1>6 DEF Once, WaitingIsFresh, Untriggered, Exists
  <2>2. QED
    BY <1>2, <1>3, <2>1 DEF Fresh
<1>7. AnnouncedOnce'
  BY <1>2, <1>3 DEF Once, AnnouncedOnce
<1>8. QED
  BY <1>4, <1>5, <1>6, <1>7 DEF Once, WaitingIsFresh

LEMMA PollOnce ==
    ASSUME TypeOK, Once, NEW s \in Server, Tick(s)
    PROVE  Once'
<1>1. /\ server \in [Server -> ServerState] /\ \A t \in Server : Small(t)
  BY DEF TypeOK, ServerState, Small
\* A poll that begins, or that passes over a reminder.
<1>2. ASSUME NEW b \in SUBSET Reminder, Cardinality(b) <= BatchSize, NextOf(s, b),
             UNCHANGED <<rem, armed, announced>>
      PROVE  Once'
  <2>1. ~Emitting(s)' /\ \A t \in Server \ {s} : server'[t] = server[t]
    BY <1>1, <1>2, NextOfType
  <2>2. Calm
    BY <1>2, <2>1 DEF Calm, Emitting, Untriggered, Exists
  <2>3. QED
    BY <2>2, CalmKeeps
<1>3. CASE Poll(s)
  <2>1. PICK batch \in SUBSET DueNow : Cardinality(batch) <= BatchSize /\ NextOf(s, batch)
    BY <1>3 DEF Poll
  <2>2. batch \in SUBSET Reminder
    BY DEF DueNow
  <2>3. UNCHANGED <<rem, armed, announced>>
    BY <1>3 DEF Poll
  <2>4. QED
    BY <1>2, <2>1, <2>2, <2>3
<1>4. CASE Mark(s)
  <2>1. PICK r \in server[s].batch :
           \/ /\ Exists(r) /\ ~rem[r].triggered
              /\ rem' = [rem EXCEPT ![r].triggered = TRUE]
              /\ server' = [server EXCEPT ![s] = [at |-> "emit", batch |-> @.batch \ {r},
                                                  cur |-> <<r, armed[r]>>]]
           \/ NextOf(s, server[s].batch \ {r}) /\ UNCHANGED rem
    BY <1>4 DEF Mark
  <2>2. UNCHANGED <<armed, announced>>
    BY <1>4 DEF Mark
  <2>3. server[s].batch \in SUBSET Reminder /\ Cardinality(server[s].batch) <= BatchSize
    BY <1>1 DEF ServerState, Small
  <2>4. Cardinality(server[s].batch \ {r}) <= BatchSize
    BY <2>3, Smaller
  <2>5. QED
    BY <1>2, <2>1, <2>2, <2>3, <2>4, MarkOnce
<1>5. QED
  BY <1>3, <1>4, EmitOnce DEF Tick

LEMMA StutterOnce == Once /\ UNCHANGED vars => Once'
  BY DEF vars, Once, HeldWasArmed, AnnouncedWasArmed, WaitingIsFresh, Untriggered, Exists, Fresh,
         AnnouncedOnce, Emitting

\* An arming of a reminder is announced at most once, however many instances
\* poll: at any time it is with one instance, or announced, or neither.
THEOREM AnnouncedOnceHolds == Spec => []AnnouncedOnce
<1>1. Init => Once
  BY InitOnce
<1>2. TypeOK /\ Once /\ [Next]_vars => Once'
  BY NextKinds, RequestOnce, PollOnce, AroundOnce, StutterOnce
<1>3. Once => AnnouncedOnce
  BY DEF Once
<1>4. QED
  BY <1>1, <1>2, <1>3, TypeCorrect, PTL DEF Spec
=============================================================================
