------------------------- MODULE CallRegistryProofs -------------------------
(***************************************************************************)
(* Proofs about CallRegistry for every set of users, handlers and          *)
(* operations and every bound that a theorem does not name.                *)
(*                                                                         *)
(* LoggedBeforeGone relates a write and a removal that are several awaits  *)
(* apart. Tracked says what a handler carries from one to the other: who   *)
(* is about to remove a session knows its row (or the failure to write it) *)
(* to exist, and who is about to write a session back holds a live one.    *)
(*                                                                         *)
(* Registry says which call a handler ends, what it has seen of it and     *)
(* that only holders are inside the end lock. Over and Sole speak of one   *)
(* call that somebody is to end: who still has to remove its session, and  *)
(* that whoever waits has a holder to wait for.                            *)
(***************************************************************************)
EXTENDS CallRegistry, TLAPS
-----------------------------------------------------------------------------
\* There is a user.
LEMMA AnyUserType == AnyUser \in User
BY UserAssumption DEF AnyUser

\* Moving a handler to another control point keeps it a handler.
LEMMA GotoType ==
  ASSUME NEW p \in Proc, NEW l \in Labels, req \in [Proc -> Handler], Goto(p, l)
  PROVE  req' \in [Proc -> Handler]
<1>1. Idle \in Handler
  BY AnyUserType, BoundAssumption DEF Idle, Handler, Labels, OpNames, SessionStatus, CallId
<1>2. [req[p] EXCEPT !.at = l] \in Handler
  BY DEF Handler
<1> QED
  BY <1>1, <1>2 DEF Goto

\* What the lookups return.
LEMMA Lookups ==
  ASSUME TypeOK
  PROVE  /\ \A u \in User : Current(u) \in CallId \cup {0}
         /\ \A u \in User : Current(u) # 0 => session[Current(u)] # "none"
         /\ \A c \in CallId : session[c] \in SessionStatus
BY DEF TypeOK, Current

\* Every step of a handler keeps the handlers in their type.
LEMMA HandlerStep ==
  ASSUME TypeOK, NEW p \in Proc,
         Step(p) \/ Crash(p) \/ \E t \in Ops, c \in CallId : Begin(p, t[1], t[2], t[3], c)
  PROVE  req' \in [Proc -> Handler]
<1> USE DEF Labels
<1>0. req \in [Proc -> Handler] /\ req[p] \in Handler
  BY DEF TypeOK
<1>1. req[p].me \in User /\ req[p].after \in {"idle", "publish", "done", "clean1", "clean2"}
      /\ req[p].call \in CallId /\ req[p].target \in CallId
  BY <1>0 DEF Handler
<1>a. Idle \in Handler
  BY AnyUserType, BoundAssumption DEF Idle, Handler, OpNames, SessionStatus, CallId
<1>2. CASE \E t \in Ops, c \in CallId : Begin(p, t[1], t[2], t[3], c)
  <2> PICK t \in Ops, c \in CallId : Begin(p, t[1], t[2], t[3], c)
    BY <1>2
  <2> DEFINE l == CASE t[1] = "start" -> "caller" [] t[1] = "block" -> "between" [] OTHER -> "validate"
  <2>1. l \in Labels
    OBVIOUS
  <2>2. t[1] \in OpNames /\ t[2] \in User /\ t[3] \in User
    BY OpsAssumption
  <2>3. [Idle EXCEPT !.op = t[1], !.me = t[2], !.peer = t[3], !.call = c, !.at = l] \in Handler
    BY <1>a, <2>1, <2>2 DEF Idle, Handler
  <2>4. req' = [req EXCEPT ![p] = [Idle EXCEPT !.op = t[1], !.me = t[2], !.peer = t[3], !.call = c, !.at = l]]
    BY DEF Begin
  <2> QED
    BY <1>0, <2>3, <2>4
<1>3. CASE StartCaller(p) \/ StartCallee(p) \/ StartIndex(p)
  BY <1>0, <1>3, GotoType DEF StartCaller, StartCallee, StartIndex
<1>4. CASE StartStore(p)
  <2>1. calls + 1 \in CallId
    BY <1>4, BoundAssumption DEF StartStore, TypeOK, CallId
  <2>2. [req[p] EXCEPT !.at = "index", !.call = calls + 1] \in Handler
    BY <1>0, <2>1 DEF Handler
  <2> QED
    BY <1>0, <1>4, <2>2 DEF StartStore
<1>5. CASE Validate(p)
  <2> DEFINE c == Subject(p)
             l == CASE req[p].op \in Enders -> "endload" [] req[p].op = "media" -> "load2" [] OTHER -> "load"
  <2>1. CASE Permitted(p, c)
    <3>1. c \in CallId
      BY <1>1, <2>1, Lookups DEF Permitted, Subject
    <3>2. session[c] \in SessionStatus /\ l \in Labels
      BY <3>1, Lookups
    <3>3. [req[p] EXCEPT !.call = c, !.seen = session[c], !.at = l] \in Handler
      BY ZenonT(60), <1>0, <3>1, <3>2 DEF Handler
    <3> QED
      BY <1>0, <1>5, <2>1, <3>3 DEF Validate
  <2>2. CASE ~Permitted(p, c)
    BY <1>0, <1>5, <2>2, GotoType DEF Validate
  <2> QED
    BY <2>1, <2>2
<1>c. CASE RingingGrace(p)
  <2>1. [req[p] EXCEPT !.seen = "RINGING", !.at = "endload"] \in Handler
    BY <1>0 DEF Handler, Labels, SessionStatus
  <2> QED
    BY <1>0, <1>c, <2>1 DEF RingingGrace
<1>b. AfterDetail(p) => req' \in [Proc -> Handler]
  <2>1. [req[p] EXCEPT !.op = "media", !.at = "load2"] \in Handler
    BY ZenonT(60), <1>0 DEF Handler, OpNames
  <2> QED
    BY <1>0, <2>1, GotoType DEF AfterDetail
<1>6. CASE StatusLoad(p) \/ StatusSave(p) \/ DetailTtl(p) \/ DetailSave(p)
  BY <1>0, <1>6, <1>b, GotoType DEF StatusLoad, StatusSave, AfterStatus, DetailTtl, DetailSave
<1>7. CASE DetailLoad(p)
  <2>1. CASE req' = [req EXCEPT ![p] = [@ EXCEPT !.seen = session[req[p].call], !.at = "ttl"]]
    <3>1. session[req[p].call] \in SessionStatus
      BY <1>1, Lookups
    <3>2. [req[p] EXCEPT !.seen = session[req[p].call], !.at = "ttl"] \in Handler
      BY <1>0, <3>1 DEF Handler
    <3> QED
      BY <1>0, <2>1, <3>2
  <2> QED
    BY <1>7, <1>b, <2>1 DEF DetailLoad
<1>8. CASE EndLoad(p)
  <2> DEFINE f == Found(req[p].call)
  <2>1. f \in CallId \cup {0}
    BY <1>1, Lookups DEF Found, TypeOK
  <2>2. CASE f = 0
    BY <1>0, <1>8, <2>2, GotoType DEF EndLoad
  <2>3. CASE f # 0
    <3>1. [req[p] EXCEPT !.target = f, !.at = "lock"] \in Handler
      BY <1>0, <2>1, <2>3 DEF Handler
    <3> QED
      BY <1>0, <1>8, <2>3, <3>1 DEF EndLoad
  <2> QED
    BY <2>2, <2>3
<1>9. CASE Lock(p) \/ Cached(p) \/ Subscribe(p) \/ WaitTimesOut(p) \/ Release(p) \/ Unlock(p)
           \/ Orphan(p) \/ Done(p) \/ GraceLog(p) \/ RemoveLoad(p) \/ RemoveIndex(p) \/ RemoveSession(p)
           \/ EventThrows(p)
  BY <1>0, <1>1, <1>9, GotoType DEF Lock, Cached, Subscribe, WaitTimesOut, Release, Unlock,
     Orphan, Done, GraceLog, RemoveLoad, RemoveIndex, RemoveSession, EventThrows
<1>10. CASE Create(p)
  <2>1. [req[p] EXCEPT !.at = "rmload", !.after = "publish"] \in Handler
    BY <1>0 DEF Handler
  <2> QED
    BY <1>0, <1>10, <2>1, GotoType DEF Create
<1>11. ASSUME NEW l \in Labels, NEW m \in {"done", "clean1"}, Notify(p, l, m)
       PROVE  req' \in [Proc -> Handler]
  <2>1. [req[p] EXCEPT !.at = "release", !.after = m] \in Handler
    BY <1>0, <1>11 DEF Handler
  <2>2. \A q \in Proc : [req[q] EXCEPT !.at = l] \in Handler /\ req[q] \in Handler
    BY <1>0, <1>11 DEF Handler
  <2> QED
    BY <1>11, <2>1, <2>2 DEF Notify
<1>12. CASE Publish(p) \/ Fail(p)
  BY <1>11, <1>12 DEF Publish, Fail
<1>13. ASSUME NEW u \in User, NEW m \in {"clean2", "done", "idle"}, Grace(p, u, m)
       PROVE  req' \in [Proc -> Handler]
  <2>1. CASE Current(u) = 0
    BY <1>0, <1>13, <2>1, GotoType DEF Grace
  <2>2. CASE Current(u) # 0
    <3>1. Current(u) \in CallId /\ session[Current(u)] \in SessionStatus
      BY <2>2, Lookups
    <3>2. [req[p] EXCEPT !.at = "gracelog", !.after = m, !.target = Current(u),
                         !.seen = session[Current(u)]] \in Handler
      BY <1>0, <1>13, <3>1 DEF Handler
    <3> QED
      BY <1>0, <1>13, <2>2, <3>2 DEF Grace
  <2> QED
    BY <2>1, <2>2
<1>14. CASE CleanUp(p) \/ Between(p)
  <2>1. party[req[p].call].caller \in User /\ party[req[p].call].callee \in User
    BY <1>1 DEF TypeOK
  <2> QED
    BY <1>0, <1>1, <1>13, <1>14, <2>1, GotoType DEF CleanUp, Between
<1>15. CASE Crash(p)
  BY <1>0, <1>15, GotoType DEF Crash
<1> QED
  BY <1>2, <1>3, <1>4, <1>5, <1>c, <1>6, <1>7, <1>8, <1>9, <1>10, <1>12, <1>14, <1>15 DEF Step

\* Every step keeps every variable in its type.
LEMMA TypeStep == TypeOK /\ [Next]_vars => TypeOK'
<1> SUFFICES ASSUME TypeOK, [Next]_vars PROVE TypeOK'
  OBVIOUS
<1> USE BoundAssumption DEF redis, calling, story, faults
<1>1. ASSUME NEW p \in Proc, NEW t \in Ops, NEW c \in CallId, Begin(p, t[1], t[2], t[3], c)
      PROVE  TypeOK'
  BY <1>1, HandlerStep DEF Begin, TypeOK
<1>2. ASSUME NEW p \in Proc,
             \/ StartCaller(p) \/ StartCallee(p) \/ StatusLoad(p) \/ DetailTtl(p) \/ EndLoad(p)
             \/ Cached(p) \/ Subscribe(p) \/ WaitTimesOut(p) \/ Fail(p) \/ Release(p)
             \/ CleanUp(p) \/ RemoveLoad(p)
      PROVE  TypeOK'
  <2>1. req' \in [Proc -> Handler]
    BY <1>2, HandlerStep DEF Step
  <2> QED
    BY <1>2, <2>1 DEF StartCaller, StartCallee, StatusLoad, DetailTtl, EndLoad, Cached, Subscribe,
       WaitTimesOut, Fail, Release, CleanUp, RemoveLoad, TypeOK
<1>3. ASSUME NEW p \in Proc, StartStore(p) \/ StartIndex(p) PROVE TypeOK'
  <2>1. req' \in [Proc -> Handler] /\ req[p] \in Handler
    BY <1>3, HandlerStep DEF Step, TypeOK
  <2>2. CASE StartStore(p)
    <3>1. calls + 1 \in CallId /\ calls' \in 0..MaxCalls
      BY <2>2 DEF StartStore, TypeOK, CallId
    <3>2. [caller |-> req[p].me, callee |-> req[p].peer] \in [caller : User, callee : User]
      BY <2>1 DEF Handler
    <3>3. party' \in [CallId -> [caller : User, callee : User]]
      BY <2>2, <3>2 DEF StartStore, TypeOK
    <3>4. session' \in [CallId -> SessionStatus]
      BY <2>2 DEF StartStore, TypeOK, SessionStatus
    <3> QED
      BY <2>1, <2>2, <3>1, <3>3, <3>4 DEF StartStore, TypeOK
  <2>3. CASE StartIndex(p)
    <3>1. index' \in [User -> CallId \cup {0}]
      BY <2>1, <2>3 DEF StartIndex, TypeOK, Handler
    <3> QED
      BY <2>1, <2>3, <3>1 DEF StartIndex, TypeOK
  <2> QED
    BY <1>3, <2>2, <2>3
<1>4. ASSUME NEW p \in Proc, Validate(p) \/ RingingGrace(p) PROVE TypeOK'
  <2>1. req' \in [Proc -> Handler] /\ req[p] \in Handler
    BY <1>4, HandlerStep DEF Step, TypeOK
  <2>2. Permitted(p, Subject(p)) => Subject(p) \in CallId
    BY <2>1, Lookups DEF Permitted, Subject, Handler
  <2>3. CASE Validate(p)
    BY <2>1, <2>2, <2>3 DEF Validate, TypeOK
  <2>4. CASE RingingGrace(p)
    <3>1. req[p].call \in CallId
      BY <2>1 DEF Handler
    <3> QED
      BY <2>1, <2>4, <3>1 DEF RingingGrace, calling, redis, faults, TypeOK
  <2> QED
    BY <1>4, <2>3, <2>4
<1>5. ASSUME NEW p \in Proc, StatusSave(p) \/ DetailSave(p) \/ DetailLoad(p) \/ Done(p)
      PROVE  TypeOK'
  <2>1. req' \in [Proc -> Handler] /\ req[p] \in Handler
    BY <1>5, HandlerStep DEF Step, TypeOK
  <2>2. req[p].call \in CallId /\ req[p].seen \in SessionStatus
    BY <2>1 DEF Handler
  <2>3. session' \in [CallId -> SessionStatus]
    BY <1>5, <2>2 DEF StatusSave, DetailSave, DetailLoad, Done, TypeOK, SessionStatus
  <2> QED
    BY <1>5, <2>1, <2>2, <2>3 DEF StatusSave, DetailSave, DetailLoad, Done, EndOfStart, TypeOK
<1>6. ASSUME NEW p \in Proc,
             Lock(p) \/ Unlock(p) \/ Publish(p) \/ RemoveIndex(p) \/ RemoveSession(p)
      PROVE  TypeOK'
  <2>1. req' \in [Proc -> Handler]
    BY <1>6, HandlerStep DEF Step
  <2> QED
    BY ZenonT(60), <1>6, <2>1 DEF Lock, Unlock, Publish, RemoveIndex, RemoveSession, TypeOK, SessionStatus
<1>7. ASSUME NEW p \in Proc, Create(p) \/ Orphan(p) \/ GraceLog(p) PROVE TypeOK'
  <2>1. req' \in [Proc -> Handler] /\ req[p] \in Handler
    BY <1>7, HandlerStep DEF Step, TypeOK
  <2>2. req[p].target \in CallId
    BY <2>1 DEF Handler
  <2>3. Resolve(req[p].op, req[p].seen) \in CallStatus
    BY DEF Resolve, CallStatus
  <2>4. rows' \in [CallId -> [keyed : CallStatus \cup {"none"}, loose : 0..2]]
    <3> DEFINE t == req[p].target
               R == [keyed : CallStatus \cup {"none"}, loose : 0..2]
    <3>0. rows \in [CallId -> R]
      BY DEF TypeOK
    <3>1. \A c \in CallId : [rows[c] EXCEPT !.keyed = Resolve(req[p].op, req[p].seen)] \in R
      BY <2>3, <3>0
    <3>2. \A c \in CallId : [rows[c] EXCEPT !.loose = IF @ < 2 THEN @ + 1 ELSE @] \in R
      BY <3>0
    <3> QED
      BY <1>7, <3>0, <3>1, <3>2 DEF Create, Orphan, GraceLog
  <2>5. failures' \in Nat
    BY <1>7 DEF Create, Orphan, GraceLog, DbThrows, TypeOK
  <2>6. unlogged' \subseteq CallId
    BY <1>7, <2>2 DEF Create, Orphan, GraceLog, TypeOK
  <2> QED
    BY <1>7, <2>1, <2>4, <2>5, <2>6 DEF Create, Orphan, GraceLog, TypeOK
<1>8. ASSUME NEW p \in Proc, Between(p) PROVE TypeOK'
  <2>1. req' \in [Proc -> Handler]
    BY <1>8, HandlerStep DEF Step
  <2> QED
    BY <1>8, <2>1 DEF Between, TypeOK
<1>9. ASSUME NEW p \in Proc, Crash(p) PROVE TypeOK'
  BY <1>9, HandlerStep DEF Crash, TypeOK
<1>10. ASSUME NEW c \in CallId, LockExpires(c) \/ ResultExpires(c) \/ SessionExpires(c)
       PROVE  TypeOK'
  <2>1. CASE LockExpires(c)
    <3>1. expiries' \in Nat /\ endLock' \in [CallId -> Proc \cup {NULL}]
      BY <2>1 DEF LockExpires, TypeOK
    <3> QED
      BY <2>1, <3>1 DEF LockExpires, TypeOK
  <2>2. CASE ResultExpires(c)
    BY <2>2 DEF ResultExpires, TypeOK
  <2>3. CASE SessionExpires(c)
    BY <2>3 DEF SessionExpires, TypeOK, SessionStatus
  <2> QED
    BY <1>10, <2>1, <2>2, <2>3
<1>11. ASSUME NEW u \in User, IndexExpires(u) PROVE TypeOK'
  BY <1>11 DEF IndexExpires, TypeOK
<1>13. ASSUME NEW p \in Proc, EventThrows(p) PROVE TypeOK'
  <2>1. req' \in [Proc -> Handler]
    BY <1>13, HandlerStep DEF Step
  <2>2. failures' \in Nat
    BY <1>13 DEF EventThrows, DbThrows, TypeOK
  <2> QED
    BY <1>13, <2>1, <2>2 DEF EventThrows, TypeOK
<1>12. CASE UNCHANGED vars
  BY <1>12 DEF vars, TypeOK
<1> QED
  BY <1>1, <1>2, <1>3, <1>4, <1>5, <1>6, <1>7, <1>8, <1>9, <1>10, <1>11, <1>12,
     <1>13 DEF Next, Step

\* The initial state has the types.
LEMMA InitType == Init => TypeOK
<1> SUFFICES ASSUME Init PROVE TypeOK
  OBVIOUS
<1>1. Idle \in Handler
  BY AnyUserType, BoundAssumption DEF Idle, Handler, Labels, OpNames, SessionStatus, CallId
<1>2. req \in [Proc -> Handler] /\ endLock \in [CallId -> Proc \cup {NULL}]
  BY <1>1 DEF Init
<1>3. party \in [CallId -> [caller : User, callee : User]]
  BY AnyUserType DEF Init
<1>4. rows \in [CallId -> [keyed : CallStatus \cup {"none"}, loose : 0..2]]
  BY DEF Init
<1>5. session \in [CallId -> SessionStatus] /\ index \in [User -> CallId \cup {0}]
      /\ result \in [CallId -> BOOLEAN] /\ calls \in 0..MaxCalls
  BY BoundAssumption DEF Init, SessionStatus
<1> QED
  BY <1>2, <1>3, <1>4, <1>5 DEF Init, TypeOK

\* TypeOK is an invariant of the specification.
THEOREM TypeCorrect == Spec => []TypeOK
BY InitType, TypeStep, PTL DEF Spec

-----------------------------------------------------------------------------
Removing == {"rmload", "unindex", "delete"}

\* Whoever is about to remove a session has seen to its row, and whoever is
\* about to write a session back read one that existed.
RemovalLogged == \A p \in Proc : req[p].at \in Removing => Logged(req[p].target)
SavesLive     == \A p \in Proc : req[p].at \in {"ttl", "save2"} => req[p].seen # "none"

Tracked == TypeOK /\ RemovalLogged /\ SavesLive

\* Rows are only added.
LEMMA LoggedStays ==
  ASSUME TypeOK, [Next]_vars
  PROVE  \A c \in CallId : Logged(c) => Logged(c)'
<1>1. ASSUME NEW p \in Proc, Create(p) \/ Orphan(p) \/ GraceLog(p)
      PROVE  \A c \in CallId : Logged(c) => Logged(c)'
  <2>1. Resolve(req[p].op, req[p].seen) # "none"
    BY DEF Resolve
  <2>2. req[p].target \in CallId /\ req[p].call \in CallId
    BY DEF TypeOK, Handler
  <2>3. rows \in [CallId -> [keyed : CallStatus \cup {"none"}, loose : 0..2]]
    BY DEF TypeOK
  <2>4. ASSUME NEW t \in CallId, rows' = [rows EXCEPT ![t].keyed = Resolve(req[p].op, req[p].seen)],
               unlogged' = unlogged
        PROVE  \A c \in CallId : Logged(c) => Logged(c)'
    BY <2>1, <2>3, <2>4 DEF Logged
  <2>5. ASSUME NEW t \in CallId, rows' = [rows EXCEPT ![t].loose = IF @ < 2 THEN @ + 1 ELSE @],
               unlogged' = unlogged
        PROVE  \A c \in CallId : Logged(c) => Logged(c)'
    BY <2>3, <2>5 DEF Logged
  <2>6. CASE rows' = rows /\ unlogged \subseteq unlogged'
    BY <2>6 DEF Logged
  <2> QED
    BY <1>1, <2>2, <2>4, <2>5, <2>6 DEF Create, Orphan, GraceLog, story
<1>2. CASE UNCHANGED <<rows, unlogged>>
  BY <1>2 DEF Logged
<1>3. ASSUME NEW c \in CallId, SessionExpires(c)
      PROVE  \A d \in CallId : Logged(d) => Logged(d)'
  BY <1>3 DEF SessionExpires, Logged, story
<1>4. ASSUME NEW p \in Proc,
             Step(p) \/ Crash(p) \/ \E t \in Ops, c \in CallId : Begin(p, t[1], t[2], t[3], c)
      PROVE  Create(p) \/ Orphan(p) \/ GraceLog(p) \/ UNCHANGED <<rows, unlogged>>
  BY <1>4 DEF Step, story, Begin, StartCaller, StartCallee, StartStore, StartIndex, Validate,
     RingingGrace, StatusLoad, StatusSave, DetailLoad, DetailTtl, DetailSave, EndLoad, Lock, Cached, Subscribe,
     WaitTimesOut, Publish, EventThrows, Fail, Release, Unlock, Done, CleanUp, Between, RemoveLoad, RemoveIndex,
     RemoveSession, Crash
<1>5. ASSUME NEW c \in CallId, LockExpires(c) \/ ResultExpires(c)
      PROVE  UNCHANGED <<rows, unlogged>>
  BY <1>5 DEF LockExpires, ResultExpires, story
<1>6. ASSUME NEW u \in User, IndexExpires(u) PROVE UNCHANGED <<rows, unlogged>>
  BY <1>6 DEF IndexExpires, story
<1>7. UNCHANGED vars => UNCHANGED <<rows, unlogged>>
  BY DEF vars, story
<1> HIDE DEF Logged
<1> QED
  BY <1>1, <1>2, <1>3, <1>4, <1>5, <1>6, <1>7 DEF Next

\* Logged(c) in the next state, for a c of this one.
LoggedNext(c) == rows'[c].keyed # "none" \/ rows'[c].loose > 0 \/ c \in unlogged'

Carrying == Removing \cup {"ttl", "save2"}

\* What a step may do to a handler that carries something.
Carries(q) ==
    \/ req'[q].at \notin Carrying
    \/ {req[q].at, req'[q].at} \subseteq Removing /\ req'[q].target = req[q].target
    \/ {req[q].at, req'[q].at} \subseteq {"ttl", "save2"} /\ req'[q].seen = req[q].seen
    \/ req'[q].at = "rmload" /\ LoggedNext(req'[q].target)
    \/ req'[q].at = "ttl" /\ req'[q].seen # "none"

LEMMA CarriesTracked ==
  ASSUME Tracked, TypeOK', [Next]_vars, \A q \in Proc : Carries(q)
  PROVE  Tracked'
<1>1. \A c \in CallId : Logged(c) => Logged(c)'
  BY LoggedStays DEF Tracked
<1>2. \A q \in Proc : req[q].target \in CallId
  BY DEF Tracked, TypeOK, Handler
<1>3. RemovalLogged'
  BY <1>1, <1>2 DEF Carries, Tracked, RemovalLogged, Carrying, Removing, Logged, LoggedNext
<1>4. SavesLive'
  BY DEF Carries, Tracked, SavesLive, Carrying, Removing
<1> QED
  BY <1>3, <1>4 DEF Tracked

\* A handler that moves to a control point where it carries nothing, or that
\* goes on with what it carries.
LEMMA GotoCarries ==
  ASSUME TypeOK, NEW p \in Proc, NEW l \in Labels, Goto(p, l),
         \/ l \notin Carrying
         \/ {req[p].at, l} \subseteq Removing
         \/ {req[p].at, l} \subseteq {"ttl", "save2"}
  PROVE  \A q \in Proc : Carries(q)
<1>1. req[p] \in Handler /\ req \in [Proc -> Handler]
  BY DEF TypeOK
<1>2. \A q \in Proc : q # p => req'[q] = req[q]
  BY <1>1 DEF Goto
<1>3. l # "idle" => req'[p] = [req[p] EXCEPT !.at = l]
  BY <1>1 DEF Goto
<1>4. l = "idle" => req'[p].at = "idle"
  BY <1>1 DEF Goto, Idle
<1>5. Carries(p)
  BY <1>1, <1>3, <1>4 DEF Carries, Carrying, Removing, Handler
<1> QED
  BY <1>2, <1>5 DEF Carries, Carrying

\* Tracked is inductive.
LEMMA TrackedStep == Tracked /\ [Next]_vars => Tracked'
<1> SUFFICES ASSUME Tracked, [Next]_vars PROVE Tracked'
  OBVIOUS
<1>0. TypeOK /\ TypeOK' /\ req \in [Proc -> Handler]
  BY TypeStep DEF Tracked, TypeOK
<1>2. ASSUME NEW p \in Proc, NEW t \in Ops, NEW c \in CallId, Begin(p, t[1], t[2], t[3], c)
      PROVE  Tracked'
  <2>1. req'[p].at \in {"caller", "between", "validate"}
    BY <1>0, <1>2 DEF Begin
  <2>2. \A q \in Proc : q # p => req'[q] = req[q]
    BY <1>0, <1>2 DEF Begin
  <2>3. \A q \in Proc : Carries(q)
    BY <2>1, <2>2 DEF Carries, Carrying, Removing
  <2> QED
    BY <1>0, <2>3, CarriesTracked
<1>3. ASSUME NEW p \in Proc, Step(p) \/ Crash(p) PROVE Tracked'
  <2>0. req[p].after \in {"idle", "publish", "done", "clean1", "clean2"} /\ req[p].target \in CallId
        /\ req[p].call \in CallId
    BY <1>0 DEF Handler
  <2>1. ASSUME NEW l \in Labels, Goto(p, l), l \notin Carrying PROVE Tracked'
    BY <1>0, <2>1, GotoCarries, CarriesTracked
  <2>2. CASE \/ StartCaller(p) \/ StartCallee(p) \/ StartIndex(p) \/ StatusLoad(p) \/ StatusSave(p)
             \/ Lock(p) \/ Cached(p) \/ Subscribe(p) \/ WaitTimesOut(p) \/ Release(p)
             \/ Unlock(p) \/ Orphan(p) \/ Done(p) \/ RemoveSession(p) \/ EventThrows(p) \/ Crash(p)
    <3>1. \E l \in Labels \ Carrying : Goto(p, l)
      BY <2>0, <2>2 DEF StartCaller, StartCallee, StartIndex, StatusLoad, StatusSave, AfterStatus,
         Lock, Cached, Subscribe, WaitTimesOut, Release, Unlock, Orphan, Done, RemoveSession,
         EventThrows, Crash, Labels, Carrying, Removing
    <3> QED
      BY <2>1, <3>1
  <2>3. CASE DetailTtl(p) \/ RemoveLoad(p) \/ RemoveIndex(p)
    <3>1. \E l \in Labels : Goto(p, l) /\ (\/ l \notin Carrying
                                           \/ {req[p].at, l} \subseteq Removing
                                           \/ {req[p].at, l} \subseteq {"ttl", "save2"})
      BY <2>3 DEF DetailTtl, RemoveLoad, RemoveIndex, Labels, Carrying, Removing
    <3> QED
      BY <1>0, <3>1, GotoCarries, CarriesTracked
  <2>4. ASSUME NEW r, req' = [req EXCEPT ![p] = r],
               \/ r.at \notin Carrying
               \/ r.at = "rmload" /\ LoggedNext(r.target)
               \/ r.at = "ttl" /\ r.seen # "none"
        PROVE  Tracked'
    <3>1. req'[p] = r /\ \A q \in Proc : q # p => req'[q] = req[q]
      BY <1>0, <2>4
    <3>2. \A q \in Proc : Carries(q)
      BY <2>4, <3>1 DEF Carries, Carrying
    <3> QED
      BY <1>0, <3>2, CarriesTracked
  <2>14. AfterDetail(p) => Tracked'
    <3> DEFINE r == [req[p] EXCEPT !.op = "media", !.at = "load2"]
    <3>1. r.at = "load2"
      BY <1>0 DEF Handler
    <3> QED
      BY <2>1, <2>4, <3>1 DEF AfterDetail, Labels, Carrying, Removing
  <2>5. CASE StartStore(p)
    <3> DEFINE r == [req[p] EXCEPT !.at = "index", !.call = calls + 1]
    <3>1. r.at = "index"
      BY <1>0 DEF Handler
    <3>2. req' = [req EXCEPT ![p] = r]
      BY <2>5 DEF StartStore
    <3> QED
      BY <2>4, <3>1, <3>2 DEF Carrying, Removing
  <2>6. CASE Validate(p)
    <3> DEFINE c == Subject(p)
               l == CASE req[p].op \in Enders -> "endload" [] req[p].op = "media" -> "load2" [] OTHER -> "load"
               r == [req[p] EXCEPT !.call = c, !.seen = session[c], !.at = l]
    <3>1. CASE Permitted(p, c)
      <4>1. r.at = l
        BY <1>0 DEF Handler
      <4>2. l \in {"endload", "load2", "load"}
        OBVIOUS
      <4>3. req' = [req EXCEPT ![p] = r]
        BY <2>6, <3>1 DEF Validate
      <4> HIDE DEF r, l
      <4> QED
        BY <2>4, <4>1, <4>2, <4>3 DEF Carrying, Removing
    <3>2. CASE ~Permitted(p, c)
      BY <2>1, <2>6, <3>2 DEF Validate, Labels, Carrying, Removing
    <3> QED
      BY <3>1, <3>2
  <2>16. CASE RingingGrace(p)
    <3> DEFINE r == [req[p] EXCEPT !.seen = "RINGING", !.at = "endload"]
    <3>1. r.at = "endload"
      BY <1>0 DEF Handler
    <3>2. req' = [req EXCEPT ![p] = r]
      BY <2>16 DEF RingingGrace
    <3> QED
      BY <2>4, <3>1, <3>2 DEF Carrying, Removing
  <2>7. CASE DetailLoad(p)
    <3> DEFINE r == [req[p] EXCEPT !.seen = session[req[p].call], !.at = "ttl"]
    <3>1. r.at = "ttl" /\ r.seen = session[req[p].call]
      BY <1>0 DEF Handler
    <3>2. CASE session[req[p].call] = "none"
      BY <2>14, <2>7, <3>2 DEF DetailLoad
    <3>3. CASE session[req[p].call] # "none"
      <4>1. req' = [req EXCEPT ![p] = r]
        BY <2>7, <3>3 DEF DetailLoad
      <4> QED
        BY <2>4, <3>1, <3>3, <4>1
    <3> QED
      BY <3>2, <3>3
  <2>8. CASE EndLoad(p)
    <3> DEFINE r == [req[p] EXCEPT !.target = Found(req[p].call), !.at = "lock"]
    <3>1. r.at = "lock"
      BY <1>0 DEF Handler
    <3>2. Goto(p, "orphan") \/ req' = [req EXCEPT ![p] = r]
      BY <2>8 DEF EndLoad
    <3> QED
      BY <2>1, <2>4, <3>1, <3>2 DEF Labels, Carrying, Removing
  <2>9. CASE Create(p)
    <3> DEFINE r == [req[p] EXCEPT !.at = "rmload", !.after = "publish"]
               v == Resolve(req[p].op, req[p].seen)
    <3>1. r.at = "rmload" /\ r.target = req[p].target
      BY <1>0 DEF Handler
    <3>2. CASE rows' = [rows EXCEPT ![req[p].target].keyed = v] /\ req' = [req EXCEPT ![p] = r]
      <4>1. v # "none"
        BY DEF Resolve
      <4>2. rows'[req[p].target].keyed = v
        BY <1>0, <2>0, <3>2 DEF TypeOK
      <4>3. LoggedNext(r.target)
        BY <3>1, <4>1, <4>2 DEF LoggedNext
      <4> QED
        BY <2>4, <3>1, <3>2, <4>3
    <3>3. CASE Goto(p, "fail")
      BY <2>1, <3>3 DEF Labels, Carrying, Removing
    <3> QED
      BY <2>9, <3>2, <3>3 DEF Create
  <2>10. CASE GraceLog(p)
    <3> DEFINE r == [req[p] EXCEPT !.at = "rmload"]
    <3>1. r.at = "rmload" /\ r.target = req[p].target
      BY <1>0 DEF Handler
    <3>2. LoggedNext(req[p].target)
      <4>1. rows[req[p].target].loose \in 0..2 /\ rows \in [CallId -> [keyed : CallStatus \cup {"none"}, loose : 0..2]]
        BY <1>0, <2>0 DEF TypeOK
      <4>2. CASE rows' = [rows EXCEPT ![req[p].target].loose = IF @ < 2 THEN @ + 1 ELSE @]
        <5>1. rows'[req[p].target].loose > 0
          BY <2>0, <4>1, <4>2
        <5> QED
          BY <5>1 DEF LoggedNext
      <4>3. CASE unlogged' = unlogged \cup {req[p].target}
        BY <4>3 DEF LoggedNext
      <4> QED
        BY <2>10, <4>2, <4>3 DEF GraceLog
    <3>3. req' = [req EXCEPT ![p] = r]
      BY <2>10 DEF GraceLog, Goto
    <3> QED
      BY <2>4, <3>1, <3>2, <3>3
  <2>11. CASE Publish(p) \/ Fail(p)
    <3>1. ASSUME NEW l \in {"done", "endload"}, NEW m, Notify(p, l, m)
          PROVE  Tracked'
      <4>1. \A q \in Proc : q # p => req'[q] = req[q] \/ req'[q].at = l
        BY <1>0, <3>1 DEF Notify, Handler
      <4>2. req'[p].at = "release"
        BY <1>0, <3>1 DEF Notify, Handler
      <4>3. \A q \in Proc : Carries(q)
        BY <3>1, <4>1, <4>2 DEF Carries, Carrying, Removing
      <4> QED
        BY <1>0, <4>3, CarriesTracked
    <3> QED
      BY <2>11, <3>1 DEF Publish, Fail
  <2>12. ASSUME NEW u, NEW l \in {"clean2", "done", "idle"}, Grace(p, u, l) PROVE Tracked'
    <3> DEFINE r == [req[p] EXCEPT !.at = "gracelog", !.after = l, !.target = Current(u),
                                   !.seen = session[Current(u)]]
    <3>1. r.at = "gracelog"
      BY <1>0 DEF Handler
    <3>2. Goto(p, l) \/ req' = [req EXCEPT ![p] = r]
      BY <2>12 DEF Grace
    <3> QED
      BY <2>1, <2>4, <2>12, <3>1, <3>2 DEF Labels, Carrying, Removing
  <2>13. CASE CleanUp(p) \/ Between(p)
    BY <2>1, <2>12, <2>13 DEF CleanUp, Between, Labels, Carrying, Removing
  <2> QED
    BY <1>3, <2>2, <2>3, <2>14, <2>5, <2>6, <2>7, <2>8, <2>9, <2>10, <2>11, <2>13, <2>16 DEF Step, DetailSave
<1>4. CASE UNCHANGED req
  <2>1. \A q \in Proc : Carries(q)
    BY <1>4 DEF Carries, Carrying
  <2> QED
    BY <1>0, <2>1, CarriesTracked
<1> QED
  BY <1>2, <1>3, <1>4 DEF Next, vars, LockExpires, ResultExpires, SessionExpires, IndexExpires

\* Initially nobody carries anything.
LEMMA InitTracked == Init => Tracked
<1> SUFFICES ASSUME Init PROVE Tracked
  OBVIOUS
<1>1. \A p \in Proc : req[p].at = "idle"
  BY DEF Init, Idle
<1> QED
  BY <1>1, InitType DEF Tracked, RemovalLogged, SavesLive, Removing

\* The steps of a handler that write a session.
LEMMA SessionWriters ==
  ASSUME NEW p \in Proc,
         Step(p) \/ Crash(p) \/ \E t \in Ops, d \in CallId : Begin(p, t[1], t[2], t[3], d)
  PROVE  \/ StartStore(p) \/ StatusSave(p) \/ DetailSave(p) \/ RemoveSession(p)
         \/ UNCHANGED session
BY DEF Step, redis, Begin, StartCaller, StartCallee, StartIndex, Validate, RingingGrace, StatusLoad,
     DetailLoad, DetailTtl, EndLoad, Lock, Cached, Subscribe, WaitTimesOut, Create, Publish, EventThrows, Fail,
     Release, Unlock, Orphan, Done, CleanUp, Between, GraceLog, RemoveLoad, RemoveIndex, Crash

\* A step that takes a session out of Redis finds or leaves its row.
LEMMA GoneStep ==
  ASSUME Tracked, [Next]_vars, NEW c \in CallId, session[c] # "none", session'[c] = "none"
  PROVE  Logged(c)'
<1>0. TypeOK /\ \A d \in CallId : Logged(d) => Logged(d)'
  BY LoggedStays DEF Tracked
<1>1. CASE Logged(c)
  BY <1>0, <1>1
<1>2. ASSUME NEW p \in Proc, StartStore(p) \/ StatusSave(p) PROVE FALSE
  BY <1>0, <1>2 DEF StartStore, StatusSave, TypeOK
<1>3. ASSUME NEW p \in Proc, DetailSave(p) PROVE FALSE
  <2>1. req[p].seen # "none"
    BY <1>3 DEF DetailSave, Tracked, SavesLive
  <2> QED
    BY <1>0, <1>3, <2>1 DEF DetailSave, TypeOK
<1>4. ASSUME NEW p \in Proc, RemoveSession(p) PROVE Logged(c)
  <2>1. req[p].target = c
    BY <1>0, <1>4 DEF RemoveSession, TypeOK
  <2> QED
    BY <1>4, <2>1 DEF RemoveSession, Tracked, RemovalLogged, Removing
<1>5. ASSUME NEW d \in CallId, SessionExpires(d) PROVE Logged(c)'
  <2>1. d = c
    BY <1>0, <1>5 DEF SessionExpires, TypeOK
  <2>2. c \in unlogged'
    BY <1>5, <2>1 DEF SessionExpires
  <2> QED
    BY <2>2 DEF Logged
<1>6. CASE UNCHANGED session
  BY <1>6
<1>7. ASSUME NEW p \in Proc,
             Step(p) \/ Crash(p) \/ \E t \in Ops, d \in CallId : Begin(p, t[1], t[2], t[3], d)
      PROVE  \/ StartStore(p) \/ StatusSave(p) \/ DetailSave(p) \/ RemoveSession(p)
             \/ UNCHANGED session
  BY <1>7, SessionWriters
<1>8. ASSUME NEW d \in CallId, LockExpires(d) \/ ResultExpires(d) PROVE UNCHANGED session
  BY <1>8 DEF LockExpires, ResultExpires
<1>9. ASSUME NEW u \in User, IndexExpires(u) PROVE UNCHANGED session
  BY <1>9 DEF IndexExpires
<1>10. UNCHANGED vars => UNCHANGED session
  BY DEF vars, redis
<1> HIDE DEF Logged
<1> QED
  BY <1>1, <1>2, <1>3, <1>4, <1>5, <1>6, <1>7, <1>8, <1>9, <1>10 DEF Next

\* No session leaves Redis before its CallHistory row is written or its failure
\* is logged, whatever the handlers do to each other.
THEOREM LoggedBeforeGoneHolds == Spec => LoggedBeforeGone
<1>1. Tracked /\ [Next]_vars =>
        [\A c \in CallId : session[c] # "none" /\ session'[c] = "none" => Logged(c)']_vars
  BY GoneStep
<1> QED
  BY <1>1, InitTracked, TrackedStep, PTL DEF Spec, LoggedBeforeGone
-----------------------------------------------------------------------------
(* What a handler knows about its call and its lock.                         *)

\* The control points at which the handler's call has been started.
Naming == Labels \ {"idle", "caller", "callee", "store", "validate", "between"}

\* Those at which its target has.
Targeting == {"lock", "cached", "subscribe", "wait", "create", "publish", "fail", "release",
              "unlock", "gracelog"} \cup Removing

\* Those of an ender between the session it read and the row it writes.
Ending == {"endload", "lock", "cached", "subscribe", "wait", "create", "orphan"}

Fits(p) ==
    /\ req[p].call <= calls \/ req[p].call = 1
    /\ req[p].at \in Naming \/ (req[p].at = "validate" /\ req[p].op = "gone") => req[p].call <= calls
    /\ req[p].at \in Targeting => req[p].target <= calls
    /\ (req[p].at \in Ending \cup {"ttl", "save2"} /\ req[p].seen = "ACTIVE") => req[p].call \in answered
    /\ req[p].at \in {"lock", "cached", "subscribe", "wait", "create"} => Related(req[p].target, req[p].call)
    /\ req[p].at = "gracelog" => req[p].after # "publish"
    /\ req[p].at \in {"release", "unlock"} => req[p].after \in {"done", "clean1"}
    /\ (expiries = 0 /\ InLock(p)) => endLock[req[p].target] = p

\* Redis and the rows name calls that were started, and an index entry a call
\* of its user.
Calls ==
    /\ asked \cup answered \subseteq 1..calls
    /\ \A c \in CallId :
         /\ session[c] # "none" \/ rows[c].keyed # "none" => c <= calls
         /\ session[c] = "ACTIVE" => c \in answered
         /\ rows[c].keyed = "COMPLETED" => \E d \in answered : Related(c, d)
    /\ \A u \in User : index[u] <= calls /\ (index[u] # 0 => u \in Parties(index[u]))

Registry == TypeOK /\ (\A p \in Proc : Fits(p)) /\ Calls

LEMMA RegistryFacts ==
  ASSUME Registry, NEW p \in Proc
  PROVE  /\ TypeOK /\ Fits(p) /\ Calls /\ req \in [Proc -> Handler] /\ req[p] \in Handler
         /\ req[p].at \in Labels /\ req[p].op \in OpNames /\ req[p].me \in User /\ req[p].peer \in User
         /\ req[p].call \in CallId /\ req[p].target \in CallId /\ req[p].seen \in SessionStatus
         /\ req[p].after \in {"idle", "publish", "done", "clean1", "clean2"}
         /\ calls \in Nat /\ calls <= MaxCalls /\ expiries \in Nat
  BY BoundAssumption DEF Registry, TypeOK, Handler

\* Where a handler goes, and that nobody else moves.
LEMMA GotoMove ==
  ASSUME TypeOK, NEW p \in Proc, NEW l \in Labels, Goto(p, l)
  PROVE  \E d \in Handler :
           /\ req' = [req EXCEPT ![p] = d] /\ d.at = l
           /\ l = "idle" => d.call = 1
           /\ l # "idle" => /\ d.op = req[p].op /\ d.me = req[p].me /\ d.peer = req[p].peer
                            /\ d.call = req[p].call /\ d.target = req[p].target
                            /\ d.seen = req[p].seen /\ d.after = req[p].after
<1>0. req[p] \in Handler
  BY DEF TypeOK
<1>1. CASE l = "idle"
  <2>1. Idle \in Handler /\ Idle.at = "idle" /\ Idle.call = 1
    BY AnyUserType, BoundAssumption DEF Idle, Handler, Labels, OpNames, SessionStatus, CallId
  <2> QED
    BY <1>1, <2>1 DEF Goto
<1>2. CASE l # "idle"
  <2> DEFINE d == [req[p] EXCEPT !.at = l]
  <2>1. /\ d \in Handler /\ d.at = l /\ d.op = req[p].op /\ d.me = req[p].me /\ d.peer = req[p].peer
        /\ d.call = req[p].call /\ d.target = req[p].target
        /\ d.seen = req[p].seen /\ d.after = req[p].after
    BY <1>0 DEF Handler
  <2>2. req' = [req EXCEPT ![p] = d]
    BY <1>2 DEF Goto
  <2> HIDE DEF d
  <2> QED
    BY <1>2, <2>1, <2>2
<1> QED
  BY <1>1, <1>2

LEMMA Moved ==
  ASSUME TypeOK, NEW p \in Proc, NEW d \in Handler, req' = [req EXCEPT ![p] = d]
  PROVE  req'[p] = d /\ \A q \in Proc : q # p => req'[q] = req[q]
  BY DEF TypeOK

\* A step of one handler leaves the others what they know, if it takes no lock
\* that another holds.
LEMMA OthersFit ==
  ASSUME Registry, NEW q \in Proc, req'[q] = req[q], UNCHANGED <<calls, party>>, answered \subseteq answered',
         expiries' = 0 => expiries = 0,
         expiries' = 0 /\ InLock(q) => endLock'[req[q].target] = endLock[req[q].target]
  PROVE  Fits(q)'
<1>1. Fits(q)
  BY DEF Registry
<1>2. InLock(q)' <=> InLock(q)
  BY DEF InLock
<1>3. (expiries = 0 /\ InLock(q))' => (endLock[req[q].target] = q)'
  BY <1>1, <1>2 DEF Fits
<1>4. Related(req[q].target, req[q].call)' <=> Related(req[q].target, req[q].call)
  BY DEF Related, Parties
<1> QED
  BY <1>1, <1>3, <1>4 DEF Fits

LEMMA QuietInv ==
  ASSUME Registry, TypeOK', NEW p \in Proc, NEW d \in Handler, req' = [req EXCEPT ![p] = d],
         UNCHANGED <<calls, party, session, index, answered, endLock, expiries>>,
         asked' \subseteq 1..calls, \A c \in CallId : rows'[c].keyed = rows[c].keyed,
         Fits(p)'
  PROVE  Registry'
<1>1. req'[p] = d /\ \A q \in Proc : q # p => req'[q] = req[q]
  BY Moved DEF Registry
<1>2. \A q \in Proc : Fits(q)'
  BY <1>1, OthersFit
<1>3. Calls'
  <2>1. Calls
    BY DEF Registry
  <2>2. \A c, d1 : Related(c, d1)' <=> Related(c, d1)
    BY DEF Related, Parties
  <2> QED
    BY <2>1, <2>2 DEF Calls, Parties
<1> QED
  BY <1>2, <1>3 DEF Registry

\* A handler that only moves on, to a point that asks for no more than it knows.
LEMMA GotoInv ==
  ASSUME Registry, TypeOK', NEW p \in Proc, NEW l \in Labels, Goto(p, l),
         UNCHANGED <<calls, party, session, index, answered, endLock, expiries>>,
         asked' \subseteq 1..calls, \A c \in CallId : rows'[c].keyed = rows[c].keyed,
         l \in Naming => req[p].at \in Naming,
         l \in Targeting => req[p].at \in Targeting,
         l \in Ending \cup {"ttl", "save2"} => req[p].at \in Ending \cup {"ttl", "save2"},
         l \in {"lock", "cached", "subscribe", "wait", "create"} =>
           req[p].at \in {"lock", "cached", "subscribe", "wait", "create"},
         l \notin {"gracelog", "validate"},
         l \in {"release", "unlock"} => req[p].at \in {"release", "unlock"},
         l \in {"create", "publish", "fail", "release", "unlock"} => InLock(p),
         (l \in Removing /\ req[p].after = "publish") => InLock(p)
  PROVE  Registry'
<1>0. TypeOK /\ Fits(p)
  BY DEF Registry
<1>1. PICK d \in Handler :
           /\ req' = [req EXCEPT ![p] = d] /\ d.at = l
           /\ l = "idle" => d.call = 1
           /\ l # "idle" => /\ d.op = req[p].op /\ d.me = req[p].me /\ d.peer = req[p].peer
                            /\ d.call = req[p].call /\ d.target = req[p].target
                            /\ d.seen = req[p].seen /\ d.after = req[p].after
  BY <1>0, GotoMove
<1>2. req'[p] = d
  BY <1>0, <1>1, Moved
<1>3. Fits(p)'
  <2>1. CASE l = "idle"
    BY <1>1, <1>2, <2>1 DEF Fits, Naming, Targeting, Ending, InLock, Removing
  <2>2. CASE l # "idle"
    <3>1. InLock(p)' => InLock(p)
      BY <1>1, <1>2, <2>2 DEF InLock, Removing
    <3>2. Related(req[p].target, req[p].call)' <=> Related(req[p].target, req[p].call)
      BY <1>1, <1>2, <2>2 DEF Related, Parties
    <3> QED
      BY <1>0, <1>1, <1>2, <2>2, <3>1, <3>2 DEF Fits
  <2> QED
    BY <2>1, <2>2
<1> QED
  BY <1>1, <1>3, QuietInv

\* The steps that only decide where to go on.
LEMMA DecideInv ==
  ASSUME Registry, TypeOK', NEW p \in Proc,
         \/ StartCaller(p) \/ StartCallee(p) \/ StatusLoad(p) \/ DetailTtl(p) \/ Cached(p)
         \/ Subscribe(p) \/ WaitTimesOut(p) \/ EventThrows(p) \/ Release(p) \/ Done(p)
         \/ RemoveLoad(p) \/ Crash(p)
  PROVE  Registry'
<1> USE DEF redis, calling, story, faults
<1>0. TypeOK /\ Fits(p) /\ asked \subseteq 1..calls /\ req[p].at \in Labels
  BY RegistryFacts DEF Calls
<1>1. UNCHANGED <<calls, party, session, index, answered, asked, rows, endLock, expiries>>
  BY DEF StartCaller, StartCallee, StatusLoad, DetailTtl, Cached, Subscribe, WaitTimesOut, EventThrows,
     Release, Done, RemoveLoad, Crash
<1>2. CASE StartCaller(p) \/ StartCallee(p)
  BY <1>0, <1>1, <1>2, GotoInv DEF StartCaller, StartCallee, Labels, Naming, Targeting, Ending, Removing
<1>3. CASE StatusLoad(p) \/ DetailTtl(p)
  BY <1>0, <1>1, <1>3, GotoInv DEF StatusLoad, AfterStatus, DetailTtl, Labels, Naming, Targeting, Ending, Removing
<1>4. CASE Cached(p) \/ Subscribe(p) \/ WaitTimesOut(p)
  BY <1>0, <1>1, <1>4, GotoInv DEF Cached, Subscribe, WaitTimesOut, Labels, Naming, Targeting, Ending, Removing
<1>5. CASE EventThrows(p)
  <2>1. Goto(p, "fail") /\ req[p].at = "publish"
    BY <1>5 DEF EventThrows
  <2> QED
    BY <1>0, <1>1, <2>1, GotoInv DEF Labels, Naming, Targeting, Ending, Removing, InLock
<1>6. CASE Release(p)
  <2>1. PICK l \in {"unlock", "done", "clean1"} : Goto(p, l) /\ req[p].at = "release"
    BY <1>0, <1>6 DEF Release, Fits
  <2> QED
    BY <1>0, <1>1, <2>1, GotoInv DEF Labels, Naming, Targeting, Ending, Removing, InLock
<1>7. CASE Done(p) \/ Crash(p)
  <2>1. Goto(p, "idle")
    BY <1>7 DEF Done, Crash
  <2> QED
    BY <1>0, <1>1, <2>1, GotoInv DEF Labels, Naming, Targeting, Ending, Removing
<1>8. CASE RemoveLoad(p)
  <2>1. PICK l \in {"delete", "unindex"} : Goto(p, l) /\ req[p].at = "rmload"
    BY <1>8 DEF RemoveLoad
  <2> QED
    BY <1>0, <1>1, <2>1, GotoInv DEF Labels, Naming, Targeting, Ending, Removing, InLock
<1> QED
  BY <1>2, <1>3, <1>4, <1>5, <1>6, <1>7, <1>8

\* The start of a handler and of a call.
LEMMA BeginInv ==
  ASSUME Registry, TypeOK', NEW p \in Proc, NEW t \in Ops, NEW c \in CallId, Begin(p, t[1], t[2], t[3], c)
  PROVE  Registry'
<1>0. TypeOK /\ Calls /\ calls \in Nat /\ t[1] \in OpNames
  BY RegistryFacts, OpsAssumption
<1> DEFINE l == CASE t[1] = "start" -> "caller" [] t[1] = "block" -> "between" [] OTHER -> "validate"
           d == [Idle EXCEPT !.op = t[1], !.me = t[2], !.peer = t[3], !.call = c, !.at = l]
<1>1. l \in {"caller", "between", "validate"}
  OBVIOUS
<1>2. req' = [req EXCEPT ![p] = d]
  BY DEF Begin
<1>3. d \in Handler /\ d.at \in {"caller", "between", "validate"} /\ d.call = c /\ d.op = t[1]
  <2>1. Idle \in Handler
    BY AnyUserType, BoundAssumption DEF Idle, Handler, Labels, OpNames, SessionStatus, CallId
  <2>2. t[2] \in User /\ t[3] \in User /\ l \in Labels
    BY <1>1, OpsAssumption DEF Labels
  <2> HIDE DEF l
  <2> QED
    BY <1>0, <1>1, <2>1, <2>2 DEF Idle, Handler
<1>4. (c <= calls \/ c = 1) /\ (t[1] = "gone" => c <= calls)
  BY <1>0 DEF Begin, OpNames
<1> HIDE DEF d
<1>5. req'[p] = d
  BY <1>0, <1>2, <1>3, Moved
<1>6. UNCHANGED <<calls, party, session, index, answered, asked, rows, endLock, expiries>>
  BY DEF Begin, redis, story, faults
<1>7. Fits(p)'
  BY <1>3, <1>4, <1>5, <1>6 DEF Fits, Naming, Targeting, Ending, Removing, InLock
<1> QED
  BY <1>0, <1>2, <1>3, <1>6, <1>7, QuietInv DEF Calls

LEMMA StartStoreInv == ASSUME Registry, TypeOK', NEW p \in Proc, StartStore(p) PROVE Registry'
<1>0. TypeOK /\ Calls /\ calls \in Nat /\ calls + 1 \in CallId /\ CallId \subseteq Nat
  BY RegistryFacts, BoundAssumption DEF StartStore, CallId
<1> DEFINE d == [req[p] EXCEPT !.at = "index", !.call = calls + 1]
<1>1. d \in Handler /\ d.at = "index" /\ d.call = calls + 1
  <2>1. req[p] \in Handler
    BY RegistryFacts
  <2> QED
    BY <1>0, <2>1 DEF Handler, Labels
<1>2. req' = [req EXCEPT ![p] = d] /\ calls' = calls + 1
      /\ session' = [session EXCEPT ![calls + 1] = "RINGING"]
      /\ UNCHANGED <<index, endLock, rows, asked, answered, expiries>>
  BY DEF StartStore, story, faults
<1>3. \A c \in CallId : c <= calls => party'[c] = party[c]
  BY <1>0 DEF StartStore, TypeOK
<1> HIDE DEF d
<1>4. req'[p] = d /\ \A q \in Proc : q # p => req'[q] = req[q]
  BY <1>0, <1>1, <1>2, Moved
<1>5. ASSUME NEW q \in Proc PROVE Fits(q)'
  <2>1. CASE q = p
    BY <1>0, <1>1, <1>2, <1>4, <2>1 DEF Fits, Naming, Targeting, Ending, Removing, InLock
  <2>2. CASE q # p
    <3>1. Fits(q) /\ req'[q] = req[q] /\ req[q].call \in CallId /\ req[q].target \in CallId
      BY <1>4, <2>2, RegistryFacts
    <3>2. req[q].at \in {"lock", "cached", "subscribe", "wait", "create"} =>
            /\ party'[req[q].call] = party[req[q].call] /\ party'[req[q].target] = party[req[q].target]
      BY <1>3, <3>1 DEF Fits, Naming, Targeting, Labels
    <3>3. req[q].at \in {"lock", "cached", "subscribe", "wait", "create"} =>
            Related(req[q].target, req[q].call)'
      BY <3>1, <3>2 DEF Fits, Related, Parties
    <3>4. InLock(q)' <=> InLock(q)
      BY <3>1 DEF InLock
    <3>a. req[q].call \in Nat /\ req[q].target \in Nat /\ calls \in Nat /\ calls' = calls + 1
      BY <1>0, <1>2, <3>1
    <3>5. req[q].call <= calls => req[q].call <= calls'
      BY <3>a
    <3>6. req[q].target <= calls => req[q].target <= calls'
      BY <3>a
    <3> QED
      BY <1>2, <3>1, <3>3, <3>4, <3>5, <3>6 DEF Fits
  <2> QED
    BY <2>1, <2>2
<1>6. Calls'
  <2>1. asked \cup answered \subseteq 1..calls'
    BY <1>0, <1>2 DEF Calls
  <2>2. ASSUME NEW c \in CallId
        PROVE  /\ session'[c] # "none" \/ rows[c].keyed # "none" => c <= calls'
               /\ session'[c] = "ACTIVE" => c \in answered
    <3>1. (session[c] # "none" \/ rows[c].keyed # "none" => c <= calls) /\ (session[c] = "ACTIVE" => c \in answered)
      BY <1>0 DEF Calls
    <3>2. session'[c] = IF c = calls + 1 THEN "RINGING" ELSE session[c]
      BY <1>0, <1>2 DEF TypeOK
    <3> QED
      BY <1>0, <1>2, <3>1, <3>2
  <2>3. ASSUME NEW c \in CallId, rows[c].keyed = "COMPLETED"
        PROVE  \E e \in answered : Related(c, e)'
    <3>1. PICK e \in answered : Related(c, e)
      BY <1>0, <2>3 DEF Calls
    <3>2. e \in CallId /\ e <= calls /\ c <= calls
      BY <1>0, <2>3, <3>1 DEF Calls, TypeOK
    <3>3. party'[c] = party[c] /\ party'[e] = party[e]
      BY <1>3, <3>2
    <3> QED
      BY <3>1, <3>3 DEF Related, Parties
  <2>4. ASSUME NEW u \in User
        PROVE  index[u] <= calls' /\ (index[u] # 0 => u \in {party'[index[u]].caller, party'[index[u]].callee})
    <3>1. index[u] \in Nat /\ index[u] <= calls /\ (index[u] # 0 => u \in Parties(index[u]))
      <4>1. index[u] \in CallId \cup {0}
        BY <1>0 DEF TypeOK
      <4>2. index[u] <= calls /\ (index[u] # 0 => u \in Parties(index[u]))
        BY <1>0 DEF Calls
      <4>3. index[u] \in Nat
        BY <4>1, BoundAssumption DEF CallId
      <4> QED
        BY <4>2, <4>3
    <3>2. index[u] # 0 => index[u] \in CallId
      BY <1>0 DEF TypeOK
    <3>3. index[u] # 0 => party'[index[u]] = party[index[u]]
      BY <1>3, <3>1, <3>2
    <3> QED
      BY <1>0, <1>2, <3>1, <3>3 DEF Parties
  <2> QED
    BY <1>2, <2>1, <2>2, <2>3, <2>4 DEF Calls, Parties
<1> QED
  BY <1>5, <1>6 DEF Registry

\* What a step may write to Redis and to the rows.
LEMMA CallsInv ==
  ASSUME Registry, UNCHANGED <<calls, party>>, answered \subseteq answered',
         asked' \cup answered' \subseteq 1..calls,
         \A c \in CallId : session'[c] = session[c] \/ session'[c] = "none" \/
            (c <= calls /\ (session'[c] = "ACTIVE" => c \in answered')),
         \A c \in CallId : rows'[c].keyed = rows[c].keyed \/
            (c <= calls /\ (rows'[c].keyed = "COMPLETED" => \E d \in answered : Related(c, d))),
         \A u \in User : index'[u] = index[u] \/ index'[u] = 0 \/
            (index'[u] <= calls /\ u \in Parties(index'[u]))
  PROVE  Calls'
<1>0. Calls /\ calls \in Nat
  BY BoundAssumption DEF Registry, TypeOK
<1>1. ASSUME NEW c \in CallId
      PROVE  /\ session'[c] # "none" \/ rows'[c].keyed # "none" => c <= calls
             /\ session'[c] = "ACTIVE" => c \in answered'
  BY <1>0, <1>1 DEF Calls
<1>2. ASSUME NEW c \in CallId, rows'[c].keyed = "COMPLETED"
      PROVE  \E d \in answered' : Related(c, d)'
  <2>1. PICK d \in answered : Related(c, d)
    BY <1>0, <1>2 DEF Calls
  <2>2. Related(c, d)'
    BY <2>1 DEF Related, Parties
  <2> QED
    BY <2>1, <2>2
<1>3. ASSUME NEW u \in User
      PROVE  index'[u] <= calls' /\ (index'[u] # 0 => u \in Parties(index[u])')
  <2>1. index[u] <= calls /\ (index[u] # 0 => u \in Parties(index[u]))
    BY <1>0 DEF Calls
  <2>2. CASE index'[u] = index[u]
    BY <2>1, <2>2 DEF Parties
  <2>3. CASE index'[u] = 0
    BY <1>0, <2>3
  <2>4. CASE index'[u] <= calls /\ u \in Parties(index'[u])
    BY <2>4 DEF Parties
  <2> QED
    BY <2>2, <2>3, <2>4
<1> QED
  BY <1>1, <1>2, <1>3 DEF Calls

LEMMA OwnInv ==
  ASSUME Registry, TypeOK', NEW p \in Proc, NEW d \in Handler, req' = [req EXCEPT ![p] = d],
         UNCHANGED <<calls, party, expiries>>, answered \subseteq answered',
         \A q \in Proc : (q # p /\ expiries = 0 /\ InLock(q)) => endLock'[req[q].target] = endLock[req[q].target],
         Fits(p)', Calls'
  PROVE  Registry'
<1>1. req'[p] = d /\ \A q \in Proc : q # p => req'[q] = req[q]
  BY Moved DEF Registry
<1>2. \A q \in Proc : Fits(q)'
  BY <1>1, OthersFit
<1> QED
  BY <1>2 DEF Registry

LEMMA StartIndexInv == ASSUME Registry, TypeOK', NEW p \in Proc, StartIndex(p) PROVE Registry'
<1>0. TypeOK /\ Fits(p) /\ Calls
  BY DEF Registry
<1>1. PICK d \in Handler : /\ req' = [req EXCEPT ![p] = d] /\ d.at = "load2" /\ d.call = req[p].call
                           /\ d.op = req[p].op
  BY <1>0, GotoMove DEF StartIndex, Labels
<1>2. req'[p] = d
  BY <1>0, <1>1, Moved
<1>3. /\ UNCHANGED <<calls, party, session, rows, asked, answered, endLock, expiries>>
      /\ req[p].at = "index"
      /\ index' = [u \in User |-> IF u \in Parties(req[p].call) THEN req[p].call ELSE index[u]]
  BY DEF StartIndex, calling, story, faults
<1>4. req[p].call <= calls
  BY <1>0, <1>3 DEF Fits, Naming, Labels
<1>5. Fits(p)'
  BY <1>1, <1>2, <1>3, <1>4 DEF Fits, Targeting, Ending, Removing, InLock
<1>6. Calls'
  <2>1. \A u \in User : index'[u] = index[u] \/ (index'[u] <= calls /\ u \in Parties(index'[u]))
    BY <1>3, <1>4
  <2> QED
    BY <1>0, <1>3, <2>1, CallsInv DEF Calls
<1> QED
  BY <1>1, <1>3, <1>5, <1>6, OwnInv

LEMMA StatusSaveInv == ASSUME Registry, TypeOK', NEW p \in Proc, StatusSave(p) PROVE Registry'
<1>0. TypeOK /\ Fits(p) /\ Calls /\ req[p].call \in CallId
  BY RegistryFacts
<1>1. PICK d \in Handler : /\ req' = [req EXCEPT ![p] = d] /\ d.at \in {"idle", "load2"}
                           /\ d.at = "idle" => d.call = 1
                           /\ d.at # "idle" => d.call = req[p].call
  <2>1. PICK l \in {"idle", "load2"} : Goto(p, l)
    BY DEF StatusSave, AfterStatus
  <2> QED
    BY <1>0, <2>1, GotoMove DEF Labels
<1>2. req'[p] = d
  BY <1>0, <1>1, Moved
<1>3. /\ UNCHANGED <<calls, party, index, rows, asked, endLock, expiries>> /\ req[p].at = "save"
      /\ session' = [session EXCEPT ![req[p].call] = IF req[p].op = "drop" THEN "RECONNECTING" ELSE "ACTIVE"]
      /\ answered' = IF req[p].op = "drop" THEN answered ELSE answered \cup {req[p].call}
  BY DEF StatusSave, calling, story, faults
<1>4. req[p].call <= calls
  BY <1>0, <1>3 DEF Fits, Naming, Labels
<1>5. Fits(p)'
  BY <1>1, <1>2, <1>3, <1>4 DEF Fits, Naming, Targeting, Ending, Removing, InLock
<1>6. Calls'
  <2>1. ASSUME NEW c \in CallId
        PROVE  session'[c] = session[c] \/ (c <= calls /\ (session'[c] = "ACTIVE" => c \in answered'))
    BY <1>0, <1>3, <1>4 DEF TypeOK
  <2>2. req[p].call \in 1..calls
    BY <1>0, <1>4, BoundAssumption DEF CallId, TypeOK
  <2> QED
    BY <1>0, <1>3, <2>1, <2>2, CallsInv DEF Calls
<1> QED
  BY <1>1, <1>3, <1>5, <1>6, OwnInv

LEMMA ValidateInv == ASSUME Registry, TypeOK', NEW p \in Proc, Validate(p) PROVE Registry'
<1>0. TypeOK /\ Fits(p) /\ Calls /\ req[p] \in Handler
  BY RegistryFacts
<1>1. UNCHANGED <<calls, party, session, index, rows, answered, endLock, expiries>>
  BY DEF Validate, redis, faults
<1>2. CASE Permitted(p, Subject(p))
  <2> DEFINE l == CASE req[p].op \in Enders -> "endload" [] req[p].op = "media" -> "load2" [] OTHER -> "load"
  <2>1. Subject(p) \in CallId
    BY <1>0, <1>2, Lookups DEF Permitted, Subject, Handler
  <2>2. PICK c \in CallId : Subject(p) = c
    BY <2>1
  <2>3. session[c] # "none" /\ session[c] \in SessionStatus
    BY <1>0, <1>2, <2>2 DEF Permitted, TypeOK
  <2>4. c <= calls /\ (session[c] = "ACTIVE" => c \in answered)
    BY <1>0, <2>3 DEF Calls
  <2> DEFINE d == [req[p] EXCEPT !.call = c, !.seen = session[c], !.at = l]
  <2>5. l \in {"endload", "load2", "load"}
    OBVIOUS
  <2>6. req' = [req EXCEPT ![p] = d] /\ asked' \subseteq asked \cup {c}
    BY <1>2, <2>2 DEF Validate
  <2> HIDE DEF l
  <2>7. d \in Handler /\ d.at \in {"endload", "load2", "load"} /\ d.call = c /\ d.seen = session[c]
    BY <1>0, <2>3, <2>5 DEF Handler, Labels
  <2> HIDE DEF d
  <2>8. req'[p] = d
    BY <1>0, <2>6, <2>7, Moved
  <2>9. Fits(p)'
    BY <1>1, <2>4, <2>7, <2>8 DEF Fits, Naming, Targeting, Ending, Removing, InLock
  <2>10. c \in 1..calls
    BY <1>0, <2>4, BoundAssumption DEF CallId, TypeOK
  <2>11. asked' \subseteq 1..calls
    BY <1>0, <2>6, <2>10 DEF Calls
  <2> QED
    BY <1>1, <2>6, <2>7, <2>9, <2>11, QuietInv
<1>3. CASE ~Permitted(p, Subject(p))
  <2>1. Goto(p, "idle") /\ UNCHANGED asked
    BY <1>3 DEF Validate
  <2> QED
    BY <1>0, <1>1, <2>1, GotoInv DEF Labels, Naming, Targeting, Ending, Removing, Calls
<1> QED
  BY <1>2, <1>3

\* The grace timer ends a call that was started, whatever became of it.
LEMMA RingingInv == ASSUME Registry, TypeOK', NEW p \in Proc, RingingGrace(p) PROVE Registry'
<1>0. TypeOK /\ Fits(p) /\ Calls /\ req[p] \in Handler
  BY RegistryFacts
<1>1. UNCHANGED <<calls, party, session, index, rows, answered, endLock, expiries>>
  BY DEF RingingGrace, calling, redis, faults
<1>2. req[p].call \in 1..calls
  BY <1>0, BoundAssumption DEF RingingGrace, Fits, Handler, CallId, TypeOK
<1>3. PICK c \in 1..calls : req[p].call = c
  BY <1>2
<1> DEFINE d == [req[p] EXCEPT !.seen = "RINGING", !.at = "endload"]
<1>4. d \in Handler /\ d.at = "endload" /\ d.call = c /\ d.seen = "RINGING"
  BY <1>0, <1>3 DEF Handler, Labels, SessionStatus
<1>5. req' = [req EXCEPT ![p] = d] /\ asked' = asked \cup {c}
  BY <1>3 DEF RingingGrace
<1> HIDE DEF d
<1>6. req'[p] = d
  BY <1>0, <1>4, <1>5, Moved
<1>7. Fits(p)'
  BY <1>0, <1>1, <1>3, <1>4, <1>6 DEF Fits, Naming, Targeting, Ending, Removing, InLock, TypeOK
<1>8. asked' \subseteq 1..calls
  BY <1>0, <1>5 DEF Calls
<1> QED
  BY <1>1, <1>4, <1>5, <1>7, <1>8, QuietInv

\* Where a detail update goes on.
LEMMA AfterDetailMove ==
  ASSUME TypeOK, NEW p \in Proc, AfterDetail(p)
  PROVE  \E d \in Handler : /\ req' = [req EXCEPT ![p] = d] /\ d.at \in {"idle", "load2"}
                            /\ d.at = "idle" => d.call = 1
                            /\ d.at # "idle" => d.call = req[p].call
                            /\ d.at = "load2" => req[p].op = "accept" /\ d.op = "media"
<1>0. req[p] \in Handler
  BY DEF TypeOK
<1>1. CASE req[p].op = "accept"
  <2> DEFINE d == [req[p] EXCEPT !.op = "media", !.at = "load2"]
  <2>1. d \in Handler /\ d.at = "load2" /\ d.call = req[p].call /\ d.op = "media"
    BY ZenonT(60), <1>0 DEF Handler, Labels, OpNames
  <2>2. req' = [req EXCEPT ![p] = d]
    BY <1>1 DEF AfterDetail
  <2> HIDE DEF d
  <2> QED
    BY <1>1, <2>1, <2>2
<1>2. CASE req[p].op # "accept"
  BY <1>2, GotoMove DEF AfterDetail, Labels
<1> QED
  BY <1>1, <1>2

LEMMA DetailInv == ASSUME Registry, TypeOK', NEW p \in Proc, DetailLoad(p) \/ DetailSave(p) PROVE Registry'
<1>0. TypeOK /\ Fits(p) /\ Calls /\ req[p] \in Handler /\ req[p].call \in CallId
  BY RegistryFacts
<1>1. UNCHANGED <<calls, party, index, rows, answered, asked, endLock, expiries>>
      /\ req[p].at \in {"load2", "save2"}
  BY DEF DetailLoad, DetailSave, redis, story, faults
<1>2. PICK c \in CallId : req[p].call = c
  BY <1>0
<1>3. c <= calls /\ (session[c] = "ACTIVE" => c \in answered)
      /\ ((req[p].at = "save2" /\ req[p].seen = "ACTIVE") => c \in answered)
  BY <1>0, <1>1, <1>2 DEF Fits, Calls, Naming, Labels
<1>4. PICK d \in Handler :
        /\ req' = [req EXCEPT ![p] = d] /\ d.at \in {"idle", "load2", "ttl"}
        /\ d.at = "idle" => d.call = 1
        /\ d.at # "idle" => d.call = c
        /\ d.at = "ttl" => d.seen = session[c]
  <2>1. CASE AfterDetail(p)
    BY <1>0, <1>2, <2>1, AfterDetailMove
  <2>2. CASE req' = [req EXCEPT ![p] = [@ EXCEPT !.seen = session[req[p].call], !.at = "ttl"]]
    <3> DEFINE d == [req[p] EXCEPT !.seen = session[c], !.at = "ttl"]
    <3>1. session[c] \in SessionStatus
      BY <1>0 DEF TypeOK
    <3>2. d \in Handler /\ d.at = "ttl" /\ d.call = c /\ d.seen = session[c]
      BY <1>0, <1>2, <3>1 DEF Handler, Labels
    <3>3. req' = [req EXCEPT ![p] = d]
      BY <1>2, <2>2
    <3> HIDE DEF d
    <3> QED
      BY <3>2, <3>3
  <2> QED
    BY <2>1, <2>2 DEF DetailLoad, DetailSave
<1>5. req'[p] = d
  BY <1>0, <1>4, Moved
<1>6. Fits(p)'
  BY <1>1, <1>3, <1>4, <1>5 DEF Fits, Naming, Targeting, Ending, Removing, InLock
<1>7. session' = session \/ (session' = [session EXCEPT ![c] = req[p].seen] /\ req[p].at = "save2")
  BY <1>2 DEF DetailLoad, DetailSave, redis
<1>8. Calls'
  <2>1. ASSUME NEW e \in CallId
        PROVE  session'[e] = session[e] \/ (e <= calls /\ (session'[e] = "ACTIVE" => e \in answered))
    BY <1>0, <1>3, <1>7 DEF TypeOK
  <2> QED
    BY <1>0, <1>1, <2>1, CallsInv DEF Calls
<1> QED
  BY <1>1, <1>4, <1>6, <1>8, OwnInv

\* A call that endCall turns to has a user in common with the one it was given.
LEMMA FoundFacts ==
  ASSUME TypeOK, Calls, NEW c \in CallId, Found(c) # 0
  PROVE  Found(c) \in CallId /\ Found(c) <= calls /\ session[Found(c)] # "none" /\ Related(Found(c), c)
<1>1. ASSUME NEW u \in Parties(c), Current(u) # 0
      PROVE  /\ Current(u) \in CallId /\ Current(u) <= calls /\ session[Current(u)] # "none"
             /\ Related(Current(u), c)
  <2>1. u \in User
    BY DEF Parties, TypeOK
  <2>2. Current(u) = index[u] /\ index[u] # 0 /\ session[index[u]] # "none"
    BY <1>1 DEF Current
  <2>3. index[u] \in CallId /\ index[u] <= calls /\ u \in Parties(index[u])
    BY <2>1, <2>2 DEF TypeOK, Calls
  <2> QED
    BY <1>1, <2>2, <2>3 DEF Related
<1>2. CASE session[c] # "none"
  BY <1>2 DEF Found, Calls, Related, Parties
<1>3. CASE session[c] = "none"
  <2>1. party[c].caller \in Parties(c) /\ party[c].callee \in Parties(c)
    BY DEF Parties
  <2> QED
    BY <1>1, <1>3, <2>1 DEF Found
<1> QED
  BY <1>2, <1>3

LEMMA EndLoadInv == ASSUME Registry, TypeOK', NEW p \in Proc, EndLoad(p) PROVE Registry'
<1>0. TypeOK /\ Fits(p) /\ Calls /\ req[p] \in Handler /\ req[p].call \in CallId
  BY RegistryFacts
<1>1. UNCHANGED <<calls, party, session, index, rows, answered, asked, endLock, expiries>>
      /\ req[p].at = "endload"
  BY DEF EndLoad, redis, calling, story, faults
<1>2. CASE Found(req[p].call) = 0
  <2>1. Goto(p, "orphan")
    BY <1>2 DEF EndLoad
  <2> QED
    BY <1>0, <1>1, <2>1, GotoInv DEF Labels, Naming, Targeting, Ending, Removing, Calls
<1>3. CASE Found(req[p].call) # 0
  <2>1. PICK t \in CallId : Found(req[p].call) = t /\ t <= calls /\ Related(t, req[p].call)
    BY <1>0, <1>3, FoundFacts
  <2> DEFINE d == [req[p] EXCEPT !.target = t, !.at = "lock"]
  <2>2. req' = [req EXCEPT ![p] = d]
    BY <1>3, <2>1 DEF EndLoad
  <2>3. d \in Handler /\ d.at = "lock" /\ d.target = t /\ d.call = req[p].call /\ d.seen = req[p].seen
    BY <1>0 DEF Handler, Labels
  <2> HIDE DEF d
  <2>4. req'[p] = d
    BY <1>0, <2>2, <2>3, Moved
  <2>5. Related(req[p].target, req[p].call)'
    BY <1>1, <2>1, <2>3, <2>4 DEF Related, Parties
  <2>6. Fits(p)'
    BY <1>0, <1>1, <2>1, <2>3, <2>4, <2>5 DEF Fits, Naming, Ending, Labels, Removing, InLock
  <2> QED
    BY <1>0, <1>1, <2>2, <2>3, <2>6, QuietInv DEF Calls
<1> QED
  BY <1>2, <1>3

\* SET NX: nobody loses a lock.
LEMMA LockInv == ASSUME Registry, TypeOK', NEW p \in Proc, Lock(p) PROVE Registry'
<1>0. TypeOK /\ Fits(p) /\ Calls /\ req[p] \in Handler /\ req[p].target \in CallId
  BY RegistryFacts
<1>1. UNCHANGED <<calls, party, session, index, rows, answered, asked, expiries>> /\ req[p].at = "lock"
  BY DEF Lock, calling, story, faults
<1>2. CASE endLock[req[p].target] # NULL
  <2>1. Goto(p, "cached") /\ UNCHANGED endLock
    BY <1>2 DEF Lock
  <2> QED
    BY <1>0, <1>1, <2>1, GotoInv DEF Labels, Naming, Targeting, Ending, Removing, Calls
<1>3. CASE endLock[req[p].target] = NULL
  <2>1. endLock' = [endLock EXCEPT ![req[p].target] = p] /\ Goto(p, "create")
    BY <1>3 DEF Lock
  <2>2. PICK d \in Handler : /\ req' = [req EXCEPT ![p] = d] /\ d.at = "create"
                             /\ d.call = req[p].call /\ d.target = req[p].target /\ d.seen = req[p].seen
    BY <1>0, <2>1, GotoMove DEF Labels
  <2>3. req'[p] = d
    BY <1>0, <2>2, Moved
  <2>4. endLock'[req[p].target] = p
    BY <1>0, <2>1 DEF TypeOK
  <2>5. Related(req[p].target, req[p].call)'
    BY <1>0, <1>1, <2>2, <2>3 DEF Fits, Related, Parties
  <2>6. Fits(p)'
    BY <1>0, <1>1, <2>2, <2>3, <2>4, <2>5 DEF Fits, Naming, Targeting, Ending, Labels, InLock
  <2>7. ASSUME NEW q \in Proc, q # p, expiries = 0, InLock(q)
        PROVE  endLock'[req[q].target] = endLock[req[q].target]
    <3>1. endLock[req[q].target] = q /\ q # NULL /\ req[q].target \in CallId
      BY <2>7, RegistryFacts, UserAssumption DEF Fits
    <3> QED
      BY <1>0, <1>3, <2>1, <3>1 DEF TypeOK
  <2>8. Calls'
    BY <1>0, <1>1, CallsInv DEF Calls
  <2> QED
    BY <1>1, <2>2, <2>6, <2>7, <2>8, OwnInv
<1> QED
  BY <1>2, <1>3

LEMMA UnlockInv == ASSUME Registry, TypeOK', NEW p \in Proc, Unlock(p) PROVE Registry'
<1>0. TypeOK /\ Fits(p) /\ Calls /\ req[p] \in Handler /\ req[p].target \in CallId
  BY RegistryFacts
<1>1. UNCHANGED <<calls, party, session, index, rows, answered, asked, expiries>> /\ req[p].at = "unlock"
      /\ endLock' = [endLock EXCEPT ![req[p].target] = NULL]
  BY DEF Unlock, calling, story, faults
<1>2. PICK l \in {"done", "clean1"} : Goto(p, l)
  BY <1>0, <1>1 DEF Fits, Unlock
<1>3. PICK d \in Handler : /\ req' = [req EXCEPT ![p] = d] /\ d.at = l /\ d.call = req[p].call
  BY <1>0, <1>2, GotoMove DEF Labels
<1>4. req'[p] = d
  BY <1>0, <1>3, Moved
<1>5. Fits(p)'
  BY <1>0, <1>1, <1>3, <1>4 DEF Fits, Naming, Targeting, Ending, Labels, InLock, Removing
<1>6. ASSUME NEW q \in Proc, q # p, expiries = 0, InLock(q)
      PROVE  endLock'[req[q].target] = endLock[req[q].target]
  <2>1. endLock[req[q].target] = q /\ req[q].target \in CallId
    BY <1>6, RegistryFacts DEF Fits
  <2>2. endLock[req[p].target] = p
    BY <1>0, <1>1, <1>6 DEF Fits, InLock
  <2> QED
    BY <1>0, <1>1, <1>6, <2>1, <2>2 DEF TypeOK
<1>7. Calls'
  BY <1>0, <1>1, CallsInv DEF Calls
<1> QED
  BY <1>1, <1>3, <1>5, <1>6, <1>7, OwnInv

\* Only a session that was ACTIVE makes a COMPLETED row.
LEMMA CompletedOfActive == \A o, s : Resolve(o, s) = "COMPLETED" => s = "ACTIVE"
  BY DEF Resolve

LEMMA CreateInv == ASSUME Registry, TypeOK', NEW p \in Proc, Create(p) PROVE Registry'
<1>0. TypeOK /\ Fits(p) /\ Calls /\ req[p] \in Handler /\ req[p].target \in CallId /\ req[p].call \in CallId
  BY RegistryFacts
<1>1. UNCHANGED <<calls, party, session, index, endLock, answered, asked, expiries>> /\ req[p].at = "create"
  BY DEF Create, redis, calling, story
<1>2. CASE Goto(p, "fail") /\ UNCHANGED rows
  BY <1>0, <1>1, <1>2, GotoInv DEF Labels, Naming, Targeting, Ending, Removing, Calls, InLock
<1>3. CASE /\ rows' = [rows EXCEPT ![req[p].target].keyed = Resolve(req[p].op, req[p].seen)]
           /\ req' = [req EXCEPT ![p] = [@ EXCEPT !.at = "rmload", !.after = "publish"]]
  <2> DEFINE d == [req[p] EXCEPT !.at = "rmload", !.after = "publish"]
             v == Resolve(req[p].op, req[p].seen)
  <2>1. d \in Handler /\ d.at = "rmload" /\ d.target = req[p].target /\ d.call = req[p].call
    BY <1>0 DEF Handler, Labels
  <2>2. req' = [req EXCEPT ![p] = d]
    BY <1>3
  <2> HIDE DEF d
  <2>3. req'[p] = d
    BY <1>0, <2>1, <2>2, Moved
  <2>4. Fits(p)'
    BY <1>0, <1>1, <2>1, <2>3 DEF Fits, Naming, Targeting, Ending, Labels, InLock, Removing
  <2>5. v = "COMPLETED" => req[p].call \in answered /\ Related(req[p].target, req[p].call)
    BY <1>0, <1>1, CompletedOfActive DEF Fits, Ending
  <2>6. req[p].target <= calls
    BY <1>0, <1>1 DEF Fits, Targeting
  <2>7. ASSUME NEW c \in CallId
        PROVE  rows'[c].keyed = rows[c].keyed \/
                 (c <= calls /\ (rows'[c].keyed = "COMPLETED" => \E e \in answered : Related(c, e)))
    <3>1. c # req[p].target => rows'[c] = rows[c]
      BY <1>0, <1>3 DEF TypeOK
    <3>2. c = req[p].target => rows'[c].keyed = v
      BY <1>0, <1>3 DEF TypeOK
    <3> HIDE DEF v
    <3> QED
      BY <2>5, <2>6, <3>1, <3>2
  <2>8. Calls'
    BY <1>0, <1>1, <2>7, CallsInv DEF Calls
  <2> QED
    BY <1>1, <2>1, <2>2, <2>4, <2>8, OwnInv
<1> QED
  BY <1>2, <1>3 DEF Create

LEMMA OrphanInv == ASSUME Registry, TypeOK', NEW p \in Proc, Orphan(p) PROVE Registry'
<1>0. TypeOK /\ Fits(p) /\ Calls /\ req[p] \in Handler /\ req[p].call \in CallId
  BY RegistryFacts
<1>1. UNCHANGED <<calls, party, session, index, endLock, answered, asked, expiries>> /\ req[p].at = "orphan"
  BY DEF Orphan, redis, calling, story
<1>2. CASE Goto(p, "clean1") /\ UNCHANGED rows
  BY <1>0, <1>1, <1>2, GotoInv DEF Labels, Naming, Targeting, Ending, Removing, Calls, InLock
<1>3. CASE /\ rows' = [rows EXCEPT ![req[p].call].keyed = Resolve(req[p].op, req[p].seen)]
           /\ Goto(p, "done")
  <2> DEFINE v == Resolve(req[p].op, req[p].seen)
  <2>1. PICK d \in Handler : /\ req' = [req EXCEPT ![p] = d] /\ d.at = "done" /\ d.call = req[p].call
    BY <1>0, <1>3, GotoMove DEF Labels
  <2>3. req'[p] = d
    BY <1>0, <2>1, Moved
  <2>4. Fits(p)'
    BY <1>0, <1>1, <2>1, <2>3 DEF Fits, Naming, Targeting, Ending, Labels, InLock, Removing
  <2>5. v = "COMPLETED" => req[p].call \in answered
    BY <1>0, <1>1, CompletedOfActive DEF Fits, Ending
  <2>6. req[p].call <= calls /\ Related(req[p].call, req[p].call)
    BY <1>0, <1>1 DEF Fits, Naming, Labels, Related, Parties
  <2>7. ASSUME NEW c \in CallId
        PROVE  rows'[c].keyed = rows[c].keyed \/
                 (c <= calls /\ (rows'[c].keyed = "COMPLETED" => \E e \in answered : Related(c, e)))
    <3>1. c # req[p].call => rows'[c] = rows[c]
      BY <1>0, <1>3 DEF TypeOK
    <3>2. c = req[p].call => rows'[c].keyed = v
      BY <1>0, <1>3 DEF TypeOK
    <3> HIDE DEF v
    <3> QED
      BY <2>5, <2>6, <3>1, <3>2
  <2>8. Calls'
    BY <1>0, <1>1, <2>7, CallsInv DEF Calls
  <2> QED
    BY <1>1, <2>1, <2>4, <2>8, OwnInv
<1> QED
  BY <1>2, <1>3 DEF Orphan

\* A notification moves the waiters of the call; they keep what they know.
LEMMA NotifyFacts ==
  ASSUME TypeOK, NEW p \in Proc, NEW l \in {"done", "endload"}, NEW m \in {"done", "clean1"}, Notify(p, l, m)
  PROVE  /\ req'[p].at = "release" /\ req'[p].after = m /\ req'[p].call = req[p].call
         /\ req'[p].target = req[p].target /\ req'[p].op = req[p].op
         /\ \A q \in Proc : q # p =>
              \/ req'[q] = req[q]
              \/ /\ req[q].at = "wait" /\ req'[q].at = l /\ req[q].target = req[p].target
                 /\ req'[q].call = req[q].call /\ req'[q].op = req[q].op
                 /\ req'[q].target = req[q].target /\ req'[q].seen = req[q].seen
<1>1. \A q \in Proc : req[q] \in Handler
  BY DEF TypeOK
<1>2. req'[p] = [req[p] EXCEPT !.at = "release", !.after = m]
  BY DEF Notify
<1>3. ASSUME NEW q \in Proc, q # p
      PROVE  \/ req'[q] = req[q]
             \/ /\ req[q].at = "wait" /\ req'[q].at = l /\ req[q].target = req[p].target
                /\ req'[q].call = req[q].call /\ req'[q].op = req[q].op
                /\ req'[q].target = req[q].target /\ req'[q].seen = req[q].seen
  BY <1>1, <1>3 DEF Notify, Handler
<1>4. /\ req'[p].at = "release" /\ req'[p].after = m /\ req'[p].call = req[p].call
      /\ req'[p].target = req[p].target /\ req'[p].op = req[p].op
  BY <1>1, <1>2 DEF Handler
<1> QED
  BY <1>3, <1>4

LEMMA NotifyInv == ASSUME Registry, TypeOK', NEW p \in Proc, Publish(p) \/ Fail(p) PROVE Registry'
<1>0. TypeOK /\ Fits(p) /\ Calls /\ req[p] \in Handler
  BY RegistryFacts
<1>1. UNCHANGED <<calls, party, session, index, rows, endLock, answered, asked, expiries>>
      /\ req[p].at \in {"publish", "fail"}
  BY DEF Publish, Fail, redis, calling, story, faults
<1>2. PICK l \in {"done", "endload"}, m \in {"done", "clean1"} : Notify(p, l, m)
  BY DEF Publish, Fail
<1>3. /\ req'[p].at = "release" /\ req'[p].after = m /\ req'[p].call = req[p].call
      /\ req'[p].target = req[p].target
      /\ \A q \in Proc : q # p =>
              \/ req'[q] = req[q]
              \/ /\ req[q].at = "wait" /\ req'[q].at = l
                 /\ req'[q].call = req[q].call
                 /\ req'[q].target = req[q].target /\ req'[q].seen = req[q].seen
  BY <1>0, <1>2, NotifyFacts
<1>4. Fits(p)'
  BY <1>0, <1>1, <1>3 DEF Fits, Naming, Targeting, Ending, Labels, InLock, Removing
<1>5. ASSUME NEW q \in Proc PROVE Fits(q)'
  <2>1. CASE q = p
    BY <1>4, <2>1
  <2>2. CASE q # p /\ req'[q] = req[q]
    BY <1>1, <2>2, OthersFit
  <2>3. CASE q # p /\ req'[q] # req[q]
    <3>1. /\ req[q].at = "wait" /\ req'[q].at = l
          /\ req'[q].call = req[q].call
          /\ req'[q].target = req[q].target /\ req'[q].seen = req[q].seen
      BY <1>3, <2>3
    <3>2. Fits(q)
      BY DEF Registry
    <3> QED
      BY <1>1, <3>1, <3>2 DEF Fits, Naming, Targeting, Ending, Labels, InLock, Removing
  <2> QED
    BY <2>1, <2>2, <2>3
<1>6. Calls'
  BY <1>0, <1>1, CallsInv DEF Calls
<1> QED
  BY <1>5, <1>6 DEF Registry

\* endCallGracefully works on a call that exists.
LEMMA GraceInv ==
  ASSUME Registry, TypeOK', NEW p \in Proc, CleanUp(p) \/ Between(p)
  PROVE  Registry'
<1>0. TypeOK /\ Fits(p) /\ Calls /\ req[p] \in Handler /\ req[p].call \in CallId /\ req[p].me \in User
  BY RegistryFacts
<1>1. UNCHANGED <<calls, party, session, index, rows, endLock, answered, asked, expiries>>
      /\ req[p].at \in {"clean1", "clean2", "between"}
  BY DEF CleanUp, Between, redis, calling, story, faults
<1>2. CASE Goto(p, "idle")
  BY <1>0, <1>1, <1>2, GotoInv DEF Labels, Naming, Targeting, Ending, Removing, Calls
<1>3. CASE Goto(p, "clean2") /\ req[p].at = "clean1"
  BY <1>0, <1>1, <1>3, GotoInv DEF Labels, Naming, Targeting, Ending, Removing, Calls
<1>4. CASE Goto(p, "done") /\ req[p].at = "clean2"
  BY <1>0, <1>1, <1>4, GotoInv DEF Labels, Naming, Targeting, Ending, Removing, Calls
<1>5. ASSUME NEW u \in User, NEW n \in {"clean2", "done", "idle"}, Current(u) # 0,
             req' = [req EXCEPT ![p] = [@ EXCEPT !.at = "gracelog", !.after = n,
                     !.target = Current(u), !.seen = session[Current(u)]]]
      PROVE  Registry'
  <2>1. PICK t \in CallId : Current(u) = t /\ session[t] # "none" /\ session[t] \in SessionStatus
    BY <1>0, <1>5, Lookups
  <2>2. t <= calls /\ calls \in Nat
    BY <1>0, <2>1, BoundAssumption DEF Calls, TypeOK
  <2>3. req[p].call <= calls
    BY <1>0, <2>1, <2>2, BoundAssumption DEF Fits, CallId
  <2> DEFINE d == [req[p] EXCEPT !.at = "gracelog", !.after = n, !.target = t, !.seen = session[t]]
  <2>4. d \in Handler /\ d.at = "gracelog" /\ d.after = n /\ d.target = t /\ d.call = req[p].call
    BY <1>0, <2>1 DEF Handler, Labels
  <2>5. req' = [req EXCEPT ![p] = d]
    BY <1>5, <2>1
  <2> HIDE DEF d
  <2>6. req'[p] = d
    BY <1>0, <2>4, <2>5, Moved
  <2>7. Fits(p)'
    BY <1>1, <2>2, <2>3, <2>4, <2>6 DEF Fits, Naming, Targeting, Ending, Labels, InLock, Removing
  <2> QED
    BY <1>0, <1>1, <2>4, <2>5, <2>7, QuietInv DEF Calls
<1>6. party[req[p].call].caller \in User /\ party[req[p].call].callee \in User
  BY <1>0 DEF TypeOK
<1> QED
  BY <1>0, <1>2, <1>3, <1>4, <1>5, <1>6 DEF CleanUp, Between, Grace

LEMMA GraceLogInv == ASSUME Registry, TypeOK', NEW p \in Proc, GraceLog(p) PROVE Registry'
<1>0. TypeOK /\ Fits(p) /\ Calls /\ req[p] \in Handler /\ req[p].target \in CallId
  BY RegistryFacts
<1>1. UNCHANGED <<calls, party, session, index, endLock, answered, asked, expiries>>
      /\ req[p].at = "gracelog" /\ Goto(p, "rmload") /\ req[p].after # "publish"
  BY <1>0 DEF GraceLog, redis, calling, Fits
<1>2. \A c \in CallId : rows'[c].keyed = rows[c].keyed
  BY SMTT(30), <1>0 DEF GraceLog, TypeOK
<1> QED
  BY <1>0, <1>1, <1>2, GotoInv DEF Labels, Naming, Targeting, Ending, Removing, Calls

\* The removal of the users' entries and of the session.
LEMMA RemoveInv == ASSUME Registry, TypeOK', NEW p \in Proc, RemoveIndex(p) \/ RemoveSession(p) PROVE Registry'
<1>0. TypeOK /\ Fits(p) /\ Calls /\ req[p] \in Handler /\ req[p].target \in CallId
      /\ req[p].after \in {"idle", "publish", "done", "clean1", "clean2"}
  BY RegistryFacts
<1>1. UNCHANGED <<calls, party, rows, endLock, answered, asked, expiries>>
      /\ req[p].at \in {"unindex", "delete"}
  BY DEF RemoveIndex, RemoveSession, calling, story, faults
<1>2. PICK l \in {"delete", "idle", "publish", "done", "clean1", "clean2"} :
        Goto(p, l) /\ (l = "delete" \/ l = req[p].after)
  BY <1>0 DEF RemoveIndex, RemoveSession
<1>3. PICK d \in Handler : /\ req' = [req EXCEPT ![p] = d] /\ d.at = l
                           /\ l = "idle" => d.call = 1
                           /\ l # "idle" => d.call = req[p].call /\ d.target = req[p].target /\ d.after = req[p].after
  BY <1>0, <1>2, GotoMove DEF Labels
<1>4. req'[p] = d
  BY <1>0, <1>3, Moved
<1>5. InLock(p)' => l # "idle" /\ InLock(p)
  BY <1>1, <1>2, <1>3, <1>4 DEF InLock
<1>6. Fits(p)'
  BY <1>0, <1>1, <1>2, <1>3, <1>4, <1>5 DEF Fits, Naming, Targeting, Ending, Labels, Removing
<1>7. Calls'
  <2>1. \A c \in CallId : session'[c] = session[c] \/ session'[c] = "none"
    BY <1>0 DEF RemoveIndex, RemoveSession, TypeOK
  <2>2. \A u \in User : index'[u] = index[u] \/ index'[u] = 0
    BY <1>0 DEF RemoveIndex, RemoveSession, TypeOK
  <2> QED
    BY <1>0, <1>1, <2>1, <2>2, CallsInv DEF Calls
<1> QED
  BY <1>1, <1>3, <1>6, <1>7, OwnInv

LEMMA TimeInv ==
  ASSUME Registry, TypeOK',
         \/ \E c \in CallId : LockExpires(c) \/ ResultExpires(c) \/ SessionExpires(c)
         \/ \E u \in User : IndexExpires(u)
         \/ UNCHANGED vars
  PROVE  Registry'
<1>0. TypeOK /\ Calls /\ expiries \in Nat
  BY DEF Registry, TypeOK
<1>1. UNCHANGED <<req, calls, party, rows, asked, answered>>
  BY DEF LockExpires, ResultExpires, SessionExpires, IndexExpires, vars, redis, calling, story, faults
<1>2. \A c \in CallId : session'[c] = session[c] \/ session'[c] = "none"
  <2>1. CASE UNCHANGED session
    BY <2>1
  <2>2. ASSUME NEW c \in CallId, SessionExpires(c) PROVE \A e \in CallId : session'[e] = session[e] \/ session'[e] = "none"
    BY <1>0, <2>2 DEF SessionExpires, TypeOK
  <2> QED
    BY <2>1, <2>2 DEF LockExpires, ResultExpires, IndexExpires, vars, redis
<1>3. \A u \in User : index'[u] = index[u] \/ index'[u] = 0
  <2>1. CASE UNCHANGED index
    BY <2>1
  <2>2. ASSUME NEW u \in User, IndexExpires(u) PROVE \A v \in User : index'[v] = index[v] \/ index'[v] = 0
    BY <1>0, <2>2 DEF IndexExpires, TypeOK
  <2> QED
    BY <2>1, <2>2 DEF LockExpires, ResultExpires, SessionExpires, vars, redis
<1>4. expiries' = 0 => expiries = 0 /\ \A q \in Proc : InLock(q) => endLock'[req[q].target] = endLock[req[q].target]
  <2>1. CASE UNCHANGED <<endLock, expiries>>
    BY <2>1
  <2>2. ASSUME NEW c \in CallId, LockExpires(c), expiries' = 0
        PROVE  expiries = 0 /\ \A q \in Proc : InLock(q) => endLock'[req[q].target] = endLock[req[q].target]
    <3>1. UNCHANGED expiries /\ endLock' = [endLock EXCEPT ![c] = NULL]
          /\ ~\E p \in Proc : endLock[c] = p /\ InLock(p) /\ req[p].target = c
      BY <1>0, <2>2 DEF LockExpires
    <3>2. ASSUME NEW q \in Proc, InLock(q) PROVE endLock'[req[q].target] = endLock[req[q].target]
      <4>1. endLock[req[q].target] = q /\ req[q].target \in CallId
        BY <2>2, <3>1, <3>2, RegistryFacts DEF Fits
      <4>2. req[q].target # c
        BY <3>1, <3>2, <4>1
      <4> QED
        BY <1>0, <3>1, <4>1, <4>2 DEF TypeOK
    <3> QED
      BY <2>2, <3>1, <3>2
  <2> QED
    BY <2>1, <2>2 DEF ResultExpires, SessionExpires, IndexExpires, vars, redis, faults
<1>5. \A q \in Proc : Fits(q)'
  BY <1>1, <1>4, OthersFit
<1>6. Calls'
  BY <1>0, <1>1, <1>2, <1>3, CallsInv DEF Calls
<1> QED
  BY <1>5, <1>6 DEF Registry

LEMMA RegistryStep == Registry /\ [Next]_vars => Registry'
<1> SUFFICES ASSUME Registry, [Next]_vars PROVE Registry'
  OBVIOUS
<1>1. TypeOK'
  BY TypeStep DEF Registry
<1>2. ASSUME NEW p \in Proc, Step(p) PROVE Registry'
  BY <1>1, <1>2, DecideInv, StartStoreInv, StartIndexInv, ValidateInv, RingingInv, StatusSaveInv, DetailInv, EndLoadInv,
     LockInv, CreateInv, NotifyInv, UnlockInv, OrphanInv, GraceInv, GraceLogInv, RemoveInv DEF Step
<1>3. ASSUME NEW p \in Proc, NEW t \in Ops, NEW c \in CallId, Begin(p, t[1], t[2], t[3], c) PROVE Registry'
  BY <1>1, <1>3, BeginInv
<1>4. ASSUME NEW p \in Proc, Crash(p) PROVE Registry'
  BY <1>1, <1>4, DecideInv
<1> QED
  BY <1>1, <1>2, <1>3, <1>4, TimeInv DEF Next

LEMMA InitRegistry == Init => Registry
<1> SUFFICES ASSUME Init PROVE Registry
  OBVIOUS
<1>1. \A p \in Proc : req[p].at = "idle" /\ req[p].call = 1
  BY DEF Init, Idle
<1>2. \A p \in Proc : Fits(p)
  BY <1>1 DEF Fits, Naming, Targeting, Ending, Removing, InLock
<1>3. Calls
  BY BoundAssumption DEF Init, Calls, CallId
<1> QED
  BY <1>2, <1>3, InitType DEF Registry

LEMMA RegistryInvariant == Spec => []Registry
  BY InitRegistry, RegistryStep, PTL DEF Spec

\* The end lock excludes: while it has not expired under its holder, the holder
\* is the one handler of its call between SET NX and DEL, although the removal,
\* the publication and the release are awaits of their own and handlers crash.
THEOREM EndersExcludeHolds == Spec => []EndersExclude
<1>1. Registry => EndersExclude
  <2> SUFFICES ASSUME Registry, expiries = 0, NEW p \in Proc, NEW q \in Proc, InLock(p), InLock(q),
                      req[p].target = req[q].target
               PROVE  p = q
    BY DEF EndersExclude
  <2> QED
    BY DEF Registry, Fits
<1> QED
  BY <1>1, RegistryInvariant, PTL

\* The status of a row comes from a session read several awaits before, of a
\* call that may be another one by then; still COMPLETED is written only where
\* the call, or one of the same users from which the end came, was answered.
THEOREM CompletedWasAnsweredHolds == Spec => []CompletedWasAnswered
<1>1. Registry => CompletedWasAnswered
  BY DEF Registry, Calls, CompletedWasAnswered
<1> QED
  BY <1>1, RegistryInvariant, PTL
-----------------------------------------------------------------------------
(* The end of one call, by handlers that only start and end.               *)

\* One call, no server process dies and no database write throws.
OneCall == MaxCalls = 1 /\ MaxFailures = 0 /\ MaxCrashes = 0

EndingOps == {"start", "hangup", "reject", "timeout", "gone"}

Live == session[1] # "none"
HasRow == rows[1].keyed # "none"

\* No handler will write the session of the call again.
Starts == {"index", "load2", "ttl", "save2"}
Settled == calls = 1 /\ \A q \in Proc : req[q].at \notin Starts

\* A handler that still decides who writes the row.
Trying == {"endload", "lock", "create"}

Ends(p) ==
    /\ req[p].op \in EndingOps \cup {"block"} /\ req[p].at \notin {"load", "save"}
    /\ req[p].at \in Starts \cup {"caller", "callee", "store"} => req[p].op = "start"
    /\ req[p].at = "validate" => req[p].op \in Enders /\ Settled
    /\ req[p].at \in Ending => 1 \in asked
    /\ (InLock(p) /\ req[p].at # "create") => HasRow
    /\ req[p].at = "orphan" => ~Live

\* A call that is to end and still lives has somebody who will remove it: with
\* its row written, the writer; without, one who will take the lock or has it.
Over ==
    /\ failures = 0 /\ crashes = 0
    /\ \A p \in Proc : Ends(p)
    /\ 1 \in asked => Settled
    /\ HasRow => 1 \in asked
    /\ (Live /\ HasRow) => \E p \in Proc : req[p].at \in Removing /\ req[p].after = "publish"
    /\ (Live /\ 1 \in asked /\ ~HasRow) => \E p \in Proc : req[p].at \in Trying
    /\ endLock[1] # NULL => InLock(endLock[1])

LEMMA OneCallId == OneCall => CallId = {1}
  BY DEF OneCall, CallId

\* A handler moves, and no session comes to life.
LEMMA OverMove ==
  ASSUME OneCall, TypeOK, Over, NEW p \in Proc, NEW d \in Handler, req' = [req EXCEPT ![p] = d],
         UNCHANGED <<calls, failures, crashes>>,
         asked \subseteq asked', 1 \in asked' => Settled,
         HasRow => HasRow', HasRow' => 1 \in asked', Live' => Live,
         d.at \in Starts => req[p].at \in Starts,
         Ends(p)',
         (Live' /\ req[p].at \in Removing /\ req[p].after = "publish") =>
           d.at \in Removing /\ d.after = "publish",
         (Live' /\ HasRow' /\ ~HasRow) => d.at \in Removing /\ d.after = "publish",
         (Live' /\ 1 \in asked' /\ ~HasRow') =>
           \/ d.at \in Trying
           \/ 1 \in asked /\ \/ req[p].at \notin Trying
                             \/ \E q \in Proc : q # p /\ req[q].at \in Trying,
         endLock'[1] \in {endLock[1], NULL, p}, endLock'[1] = p => InLock(p)'
  PROVE  Over'
<1>1. req'[p] = d /\ \A q \in Proc : q # p => req'[q] = req[q]
  BY Moved
<1>2. Settled => Settled'
  <2> SUFFICES ASSUME Settled PROVE Settled'
    OBVIOUS
  <2>1. ASSUME NEW q \in Proc PROVE req'[q].at \notin Starts
    BY <1>1 DEF Settled
  <2> QED
    BY <2>1 DEF Settled
<1>3. ASSUME NEW q \in Proc PROVE Ends(q)'
  <2>1. CASE q = p
    BY <2>1
  <2>2. CASE q # p
    <3>1. req'[q] = req[q] /\ Ends(q)
      BY <1>1, <2>2 DEF Over
    <3>2. InLock(q)' <=> InLock(q)
      BY <3>1 DEF InLock
    <3> QED
      BY <1>2, <3>1, <3>2 DEF Ends
  <2> QED
    BY <2>1, <2>2
<1>4. (Live /\ HasRow)' => \E q \in Proc : req'[q].at \in Removing /\ req'[q].after = "publish"
  <2> SUFFICES ASSUME (Live /\ HasRow)'
               PROVE  \E q \in Proc : req'[q].at \in Removing /\ req'[q].after = "publish"
    OBVIOUS
  <2>1. CASE HasRow
    <3>1. PICK q \in Proc : req[q].at \in Removing /\ req[q].after = "publish"
      BY <2>1 DEF Over
    <3> QED
      BY <1>1, <3>1
  <2>2. CASE ~HasRow
    BY <1>1, <2>2
  <2> QED
    BY <2>1, <2>2
<1>5. (Live /\ 1 \in asked /\ ~HasRow)' => \E q \in Proc : req'[q].at \in Trying
  <2> SUFFICES ASSUME (Live /\ 1 \in asked /\ ~HasRow)' PROVE \E q \in Proc : req'[q].at \in Trying
    OBVIOUS
  <2>1. CASE d.at \in Trying
    BY <1>1, <2>1
  <2>2. CASE \E q \in Proc : q # p /\ req[q].at \in Trying
    BY <1>1, <2>2
  <2>3. CASE 1 \in asked /\ req[p].at \notin Trying
    <3>1. PICK q \in Proc : req[q].at \in Trying
      BY <2>3 DEF Over
    <3> QED
      BY <1>1, <2>3, <3>1
  <2> QED
    BY <2>1, <2>2, <2>3
<1>6. endLock'[1] # NULL => InLock(endLock[1])'
  <2> SUFFICES ASSUME endLock'[1] # NULL PROVE InLock(endLock[1])'
    OBVIOUS
  <2>1. PICK q \in Proc : q = endLock'[1]
    <3>1. endLock[1] \in Proc \cup {NULL}
      BY OneCallId DEF TypeOK
    <3> QED
      BY <3>1
  <2>2. CASE q = p
    BY <2>1, <2>2
  <2>3. CASE q # p
    <3>1. InLock(q)
      BY <2>1, <2>3 DEF Over
    <3>2. InLock(q)'
      BY <1>1, <2>3, <3>1 DEF InLock
    <3> QED
      BY <2>1, <3>2
  <2> QED
    BY <2>2, <2>3
<1> QED
  BY <1>2, <1>3, <1>4, <1>5, <1>6 DEF Over

\* A handler that only changes its control point.
LEMMA OverGoto ==
  ASSUME OneCall, TypeOK, Over, NEW p \in Proc, NEW l \in Labels, Goto(p, l),
         UNCHANGED <<calls, failures, crashes, asked>>, rows'[1].keyed = rows[1].keyed, Live' => Live,
         endLock'[1] \in {endLock[1], NULL},
         l \notin {"load", "save", "validate", "caller"},
         l \in {"callee", "store"} => req[p].at \in {"caller", "callee"},
         l \in Starts => req[p].at \in Starts,
         l \in Ending => req[p].at \in Ending,
         l = "orphan" => ~Live,
         l \in {"publish", "fail", "release", "unlock"} => InLock(p) /\ req[p].at # "create",
         l # "create",
         (l \in Removing /\ req[p].after = "publish") => req[p].at \in Removing,
         (Live' /\ req[p].at \in Removing /\ req[p].after = "publish") => l \in Removing,
         (InLock(p) /\ endLock'[1] = p) =>
           \/ l \in {"publish", "fail", "release", "unlock"}
           \/ l \in Removing /\ req[p].after = "publish",
         (Live' /\ req[p].at \in Trying) =>
           \/ l \in Trying \/ HasRow \/ \E q \in Proc : q # p /\ req[q].at \in Trying
  PROVE  Over'
<1>1. PICK d \in Handler :
           /\ req' = [req EXCEPT ![p] = d] /\ d.at = l
           /\ l = "idle" => d.call = 1
           /\ l # "idle" => /\ d.op = req[p].op /\ d.me = req[p].me /\ d.peer = req[p].peer
                            /\ d.call = req[p].call /\ d.target = req[p].target
                            /\ d.seen = req[p].seen /\ d.after = req[p].after
  BY GotoMove
<1>2. req'[p] = d
  BY <1>1, Moved
<1>3. l = "idle" => d.op = "start"
  BY <1>2, AnyUserType DEF Goto, Idle, TypeOK
<1>4. Ends(p)
  BY DEF Over
<1>5. Ends(p)'
  BY <1>1, <1>2, <1>3, <1>4 DEF Ends, InLock, HasRow, Ending, EndingOps, Removing, Starts
<1>6. endLock'[1] = p => InLock(p)'
  <2> SUFFICES ASSUME endLock'[1] = p PROVE InLock(p)'
    OBVIOUS
  <2>1. InLock(p)
    BY UserAssumption DEF Over
  <2> QED
    BY <1>1, <1>2, <2>1 DEF InLock, Removing
<1>7. (HasRow <=> HasRow') /\ (1 \in asked' => Settled) /\ (HasRow' => 1 \in asked')
  BY DEF Over, HasRow
<1>8. (Live' /\ req[p].at \in Removing /\ req[p].after = "publish") => d.at \in Removing /\ d.after = "publish"
  BY <1>1 DEF Removing
<1>9. (Live' /\ 1 \in asked' /\ ~HasRow') =>
           \/ d.at \in Trying
           \/ 1 \in asked /\ \/ req[p].at \notin Trying
                             \/ \E q \in Proc : q # p /\ req[q].at \in Trying
  BY <1>1, <1>7
<1> QED
  BY <1>1, <1>5, <1>6, <1>7, <1>8, <1>9, OverMove

LEMMA OneCallFacts ==
  ASSUME OneCall, Registry, NEW p \in Proc
  PROVE  req[p].call = 1 /\ req[p].target = 1 /\ (calls = 0 \/ calls = 1) /\ 1 \in CallId
  BY OneCallId, RegistryFacts DEF OneCall

\* The steps that decide where to go on, or that write nothing about the row.
LEMMA OverDecide ==
  ASSUME OneCall, Registry, Over, NEW p \in Proc,
         \/ StartCaller(p) \/ StartCallee(p) \/ StartIndex(p) \/ DetailTtl(p) \/ Cached(p)
         \/ Subscribe(p) \/ WaitTimesOut(p) \/ Release(p) \/ Done(p) \/ RemoveLoad(p)
         \/ RemoveIndex(p) \/ Unlock(p)
  PROVE  Over'
<1> USE DEF redis, calling, story, faults
<1>0. TypeOK /\ Fits(p) /\ Ends(p) /\ req[p].at \in Labels /\ req[p].call = 1 /\ req[p].target = 1
      /\ endLock \in [CallId -> Proc \cup {NULL}] /\ 1 \in CallId
  BY RegistryFacts, OneCallFacts DEF Over, TypeOK
<1>1. UNCHANGED <<calls, session, rows, asked, failures, crashes>>
  BY DEF StartCaller, StartCallee, StartIndex, DetailTtl, Cached, Subscribe, WaitTimesOut,
     Release, Done, RemoveLoad, RemoveIndex, Unlock
<1>2. (Live' => Live) /\ rows'[1].keyed = rows[1].keyed
  BY <1>1 DEF Live
<1>3. CASE StartCaller(p) \/ StartCallee(p) \/ StartIndex(p) \/ DetailTtl(p)
  <2>1. PICK l \in {"idle", "callee", "store", "load2", "save2"} :
          /\ Goto(p, l) /\ UNCHANGED endLock
          /\ req[p].at \in {"caller", "callee", "index", "ttl"}
          /\ l \in Starts => req[p].at \in Starts
          /\ l \in {"callee", "store"} => req[p].at \in {"caller", "callee"}
    BY <1>3 DEF StartCaller, StartCallee, StartIndex, DetailTtl, Starts
  <2> QED
    BY <1>0, <1>1, <1>2, <2>1, OverGoto DEF Labels, Ending, Removing, Trying, InLock
<1>4. CASE Cached(p) \/ Subscribe(p) \/ WaitTimesOut(p)
  <2>1. PICK l \in {"done", "subscribe", "wait", "clean1"} :
          Goto(p, l) /\ req[p].at \in {"cached", "subscribe", "wait"} /\ UNCHANGED endLock
    BY <1>4 DEF Cached, Subscribe, WaitTimesOut
  <2> QED
    BY <1>0, <1>1, <1>2, <2>1, OverGoto DEF Labels, Starts, Ending, Removing, Trying, InLock
<1>5. CASE Release(p)
  <2>1. PICK l \in {"unlock", "done", "clean1"} :
          /\ Goto(p, l) /\ req[p].at = "release" /\ UNCHANGED endLock
          /\ endLock[1] = p => l = "unlock"
    BY <1>0, <1>5 DEF Release, Fits
  <2> QED
    BY <1>0, <1>1, <1>2, <2>1, OverGoto DEF Labels, Starts, Ending, Removing, Trying, InLock
<1>6. CASE Unlock(p)
  <2>1. PICK l \in {"done", "clean1"} : Goto(p, l) /\ req[p].at = "unlock" /\ endLock'[1] = NULL
    BY <1>0, <1>6 DEF Unlock, Fits
  <2> QED
    BY <1>0, <1>1, <1>2, <2>1, OverGoto, UserAssumption DEF Labels, Starts, Ending, Removing, Trying
<1>7. CASE Done(p)
  <2>1. Goto(p, "idle") /\ req[p].at = "done" /\ UNCHANGED endLock
    BY <1>7 DEF Done
  <2> QED
    BY <1>0, <1>1, <1>2, <2>1, OverGoto DEF Labels, Starts, Ending, Removing, Trying, InLock
<1>8. CASE RemoveLoad(p) \/ RemoveIndex(p)
  <2>1. PICK l \in {"delete", "unindex"} : Goto(p, l) /\ req[p].at \in {"rmload", "unindex"} /\ UNCHANGED endLock
    BY <1>8 DEF RemoveLoad, RemoveIndex
  <2> QED
    BY <1>0, <1>1, <1>2, <2>1, OverGoto DEF Labels, Starts, Ending, Removing, Trying, InLock
<1> QED
  BY <1>3, <1>4, <1>5, <1>6, <1>7, <1>8

LEMMA OverRemove == ASSUME OneCall, Registry, Over, NEW p \in Proc, RemoveSession(p) PROVE Over'
<1>0. TypeOK /\ Ends(p) /\ req[p].call = 1 /\ req[p].target = 1 /\ 1 \in CallId
      /\ req[p].after \in {"idle", "publish", "done", "clean1", "clean2"}
  BY RegistryFacts, OneCallFacts DEF Over
<1>1. UNCHANGED <<calls, endLock, rows, asked, failures, crashes>>
      /\ req[p].at = "delete" /\ Goto(p, req[p].after)
  BY DEF RemoveSession, calling, story, faults
<1>2. ~Live'
  BY <1>0 DEF RemoveSession, TypeOK, Live
<1>3. PICK l \in {"idle", "publish", "done", "clean1", "clean2"} : l = req[p].after /\ Goto(p, l)
  BY <1>0, <1>1
<1> QED
  BY <1>0, <1>1, <1>2, <1>3, OverGoto DEF Labels, Starts, Ending, Removing, Trying, InLock

LEMMA OverGraceLog == ASSUME OneCall, Registry, Over, NEW p \in Proc, GraceLog(p) PROVE Over'
<1>0. TypeOK /\ Fits(p) /\ Ends(p) /\ req[p].call = 1 /\ req[p].target = 1 /\ 1 \in CallId
      /\ MaxFailures = 0
  BY RegistryFacts, OneCallFacts DEF Over, OneCall
<1>1. UNCHANGED <<calls, session, endLock, asked, failures, crashes>>
      /\ req[p].at = "gracelog" /\ Goto(p, "rmload") /\ req[p].after # "publish"
      /\ rows' = [rows EXCEPT ![1].loose = IF @ < 2 THEN @ + 1 ELSE @]
  BY <1>0 DEF GraceLog, redis, calling, faults, story, Fits, DbThrows, Over
<1>2. rows'[1].keyed = rows[1].keyed /\ (Live' => Live)
  BY <1>0, <1>1 DEF TypeOK, Live
<1> QED
  BY <1>0, <1>1, <1>2, OverGoto DEF Labels, Starts, Ending, Removing, Trying, InLock

\* A handler begins, or learns what it is about.
LEMMA OverBegin ==
  ASSUME OneCall, Registry, Over, NEW p \in Proc, NEW t \in Ops, NEW c \in CallId,
         t[1] \in EndingOps \cup {"block"}, Begin(p, t[1], t[2], t[3], c)
  PROVE  Over'
<1>0. TypeOK /\ c = 1 /\ calls \in Nat
  BY RegistryFacts, OneCallId
<1> DEFINE l == CASE t[1] = "start" -> "caller" [] t[1] = "block" -> "between" [] OTHER -> "validate"
           d == [Idle EXCEPT !.op = t[1], !.me = t[2], !.peer = t[3], !.call = c, !.at = l]
<1>1. l \in {"caller", "between", "validate"} /\ (l = "caller" => t[1] = "start")
      /\ (l = "validate" => t[1] \in Enders \cap EndingOps)
  BY DEF EndingOps, Enders
<1>2. req' = [req EXCEPT ![p] = d] /\ req[p].at = "idle"
      /\ UNCHANGED <<calls, session, rows, endLock, asked, failures, crashes>>
  BY DEF Begin, redis, story, faults
<1>3. d \in Handler /\ d.at = l /\ d.op = t[1]
  <2>1. Idle \in Handler
    BY AnyUserType, BoundAssumption DEF Idle, Handler, Labels, OpNames, SessionStatus, CallId
  <2>2. t[1] \in OpNames /\ t[2] \in User /\ t[3] \in User /\ l \in Labels
    BY <1>1, OpsAssumption DEF Labels
  <2> HIDE DEF l
  <2> QED
    BY <2>1, <2>2 DEF Idle, Handler
<1>4. l = "validate" => Settled
  <2> SUFFICES ASSUME l = "validate" PROVE Settled
    OBVIOUS
  <2>1. c <= calls /\ \A q \in Proc : ~(Starting(q) /\ req[q].call = c)
    BY <1>1 DEF Begin, Enders, EndingOps
  <2>2. \A q \in Proc : req[q].at \notin Starts
    BY <1>0, <2>1, OneCallFacts DEF Starting, Starts, Over, Ends
  <2> QED
    BY <1>0, <2>1, <2>2, OneCallFacts DEF Settled
<1> HIDE DEF d, l
<1>5. req'[p] = d
  BY <1>0, <1>2, <1>3, Moved
<1>6. \A q \in Proc : q # p => req'[q] = req[q]
  BY <1>0, <1>2, <1>3, Moved
<1>7. Settled => Settled'
  BY <1>1, <1>2, <1>3, <1>5, <1>6 DEF Settled, Starts
<1>8. Ends(p)'
  BY <1>1, <1>3, <1>4, <1>5, <1>7 DEF Ends, Starts, Ending, InLock, Removing
<1>9. (HasRow' <=> HasRow) /\ (Live' <=> Live) /\ endLock'[1] # p
  <2>1. ~InLock(p)
    BY <1>2 DEF InLock, Removing
  <2> QED
    BY <1>2, <2>1, UserAssumption DEF HasRow, Live, Over
<1> QED
  BY <1>0, <1>1, <1>2, <1>3, <1>8, <1>9, OverMove DEF Over, Starts, Removing, Trying

LEMMA OverValidate == ASSUME OneCall, Registry, Over, NEW p \in Proc, Validate(p) PROVE Over'
<1>0. TypeOK /\ Fits(p) /\ Ends(p) /\ req[p].call = 1 /\ 1 \in CallId /\ req[p] \in Handler
      /\ session[1] \in SessionStatus /\ req[p].op \in OpNames
  BY RegistryFacts, OneCallFacts DEF Over, TypeOK
<1>1. UNCHANGED <<calls, session, rows, endLock, failures, crashes>> /\ req[p].at = "validate"
  BY DEF Validate, redis, faults
<1>2. CASE Goto(p, "idle") /\ UNCHANGED asked
  BY <1>0, <1>1, <1>2, OverGoto DEF Labels, Starts, Ending, Removing, Trying, InLock, Live
<1>3. CASE Permitted(p, Subject(p))
  <2>1. req[p].op \in Enders /\ Settled
    BY <1>0, <1>1 DEF Ends
  <2>2. Subject(p) = 1 /\ Live
    BY <1>0, <1>3 DEF Subject, Ends, EndingOps, Permitted, Live
  <2> DEFINE d == [req[p] EXCEPT !.call = 1, !.seen = session[1], !.at = "endload"]
  <2>3. d \in Handler /\ d.at = "endload" /\ d.op = req[p].op
    BY <1>0 DEF Handler, Labels
  <2>4. req' = [req EXCEPT ![p] = d] /\ asked' = asked \cup {1}
    BY <1>3, <2>1, <2>2 DEF Validate, Enders
  <2> HIDE DEF d
  <2>5. req'[p] = d
    BY <1>0, <2>3, <2>4, Moved
  <2>6. Ends(p)'
    BY <1>0, <2>3, <2>4, <2>5 DEF Ends, Starts, Ending, InLock, Removing
  <2>7. (HasRow' <=> HasRow) /\ (Live' <=> Live) /\ endLock'[1] # p
    <3>1. ~InLock(p)
      BY <1>1 DEF InLock, Removing
    <3> QED
      BY <1>1, <3>1, UserAssumption DEF HasRow, Live, Over
  <2> QED
    BY <1>0, <1>1, <2>1, <2>3, <2>4, <2>6, <2>7, OverMove DEF Over, Starts, Removing, Trying
<1> QED
  BY <1>2, <1>3 DEF Validate

LEMMA OverRinging == ASSUME OneCall, Registry, Over, NEW p \in Proc, RingingGrace(p) PROVE Over'
<1>0. TypeOK /\ Fits(p) /\ Ends(p) /\ req[p].call = 1 /\ 1 \in CallId /\ req[p] \in Handler
  BY RegistryFacts, OneCallFacts DEF Over, TypeOK
<1>1. UNCHANGED <<calls, session, rows, endLock, failures, crashes>> /\ req[p].at = "validate" /\ Settled
  BY <1>0 DEF RingingGrace, calling, redis, faults, Ends
<1> DEFINE d == [req[p] EXCEPT !.seen = "RINGING", !.at = "endload"]
<1>2. d \in Handler /\ d.at = "endload" /\ d.op = req[p].op
  BY <1>0 DEF Handler, Labels, SessionStatus
<1>3. req' = [req EXCEPT ![p] = d] /\ asked' = asked \cup {1}
  BY <1>0 DEF RingingGrace
<1> HIDE DEF d
<1>4. req'[p] = d
  BY <1>0, <1>2, <1>3, Moved
<1>5. Ends(p)'
  BY <1>0, <1>2, <1>3, <1>4 DEF Ends, Starts, Ending, InLock, Removing
<1>6. (HasRow' <=> HasRow) /\ (Live' <=> Live) /\ endLock'[1] # p
  <2>1. ~InLock(p)
    BY <1>1 DEF InLock, Removing
  <2> QED
    BY <1>1, <2>1, UserAssumption DEF HasRow, Live, Over
<1> QED
  BY <1>0, <1>1, <1>2, <1>3, <1>5, <1>6, OverMove DEF Over, Starts, Removing, Trying

\* Where the start of the call goes.
LEMMA StartMove ==
  ASSUME OneCall, Registry, NEW p \in Proc, StartStore(p) \/ DetailLoad(p) \/ DetailSave(p),
         req[p].op = "start"
  PROVE  \E d \in Handler : /\ req' = [req EXCEPT ![p] = d] /\ d.op = "start"
                            /\ d.at \in {"index", "ttl", "idle"}
                            /\ d.at = "index" => req[p].at = "store"
<1>0. /\ req[p].call = 1 /\ 1 \in CallId /\ req[p] \in Handler
      /\ session[1] \in SessionStatus /\ calls \in {0, 1} /\ MaxCalls = 1
  BY RegistryFacts, OneCallFacts DEF TypeOK, OneCall
<1>1. CASE StartStore(p)
  <2> DEFINE d == [req[p] EXCEPT !.at = "index", !.call = calls + 1]
  <2>1. calls + 1 = 1
    BY <1>0, <1>1 DEF StartStore
  <2>2. d \in Handler /\ d.at = "index" /\ d.op = "start"
    BY <1>0, <2>1 DEF Handler, Labels
  <2>3. req' = [req EXCEPT ![p] = d] /\ req[p].at = "store"
    BY <1>1 DEF StartStore
  <2> HIDE DEF d
  <2> QED
    BY <2>2, <2>3
<1>2. CASE Goto(p, "idle")
  <2>1. Idle \in Handler /\ Idle.op = "start" /\ Idle.at = "idle"
    BY AnyUserType, BoundAssumption DEF Idle, Handler, Labels, OpNames, SessionStatus, CallId
  <2> QED
    BY <1>2, <2>1 DEF Goto
<1>3. CASE DetailLoad(p) /\ session[1] # "none"
  <2> DEFINE d == [req[p] EXCEPT !.seen = session[1], !.at = "ttl"]
  <2>1. d \in Handler /\ d.at = "ttl" /\ d.op = "start"
    BY <1>0 DEF Handler, Labels
  <2>2. req' = [req EXCEPT ![p] = d]
    BY <1>0, <1>3 DEF DetailLoad
  <2> HIDE DEF d
  <2> QED
    BY <2>1, <2>2
<1> QED
  BY <1>0, <1>1, <1>2, <1>3 DEF DetailLoad, DetailSave, AfterDetail

\* The start of the call.
LEMMA OverStart ==
  ASSUME OneCall, Registry, Over, NEW p \in Proc, StartStore(p) \/ DetailLoad(p) \/ DetailSave(p)
  PROVE  Over'
<1>0. /\ TypeOK /\ Fits(p) /\ Ends(p) /\ req[p].call = 1 /\ 1 \in CallId /\ req[p] \in Handler
      /\ session[1] \in SessionStatus /\ req[p].op \in OpNames /\ calls \in {0, 1} /\ MaxCalls = 1
      /\ endLock[1] # p
  <2>1. ~InLock(p)
    BY DEF StartStore, DetailLoad, DetailSave, InLock, Removing
  <2> QED
    BY <2>1, RegistryFacts, OneCallFacts, UserAssumption DEF Over, TypeOK, OneCall
<1>1. UNCHANGED <<rows, endLock, asked, failures, crashes>>
  BY DEF StartStore, DetailLoad, DetailSave, redis, story, faults
<1>2. ~HasRow /\ 1 \notin asked
  <2>1. CASE StartStore(p)
    BY <1>0, <2>1 DEF StartStore, Over, Settled
  <2>2. CASE DetailLoad(p) \/ DetailSave(p)
    BY <2>2 DEF DetailLoad, DetailSave, Over, Settled, Starts
  <2> QED
    BY <2>1, <2>2
<1>3. PICK d \in Handler : /\ req' = [req EXCEPT ![p] = d] /\ d.op = "start"
                           /\ d.at \in {"index", "ttl", "idle"}
                           /\ d.at = "index" => req[p].at = "store"
  <2>1. req[p].op = "start"
    BY <1>0 DEF StartStore, DetailLoad, DetailSave, Ends, Starts
  <2> QED
    BY <2>1, StartMove
<1>4. req'[p] = d /\ \A q \in Proc : q # p => req'[q] = req[q]
  BY <1>0, <1>3, Moved
<1>5. \A q \in Proc : Ends(q) /\ req[q].at # "orphan"
  BY <1>2 DEF Over, Ends, Ending
<1>6. ASSUME NEW q \in Proc PROVE Ends(q)'
  <2>1. CASE q = p
    BY <1>3, <1>4, <2>1 DEF Ends, EndingOps, Starts, Ending, InLock, Removing
  <2>2. CASE q # p
    <3>1. req'[q] = req[q] /\ Ends(q) /\ req[q].at # "orphan"
      BY <1>4, <1>5, <2>2
    <3>2. req[q].at # "validate"
      <4>1. CASE StartStore(p)
        BY <1>0, <3>1, <4>1 DEF StartStore, Ends, Settled
      <4>2. CASE DetailLoad(p) \/ DetailSave(p)
        BY <3>1, <4>2 DEF DetailLoad, DetailSave, Ends, Settled, Starts
      <4> QED
        BY <4>1, <4>2
    <3>3. (InLock(q)' <=> InLock(q)) /\ (HasRow' <=> HasRow)
      BY <1>1, <3>1 DEF InLock, HasRow
    <3> QED
      BY <1>1, <3>1, <3>2, <3>3 DEF Ends
  <2> QED
    BY <2>1, <2>2
<1>7. endLock'[1] # NULL => InLock(endLock[1])'
  <2> SUFFICES ASSUME endLock[1] # NULL PROVE InLock(endLock[1])'
    BY <1>1
  <2>1. PICK q \in Proc : q = endLock[1]
    BY <1>0 DEF TypeOK
  <2>2. InLock(q) /\ req'[q] = req[q]
    BY <1>0, <1>4, <2>1 DEF Over
  <2>3. endLock'[1] = q
    BY <1>1, <2>1
  <2>4. InLock(q)'
    BY <2>2 DEF InLock
  <2> QED
    BY <2>3, <2>4
<1> QED
  BY <1>1, <1>2, <1>6, <1>7 DEF Over, HasRow

\* An ender finds the session, or not, and takes the lock, or not.
LEMMA OverEndLoad == ASSUME OneCall, Registry, Over, NEW p \in Proc, EndLoad(p) PROVE Over'
<1>0. TypeOK /\ Ends(p) /\ Calls /\ req[p].call = 1 /\ 1 \in CallId /\ req[p] \in Handler
  BY RegistryFacts, OneCallFacts DEF Over
<1>1. UNCHANGED <<calls, session, rows, endLock, asked, failures, crashes>> /\ req[p].at = "endload"
  BY DEF EndLoad, redis, calling, story, faults
<1>2. CASE Found(1) = 0
  <2>1. Goto(p, "orphan")
    BY <1>0, <1>2 DEF EndLoad
  <2>2. ~Live
    BY <1>2, OneCallId DEF Found, Live
  <2> QED
    BY <1>0, <1>1, <2>1, <2>2, OverGoto DEF Labels, Starts, Ending, Removing, Trying, InLock, Live
<1>3. CASE Found(1) # 0
  <2>1. PICK t \in CallId : t = Found(1)
    BY <1>0, <1>3, FoundFacts
  <2> DEFINE d == [req[p] EXCEPT !.target = t, !.at = "lock"]
  <2>2. d \in Handler /\ d.at = "lock" /\ d.op = req[p].op
    BY <1>0 DEF Handler, Labels
  <2>3. req' = [req EXCEPT ![p] = d]
    BY <1>0, <1>3, <2>1 DEF EndLoad
  <2> HIDE DEF d
  <2>4. req'[p] = d
    BY <1>0, <2>2, <2>3, Moved
  <2>5. 1 \in asked
    BY <1>0, <1>1 DEF Ends, Ending
  <2>6. Ends(p)'
    BY <1>0, <1>1, <2>2, <2>4, <2>5 DEF Ends, Starts, Ending, InLock, Removing
  <2>7. (HasRow' <=> HasRow) /\ (Live' <=> Live) /\ endLock'[1] # p /\ (1 \in asked' => Settled) /\ (HasRow' => 1 \in asked')
    <3>1. ~InLock(p)
      BY <1>1 DEF InLock, Removing
    <3> QED
      BY <1>1, <3>1, UserAssumption DEF HasRow, Live, Over
  <2> QED
    BY <1>0, <1>1, <2>2, <2>3, <2>6, <2>7, OverMove DEF Starts, Removing, Trying
<1> QED
  BY <1>2, <1>3

LEMMA OverLock == ASSUME OneCall, Registry, Over, NEW p \in Proc, Lock(p) PROVE Over'
<1>0. TypeOK /\ Ends(p) /\ req[p].target = 1 /\ 1 \in CallId /\ req[p].op \in OpNames
      /\ endLock[1] \in Proc \cup {NULL}
  BY RegistryFacts, OneCallFacts DEF Over, TypeOK
<1>1. UNCHANGED <<calls, session, rows, asked, failures, crashes>> /\ req[p].at = "lock"
  BY DEF Lock, calling, story, faults
<1>2. CASE endLock[1] = NULL
  <2>1. endLock'[1] = p /\ Goto(p, "create")
    BY <1>0, <1>2 DEF Lock, TypeOK
  <2>2. PICK d \in Handler : req' = [req EXCEPT ![p] = d] /\ d.at = "create" /\ d.op = req[p].op
    BY <1>0, <2>1, GotoMove DEF Labels
  <2>3. req'[p] = d
    BY <1>0, <2>2, Moved
  <2>4. Ends(p)' /\ InLock(p)'
    BY <1>0, <1>1, <2>2, <2>3 DEF Ends, Starts, Ending, InLock, Removing
  <2>5. (HasRow' <=> HasRow) /\ (Live' <=> Live) /\ (1 \in asked' => Settled) /\ (HasRow' => 1 \in asked')
    BY <1>1 DEF HasRow, Live, Over
  <2> QED
    BY <1>0, <1>1, <2>1, <2>2, <2>4, <2>5, OverMove DEF Starts, Removing, Trying
<1>3. CASE endLock[1] # NULL
  <2>1. Goto(p, "cached") /\ UNCHANGED endLock
    BY <1>0, <1>3 DEF Lock
  <2>2. PICK q \in Proc : q = endLock[1] /\ InLock(q)
    BY <1>0, <1>3 DEF Over
  <2>3. q # p /\ (req[q].at = "create" \/ HasRow)
    BY <1>1, <2>2 DEF InLock, Removing, Over, Ends
  <2> QED
    BY <1>0, <1>1, <2>1, <2>2, <2>3, OverGoto DEF Labels, Starts, Ending, Removing, Trying, InLock, Live
<1> QED
  BY <1>2, <1>3

\* The row of an end.
LEMMA OverCreate == ASSUME OneCall, Registry, Over, NEW p \in Proc, Create(p) PROVE Over'
<1>0. TypeOK /\ Ends(p) /\ req[p].target = 1 /\ 1 \in CallId /\ req[p] \in Handler
      /\ rows[1] \in [keyed : CallStatus \cup {"none"}, loose : 0..2] /\ ~DbThrows
  BY RegistryFacts, OneCallFacts DEF Over, TypeOK, DbThrows, OneCall
<1>1. UNCHANGED <<calls, session, endLock, asked, crashes, failures>> /\ req[p].at = "create" /\ 1 \in asked
  BY <1>0 DEF Create, redis, calling, story, Ends, Ending
<1>2. CASE HasRow
  <2>1. Goto(p, "fail") /\ UNCHANGED rows
    BY <1>0, <1>2 DEF Create, HasRow
  <2>2. PICK d \in Handler : req' = [req EXCEPT ![p] = d] /\ d.at = "fail" /\ d.op = req[p].op
    BY <1>0, <2>1, GotoMove DEF Labels
  <2>3. req'[p] = d
    BY <1>0, <2>2, Moved
  <2>4. Ends(p)' /\ InLock(p)'
    BY <1>0, <1>2, <2>1, <2>2, <2>3 DEF Ends, Starts, Ending, InLock, Removing, HasRow
  <2>5. (HasRow' <=> HasRow) /\ (Live' <=> Live) /\ (1 \in asked' => Settled) /\ (HasRow' => 1 \in asked')
    BY <1>1, <2>1 DEF HasRow, Live, Over
  <2> QED
    BY <1>0, <1>1, <1>2, <2>2, <2>4, <2>5, OverMove DEF Starts, Removing, Trying
<1>3. CASE ~HasRow
  <2> DEFINE d == [req[p] EXCEPT !.at = "rmload", !.after = "publish"]
  <2>1. d \in Handler /\ d.at = "rmload" /\ d.after = "publish" /\ d.op = req[p].op
    BY <1>0 DEF Handler, Labels
  <2>2. req' = [req EXCEPT ![p] = d] /\ rows' = [rows EXCEPT ![1].keyed = Resolve(req[p].op, req[p].seen)]
    BY <1>0, <1>3 DEF Create, HasRow
  <2> HIDE DEF d
  <2>3. req'[p] = d
    BY <1>0, <2>1, <2>2, Moved
  <2>4. HasRow'
    <3>1. rows'[1].keyed = Resolve(req[p].op, req[p].seen)
      BY <1>0, <2>2 DEF TypeOK
    <3>2. Resolve(req[p].op, req[p].seen) # "none"
      BY DEF Resolve
    <3> QED
      BY <3>1, <3>2 DEF HasRow
  <2>5. Ends(p)' /\ InLock(p)'
    BY <1>0, <2>1, <2>3, <2>4 DEF Ends, Starts, Ending, InLock, Removing
  <2>6. (Live' <=> Live) /\ (1 \in asked' => Settled) /\ 1 \in asked'
    BY <1>1 DEF Live, Over
  <2> QED
    BY <1>0, <1>1, <1>3, <2>1, <2>2, <2>4, <2>5, <2>6, OverMove DEF Starts, Removing
<1> QED
  BY <1>2, <1>3

LEMMA OverOrphan == ASSUME OneCall, Registry, Over, NEW p \in Proc, Orphan(p) PROVE Over'
<1>0. TypeOK /\ Ends(p) /\ req[p].call = 1 /\ 1 \in CallId /\ req[p] \in Handler
      /\ rows[1] \in [keyed : CallStatus \cup {"none"}, loose : 0..2] /\ ~DbThrows
  BY RegistryFacts, OneCallFacts DEF Over, TypeOK, DbThrows, OneCall
<1>1. UNCHANGED <<calls, session, endLock, asked, crashes, failures>> /\ req[p].at = "orphan"
      /\ 1 \in asked /\ ~Live /\ ~InLock(p)
  BY <1>0 DEF Orphan, redis, calling, story, Ends, Ending, InLock, Removing
<1>2. PICK l \in {"done", "clean1"} : Goto(p, l)
  BY DEF Orphan
<1>3. PICK d \in Handler : req' = [req EXCEPT ![p] = d] /\ d.at = l /\ d.op = req[p].op
  BY <1>0, <1>2, GotoMove DEF Labels
<1>4. req'[p] = d
  BY <1>0, <1>3, Moved
<1>5. Ends(p)'
  BY <1>0, <1>3, <1>4 DEF Ends, Starts, Ending, InLock, Removing
<1>6. HasRow => HasRow'
  <2>1. rows'[1].keyed # "none" \/ rows' = rows
    <3>1. Resolve(req[p].op, req[p].seen) # "none"
      BY DEF Resolve
    <3> QED
      BY <1>0, <3>1 DEF Orphan, TypeOK
  <2> QED
    BY <2>1 DEF HasRow
<1>7. ~Live' /\ (1 \in asked' => Settled) /\ 1 \in asked' /\ endLock'[1] # p
  BY <1>1, UserAssumption DEF Live, Over
<1> QED
  BY <1>0, <1>1, <1>3, <1>5, <1>6, <1>7, OverMove DEF Starts

\* The waiters hear of the end.
LEMMA OverNotify == ASSUME OneCall, Registry, Over, NEW p \in Proc, Publish(p) \/ Fail(p) PROVE Over'
<1>0. TypeOK /\ 1 \in CallId /\ req[p].at \in {"publish", "fail"} /\ endLock \in [CallId -> Proc \cup {NULL}]
  BY RegistryFacts, OneCallFacts DEF Publish, Fail, TypeOK
<1>1. UNCHANGED <<calls, session, rows, endLock, asked, failures, crashes>>
  BY DEF Publish, Fail, redis, calling, story, faults
<1>2. HasRow
  BY <1>0 DEF Over, Ends, InLock
<1>3. PICK l \in {"done", "endload"}, m \in {"done", "clean1"} : Notify(p, l, m)
  BY DEF Publish, Fail
<1>4. /\ req'[p].at = "release" /\ req'[p].after = m
      /\ \A q \in Proc : q # p => req'[q] = req[q] \/ (req[q].at = "wait" /\ req'[q].at = l)
  BY <1>0, <1>3, NotifyFacts
<1>5. \A q \in Proc : req'[q].op = req[q].op
  BY <1>0, <1>3, NotifyFacts
<1>6. Settled => Settled'
  BY <1>1, <1>4 DEF Settled, Starts
<1>7. \A q \in Proc : InLock(q)' <=> InLock(q)
  BY <1>0, <1>4 DEF InLock, Removing
<1>8. ASSUME NEW q \in Proc PROVE Ends(q)'
  <2>1. Ends(q)
    BY DEF Over
  <2>2. 1 \in asked
    BY <1>2 DEF Over
  <2> QED
    BY <1>0, <1>1, <1>2, <1>4, <1>5, <1>6, <1>7, <2>1, <2>2 DEF Ends, HasRow, Ending, Live, Starts, InLock, Removing
<1>9. (Live /\ HasRow)' => \E q \in Proc : req'[q].at \in Removing /\ req'[q].after = "publish"
  <2> SUFFICES ASSUME Live PROVE \E q \in Proc : req'[q].at \in Removing /\ req'[q].after = "publish"
    BY <1>1 DEF Live
  <2>1. PICK q \in Proc : req[q].at \in Removing /\ req[q].after = "publish"
    BY <1>2 DEF Over
  <2> QED
    BY <1>0, <1>4, <2>1 DEF Removing
<1>10. endLock'[1] # NULL => InLock(endLock[1])'
  <2> SUFFICES ASSUME endLock[1] # NULL PROVE InLock(endLock[1])'
    BY <1>1
  <2>1. PICK q \in Proc : q = endLock[1] /\ InLock(q)
    BY <1>0 DEF Over
  <2>2. endLock'[1] = q /\ InLock(q)'
    BY <1>1, <1>7, <2>1
  <2> QED
    BY <2>2
<1> QED
  BY <1>1, <1>2, <1>6, <1>8, <1>9, <1>10 DEF Over, HasRow

\* The fallback takes a call up, or finds none.
LEMMA OverGrace == ASSUME OneCall, Registry, Over, NEW p \in Proc, CleanUp(p) \/ Between(p) PROVE Over'
<1>0. TypeOK /\ Ends(p) /\ req[p] \in Handler /\ ~InLock(p)
      /\ req[p].at \in {"clean1", "clean2", "between"} /\ req[p].call \in CallId /\ req[p].me \in User
  BY RegistryFacts DEF Over, CleanUp, Between, InLock, Removing
<1>1. UNCHANGED <<calls, session, rows, endLock, asked, failures, crashes>>
  BY DEF CleanUp, Between, redis, calling, story, faults
<1>2. endLock'[1] # p /\ (HasRow' <=> HasRow) /\ (Live' <=> Live)
      /\ (1 \in asked' => Settled) /\ (HasRow' => 1 \in asked')
  BY <1>0, <1>1, UserAssumption DEF Over, HasRow, Live
<1>3. ASSUME NEW l \in {"clean2", "done", "idle"}, Goto(p, l) PROVE Over'
  BY <1>0, <1>1, <1>2, <1>3, OverGoto DEF Labels, Starts, Ending, Removing, Trying
<1>4. ASSUME NEW u \in User, NEW n \in {"clean2", "done", "idle"}, Current(u) # 0,
             req' = [req EXCEPT ![p] = [@ EXCEPT !.at = "gracelog", !.after = n,
                     !.target = Current(u), !.seen = session[Current(u)]]]
      PROVE  Over'
  <2>1. PICK t \in CallId : Current(u) = t /\ session[t] \in SessionStatus
    BY <1>0, <1>4, Lookups
  <2> DEFINE d == [req[p] EXCEPT !.at = "gracelog", !.after = n, !.target = t, !.seen = session[t]]
  <2>2. d \in Handler /\ d.at = "gracelog" /\ d.op = req[p].op
    BY <1>0, <2>1 DEF Handler, Labels
  <2>3. req' = [req EXCEPT ![p] = d]
    BY <1>4, <2>1
  <2> HIDE DEF d
  <2>4. req'[p] = d
    BY <1>0, <2>2, <2>3, Moved
  <2>5. Ends(p)'
    BY <1>0, <2>2, <2>4 DEF Ends, Starts, Ending, InLock, Removing
  <2> QED
    BY <1>0, <1>1, <1>2, <2>2, <2>3, <2>5, OverMove DEF Starts, Removing, Trying
<1>5. party[req[p].call].caller \in User /\ party[req[p].call].callee \in User
  BY <1>0 DEF TypeOK
<1> QED
  BY <1>0, <1>3, <1>4, <1>5 DEF CleanUp, Between, Grace

\* Locks, results and keys run out.
LEMMA OverTime ==
  ASSUME OneCall, Registry, Over,
         \/ \E c \in CallId : LockExpires(c) \/ ResultExpires(c) \/ SessionExpires(c)
         \/ \E u \in User : IndexExpires(u)
         \/ UNCHANGED vars
  PROVE  Over'
<1>0. 1 \in CallId /\ CallId = {1} /\ endLock \in [CallId -> Proc \cup {NULL}] /\ session \in [CallId -> SessionStatus]
  BY OneCallId DEF Registry, TypeOK
<1>1. /\ UNCHANGED <<calls, rows, asked, req, failures, crashes>>
      /\ endLock'[1] \in {endLock[1], NULL}
      /\ session'[1] \in {session[1], "none"}
  BY <1>0 DEF LockExpires, ResultExpires, SessionExpires, IndexExpires, vars, redis, calling, story, faults
<1>2. \A q \in Proc : InLock(q)' <=> InLock(q)
  BY <1>1 DEF InLock
<1>3. endLock'[1] # NULL => InLock(endLock[1])'
  <2> SUFFICES ASSUME endLock'[1] # NULL PROVE InLock(endLock[1])'
    OBVIOUS
  <2>1. PICK q \in Proc : q = endLock[1] /\ q = endLock'[1] /\ InLock(q)
    BY <1>0, <1>1 DEF Over
  <2>2. InLock(q)'
    BY <1>2, <2>1
  <2> QED
    BY <2>1, <2>2
<1>4. Settled' <=> Settled
  BY <1>1 DEF Settled
<1>5. (Live' => Live) /\ (HasRow' <=> HasRow)
  BY <1>1 DEF Live, HasRow
<1>6. \A q \in Proc : Ends(q)'
  BY <1>1, <1>2, <1>4, <1>5 DEF Over, Ends
<1> QED
  BY <1>1, <1>3, <1>4, <1>5, <1>6 DEF Over

EndsOrBlocks == \A t \in Ops : t[1] \in EndingOps \cup {"block"}

LEMMA OverStep == ASSUME OneCall, EndsOrBlocks, Registry, Over, [Next]_vars PROVE Over'
<1>1. ASSUME NEW p \in Proc, Step(p) PROVE Over'
  <2>1. ~(StatusLoad(p) \/ StatusSave(p) \/ EventThrows(p))
    BY DEF Over, Ends, StatusLoad, StatusSave, EventThrows, DbThrows, OneCall
  <2> QED
    BY <1>1, <2>1, OverDecide, OverRemove, OverGraceLog, OverValidate, OverRinging, OverStart, OverEndLoad, OverLock,
       OverCreate, OverOrphan, OverNotify, OverGrace DEF Step
<1>2. ASSUME NEW p \in Proc, NEW t \in Ops, NEW c \in CallId, Begin(p, t[1], t[2], t[3], c) PROVE Over'
  BY <1>2, OverBegin DEF EndsOrBlocks
<1>3. ASSUME NEW p \in Proc PROVE ~Crash(p)
  BY DEF Crash, Over, OneCall
<1> QED
  BY <1>1, <1>2, <1>3, OverTime DEF Next

LEMMA InitOver == OneCall /\ Init => Over
<1> SUFFICES ASSUME OneCall, Init PROVE Over
  OBVIOUS
<1>1. 1 \in CallId
  BY OneCallId
<1>2. \A p \in Proc : req[p].at = "idle" /\ req[p].op = "start"
  BY DEF Init, Idle
<1>3. ~Live /\ ~HasRow /\ endLock[1] = NULL /\ asked = {} /\ failures = 0 /\ crashes = 0
  BY <1>1 DEF Init, Live, HasRow
<1>4. \A p \in Proc : Ends(p)
  BY <1>2, <1>3 DEF Ends, EndingOps, Starts, Ending, InLock, Removing
<1> QED
  BY <1>3, <1>4 DEF Over

\* Whoever of the concurrent enders of a call does the work, the call is over
\* when they have all returned: however many hang-ups, rejections and timers
\* meet, whatever end lock expires under its holder, and although waiters give
\* up before the holder is done and a block removes the session with no lock.
THEOREM EndedIsOverHolds == OneCall /\ EndsOrBlocks => (Spec => []EndedIsOver)
<1> SUFFICES ASSUME OneCall, EndsOrBlocks PROVE Spec => []EndedIsOver
  OBVIOUS
<1>1. Registry /\ Over /\ [Next]_vars => Over'
  BY OverStep
<1>2. Registry /\ Over => EndedIsOver
  <2> SUFFICES ASSUME Registry, Over, \A p \in Proc : req[p].at = "idle", NEW c \in asked
               PROVE  session[c] = "none"
    BY DEF EndedIsOver
  <2>1. c = 1
    BY OneCallId DEF Registry, TypeOK
  <2>2. ~\E p \in Proc : req[p].at \in Trying \/ req[p].at \in Removing
    BY DEF Trying, Removing
  <2> QED
    BY <2>1, <2>2 DEF Over, Live
<1> QED
  BY <1>1, <1>2, InitOver, RegistryInvariant, PTL DEF Spec
-----------------------------------------------------------------------------
(* The rows of one call.                                                   *)

OnlyEnds == \A t \in Ops : t[1] \in EndingOps

\* No end lock expires under its holder, who needs less than the others wait.
SwiftEnds == MaxExpiries = 0 /\ SlowEnds = FALSE

\* A handler after its removal, or one that may fall back to endCallGracefully.
Late == {"publish", "fail", "release", "unlock", "clean1", "clean2"}

Waiting == {"cached", "subscribe", "wait"}

Alone(p) ==
    /\ req[p].op # "block" /\ req[p].at \notin {"between", "gracelog"}
    /\ req[p].at \in Removing => req[p].after = "publish"
    /\ req[p].at \in Late => 1 \in asked /\ ~Live
    /\ (req[p].at \in Waiting /\ Live) => \E q \in Proc : InLock(q)

\* Whoever waits for a live session has a holder to wait for, and the fallback
\* that writes a second row never finds a session.
Sole == expiries = 0 /\ rows[1].loose = 0 /\ \A p \in Proc : Alone(p)

\* No session of a call that is to end comes to life.
LEMMA NoReturn == ASSUME OneCall, Registry, Over, [Next]_vars, 1 \in asked, ~Live PROVE ~Live'
<1>0. TypeOK /\ 1 \in CallId /\ calls = 1 /\ \A q \in Proc : req[q].at \notin Starts
  BY OneCallId DEF Registry, Over, Settled
<1>1. ASSUME NEW p \in Proc PROVE ~(StartStore(p) \/ StatusSave(p) \/ DetailSave(p))
  BY <1>0 DEF StartStore, StatusSave, DetailSave, Starts, Over, Ends, OneCall
<1>2. ASSUME NEW p \in Proc, Step(p) PROVE session'[1] \in {session[1], "none"}
  <2>1. CASE UNCHANGED session
    BY <2>1
  <2>2. CASE RemoveSession(p)
    <3>1. req[p].target = 1 /\ session \in [CallId -> SessionStatus]
      BY OneCallFacts, <1>0 DEF TypeOK
    <3> QED
      BY <1>0, <2>2, <3>1 DEF RemoveSession
  <2> QED
    BY <1>1, <1>2, <2>1, <2>2, SessionWriters
<1>3. ASSUME NEW p \in Proc, Crash(p) \/ \E t \in Ops, c \in CallId : Begin(p, t[1], t[2], t[3], c)
      PROVE  session' = session
  BY <1>3 DEF Begin, Crash, redis
<1>4. ASSUME NEW c \in CallId, LockExpires(c) \/ ResultExpires(c) \/ SessionExpires(c)
      PROVE  session'[1] \in {session[1], "none"}
  BY <1>0, <1>4 DEF LockExpires, ResultExpires, SessionExpires, TypeOK
<1>5. ASSUME NEW u \in User, IndexExpires(u) PROVE session' = session
  BY <1>5 DEF IndexExpires
<1>6. UNCHANGED vars => session' = session
  BY DEF vars, redis
<1>7. session'[1] \in {session[1], "none"}
  BY <1>2, <1>3, <1>4, <1>5, <1>6 DEF Next
<1> QED
  BY <1>7 DEF Live

\* A step of one handler leaves the others alone, if it leaves no lock while
\* the session lives.
LEMMA AloneMove ==
  ASSUME OneCall, Registry, Over, Sole, [Next]_vars, NEW p \in Proc, NEW d \in Handler,
         req' = [req EXCEPT ![p] = d],
         asked \subseteq asked', expiries' = 0, rows'[1].loose = 0,
         Live' => (InLock(p) => InLock(p)'),
         Live' => Live \/ \A q \in Proc : req[q].at \notin Waiting,
         d.op # "block" /\ d.at \notin {"between", "gracelog"},
         d.at \in Removing => d.after = "publish",
         d.at \in Late => 1 \in asked' /\ ~Live',
         (d.at \in Waiting /\ Live') => \E q \in Proc : InLock(q)'
  PROVE  Sole'
<1>1. req'[p] = d /\ \A q \in Proc : q # p => req'[q] = req[q]
  BY Moved DEF Registry
<1>2. \A q \in Proc : q # p => (InLock(q)' <=> InLock(q))
  BY <1>1 DEF InLock
<1>3. ASSUME NEW q \in Proc, q # p PROVE Alone(q)'
  <2>1. Alone(q) /\ req'[q] = req[q]
    BY <1>1, <1>3 DEF Sole
  <2>2. (1 \in asked /\ ~Live) => ~Live'
    BY NoReturn
  <2>3. (req[q].at \in Waiting /\ Live') => \E r \in Proc : InLock(r)'
    <3> SUFFICES ASSUME req[q].at \in Waiting, Live' PROVE \E r \in Proc : InLock(r)'
      OBVIOUS
    <3>1. PICK r \in Proc : InLock(r)
      BY <2>1 DEF Alone
    <3>2. InLock(r)'
      BY <1>2, <3>1
    <3> QED
      BY <3>2
  <2> QED
    BY <2>1, <2>2, <2>3 DEF Alone
<1>4. Alone(p)'
  BY <1>1 DEF Alone
<1> QED
  BY <1>3, <1>4 DEF Sole

\* A handler that only changes its control point.
LEMMA AloneGoto ==
  ASSUME OneCall, Registry, Over, Sole, [Next]_vars, NEW p \in Proc, NEW l \in Labels, Goto(p, l),
         UNCHANGED <<asked, expiries, rows>>, session'[1] \in {session[1], "none"},
         Live' => (InLock(p) =>
           l \in {"create", "publish", "fail", "release", "unlock"} \/ (l \in Removing /\ req[p].after = "publish")),
         l \notin {"between", "gracelog"},
         l \in Removing => req[p].at \in Removing,
         l \in Late => 1 \in asked /\ ~Live',
         (l \in Waiting /\ Live') => \E q \in Proc : q # p /\ InLock(q)
  PROVE  Sole'
<1>0. TypeOK /\ Alone(p)
  BY DEF Registry, Sole
<1>1. PICK d \in Handler :
           /\ req' = [req EXCEPT ![p] = d] /\ d.at = l
           /\ l = "idle" => d.call = 1
           /\ l # "idle" => /\ d.op = req[p].op /\ d.me = req[p].me /\ d.peer = req[p].peer
                            /\ d.call = req[p].call /\ d.target = req[p].target
                            /\ d.seen = req[p].seen /\ d.after = req[p].after
  BY <1>0, GotoMove
<1>2. req'[p] = d /\ \A q \in Proc : q # p => req'[q] = req[q]
  BY <1>0, <1>1, Moved
<1>3. l = "idle" => d.op = "start"
  BY <1>0, <1>2, AnyUserType DEF Goto, Idle, TypeOK
<1>4. (d.at \in Waiting /\ Live') => \E q \in Proc : InLock(q)'
  <2> SUFFICES ASSUME l \in Waiting, Live' PROVE \E q \in Proc : InLock(q)'
    BY <1>1
  <2>1. PICK q \in Proc : q # p /\ InLock(q)
    OBVIOUS
  <2>2. InLock(q)'
    BY <1>2, <2>1 DEF InLock
  <2> QED
    BY <2>2
<1>5. Live' => (InLock(p) => InLock(p)')
  BY <1>1, <1>2 DEF InLock, Removing
<1>6. Live' => Live
  BY DEF Live
<1>7. expiries' = 0 /\ rows'[1].loose = 0 /\ asked \subseteq asked'
  BY DEF Sole
<1>8. d.op # "block" /\ (d.at \in Removing => d.after = "publish")
  BY <1>0, <1>1, <1>3 DEF Alone, Removing
<1> QED
  BY <1>1, <1>4, <1>5, <1>6, <1>7, <1>8, AloneMove

\* The steps that decide where to go on.
LEMMA AloneDecide ==
  ASSUME OneCall, SwiftEnds, Registry, Over, Sole, [Next]_vars, NEW p \in Proc,
         \/ StartCaller(p) \/ StartCallee(p) \/ StartIndex(p) \/ DetailTtl(p) \/ Cached(p)
         \/ Subscribe(p) \/ WaitTimesOut(p) \/ Release(p) \/ Done(p) \/ RemoveLoad(p)
         \/ RemoveIndex(p) \/ Unlock(p)
  PROVE  Sole'
<1> USE DEF redis, calling, story, faults
<1>0. TypeOK /\ Fits(p) /\ Ends(p) /\ Alone(p) /\ req[p].at \in Labels /\ req[p].target = 1
  BY RegistryFacts, OneCallFacts DEF Over, Sole
<1>1. UNCHANGED <<session, rows, asked, expiries>> /\ session'[1] \in {session[1], "none"} /\ (Live' <=> Live)
  BY DEF StartCaller, StartCallee, StartIndex, DetailTtl, Cached, Subscribe, WaitTimesOut,
     Release, Done, RemoveLoad, RemoveIndex, Unlock, Live
<1>2. CASE StartCaller(p) \/ StartCallee(p) \/ StartIndex(p) \/ DetailTtl(p)
  <2>1. PICK l \in {"idle", "callee", "store", "load2", "save2"} :
          Goto(p, l) /\ req[p].at \in {"caller", "callee", "index", "ttl"}
    BY <1>2 DEF StartCaller, StartCallee, StartIndex, DetailTtl
  <2> QED
    BY <1>0, <1>1, <2>1, AloneGoto DEF Labels, Removing, Late, Waiting, InLock
<1>3. CASE Cached(p) \/ Subscribe(p)
  <2>1. PICK l \in {"done", "subscribe", "wait"} : Goto(p, l) /\ req[p].at \in {"cached", "subscribe"}
    BY <1>3 DEF Cached, Subscribe
  <2>2. ~InLock(p) /\ req[p].at \in Waiting
    BY <2>1 DEF InLock, Removing, Waiting
  <2>3. Live => \E q \in Proc : q # p /\ InLock(q)
    BY <1>0, <2>2 DEF Alone
  <2> QED
    BY <1>0, <1>1, <2>1, <2>2, <2>3, AloneGoto DEF Labels, Removing, Late, Waiting
<1>4. CASE WaitTimesOut(p)
  <2>1. Goto(p, "clean1") /\ req[p].at = "wait" /\ \A q \in Proc : ~InLock(q)
    BY <1>4, OneCallFacts DEF WaitTimesOut, SwiftEnds
  <2>2. ~Live /\ 1 \in asked
    BY <1>0, <2>1 DEF Alone, Waiting, Ends, Ending
  <2> QED
    BY <1>0, <1>1, <2>1, <2>2, AloneGoto DEF Labels, Removing, Late, Waiting, InLock
<1>5. CASE Release(p) \/ Unlock(p)
  <2>1. PICK l \in {"unlock", "done", "clean1"} : Goto(p, l) /\ req[p].at \in {"release", "unlock"}
    BY <1>0, <1>5 DEF Release, Unlock, Fits
  <2>2. ~Live /\ 1 \in asked
    BY <1>0, <2>1 DEF Alone, Late
  <2> QED
    BY <1>0, <1>1, <2>1, <2>2, AloneGoto DEF Labels, Removing, Late, Waiting
<1>6. CASE Done(p)
  <2>1. Goto(p, "idle") /\ req[p].at = "done"
    BY <1>6 DEF Done
  <2> QED
    BY <1>0, <1>1, <2>1, AloneGoto DEF Labels, Removing, Late, Waiting, InLock
<1>7. CASE RemoveLoad(p) \/ RemoveIndex(p)
  <2>1. PICK l \in {"delete", "unindex"} : Goto(p, l) /\ req[p].at \in {"rmload", "unindex"}
    BY <1>7 DEF RemoveLoad, RemoveIndex
  <2> QED
    BY <1>0, <1>1, <2>1, AloneGoto DEF Labels, Removing, Late, Waiting, InLock, Alone
<1> QED
  BY <1>2, <1>3, <1>4, <1>5, <1>6, <1>7

LEMMA AloneRemove ==
  ASSUME OneCall, Registry, Over, Sole, [Next]_vars, NEW p \in Proc, RemoveSession(p) PROVE Sole'
<1>0. TypeOK /\ Ends(p) /\ Alone(p) /\ req[p].target = 1 /\ 1 \in CallId /\ InLock(p)
      /\ req[p].at = "delete" /\ req[p].after = "publish"
  BY RegistryFacts, OneCallFacts DEF Over, Sole, Alone, RemoveSession, Removing, InLock
<1>1. UNCHANGED <<rows, asked, expiries>> /\ Goto(p, "publish")
  BY <1>0 DEF RemoveSession, calling, story, faults
<1>2. session'[1] = "none" /\ ~Live'
  BY <1>0 DEF RemoveSession, TypeOK, Live
<1>3. 1 \in asked
  BY <1>0 DEF Over, Ends
<1> QED
  BY <1>0, <1>1, <1>2, <1>3, AloneGoto DEF Labels, Removing, Late, Waiting

LEMMA AloneBegin ==
  ASSUME OneCall, Registry, Over, Sole, [Next]_vars, NEW p \in Proc, NEW t \in Ops, NEW c \in CallId,
         t[1] \in EndingOps, Begin(p, t[1], t[2], t[3], c)
  PROVE  Sole'
<1>0. TypeOK
  BY DEF Registry
<1> DEFINE l == CASE t[1] = "start" -> "caller" [] t[1] = "block" -> "between" [] OTHER -> "validate"
           d == [Idle EXCEPT !.op = t[1], !.me = t[2], !.peer = t[3], !.call = c, !.at = l]
<1>1. l \in {"caller", "validate"}
  BY DEF EndingOps
<1>2. req' = [req EXCEPT ![p] = d] /\ req[p].at = "idle" /\ UNCHANGED <<session, rows, asked, expiries>>
  BY DEF Begin, redis, story, faults
<1>3. d \in Handler /\ d.at = l /\ d.op = t[1]
  <2>1. Idle \in Handler
    BY AnyUserType, BoundAssumption DEF Idle, Handler, Labels, OpNames, SessionStatus, CallId
  <2>2. t[1] \in OpNames /\ t[2] \in User /\ t[3] \in User /\ l \in Labels
    BY <1>1, OpsAssumption DEF Labels
  <2> HIDE DEF l
  <2> QED
    BY <2>1, <2>2 DEF Idle, Handler
<1> HIDE DEF d, l
<1>4. ~InLock(p) /\ (Live' <=> Live)
  BY <1>2 DEF InLock, Removing, Live
<1>5. d.op # "block" /\ expiries' = 0 /\ rows'[1].loose = 0
  BY <1>2, <1>3 DEF EndingOps, Sole
<1> QED
  BY <1>1, <1>2, <1>3, <1>4, <1>5, AloneMove DEF Removing, Late, Waiting

LEMMA AloneValidate ==
  ASSUME OneCall, Registry, Over, Sole, [Next]_vars, NEW p \in Proc, Validate(p) PROVE Sole'
<1>0. TypeOK /\ Ends(p) /\ Alone(p) /\ req[p].call = 1 /\ 1 \in CallId /\ req[p] \in Handler
      /\ session[1] \in SessionStatus
  BY RegistryFacts, OneCallFacts DEF Over, TypeOK, Sole
<1>1. UNCHANGED <<session, rows, expiries>> /\ req[p].at = "validate" /\ ~InLock(p) /\ asked \subseteq asked'
  BY DEF Validate, redis, faults, InLock, Removing
<1>2. CASE Goto(p, "idle") /\ UNCHANGED asked
  BY <1>0, <1>1, <1>2, AloneGoto DEF Labels, Removing, Late, Waiting
<1>3. CASE Permitted(p, Subject(p))
  <2>1. req[p].op \in Enders /\ Subject(p) = 1
    BY <1>0, <1>1 DEF Ends, Subject, EndingOps
  <2> DEFINE d == [req[p] EXCEPT !.call = 1, !.seen = session[1], !.at = "endload"]
  <2>2. d \in Handler /\ d.at = "endload" /\ d.op = req[p].op
    BY <1>0 DEF Handler, Labels
  <2>3. req' = [req EXCEPT ![p] = d]
    BY <1>3, <2>1 DEF Validate, Enders
  <2> HIDE DEF d
  <2>4. (Live' <=> Live) /\ expiries' = 0 /\ rows'[1].loose = 0 /\ d.op # "block"
    BY <1>0, <1>1, <2>2 DEF Live, Sole, Alone
  <2> QED
    BY <1>1, <2>2, <2>3, <2>4, AloneMove DEF Removing, Late, Waiting
<1> QED
  BY <1>2, <1>3 DEF Validate

LEMMA AloneRinging ==
  ASSUME OneCall, Registry, Over, Sole, [Next]_vars, NEW p \in Proc, RingingGrace(p) PROVE Sole'
<1>0. TypeOK /\ Ends(p) /\ Alone(p) /\ req[p].call = 1 /\ 1 \in CallId /\ req[p] \in Handler
  BY RegistryFacts, OneCallFacts DEF Over, TypeOK, Sole
<1>1. UNCHANGED <<session, rows, expiries>> /\ req[p].at = "validate" /\ ~InLock(p) /\ asked \subseteq asked'
  BY DEF RingingGrace, redis, faults, InLock, Removing
<1> DEFINE d == [req[p] EXCEPT !.seen = "RINGING", !.at = "endload"]
<1>2. d \in Handler /\ d.at = "endload" /\ d.op = req[p].op
  BY <1>0 DEF Handler, Labels, SessionStatus
<1>3. req' = [req EXCEPT ![p] = d]
  BY DEF RingingGrace
<1> HIDE DEF d
<1>4. (Live' <=> Live) /\ expiries' = 0 /\ rows'[1].loose = 0 /\ d.op # "block"
  BY <1>0, <1>1, <1>2 DEF Live, Sole, Alone
<1> QED
  BY <1>1, <1>2, <1>3, <1>4, AloneMove DEF Removing, Late, Waiting

LEMMA AloneStart ==
  ASSUME OneCall, Registry, Over, Sole, [Next]_vars, NEW p \in Proc,
         StartStore(p) \/ DetailLoad(p) \/ DetailSave(p)
  PROVE  Sole'
<1>0. /\ TypeOK /\ Ends(p) /\ Alone(p) /\ req[p].call = 1 /\ 1 \in CallId /\ req[p] \in Handler
      /\ session[1] \in SessionStatus /\ calls \in {0, 1} /\ MaxCalls = 1 /\ ~InLock(p)
  BY RegistryFacts, OneCallFacts
     DEF Over, TypeOK, OneCall, Sole, StartStore, DetailLoad, DetailSave, InLock, Removing
<1>1. UNCHANGED <<rows, asked, expiries>>
  BY DEF StartStore, DetailLoad, DetailSave, redis, story, faults
<1>2. 1 \notin asked
  <2>1. CASE StartStore(p)
    BY <1>0, <2>1 DEF StartStore, Over, Settled
  <2>2. CASE DetailLoad(p) \/ DetailSave(p)
    BY <2>2 DEF DetailLoad, DetailSave, Over, Settled, Starts
  <2> QED
    BY <2>1, <2>2
<1>3. \A q \in Proc : req[q].at \notin Waiting
  BY <1>2 DEF Over, Ends, Ending, Waiting
<1>4. req[p].op = "start"
  BY <1>0 DEF StartStore, DetailLoad, DetailSave, Ends, Starts
<1>5. PICK d \in Handler : req' = [req EXCEPT ![p] = d] /\ d.op = "start" /\ d.at \in {"index", "ttl", "idle"}
  BY <1>4, StartMove
<1> QED
  BY <1>0, <1>1, <1>3, <1>5, AloneMove DEF Sole, Removing, Late, Waiting

LEMMA AloneEndLoad ==
  ASSUME OneCall, Registry, Over, Sole, [Next]_vars, NEW p \in Proc, EndLoad(p) PROVE Sole'
<1>0. TypeOK /\ Alone(p) /\ Calls /\ req[p].call = 1 /\ 1 \in CallId /\ req[p] \in Handler
  BY RegistryFacts, OneCallFacts DEF Sole
<1>1. UNCHANGED <<session, rows, asked, expiries>> /\ req[p].at = "endload" /\ ~InLock(p)
  BY DEF EndLoad, redis, story, faults, InLock, Removing
<1>2. CASE Found(1) = 0
  <2>1. Goto(p, "orphan")
    BY <1>0, <1>2 DEF EndLoad
  <2> QED
    BY <1>0, <1>1, <2>1, AloneGoto DEF Labels, Removing, Late, Waiting
<1>3. CASE Found(1) # 0
  <2>1. PICK t \in CallId : t = Found(1)
    BY <1>0, <1>3, FoundFacts
  <2> DEFINE d == [req[p] EXCEPT !.target = t, !.at = "lock"]
  <2>2. d \in Handler /\ d.at = "lock" /\ d.op = req[p].op
    BY <1>0 DEF Handler, Labels
  <2>3. req' = [req EXCEPT ![p] = d]
    BY <1>0, <1>3, <2>1 DEF EndLoad
  <2> HIDE DEF d
  <2>4. (Live' <=> Live) /\ expiries' = 0 /\ rows'[1].loose = 0 /\ d.op # "block"
    BY <1>0, <1>1, <2>2 DEF Live, Sole, Alone
  <2> QED
    BY <1>1, <2>2, <2>3, <2>4, AloneMove DEF Removing, Late, Waiting
<1> QED
  BY <1>2, <1>3

LEMMA AloneLock ==
  ASSUME OneCall, Registry, Over, Sole, [Next]_vars, NEW p \in Proc, Lock(p) PROVE Sole'
<1>0. TypeOK /\ req[p].target = 1 /\ 1 \in CallId /\ endLock[1] \in Proc \cup {NULL}
  BY RegistryFacts, OneCallFacts DEF TypeOK
<1>1. UNCHANGED <<session, rows, asked, expiries>> /\ req[p].at = "lock" /\ ~InLock(p)
      /\ session'[1] \in {session[1], "none"}
  BY DEF Lock, story, faults, InLock, Removing
<1>2. CASE Goto(p, "create")
  BY <1>0, <1>1, <1>2, AloneGoto DEF Labels, Removing, Late, Waiting
<1>3. CASE Goto(p, "cached") /\ endLock[1] # NULL
  <2>1. PICK q \in Proc : q = endLock[1] /\ InLock(q)
    BY <1>0, <1>3 DEF Over
  <2> QED
    BY <1>0, <1>1, <1>3, <2>1, AloneGoto DEF Labels, Removing, Late, Waiting
<1> QED
  BY <1>0, <1>2, <1>3 DEF Lock

\* The holder that finds a row finds no session: the writer of the row held the
\* lock until the session was gone.
LEMMA AloneCreate ==
  ASSUME OneCall, Registry, Over, Sole, [Next]_vars, NEW p \in Proc, Create(p) PROVE Sole'
<1>0. TypeOK /\ Ends(p) /\ Alone(p) /\ Fits(p) /\ req[p].target = 1 /\ 1 \in CallId /\ req[p] \in Handler
      /\ rows[1] \in [keyed : CallStatus \cup {"none"}, loose : 0..2] /\ ~DbThrows
  BY RegistryFacts, OneCallFacts DEF Over, TypeOK, DbThrows, OneCall, Sole
<1>1. UNCHANGED <<session, asked, expiries>> /\ req[p].at = "create" /\ 1 \in asked /\ InLock(p)
      /\ session'[1] \in {session[1], "none"}
  BY <1>0 DEF Create, redis, story, Ends, Ending, InLock
<1>2. CASE HasRow
  <2>1. Goto(p, "fail") /\ UNCHANGED rows
    BY <1>0, <1>2 DEF Create, HasRow
  <2>2. ~Live
    <3>1. ASSUME NEW q \in Proc, req[q].at \in Removing, req[q].after = "publish" PROVE FALSE
      <4>1. InLock(q) /\ Fits(q) /\ req[q].target = 1
        BY <3>1, RegistryFacts, OneCallFacts DEF InLock, Removing
      <4>2. endLock[1] = q /\ endLock[1] = p
        BY <1>0, <1>1, <4>1 DEF Fits, Sole
      <4> QED
        BY <1>1, <3>1, <4>2 DEF Removing
    <3> QED
      BY <1>2, <3>1 DEF Over
  <2> QED
    BY <1>0, <1>1, <2>1, <2>2, AloneGoto DEF Labels, Removing, Late, Waiting, Live
<1>3. CASE ~HasRow
  <2> DEFINE d == [req[p] EXCEPT !.at = "rmload", !.after = "publish"]
  <2>1. d \in Handler /\ d.at = "rmload" /\ d.after = "publish" /\ d.op = req[p].op
    BY <1>0 DEF Handler, Labels
  <2>2. req' = [req EXCEPT ![p] = d] /\ rows' = [rows EXCEPT ![1].keyed = Resolve(req[p].op, req[p].seen)]
    BY <1>0, <1>3 DEF Create, HasRow
  <2> HIDE DEF d
  <2>3. req'[p] = d
    BY <1>0, <2>1, <2>2, Moved
  <2>4. InLock(p)'
    BY <2>1, <2>3 DEF InLock
  <2>5. rows'[1].loose = 0 /\ expiries' = 0 /\ (Live' <=> Live) /\ d.op # "block"
    BY <1>0, <1>1, <2>1, <2>2 DEF TypeOK, Sole, Live, Alone
  <2> QED
    BY <1>1, <2>1, <2>2, <2>4, <2>5, AloneMove DEF Removing, Late, Waiting
<1> QED
  BY <1>2, <1>3

LEMMA AloneOrphan ==
  ASSUME OneCall, Registry, Over, Sole, [Next]_vars, NEW p \in Proc, Orphan(p) PROVE Sole'
<1>0. TypeOK /\ Ends(p) /\ Alone(p) /\ req[p].call = 1 /\ 1 \in CallId /\ req[p] \in Handler
      /\ rows[1] \in [keyed : CallStatus \cup {"none"}, loose : 0..2]
  BY RegistryFacts, OneCallFacts DEF Over, TypeOK, Sole
<1>1. UNCHANGED <<session, asked, expiries>> /\ 1 \in asked /\ ~Live /\ ~Live' /\ req[p].at = "orphan"
  BY <1>0 DEF Orphan, redis, story, Ends, Ending, Live
<1>2. PICK l \in {"done", "clean1"} : Goto(p, l)
  BY DEF Orphan
<1>3. PICK d \in Handler : req' = [req EXCEPT ![p] = d] /\ d.at = l /\ d.op = req[p].op
  BY <1>0, <1>2, GotoMove DEF Labels
<1>4. rows'[1].loose = 0 /\ expiries' = 0 /\ d.op # "block"
  BY <1>0, <1>1, <1>3 DEF Orphan, TypeOK, Sole, Alone
<1> QED
  BY <1>1, <1>3, <1>4, AloneMove DEF Removing, Late, Waiting

LEMMA AloneNotify ==
  ASSUME OneCall, Registry, Over, Sole, [Next]_vars, NEW p \in Proc, Publish(p) \/ Fail(p) PROVE Sole'
<1>0. TypeOK /\ Alone(p) /\ req[p].at \in {"publish", "fail"}
  BY RegistryFacts DEF Publish, Fail, Sole
<1>1. UNCHANGED <<session, rows, asked, expiries>> /\ 1 \in asked /\ ~Live /\ ~Live'
  BY <1>0 DEF Publish, Fail, redis, story, faults, Alone, Late, Live
<1>2. PICK l \in {"done", "endload"}, m \in {"done", "clean1"} : Notify(p, l, m)
  BY DEF Publish, Fail
<1>3. /\ req'[p].at = "release" /\ req'[p].after = m
      /\ \A q \in Proc : q # p => req'[q] = req[q] \/ (req[q].at = "wait" /\ req'[q].at = l)
  BY <1>0, <1>2, NotifyFacts
<1>4. \A q \in Proc : req'[q].op = req[q].op
  BY <1>0, <1>2, NotifyFacts
<1>5. ASSUME NEW q \in Proc PROVE Alone(q)'
  <2>1. Alone(q)
    BY DEF Sole
  <2>2. 1 \in asked' /\ ~Live'
    BY <1>1
  <2>3. req'[q].at \in {"release", l} \/ req'[q] = req[q]
    BY <1>3
  <2> QED
    BY <1>4, <2>1, <2>2, <2>3 DEF Alone, Removing, Late, Waiting
<1> QED
  BY <1>1, <1>5 DEF Sole

LEMMA AloneGrace ==
  ASSUME OneCall, Registry, Over, Sole, [Next]_vars, NEW p \in Proc, CleanUp(p) PROVE Sole'
<1>0. TypeOK /\ Alone(p) /\ req[p].at \in {"clean1", "clean2"} /\ req[p].call \in CallId
  BY RegistryFacts DEF Sole, CleanUp
<1>1. UNCHANGED <<session, rows, asked, expiries>> /\ 1 \in asked /\ ~Live
      /\ session'[1] \in {session[1], "none"}
  BY <1>0 DEF CleanUp, redis, story, faults, Alone, Late
<1>2. \A u \in User : Current(u) = 0
  <2>1. ASSUME NEW u \in User, index[u] # 0 PROVE session[index[u]] = "none"
    BY <1>0, <1>1, <2>1, OneCallId DEF TypeOK, Live
  <2> QED
    BY <2>1 DEF Current
<1>3. party[req[p].call].caller \in User /\ party[req[p].call].callee \in User
  BY <1>0 DEF TypeOK
<1>4. PICK l \in {"clean2", "done"} : Goto(p, l)
  BY <1>2, <1>3 DEF CleanUp, Grace
<1> QED
  BY <1>0, <1>1, <1>4, AloneGoto DEF Labels, Removing, Late, Waiting, Live

LEMMA AloneTime ==
  ASSUME OneCall, SwiftEnds, Registry, Over, Sole, [Next]_vars,
         \/ \E c \in CallId : LockExpires(c) \/ ResultExpires(c) \/ SessionExpires(c)
         \/ \E u \in User : IndexExpires(u)
         \/ UNCHANGED vars
  PROVE  Sole'
<1>0. 1 \in CallId /\ CallId = {1} /\ session \in [CallId -> SessionStatus]
  BY OneCallId DEF Registry, TypeOK
<1>1. UNCHANGED <<rows, asked, req, expiries>> /\ session'[1] \in {session[1], "none"}
  BY <1>0 DEF LockExpires, ResultExpires, SessionExpires, IndexExpires, vars, redis, story, faults,
     SwiftEnds, Sole
<1>2. \A q \in Proc : InLock(q)' <=> InLock(q)
  BY <1>1 DEF InLock
<1>3. Live' => Live
  BY <1>1 DEF Live
<1>4. ASSUME NEW q \in Proc PROVE Alone(q)'
  <2>1. Alone(q)
    BY DEF Sole
  <2> QED
    BY <1>1, <1>2, <1>3, <2>1 DEF Alone
<1> QED
  BY <1>1, <1>4 DEF Sole

LEMMA SoleStep ==
  ASSUME OneCall, SwiftEnds, OnlyEnds, Registry, Over, Sole, [Next]_vars PROVE Sole'
<1>1. ASSUME NEW p \in Proc, Step(p) PROVE Sole'
  <2>1. ~(StatusLoad(p) \/ StatusSave(p) \/ EventThrows(p) \/ Between(p) \/ GraceLog(p))
    BY DEF Over, Ends, StatusLoad, StatusSave, EventThrows, DbThrows, OneCall, Sole, Alone, Between, GraceLog
  <2> QED
    BY <1>1, <2>1, AloneDecide, AloneRemove, AloneValidate, AloneRinging, AloneStart, AloneEndLoad, AloneLock,
       AloneCreate, AloneOrphan, AloneNotify, AloneGrace DEF Step
<1>2. ASSUME NEW p \in Proc, NEW t \in Ops, NEW c \in CallId, Begin(p, t[1], t[2], t[3], c) PROVE Sole'
  BY <1>2, AloneBegin DEF OnlyEnds
<1>3. ASSUME NEW p \in Proc PROVE ~Crash(p)
  BY DEF Crash, Over, OneCall
<1> QED
  BY <1>1, <1>2, <1>3, AloneTime DEF Next

\* One call leaves one history row, however many hang-ups, rejections and timers
\* end it at a time: each of them may write the row with the call's id, none
\* reaches the fallback with the session still there.
THEOREM OneRowHolds == OneCall /\ SwiftEnds /\ OnlyEnds => (Spec => []OneRow)
<1> SUFFICES ASSUME OneCall, SwiftEnds, OnlyEnds PROVE Spec => []OneRow
  OBVIOUS
<1>1. Registry /\ Over /\ [Next]_vars => Over'
  <2>1. EndsOrBlocks
    BY DEF OnlyEnds, EndsOrBlocks
  <2> QED
    BY <2>1, OverStep
<1>2. Registry /\ Over /\ Sole /\ [Next]_vars => Sole'
  BY SoleStep
<1>3. Init => Sole
  <2> SUFFICES ASSUME Init PROVE Sole
    OBVIOUS
  <2>1. 1 \in CallId
    BY OneCallId
  <2>2. \A p \in Proc : req[p].at = "idle" /\ req[p].op = "start"
    BY DEF Init, Idle
  <2>3. expiries = 0 /\ rows[1].loose = 0
    BY <2>1 DEF Init
  <2> QED
    BY <2>2, <2>3 DEF Sole, Alone, Removing, Late, Waiting
<1>4. Sole => OneRow
  BY OneCallId DEF Sole, OneRow, Rows
<1> QED
  BY <1>1, <1>2, <1>3, <1>4, InitOver, RegistryInvariant, PTL DEF Spec
=============================================================================
