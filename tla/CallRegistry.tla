---------------------------- MODULE CallRegistry ----------------------------
(***************************************************************************)
(* CallHistoryService: the 1-1 calls that are in progress (Redis:          *)
(* call:session:<id>, call:user:<id>:current), the lock, the cached result *)
(* and the notification with which concurrent enders of one call agree,    *)
(* and the CallHistory rows that the ended calls leave in PostgreSQL.      *)
(*                                                                         *)
(* Every member of Proc is a handler of the signaling gateway or of the    *)
(* block listener.  A handler is split where it awaits Redis or the        *)
(* database; reads that follow one another with no write between them are  *)
(* one step, because only the last of them decides.                        *)
(***************************************************************************)
EXTENDS Naturals, FiniteSets

CONSTANTS
    Proc,         \* handlers in flight
    User, NULL,   \* users; no holder of a lock
    Ops,          \* what the clients and the system do: <<operation, user, other user>>
    MaxCalls,     \* bound: calls started
    MaxFailures,  \* bound: database writes that throw
    MaxCrashes,   \* bound: handlers whose server process dies
    MaxExpiries,  \* bound: end locks that expire under their holder (5 s)
    MaxAges,      \* bound: user index keys that outlive ACTIVE_CALL_TTL (300 s)
    SlowEnds      \* an ender may need more than the 3 s that others wait for it

CallId == 1..MaxCalls

OpNames == {"start", "accept", "drop", "return", "media",
            "hangup", "reject", "timeout", "gone", "enforce", "block"}
Enders == {"hangup", "reject", "timeout", "gone", "enforce"}

ASSUME UserAssumption == User # {} /\ NULL \notin Proc
ASSUME OpsAssumption == Ops \subseteq OpNames \X User \X User
ASSUME BoundAssumption ==
    /\ MaxCalls \in Nat \ {0} /\ {MaxFailures, MaxCrashes, MaxExpiries, MaxAges} \subseteq Nat
    /\ SlowEnds \in BOOLEAN

VARIABLES
    calls,    \* calls started so far, also the last call id
    party,    \* call -> its caller and callee (never change)
    session,  \* call:session:<id>: "none" or the status it holds
    index,    \* call:user:<id>:current: the call a user is in, 0 for none
    armed,    \* calls whose 30 s ringing timer is running
    endLock,  \* call:end_lock:<id>: holder
    result,   \* call:result:<id> is cached
    rows,     \* CallHistory: the row with the call's id, and those with an id of their own
    unlogged, \* history: calls whose endCallGracefully row failed or whose session ran out
    asked,    \* history: calls that somebody was to end
    answered, \* history: calls that went ACTIVE
    req,      \* the handlers
    failures, crashes, expiries, ages

redis  == <<session, index, endLock, result>>
calling == <<calls, party, armed>>
story  == <<unlogged, asked, answered>>
faults == <<failures, crashes, expiries, ages>>
vars   == <<redis, calling, rows, story, req, faults>>

-----------------------------------------------------------------------------
CallStatus == {"COMPLETED", "CANCELLED", "REJECTED", "NO_ANSWER", "MISSED"}

\* Placeholder in the locals of an idle handler and of a call not yet started.
AnyUser == CHOOSE u \in User : TRUE

Idle == [at |-> "idle", op |-> "start", me |-> AnyUser, peer |-> AnyUser,
         call |-> 1, target |-> 1, seen |-> "none", after |-> "idle"]

Goto(p, l) == req' = [req EXCEPT ![p] = IF l = "idle" THEN Idle ELSE [@ EXCEPT !.at = l]]

Parties(c) == {party[c].caller, party[c].callee}

\* getActiveCall: the user's index entry, if the session it names exists.
Current(u) == IF index[u] # 0 /\ session[index[u]] # "none" THEN index[u] ELSE 0

\* An ender between SET NX and the release of the end lock.
InLock(p) ==
    \/ req[p].at \in {"create", "publish", "fail", "release", "unlock"}
    \/ req[p].at \in {"rmload", "unindex", "delete"} /\ req[p].after = "publish"

\* Mutant: a call that still rings counts as answered.
Bug_Resolve(reason, s) ==
    CASE reason = "reject" -> "REJECTED"
      [] reason = "timeout" -> IF s = "RINGING" THEN "NO_ANSWER" ELSE "CANCELLED"
      [] reason = "block" -> "CANCELLED"
      [] reason = "gone" -> IF s = "ACTIVE" THEN "COMPLETED" ELSE "MISSED"
      [] OTHER -> "COMPLETED"

\* resolveCallStatus.
Resolve(reason, s) ==
    CASE reason = "reject" -> "REJECTED"
      [] reason = "timeout" -> IF s = "RINGING" THEN "NO_ANSWER" ELSE "CANCELLED"
      [] reason = "block" -> "CANCELLED"
      [] reason = "gone" -> IF s = "ACTIVE" THEN "COMPLETED" ELSE "MISSED"
      [] OTHER -> IF s = "ACTIVE" THEN "COMPLETED" ELSE "CANCELLED"

-----------------------------------------------------------------------------
Init ==
    /\ calls = 0 /\ party = [c \in CallId |-> [caller |-> AnyUser, callee |-> AnyUser]]
    /\ session = [c \in CallId |-> "none"] /\ index = [u \in User |-> 0]
    /\ armed = {}
    /\ endLock = [c \in CallId |-> NULL] /\ result = [c \in CallId |-> FALSE]
    /\ rows = [c \in CallId |-> [keyed |-> "none", loose |-> 0]]
    /\ unlogged = {} /\ asked = {} /\ answered = {}
    /\ req = [p \in Proc |-> Idle]
    /\ failures = 0 /\ crashes = 0 /\ expiries = 0 /\ ages = 0

\* A start that has a call and has not returned.
Starting(p) == req[p].op = "start" /\ req[p].at \in {"index", "load2", "ttl", "save2"}

\* A handler starts.  A client knows a call once its start has returned; the
\* ringing timer fires at most once and not after it was cleared; the grace
\* timer of a disconnect ("gone") may fire whenever there is a call.
Begin(p, o, u, v, c) ==
    /\ req[p].at = "idle" /\ <<o, u, v>> \in Ops
    /\ o = "start" =>
         calls + Cardinality({q \in Proc : req[q].at \in {"caller", "callee", "store"}}) < MaxCalls
    /\ o \in {"start", "block", "enforce", "drop", "return"} => c = 1 \* names no call
    /\ o \in {"accept", "media", "hangup", "reject", "timeout", "gone"} =>
         /\ c <= calls
         /\ \A q \in Proc : ~(Starting(q) /\ req[q].call = c)
    /\ o = "timeout" => c \in armed
    /\ armed' = IF o = "timeout" THEN armed \ {c} ELSE armed
    /\ req' = [req EXCEPT ![p] = [Idle EXCEPT !.op = o, !.me = u, !.peer = v, !.call = c, !.at =
                   CASE o = "start" -> "caller" [] o = "block" -> "between" [] OTHER -> "validate"]]
    /\ UNCHANGED <<calls, party, redis, rows, story, faults>>

-----------------------------------------------------------------------------
(* startCall: look both users up, then store the session, then index them.   *)

StartCaller(p) ==
    /\ req[p].at = "caller"
    /\ Goto(p, IF Current(req[p].me) # 0 THEN "idle" ELSE "callee")
    /\ UNCHANGED <<redis, calling, rows, story, faults>>

StartCallee(p) ==
    /\ req[p].at = "callee"
    /\ Goto(p, IF Current(req[p].peer) # 0 THEN "idle" ELSE "store")
    /\ UNCHANGED <<redis, calling, rows, story, faults>>

\* Mutant: the session starts in the IDLE state of the state machine.
Bug_StartStore(p) ==
    /\ req[p].at = "store" /\ calls < MaxCalls
    /\ calls' = calls + 1
    /\ party' = [party EXCEPT ![calls + 1] = [caller |-> req[p].me, callee |-> req[p].peer]]
    /\ session' = [session EXCEPT ![calls + 1] = "IDLE"]
    /\ req' = [req EXCEPT ![p] = [@ EXCEPT !.at = "index", !.call = calls + 1]]
    /\ UNCHANGED <<index, armed, endLock, result, rows, story, faults>>

StartStore(p) ==
    /\ req[p].at = "store" /\ calls < MaxCalls
    /\ calls' = calls + 1
    /\ party' = [party EXCEPT ![calls + 1] = [caller |-> req[p].me, callee |-> req[p].peer]]
    /\ session' = [session EXCEPT ![calls + 1] = "RINGING"]
    /\ req' = [req EXCEPT ![p] = [@ EXCEPT !.at = "index", !.call = calls + 1]]
    /\ UNCHANGED <<index, armed, endLock, result, rows, story, faults>>

StartIndex(p) ==
    /\ req[p].at = "index"
    /\ index' = [u \in User |-> IF u \in Parties(req[p].call) THEN req[p].call ELSE index[u]]
    /\ Goto(p, "load2")
    /\ UNCHANGED <<session, endLock, result, calling, rows, story, faults>>

-----------------------------------------------------------------------------
(* Read-modify-write of a session.                                           *)

\* getValidatedSession (accept, media, hangup, reject), getActiveCall (drop,
\* return, enforce) or getSessionByCallId (timeout, gone), then the state checks.
Subject(p) ==
    IF req[p].op \in {"drop", "return", "enforce"} THEN Current(req[p].me) ELSE req[p].call

Permitted(p, c) ==
    /\ c # 0 /\ session[c] # "none"
    /\ req[p].op \notin {"timeout", "gone"} => req[p].me \in Parties(c)
    /\ req[p].op \in {"accept", "reject"} => session[c] = "RINGING" /\ req[p].me = party[c].callee
    /\ req[p].op = "drop" => session[c] = "ACTIVE"
    /\ req[p].op = "return" => session[c] # "RINGING"
    /\ req[p].op = "enforce" => req[p].peer \in Parties(c)

Validate(p) ==
    /\ req[p].at = "validate"
    /\ LET c == Subject(p) IN
         IF Permitted(p, c)
         THEN /\ req' = [req EXCEPT ![p] = [@ EXCEPT !.call = c, !.seen = session[c], !.at =
                     CASE req[p].op \in Enders -> "endload"
                       [] req[p].op = "media" -> "load2" [] OTHER -> "load"]]
              /\ armed' = IF req[p].op \in {"accept", "hangup", "reject"} THEN armed \ {c} ELSE armed
              /\ asked' = IF req[p].op \in Enders THEN asked \cup {c} ELSE asked
         ELSE Goto(p, "idle") /\ UNCHANGED <<armed, asked>>
    /\ UNCHANGED <<calls, party, redis, rows, unlogged, answered, faults>>

\* The grace timer of a disconnect while the call rang ends the session that
\* the disconnect read, whatever became of it since; that of a call in progress
\* reads the session again (Validate).  A timer that another disconnect replaced
\* is never cleared.
RingingGrace(p) ==
    /\ req[p].at = "validate" /\ req[p].op = "gone"
    /\ req' = [req EXCEPT ![p] = [@ EXCEPT !.seen = "RINGING", !.at = "endload"]]
    /\ asked' = asked \cup {req[p].call}
    /\ UNCHANGED <<calling, redis, rows, unlogged, answered, faults>>

\* updateCallStatus; accept goes on with updateActiveDevice.
AfterStatus(p) == IF req[p].op = "accept" THEN "load2" ELSE "idle"

StatusLoad(p) ==
    /\ req[p].at = "load"
    /\ Goto(p, IF session[req[p].call] = "none" THEN AfterStatus(p) ELSE "save")
    /\ UNCHANGED <<redis, calling, rows, story, faults>>

StatusSave(p) ==
    /\ req[p].at = "save"
    /\ session' = [session EXCEPT ![req[p].call] = IF req[p].op = "drop" THEN "RECONNECTING" ELSE "ACTIVE"]
    /\ answered' = IF req[p].op = "drop" THEN answered ELSE answered \cup {req[p].call}
    /\ Goto(p, AfterStatus(p))
    /\ UNCHANGED <<index, endLock, result, calling, rows, unlogged, asked, faults>>

\* updateActiveDevice (start, accept) and updateMediaState write the whole
\* session back.  The first does so even when the key is gone (its TTL is then
\* negative: SET KEEPTTL), the second only when the TTL it reads is positive.
\* Accept goes on with recordParticipantJoin, a write of the second kind.
AfterDetail(p) ==
    IF req[p].op = "accept" THEN req' = [req EXCEPT ![p] = [@ EXCEPT !.op = "media", !.at = "load2"]]
    ELSE Goto(p, "idle")

EndOfStart(p) == armed' = IF req[p].op = "start" THEN armed \cup {req[p].call} ELSE armed

DetailLoad(p) ==
    /\ req[p].at = "load2"
    /\ IF session[req[p].call] = "none"
       THEN AfterDetail(p) /\ EndOfStart(p)
       ELSE /\ req' = [req EXCEPT ![p] = [@ EXCEPT !.seen = session[req[p].call], !.at = "ttl"]]
            /\ UNCHANGED armed
    /\ UNCHANGED <<calls, party, redis, rows, story, faults>>

DetailTtl(p) ==
    /\ req[p].at = "ttl"
    /\ Goto(p, IF req[p].op = "media" /\ session[req[p].call] = "none" THEN "idle" ELSE "save2")
    /\ UNCHANGED <<redis, calling, rows, story, faults>>

DetailSave(p) ==
    /\ req[p].at = "save2"
    /\ session' = [session EXCEPT ![req[p].call] = req[p].seen]
    /\ AfterDetail(p) /\ EndOfStart(p)
    /\ UNCHANGED <<calls, party, index, endLock, result, rows, story, faults>>

-----------------------------------------------------------------------------
(* endCall, called by endCallInternal of the gateway.                        *)

\* The call that endCall works on: the named one, else the current call of the
\* initiator, else that of the callee.
Found(c) ==
    IF session[c] # "none" THEN c
    ELSE IF Current(party[c].caller) # 0 THEN Current(party[c].caller)
    ELSE Current(party[c].callee)

EndLoad(p) ==
    /\ req[p].at = "endload"
    /\ IF Found(req[p].call) = 0 THEN Goto(p, "orphan")
       ELSE req' = [req EXCEPT ![p] = [@ EXCEPT !.target = Found(req[p].call), !.at = "lock"]]
    /\ UNCHANGED <<redis, calling, rows, story, faults>>

\* Mutant: SET without NX.
Bug_Lock(p) ==
    /\ req[p].at = "lock"
    /\ endLock' = [endLock EXCEPT ![req[p].target] = p] /\ Goto(p, "create")
    /\ UNCHANGED <<session, index, result, calling, rows, story, faults>>

Lock(p) ==
    /\ req[p].at = "lock"
    /\ IF endLock[req[p].target] = NULL
       THEN endLock' = [endLock EXCEPT ![req[p].target] = p] /\ Goto(p, "create")
       ELSE UNCHANGED endLock /\ Goto(p, "cached")
    /\ UNCHANGED <<session, index, result, calling, rows, story, faults>>

\* waitForCallEnd.
Cached(p) ==
    /\ req[p].at = "cached"
    /\ Goto(p, IF result[req[p].target] THEN "done" ELSE "subscribe")
    /\ UNCHANGED <<redis, calling, rows, story, faults>>

Subscribe(p) ==
    /\ req[p].at = "subscribe" /\ Goto(p, "wait")
    /\ UNCHANGED <<redis, calling, rows, story, faults>>

\* Mutant: the waiter has no timer.
Bug_WaitTimesOut(p) == FALSE

WaitTimesOut(p) ==
    /\ req[p].at = "wait"
    /\ SlowEnds \/ \A q \in Proc : ~(InLock(q) /\ req[q].target = req[p].target)
    /\ Goto(p, "clean1")
    /\ UNCHANGED <<redis, calling, rows, story, faults>>

\* A database write succeeds, fails on the primary key, or throws.
DbThrows == failures < MaxFailures /\ failures' = failures + 1

\* Mutant: the row gets an id of its own.
Bug_Create(p) ==
    /\ req[p].at = "create"
    /\ rows' = [rows EXCEPT ![req[p].target].loose = IF @ < 2 THEN @ + 1 ELSE @]
    /\ req' = [req EXCEPT ![p] = [@ EXCEPT !.at = "rmload", !.after = "publish"]]
    /\ UNCHANGED <<redis, calling, story, faults>>

\* Mutant: a failed transaction is swallowed and the removal goes on.
Bug_CreateSwallows(p) ==
    /\ req[p].at = "create"
    /\ \/ /\ rows' = [rows EXCEPT ![req[p].target].keyed = Resolve(req[p].op, req[p].seen)]
          /\ UNCHANGED failures
       \/ DbThrows /\ UNCHANGED rows
    /\ req' = [req EXCEPT ![p] = [@ EXCEPT !.at = "rmload", !.after = "publish"]]
    /\ UNCHANGED <<redis, calling, story, crashes, expiries, ages>>

\* processCallEnd: the row has the call's id.
Create(p) ==
    /\ req[p].at = "create"
    /\ \/ /\ rows[req[p].target].keyed = "none"
          /\ rows' = [rows EXCEPT ![req[p].target].keyed = Resolve(req[p].op, req[p].seen)]
          /\ req' = [req EXCEPT ![p] = [@ EXCEPT !.at = "rmload", !.after = "publish"]]
          /\ UNCHANGED failures
       \/ rows[req[p].target].keyed # "none" /\ Goto(p, "fail") /\ UNCHANGED <<rows, failures>>
       \/ DbThrows /\ Goto(p, "fail") /\ UNCHANGED rows
    /\ UNCHANGED <<redis, calling, story, crashes, expiries, ages>>

\* Subscribed waiters get the result, or run endCall again after ERROR.
Notify(p, l, mine) ==
    req' = [q \in Proc |->
              IF q = p THEN [req[p] EXCEPT !.at = "release", !.after = mine]
              ELSE IF req[q].at = "wait" /\ req[q].target = req[p].target
              THEN [req[q] EXCEPT !.at = l] ELSE req[q]]

Publish(p) ==
    /\ req[p].at = "publish"
    /\ result' = [result EXCEPT ![req[p].target] = TRUE]
    /\ Notify(p, "done", "done")
    /\ UNCHANGED <<session, index, endLock, calling, rows, story, faults>>

\* The session is gone, and the call.ended event cannot be stored.
EventThrows(p) ==
    /\ req[p].at = "publish" /\ DbThrows /\ Goto(p, "fail")
    /\ UNCHANGED <<redis, calling, rows, story, crashes, expiries, ages>>

Fail(p) ==
    /\ req[p].at = "fail"
    /\ Notify(p, "endload", "clean1")
    /\ UNCHANGED <<redis, calling, rows, story, faults>>

\* GET, compare, DEL: the lock may change hands in between.
Release(p) ==
    /\ req[p].at = "release"
    /\ Goto(p, IF endLock[req[p].target] = p THEN "unlock" ELSE req[p].after)
    /\ UNCHANGED <<redis, calling, rows, story, faults>>

Unlock(p) ==
    /\ req[p].at = "unlock"
    /\ endLock' = [endLock EXCEPT ![req[p].target] = NULL]
    /\ Goto(p, req[p].after)
    /\ UNCHANGED <<session, index, result, calling, rows, story, faults>>

\* endCallWithoutSession.
Orphan(p) ==
    /\ req[p].at = "orphan"
    /\ \/ /\ rows[req[p].call].keyed = "none"
          /\ rows' = [rows EXCEPT ![req[p].call].keyed = Resolve(req[p].op, req[p].seen)]
          /\ Goto(p, "done") /\ UNCHANGED failures
       \/ rows[req[p].call].keyed # "none" /\ Goto(p, "clean1") /\ UNCHANGED <<rows, failures>>
       \/ DbThrows /\ Goto(p, "clean1") /\ UNCHANGED rows
    /\ UNCHANGED <<redis, calling, story, crashes, expiries, ages>>

\* The end of endCallInternal clears the call's timers.
Done(p) ==
    /\ req[p].at = "done"
    /\ armed' = armed \ {req[p].call}
    /\ Goto(p, "idle")
    /\ UNCHANGED <<calls, party, redis, rows, story, faults>>

-----------------------------------------------------------------------------
(* endCallGracefully, with no lock and a fresh row id: from the catch block  *)
(* of endCallInternal for each of the two users, and for a block.            *)

Grace(p, u, then) ==
    IF Current(u) = 0 THEN Goto(p, then)
    ELSE req' = [req EXCEPT ![p] = [@ EXCEPT !.at = "gracelog", !.after = then,
                     !.target = Current(u), !.seen = session[Current(u)]]]

CleanUp(p) ==
    /\ \/ req[p].at = "clean1" /\ Grace(p, party[req[p].call].caller, "clean2")
       \/ req[p].at = "clean2" /\ Grace(p, party[req[p].call].callee, "done")
    /\ UNCHANGED <<redis, calling, rows, story, faults>>

\* terminateCallsBetweenUsers: both index entries name the same call.
Between(p) ==
    /\ req[p].at = "between"
    /\ IF index[req[p].me] = index[req[p].peer] THEN Grace(p, req[p].me, "idle") ELSE Goto(p, "idle")
    /\ UNCHANGED <<redis, calling, rows, story, faults>>

\* The row; its failure is caught and logged.
GraceLog(p) ==
    /\ req[p].at = "gracelog"
    /\ \/ /\ rows' = [rows EXCEPT ![req[p].target].loose = IF @ < 2 THEN @ + 1 ELSE @]
          /\ UNCHANGED <<unlogged, failures>>
       \/ DbThrows /\ unlogged' = unlogged \cup {req[p].target} /\ UNCHANGED rows
    /\ Goto(p, "rmload")
    /\ UNCHANGED <<redis, calling, asked, answered, crashes, expiries, ages>>

-----------------------------------------------------------------------------
(* removeActiveCallById.                                                     *)

RemoveLoad(p) ==
    /\ req[p].at = "rmload"
    /\ Goto(p, IF session[req[p].target] = "none" THEN "delete" ELSE "unindex")
    /\ UNCHANGED <<redis, calling, rows, story, faults>>

\* The users' entries go, whichever call they name.
RemoveIndex(p) ==
    /\ req[p].at = "unindex"
    /\ index' = [u \in User |-> IF u \in Parties(req[p].target) THEN 0 ELSE index[u]]
    /\ Goto(p, "delete")
    /\ UNCHANGED <<session, endLock, result, calling, rows, story, faults>>

\* Mutant: only the users' entries are deleted.
Bug_RemoveSession(p) ==
    /\ req[p].at = "delete" /\ Goto(p, req[p].after)
    /\ UNCHANGED <<redis, calling, rows, story, faults>>

RemoveSession(p) ==
    /\ req[p].at = "delete"
    /\ session' = [session EXCEPT ![req[p].target] = "none"]
    /\ Goto(p, req[p].after)
    /\ UNCHANGED <<index, endLock, result, calling, rows, story, faults>>

-----------------------------------------------------------------------------
(* Time and failure.                                                         *)

LockExpires(c) ==
    /\ endLock[c] # NULL
    /\ IF \E p \in Proc : endLock[c] = p /\ InLock(p) /\ req[p].target = c
       THEN expiries < MaxExpiries /\ expiries' = expiries + 1 ELSE UNCHANGED expiries
    /\ endLock' = [endLock EXCEPT ![c] = NULL]
    /\ UNCHANGED <<session, index, result, calling, rows, story, req, failures, crashes, ages>>

ResultExpires(c) ==
    /\ result[c] /\ result' = [result EXCEPT ![c] = FALSE]
    /\ UNCHANGED <<session, index, endLock, calling, rows, story, req, faults>>

\* 300 s after the start the entry is gone: heartbeat and updateCallStatus
\* refresh the session and never the users' entries.
IndexExpires(u) ==
    /\ index[u] # 0 /\ ages < MaxAges /\ \A p \in Proc : req[p].at = "idle"
    /\ index' = [index EXCEPT ![u] = 0] /\ ages' = ages + 1
    /\ UNCHANGED <<session, endLock, result, calling, rows, story, req, failures, crashes, expiries>>

\* Nobody sends heartbeats for a call that was ended: a session that a dead
\* handler left behind runs out.
SessionExpires(c) ==
    /\ session[c] # "none" /\ c \in asked
    /\ \A u \in Parties(c) : index[u] # c
    /\ \A p \in Proc : ~(req[p].at = "delete" /\ req[p].target = c)
    /\ session' = [session EXCEPT ![c] = "none"] /\ unlogged' = unlogged \cup {c}
    /\ UNCHANGED <<index, endLock, result, calling, rows, asked, answered, req, faults>>

Crash(p) ==
    /\ req[p].at # "idle" /\ crashes < MaxCrashes
    /\ Goto(p, "idle") /\ crashes' = crashes + 1
    /\ UNCHANGED <<redis, calling, rows, story, failures, expiries, ages>>

-----------------------------------------------------------------------------
Step(p) ==
    \/ StartCaller(p) \/ StartCallee(p) \/ StartStore(p) \/ StartIndex(p)
    \/ Validate(p) \/ RingingGrace(p) \/ StatusLoad(p) \/ StatusSave(p)
    \/ DetailLoad(p) \/ DetailTtl(p) \/ DetailSave(p)
    \/ EndLoad(p) \/ Lock(p) \/ Cached(p) \/ Subscribe(p) \/ WaitTimesOut(p)
    \/ Create(p) \/ Publish(p) \/ EventThrows(p) \/ Fail(p) \/ Release(p) \/ Unlock(p)
    \/ Orphan(p) \/ Done(p) \/ CleanUp(p) \/ Between(p) \/ GraceLog(p)
    \/ RemoveLoad(p) \/ RemoveIndex(p) \/ RemoveSession(p)

Next ==
    \/ \E p \in Proc :
         \/ \E t \in Ops, c \in CallId : Begin(p, t[1], t[2], t[3], c)
         \/ Step(p)
         \/ Crash(p)
    \/ \E c \in CallId : LockExpires(c) \/ ResultExpires(c) \/ SessionExpires(c)
    \/ \E u \in User : IndexExpires(u)

Spec == Init /\ [][Next]_vars

\* Handlers keep running, timers fire, the 5 s of a lock and the 300 s of an
\* abandoned session pass.
FairSpec ==
    /\ Spec
    /\ \A p \in Proc : WF_vars(Step(p))
    /\ \A c \in CallId : WF_vars(LockExpires(c)) /\ WF_vars(SessionExpires(c))
-----------------------------------------------------------------------------
(* Properties.                                                               *)

SessionStatus == {"none", "RINGING", "ACTIVE", "RECONNECTING"}

Labels == {"idle", "caller", "callee", "store", "index", "validate", "load", "save",
           "load2", "ttl", "save2", "endload", "lock", "cached", "subscribe", "wait",
           "create", "publish", "fail", "release", "unlock", "orphan", "done",
           "clean1", "clean2", "between", "gracelog", "rmload", "unindex", "delete"}

Handler == [at : Labels, op : OpNames, me : User, peer : User,
            call : CallId, target : CallId, seen : SessionStatus,
            after : {"idle", "publish", "done", "clean1", "clean2"}]

\* The type of every variable.
TypeOK ==
    /\ calls \in 0..MaxCalls
    /\ party \in [CallId -> [caller : User, callee : User]]
    /\ session \in [CallId -> SessionStatus]
    /\ index \in [User -> CallId \cup {0}]
    /\ armed \subseteq CallId
    /\ endLock \in [CallId -> Proc \cup {NULL}]
    /\ result \in [CallId -> BOOLEAN]
    /\ rows \in [CallId -> [keyed : CallStatus \cup {"none"}, loose : 0..2]]
    /\ unlogged \subseteq CallId /\ asked \subseteq CallId
    /\ answered \subseteq CallId
    /\ req \in [Proc -> Handler]
    /\ failures \in Nat /\ crashes \in Nat /\ expiries \in Nat /\ ages \in Nat

Logged(c) == rows[c].keyed # "none" \/ rows[c].loose > 0 \/ c \in unlogged

\* No call vanishes without a trace: whoever takes a session out of Redis has
\* written (or failed to write, and logged) its CallHistory row before
\* ("Use endCallGracefully to ensure history is written to DB").  The row and
\* the removal are several awaits apart, and a second ender may finish between.
LoggedBeforeGone ==
    [][\A c \in CallId : session[c] # "none" /\ session'[c] = "none" => Logged(c)']_vars

Rows(c) == rows[c].loose + IF rows[c].keyed = "none" THEN 0 ELSE 1

\* One call leaves one history row, however many devices hang it up at a time
\* (call.md:106: the end lock is there to avoid duplicate history).
OneRow == \A c \in CallId : Rows(c) <= 1

\* Two enders of a call are never both between the lock and its release, as
\* long as no end lock expires under its holder.
EndersExclude ==
    expiries = 0 =>
      \A p, q \in Proc : InLock(p) /\ InLock(q) /\ req[p].target = req[q].target => p = q

\* A call that somebody asked to end is over once all handlers have returned,
\* whoever of the concurrent enders did the work.
EndedIsOver ==
    (\A p \in Proc : req[p].at = "idle") => \A c \in asked : session[c] = "none"

\* Two calls with a user in common.
Related(c, d) == Parties(c) \cap Parties(d) # {}

\* A row says COMPLETED only for a call that was answered, or for one to which
\* the late end of an answered call of the same users was redirected.
CompletedWasAnswered ==
    \A c \in CallId : rows[c].keyed = "COMPLETED" => \E d \in answered : Related(c, d)

\* Every handler returns: waiting for another ender is bounded by a timer and
\* a retry after ERROR meets a lock that is released or expires.
HandlersReturn == \A p \in Proc : req[p].at # "idle" ~> req[p].at = "idle"

\* An ended call stays ended (call-state-machine.ts:5 "prevent invalid
\* transitions (e.g. ENDED -> ACTIVE)").
StaysEnded ==
    [][\A c \in CallId : c <= calls /\ session[c] = "none" => session'[c] = "none"]_vars

\* A user ends only calls of which the user is a participant.
EndedByParticipant ==
    [][\A p \in Proc :
         req[p].at = "create" /\ req[p].op = "hangup" /\ req'[p].at = "rmload" =>
           req[p].me \in Parties(req[p].target)]_vars
=============================================================================
