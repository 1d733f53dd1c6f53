---------------------------- MODULE SocialGraph ----------------------------
(***************************************************************************)
(* One pair of users: their Friendship row, their Block rows, the cached   *)
(* answer of BlockService.isBlocked, the distributed locks that guard the  *)
(* row, and the listeners that user.blocked and user.unblocked start.      *)
(*                                                                         *)
(* @@unique([user1Id, user2Id]) makes a pair of users the owner of exactly *)
(* one row, and nothing but a rate limit relates two pairs, so one pair is *)
(* the whole protocol.  Each member of Proc is a request being served; it  *)
(* is split at every await that reads or writes shared state.              *)
(***************************************************************************)
EXTENDS Naturals, FiniteSets

CONSTANTS
    Proc,         \* requests in flight
    UserA, UserB, \* the two users of the pair
    NULL,         \* "no user" and "no holder"
    Ops,          \* which calls each user's clients make: <<user, operation>>
    MaxEvents,    \* bound: block/unblock calls that may publish
    MaxFaults     \* bound: requests that die half way (process crash, failed
                  \* call), and locks whose TTL runs out under their holder

Users == {UserA, UserB}

OpNames == {"send", "accept", "decline", "cancel", "remove", "block", "unblock"}

ASSUME UserAssumption == UserA # UserB /\ NULL \notin Users /\ NULL \notin Proc
ASSUME OpsAssumption  == Ops \subseteq Users \X OpNames
ASSUME BoundAssumption == MaxEvents \in Nat /\ MaxFaults \in Nat

VARIABLES
    row,        \* the pair's Friendship row
    cooling,    \* the decline of the row is less than cooldowns.declineHours old
    blockers,   \* users that have a Block row against the other one
    blockCache, \* Redis: social:block of the pair
    lock,       \* Redis: friendship lock key -> holder
    req,        \* the requests: where each is, what it does, who called, what
                \* it read and what it is about to cache
    tasks,      \* listener executions that have not finished
    events,     \* published block events, also the last event id
    crashes, expiries,
    consent,    \* history: users who ever sent or accepted a request
    verdicts,   \* history: accept/decline writes on the current request (at most 2)
    cause       \* history: why the row is soft-deleted

rowVars  == <<row, cooling, consent, verdicts, cause>>
blockVars == <<blockers, blockCache>>
busVars  == <<tasks, events>>
faults   == <<crashes, expiries>>
vars == <<rowVars, blockVars, lock, req, busVars, faults>>

-----------------------------------------------------------------------------
Statuses == {"NONE", "PENDING", "ACCEPTED", "DECLINED"}

Row == [status: Statuses, requester: Users \cup {NULL},
        deleted: BOOLEAN, by: Users \cup {NULL}]

NoRow == [status |-> "NONE", requester |-> NULL, deleted |-> FALSE, by |-> NULL]

Peer(u) == IF u = UserA THEN UserB ELSE UserA

\* findFriendship: the row when it exists and is not soft-deleted.
Live(r) == r.status # "NONE" /\ ~r.deleted

Friends == Live(row) /\ row.status = "ACCEPTED"

\* RedisKeyBuilder.friendshipLock sorts its two arguments, so a key is the set
\* of them: both users for send and remove, the row and the caller otherwise
\* (the row's id, the same for every caller, is left out).
\* Mutant: decline takes the pair's key, accept its caller's.
Bug_LockKey(o, u) == IF o \in {"send", "remove", "decline"} THEN Users ELSE {u}

LockKey(o, u) == IF o \in {"send", "remove"} THEN Users ELSE {u}
LockKeys == {Users} \cup {{u} : u \in Users}

\* Control points inside withLock, for the operations that have it.
LockedOps == {"send", "accept", "decline", "cancel", "remove"}
InLock(p) ==
    /\ req[p].op \in LockedOps
    /\ \/ req[p].at \in {"read", "write", "release"}
       \/ req[p].at \in {"blockcheck", "blockfill"} /\ req[p].op = "accept"

\* Where a request goes when it is refused: through the finally of withLock
\* when it holds a lock.
Refused(p) == IF req[p].op = "accept" THEN "release" ELSE "idle"

\* A call that ends forgets its locals.
Idle == [at |-> "idle", op |-> "send", me |-> UserA, seen |-> "nothing", answer |-> FALSE]

Goto(p, l) == req' = [req EXCEPT ![p] = IF l = "idle" THEN Idle ELSE [@ EXCEPT !.at = l]]

-----------------------------------------------------------------------------
Init ==
    /\ row = NoRow /\ cooling = FALSE
    /\ blockers = {} /\ blockCache = "miss"
    /\ lock = [k \in LockKeys |-> NULL]
    /\ req = [p \in Proc |-> Idle]
    /\ tasks = {} /\ events = 0
    /\ crashes = 0 /\ expiries = 0
    /\ consent = {} /\ verdicts = 0 /\ cause = "none"

\* A client calls an operation.  accept, decline and cancel name a row the
\* client has been shown; MaxEvents bounds the calls that may publish.
Begin(p, u, o) ==
    /\ req[p].at = "idle" /\ <<u, o>> \in Ops
    /\ o \in {"accept", "decline", "cancel"} => row.status # "NONE"
    /\ o \in {"block", "unblock"} =>
         events + Cardinality({q \in Proc : req[q].at # "idle" /\ req[q].op \in {"block", "unblock"}})
           < MaxEvents
    /\ req' = [req EXCEPT ![p] = [Idle EXCEPT !.op = o, !.me = u, !.at =
                   CASE o = "send" -> "blockcheck"
                     [] o \in {"accept", "decline", "cancel"} -> "acquire"
                     [] OTHER -> "find"]]
    /\ UNCHANGED <<rowVars, blockVars, lock, busVars, faults>>

-----------------------------------------------------------------------------
(* validateNotBlocked -> BlockService.isBlocked, cache-aside: a hit answers, *)
(* a miss queries the Block table and stores what it saw in a later step.    *)

PassBlockCheck(p) == Goto(p, IF req[p].op = "send" THEN "cooldown" ELSE "write")

BlockCheck(p) ==
    /\ req[p].at = "blockcheck"
    /\ \/ blockCache = "yes" /\ Goto(p, Refused(p)) 
       \/ blockCache = "no" /\ PassBlockCheck(p) 
       \/ /\ blockCache = "miss"
          /\ req' = [req EXCEPT ![p] = [@ EXCEPT !.at = "blockfill", !.answer = (blockers # {})]]
    /\ UNCHANGED <<rowVars, blockVars, lock, busVars, faults>>

BlockFill(p) ==
    /\ req[p].at = "blockfill"
    /\ blockCache' = IF req[p].answer THEN "yes" ELSE "no"
    /\ IF req[p].answer THEN Goto(p, Refused(p)) ELSE PassBlockCheck(p)
    /\ UNCHANGED <<rowVars, blockers, lock, busVars, faults>>

\* validateRateLimits may refuse at any time; validateCooldowns refuses while
\* the last decline, by the target, is recent.
Cooldown(p) ==
    /\ req[p].at = "cooldown"
    /\ \/ Goto(p, "idle")
       \/ ~(row.status = "DECLINED" /\ row.by = Peer(req[p].me) /\ cooling) /\ Goto(p, "acquire")
    /\ UNCHANGED <<rowVars, blockVars, lock, busVars, faults>>

-----------------------------------------------------------------------------
(* DistributedLockService.withLock around the read and the write of the row. *)

\* Mutant: SET without NX.
Bug_Acquire(p) ==
    /\ req[p].at = "acquire"
    /\ lock' = [lock EXCEPT ![LockKey(req[p].op, req[p].me)] = p]
    /\ Goto(p, "read")
    /\ UNCHANGED <<rowVars, blockVars, busVars, faults>>

Acquire(p) ==
    /\ req[p].at = "acquire"
    /\ lock[LockKey(req[p].op, req[p].me)] = NULL
    /\ lock' = [lock EXCEPT ![LockKey(req[p].op, req[p].me)] = p]
    /\ Goto(p, "read")
    /\ UNCHANGED <<rowVars, blockVars, busVars, faults>>

\* Mutant: acquire retries for ever.
Bug_GiveUp(p) == FALSE

\* The retries run out while somebody else holds the key.
GiveUp(p) ==
    /\ req[p].at = "acquire"
    /\ lock[LockKey(req[p].op, req[p].me)] # NULL
    /\ Goto(p, "idle")
    /\ UNCHANGED <<rowVars, blockVars, lock, busVars, faults>>

\* The checks each operation makes on the row it has just read.
SendAllowed(u) ==
    Live(row) => row.status = "DECLINED" \/ (row.status = "PENDING" /\ row.requester = Peer(u))
\* Mutants: the recipient check dropped, the PENDING check weakened.
Bug_AnswerBySelf(u)   == row.status = "PENDING"
Bug_AnswerTwice(u)    == row.status # "DECLINED" /\ row.requester # u
AnswerAllowed(u) == row.status = "PENDING" /\ row.requester # u
CancelAllowed(u) == Live(row) /\ row.status = "PENDING" /\ row.requester = u
RemoveAllowed    == Friends

\* A send remembers what it found: no row, the other side's live request, or a
\* row to open again.
Found == CASE row.status = "NONE" -> "norow"
           [] Live(row) /\ row.status = "PENDING" -> "crossing"
           [] OTHER -> "reopen"

Allowed(p) ==
    \/ req[p].op = "send" /\ SendAllowed(req[p].me)
    \/ req[p].op \in {"accept", "decline"} /\ AnswerAllowed(req[p].me)
    \/ req[p].op = "cancel" /\ CancelAllowed(req[p].me)
    \/ req[p].op = "remove" /\ RemoveAllowed

Read(p) ==
    /\ req[p].at = "read"
    /\ \/ ~Allowed(p) /\ Goto(p, "release")
       \/ /\ Allowed(p) /\ req[p].op = "send"
          /\ req' = [req EXCEPT ![p] = [@ EXCEPT !.at = "write", !.seen = Found]]
       \/ Allowed(p) /\ req[p].op = "accept" /\ Goto(p, "blockcheck")
       \/ Allowed(p) /\ req[p].op \in {"decline", "cancel", "remove"} /\ Goto(p, "write")
    /\ UNCHANGED <<rowVars, blockVars, lock, busVars, faults>>

\* Mutant: DEL of the key without the comparison of the token.
Bug_Release(p) ==
    /\ req[p].at = "release"
    /\ lock' = [lock EXCEPT ![LockKey(req[p].op, req[p].me)] = NULL]
    /\ Goto(p, "idle")
    /\ UNCHANGED <<rowVars, blockVars, busVars, faults>>

\* Token-checked release; only the holder's value is deleted.
Release(p) ==
    /\ req[p].at = "release"
    /\ lock' = [lock EXCEPT ![LockKey(req[p].op, req[p].me)] = IF @ = p THEN NULL ELSE @]
    /\ Goto(p, "idle")
    /\ UNCHANGED <<rowVars, blockVars, busVars, faults>>

-----------------------------------------------------------------------------
(* The writes.  Each updates the row by id with values chosen from seen.     *)

Verdict == verdicts' = IF verdicts = 2 THEN 2 ELSE verdicts + 1

WriteAccepted(u) ==
    /\ row' = [row EXCEPT !.status = "ACCEPTED", !.by = u]
    /\ consent' = consent \cup {u} /\ Verdict /\ UNCHANGED <<cooling, cause>>

WritePending(u) ==
    /\ row' = [status |-> "PENDING", requester |-> u, deleted |-> FALSE, by |-> u]
    /\ consent' = consent \cup {u} /\ verdicts' = 0 /\ cause' = "none"
    /\ UNCHANGED cooling

\* sendFriendRequest: a crossing request is accepted, a deleted or declined row
\* is opened again, no row is created (unless one appeared: unique violation).
WriteSend(p) ==
    /\ req[p].op = "send"
    /\ \/ req[p].seen = "crossing" /\ WriteAccepted(req[p].me)
       \/ req[p].seen = "norow" /\ row.status # "NONE" /\ UNCHANGED rowVars
       \/ req[p].seen = "norow" /\ row.status = "NONE" /\ WritePending(req[p].me)
       \/ req[p].seen = "reopen" /\ WritePending(req[p].me)

WriteAccept(p) == req[p].op = "accept" /\ WriteAccepted(req[p].me)

WriteDecline(p) ==
    /\ req[p].op = "decline"
    /\ row' = [row EXCEPT !.status = "DECLINED", !.by = req[p].me]
    /\ cooling' = TRUE /\ Verdict /\ UNCHANGED <<consent, cause>>

WriteDelete(p) ==
    /\ req[p].op \in {"cancel", "remove"}
    /\ row' = [row EXCEPT !.deleted = TRUE, !.by = req[p].me]
    /\ cause' = req[p].op /\ UNCHANGED <<cooling, consent, verdicts>>

Write(p) ==
    /\ req[p].at = "write" /\ req[p].op \notin {"block", "unblock"}
    /\ WriteSend(p) \/ WriteAccept(p) \/ WriteDecline(p) \/ WriteDelete(p)
    /\ Goto(p, "release")
    /\ UNCHANGED <<blockers, blockCache, lock, busVars, faults>>

\* removeFriendship looks the row up before it takes the lock.
RemoveFind(p) ==
    /\ req[p].at = "find" /\ req[p].op = "remove"
    /\ Goto(p, IF Live(row) THEN "acquire" ELSE "idle")
    /\ UNCHANGED <<rowVars, blockVars, lock, busVars, faults>>

-----------------------------------------------------------------------------
(* BlockService: look the Block row up, write it, publish.  No lock.         *)

BlockFind(p) ==
    /\ req[p].at = "find" /\ req[p].op \in {"block", "unblock"}
    /\ Goto(p, IF (req[p].op = "block") = (req[p].me \in blockers) THEN "idle" ELSE "write")
    /\ UNCHANGED <<rowVars, blockVars, lock, busVars, faults>>

\* A second create meets the unique index, a second delete a missing row: both
\* end the call without an event.
BlockWrite(p) ==
    /\ req[p].at = "write" /\ req[p].op \in {"block", "unblock"}
    /\ IF (req[p].op = "block") = (req[p].me \in blockers)
       THEN Goto(p, "idle") /\ UNCHANGED blockers
       ELSE /\ Goto(p, "publish")
            /\ blockers' = IF req[p].op = "block" THEN blockers \cup {req[p].me} ELSE blockers \ {req[p].me}
    /\ UNCHANGED <<rowVars, blockCache, lock, busVars, faults>>

\* Mutant: the id is taken before the counter moves.
Bug_Publish(p) ==
    /\ req[p].at = "publish"
    /\ events' = events + 1
    /\ tasks' = tasks \cup
         {[eid |-> events, kind |-> req[p].op, listener |-> l, at |-> "start"] :
            l \in {"friendship", "cache"}}
    /\ Goto(p, "idle")
    /\ UNCHANGED <<rowVars, blockVars, lock, faults>>

\* EventPublisher.publish starts the listeners of the event, in parallel.
Publish(p) ==
    /\ req[p].at = "publish"
    /\ events' = events + 1
    /\ tasks' = tasks \cup
         {[eid |-> events + 1, kind |-> req[p].op, listener |-> l, at |-> "start"] :
            l \in {"friendship", "cache"}}
    /\ Goto(p, "idle")
    /\ UNCHANGED <<rowVars, blockVars, lock, faults>>

-----------------------------------------------------------------------------
(* The listeners.                                                            *)

\* BlockCacheListener deletes social:block of the pair for both events.
CacheListener(t) ==
    /\ t \in tasks /\ t.listener = "cache"
    /\ blockCache' = "miss"
    /\ tasks' = tasks \ {t}
    /\ UNCHANGED <<rowVars, blockers, lock, req, events, faults>>

\* FriendshipBlockListener, user.blocked: find a live row, then soft-delete it.
BlockedFind(t) ==
    /\ t \in tasks /\ t.listener = "friendship" /\ t.kind = "block" /\ t.at = "start"
    /\ tasks' = (tasks \ {t}) \cup (IF Live(row) THEN {[t EXCEPT !.at = "update"]} ELSE {})
    /\ UNCHANGED <<rowVars, blockVars, lock, req, events, faults>>

BlockedDelete(t) ==
    /\ t \in tasks /\ t.listener = "friendship" /\ t.kind = "block" /\ t.at = "update"
    /\ IF Live(row)
       THEN row' = [row EXCEPT !.deleted = TRUE] /\ cause' = "block"
       ELSE UNCHANGED <<row, cause>>
    /\ tasks' = tasks \ {t}
    /\ UNCHANGED <<cooling, consent, verdicts, blockers, blockCache, lock, req, events, faults>>

\* FriendshipBlockListener, user.unblocked: restore whatever is soft-deleted.
UnblockedRestore(t) ==
    /\ t \in tasks /\ t.listener = "friendship" /\ t.kind = "unblock"
    /\ IF row.deleted
       THEN row' = [row EXCEPT !.deleted = FALSE] /\ cause' = "none"
       ELSE UNCHANGED <<row, cause>>
    /\ tasks' = tasks \ {t}
    /\ UNCHANGED <<cooling, consent, verdicts, blockers, blockCache, lock, req, events, faults>>

-----------------------------------------------------------------------------
(* Time and failure.                                                         *)

\* The cache entry's TTL (social config ttl.block) runs out.
CacheExpires ==
    /\ blockCache # "miss" /\ blockCache' = "miss"
    /\ UNCHANGED <<rowVars, blockers, lock, req, busVars, faults>>

CooldownElapses ==
    /\ cooling /\ cooling' = FALSE
    /\ UNCHANGED <<row, consent, verdicts, cause, blockers, blockCache, lock,
                   req, busVars, faults>>

\* SET ... EX 30: the key disappears, its holder is not told.  Only an expiry
\* under a live holder counts against the bound.
LockExpires(k) ==
    /\ lock[k] # NULL
    /\ IF \E p \in Proc : lock[k] = p /\ InLock(p) /\ LockKey(req[p].op, req[p].me) = k
       THEN crashes + expiries < MaxFaults /\ expiries' = expiries + 1
       ELSE UNCHANGED expiries
    /\ lock' = [lock EXCEPT ![k] = NULL]
    /\ UNCHANGED <<rowVars, blockVars, req, tasks, events, crashes>>

\* The serving process dies and leaves its lock to the TTL, or the next database
\* or Redis call throws and the finally of withLock runs.
Crash(p) ==
    /\ req[p].at # "idle" /\ crashes + expiries < MaxFaults
    /\ \/ Goto(p, "idle")
       \/ InLock(p) /\ Goto(p, "release")
    /\ crashes' = crashes + 1
    /\ UNCHANGED <<rowVars, blockVars, lock, tasks,
                   events, expiries>>

-----------------------------------------------------------------------------
Step(p) ==
    \/ BlockCheck(p) \/ BlockFill(p) \/ Cooldown(p)
    \/ Acquire(p) \/ GiveUp(p) \/ Read(p) \/ Write(p) \/ Release(p)
    \/ RemoveFind(p) \/ BlockFind(p) \/ BlockWrite(p) \/ Publish(p)

Handle(t) == CacheListener(t) \/ BlockedFind(t) \/ BlockedDelete(t) \/ UnblockedRestore(t)

Next ==
    \/ \E p \in Proc :
         \/ \E u \in Users, o \in OpNames : Begin(p, u, o)
         \/ Step(p)
         \/ Crash(p)
    \/ \E t \in tasks : Handle(t)
    \/ CacheExpires \/ CooldownElapses
    \/ \E k \in LockKeys : LockExpires(k)

Spec == Init /\ [][Next]_vars

\* A request that is being served keeps running and so does a listener that
\* was started; nothing else is assumed.
FairSpec ==
    Spec /\ (\A p \in Proc : WF_vars(Step(p))) /\ WF_vars(\E t \in tasks : Handle(t))
-----------------------------------------------------------------------------
(* Properties.                                                               *)

\* The friendship locks as leases: the requests between Acquire and Release
\* are the workers inside.
Inside == {e \in Proc \X LockKeys : InLock(e[1]) /\ LockKey(req[e[1]].op, req[e[1]].me) = e[2]}

Lock == INSTANCE Lease WITH
    Worker <- Proc, Key <- LockKeys, holder <- lock, inside <- Inside, lapses <- expiries

\* The friendship locks keep what DistributedLockService promises, also when a
\* key expires under a request that goes on: whoever releases late takes the
\* key from nobody else (release compares its token in a Lua script).
LocksAreLeases == Lock!Spec

Task == [eid : Nat \ {0}, kind : OpNames,
         listener : {"friendship", "cache"}, at : {"start", "update"}]

Labels == {"idle", "blockcheck", "blockfill", "cooldown", "find", "acquire", "read",
           "write", "release", "publish"}

Request == [at : Labels, op : OpNames, me : Users,
            seen : {"nothing", "norow", "crossing", "reopen"}, answer : BOOLEAN]

\* The type of every variable.
TypeOK ==
    /\ row \in Row /\ cooling \in BOOLEAN
    /\ blockers \subseteq Users /\ blockCache \in {"miss", "yes", "no"}
    /\ lock \in [LockKeys -> Proc \cup {NULL}]
    /\ req \in [Proc -> Request]
    /\ tasks \subseteq Task /\ events \in Nat
    /\ crashes \in 0..MaxFaults /\ expiries \in 0..MaxFaults
    /\ consent \subseteq Users /\ verdicts \in 0..2
    /\ cause \in {"none", "cancel", "remove", "block"}

\* Nobody becomes a friend without having asked: the row is ACCEPTED only when
\* each of the two users has, at some time, sent a request or accepted one.
\* The recipient checks of accept, the crossing-request test of send and the
\* resets of the row must keep it under every interleaving, lock loss and crash.
ConsentOfBoth == row.status = "ACCEPTED" => consent = Users

\* A request is decided once: between two sends at most one accept or decline
\* reaches the row, however many devices of the recipient answer at a time
\* (the read under friendshipLock(friendshipId, userId) of acceptRequest), as
\* long as no lock expires under its holder.
OneVerdictPerRequest == expiries = 0 => verdicts <= 1

\* A live friendship ends by removeFriendship or by a block and never because
\* another call overwrites the row with what it read before its lock expired.
EndsOnlyByRemoveOrBlock ==
    [][Friends /\ ~Friends' /\ expiries = 0 =>
         cause' \in {"remove", "block"} /\ row'.status = "ACCEPTED"]_vars

\* Two requests never stand between the read and the write of the row with the
\* same lock key (DistributedLockService: "Mutual Exclusion: Only one process
\* holds lock"), as long as no lock expires under its holder.
LockExclusion ==
    expiries = 0 => \A p, q \in Proc :
        InLock(p) /\ InLock(q) /\ LockKey(req[p].op, req[p].me) = LockKey(req[q].op, req[q].me) => p = q

\* Every call returns: no lock is waited for without end, even when its holder
\* died, because the retries of acquire are bounded.
CallsReturn == \A p \in Proc : req[p].at # "idle" ~> req[p].at = "idle"

\* An unfriended or cancelled row comes back to life only through a new send:
\* unblock restores the rows that a block deleted (comment in
\* friendship-block.listener.ts:226).
RestoresOnlyBlocked ==
    [][row.deleted /\ ~row'.deleted /\ cause \in {"cancel", "remove"} =>
         \E p \in Proc : req[p].op = "send" /\ req[p].at = "write"]_vars

\* A cancelled request is not accepted: accept and cancel exclude each other
\* (friendship.service.ts:498 "prevent race condition with concurrent accept").
CancelledNotAccepted == cause = "cancel" => row.status # "ACCEPTED"
=============================================================================
