------------------------- MODULE SocialGraphProofs -------------------------
(***************************************************************************)
(* Proofs about SocialGraph for every set of requests, every assignment of *)
(* calls to users and every bound.                                         *)
(*                                                                         *)
(* ConsentOfBoth is not inductive: an accept writes what an earlier read   *)
(* allowed, whatever the row has become. Consent adds what the row and the *)
(* requests between their read and their write remember: the row's         *)
(* requester has asked, and so has the peer of whoever is about to accept. *)
(*                                                                         *)
(* Held says that nobody is inside a lock beside its holder. On top of it, *)
(* Asked(u) describes requests that only u sends, and Reopening(u) a send  *)
(* that is about to open the row again.                                    *)
(***************************************************************************)
EXTENDS SocialGraph, TLAPS
-----------------------------------------------------------------------------
\* Moving a request to another control point keeps it a request.
LEMMA GotoType ==
  ASSUME NEW p \in Proc, NEW l \in Labels, req \in [Proc -> Request], Goto(p, l)
  PROVE  req' \in [Proc -> Request]
<1>1. Idle \in Request
  BY DEF Idle, Request, Labels, OpNames, Users
<1>2. [req[p] EXCEPT !.at = l] \in Request
  BY DEF Request
<1> QED
  BY <1>1, <1>2 DEF Goto

\* Every step of a request keeps the requests in their type.
LEMMA RequestStep ==
  ASSUME TypeOK, NEW p \in Proc,
         Step(p) \/ Crash(p) \/ \E u \in Users, o \in OpNames : Begin(p, u, o)
  PROVE  req' \in [Proc -> Request]
<1> USE DEF Labels
<1>0. req \in [Proc -> Request]
  BY DEF TypeOK
<1>1. CASE \E u \in Users, o \in OpNames : Begin(p, u, o)
  <2> PICK u \in Users, o \in OpNames : Begin(p, u, o)
    BY <1>1
  <2> DEFINE l == CASE o = "send" -> "blockcheck"
                    [] o \in {"accept", "decline", "cancel"} -> "acquire"
                    [] OTHER -> "find"
  <2>1. l \in Labels
    OBVIOUS
  <2>2. [Idle EXCEPT !.op = o, !.me = u, !.at = l] \in Request
    BY <2>1 DEF Idle, Request
  <2>3. req' = [req EXCEPT ![p] = [Idle EXCEPT !.op = o, !.me = u, !.at = l]]
    BY DEF Begin
  <2> QED
    BY <1>0, <2>2, <2>3
<1>2. CASE BlockCheck(p)
  <2>1. CASE blockCache = "yes" /\ Goto(p, Refused(p))
    BY <1>0, <2>1, GotoType DEF Refused
  <2>2. CASE blockCache = "no" /\ PassBlockCheck(p)
    BY <1>0, <2>2, GotoType DEF PassBlockCheck
  <2>3. CASE req' = [req EXCEPT ![p] = [@ EXCEPT !.at = "blockfill", !.answer = (blockers # {})]]
    <3>1. [req[p] EXCEPT !.at = "blockfill", !.answer = (blockers # {})] \in Request
      BY <1>0 DEF Request
    <3> QED
      BY <1>0, <2>3, <3>1
  <2> QED
    BY <1>2, <2>1, <2>2, <2>3 DEF BlockCheck
<1>3. CASE BlockFill(p)
  BY <1>0, <1>3, GotoType DEF BlockFill, PassBlockCheck, Refused
<1>4. CASE Cooldown(p)
  BY <1>0, <1>4, GotoType DEF Cooldown
<1>5. CASE Acquire(p) \/ GiveUp(p) \/ Write(p) \/ Release(p) \/ RemoveFind(p) \/ BlockFind(p)
  BY <1>0, <1>5, GotoType DEF Acquire, GiveUp, Write, Release, RemoveFind, BlockFind
<1>6. CASE Read(p)
  <2>1. CASE req' = [req EXCEPT ![p] = [@ EXCEPT !.at = "write", !.seen = Found]]
    <3>1. Found \in {"nothing", "norow", "crossing", "reopen"}
      BY DEF Found
    <3>2. [req[p] EXCEPT !.at = "write", !.seen = Found] \in Request
      BY <1>0, <3>1 DEF Request
    <3> QED
      BY <1>0, <2>1, <3>2
  <2>2. CASE Goto(p, "blockcheck") \/ Goto(p, "write") \/ Goto(p, "release")
    BY <1>0, <2>2, GotoType
  <2> QED
    BY <1>6, <2>1, <2>2 DEF Read
<1>7. CASE BlockWrite(p) \/ Publish(p)
  BY <1>0, <1>7, GotoType DEF BlockWrite, Publish
<1>8. CASE Crash(p)
  BY <1>0, <1>8, GotoType DEF Crash
<1> QED
  BY <1>1, <1>2, <1>3, <1>4, <1>5, <1>6, <1>7, <1>8 DEF Step

\* Every step keeps every variable in its type.
LEMMA TypeStep == TypeOK /\ [Next]_vars => TypeOK'
<1> SUFFICES ASSUME TypeOK, [Next]_vars PROVE TypeOK'
  OBVIOUS
<1> USE UserAssumption, BoundAssumption DEF rowVars, blockVars, busVars, faults
<1>1. ASSUME NEW p \in Proc, NEW u \in Users, NEW o \in OpNames, Begin(p, u, o)
      PROVE  TypeOK'
  BY <1>1, RequestStep DEF Begin, TypeOK
<1>2. ASSUME NEW p \in Proc,
             BlockCheck(p) \/ BlockFill(p) \/ Cooldown(p) \/ GiveUp(p) \/ Read(p)
               \/ RemoveFind(p) \/ BlockFind(p)
      PROVE  TypeOK'
  <2>1. req' \in [Proc -> Request]
    BY <1>2, RequestStep DEF Step
  <2> QED
    BY <1>2, <2>1 DEF BlockCheck, BlockFill, Cooldown, GiveUp, Read, RemoveFind, BlockFind, TypeOK
<1>3. ASSUME NEW p \in Proc, Acquire(p) \/ Release(p) PROVE TypeOK'
  <2>1. req' \in [Proc -> Request]
    BY <1>3, RequestStep DEF Step
  <2>2. lock' \in [LockKeys -> Proc \cup {NULL}]
    BY <1>3 DEF Acquire, Release, TypeOK
  <2> QED
    BY <1>3, <2>1, <2>2 DEF Acquire, Release, TypeOK
<1>4. ASSUME NEW p \in Proc, Write(p) PROVE TypeOK'
  <2>1. req' \in [Proc -> Request]
    BY <1>4, RequestStep DEF Step
  <2> DEFINE me == req[p].me
  <2>2. me \in Users
    BY DEF TypeOK, Request
  <2>3. row' \in Row
    <3>1. row \in Row /\ me \in Users
      BY <2>2 DEF TypeOK
    <3>2. CASE WriteAccepted(me)
      BY <3>1, <3>2 DEF WriteAccepted, Row, Statuses
    <3>3. CASE WritePending(me)
      BY <3>1, <3>3 DEF WritePending, Row, Statuses
    <3>4. CASE WriteDecline(p)
      BY <3>1, <3>4 DEF WriteDecline, Row, Statuses
    <3>5. CASE WriteDelete(p)
      BY <3>1, <3>5 DEF WriteDelete, Row
    <3> QED
      BY <1>4, <3>1, <3>2, <3>3, <3>4, <3>5 DEF Write, WriteSend, WriteAccept, rowVars
  <2>4. cooling' \in BOOLEAN /\ consent' \subseteq Users
    BY <1>4, <2>2 DEF Write, WriteSend, WriteAccept, WriteDecline, WriteDelete, WriteAccepted,
                WritePending, TypeOK
  <2>5. verdicts' \in 0..2 /\ cause' \in {"none", "cancel", "remove", "block"}
    BY <1>4 DEF Write, WriteSend, WriteAccept, WriteDecline, WriteDelete, WriteAccepted,
                WritePending, Verdict, TypeOK
  <2> QED
    BY <1>4, <2>1, <2>3, <2>4, <2>5 DEF Write, TypeOK
<1>5. ASSUME NEW p \in Proc, BlockWrite(p) \/ Publish(p) PROVE TypeOK'
  <2>1. req' \in [Proc -> Request]
    BY <1>5, RequestStep DEF Step
  <2>2. req[p].me \in Users /\ req[p].op \in OpNames
    BY DEF TypeOK, Request
  <2> QED
    BY <1>5, <2>1, <2>2 DEF BlockWrite, Publish, TypeOK, Task
<1>6. ASSUME NEW t \in tasks, Handle(t) PROVE TypeOK'
  <2>1. CASE CacheListener(t)
    BY <2>1 DEF CacheListener, TypeOK
  <2>2. CASE BlockedFind(t)
    BY <2>2 DEF BlockedFind, TypeOK, Task
  <2>3. CASE BlockedDelete(t) \/ UnblockedRestore(t)
    <3>1. row' \in Row /\ cause' \in {"none", "cancel", "remove", "block"}
      BY <2>3 DEF BlockedDelete, UnblockedRestore, TypeOK, Row
    <3> QED
      BY <2>3, <3>1 DEF BlockedDelete, UnblockedRestore, TypeOK
  <2> QED
    BY <1>6, <2>1, <2>2, <2>3 DEF Handle
<1>7. CASE CacheExpires \/ CooldownElapses
  BY <1>7 DEF CacheExpires, CooldownElapses, TypeOK
<1>8. ASSUME NEW k \in LockKeys, LockExpires(k) PROVE TypeOK'
  BY <1>8 DEF LockExpires, TypeOK
<1>9. ASSUME NEW p \in Proc, Crash(p) PROVE TypeOK'
  BY <1>9, RequestStep DEF Crash, TypeOK
<1>10. CASE UNCHANGED vars
  BY <1>10 DEF vars, TypeOK
<1> QED
  BY <1>1, <1>2, <1>3, <1>4, <1>5, <1>6, <1>7, <1>8, <1>9, <1>10 DEF Next, Step

\* The initial state has the types.
LEMMA InitType == Init => TypeOK
<1> SUFFICES ASSUME Init PROVE TypeOK
  OBVIOUS
<1>1. Idle \in Request
  BY DEF Idle, Request, Labels, OpNames, Users
<1>2. req \in [Proc -> Request] /\ lock \in [LockKeys -> Proc \cup {NULL}]
  BY <1>1 DEF Init
<1>3. row \in Row
  BY DEF Init, NoRow, Row, Statuses
<1>4. crashes \in 0..MaxFaults /\ expiries \in 0..MaxFaults
  BY BoundAssumption DEF Init
<1>5. tasks \subseteq Task /\ consent \subseteq Users /\ blockers \subseteq Users
  BY DEF Init
<1>6. events \in Nat /\ verdicts \in 0..2
  BY DEF Init
<1>7. cooling \in BOOLEAN /\ blockCache \in {"miss", "yes", "no"}
      /\ cause \in {"none", "cancel", "remove", "block"}
  BY DEF Init
<1> QED
  BY <1>2, <1>3, <1>4, <1>5, <1>6, <1>7 DEF TypeOK

\* TypeOK is an invariant of the specification.
THEOREM TypeCorrect == Spec => []TypeOK
BY InitType, TypeStep, PTL DEF Spec

-----------------------------------------------------------------------------
\* Requests between a read that allowed a verdict and its write.
Answering(p) ==
    \/ req[p].at \in {"blockcheck", "blockfill"} /\ req[p].op # "send"
    \/ req[p].at = "write" /\ req[p].op \in {"accept", "decline"}
    \/ req[p].at = "write" /\ req[p].op = "send" /\ req[p].seen = "crossing"

\* What the row says of consent.
RowConsent ==
    /\ row.status # "NONE" => row.requester \in consent
    /\ ConsentOfBoth

\* What a request in flight relies on: its peer has asked, and the row is there.
FlightConsent == \A p \in Proc : Answering(p) => row.status # "NONE" /\ Peer(req[p].me) \in consent

Consent == TypeOK /\ RowConsent /\ FlightConsent

\* The two users are each other's peers.
LEMMA PeerFacts ==
  ASSUME NEW u \in Users
  PROVE  Peer(u) \in Users /\ {u, Peer(u)} = Users /\ \A v \in Users : v # u => v = Peer(u)
BY UserAssumption DEF Peer, Users

\* A row that stays, with a consent that does not shrink, and a request that
\* does not become one that answers, keep the invariant.
LEMMA QuietStep ==
  ASSUME Consent, TypeOK',
         row'.status = row.status, row'.requester = row.requester, consent' = consent,
         \A p \in Proc : Answering(p)' =>
            \/ Answering(p) /\ req'[p].me = req[p].me
            \/ row.status # "NONE" /\ Peer(req'[p].me) \in consent
  PROVE  Consent'
<1>1. RowConsent'
  BY DEF Consent, RowConsent, ConsentOfBoth
<1>2. FlightConsent'
  BY DEF Consent, FlightConsent
<1> QED
  BY <1>1, <1>2 DEF Consent

\* A call that moves to another control point answers only if it did before.
LEMMA GotoAnswering ==
  ASSUME NEW p \in Proc, NEW l \in Labels, TypeOK, Goto(p, l),
         \/ Answering(p)
         \/ l \notin {"blockcheck", "blockfill", "write"}
         \/ l = "write" /\ req[p].op \notin {"accept", "decline", "send"}
  PROVE  \A q \in Proc : Answering(q)' => Answering(q) /\ req'[q].me = req[q].me
BY DEF Goto, Answering, Idle, TypeOK, Request, Labels, OpNames

\* The row after a write that accepts it, and after one that opens it.
LEMMA WriteConsent ==
  ASSUME Consent, TypeOK', NEW u \in Users,
         (WriteAccepted(u) /\ row.status # "NONE" /\ Peer(u) \in consent) \/ WritePending(u)
  PROVE  RowConsent' /\ consent \subseteq consent' /\ row'.status # "NONE"
<1>0. row \in Row /\ consent \subseteq Users /\ consent' \subseteq Users
  BY DEF Consent, TypeOK
<1>1. CASE WriteAccepted(u) /\ row.status # "NONE" /\ Peer(u) \in consent
  <2>1. consent' = Users
    BY <1>0, <1>1, PeerFacts DEF WriteAccepted
  <2>2. row'.status = "ACCEPTED" /\ row'.requester = row.requester
    BY <1>0, <1>1 DEF WriteAccepted, Row
  <2> QED
    BY <1>0, <1>1, <2>1, <2>2 DEF Consent, RowConsent, ConsentOfBoth
<1>2. CASE WritePending(u)
  BY <1>0, <1>2 DEF WritePending, RowConsent, ConsentOfBoth
<1> QED
  BY <1>1, <1>2

\* The four writes.
LEMMA WriteStep ==
  ASSUME Consent, TypeOK', NEW p \in Proc, Write(p)
  PROVE  Consent'
<1> DEFINE u == req[p].me
<1>0. u \in Users /\ row \in Row /\ req \in [Proc -> Request]
  BY DEF Consent, TypeOK, Request
<1>1. Answering(p) => row.status # "NONE" /\ Peer(u) \in consent
  BY DEF Consent, FlightConsent
<1>2. \A q \in Proc : Answering(q)' => Answering(q) /\ req'[q].me = req[q].me
  <2>1. Goto(p, "release") /\ TypeOK
    BY DEF Write, Consent
  <2> QED
    BY <2>1, GotoAnswering DEF Labels
<1>3. RowConsent' /\ consent \subseteq consent' /\ (row.status # "NONE" => row'.status # "NONE")
  <2>1. CASE WriteSend(p)
    <3>1. CASE req[p].seen = "crossing" /\ WriteAccepted(u)
      <4>1. Answering(p)
        BY <2>1, <3>1 DEF Write, WriteSend, Answering
      <4> QED
        BY <1>0, <1>1, <3>1, <4>1, WriteConsent
    <3>2. CASE WritePending(u)
      BY <1>0, <3>2, WriteConsent
    <3>3. CASE UNCHANGED rowVars
      BY <3>3 DEF rowVars, Consent, RowConsent, ConsentOfBoth
    <3> QED
      BY <2>1, <3>1, <3>2, <3>3 DEF WriteSend
  <2>2. CASE WriteAccept(p)
    <3>1. Answering(p)
      BY <2>2 DEF Write, WriteAccept, Answering
    <3> QED
      BY <1>0, <1>1, <2>2, <3>1, WriteConsent DEF WriteAccept
  <2>3. CASE WriteDecline(p)
    <3>1. Answering(p)
      BY <2>3 DEF Write, WriteDecline, Answering
    <3>2. row'.status = "DECLINED" /\ row'.requester = row.requester /\ consent' = consent
      BY <1>0, <2>3 DEF WriteDecline, Row
    <3> QED
      BY <1>1, <3>1, <3>2 DEF Consent, RowConsent, ConsentOfBoth
  <2>4. CASE WriteDelete(p)
    <3>1. row'.status = row.status /\ row'.requester = row.requester /\ consent' = consent
      BY <1>0, <2>4 DEF WriteDelete, Row
    <3> QED
      BY <3>1 DEF Consent, RowConsent, ConsentOfBoth
  <2> QED
    BY <2>1, <2>2, <2>3, <2>4 DEF Write
<1>4. FlightConsent'
  BY <1>2, <1>3 DEF Consent, FlightConsent
<1> QED
  BY <1>3, <1>4 DEF Consent

\* A read that allows an answer has seen the other side's request.
LEMMA ReadStep ==
  ASSUME Consent, TypeOK', NEW p \in Proc, Read(p)
  PROVE  Consent'
<1> DEFINE u == req[p].me
<1>0. TypeOK /\ u \in Users /\ row \in Row /\ req \in [Proc -> Request]
  BY DEF Consent, TypeOK, Request
<1>1. UNCHANGED rowVars
  BY DEF Read
<1>2. AnswerAllowed(u) => row.status # "NONE" /\ Peer(u) \in consent
  <2> SUFFICES ASSUME AnswerAllowed(u) PROVE row.status # "NONE" /\ Peer(u) \in consent
    OBVIOUS
  <2>1. row.requester \in consent /\ row.requester # u /\ row.status = "PENDING"
    BY DEF AnswerAllowed, Consent, RowConsent
  <2> QED
    BY <1>0, <2>1, PeerFacts DEF TypeOK
<1>3. \A q \in Proc : Answering(q)' =>
        \/ Answering(q) /\ req'[q].me = req[q].me
        \/ row.status # "NONE" /\ Peer(req'[q].me) \in consent
  <2>1. CASE ~Allowed(p) /\ Goto(p, "release")
    BY <1>0, <2>1, GotoAnswering DEF Labels
  <2>2. CASE Allowed(p) /\ req[p].op = "send"
               /\ req' = [req EXCEPT ![p] = [@ EXCEPT !.at = "write", !.seen = Found]]
    <3>1. Found = "crossing" => row.status # "NONE" /\ Peer(u) \in consent
      <4> SUFFICES ASSUME Found = "crossing" PROVE row.status # "NONE" /\ Peer(u) \in consent
        OBVIOUS
      <4>1. Live(row) /\ row.status = "PENDING"
        BY DEF Found
      <4>2. row.requester = Peer(u)
        BY <2>2, <4>1 DEF Allowed, SendAllowed
      <4> QED
        BY <4>1, <4>2 DEF Consent, RowConsent
    <3> QED
      BY <1>0, <2>2, <3>1 DEF Answering, Request
  <2>3. CASE Allowed(p) /\ req[p].op \in {"accept", "decline"}
               /\ (Goto(p, "blockcheck") \/ Goto(p, "write"))
    <3>1. AnswerAllowed(u)
      BY <2>3 DEF Allowed
    <3> QED
      BY <1>0, <1>2, <2>3, <3>1 DEF Goto, Answering, Request
  <2>4. CASE req[p].op \in {"cancel", "remove"} /\ Goto(p, "write")
    BY <1>0, <2>4, GotoAnswering DEF Labels
  <2> QED
    BY <2>1, <2>2, <2>3, <2>4 DEF Read
<1> QED
  BY <1>1, <1>3, QuietStep DEF rowVars

\* Every step keeps Consent.
LEMMA ConsentStep == Consent /\ [Next]_vars => Consent'
<1> SUFFICES ASSUME Consent, [Next]_vars PROVE Consent'
  OBVIOUS
<1>0. TypeOK /\ TypeOK'
  BY TypeStep DEF Consent
<1> USE <1>0 DEF rowVars
<1>1. ASSUME NEW p \in Proc, NEW u \in Users, NEW o \in OpNames, Begin(p, u, o)
      PROVE  Consent'
  <2>1. \A q \in Proc : Answering(q)' => Answering(q) /\ req'[q].me = req[q].me
    BY <1>1 DEF Begin, Answering, Idle, TypeOK, Request, OpNames
  <2> QED
    BY <1>1, <2>1, QuietStep DEF Begin
<1>2. ASSUME NEW p \in Proc, BlockCheck(p) PROVE Consent'
  <2>1. \A q \in Proc : Answering(q)' => Answering(q) /\ req'[q].me = req[q].me
    <3>1. CASE Goto(p, Refused(p))
      BY <1>2, <3>1, GotoAnswering DEF Refused, Labels
    <3>2. CASE PassBlockCheck(p)
      BY <1>2, <3>2, GotoAnswering DEF BlockCheck, PassBlockCheck, Labels, Answering
    <3>3. CASE req' = [req EXCEPT ![p] = [@ EXCEPT !.at = "blockfill", !.answer = (blockers # {})]]
      BY <1>2, <3>3 DEF BlockCheck, Answering, TypeOK, Request
    <3> QED
      BY <1>2, <3>1, <3>2, <3>3 DEF BlockCheck
  <2> QED
    BY <1>2, <2>1, QuietStep DEF BlockCheck
<1>3. ASSUME NEW p \in Proc, BlockFill(p) PROVE Consent'
  <2>1. \A q \in Proc : Answering(q)' => Answering(q) /\ req'[q].me = req[q].me
    <3>1. CASE Goto(p, Refused(p))
      BY <1>3, <3>1, GotoAnswering DEF Refused, Labels
    <3>2. CASE PassBlockCheck(p)
      BY <1>3, <3>2, GotoAnswering DEF BlockFill, PassBlockCheck, Labels, Answering
    <3> QED
      BY <1>3, <3>1, <3>2 DEF BlockFill
  <2> QED
    BY <1>3, <2>1, QuietStep DEF BlockFill
<1>4. ASSUME NEW p \in Proc,
             Cooldown(p) \/ Acquire(p) \/ GiveUp(p) \/ Release(p) \/ RemoveFind(p)
               \/ BlockFind(p) \/ BlockWrite(p) \/ Publish(p) \/ Crash(p)
      PROVE  Consent'
  <2>1. \A q \in Proc : Answering(q)' => Answering(q) /\ req'[q].me = req[q].me
    BY <1>4, GotoAnswering DEF Cooldown, Acquire, GiveUp, Release, RemoveFind, BlockFind,
                               BlockWrite, Publish, Crash, Labels
  <2>2. UNCHANGED rowVars
    BY <1>4 DEF Cooldown, Acquire, GiveUp, Release, RemoveFind, BlockFind, BlockWrite,
                Publish, Crash
  <2> QED
    BY <2>1, <2>2, QuietStep
<1>5. ASSUME NEW t \in tasks, Handle(t) PROVE Consent'
  <2>1. req' = req /\ consent' = consent
    BY <1>5 DEF Handle, CacheListener, BlockedFind, BlockedDelete, UnblockedRestore
  <2>2. row'.status = row.status /\ row'.requester = row.requester
    BY <1>5 DEF Handle, CacheListener, BlockedFind, BlockedDelete, UnblockedRestore, TypeOK, Row
  <2> QED
    BY <2>1, <2>2, QuietStep DEF Answering
<1>6. CASE \/ CacheExpires \/ CooldownElapses \/ UNCHANGED vars
           \/ \E k \in LockKeys : LockExpires(k)
  <2>1. req' = req /\ consent' = consent /\ row' = row
    BY <1>6 DEF CacheExpires, CooldownElapses, LockExpires, vars
  <2> QED
    BY <2>1, QuietStep DEF Answering
<1> QED
  BY <1>1, <1>2, <1>3, <1>4, <1>5, <1>6, WriteStep, ReadStep DEF Next, Step

\* A row is ACCEPTED only when both users have sent or accepted, in every
\* behaviour: any number of requests, crashes, expiries and blocks.
THEOREM ConsentOfBothHolds == Spec => []ConsentOfBoth
<1>1. Init => Consent
  <2> SUFFICES ASSUME Init PROVE Consent
    OBVIOUS
  <2>1. TypeOK
    BY InitType
  <2> QED
    BY <2>1 DEF Init, NoRow, Idle, Consent, RowConsent, FlightConsent, ConsentOfBoth, Answering
<1>2. Consent => ConsentOfBoth
  BY DEF Consent, RowConsent
<1> QED
  BY <1>1, <1>2, ConsentStep, PTL DEF Spec

-----------------------------------------------------------------------------
\* Which operations a control point belongs to: only the locked ones reach the
\* lock, only send and accept check blocks, only send waits for a cooldown.
Discipline(p) ==
    /\ req[p].at \in {"acquire", "read", "release"} => req[p].op \in LockedOps
    /\ req[p].at \in {"blockcheck", "blockfill"} => req[p].op \in {"send", "accept"}
    /\ req[p].at = "cooldown" => req[p].op = "send"

LockInv == TypeOK /\ \A p \in Proc : Discipline(p)

\* A request that moves to a control point of its operation keeps LockInv.
LEMMA LockQuiet ==
  ASSUME LockInv, TypeOK', NEW p \in Proc, NEW l \in Labels, Goto(p, l),
         \/ l \in {"acquire", "read", "release"} /\ req[p].op \in LockedOps
         \/ l \in {"idle", "find", "write", "publish"}
         \/ l = "cooldown" /\ req[p].op = "send"
         \/ l = "blockcheck" /\ req[p].op = "accept"
  PROVE  LockInv'
BY DEF LockInv, Discipline, Goto, Idle, TypeOK, Request, LockedOps

\* Every step keeps LockInv.
LEMMA LockStep == LockInv /\ [Next]_vars => LockInv'
<1> SUFFICES ASSUME LockInv, [Next]_vars PROVE LockInv'
  OBVIOUS
<1>0. TypeOK /\ TypeOK' /\ req \in [Proc -> Request]
  BY TypeStep DEF LockInv, TypeOK
<1>1. ASSUME NEW p \in Proc, NEW u \in Users, NEW o \in OpNames, Begin(p, u, o)
      PROVE  LockInv'
  BY <1>0, <1>1 DEF Begin, LockInv, Discipline, Idle, Request, OpNames, LockedOps
<1>2. ASSUME NEW p \in Proc, BlockCheck(p) PROVE LockInv'
  <2>1. CASE Goto(p, Refused(p))
    BY <1>0, <2>1, LockQuiet DEF Refused, Labels, LockedOps
  <2>2. CASE PassBlockCheck(p)
    BY <1>0, <1>2, <2>2, LockQuiet DEF BlockCheck, PassBlockCheck, Labels, LockInv, Discipline
  <2>3. CASE req' = [req EXCEPT ![p] = [@ EXCEPT !.at = "blockfill", !.answer = (blockers # {})]]
    BY <1>0, <1>2, <2>3 DEF BlockCheck, LockInv, Discipline, Request
  <2> QED
    BY <1>2, <2>1, <2>2, <2>3 DEF BlockCheck
<1>3. ASSUME NEW p \in Proc, BlockFill(p) PROVE LockInv'
  <2>1. CASE Goto(p, Refused(p))
    BY <1>0, <2>1, LockQuiet DEF Refused, Labels, LockedOps
  <2>2. CASE PassBlockCheck(p)
    BY <1>0, <1>3, <2>2, LockQuiet DEF BlockFill, PassBlockCheck, Labels, LockInv, Discipline
  <2> QED
    BY <1>3, <2>1, <2>2 DEF BlockFill
<1>4. ASSUME NEW p \in Proc, Acquire(p) PROVE LockInv'
  BY <1>0, <1>4, LockQuiet DEF Acquire, Labels, LockInv, Discipline
<1>5. ASSUME NEW p \in Proc, Read(p) PROVE LockInv'
  <2>1. CASE ~Allowed(p) /\ Goto(p, "release")
    BY <1>0, <1>5, <2>1, LockQuiet DEF Read, Labels, LockInv, Discipline
  <2>2. CASE req[p].op = "send" /\ req' = [req EXCEPT ![p] = [@ EXCEPT !.at = "write", !.seen = Found]]
    BY <1>0, <2>2 DEF LockInv, Discipline, Request
  <2>3. CASE req[p].op = "accept" /\ Goto(p, "blockcheck")
    BY <1>0, <2>3, LockQuiet DEF Labels
  <2>4. CASE Goto(p, "write")
    BY <1>0, <2>4, LockQuiet DEF Labels
  <2> QED
    BY <1>5, <2>1, <2>2, <2>3, <2>4 DEF Read
<1>6. ASSUME NEW p \in Proc, Cooldown(p) \/ RemoveFind(p) PROVE LockInv'
  <2>1. CASE Goto(p, "idle")
    BY <1>0, <2>1, LockQuiet DEF Labels
  <2>2. CASE Goto(p, "acquire") /\ req[p].op \in LockedOps
    BY <1>0, <2>2, LockQuiet DEF Labels
  <2> QED
    BY <1>6, <2>1, <2>2 DEF Cooldown, RemoveFind, LockInv, Discipline, LockedOps
<1>7. ASSUME NEW p \in Proc,
             \/ GiveUp(p) \/ Release(p) \/ BlockFind(p) \/ BlockWrite(p) \/ Publish(p)
      PROVE  LockInv'
  BY <1>0, <1>7, LockQuiet DEF GiveUp, Release, BlockFind, BlockWrite, Publish, Labels
<1>8. ASSUME NEW p \in Proc, Write(p) PROVE LockInv'
  <2>1. req[p].op \in LockedOps
    BY <1>0, <1>8 DEF Write, Request, OpNames, LockedOps
  <2> QED
    BY <1>0, <1>8, <2>1, LockQuiet DEF Write, Labels
<1>9. ASSUME NEW p \in Proc, Crash(p) PROVE LockInv'
  BY <1>0, <1>9, LockQuiet DEF Crash, InLock, Labels
<1>10. CASE \/ CacheExpires \/ CooldownElapses \/ UNCHANGED vars
            \/ \E t \in tasks : Handle(t)
            \/ \E k \in LockKeys : LockExpires(k)
  <2>1. req' = req
    BY <1>10 DEF CacheExpires, CooldownElapses, vars, Handle, CacheListener, BlockedFind,
                 BlockedDelete, UnblockedRestore, LockExpires
  <2> QED
    BY <1>0, <2>1 DEF LockInv, Discipline
<1> QED
  BY <1>1, <1>2, <1>3, <1>4, <1>5, <1>6, <1>7, <1>8, <1>9, <1>10 DEF Next, Step

-----------------------------------------------------------------------------
\* A step that moves one request without taking it in or out of its critical
\* section, and leaves the keys alone, is invisible in the leases.
LEMMA LeaseQuiet ==
  ASSUME req \in [Proc -> Request], NEW p \in Proc, NEW c \in Request,
         req' = [req EXCEPT ![p] = c], lock' = lock, expiries' = expiries,
         InLock(p)' <=> InLock(p),
         InLock(p) => c.op = req[p].op /\ c.me = req[p].me
  PROVE  UNCHANGED Lock!vars
<1>1. ASSUME NEW q \in Proc, NEW k \in LockKeys
      PROVE  (InLock(q) /\ LockKey(req[q].op, req[q].me) = k)'
               <=> (InLock(q) /\ LockKey(req[q].op, req[q].me) = k)
  <2>1. CASE q # p
    BY <2>1 DEF InLock, LockKey
  <2>2. CASE q = p
    BY <2>2 DEF LockKey
  <2> QED
    BY <2>1, <2>2
<1>2. Inside' = Inside
  BY <1>1 DEF Inside
<1> QED
  BY <1>2 DEF Lock!vars

\* The same for Goto, whose record is Idle or the old one at another point.
LEMMA LeaseGoto ==
  ASSUME req \in [Proc -> Request], NEW p \in Proc, NEW l \in Labels, Goto(p, l),
         lock' = lock, expiries' = expiries, InLock(p)' <=> InLock(p)
  PROVE  UNCHANGED Lock!vars
<1> DEFINE c == IF l = "idle" THEN Idle ELSE [req[p] EXCEPT !.at = l]
<1>1. c \in Request /\ req' = [req EXCEPT ![p] = c]
  BY DEF Goto, Idle, Request, Labels, OpNames, Users
<1>2. InLock(p) => c.op = req[p].op /\ c.me = req[p].me
  <2>1. CASE l = "idle"
    BY <2>1 DEF Goto, InLock, Idle
  <2>2. CASE l # "idle"
    BY <2>2 DEF Request
  <2> QED
    BY <2>1, <2>2
<1> HIDE DEF c
<1> QED
  BY <1>1, <1>2, LeaseQuiet

\* Every step of the requests is a step of the leases or leaves them alone.
LEMMA LeaseStep == LockInv /\ [Next]_vars => [Lock!Next]_(Lock!vars)
<1> SUFFICES ASSUME LockInv, [Next]_vars PROVE [Lock!Next]_(Lock!vars)
  OBVIOUS
<1>0. /\ req \in [Proc -> Request] /\ lock \in [LockKeys -> Proc \cup {NULL}]
      /\ \A p \in Proc : LockKey(req[p].op, req[p].me) \in LockKeys
  BY DEF LockInv, TypeOK, Request, LockKey, LockKeys
<1>1. ASSUME NEW p \in Proc, NEW u \in Users, NEW o \in OpNames, Begin(p, u, o)
      PROVE  UNCHANGED Lock!vars
  <2> DEFINE l == CASE o = "send" -> "blockcheck"
                    [] o \in {"accept", "decline", "cancel"} -> "acquire"
                    [] OTHER -> "find"
  <2> DEFINE c == [Idle EXCEPT !.op = o, !.me = u, !.at = l]
  <2>0. l \in Labels /\ (l = "blockcheck" => o = "send") /\ l \notin {"read", "write", "release", "blockfill"}
    BY DEF Labels
  <2>1. c \in Request /\ c.at = l /\ c.op = o
    BY <2>0 DEF Idle, Request
  <2>2. req' = [req EXCEPT ![p] = c] /\ lock' = lock /\ expiries' = expiries /\ req[p].at = "idle"
    BY <1>1 DEF Begin, faults
  <2>3. req'[p] = c
    BY <1>0, <2>2
  <2>4. ~InLock(p) /\ ~InLock(p)'
    BY <2>0, <2>1, <2>2, <2>3 DEF InLock
  <2> HIDE DEF c
  <2> QED
    BY <1>0, <2>1, <2>2, <2>4, LeaseQuiet
<1>2. ASSUME NEW p \in Proc, BlockCheck(p) PROVE UNCHANGED Lock!vars
  <2>0. lock' = lock /\ expiries' = expiries /\ req[p].at = "blockcheck" /\ req[p].op \in {"send", "accept"}
    BY <1>2 DEF BlockCheck, faults, LockInv, Discipline
  <2>1. CASE Goto(p, Refused(p))
    BY <1>0, <2>0, <2>1, LeaseGoto DEF Refused, Labels, Goto, InLock, Idle, LockedOps, Request
  <2>2. CASE PassBlockCheck(p)
    BY ZenonT(60), <1>0, <2>0, <2>2, LeaseGoto DEF PassBlockCheck, Labels, Goto, InLock, Idle, LockedOps, Request
  <2>3. CASE req' = [req EXCEPT ![p] = [@ EXCEPT !.at = "blockfill", !.answer = (blockers # {})]]
    <3> DEFINE c == [req[p] EXCEPT !.at = "blockfill", !.answer = (blockers # {})]
    <3>1. c \in Request /\ c.op = req[p].op /\ c.me = req[p].me /\ c.at = "blockfill"
      BY <1>0 DEF Request, Labels
    <3>2. req' = [req EXCEPT ![p] = c] /\ req'[p] = c
      BY <1>0, <2>3
    <3>3. InLock(p)' <=> InLock(p)
      BY <2>0, <3>1, <3>2 DEF InLock
    <3> HIDE DEF c
    <3> QED
      BY <1>0, <2>0, <3>1, <3>2, <3>3, LeaseQuiet
  <2> QED
    BY <1>2, <2>1, <2>2, <2>3 DEF BlockCheck
<1>3. ASSUME NEW p \in Proc, BlockFill(p) PROVE UNCHANGED Lock!vars
  <2>0. lock' = lock /\ expiries' = expiries /\ req[p].at = "blockfill" /\ req[p].op \in {"send", "accept"}
    BY <1>3 DEF BlockFill, faults, LockInv, Discipline
  <2>1. CASE Goto(p, Refused(p))
    BY ZenonT(60), <1>0, <2>0, <2>1, LeaseGoto DEF Refused, Labels, Goto, InLock, Idle, LockedOps, Request
  <2>2. CASE PassBlockCheck(p)
    BY ZenonT(60), <1>0, <2>0, <2>2, LeaseGoto DEF PassBlockCheck, Labels, Goto, InLock, Idle, LockedOps, Request
  <2> QED
    BY <1>3, <2>1, <2>2 DEF BlockFill
<1>4. ASSUME NEW p \in Proc, Acquire(p)
      PROVE  Lock!Enter(p, LockKey(req[p].op, req[p].me))
  <2> DEFINE k == LockKey(req[p].op, req[p].me)
  <2>1. k \in LockKeys /\ lock[k] = NULL /\ lock' = [lock EXCEPT ![k] = p] /\ expiries' = expiries
    BY <1>0, <1>4 DEF Acquire, faults
  <2>2. req[p].at = "acquire" /\ req[p].op \in LockedOps /\ req' = [req EXCEPT ![p] = [@ EXCEPT !.at = "read"]]
    BY <1>4 DEF Acquire, Goto, LockInv, Discipline
  <2>3. ~InLock(p) /\ InLock(p)' /\ LockKey(req[p].op, req[p].me)' = k
    BY <1>0, <2>2 DEF InLock, Request
  <2>4. \A q \in Proc : q # p => req'[q] = req[q]
    BY <1>0, <2>2
  <2>5. \A q \in Proc : q # p => (InLock(q)' <=> InLock(q))
                              /\ LockKey(req[q].op, req[q].me)' = LockKey(req[q].op, req[q].me)
    BY <2>4 DEF InLock, LockKey
  <2> HIDE DEF k
  <2>6. Inside' = Inside \cup {<<p, k>>}
    BY <2>1, <2>3, <2>5 DEF Inside
  <2>7. \A j \in LockKeys : <<p, j>> \notin Inside
    BY <2>3 DEF Inside
  <2> QED
    BY <2>1, <2>6, <2>7 DEF Lock!Enter, k
<1>5. ASSUME NEW p \in Proc, Release(p)
      PROVE  Lock!Leave(p, LockKey(req[p].op, req[p].me))
  <2> DEFINE k == LockKey(req[p].op, req[p].me)
  <2>1. k \in LockKeys /\ lock' = [lock EXCEPT ![k] = IF @ = p THEN NULL ELSE @] /\ expiries' = expiries
    BY <1>0, <1>5 DEF Release, faults
  <2>2. req[p].at = "release" /\ req[p].op \in LockedOps /\ req' = [req EXCEPT ![p] = Idle]
    BY <1>5 DEF Release, Goto, LockInv, Discipline
  <2>3. InLock(p) /\ ~InLock(p)'
    BY <1>0, <2>2 DEF InLock, Idle
  <2>4. \A q \in Proc : q # p => req'[q] = req[q]
    BY <1>0, <2>2
  <2>5. \A q \in Proc : q # p => (InLock(q)' <=> InLock(q))
                              /\ LockKey(req[q].op, req[q].me)' = LockKey(req[q].op, req[q].me)
    BY <2>4 DEF InLock, LockKey
  <2>8. k = LockKey(req[p].op, req[p].me)
    OBVIOUS
  <2> HIDE DEF k
  <2>6. Inside' = Inside \ {<<p, k>>}
    BY <2>1, <2>3, <2>5, <2>8 DEF Inside
  <2>7. <<p, k>> \in Inside
    BY <2>1, <2>3, <2>8 DEF Inside
  <2> QED
    BY <2>1, <2>6, <2>7 DEF Lock!Leave, k
<1>6. ASSUME NEW p \in Proc, Read(p) PROVE UNCHANGED Lock!vars
  <2>0. lock' = lock /\ expiries' = expiries /\ req[p].at = "read" /\ req[p].op \in LockedOps
    BY <1>6 DEF Read, faults, LockInv, Discipline
  <2>1. CASE Goto(p, "release") \/ Goto(p, "write")
    BY <1>0, <2>0, <2>1, LeaseGoto DEF Labels, Goto, InLock, Request
  <2>2. CASE req[p].op = "accept" /\ Goto(p, "blockcheck")
    BY <1>0, <2>0, <2>2, LeaseGoto DEF Labels, Goto, InLock, Request
  <2>3. CASE req' = [req EXCEPT ![p] = [@ EXCEPT !.at = "write", !.seen = Found]]
    <3> DEFINE c == [req[p] EXCEPT !.at = "write", !.seen = Found]
    <3>1. c \in Request /\ c.op = req[p].op /\ c.me = req[p].me /\ c.at = "write"
      BY <1>0 DEF Request, Labels, Found
    <3>2. req' = [req EXCEPT ![p] = c] /\ req'[p] = c
      BY <1>0, <2>3
    <3>3. InLock(p)' <=> InLock(p)
      BY <2>0, <3>1, <3>2 DEF InLock
    <3> HIDE DEF c
    <3> QED
      BY <1>0, <2>0, <3>1, <3>2, <3>3, LeaseQuiet
  <2> QED
    BY <1>6, <2>1, <2>2, <2>3 DEF Read
<1>7. ASSUME NEW p \in Proc, Cooldown(p) \/ GiveUp(p) \/ RemoveFind(p) PROVE UNCHANGED Lock!vars
  <2>0. /\ lock' = lock /\ expiries' = expiries /\ req[p].at \in {"cooldown", "acquire", "find"}
        /\ Goto(p, "idle") \/ Goto(p, "acquire")
    BY <1>7 DEF Cooldown, GiveUp, RemoveFind, faults
  <2> QED
    BY <1>0, <2>0, LeaseGoto DEF Labels, Goto, InLock, Idle, Request
<1>8. ASSUME NEW p \in Proc, Write(p) PROVE UNCHANGED Lock!vars
  <2>0. /\ lock' = lock /\ expiries' = expiries /\ req[p].at = "write" /\ req[p].op \in LockedOps
        /\ Goto(p, "release")
    BY <1>0, <1>8 DEF Write, faults, Request, OpNames, LockedOps
  <2> QED
    BY <1>0, <2>0, LeaseGoto DEF Labels, Goto, InLock, Request
<1>9. ASSUME NEW p \in Proc, BlockFind(p) \/ BlockWrite(p) \/ Publish(p) PROVE UNCHANGED Lock!vars
  <2>0. lock' = lock /\ expiries' = expiries
    BY <1>9 DEF BlockFind, BlockWrite, Publish, faults
  <2>1. CASE Publish(p)
    BY <1>0, <2>0, <2>1, LeaseGoto DEF Publish, Labels, Goto, InLock, Idle
  <2>2. CASE BlockWrite(p)
    <3>1. req[p].at = "write" /\ req[p].op \notin LockedOps
      BY <2>2 DEF BlockWrite, LockedOps
    <3>2. Goto(p, "idle") \/ Goto(p, "publish")
      BY <2>2 DEF BlockWrite
    <3> QED
      BY <1>0, <2>0, <3>1, <3>2, LeaseGoto DEF Labels, Goto, InLock, Idle, Request
  <2>3. CASE BlockFind(p)
    <3>1. req[p].at = "find" /\ req[p].op \notin LockedOps
      BY <2>3 DEF BlockFind, LockedOps
    <3>2. Goto(p, "idle") \/ Goto(p, "write")
      BY <2>3, Zenon DEF BlockFind
    <3> QED
      BY <1>0, <2>0, <3>1, <3>2, LeaseGoto DEF Labels, Goto, InLock, Idle, Request
  <2> QED
    BY <1>9, <2>1, <2>2, <2>3
<1>10. ASSUME NEW p \in Proc, Crash(p)
       PROVE  \/ UNCHANGED Lock!vars
              \/ Lock!Die(p, LockKey(req[p].op, req[p].me))
  <2>0. lock' = lock /\ expiries' = expiries
    BY <1>10 DEF Crash
  <2>1. CASE ~InLock(p) /\ Goto(p, "idle")
    BY <1>0, <2>0, <2>1, LeaseGoto DEF Labels, Goto, InLock, Idle
  <2>2. CASE InLock(p) /\ Goto(p, "release")
    BY <1>0, <2>0, <2>2, LeaseGoto DEF Labels, Goto, InLock, Request
  <2>3. CASE InLock(p) /\ Goto(p, "idle")
    <3> DEFINE k == LockKey(req[p].op, req[p].me)
    <3>1. k \in LockKeys /\ req' = [req EXCEPT ![p] = Idle]
      BY <1>0, <2>3 DEF Goto
    <3>2. ~InLock(p)'
      BY <1>0, <3>1 DEF InLock, Idle
    <3>3. \A q \in Proc : q # p => req'[q] = req[q]
      BY <1>0, <3>1
    <3>4. \A q \in Proc : q # p => (InLock(q)' <=> InLock(q))
                                /\ LockKey(req[q].op, req[q].me)' = LockKey(req[q].op, req[q].me)
      BY <3>3 DEF InLock, LockKey
    <3>5. k = LockKey(req[p].op, req[p].me)
      OBVIOUS
    <3> HIDE DEF k
    <3>6. Inside' = Inside \ {<<p, k>>} /\ <<p, k>> \in Inside
      BY <2>3, <3>1, <3>2, <3>4, <3>5 DEF Inside
    <3> QED
      BY <2>0, <3>6 DEF Lock!Die, k
  <2> QED
    BY <1>10, <2>1, <2>2, <2>3 DEF Crash
<1>11. ASSUME NEW k \in LockKeys, LockExpires(k) PROVE Lock!Lapse(k)
  <2>1. req' = req /\ lock[k] # NULL /\ lock' = [lock EXCEPT ![k] = NULL]
    BY <1>11 DEF LockExpires
  <2>2. Inside' = Inside
    BY <2>1 DEF Inside, InLock, LockKey
  <2>3. <<lock[k], k>> \in Inside
          <=> \E p \in Proc : lock[k] = p /\ InLock(p) /\ LockKey(req[p].op, req[p].me) = k
    BY DEF Inside
  <2>4. expiries' = IF <<lock[k], k>> \in Inside THEN expiries + 1 ELSE expiries
    BY <1>11, <2>3 DEF LockExpires
  <2> QED
    BY <2>1, <2>2, <2>4 DEF Lock!Lapse
<1>12. CASE \/ CacheExpires \/ CooldownElapses \/ UNCHANGED vars
            \/ \E t \in tasks : Handle(t)
  <2>1. req' = req /\ lock' = lock /\ expiries' = expiries
    BY <1>12 DEF CacheExpires, CooldownElapses, vars, faults, Handle, CacheListener, BlockedFind,
                 BlockedDelete, UnblockedRestore
  <2> QED
    BY <2>1 DEF Lock!vars, Inside, InLock, LockKey
<1> QED
  BY <1>0, <1>1, <1>2, <1>3, <1>4, <1>5, <1>6, <1>7, <1>8, <1>9, <1>10, <1>11, <1>12
     DEF Next, Step, Lock!Next

\* The requests start outside, with every key free.
LEMMA LeaseInit == Init => LockInv /\ Lock!Init
<1> SUFFICES ASSUME Init PROVE LockInv /\ Lock!Init
  OBVIOUS
<1>1. LockInv
  BY InitType DEF Init, LockInv, Discipline, Idle
<1>2. Inside = {}
  BY DEF Init, Inside, InLock, Idle
<1> QED
  BY <1>1, <1>2 DEF Init, Lock!Init

\* The locks of the friendship rows implement the lease, whatever expires or
\* dies: a late release never takes the key from its next holder.
THEOREM LocksAreLeasesHolds == Spec => LocksAreLeases
<1>1. Init => LockInv /\ Lock!Init
  BY LeaseInit
<1>2. LockInv /\ [Next]_vars => LockInv' /\ [Lock!Next]_(Lock!vars)
  BY LockStep, LeaseStep
<1> QED
  BY <1>1, <1>2, PTL DEF Spec, LocksAreLeases, Lock!Spec

\* What a lease promises its holders follows from its own steps.
LEMMA LeaseExclusive ==
  ASSUME lock \in [LockKeys -> Proc \cup {NULL}], expiries \in Nat, Lock!Exclusive,
         [Lock!Next]_(Lock!vars)
  PROVE  Lock!Exclusive'
<1> USE UserAssumption DEF Lock!Exclusive
<1>1. ASSUME NEW p \in Proc, NEW k \in LockKeys, Lock!Enter(p, k) PROVE Lock!Exclusive'
  BY <1>1 DEF Lock!Enter
<1>2. ASSUME NEW p \in Proc, NEW k \in LockKeys, Lock!Leave(p, k) PROVE Lock!Exclusive'
  BY <1>2 DEF Lock!Leave
<1>3. ASSUME NEW p \in Proc, NEW k \in LockKeys, Lock!Die(p, k) PROVE Lock!Exclusive'
  BY <1>3 DEF Lock!Die
<1>4. ASSUME NEW k \in LockKeys, Lock!Lapse(k) PROVE Lock!Exclusive'
  BY <1>4 DEF Lock!Lapse
<1>5. CASE UNCHANGED Lock!vars
  BY <1>5 DEF Lock!vars
<1> QED
  BY <1>1, <1>2, <1>3, <1>4, <1>5 DEF Lock!Next

\* Whoever is inside with a key holds it, as long as no lock lapsed.
Held == LockInv /\ Lock!Exclusive

LEMMA HeldInit == Init => Held
BY LeaseInit DEF Lock!Init, Lock!Exclusive, Held

LEMMA HeldStep == Held /\ [Next]_vars => Held'
<1> SUFFICES ASSUME Held, [Next]_vars PROVE Held'
  OBVIOUS
<1>1. lock \in [LockKeys -> Proc \cup {NULL}] /\ expiries \in Nat
  BY DEF Held, LockInv, TypeOK
<1> QED
  BY <1>1, LockStep, LeaseStep, LeaseExclusive DEF Held

LEMMA HeldExclusive == Held => LockExclusion
<1> SUFFICES ASSUME Held, expiries = 0, NEW p \in Proc, NEW q \in Proc, InLock(p), InLock(q),
                    LockKey(req[p].op, req[p].me) = LockKey(req[q].op, req[q].me)
             PROVE  p = q
  BY DEF LockExclusion
<1> DEFINE k == LockKey(req[p].op, req[p].me)
<1>1. k \in LockKeys
  BY DEF Held, LockInv, TypeOK, Request, LockKey, LockKeys
<1>2. <<p, k>> \in Inside /\ <<q, k>> \in Inside
  BY <1>1 DEF Inside
<1>3. Lock!Exclusive
  BY DEF Held
<1> HIDE DEF k
<1> QED
  BY <1>1, <1>2, <1>3 DEF Lock!Exclusive

\* As long as critical sections end within their lock's time to live, two
\* requests are never inside withLock with the same key, crashes included:
\* a consequence of the lease.
THEOREM LockExclusionHolds == Spec => []LockExclusion
BY HeldInit, HeldStep, HeldExclusive, PTL DEF Spec

-----------------------------------------------------------------------------
(* A request is decided once.  The accept and the decline of one user        *)
(* exclude each other through their key, but two users who both ask may both *)
(* answer, with two keys, and a send under the third accepts a crossing      *)
(* request: the statement needs requests that go one way.                    *)

\* Only one of the two users ever sends a request; the other calls are free.
OneAsks(u) == \A t \in Ops : t[2] = "send" => t[1] = u

\* A request between the read that allowed its verdict and the write.
Deciding(p) ==
    req[p].at \in {"blockcheck", "blockfill", "write"} /\ req[p].op \in {"accept", "decline"}

\* The row's request is u's, and it waits for its first verdict.
RowAsked(u) ==
    /\ row.status # "NONE" => row.requester = u
    /\ row.status = "PENDING" => verdicts = 0
    /\ OneVerdictPerRequest

\* A send is u's and found no crossing request; a verdict is the peer's and the
\* row it was allowed on still waits, unless a lock lapsed.
FlightAsked(u, p) ==
    /\ req[p].op = "send" /\ req[p].at # "idle" => req[p].me = u
    /\ req[p].op = "send" /\ req[p].at = "write" => req[p].seen \in {"norow", "reopen"}
    /\ Deciding(p) =>
         req[p].me = Peer(u) /\ row.status # "NONE" /\ (expiries = 0 => row.status = "PENDING")

Asked(u) == Held /\ RowAsked(u) /\ \A p \in Proc : FlightAsked(u, p)

\* A call that moves to another control point, with the row's request as it was,
\* leaves every request in flight as it should be.
LEMMA GotoAsked ==
  ASSUME NEW u \in Users, NEW p \in Proc, NEW l \in Labels, TypeOK, Goto(p, l),
         \A q \in Proc : FlightAsked(u, q),
         row'.status = row.status, expiries' = 0 => expiries = 0,
         l # "write" \/ req[p].op # "send",
         Deciding(p) \/ l \notin {"blockcheck", "blockfill", "write"} \/ req[p].op \notin {"accept", "decline"},
         l = "idle" \/ req[p].at # "idle"
  PROVE  \A q \in Proc : FlightAsked(u, q)'
<1> SUFFICES ASSUME NEW q \in Proc PROVE FlightAsked(u, q)'
  OBVIOUS
<1>0. req \in [Proc -> Request]
  BY DEF TypeOK
<1>1. CASE q # p
  <2>1. req'[q] = req[q]
    BY <1>0, <1>1 DEF Goto
  <2> QED
    BY <2>1 DEF FlightAsked, Deciding
<1>2. CASE q = p /\ l = "idle"
  <2>1. req'[q] = Idle
    BY <1>0, <1>2 DEF Goto
  <2> QED
    BY <2>1 DEF FlightAsked, Deciding, Idle
<1>3. CASE q = p /\ l # "idle"
  <2>1. req'[q].op = req[q].op /\ req'[q].me = req[q].me /\ req'[q].seen = req[q].seen /\ req'[q].at = l
    BY <1>0, <1>3 DEF Goto, Request
  <2>2. req[p].at # "idle"
    BY <1>3
  <2> QED
    BY <1>3, <2>1, <2>2 DEF FlightAsked, Deciding
<1> QED
  BY <1>1, <1>2, <1>3

\* A step that keeps the row's request and its verdicts keeps RowAsked.
LEMMA RowAskedQuiet ==
  ASSUME NEW u \in Users, RowAsked(u), row'.status = row.status, row'.requester = row.requester,
         verdicts' = verdicts, expiries' = 0 => expiries = 0
  PROVE  RowAsked(u)'
BY DEF RowAsked, OneVerdictPerRequest

\* A read allows a send that found no crossing request, since only u asks, and
\* a verdict of the peer on a row that waits.
LEMMA ReadAsked ==
  ASSUME NEW u \in Users, Asked(u), TypeOK', NEW p \in Proc, Read(p)
  PROVE  \A q \in Proc : FlightAsked(u, q)'
<1>0. /\ TypeOK /\ req \in [Proc -> Request] /\ row \in Row /\ req[p].me \in Users
      /\ req[p].at = "read" /\ row' = row /\ expiries' = expiries /\ ~Deciding(p)
      /\ \A q \in Proc : FlightAsked(u, q)
  BY DEF Read, Asked, Held, LockInv, TypeOK, Request, rowVars, faults, Deciding
<1>1. CASE Goto(p, "release") \/ (req[p].op \in {"cancel", "remove"} /\ Goto(p, "write"))
  BY <1>0, <1>1, GotoAsked DEF Labels
<1>2. CASE req[p].op = "send" /\ Allowed(p)
             /\ req' = [req EXCEPT ![p] = [@ EXCEPT !.at = "write", !.seen = Found]]
  <2>1. req[p].me = u
    BY <1>0, <1>2 DEF FlightAsked
  <2>2. Found \in {"norow", "reopen"}
    <3> SUFFICES ASSUME Live(row), row.status = "PENDING" PROVE FALSE
      BY DEF Found
    <3>1. row.requester = Peer(u)
      BY <1>2, <2>1 DEF Allowed, SendAllowed
    <3>2. row.requester = u
      BY DEF Asked, RowAsked
    <3> QED
      BY <3>1, <3>2, UserAssumption DEF Peer, Users
  <2>3. /\ req'[p].op = "send" /\ req'[p].me = u /\ req'[p].at = "write" /\ req'[p].seen = Found
        /\ \A q \in Proc : q # p => req'[q] = req[q]
    BY <1>0, <1>2, <2>1 DEF Request
  <2>4. FlightAsked(u, p)'
    BY <2>2, <2>3 DEF FlightAsked, Deciding
  <2>5. \A q \in Proc : q # p => FlightAsked(u, q)'
    BY <1>0, <2>3 DEF FlightAsked, Deciding
  <2> QED
    BY <2>4, <2>5
<1>3. CASE req[p].op \in {"accept", "decline"} /\ Allowed(p) /\ (Goto(p, "blockcheck") \/ Goto(p, "write"))
  <2>1. row.status = "PENDING" /\ row.requester # req[p].me
    BY <1>3 DEF Allowed, AnswerAllowed
  <2>2. req[p].me = Peer(u)
    BY <1>0, <2>1, PeerFacts DEF Asked, RowAsked
  <2>3. /\ req'[p].op = req[p].op /\ req'[p].me = Peer(u) /\ req'[p].at # "idle"
        /\ \A q \in Proc : q # p => req'[q] = req[q]
    BY <1>0, <1>3, <2>2 DEF Request, Goto
  <2>4. FlightAsked(u, p)'
    BY <1>0, <1>3, <2>1, <2>3 DEF FlightAsked, Deciding
  <2>5. \A q \in Proc : q # p => FlightAsked(u, q)'
    BY <1>0, <2>3 DEF FlightAsked, Deciding
  <2> QED
    BY <2>4, <2>5
<1> QED
  BY <1>1, <1>2, <1>3 DEF Read

\* A verdict meets a row that waits, and nobody else is about to decide: the two
\* verdicts of the peer take one key.  A send opens the row again for whoever
\* still decides.
LEMMA WriteAsked ==
  ASSUME NEW u \in Users, Asked(u), TypeOK', NEW p \in Proc, Write(p)
  PROVE  RowAsked(u)' /\ \A q \in Proc : FlightAsked(u, q)'
<1>0. /\ TypeOK /\ req \in [Proc -> Request] /\ row \in Row /\ verdicts \in 0..2 /\ req[p].me \in Users
      /\ req[p].at = "write" /\ expiries' = expiries
      /\ FlightAsked(u, p) /\ \A q \in Proc : FlightAsked(u, q)
  BY DEF Write, Asked, Held, LockInv, TypeOK, Request, faults
<1>1. /\ req'[p].op = req[p].op /\ req'[p].me = req[p].me /\ req'[p].at = "release"
      /\ \A q \in Proc : q # p => req'[q] = req[q]
  BY <1>0 DEF Write, Goto, Request
<1>2. FlightAsked(u, p)'
  BY <1>0, <1>1 DEF FlightAsked, Deciding
<1>3. CASE row'.status = row.status /\ row'.requester = row.requester /\ verdicts' = verdicts
  <2>1. \A q \in Proc : q # p => FlightAsked(u, q)'
    BY <1>0, <1>1, <1>3 DEF FlightAsked, Deciding
  <2>2. RowAsked(u)'
    BY <1>0, <1>3, RowAskedQuiet DEF Asked
  <2> QED
    BY <1>2, <2>1, <2>2
<1>4. CASE req[p].op = "send" /\ WritePending(req[p].me)
  <2>1. row'.status = "PENDING" /\ row'.requester = u /\ verdicts' = 0
    BY <1>0, <1>4 DEF WritePending, FlightAsked
  <2>2. \A q \in Proc : q # p => FlightAsked(u, q)'
    BY <1>0, <1>1, <2>1 DEF FlightAsked, Deciding
  <2> QED
    BY <1>2, <2>1, <2>2 DEF RowAsked, OneVerdictPerRequest
<1>5. CASE req[p].op \in {"accept", "decline"} /\ (WriteAccept(p) \/ WriteDecline(p))
  <2>1. Deciding(p) /\ InLock(p) /\ LockKey(req[p].op, req[p].me) = {req[p].me} /\ req[p].me = Peer(u)
    BY <1>0, <1>5 DEF Deciding, InLock, LockedOps, LockKey, FlightAsked
  <2>2. row'.requester = row.requester /\ row'.status \in {"ACCEPTED", "DECLINED"} /\ Verdict
    BY <1>0, <1>5 DEF WriteAccept, WriteAccepted, WriteDecline, Row
  <2>3. expiries = 0 => row.status = "PENDING"
    BY <1>0, <2>1 DEF FlightAsked
  <2>4. expiries' = 0 => verdicts' <= 1
    BY <1>0, <2>2, <2>3 DEF Verdict, Asked, RowAsked
  <2>5. expiries = 0 => \A q \in Proc : Deciding(q) => q = p
    <3> SUFFICES ASSUME expiries = 0, NEW q \in Proc, Deciding(q) PROVE q = p
      OBVIOUS
    <3>1. InLock(q) /\ LockKey(req[q].op, req[q].me) = {Peer(u)}
      <4>1. req[q].me = Peer(u)
        BY <1>0 DEF FlightAsked
      <4>2. req[q].at \in {"blockcheck", "blockfill"} => req[q].op = "accept"
        BY DEF Deciding, Asked, Held, LockInv, Discipline
      <4> QED
        BY <4>1, <4>2 DEF Deciding, InLock, LockedOps, LockKey
    <3> QED
      BY <2>1, <3>1, HeldExclusive DEF LockExclusion, Asked
  <2>6. ASSUME NEW q \in Proc, q # p PROVE FlightAsked(u, q)'
    BY <1>0, <1>1, <2>2, <2>5, <2>6 DEF FlightAsked, Deciding
  <2>7. row.status # "NONE" => row'.requester = u
    BY <2>2 DEF Asked, RowAsked
  <2>8. row.status # "NONE"
    BY <2>1, <1>0 DEF FlightAsked
  <2> QED
    BY <1>2, <2>2, <2>4, <2>6, <2>7, <2>8 DEF RowAsked, OneVerdictPerRequest
<1>6. CASE WriteSend(p)
  <2>1. req[p].seen \in {"norow", "reopen"}
    BY <1>0, <1>6 DEF WriteSend, FlightAsked
  <2> QED
    BY <1>3, <1>4, <1>6, <2>1 DEF WriteSend, rowVars
<1>7. CASE WriteDelete(p)
  BY <1>0, <1>3, <1>7 DEF WriteDelete, Row
<1> QED
  BY <1>5, <1>6, <1>7 DEF Write, WriteAccept, WriteDecline

\* Every step keeps Asked, when only u sends requests.
LEMMA AskedStep ==
  ASSUME NEW u \in Users, OneAsks(u), Asked(u), [Next]_vars
  PROVE  Asked(u)'
<1>0. /\ Held' /\ TypeOK /\ TypeOK' /\ req \in [Proc -> Request]
      /\ RowAsked(u) /\ \A q \in Proc : FlightAsked(u, q)
  BY HeldStep, TypeStep DEF Asked, Held, LockInv, TypeOK
<1>1. ASSUME NEW p \in Proc, NEW v \in Users, NEW o \in OpNames, Begin(p, v, o)
      PROVE  Asked(u)'
  <2> DEFINE l == CASE o = "send" -> "blockcheck"
                    [] o \in {"accept", "decline", "cancel"} -> "acquire"
                    [] OTHER -> "find"
  <2>1. o = "send" => v = u
    BY <1>1 DEF Begin, OneAsks
  <2>2. row' = row /\ verdicts' = verdicts /\ expiries' = expiries
        /\ req' = [req EXCEPT ![p] = [Idle EXCEPT !.op = o, !.me = v, !.at = l]]
    BY <1>1 DEF Begin, rowVars, faults
  <2>3. req'[p].op = o /\ req'[p].me = v /\ req'[p].at = l /\ \A q \in Proc : q # p => req'[q] = req[q]
    BY <1>0, <2>2 DEF Idle
  <2>4. FlightAsked(u, p)'
    BY <2>1, <2>3 DEF FlightAsked, Deciding
  <2>5. \A q \in Proc : q # p => FlightAsked(u, q)'
    BY <1>0, <2>2, <2>3 DEF FlightAsked, Deciding
  <2> QED
    BY <1>0, <2>2, <2>4, <2>5, RowAskedQuiet DEF Asked
<1>2. ASSUME NEW p \in Proc, BlockCheck(p) \/ BlockFill(p) PROVE Asked(u)'
  <2>0. /\ row' = row /\ verdicts' = verdicts /\ expiries' = expiries
        /\ req[p].at \in {"blockcheck", "blockfill"} /\ req[p].op \in {"send", "accept"}
        /\ req[p].op = "accept" => Deciding(p)
    BY <1>2 DEF BlockCheck, BlockFill, rowVars, faults, Asked, Held, LockInv, Discipline, Deciding
  <2>1. CASE Goto(p, Refused(p)) \/ PassBlockCheck(p)
    <3>1. \A q \in Proc : FlightAsked(u, q)'
      BY <1>0, <2>0, <2>1, GotoAsked DEF Refused, PassBlockCheck, Labels
    <3> QED
      BY <1>0, <2>0, <3>1, RowAskedQuiet DEF Asked
  <2>2. CASE req' = [req EXCEPT ![p] = [@ EXCEPT !.at = "blockfill", !.answer = (blockers # {})]]
    <3>1. /\ req'[p].op = req[p].op /\ req'[p].me = req[p].me /\ req'[p].at = "blockfill"
          /\ \A q \in Proc : q # p => req'[q] = req[q]
      BY <1>0, <2>2 DEF Request
    <3>2. FlightAsked(u, p)'
      BY <1>0, <2>0, <3>1 DEF FlightAsked, Deciding
    <3>3. \A q \in Proc : q # p => FlightAsked(u, q)'
      BY <1>0, <2>0, <3>1 DEF FlightAsked, Deciding
    <3> QED
      BY <1>0, <2>0, <3>2, <3>3, RowAskedQuiet DEF Asked
  <2> QED
    BY <1>2, <2>1, <2>2 DEF BlockCheck, BlockFill
<1>3. ASSUME NEW p \in Proc,
             Cooldown(p) \/ Acquire(p) \/ GiveUp(p) \/ Release(p) \/ RemoveFind(p)
               \/ BlockFind(p) \/ BlockWrite(p) \/ Publish(p) \/ Crash(p)
      PROVE  Asked(u)'
  <2>1. row' = row /\ verdicts' = verdicts /\ expiries' = expiries
    BY <1>3 DEF Cooldown, Acquire, GiveUp, Release, RemoveFind, BlockFind, BlockWrite, Publish, Crash,
                rowVars, faults
  <2>2. req[p].at # "idle"
    BY <1>3 DEF Cooldown, Acquire, GiveUp, Release, RemoveFind, BlockFind, BlockWrite, Publish, Crash
  <2>3. CASE \E l \in {"idle", "acquire", "read", "release", "publish"} : Goto(p, l)
    <3>1. \A q \in Proc : FlightAsked(u, q)'
      BY <1>0, <2>1, <2>2, <2>3, GotoAsked DEF Labels
    <3> QED
      BY <1>0, <2>1, <3>1, RowAskedQuiet DEF Asked
  <2>4. CASE req[p].op \in {"block", "unblock"} /\ Goto(p, "write")
    <3>1. \A q \in Proc : FlightAsked(u, q)'
      BY <1>0, <2>1, <2>2, <2>4, GotoAsked DEF Labels
    <3> QED
      BY <1>0, <2>1, <3>1, RowAskedQuiet DEF Asked
  <2>5. \/ \E l \in {"idle", "acquire", "read", "release", "publish"} : Goto(p, l)
        \/ req[p].op \in {"block", "unblock"} /\ Goto(p, "write")
    BY <1>3 DEF Cooldown, Acquire, GiveUp, Release, RemoveFind, BlockFind, BlockWrite, Publish, Crash
  <2> QED
    BY <2>3, <2>4, <2>5
<1>4. ASSUME NEW p \in Proc, Read(p) PROVE Asked(u)'
  <2>1. row' = row /\ verdicts' = verdicts /\ expiries' = expiries
    BY <1>4 DEF Read, rowVars, faults
  <2> QED
    BY <1>0, <1>4, <2>1, ReadAsked, RowAskedQuiet DEF Asked
<1>5. ASSUME NEW p \in Proc, Write(p) PROVE Asked(u)'
  BY <1>0, <1>5, WriteAsked DEF Asked
<1>6. CASE \/ CacheExpires \/ CooldownElapses \/ UNCHANGED vars
           \/ \E t \in tasks : Handle(t)
           \/ \E k \in LockKeys : LockExpires(k)
  <2>1. req' = req /\ verdicts' = verdicts
    BY <1>6 DEF CacheExpires, CooldownElapses, vars, rowVars, Handle, CacheListener, BlockedFind,
                BlockedDelete, UnblockedRestore, LockExpires
  <2>2. row'.status = row.status /\ row'.requester = row.requester
    BY <1>0, <1>6 DEF CacheExpires, CooldownElapses, vars, rowVars, Handle, CacheListener, BlockedFind,
                BlockedDelete, UnblockedRestore, LockExpires, TypeOK, Row
  <2>3. expiries' = 0 => expiries = 0
    <3>1. expiries' \in {expiries, expiries + 1} /\ expiries \in Nat
      BY <1>0, <1>6 DEF CacheExpires, CooldownElapses, vars, faults, Handle, CacheListener, BlockedFind,
                        BlockedDelete, UnblockedRestore, LockExpires, TypeOK
    <3> QED
      BY <3>1
  <2>4. \A q \in Proc : FlightAsked(u, q)'
    BY <1>0, <2>1, <2>2, <2>3 DEF FlightAsked, Deciding
  <2> QED
    BY <1>0, <2>1, <2>2, <2>3, <2>4, RowAskedQuiet DEF Asked
<1> QED
  BY <1>1, <1>2, <1>3, <1>4, <1>5, <1>6 DEF Next, Step

LEMMA AskedInit == ASSUME NEW u \in Users, Init PROVE Asked(u)
<1>1. Held
  BY HeldInit
<1> QED
  BY <1>1 DEF Init, NoRow, Idle, Asked, RowAsked, FlightAsked, OneVerdictPerRequest, Deciding

\* When the requests go one way and no lock lapses under its holder, at most one
\* accept or decline reaches the row between two sends, for any number of
\* answers, unfriends, cancels, blocks and crashes at a time.
THEOREM OneVerdictPerRequestHolds ==
  ASSUME NEW u \in Users, OneAsks(u)
  PROVE  Spec => []OneVerdictPerRequest
<1>1. Init => Asked(u)
  BY AskedInit
<1>2. Asked(u) /\ [Next]_vars => Asked(u)'
  BY AskedStep
<1>3. Asked(u) => OneVerdictPerRequest
  BY DEF Asked, RowAsked
<1> QED
  BY <1>1, <1>2, <1>3, PTL DEF Spec

-----------------------------------------------------------------------------
(* How a friendship ends.  A cancel and an accept take two keys, so a cancel *)
(* may delete a row accepted meanwhile; an unblock takes none and restores   *)
(* the row a send is about to open again.  Both are left out here.           *)

\* Nobody cancels a request and nobody unblocks.
NothingUndone == \A t \in Ops : t[2] \notin {"cancel", "unblock"}

\* A send that is about to open the row again, and a row that may be opened.
Reopens(p) == req[p].op = "send" /\ req[p].at = "write" /\ req[p].seen = "reopen"
Closed == row.deleted \/ row.status = "DECLINED"

NoUndo ==
    /\ \A p \in Proc : req[p].op \notin {"cancel", "unblock"}
    /\ \A t \in tasks : t.kind # "unblock"

Reopening(u) ==
    /\ Asked(u) /\ NoUndo
    /\ expiries = 0 => \A p \in Proc : Reopens(p) => Closed

\* No step makes a cancel, an unblock or a listener of one.
LEMMA NoUndoStep ==
  ASSUME TypeOK, NoUndo, NothingUndone, [Next]_vars
  PROVE  NoUndo'
<1>0. req \in [Proc -> Request]
  BY DEF TypeOK
<1>1. ASSUME NEW p \in Proc, NEW v \in Users, NEW o \in OpNames, Begin(p, v, o) PROVE NoUndo'
  <2>1. o \notin {"cancel", "unblock"} /\ tasks' = tasks
    BY <1>1 DEF Begin, NothingUndone, busVars
  <2>2. \A q \in Proc : req'[q].op \in {req[q].op, o}
    BY <1>0, <1>1 DEF Begin, Idle
  <2> QED
    BY <2>1, <2>2 DEF NoUndo
<1>2. ASSUME NEW p \in Proc, NEW l \in Labels, Goto(p, l)
      PROVE  \A q \in Proc : req'[q].op \in {req[q].op, "send"}
  BY <1>0, <1>2 DEF Goto, Idle, Request
<1>3. ASSUME NEW p \in Proc, Step(p) \/ Crash(p) PROVE NoUndo'
  <2>1. \A q \in Proc : req'[q].op \in {req[q].op, "send"}
    <3>1. CASE \E l \in Labels : Goto(p, l)
      BY <1>2, <3>1
    <3>2. CASE req' = [req EXCEPT ![p] = [@ EXCEPT !.at = "blockfill", !.answer = (blockers # {})]]
      BY <1>0, <3>2 DEF Request
    <3>6. CASE req' = [req EXCEPT ![p] = [@ EXCEPT !.at = "write", !.seen = Found]]
      BY <1>0, <3>6 DEF Request
    <3>3. CASE BlockCheck(p) \/ BlockFill(p)
      <4>1. CASE Goto(p, Refused(p)) \/ PassBlockCheck(p)
        BY <1>2, <4>1 DEF Refused, PassBlockCheck, Labels
      <4> QED
        BY <3>2, <3>3, <4>1 DEF BlockCheck, BlockFill
    <3>4. CASE Read(p)
      BY <1>2, <3>4, <3>6 DEF Read, Labels
    <3>5. CASE \/ Cooldown(p) \/ Acquire(p) \/ GiveUp(p) \/ Release(p) \/ RemoveFind(p)
               \/ BlockFind(p) \/ BlockWrite(p) \/ Publish(p) \/ Crash(p) \/ Write(p)
      <4>1. \E l \in {"idle", "acquire", "read", "write", "release", "publish"} : Goto(p, l)
        BY <3>5 DEF Cooldown, Acquire, GiveUp, Release, RemoveFind, BlockFind, BlockWrite, Publish,
                    Crash, Write
      <4> QED
        BY <3>1, <4>1 DEF Labels
    <3> QED
      BY <1>3, <3>3, <3>4, <3>5 DEF Step
  <2>2. CASE Publish(p)
    <3>1. req[p].op # "unblock"
      BY DEF NoUndo
    <3>2. \A t \in tasks' : t \in tasks \/ t.kind = req[p].op
      BY <2>2 DEF Publish
    <3> QED
      BY <2>1, <3>1, <3>2 DEF NoUndo
  <2>3. CASE tasks' = tasks
    BY <2>1, <2>3 DEF NoUndo
  <2>4. Publish(p) \/ tasks' = tasks
    BY <1>3 DEF Step, Crash, BlockCheck, BlockFill, Cooldown, Acquire, GiveUp, Read, Write, Release,
                RemoveFind, BlockFind, BlockWrite, busVars
  <2> QED
    BY <2>2, <2>3, <2>4
<1>4. ASSUME NEW t \in tasks, Handle(t) PROVE NoUndo'
  <2>1. req' = req
    BY <1>4 DEF Handle, CacheListener, BlockedFind, BlockedDelete, UnblockedRestore
  <2>2. \A s \in tasks' : s \in tasks \/ s.kind = t.kind
    BY <1>4 DEF Handle, CacheListener, BlockedFind, BlockedDelete, UnblockedRestore, TypeOK, Task
  <2> QED
    BY <2>1, <2>2 DEF NoUndo
<1>5. CASE CacheExpires \/ CooldownElapses \/ UNCHANGED vars \/ \E k \in LockKeys : LockExpires(k)
  <2>1. req' = req /\ tasks' = tasks
    BY <1>5 DEF CacheExpires, CooldownElapses, LockExpires, vars, busVars
  <2> QED
    BY <2>1 DEF NoUndo
<1> QED
  BY <1>1, <1>3, <1>4, <1>5 DEF Next

\* What a step does to the row: a request writes it, a block deletes it, or it
\* stays.
LEMMA RowWriters ==
  ASSUME TypeOK, NoUndo, [Next]_vars
  PROVE  \/ row' = row
         \/ row' = [row EXCEPT !.deleted = TRUE] /\ cause' = "block"
         \/ \E p \in Proc : Write(p)
<1>1. ASSUME NEW p \in Proc, NEW v \in Users, NEW o \in OpNames, Begin(p, v, o) PROVE row' = row
  BY <1>1 DEF Begin, rowVars
<1>2. ASSUME NEW p \in Proc, Step(p) \/ Crash(p), ~Write(p) PROVE row' = row
  BY <1>2 DEF Step, Crash, BlockCheck, BlockFill, Cooldown, Acquire, GiveUp, Read, Release, RemoveFind,
              BlockFind, BlockWrite, Publish, rowVars
<1>3. ASSUME NEW t \in tasks, Handle(t)
      PROVE  row' = row \/ (row' = [row EXCEPT !.deleted = TRUE] /\ cause' = "block")
  <2>1. t.kind # "unblock"
    BY DEF NoUndo
  <2> QED
    BY <1>3, <2>1 DEF Handle, CacheListener, BlockedFind, BlockedDelete, UnblockedRestore, rowVars
<1>4. CASE CacheExpires \/ CooldownElapses \/ UNCHANGED vars \/ \E k \in LockKeys : LockExpires(k)
  BY <1>4 DEF CacheExpires, CooldownElapses, LockExpires, vars, rowVars
<1> QED
  BY <1>1, <1>2, <1>3, <1>4 DEF Next

\* A step takes a request to the reopening write only from a read of a closed row.
LEMMA ReopensFrom ==
  ASSUME TypeOK, [Next]_vars, NEW q \in Proc, Reopens(q)'
  PROVE  Reopens(q) \/ (Closed /\ row' = row)
<1>0. req \in [Proc -> Request] /\ row \in Row
  BY DEF TypeOK
<1>1. ASSUME NEW p \in Proc, NEW v \in Users, NEW o \in OpNames, Begin(p, v, o) PROVE Reopens(q)
  BY <1>0, <1>1 DEF Begin, Reopens, Idle
<1>2. ASSUME NEW p \in Proc, NEW l \in Labels, Goto(p, l), l # "write" \/ req[p].op # "send"
      PROVE  Reopens(q)
  BY <1>0, <1>2 DEF Goto, Reopens, Idle, Request
<1>3. ASSUME NEW p \in Proc, BlockCheck(p) \/ BlockFill(p) PROVE Reopens(q)
  <2>1. CASE Goto(p, Refused(p)) \/ PassBlockCheck(p)
    BY <1>2, <2>1 DEF Refused, PassBlockCheck, Labels
  <2>2. CASE req' = [req EXCEPT ![p] = [@ EXCEPT !.at = "blockfill", !.answer = (blockers # {})]]
    BY <1>0, <2>2 DEF Reopens, Request
  <2> QED
    BY <1>3, <2>1, <2>2 DEF BlockCheck, BlockFill
<1>4. ASSUME NEW p \in Proc,
             Cooldown(p) \/ Acquire(p) \/ GiveUp(p) \/ Release(p) \/ RemoveFind(p)
               \/ BlockFind(p) \/ BlockWrite(p) \/ Publish(p) \/ Crash(p) \/ Write(p)
      PROVE  Reopens(q)
  <2>1. \/ \E l \in {"idle", "acquire", "read", "release", "publish"} : Goto(p, l)
        \/ req[p].op \in {"block", "unblock"} /\ Goto(p, "write")
    BY <1>4 DEF Cooldown, Acquire, GiveUp, Release, RemoveFind, BlockFind, BlockWrite, Publish, Crash, Write
  <2> QED
    BY <1>2, <2>1 DEF Labels
<1>5. ASSUME NEW p \in Proc, Read(p) PROVE Reopens(q) \/ (Closed /\ row' = row)
  <2>1. CASE \/ Goto(p, "release") \/ Goto(p, "blockcheck")
             \/ req[p].op \in {"decline", "cancel", "remove"} /\ Goto(p, "write")
    BY <1>2, <2>1 DEF Labels
  <2>2. CASE /\ Allowed(p) /\ req[p].op = "send"
             /\ req' = [req EXCEPT ![p] = [@ EXCEPT !.at = "write", !.seen = Found]]
    <3>1. CASE q # p
      BY <1>0, <2>2, <3>1 DEF Reopens
    <3>2. CASE q = p
      <4>1. Found = "reopen"
        BY <1>0, <2>2, <3>2 DEF Reopens, Request
      <4>2. row.status # "NONE" /\ ~(Live(row) /\ row.status = "PENDING")
        BY <4>1 DEF Found
      <4>3. Live(row) => row.status = "DECLINED"
        BY <2>2, <4>2 DEF Allowed, SendAllowed
      <4> QED
        BY <1>5, <4>2, <4>3 DEF Closed, Live, Read, rowVars
    <3> QED
      BY <3>1, <3>2
  <2> QED
    BY <1>5, <2>1, <2>2 DEF Read
<1>6. CASE \/ CacheExpires \/ CooldownElapses \/ UNCHANGED vars
           \/ \E k \in LockKeys : LockExpires(k)
           \/ \E t \in tasks : Handle(t)
  <2>1. req' = req
    BY <1>6 DEF CacheExpires, CooldownElapses, LockExpires, vars, Handle, CacheListener, BlockedFind,
                BlockedDelete, UnblockedRestore
  <2> QED
    BY <2>1 DEF Reopens
<1> QED
  BY <1>1, <1>3, <1>4, <1>5, <1>6 DEF Next, Step

\* While a send is about to open a closed row nobody else takes it out of its
\* state: the other sends and the unfriends wait for the pair's key, and a
\* verdict finds a request that waits.
LEMMA ClosedStays ==
  ASSUME NEW u \in Users, Reopening(u), [Next]_vars, expiries = 0,
         NEW q \in Proc, Reopens(q), Reopens(q)'
  PROVE  Closed'
<1>0. /\ TypeOK /\ NoUndo /\ Closed /\ row \in Row /\ req \in [Proc -> Request]
      /\ \A p \in Proc : FlightAsked(u, p)
  BY DEF Reopening, Asked, Held, LockInv, TypeOK
<1>1. CASE row' = row \/ row' = [row EXCEPT !.deleted = TRUE]
  BY <1>0, <1>1 DEF Closed, Row
<1>2. ASSUME NEW p \in Proc, Write(p) PROVE Closed'
  <2>1. p # q
    BY <1>0, <1>2 DEF Write, Goto, Reopens, Request
  <2>2. req[p].op # "send"
    <3> SUFFICES ASSUME req[p].op = "send" PROVE FALSE
      OBVIOUS
    <3>1. InLock(p) /\ InLock(q) /\ LockKey(req[p].op, req[p].me) = LockKey(req[q].op, req[q].me)
      BY <1>2 DEF Write, Reopens, InLock, LockedOps, LockKey
    <3> QED
      BY <2>1, <3>1, HeldExclusive DEF LockExclusion, Reopening, Asked
  <2>3. CASE req[p].op \in {"accept", "decline"}
    <3>1. row.status = "PENDING" /\ row.deleted
      BY <1>0, <1>2, <2>3 DEF Write, FlightAsked, Deciding, Closed
    <3> QED
      BY <1>0, <1>2, <2>3, <3>1 DEF Write, WriteSend, WriteAccept, WriteAccepted, WriteDecline, WriteDelete,
                                  Closed, Row
  <2>4. CASE WriteDelete(p)
    BY <1>0, <2>4 DEF WriteDelete, Closed, Row
  <2> QED
    BY <1>2, <2>2, <2>3, <2>4 DEF Write, WriteSend, WriteAccept, WriteDecline
<1> QED
  BY <1>0, <1>1, <1>2, RowWriters

\* Expiries are only counted up.
LEMMA ExpiriesGrow ==
  ASSUME TypeOK, [Next]_vars
  PROVE  expiries' = 0 => expiries = 0
<1>1. CASE \E p \in Proc : Step(p) \/ Crash(p) \/ \E u \in Users, o \in OpNames : Begin(p, u, o)
  <2>1. expiries' = expiries
    BY <1>1 DEF Step, Begin, Crash, BlockCheck, BlockFill, Cooldown, Acquire, GiveUp, Read, Write,
                Release, RemoveFind, BlockFind, BlockWrite, Publish, faults
  <2> QED
    BY <2>1
<1>2. CASE \/ \E t \in tasks : Handle(t)
           \/ CacheExpires \/ CooldownElapses \/ UNCHANGED vars
  <2>1. expiries' = expiries
    BY <1>2 DEF Handle, CacheListener, BlockedFind, BlockedDelete, UnblockedRestore, CacheExpires,
                CooldownElapses, vars, faults
  <2> QED
    BY <2>1
<1>3. CASE \E k \in LockKeys : LockExpires(k)
  <2>1. expiries' \in {expiries, expiries + 1} /\ expiries \in Nat
    BY <1>3 DEF LockExpires, TypeOK
  <2> QED
    BY <2>1
<1> QED
  BY <1>1, <1>2, <1>3 DEF Next

\* Every step keeps Reopening.
LEMMA ReopeningStep ==
  ASSUME NEW u \in Users, OneAsks(u), NothingUndone, Reopening(u), [Next]_vars
  PROVE  Reopening(u)'
<1>0. TypeOK /\ TypeOK' /\ Asked(u)' /\ NoUndo'
  BY AskedStep, NoUndoStep, TypeStep DEF Reopening, Asked, Held, LockInv
<1>1. expiries' = 0 => expiries = 0
  BY <1>0, ExpiriesGrow
<1>2. ASSUME expiries' = 0, NEW q \in Proc, Reopens(q)' PROVE Closed'
  <2>1. expiries = 0
    BY <1>1, <1>2
  <2>2. CASE Closed /\ row' = row
    BY <2>2 DEF Closed
  <2>3. CASE Reopens(q)
    BY <1>2, <2>1, <2>3, ClosedStays
  <2> QED
    BY <1>0, <1>2, <2>2, <2>3, ReopensFrom
<1> QED
  BY <1>0, <1>2 DEF Reopening

LEMMA ReopeningInit == ASSUME NEW u \in Users, Init PROVE Reopening(u)
<1>1. Asked(u)
  BY AskedInit
<1> QED
  BY <1>1 DEF Init, Idle, Reopening, NoUndo, Reopens

\* A step ends a friendship only by an unfriend or a block: a decline finds a
\* request that waits, a send a closed row.
LEMMA EndsStep ==
  ASSUME NEW u \in Users, Reopening(u), [Next]_vars, expiries = 0, Friends, ~Friends'
  PROVE  cause' \in {"remove", "block"} /\ row'.status = "ACCEPTED"
<1>0. /\ TypeOK /\ NoUndo /\ row \in Row /\ row.status = "ACCEPTED" /\ ~row.deleted
      /\ \A p \in Proc : FlightAsked(u, p)
      /\ \A p \in Proc : ~Reopens(p)
  BY DEF Reopening, Asked, Held, LockInv, TypeOK, Friends, Live, Closed
<1>1. row' # row
  BY DEF Friends, Live
<1>2. CASE row' = [row EXCEPT !.deleted = TRUE] /\ cause' = "block"
  BY <1>0, <1>2 DEF Row
<1>3. ASSUME NEW p \in Proc, Write(p) PROVE cause' \in {"remove", "block"} /\ row'.status = "ACCEPTED"
  <2>1. req[p].op \notin {"accept", "decline"}
    BY <1>0, <1>3 DEF Write, FlightAsked, Deciding
  <2>2. ~WriteSend(p)
    BY <1>0, <1>1, <1>3 DEF Write, WriteSend, FlightAsked, Reopens, rowVars
  <2>3. WriteDelete(p) /\ req[p].op # "cancel"
    BY <1>0, <1>3, <2>1, <2>2 DEF Write, WriteAccept, WriteDecline, NoUndo
  <2> QED
    BY <1>0, <2>3 DEF WriteDelete, Row
<1> QED
  BY <1>0, <1>1, <1>2, <1>3, RowWriters

\* When the requests go one way, nothing is cancelled or unblocked and no lock
\* lapses, a friendship ends by an unfriend or a block only: no answer and no
\* send overwrites it with what it read before, for any number of calls.
THEOREM EndsOnlyByRemoveOrBlockHolds ==
  ASSUME NEW u \in Users, OneAsks(u), NothingUndone
  PROVE  Spec => EndsOnlyByRemoveOrBlock
<1>1. Init => Reopening(u)
  BY ReopeningInit
<1>2. Reopening(u) /\ [Next]_vars => Reopening(u)'
  BY ReopeningStep
<1>3. Reopening(u) /\ [Next]_vars =>
        [Friends /\ ~Friends' /\ expiries = 0 =>
           cause' \in {"remove", "block"} /\ row'.status = "ACCEPTED"]_vars
  BY EndsStep
<1> QED
  BY <1>1, <1>2, <1>3, PTL DEF Spec, EndsOnlyByRemoveOrBlock
=============================================================================
