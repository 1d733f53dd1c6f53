------------------------------ MODULE QrLogin ------------------------------
(***************************************************************************)
(* Login of a web page by a QR code: the session in Redis, the phones that *)
(* scan, confirm and cancel it, the page that exchanges its ticket for a   *)
(* login, and the rows of the PC sessions this creates and revokes.        *)
(*                                                                         *)
(* QrSessionRedisService.updateStatus and consumeTicket read a session,    *)
(* change it and write it back whole; only exchanges take the user's lock. *)
(* Each member of Proc is a call being served, split at every await.  The  *)
(* browser of each code is its own device; the phone's own session is not  *)
(* of PC type, so the exclusion of its device id revokes nothing else.     *)
(***************************************************************************)
EXTENDS Naturals, Sequences, FiniteSets

CONSTANTS
    Proc,      \* calls in flight
    User,      \* users whose phones scan
    Code,      \* QR sessions, one for each page
    NULL,      \* "nobody", "no session"
    Before,    \* <<user, code>>: the user has logged in on this browser before
    Ops,       \* operations the clients call
    MaxCalls,  \* bound: calls the clients make
    MaxFaults  \* bound: calls that fail or die half way, and locks that
               \* expire under their holder

OpNames == {"scan", "confirm", "cancel", "exchange"}

ASSUME QrAssumption ==
    /\ NULL \notin User /\ NULL \notin Proc /\ Code # {}
    /\ Before \subseteq User \X Code /\ Ops \subseteq OpNames
    /\ MaxCalls \in Nat /\ MaxFaults \in Nat

VARIABLES
    qr,        \* Redis: the session of each code
    lock,      \* Redis: lock of each user -> the exchange that set it
    rows,      \* UserToken: the PC sessions, in the order of their creation
    known,     \* tickets each page has been told, by socket or by polling
    busy,      \* isExchangingRef of each page
    req,       \* the calls
    tickets,   \* number of tickets generated
    calls, lapses, faults,
    approval   \* history: <<user, code>> of the call that generated each ticket

store == <<qr, lock, rows>>
pages == <<known, busy>>
counts == <<calls, lapses, faults>>
vars == <<store, pages, req, tickets, approval, counts>>

-----------------------------------------------------------------------------
Statuses == {"PENDING", "SCANNED", "APPROVED", "CANCELLED"}

\* Ticket 0 is "no ticket".
Session == [status: Statuses, user: User \cup {NULL}, ticket: Nat]

Fresh == [status |-> "PENDING", user |-> NULL, ticket |-> 0]

\* seen is the session a call is about to write back, put the status it will
\* store, user the user it acts for.
Idle == [at |-> "idle", op |-> "scan", code |-> CHOOSE c \in Code : TRUE, user |-> NULL,
         ticket |-> 0, seen |-> Fresh, put |-> "SCANNED"]

Goto(p, l) == req' = [req EXCEPT ![p] = IF l = "idle" THEN Idle ELSE [@ EXCEPT !.at = l]]

Become(p, c) == req' = [req EXCEPT ![p] = c]

\* What the code calls a live PC session of the user.
LivePc(u) == {i \in DOMAIN rows : rows[i].user = u /\ rows[i].live}

\* checkTrustedDevice: the browser has ever had a session of the user.
Trusted(u, c) ==
    <<u, c>> \in Before \/ \E i \in DOMAIN rows : rows[i].user = u /\ rows[i].code = c

-----------------------------------------------------------------------------
Init ==
    /\ qr = [c \in Code |-> Fresh] /\ lock = [u \in User |-> NULL] /\ rows = <<>>
    /\ known = [c \in Code |-> {}] /\ busy = [c \in Code |-> FALSE]
    /\ req = [p \in Proc |-> Idle]
    /\ tickets = 0 /\ approval = <<>>
    /\ calls = 0 /\ lapses = 0 /\ faults = 0

\* A phone scans, confirms or cancels a code.
BeginPhone(p, o, u, c) ==
    /\ req[p].at = "idle" /\ o \in Ops \ {"exchange"} /\ calls < MaxCalls
    /\ Become(p, [Idle EXCEPT !.at = "get", !.op = o, !.code = c, !.user = u])
    /\ calls' = calls + 1
    /\ UNCHANGED <<store, pages, tickets, approval, lapses, faults>>

\* A page exchanges a ticket it knows, one exchange at a time.
BeginExchange(p, c, t) ==
    /\ req[p].at = "idle" /\ "exchange" \in Ops /\ calls < MaxCalls
    /\ ~busy[c] /\ t \in known[c]
    /\ Become(p, [Idle EXCEPT !.at = "get", !.op = "exchange", !.code = c, !.ticket = t])
    /\ busy' = [busy EXCEPT ![c] = TRUE]
    /\ calls' = calls + 1
    /\ UNCHANGED <<store, known, tickets, approval, lapses, faults>>

\* The page polls the status and is given the ticket of an approved session.
Poll(c) ==
    /\ qr[c] # NULL /\ qr[c].status = "APPROVED" /\ qr[c].ticket \notin known[c] \cup {0}
    /\ known' = [known EXCEPT ![c] = @ \cup {qr[c].ticket}]
    /\ UNCHANGED <<store, busy, req, tickets, approval, counts>>

\* The page gives up waiting (axios timeout) while the server still works.
PageTimeout(c) ==
    /\ busy[c] /\ busy' = [busy EXCEPT ![c] = FALSE]
    /\ UNCHANGED <<store, known, req, tickets, approval, counts>>

-----------------------------------------------------------------------------
(* The first read, getSession, and the checks of each operation on it.       *)

Draw(p, c) ==
    /\ tickets' = tickets + 1
    /\ approval' = Append(approval, <<req[p].user, req[p].code>>)
    /\ Become(p, [c EXCEPT !.ticket = tickets + 1, !.put = "APPROVED"])

Refused(p) ==
    /\ Goto(p, "idle")
    /\ busy' = IF req[p].op = "exchange" THEN [busy EXCEPT ![req[p].code] = FALSE] ELSE busy
    /\ UNCHANGED <<tickets, approval>>

\* Only a pending session is scanned; a retry of the same user is answered
\* without a write.
ScanAllowed(s, u) == s # NULL /\ s.status = "PENDING"

ConfirmAllowed(s, u) == s # NULL /\ s.status = "SCANNED" /\ s.user \in {u, NULL}

CancelAllowed(s, u) == s # NULL /\ s.status # "PENDING" /\ s.user = u

ExchangeAllowed(s) == s # NULL /\ s.status = "APPROVED" /\ s.user # NULL

Allowed(p) ==
    LET s == qr[req[p].code] IN
    CASE req[p].op = "scan" -> ScanAllowed(s, req[p].user)
      [] req[p].op = "confirm" -> ConfirmAllowed(s, req[p].user)
      [] req[p].op = "cancel" -> CancelAllowed(s, req[p].user)
      [] OTHER -> ExchangeAllowed(s)

GetSession(p) ==
    /\ req[p].at = "get"
    /\ \/ ~Allowed(p) /\ Refused(p)
       \/ /\ Allowed(p) /\ UNCHANGED busy
          /\ \/ req[p].op = "scan" /\ Goto(p, "trust") /\ UNCHANGED <<tickets, approval>>
             \/ req[p].op = "confirm" /\ Draw(p, [req[p] EXCEPT !.at = "load"])
             \/ /\ req[p].op = "cancel"
                /\ Become(p, [req[p] EXCEPT !.at = "load", !.put = "CANCELLED"])
                /\ UNCHANGED <<tickets, approval>>
             \/ /\ req[p].op = "exchange"
                /\ Become(p, [req[p] EXCEPT !.at = "acquire", !.user = qr[req[p].code].user])
                /\ UNCHANGED <<tickets, approval>>
    /\ UNCHANGED <<store, known, counts>>

\* A scan on a trusted browser approves at once.
CheckTrusted(p) ==
    /\ req[p].at = "trust"
    /\ IF Trusted(req[p].user, req[p].code)
       THEN Draw(p, [req[p] EXCEPT !.at = "load"])
       ELSE /\ Become(p, [req[p] EXCEPT !.at = "load", !.put = "SCANNED"])
            /\ UNCHANGED <<tickets, approval>>
    /\ UNCHANGED <<store, pages, counts>>

-----------------------------------------------------------------------------
(* updateStatus: GET, then SETEX of what was read with the new fields.  The  *)
(* remaining TTL read in between only chooses how long the value lives.      *)

\* Mutant: the session is not looked for before it is changed.
Bug_Load(p) ==
    /\ req[p].at = "load"
    /\ Become(p, [req[p] EXCEPT !.at = "store", !.seen = qr[req[p].code]])
    /\ UNCHANGED <<store, pages, tickets, approval, counts>>

Load(p) ==
    /\ req[p].at = "load"
    /\ IF qr[req[p].code] = NULL
       THEN Goto(p, "emit")
       ELSE Become(p, [req[p] EXCEPT !.at = "store", !.seen = qr[req[p].code]])
    /\ UNCHANGED <<store, pages, tickets, approval, counts>>

\* Mutant: the ticket is stored without the user who approved it.
Bug_Updated(p) ==
    CASE req[p].put = "APPROVED" -> [req[p].seen EXCEPT !.status = "APPROVED", !.ticket = req[p].ticket]
      [] req[p].put = "SCANNED"  -> [req[p].seen EXCEPT !.status = "SCANNED", !.user = req[p].user]
      [] OTHER -> [req[p].seen EXCEPT !.status = "CANCELLED"]

\* { ...session, status, ...extra }
Updated(p) ==
    CASE req[p].put = "APPROVED" ->
           [status |-> "APPROVED", user |-> req[p].user, ticket |-> req[p].ticket]
      [] req[p].put = "SCANNED" -> [req[p].seen EXCEPT !.status = "SCANNED", !.user = req[p].user]
      [] OTHER -> [req[p].seen EXCEPT !.status = "CANCELLED"]

Store(p) ==
    /\ req[p].at = "store"
    /\ qr' = [qr EXCEPT ![req[p].code] = Updated(p)]
    /\ Goto(p, "emit")
    /\ UNCHANGED <<lock, rows, pages, tickets, approval, counts>>

\* emitToSocket: the page learns the ticket, or has lost its socket.
Emit(p) ==
    /\ req[p].at = "emit"
    /\ \/ req[p].put = "APPROVED" /\ known' = [known EXCEPT ![req[p].code] = @ \cup {req[p].ticket}]
       \/ UNCHANGED known
    /\ Goto(p, "idle")
    /\ UNCHANGED <<store, busy, tickets, approval, counts>>

-----------------------------------------------------------------------------
(* exchange, under the lock of the user of the session it read.              *)

\* Mutant: a held lock is no obstacle.
Bug_AcquireLock(p) ==
    /\ req[p].at = "acquire"
    /\ lock' = [lock EXCEPT ![req[p].user] = p]
    /\ Goto(p, "match")
    /\ UNCHANGED <<qr, rows, pages, tickets, approval, counts>>

\* SET NX EX: a held lock refuses the exchange.
AcquireLock(p) ==
    /\ req[p].at = "acquire"
    /\ \/ /\ lock[req[p].user] = NULL /\ lock' = [lock EXCEPT ![req[p].user] = p]
          /\ Goto(p, "match") /\ UNCHANGED <<busy, tickets, approval>>
       \/ lock[req[p].user] # NULL /\ Refused(p) /\ UNCHANGED lock
    /\ UNCHANGED <<qr, rows, known, counts>>

\* isTicketMatch reads the session a second time.
IsTicketMatch(p) ==
    /\ req[p].at = "match"
    /\ LET s == qr[req[p].code] IN
       Goto(p, IF s # NULL /\ s.ticket = req[p].ticket THEN "take" ELSE "release")
    /\ UNCHANGED <<store, pages, tickets, approval, counts>>

\* consumeTicket: GET ...
TakeTicket(p) ==
    /\ req[p].at = "take"
    /\ LET s == qr[req[p].code] IN
       IF s # NULL /\ s.ticket # 0
       THEN Become(p, [req[p] EXCEPT !.at = "taken", !.seen = s])
       ELSE Goto(p, "release")
    /\ UNCHANGED <<store, pages, tickets, approval, counts>>

\* ... then SETEX without the ticket.
StoreTaken(p) ==
    /\ req[p].at = "taken"
    /\ qr' = [qr EXCEPT ![req[p].code] = [req[p].seen EXCEPT !.ticket = 0]]
    /\ Goto(p, "find")
    /\ UNCHANGED <<lock, rows, pages, tickets, approval, counts>>

\* revokeExistingPCSessions: nothing is written when nothing was found.
FindPc(p) ==
    /\ req[p].at = "find"
    /\ Goto(p, IF LivePc(req[p].user) = {} THEN "create" ELSE "revoke")
    /\ UNCHANGED <<store, pages, tickets, approval, counts>>

RevokePc(p) ==
    /\ req[p].at = "revoke"
    /\ rows' = [i \in DOMAIN rows |-> [rows[i] EXCEPT !.live = @ /\ rows[i].user # req[p].user]]
    /\ Goto(p, "create")
    /\ UNCHANGED <<qr, lock, pages, tickets, approval, counts>>

\* createRefreshToken for the user of the session read first.
CreateToken(p) ==
    /\ req[p].at = "create"
    /\ rows' = Append(rows, [user |-> req[p].user, code |-> req[p].code,
                             ticket |-> req[p].ticket, live |-> TRUE])
    /\ Goto(p, "delete")
    /\ UNCHANGED <<qr, lock, pages, tickets, approval, counts>>

\* deleteSession, after the device was registered.
DeleteSession(p) ==
    /\ req[p].at = "delete"
    /\ qr' = [qr EXCEPT ![req[p].code] = NULL]
    /\ Goto(p, "release")
    /\ UNCHANGED <<lock, rows, pages, tickets, approval, counts>>

\* releaseLock is an unconditional DEL.
ReleaseLock(p) ==
    /\ req[p].at = "release"
    /\ lock' = [lock EXCEPT ![req[p].user] = NULL]
    /\ busy' = [busy EXCEPT ![req[p].code] = FALSE]
    /\ Goto(p, "idle")
    /\ UNCHANGED <<qr, rows, known, tickets, approval, counts>>

-----------------------------------------------------------------------------
(* Time and failure.                                                         *)

InLock(p) ==
    req[p].at \in {"match", "take", "taken", "find", "revoke", "create", "delete", "release"}

\* The session's TTL runs out.
SessionExpires(c) ==
    /\ qr[c] # NULL /\ qr' = [qr EXCEPT ![c] = NULL]
    /\ UNCHANGED <<lock, rows, pages, req, tickets, approval, counts>>

\* The lock's TTL runs out; only under a live holder does it count.
LockExpires(u) ==
    /\ lock[u] # NULL
    /\ IF \E p \in Proc : lock[u] = p /\ InLock(p) /\ req[p].user = u
       THEN lapses + faults < MaxFaults /\ lapses' = lapses + 1
       ELSE UNCHANGED lapses
    /\ lock' = [lock EXCEPT ![u] = NULL]
    /\ UNCHANGED <<qr, rows, pages, req, tickets, approval, calls, faults>>

\* The server dies with the call, or the next Redis or database call throws and
\* the finally of exchange runs.
Fail(p) ==
    /\ req[p].at # "idle" /\ lapses + faults < MaxFaults
    /\ \/ Goto(p, "idle")
       \/ InLock(p) /\ Goto(p, "release")
    /\ faults' = faults + 1
    /\ UNCHANGED <<store, pages, tickets, approval, calls, lapses>>

-----------------------------------------------------------------------------
Step(p) ==
    \/ GetSession(p) \/ CheckTrusted(p) \/ Load(p) \/ Store(p) \/ Emit(p)
    \/ AcquireLock(p) \/ IsTicketMatch(p) \/ TakeTicket(p) \/ StoreTaken(p) \/ FindPc(p)
    \/ RevokePc(p) \/ CreateToken(p) \/ DeleteSession(p) \/ ReleaseLock(p)

Next ==
    \/ \E p \in Proc :
         \/ \E o \in OpNames, u \in User, c \in Code : BeginPhone(p, o, u, c)
         \/ \E c \in Code, t \in 1..MaxCalls : BeginExchange(p, c, t)
         \/ Step(p) \/ Fail(p)
    \/ \E c \in Code : Poll(c) \/ PageTimeout(c) \/ SessionExpires(c)
    \/ \E u \in User : LockExpires(u)

Spec == Init /\ [][Next]_vars

-----------------------------------------------------------------------------
(* Properties.                                                               *)

Labels == {"idle", "get", "trust", "load", "store", "emit", "acquire", "match", "take", "taken",
           "find", "revoke", "create", "delete", "release"}

Call == [at: Labels, op: OpNames, code: Code, user: User \cup {NULL}, ticket: Nat,
         seen: Session, put: Statuses]

PcSession == [user: User, code: Code, ticket: Nat, live: BOOLEAN]

\* The type of every variable.
TypeOK ==
    /\ qr \in [Code -> Session \cup {NULL}] /\ lock \in [User -> Proc \cup {NULL}]
    /\ rows \in Seq(PcSession)
    /\ known \in [Code -> SUBSET Nat] /\ busy \in [Code -> BOOLEAN]
    /\ req \in [Proc -> Call]
    /\ tickets \in Nat /\ approval \in Seq(User \X Code) /\ Len(approval) = tickets
    /\ calls \in 0..MaxCalls /\ lapses \in 0..MaxFaults /\ faults \in 0..MaxFaults

\* A page logs in nobody but a user who approved its code, although the user
\* is taken from one read of the session and the ticket is compared with a
\* later one, while other phones scan and write the same session back.
LoginWasApproved ==
    \A i \in DOMAIN rows : \E t \in DOMAIN approval : approval[t] = <<rows[i].user, rows[i].code>>

\* A user is never logged in on two PCs (qr-login.service.ts:334 "enforce 1PC
\* rule"), whatever codes are exchanged at a time, as long as no lock expires
\* under its holder.
OnePc == lapses = 0 => \A u \in User : Cardinality(LivePc(u)) <= 1

\* A ticket logs in once (qr-session-redis.service.ts:134 "Atomically consume
\* the exchange ticket (one-time use) ... This is safe because the caller holds
\* a Redis distributed lock").
TicketUsedOnce ==
    lapses = 0 => \A i, j \in DOMAIN rows : rows[i].ticket = rows[j].ticket => i = j
=============================================================================
