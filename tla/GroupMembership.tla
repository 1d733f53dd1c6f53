--------------------------- MODULE GroupMembership ---------------------------
(***************************************************************************)
(* GroupService and GroupJoinService: the members of one group, who of     *)
(* them is its administrator, the requests to join it, its approval switch *)
(* and the messages pinned in it.                                          *)
(*                                                                         *)
(* Every member of Proc is a call in flight.  A call reads who may do what *)
(* in statements of their own and writes in a later one, so rows may have  *)
(* changed in between; a transaction reads what is committed and becomes   *)
(* visible as a whole.                                                     *)
(***************************************************************************)
EXTENDS Naturals, FiniteSets

CONSTANTS
    Proc,        \* calls in flight
    User, Admin, \* users; who creates the group
    Founders,    \* the members that createGroup adds beside its creator
    Msg,         \* messages that can be pinned
    Ops,         \* what the clients do: <<operation, user, users it is about>>
    MaxGroupSize,  \* MAX_GROUP_SIZE
    MaxPinned,     \* MAX_PINNED_MESSAGES
    MaxRequests    \* bound: rows of join requests ever created

AdminOps == {"transfer", "approve", "reject", "open", "close", "describe", "dissolve"}
OpNames == AdminOps \union {"remove", "add", "join", "cancel", "invite", "pin", "unpin"}

ASSUME UserAssumption ==
    /\ IsFiniteSet(User) /\ IsFiniteSet(Proc)
    /\ Admin \in User /\ Founders \subseteq User \ {Admin} /\ Msg # {}
\* Only addMembers and inviteMembers take several users.
ASSUME OpsAssumption ==
    /\ Ops \subseteq OpNames \X User \X SUBSET User
    /\ \A o \in Ops : o[1] \in {"add", "invite"} \/ \E u \in User : o[3] = {u}
ASSUME BoundAssumption ==
    {MaxGroupSize, MaxPinned, MaxRequests} \subseteq Nat

VARIABLES
    status,    \* ConversationMember: "none" (no row), "ACTIVE", "LEFT", "KICKED"
    role,      \* ConversationMember: "ADMIN" or "MEMBER"; a row keeps it when its user leaves
    request,   \* GroupJoinRequest row of a user: id (0 for no row) and status
    lastId,    \* ids given to request rows
    approval,  \* Conversation.requireApproval
    dissolved, \* Conversation.deletedAt is set
    pinned,    \* settings.pinnedMessages
    vouched,   \* history: users let in by somebody who could, or by the open group
    withdrawn, \* history: request rows deleted while they were pending
    admitted,  \* history: request rows whose approval made a member
    doubled,   \* history: a transfer passed its check beside another one of its caller
    req        \* the calls

group == <<status, role, approval, dissolved, pinned>>
joining == <<request, lastId>>
story == <<vouched, withdrawn, admitted, doubled>>
vars == <<group, joining, story, req>>

-----------------------------------------------------------------------------
Status == {"none", "ACTIVE", "LEFT", "KICKED"}
NoRow == [id |-> 0, status |-> "NONE"]
AnyMsg == CHOOSE m \in Msg : TRUE

Idle == [at |-> "idle", op |-> "join", me |-> Admin, who |-> {Admin}, msg |-> AnyMsg,
         open |-> FALSE, rid |-> 0, next |-> Admin, snap |-> {}]

Goto(p, l) == req' = [req EXCEPT ![p] = IF l = "idle" THEN Idle ELSE [@ EXCEPT !.at = l]]
KeepIf(p, l, guard) == Goto(p, IF guard THEN l ELSE "idle")

IsMember(u) == status[u] = "ACTIVE"
IsAdmin(u) == IsMember(u) /\ role[u] = "ADMIN"
Active == {u \in User : IsMember(u)}

\* The upsert of a member: a row that exists keeps its role.
Enter(S) == status' = [u \in User |-> IF u \in S THEN "ACTIVE" ELSE status[u]]

\* The rows of S are deleted; those still pending were withdrawn.
Delete(S) ==
    /\ request' = [u \in User |-> IF u \in S THEN NoRow ELSE request[u]]
    /\ withdrawn' = withdrawn
         \union {request[u].id : u \in {v \in S : request[v].status = "PENDING"}}

\* The upsert of a pending request: a row that exists keeps its id.
Ask(u) ==
    /\ request[u].id = 0 => lastId < MaxRequests
    /\ lastId' = IF request[u].id = 0 THEN lastId + 1 ELSE lastId
    /\ request' = [request EXCEPT ![u] =
                       [id |-> IF @.id = 0 THEN lastId + 1 ELSE @.id, status |-> "PENDING"]]

-----------------------------------------------------------------------------
\* createGroup is one transaction; the group starts with its members.
Init ==
    /\ status = [u \in User |-> IF u \in Founders \union {Admin} THEN "ACTIVE" ELSE "none"]
    /\ role = [u \in User |-> IF u = Admin THEN "ADMIN" ELSE "MEMBER"]
    /\ request = [u \in User |-> NoRow] /\ lastId = 0
    /\ approval \in BOOLEAN /\ dissolved = FALSE /\ pinned = {}
    /\ vouched = Founders \union {Admin} /\ withdrawn = {} /\ admitted = {} /\ doubled = FALSE
    /\ req = [p \in Proc |-> Idle]

First(o) ==
    CASE o \in {"add", "join", "invite"} -> "group"
      [] o \in {"approve", "reject", "cancel"} -> "request"
      [] OTHER -> "verify"

Begin(p, o, u, S, m) ==
    /\ req[p].at = "idle" /\ <<o, u, S>> \in Ops
    /\ o = "transfer" => u \notin S
    /\ o \notin {"pin", "unpin"} => m = AnyMsg
    /\ req' = [req EXCEPT ![p] =
                   [Idle EXCEPT !.at = First(o), !.op = o, !.me = u, !.who = S, !.msg = m]]
    /\ UNCHANGED <<group, joining, story>>

-----------------------------------------------------------------------------
(* What a call looks up before it writes.                                    *)

\* getGroupOrThrow and its copies: the group exists; does it need approval?
Group(p) ==
    /\ req[p].at = "group"
    /\ IF dissolved \/ (req[p].op = "invite" /\ ~approval)
       THEN Goto(p, "idle")
       ELSE req' = [req EXCEPT ![p].open = ~approval,
                               ![p].at = IF req[p].op = "join" THEN "self" ELSE "verify"]
    /\ vouched' = IF req[p].op = "join" /\ ~dissolved /\ ~approval
                  THEN vouched \union {req[p].me} ELSE vouched
    /\ UNCHANGED <<group, joining, withdrawn, admitted, doubled>>

\* A request is reviewed by its id, which the reviewer has from the list of
\* pending requests; a user cancels its own.
Request(p) ==
    LET r == req[p] IN
    /\ r.at = "request"
    /\ \E u \in (IF r.op = "cancel" THEN {r.me} ELSE r.who) :
         IF request[u].status # "PENDING"
         THEN Goto(p, "idle")
         ELSE req' = [req EXCEPT ![p].rid = request[u].id, ![p].who = {u},
                          ![p].at = IF r.op = "cancel" THEN "delete" ELSE "verify"]
    /\ UNCHANGED <<group, joining, story>>

\* Mutant: any member may hand the administration over.
Bug_TransferMay(p) ==
    LET r == req[p] IN
    CASE r.op = "transfer" -> IsMember(r.me)
      [] r.op \in AdminOps -> IsAdmin(r.me)
      [] r.op = "add" -> IF r.open THEN IsMember(r.me) ELSE IsAdmin(r.me)
      [] r.op = "remove" -> IsAdmin(r.me) \/ r.who = {r.me}
      [] OTHER -> IsMember(r.me)

\* Mutant: any member may add users, whether the group needs approval or not.
Bug_AddMay(p) ==
    LET r == req[p] IN
    CASE r.op \in AdminOps -> IsAdmin(r.me)
      [] r.op = "remove" -> IsAdmin(r.me) \/ r.who = {r.me}
      [] OTHER -> IsMember(r.me)

\* verifyAdmin, verifyMember, isAdmin.
May(p) ==
    LET r == req[p] IN
    CASE r.op \in AdminOps -> IsAdmin(r.me)
      [] r.op = "add" -> IF r.open THEN IsMember(r.me) ELSE IsAdmin(r.me)
      [] r.op = "remove" -> IsAdmin(r.me) \/ r.who = {r.me}
      [] OTHER -> IsMember(r.me)

\* A transfer of u that passed the check of its caller and has not written.
Handing(q, u) == req[q].op = "transfer" /\ req[q].me = u /\ req[q].at \in {"target", "write"}

AfterVerify(o) ==
    CASE o \in {"transfer", "remove", "add", "approve", "reject", "invite"} -> "target"
      [] o = "open" -> "previous"
      [] o \in {"pin", "unpin", "describe"} -> "settings"
      [] OTHER -> "write"

\* The block check of inviteMembers comes here too, before its first user.
Verify(p) ==
    LET r == req[p] IN
    /\ r.at = "verify"
    /\ \/ KeepIf(p, AfterVerify(r.op), May(p))
       \/ r.op = "invite" /\ Goto(p, "idle")
    /\ vouched' = IF /\ r.op \in {"add", "approve"}
                     /\ IsAdmin(r.me) \/ (r.op = "add" /\ r.open /\ IsMember(r.me))
                  THEN vouched \union r.who ELSE vouched
    /\ doubled' = IF r.op = "transfer" /\ IsAdmin(r.me) /\ \E q \in Proc : Handing(q, r.me)
                  THEN TRUE ELSE doubled
    /\ UNCHANGED <<group, joining, withdrawn, admitted>>

\* The member a transfer or a removal is about.
Target(p) ==
    LET r == req[p] IN
    /\ r.at = "target" /\ r.op \in {"transfer", "remove"}
    /\ KeepIf(p, "write", \A u \in r.who : IsMember(u) /\ role[u] = "MEMBER")
    /\ UNCHANGED <<group, joining, story>>

\* addMembers leaves out who is a member already; the block check may refuse.
AddTarget(p) ==
    LET new == {u \in req[p].who : ~IsMember(u)} IN
    /\ req[p].at = "target" /\ req[p].op = "add"
    /\ \/ Goto(p, "idle")
       \/ new # {} /\ req' = [req EXCEPT ![p].who = new, ![p].at = "count"]
    /\ UNCHANGED <<group, joining, story>>

\* reviewJoinRequest drops a request whose user is a member already; the block
\* check may refuse an approval.
ReviewTarget(p) ==
    LET r == req[p] IN
    /\ r.at = "target" /\ r.op \in {"approve", "reject"}
    /\ \/ Goto(p, IF \E u \in r.who : IsMember(u) THEN "delete" ELSE "write")
       \/ r.op = "approve" /\ (\A u \in r.who : ~IsMember(u)) /\ Goto(p, "idle")
    /\ UNCHANGED <<group, joining, story>>

\* requestJoin: the member and the request of the caller.
Self(p) ==
    LET r == req[p]
        pending == request[r.me].status = "PENDING"
    IN  /\ r.at = "self"
        /\ Goto(p, IF IsMember(r.me) THEN "idle"
                   ELSE IF r.open THEN (IF pending THEN "drop" ELSE "enter")
                   ELSE IF pending THEN "idle" ELSE "ask")
        /\ UNCHANGED <<group, joining, story>>

\* inviteMembers handles one user after another; members and users with a
\* pending request are skipped.
InviteTarget(p) ==
    LET r == req[p] IN
    /\ r.at = "target" /\ r.op = "invite"
    /\ \E u \in r.who :
         LET rest == r.who \ {u} IN
         IF IsMember(u) \/ request[u].status = "PENDING"
         THEN IF rest = {} THEN Goto(p, "idle") ELSE req' = [req EXCEPT ![p].who = rest]
         ELSE req' = [req EXCEPT ![p].at = "ask", ![p].next = u, ![p].who = rest]
    /\ UNCHANGED <<group, joining, story>>

\* updateGroup: did the group need approval until now?
Previous(p) ==
    /\ req[p].at = "previous"
    /\ req' = [req EXCEPT ![p].open = ~approval, ![p].at = "write"]
    /\ UNCHANGED <<group, joining, story>>

\* Mutant: the limit is checked with > instead of >=.
Bug_Settings(p) ==
    LET r == req[p] IN
    /\ r.at = "settings"
    /\ IF \/ r.op = "pin" /\ (r.msg \in pinned \/ Cardinality(pinned) > MaxPinned)
          \/ r.op = "unpin" /\ r.msg \notin pinned
       THEN Goto(p, "idle")
       ELSE req' = [req EXCEPT ![p].snap = pinned, ![p].at = "store"]
    /\ UNCHANGED <<group, joining, story>>

\* getConversationSettings, and what pinMessage and unpinMessage check in it.
Settings(p) ==
    LET r == req[p] IN
    /\ r.at = "settings"
    /\ IF \/ r.op = "pin" /\ (r.msg \in pinned \/ Cardinality(pinned) >= MaxPinned)
          \/ r.op = "unpin" /\ r.msg \notin pinned
       THEN Goto(p, "idle")
       ELSE req' = [req EXCEPT ![p].snap = pinned, ![p].at = "store"]
    /\ UNCHANGED <<group, joining, story>>

-----------------------------------------------------------------------------
(* What a call writes.                                                       *)

\* transferAdmin: one transaction of two updates.
Transfer(p) ==
    LET r == req[p] IN
    /\ r.at = "write" /\ r.op = "transfer"
    /\ role' = [u \in User |-> IF u \in r.who THEN "ADMIN"
                               ELSE IF u = r.me THEN "MEMBER" ELSE role[u]]
    /\ Goto(p, "idle")
    /\ UNCHANGED <<status, approval, dissolved, pinned, joining, story>>

\* Mutant: a status the enumeration does not have.
Bug_Remove(p) ==
    LET r == req[p] IN
    /\ r.at = "write" /\ r.op = "remove"
    /\ status' = [u \in User |-> IF u \notin r.who THEN status[u] ELSE "REMOVED"]
    /\ Goto(p, "idle")
    /\ UNCHANGED <<role, approval, dissolved, pinned, joining, story>>

\* removeMember, which also is how a member leaves.
Remove(p) ==
    LET r == req[p] IN
    /\ r.at = "write" /\ r.op = "remove"
    /\ status' = [u \in User |-> IF u \notin r.who THEN status[u]
                                 ELSE IF u = r.me THEN "LEFT" ELSE "KICKED"]
    /\ Goto(p, "idle")
    /\ UNCHANGED <<role, approval, dissolved, pinned, joining, story>>

\* The transaction of addMembers counts what is committed ...
Count(p) ==
    /\ req[p].at = "count"
    /\ KeepIf(p, "enter", Cardinality(Active) + Cardinality(req[p].who) <= MaxGroupSize)
    /\ UNCHANGED <<group, joining, story>>

\* ... and adds its users.  autoApproveJoin adds its caller.
EnterGroup(p) ==
    /\ req[p].at = "enter"
    /\ Enter(IF req[p].op = "join" THEN {req[p].me} ELSE req[p].who)
    /\ Goto(p, "idle")
    /\ UNCHANGED <<role, approval, dissolved, pinned, joining, story>>

\* requestJoin of an open group deletes the caller's pending request first.
DropPending(p) ==
    LET u == req[p].me IN
    /\ req[p].at = "drop"
    /\ Delete(IF request[u].status = "PENDING" THEN {u} ELSE {})
    /\ Goto(p, "enter")
    /\ UNCHANGED <<group, lastId, vouched, admitted, doubled>>

\* requestJoin and inviteMembers put a pending request, or fail.
AskIn(p) ==
    LET r == req[p] IN
    /\ r.at = "ask"
    /\ \/ /\ Ask(IF r.op = "join" THEN r.me ELSE r.next)
          /\ Goto(p, IF r.op = "invite" /\ r.who # {} THEN "target" ELSE "idle")
       \/ Goto(p, "idle") /\ UNCHANGED joining
    /\ UNCHANGED <<group, story>>

\* Mutant: updateMany, which does not mind that the row is gone.
Bug_Approve(p) ==
    LET r == req[p] IN
    /\ r.at = "write" /\ r.op = "approve"
    /\ \E u \in r.who :
         /\ request' = [request EXCEPT ![u].status = IF request[u].id = r.rid THEN "APPROVED" ELSE @]
         /\ Enter({u}) /\ admitted' = admitted \union {r.rid}
    /\ Goto(p, "idle")
    /\ UNCHANGED <<role, approval, dissolved, pinned, lastId, vouched, withdrawn, doubled>>

\* The transaction of an approval: the update of a row that is gone throws, and
\* the member is not added.
Approve(p) ==
    LET r == req[p] IN
    /\ r.at = "write" /\ r.op = "approve"
    /\ \E u \in r.who :
         IF request[u].id = r.rid
         THEN /\ request' = [request EXCEPT ![u].status = "APPROVED"]
              /\ Enter({u}) /\ admitted' = admitted \union {r.rid}
         ELSE UNCHANGED <<request, status, admitted>>
    /\ Goto(p, "idle")
    /\ UNCHANGED <<role, approval, dissolved, pinned, lastId, vouched, withdrawn, doubled>>

Reject(p) ==
    LET r == req[p] IN
    /\ r.at = "write" /\ r.op = "reject"
    /\ \E u \in r.who :
         request' = [request EXCEPT ![u].status = IF request[u].id = r.rid THEN "REJECTED" ELSE @]
    /\ Goto(p, "idle")
    /\ UNCHANGED <<group, lastId, story>>

\* cancelJoinRequest, and the stale request of somebody who is a member: delete
\* by id, which throws when the row is gone.
DeleteRequest(p) ==
    /\ req[p].at = "delete"
    /\ Delete({u \in req[p].who : request[u].id = req[p].rid})
    /\ Goto(p, "idle")
    /\ UNCHANGED <<group, lastId, vouched, admitted, doubled>>

\* updateGroup: the switch, and the pending requests once it is off.
Switch(p) ==
    LET r == req[p] IN
    /\ r.at = "write" /\ r.op \in {"open", "close"}
    /\ approval' = (r.op = "close")
    /\ Goto(p, IF r.op = "open" /\ ~r.open THEN "clear" ELSE "idle")
    /\ UNCHANGED <<status, role, dissolved, pinned, joining, story>>

ClearPending(p) ==
    /\ req[p].at = "clear"
    /\ Delete({u \in User : request[u].status = "PENDING"})
    /\ Goto(p, "idle")
    /\ UNCHANGED <<group, lastId, vouched, admitted, doubled>>

\* The settings are stored whole, with the pins that were read.
Store(p) ==
    LET r == req[p] IN
    /\ r.at = "store"
    /\ pinned' = CASE r.op = "pin" -> r.snap \union {r.msg}
                   [] r.op = "unpin" -> r.snap \ {r.msg}
                   [] OTHER -> r.snap
    /\ Goto(p, "idle")
    /\ UNCHANGED <<status, role, approval, dissolved, joining, story>>

Dissolve(p) ==
    /\ req[p].at = "write" /\ req[p].op = "dissolve"
    /\ dissolved' = TRUE
    /\ Goto(p, "idle")
    /\ UNCHANGED <<status, role, approval, pinned, joining, story>>

-----------------------------------------------------------------------------
Look(p) ==
    \/ Group(p) \/ Request(p) \/ Verify(p) \/ Target(p) \/ AddTarget(p) \/ ReviewTarget(p)
    \/ Self(p) \/ InviteTarget(p) \/ Previous(p) \/ Settings(p)

Write(p) ==
    \/ Transfer(p) \/ Remove(p) \/ Count(p) \/ EnterGroup(p) \/ DropPending(p) \/ AskIn(p)
    \/ Approve(p) \/ Reject(p) \/ DeleteRequest(p) \/ Switch(p) \/ ClearPending(p)
    \/ Store(p) \/ Dissolve(p)

Next ==
    \E p \in Proc :
      \/ \E o \in Ops, m \in Msg : Begin(p, o[1], o[2], o[3], m)
      \/ Look(p) \/ Write(p)

Spec == Init /\ [][Next]_vars

-----------------------------------------------------------------------------
Request0 == [id : 0 .. MaxRequests, status : {"NONE", "PENDING", "APPROVED", "REJECTED"}]
Place == {"idle", "group", "request", "verify", "target", "self", "previous", "settings",
          "write", "count", "enter", "drop", "ask", "delete", "clear", "store"}
Call == [at : Place, op : OpNames, me : User, who : SUBSET User, msg : Msg, open : BOOLEAN,
         rid : 0 .. MaxRequests, next : User, snap : SUBSET Msg]

\* The types of the rows and of the calls.
TypeOK ==
    /\ status \in [User -> Status] /\ role \in [User -> {"ADMIN", "MEMBER"}]
    /\ request \in [User -> Request0] /\ lastId \in 0 .. MaxRequests
    /\ approval \in BOOLEAN /\ dissolved \in BOOLEAN /\ pinned \subseteq Msg
    /\ vouched \subseteq User
    /\ withdrawn \subseteq 0 .. MaxRequests /\ admitted \subseteq 0 .. MaxRequests
    /\ doubled \in BOOLEAN
    /\ req \in [Proc -> Call]

\* A group never loses its last administrator, and it has two only after one
\* administrator had two transfers under way at a time, each past the check of
\* its caller (nothing else demotes the caller before the write, although
\* caller and target are read in statements of their own, members leave, are
\* removed and return in between, and the rows of who left keep their role).
OneAdmin ==
    /\ \E a \in User : role[a] = "ADMIN"
    /\ ~doubled =>
         \A a, b \in User : role[a] = "ADMIN" /\ role[b] = "ADMIN" => a = b

\* Who is a member was let in: by the administrator, by a member while the group
\* was open, or by the open group itself.  The check and the write are steps
\* apart, the group may be closed between them, and a request outlives both.
EntryIsAllowed == Active \subseteq vouched

\* A request that its user cancelled, or that was cleared when the group
\* opened, makes nobody a member afterwards, although the administrator who
\* reviews it read it before: the transaction updates the row it deletes.
WithdrawnStaysOut == [][(admitted' \ admitted) \cap withdrawn = {}]_vars

\* At most MaxPinned messages are pinned.  Two calls that pin at a time read
\* the same pins, and each stores all of them.
PinLimit == Cardinality(pinned) <= MaxPinned

\* group.service.ts:322: "Cannot remove admin. Transfer admin rights first."
\* The administrator is a member.
AdminIsActive == \A u \in User : role[u] = "ADMIN" => IsMember(u)

\* group.service.ts:246: "Count inside transaction to prevent race condition".
\* Adding members leaves the group within its limit.
WithinLimit == [][Cardinality(Active') > Cardinality(Active)
                   => Cardinality(Active') <= MaxGroupSize]_vars
=============================================================================
