------------------------ MODULE GroupMembershipProofs ------------------------
(***************************************************************************)
(* Proofs about GroupMembership.  A step of a call is described once, by   *)
(* lemma Steps: it replaces one record by Idle, or by one that keeps its   *)
(* operation and its caller and is again as CallOK says.  The invariants   *)
(* of the rows follow from that and from the few actions that write them.  *)
(***************************************************************************)
EXTENDS GroupMembership, FiniteSetTheorems, TLAPS

\* Where the calls of an operation are.
Stage(c) ==
    /\ c.at = "group" => c.op \in {"add", "join", "invite"}
    /\ c.at = "request" => c.op \in {"approve", "reject", "cancel"}
    /\ c.at \in {"self", "drop"} => c.op = "join"
    /\ c.at = "count" => c.op = "add"
    /\ c.at = "enter" => c.op \in {"add", "join"}
    /\ c.at \in {"settings", "store"} => c.op \in {"pin", "unpin", "describe"}
    /\ c.at = "ask" => c.op \in {"join", "invite"}
    /\ c.at = "delete" => c.op \in {"cancel", "approve", "reject"}
    /\ c.at \in {"previous", "clear"} => c.op = "open"

\* Whom a call may still let in was vouched for, V being the users who were.
Vouched(c, V) ==
    /\ c.op = "add" /\ c.at \in {"target", "count", "enter"} => c.who \subseteq V
    /\ c.op = "approve" /\ c.at \in {"target", "write"} => c.who \subseteq V
    /\ c.op = "join" /\ (c.at \in {"drop", "enter"} \/ (c.at = "self" /\ c.open)) => c.me \in V

\* A transfer is to one other user.
OneTarget(c) ==
    c.op = "transfer" /\ c.at # "idle" => \E v \in User \ {c.me} : c.who = {v}

FewPins(S) == IsFiniteSet(S) /\ Cardinality(S) \in Nat /\ Cardinality(S) <= MaxPinned

\* What a call is about to store leaves the pins within their limit.
Snap(c) ==
    c.at = "store" => FewPins(c.snap) /\ (c.op = "pin" => Cardinality(c.snap) < MaxPinned)

CallOK(c, V) == Stage(c) /\ Vouched(c, V) /\ OneTarget(c) /\ Snap(c)

Inv ==
    /\ TypeOK
    /\ \A p \in Proc : CallOK(req[p], vouched)
    /\ FewPins(pinned)
    /\ EntryIsAllowed

\* What a step does to the record of its call.
Keeps(c, r) ==
    /\ c.op = r.op /\ c.me = r.me /\ c.at # "idle"
    /\ r.op = "transfer" => /\ c.at = "write" => r.at = "target"
                            /\ c.at = "target" => r.at = "verify" /\ IsAdmin(r.me)
StepForm(p) ==
    \E c \in Call :
      /\ req' = [req EXCEPT ![p] = c] /\ req[p].at # "idle"
      /\ CallOK(c, vouched')
      /\ c = Idle \/ Keeps(c, req[p])

-----------------------------------------------------------------------------
LEMMA IdleCall == Idle \in Call /\ Idle.at = "idle" /\ Idle.op = "join" /\ \A V : CallOK(Idle, V)
<1>1. Admin \in User /\ AnyMsg \in Msg
  BY UserAssumption DEF AnyMsg
<1>2. 0 \in 0 .. MaxRequests
  BY BoundAssumption
<1>3. Idle \in Call /\ Idle.at = "idle" /\ Idle.op = "join"
  BY <1>1, <1>2 DEF Idle, Call, Place, OpNames
<1>4. ASSUME NEW V PROVE CallOK(Idle, V)
  BY <1>3 DEF CallOK, Stage, Vouched, OneTarget, Snap, Idle
<1> QED
  BY <1>3, <1>4

LEMMA GotoIdle ==
  ASSUME TypeOK, NEW p \in Proc, req[p].at # "idle", Goto(p, "idle")
  PROVE  StepForm(p)
BY IdleCall DEF Goto, StepForm

\* A step to another place keeps everything else of the record.
LEMMA GotoForm ==
  ASSUME TypeOK, NEW p \in Proc, NEW l \in Place, req[p].at # "idle", Goto(p, l),
         ASSUME NEW c \in Call, c.at = l, l # "idle", c.op = req[p].op, c.me = req[p].me,
                c.who = req[p].who, c.open = req[p].open, c.snap = req[p].snap
         PROVE  CallOK(c, vouched') /\ Keeps(c, req[p])
  PROVE  StepForm(p)
<1> DEFINE c == [req[p] EXCEPT !.at = l]
<1>1. CASE l = "idle"
  BY <1>1, GotoIdle
<1>2. CASE l # "idle"
  <2>1. req[p] \in Call
    BY DEF TypeOK
  <2>2. req' = [req EXCEPT ![p] = c]
    BY <1>2 DEF Goto, TypeOK
  <2>3. /\ c \in Call /\ c.at = l /\ c.op = req[p].op /\ c.me = req[p].me
        /\ c.who = req[p].who /\ c.open = req[p].open /\ c.snap = req[p].snap
    BY <2>1 DEF Call
  <2> HIDE DEF c
  <2>4. CallOK(c, vouched') /\ Keeps(c, req[p])
    BY <1>2, <2>3
  <2> QED
    BY <2>2, <2>3, <2>4 DEF StepForm
<1> QED
  BY <1>1, <1>2

\* The actions that end the call.
Ends(p) ==
    \/ Transfer(p) \/ Remove(p) \/ EnterGroup(p) \/ Approve(p) \/ Reject(p)
    \/ DeleteRequest(p) \/ ClearPending(p) \/ Store(p) \/ Dissolve(p)

LEMMA EndsForm ==
  ASSUME Inv, NEW p \in Proc, Ends(p)
  PROVE  StepForm(p) /\ vouched' = vouched
<1>1. req[p].at # "idle" /\ vouched' = vouched /\ Goto(p, "idle")
  BY DEF Ends, Transfer, Remove, EnterGroup, Approve, Reject, DeleteRequest, ClearPending,
         Store, Dissolve, story
<1> QED
  BY <1>1, GotoIdle DEF Inv

LEMMA GroupForm ==
  ASSUME Inv, NEW p \in Proc, Group(p)
  PROVE  StepForm(p) /\ vouched \subseteq vouched'
<1> DEFINE r == req[p]
<1>0. r \in Call /\ CallOK(r, vouched) /\ TypeOK /\ r.at = "group"
  BY DEF Inv, TypeOK, Group
<1>1. CASE Goto(p, "idle")
  BY <1>0, <1>1, GotoIdle DEF Group
<1>2. CASE ~Goto(p, "idle")
  <2> DEFINE c == [r EXCEPT !.open = ~approval, !.at = IF r.op = "join" THEN "self" ELSE "verify"]
  <2>1. req' = [req EXCEPT ![p] = c]
    BY <1>0, <1>2 DEF Group, TypeOK
  <2>2. c \in Call /\ c.op = r.op /\ c.me = r.me /\ c.who = r.who /\ c.open = ~approval
        /\ c.at = IF r.op = "join" THEN "self" ELSE "verify"
    BY <1>0 DEF TypeOK, Call, Place
  <2>3. r.op = "join" /\ ~approval => r.me \in vouched'
    BY <1>2 DEF Group
  <2> HIDE DEF c
  <2>4. c.op = "join" /\ c.open => c.me \in vouched'
    <3>1. CASE approval = TRUE
      BY <2>2, <3>1
    <3>2. CASE approval = FALSE
      BY <2>2, <2>3, <3>2
    <3> QED
      BY <1>0, <3>1, <3>2 DEF TypeOK
  <2>5. CallOK(c, vouched') /\ Keeps(c, r)
    <3>1. r.op \in {"add", "join", "invite"}
      BY <1>0 DEF CallOK, Stage
    <3>2. CASE r.op = "join"
      BY <2>2, <2>4, <3>2 DEF CallOK, Stage, Vouched, OneTarget, Snap, Keeps
    <3>3. CASE r.op # "join"
      BY <2>2, <3>1, <3>3 DEF CallOK, Stage, Vouched, OneTarget, Snap, Keeps
    <3> QED
      BY <3>2, <3>3
  <2>6. vouched \subseteq vouched'
    BY DEF Group
  <2> QED
    BY <1>0, <2>1, <2>2, <2>5, <2>6 DEF StepForm
<1> QED
  BY <1>1, <1>2

LEMMA RequestForm ==
  ASSUME Inv, NEW p \in Proc, Request(p)
  PROVE  StepForm(p) /\ vouched' = vouched
<1> DEFINE r == req[p]
<1>0. r \in Call /\ CallOK(r, vouched) /\ TypeOK /\ r.at = "request" /\ vouched' = vouched
  BY DEF Inv, TypeOK, Request, story
<1>1. CASE Goto(p, "idle")
  BY <1>0, <1>1, GotoIdle
<1>2. CASE ~Goto(p, "idle")
  <2>0. (IF r.op = "cancel" THEN {r.me} ELSE r.who) \subseteq User
    BY <1>0 DEF Call
  <2>1. PICK u \in User : req' = [req EXCEPT ![p].rid = request[u].id, ![p].who = {u},
                                  ![p].at = IF r.op = "cancel" THEN "delete" ELSE "verify"]
    <3>1. PICK u \in (IF r.op = "cancel" THEN {r.me} ELSE r.who) :
            IF request[u].status # "PENDING"
            THEN Goto(p, "idle")
            ELSE req' = [req EXCEPT ![p].rid = request[u].id, ![p].who = {u},
                             ![p].at = IF r.op = "cancel" THEN "delete" ELSE "verify"]
      BY Zenon DEF Request
    <3> QED
      BY <1>2, <2>0, <3>1, Zenon
  <2> DEFINE c == [r EXCEPT !.rid = request[u].id, !.who = {u},
                            !.at = IF r.op = "cancel" THEN "delete" ELSE "verify"]
  <2>2. req' = [req EXCEPT ![p] = c]
    BY <1>0, <2>1 DEF TypeOK
  <2>3. request[u].id \in 0 .. MaxRequests
    BY <1>0 DEF TypeOK, Request0
  <2>4. c \in Call /\ c.op = r.op /\ c.me = r.me
        /\ c.at = IF r.op = "cancel" THEN "delete" ELSE "verify"
    BY <1>0, <2>3 DEF Call, Place
  <2>5. r.op \in {"approve", "reject", "cancel"}
    BY <1>0 DEF CallOK, Stage
  <2>6. CallOK(c, vouched') /\ Keeps(c, r)
    BY <2>4, <2>5 DEF CallOK, Stage, Vouched, OneTarget, Snap, Keeps
  <2> HIDE DEF c
  <2> QED
    BY <1>0, <2>2, <2>4, <2>6 DEF StepForm
<1> QED
  BY <1>1, <1>2

LEMMA VerifyForm ==
  ASSUME Inv, NEW p \in Proc, Verify(p)
  PROVE  StepForm(p) /\ vouched \subseteq vouched'
<1> DEFINE r == req[p]
<1>0. r \in Call /\ CallOK(r, vouched) /\ TypeOK /\ r.at = "verify" /\ vouched \subseteq vouched'
  BY DEF Inv, TypeOK, Verify
<1>1. CASE Goto(p, "idle")
  BY <1>0, <1>1, GotoIdle
<1>2. CASE ~Goto(p, "idle")
  <2>1. May(p) /\ Goto(p, AfterVerify(r.op))
    BY <1>2 DEF Verify, KeepIf
  <2>2. AfterVerify(r.op) \in Place \ {"idle"}
    BY DEF AfterVerify, Place
  <2>3. r.op \in {"add", "approve"} => r.who \subseteq vouched'
    BY <2>1 DEF Verify, May, AdminOps
  <2>4. ASSUME NEW c \in Call, c.at = AfterVerify(r.op), c.op = r.op, c.me = r.me,
               c.who = r.who, c.open = r.open, c.snap = r.snap
        PROVE  CallOK(c, vouched') /\ Keeps(c, r)
    <3>1. r.op = "transfer" => IsAdmin(r.me)
      BY <2>1 DEF May, AdminOps
    <3>2. CallOK(c, vouched')
      BY <1>0, <2>3, <2>4 DEF CallOK, Stage, Vouched, OneTarget, Snap, AfterVerify
    <3>3. Keeps(c, r)
      BY <1>0, <2>4, <3>1 DEF Keeps, AfterVerify
    <3> QED
      BY <3>2, <3>3
  <2> QED
    BY <1>0, <2>1, <2>2, <2>4, GotoForm
<1> QED
  BY <1>1, <1>2

\* The steps between a check and a write, of calls that let nobody in.
LEMMA PlainForm ==
  ASSUME Inv, NEW p \in Proc, Target(p) \/ Self(p) \/ DropPending(p) \/ Switch(p) \/ Count(p)
                              \/ ReviewTarget(p)
  PROVE  StepForm(p) /\ vouched' = vouched
<1> DEFINE r == req[p]
<1>0. r \in Call /\ CallOK(r, vouched) /\ TypeOK /\ r.at # "idle" /\ vouched' = vouched
  BY DEF Inv, TypeOK, Target, Self, DropPending, Switch, Count, ReviewTarget, story
<1>1. PICK l \in Place : Goto(p, l) /\
        \/ l = "idle"
        \/ r.at = "target" /\ r.op \in {"transfer", "remove"} /\ l = "write"
        \/ r.at = "target" /\ r.op \in {"approve", "reject"} /\ l \in {"delete", "write"}
        \/ r.at = "self" /\ ((l \in {"drop", "enter"} /\ r.open) \/ l = "ask")
        \/ r.at = "drop" /\ l = "enter"
        \/ r.at = "count" /\ l = "enter"
        \/ r.op = "open" /\ l = "clear"
  BY DEF Target, Self, DropPending, Switch, Count, ReviewTarget, KeepIf, Place
<1>2. ASSUME NEW c \in Call, c.at = l, l # "idle", c.op = r.op, c.me = r.me,
             c.who = r.who, c.open = r.open, c.snap = r.snap
      PROVE  CallOK(c, vouched') /\ Keeps(c, r)
  <2>1. Stage(r) /\ Vouched(r, vouched) /\ OneTarget(r)
    BY <1>0 DEF CallOK
  <2>2. Stage(c) /\ Vouched(c, vouched')
    BY <1>0, <1>1, <1>2, <2>1 DEF Stage, Vouched
  <2>3. OneTarget(c) /\ Snap(c) /\ Keeps(c, r)
    BY <1>0, <1>1, <1>2, <2>1 DEF OneTarget, Snap, Keeps
  <2> QED
    BY <2>2, <2>3 DEF CallOK
<1> QED
  BY <1>0, <1>1, <1>2, GotoForm

LEMMA AddTargetForm ==
  ASSUME Inv, NEW p \in Proc, AddTarget(p)
  PROVE  StepForm(p) /\ vouched' = vouched
<1> DEFINE r == req[p]
           new == {u \in r.who : ~IsMember(u)}
           c == [r EXCEPT !.who = new, !.at = "count"]
<1>0. r \in Call /\ CallOK(r, vouched) /\ TypeOK /\ vouched' = vouched
      /\ r.at = "target" /\ r.op = "add"
  BY DEF Inv, TypeOK, AddTarget, story
<1>1. CASE Goto(p, "idle")
  BY <1>0, <1>1, GotoIdle
<1>2. CASE ~Goto(p, "idle")
  <2>1. req' = [req EXCEPT ![p] = c]
    BY <1>0, <1>2 DEF AddTarget, TypeOK
  <2>2. c \in Call /\ c.op = r.op /\ c.me = r.me /\ c.at = "count" /\ c.who \subseteq r.who
    BY <1>0 DEF Call, Place
  <2> HIDE DEF c
  <2>3. CallOK(c, vouched') /\ Keeps(c, r)
    BY <1>0, <2>2 DEF CallOK, Stage, Vouched, OneTarget, Snap, Keeps
  <2> QED
    BY <1>0, <2>1, <2>2, <2>3 DEF StepForm
<1> QED
  BY <1>1, <1>2

LEMMA InviteForm ==
  ASSUME Inv, NEW p \in Proc, InviteTarget(p) \/ AskIn(p)
  PROVE  StepForm(p) /\ vouched' = vouched
<1> DEFINE r == req[p]
<1>0. r \in Call /\ CallOK(r, vouched) /\ TypeOK /\ vouched' = vouched /\ r.at # "idle"
  BY DEF Inv, TypeOK, InviteTarget, AskIn, story
<1>1. ASSUME NEW c \in Call, c.op = r.op, c.me = r.me, c.at \in {"target", "ask"},
             r.op \in {"join", "invite"}, c.at = "target" => r.op = "invite"
      PROVE  CallOK(c, vouched') /\ Keeps(c, r)
  BY <1>0, <1>1 DEF CallOK, Stage, Vouched, OneTarget, Snap, Keeps
<1>2. CASE Goto(p, "idle")
  BY <1>0, <1>2, GotoIdle
<1>3. CASE InviteTarget(p) /\ ~Goto(p, "idle")
  <2>0. r.who \subseteq User /\ r.op = "invite" /\ r.at = "target"
    BY <1>0, <1>3 DEF Call, InviteTarget
  <2>1. PICK u \in r.who : \/ req' = [req EXCEPT ![p].who = r.who \ {u}]
                           \/ req' = [req EXCEPT ![p].at = "ask", ![p].next = u,
                                                 ![p].who = r.who \ {u}]
    BY <1>3, Zenon DEF InviteTarget
  <2>2. CASE req' = [req EXCEPT ![p].who = r.who \ {u}]
    <3> DEFINE c == [r EXCEPT !.who = r.who \ {u}]
    <3>1. req' = [req EXCEPT ![p] = c]
      BY <1>0, <2>2 DEF TypeOK
    <3>2. c \in Call /\ c.op = r.op /\ c.me = r.me /\ c.at = "target"
      BY <1>0, <2>0 DEF Call
    <3> QED
      BY <1>0, <1>1, <2>0, <3>1, <3>2 DEF StepForm
  <2>3. CASE req' = [req EXCEPT ![p].at = "ask", ![p].next = u, ![p].who = r.who \ {u}]
    <3> DEFINE c == [r EXCEPT !.at = "ask", !.next = u, !.who = r.who \ {u}]
    <3>1. req' = [req EXCEPT ![p] = c]
      BY <1>0, <2>3 DEF TypeOK
    <3>2. c \in Call /\ c.op = r.op /\ c.me = r.me /\ c.at = "ask"
      BY <1>0, <2>0 DEF Call, Place
    <3> QED
      BY <1>0, <1>1, <2>0, <3>1, <3>2 DEF StepForm
  <2> QED
    BY <2>1, <2>2, <2>3
<1>4. CASE AskIn(p) /\ ~Goto(p, "idle")
  <2>1. r.op = "invite" /\ Goto(p, "target")
    BY <1>4 DEF AskIn
  <2> QED
    BY <1>0, <1>1, <2>1, GotoForm DEF Place
<1> QED
  BY <1>2, <1>3, <1>4

LEMMA ReadForm ==
  ASSUME Inv, NEW p \in Proc, Previous(p) \/ Settings(p)
  PROVE  StepForm(p) /\ vouched' = vouched
<1> DEFINE r == req[p]
<1>0. r \in Call /\ CallOK(r, vouched) /\ TypeOK /\ vouched' = vouched /\ r.at # "idle"
  BY DEF Inv, TypeOK, Previous, Settings, story
<1>1. CASE Goto(p, "idle")
  BY <1>0, <1>1, GotoIdle
<1>2. CASE Previous(p)
  <2> DEFINE c == [r EXCEPT !.open = ~approval, !.at = "write"]
  <2>1. req' = [req EXCEPT ![p] = c]
    BY <1>0, <1>2 DEF Previous, TypeOK
  <2>2. c \in Call /\ c.op = r.op /\ c.me = r.me /\ c.at = "write"
    BY <1>0 DEF Call, Place, TypeOK
  <2>3. r.op = "open"
    BY <1>0, <1>2 DEF Previous, CallOK, Stage
  <2> HIDE DEF c
  <2>4. CallOK(c, vouched') /\ Keeps(c, r)
    BY <2>2, <2>3 DEF CallOK, Stage, Vouched, OneTarget, Snap, Keeps
  <2> QED
    BY <1>0, <2>1, <2>2, <2>4 DEF StepForm
<1>3. CASE Settings(p) /\ ~Goto(p, "idle")
  <2> DEFINE c == [r EXCEPT !.snap = pinned, !.at = "store"]
  <2>1. req' = [req EXCEPT ![p] = c]
    BY <1>0, <1>3 DEF Settings, TypeOK
  <2>2. c \in Call /\ c.op = r.op /\ c.me = r.me /\ c.at = "store" /\ c.snap = pinned
    BY <1>0 DEF Call, Place, TypeOK
  <2>3. r.op \in {"pin", "unpin", "describe"}
    BY <1>0, <1>3 DEF Settings, CallOK, Stage
  <2>4. FewPins(pinned) /\ (r.op = "pin" => ~(Cardinality(pinned) >= MaxPinned))
    BY <1>3 DEF Settings, Inv
  <2> HIDE DEF c
  <2>5. Snap(c)
    BY <2>2, <2>4, BoundAssumption DEF Snap, FewPins
  <2>6. CallOK(c, vouched') /\ Keeps(c, r)
    BY <2>2, <2>3, <2>5 DEF CallOK, Stage, Vouched, OneTarget, Keeps
  <2> QED
    BY <1>0, <2>1, <2>2, <2>6 DEF StepForm
<1> QED
  BY <1>1, <1>2, <1>3

LEMMA Steps ==
  ASSUME Inv, NEW p \in Proc, Look(p) \/ Write(p)
  PROVE  StepForm(p) /\ vouched \subseteq vouched'
BY GroupForm, RequestForm, VerifyForm, PlainForm, AddTargetForm, InviteForm, ReadForm, EndsForm
   DEF Look, Write, Ends

LEMMA BeginForm ==
  ASSUME Inv, NEW p \in Proc, NEW o \in Ops, NEW m \in Msg, Begin(p, o[1], o[2], o[3], m)
  PROVE  \E c \in Call : /\ req' = [req EXCEPT ![p] = c] /\ req[p].at = "idle"
                         /\ CallOK(c, vouched') /\ c.at \in {"group", "request", "verify"}
                         /\ c.op = o[1] /\ c.me = o[2]
<1> DEFINE c == [Idle EXCEPT !.at = First(o[1]), !.op = o[1], !.me = o[2], !.who = o[3], !.msg = m]
<1>1. o[1] \in OpNames /\ o[2] \in User /\ o[3] \subseteq User
  BY OpsAssumption
<1>2. First(o[1]) \in {"group", "request", "verify"}
  BY DEF First
<1>3. c \in Call /\ c.at = First(o[1]) /\ c.op = o[1] /\ c.me = o[2] /\ c.who = o[3]
  BY IdleCall, <1>1, <1>2 DEF Call, Place
<1>4. req' = [req EXCEPT ![p] = c] /\ req[p].at = "idle" /\ (o[1] = "transfer" => o[2] \notin o[3])
  BY DEF Begin
<1> HIDE DEF c
<1>5. o[1] = "transfer" => \E v \in User \ {o[2]} : o[3] = {v}
  BY <1>4, OpsAssumption
<1>6. CallOK(c, vouched')
  BY <1>2, <1>3, <1>5 DEF CallOK, Stage, Vouched, OneTarget, Snap, First
<1> QED
  BY <1>2, <1>3, <1>4, <1>6

-----------------------------------------------------------------------------
(* The rows.                                                                 *)

RowsOK ==
    /\ status \in [User -> Status] /\ role \in [User -> {"ADMIN", "MEMBER"}]
    /\ request \in [User -> Request0] /\ lastId \in 0 .. MaxRequests
    /\ approval \in BOOLEAN /\ dissolved \in BOOLEAN /\ pinned \subseteq Msg
    /\ vouched \subseteq User
    /\ withdrawn \subseteq 0 .. MaxRequests /\ admitted \subseteq 0 .. MaxRequests
    /\ doubled \in BOOLEAN

LEMMA DeleteRows ==
  ASSUME RowsOK, NEW S \in SUBSET User, Delete(S)
  PROVE  request' \in [User -> Request0] /\ withdrawn' \subseteq 0 .. MaxRequests
<1>1. \A u \in User : request[u].id \in 0 .. MaxRequests
  BY DEF RowsOK, Request0
<1>2. NoRow \in Request0
  BY BoundAssumption DEF NoRow, Request0
<1>3. request' \in [User -> Request0]
  BY <1>2 DEF Delete, RowsOK
<1> QED
  BY <1>1, <1>3 DEF Delete, RowsOK

LEMMA DeleteSteps ==
  ASSUME Inv, NEW p \in Proc, DropPending(p) \/ DeleteRequest(p) \/ ClearPending(p)
  PROVE  /\ \E S \in SUBSET User : Delete(S)
         /\ UNCHANGED <<group, lastId, vouched, admitted, doubled>>
<1>1. req[p].who \subseteq User /\ req[p].me \in User
  BY DEF Inv, TypeOK, Call
<1>2. CASE DropPending(p)
  BY <1>1, <1>2 DEF DropPending
<1>3. CASE DeleteRequest(p)
  BY <1>1, <1>3 DEF DeleteRequest
<1>4. CASE ClearPending(p)
  BY <1>4 DEF ClearPending
<1> QED
  BY <1>2, <1>3, <1>4

\* The steps that write no row at all.
Reads(p) ==
    \/ Request(p) \/ Target(p) \/ AddTarget(p) \/ ReviewTarget(p) \/ Self(p)
    \/ InviteTarget(p) \/ Previous(p) \/ Settings(p) \/ Count(p)

LEMMA ReadsFrame ==
  ASSUME NEW p \in Proc, Reads(p)
  PROVE  UNCHANGED <<group, joining, story>>
BY DEF Reads, Request, Target, AddTarget, ReviewTarget, Self, InviteTarget, Previous, Settings, Count

LEMMA Rows ==
  ASSUME Inv, NEW p \in Proc, Look(p) \/ Write(p)
  PROVE  RowsOK'
<1> DEFINE r == req[p]
<1> USE DEF group, joining, story
<1>0. RowsOK /\ r \in Call
  BY DEF Inv, TypeOK, RowsOK
<1>1. r.who \subseteq User /\ r.me \in User /\ r.next \in User /\ r.snap \subseteq Msg
      /\ r.msg \in Msg /\ r.rid \in 0 .. MaxRequests
  BY <1>0 DEF Call
<1>2. CASE Reads(p)
  BY <1>0, <1>2, ReadsFrame DEF RowsOK
<1>3. CASE Group(p)
  BY <1>0, <1>1, <1>3 DEF RowsOK, Group
<1>4. CASE Verify(p)
  BY <1>0, <1>1, <1>4 DEF RowsOK, Verify
<1>5. CASE Transfer(p)
  <2>1. role' \in [User -> {"ADMIN", "MEMBER"}]
    BY <1>0, <1>5 DEF RowsOK, Transfer
  <2> QED
    BY <1>0, <1>5, <2>1 DEF RowsOK, Transfer
<1>6. CASE Remove(p)
  <2>1. status' \in [User -> Status]
    BY <1>0, <1>6 DEF RowsOK, Remove, Status
  <2> QED
    BY <1>0, <1>6, <2>1 DEF RowsOK, Remove
<1>7. CASE EnterGroup(p)
  <2>1. status' \in [User -> Status]
    BY <1>0, <1>7 DEF RowsOK, EnterGroup, Enter, Status
  <2> QED
    BY <1>0, <1>7, <2>1 DEF RowsOK, EnterGroup
<1>8. CASE AskIn(p)
  <2>1. CASE UNCHANGED joining
    BY <1>0, <1>8, <2>1 DEF RowsOK, AskIn
  <2>2. CASE ~UNCHANGED joining
    <3>1. PICK u \in User : Ask(u)
      BY <1>1, <1>8, <2>2 DEF AskIn
    <3>2. lastId' \in 0 .. MaxRequests
      BY <1>0, <3>1, BoundAssumption DEF Ask, RowsOK
    <3>3. request[u].id \in 0 .. MaxRequests /\ (request[u].id = 0 => lastId + 1 \in 0 .. MaxRequests)
      BY <1>0, <3>1, BoundAssumption DEF Ask, RowsOK, Request0
    <3>4. request' \in [User -> Request0]
      <4> DEFINE new == [id |-> IF request[u].id = 0 THEN lastId + 1 ELSE request[u].id,
                         status |-> "PENDING"]
      <4>1. new \in Request0
        BY <3>3 DEF Request0
      <4>2. request' = [request EXCEPT ![u] = new]
        BY <3>1 DEF Ask
      <4> QED
        BY <1>0, <4>1, <4>2 DEF RowsOK
    <3> QED
      BY <1>0, <1>8, <3>2, <3>4 DEF RowsOK, AskIn
  <2> QED
    BY <2>1, <2>2
<1>9. CASE Approve(p) \/ Reject(p)
  <2>1. request' \in [User -> Request0]
    <3>1. \A u \in User : request[u] \in Request0
      BY <1>0 DEF RowsOK
    <3>2. ASSUME NEW u \in User, NEW s \in {"NONE", "PENDING", "APPROVED", "REJECTED"}
          PROVE  [request EXCEPT ![u] = [request[u] EXCEPT !.status = s]] \in [User -> Request0]
      <4>1. [request[u] EXCEPT !.status = s] \in Request0
        BY <3>1 DEF Request0
      <4> QED
        BY <1>0, <4>1 DEF RowsOK
    <3>3. CASE Approve(p)
      <4>1. PICK u \in User : \/ request' = request
                             \/ request' = [request EXCEPT ![u].status = "APPROVED"]
        BY <1>1, <3>3 DEF Approve
      <4> QED
        BY <1>0, <3>2, <4>1 DEF RowsOK
    <3>4. CASE Reject(p)
      <4>1. PICK u \in User : request' =
              [request EXCEPT ![u].status = IF request[u].id = r.rid THEN "REJECTED" ELSE @]
        BY <1>1, <3>4 DEF Reject
      <4>2. (IF request[u].id = r.rid THEN "REJECTED" ELSE request[u].status)
              \in {"NONE", "PENDING", "APPROVED", "REJECTED"}
        BY <3>1 DEF Request0
      <4> QED
        BY <1>0, <3>2, <4>1, <4>2 DEF RowsOK
    <3> QED
      BY <1>9, <3>3, <3>4
  <2>2. status' \in [User -> Status]
    BY <1>0, <1>1, <1>9 DEF RowsOK, Approve, Reject, Enter, Status
  <2>3. admitted' \subseteq 0 .. MaxRequests
    BY <1>0, <1>1, <1>9 DEF RowsOK, Approve, Reject
  <2> QED
    BY <1>0, <1>9, <2>1, <2>2, <2>3 DEF RowsOK, Approve, Reject
<1>10. CASE DropPending(p) \/ DeleteRequest(p) \/ ClearPending(p)
  BY <1>0, <1>10, DeleteSteps, DeleteRows DEF RowsOK
<1>11. CASE Switch(p)
  BY <1>0, <1>11 DEF RowsOK, Switch
<1>12. CASE Store(p)
  BY <1>0, <1>1, <1>12 DEF RowsOK, Store
<1>13. CASE Dissolve(p)
  BY <1>0, <1>13 DEF RowsOK, Dissolve
<1> QED
  BY <1>2, <1>3, <1>4, <1>5, <1>6, <1>7, <1>8, <1>9, <1>10, <1>11, <1>12, <1>13
     DEF Look, Write, Reads

\* The members and the pins, from what the calls were allowed to do.
LEMMA EntryStep ==
  ASSUME Inv, NEW p \in Proc, Look(p) \/ Write(p)
  PROVE  EntryIsAllowed'
<1> DEFINE r == req[p]
<1>0. r \in Call /\ CallOK(r, vouched) /\ vouched \subseteq vouched' /\ Active \subseteq vouched
  BY Steps DEF Inv, TypeOK, EntryIsAllowed
<1>1. ASSUME NEW S \in SUBSET vouched, Enter(S) PROVE EntryIsAllowed'
  BY <1>0, <1>1 DEF Enter, EntryIsAllowed, Active, IsMember
<1>2. CASE Remove(p)
  BY <1>0, <1>2 DEF Remove, EntryIsAllowed, Active, IsMember
<1>3. CASE EnterGroup(p)
  <2>1. (IF r.op = "join" THEN {r.me} ELSE r.who) \subseteq vouched
    <3>1. r.at = "enter"
      BY <1>3 DEF EnterGroup
    <3>2. Stage(r) /\ Vouched(r, vouched)
      BY <1>0 DEF CallOK
    <3>3. CASE r.op = "join"
      BY <3>1, <3>2, <3>3 DEF Vouched
    <3>4. CASE r.op = "add"
      BY <3>1, <3>2, <3>4 DEF Vouched
    <3> QED
      BY <3>1, <3>2, <3>3, <3>4 DEF Stage
  <2>2. Enter(IF r.op = "join" THEN {r.me} ELSE r.who)
    BY <1>3 DEF EnterGroup
  <2> QED
    BY <1>1, <2>1, <2>2
<1>4. CASE Approve(p)
  <2>1. r.who \subseteq vouched
    BY <1>0, <1>4 DEF Approve, CallOK, Vouched
  <2>2. UNCHANGED status \/ \E u \in r.who : Enter({u})
    BY <1>4 DEF Approve
  <2>3. CASE UNCHANGED status
    BY <1>0, <2>3 DEF EntryIsAllowed, Active, IsMember
  <2> QED
    BY <1>1, <2>1, <2>2, <2>3
<1>5. CASE ~(Remove(p) \/ EnterGroup(p) \/ Approve(p))
  <2>1. status' = status
    BY <1>5, ReadsFrame, DeleteSteps
       DEF Look, Write, Reads, group, Group, Verify, Transfer, AskIn, Reject, Switch, Store, Dissolve
  <2> QED
    BY <1>0, <2>1 DEF EntryIsAllowed, Active, IsMember
<1> QED
  BY <1>2, <1>3, <1>4, <1>5

LEMMA PinStep ==
  ASSUME Inv, NEW p \in Proc, Look(p) \/ Write(p)
  PROVE  FewPins(pinned')
<1> DEFINE r == req[p]
<1>0. r \in Call /\ CallOK(r, vouched) /\ FewPins(pinned)
  BY DEF Inv, TypeOK
<1>1. CASE Store(p)
  <2>1. FewPins(r.snap) /\ (r.op = "pin" => Cardinality(r.snap) < MaxPinned)
    BY <1>0, <1>1 DEF Store, CallOK, Snap
  <2>2. CASE r.op = "pin"
    <3>1. pinned' = r.snap \union {r.msg}
      BY <1>1, <2>2 DEF Store
    <3>2. IsFiniteSet(pinned') /\ Cardinality(pinned') \in {Cardinality(r.snap), Cardinality(r.snap) + 1}
      BY <2>1, <3>1, FS_AddElement DEF FewPins
    <3> QED
      BY <2>1, <2>2, <3>2, BoundAssumption DEF FewPins
  <2>3. CASE r.op = "unpin"
    <3>1. pinned' = r.snap \ {r.msg}
      BY <1>1, <2>3 DEF Store
    <3>2. IsFiniteSet(pinned') /\ Cardinality(pinned') \in {Cardinality(r.snap), Cardinality(r.snap) - 1}
      BY <2>1, <3>1, FS_RemoveElement DEF FewPins
    <3>3. Cardinality(pinned') \in Nat
      BY <3>2, FS_CardinalityType
    <3> QED
      BY <2>1, <3>2, <3>3, BoundAssumption DEF FewPins
  <2>4. CASE r.op \notin {"pin", "unpin"}
    BY <1>1, <2>1, <2>4 DEF Store
  <2> QED
    BY <2>2, <2>3, <2>4
<1>2. CASE ~Store(p)
  <2>1. pinned' = pinned
    BY <1>2, ReadsFrame, DeleteSteps
       DEF Look, Write, Reads, group, Group, Verify, Transfer, Remove, EnterGroup, AskIn, Approve,
           Reject, Switch, Dissolve
  <2> QED
    BY <1>0, <2>1
<1> QED
  BY <1>1, <1>2

LEMMA Initial == Init => Inv
<1> SUFFICES ASSUME Init PROVE Inv
  OBVIOUS
<1>1. TypeOK
  <2>1. Admin \in User /\ Founders \subseteq User /\ 0 \in 0 .. MaxRequests
    BY UserAssumption, BoundAssumption
  <2>2. NoRow \in Request0
    BY <2>1 DEF NoRow, Request0
  <2>3. req \in [Proc -> Call]
    BY IdleCall DEF Init
  <2> QED
    BY <2>1, <2>2, <2>3 DEF Init, TypeOK, Status
<1>2. \A p \in Proc : CallOK(req[p], vouched)
  BY IdleCall DEF Init
<1>3. FewPins(pinned)
  BY FS_EmptySet, BoundAssumption DEF Init, FewPins
<1>4. EntryIsAllowed
  BY DEF Init, EntryIsAllowed, Active, IsMember
<1> QED
  BY <1>1, <1>2, <1>3, <1>4 DEF Inv

\* What a call may still do does not depend on the calls of others.
LEMMA CallsStep ==
  ASSUME Inv, NEW p \in Proc, NEW c \in Call, req' = [req EXCEPT ![p] = c], CallOK(c, vouched'),
         vouched \subseteq vouched'
  PROVE  req' \in [Proc -> Call] /\ \A q \in Proc : CallOK(req'[q], vouched')
<1>1. \A q \in Proc : CallOK(req[q], vouched')
  BY DEF Inv, CallOK, Vouched
<1> QED
  BY <1>1 DEF Inv, TypeOK

LEMMA Inductive == Inv /\ [Next]_vars => Inv'
<1> SUFFICES ASSUME Inv, [Next]_vars PROVE Inv'
  OBVIOUS
<1>1. ASSUME NEW p \in Proc, Look(p) \/ Write(p) PROVE Inv'
  <2>1. PICK c \in Call : req' = [req EXCEPT ![p] = c] /\ CallOK(c, vouched')
    BY <1>1, Steps DEF StepForm
  <2>2. req' \in [Proc -> Call] /\ \A q \in Proc : CallOK(req'[q], vouched')
    BY <1>1, <2>1, Steps, CallsStep
  <2>3. RowsOK' /\ EntryIsAllowed' /\ FewPins(pinned')
    BY <1>1, Rows, EntryStep, PinStep
  <2> QED
    BY <2>2, <2>3 DEF Inv, TypeOK, RowsOK
<1>2. ASSUME NEW p \in Proc, NEW o \in Ops, NEW m \in Msg, Begin(p, o[1], o[2], o[3], m) PROVE Inv'
  <2>1. PICK c \in Call : req' = [req EXCEPT ![p] = c] /\ CallOK(c, vouched')
    BY <1>2, BeginForm
  <2>2. UNCHANGED <<group, joining, story>>
    BY <1>2 DEF Begin
  <2>3. req' \in [Proc -> Call] /\ \A q \in Proc : CallOK(req'[q], vouched')
    BY <2>1, <2>2, CallsStep DEF story
  <2> QED
    BY <2>2, <2>3 DEF Inv, TypeOK, EntryIsAllowed, Active, IsMember, group, joining, story
<1>3. CASE UNCHANGED vars
  BY <1>3 DEF Inv, TypeOK, EntryIsAllowed, Active, IsMember, vars, group, joining, story
<1> QED
  BY <1>1, <1>2, <1>3 DEF Next

LEMMA Invariant == Spec => []Inv
BY Initial, Inductive, PTL DEF Spec

\* The types of the rows and of the calls, for every number of users and calls.
THEOREM TypeCorrect == Spec => []TypeOK
<1>1. Inv => TypeOK
  BY DEF Inv
<1> QED
  BY Invariant, <1>1, PTL

\* Whoever is a member was let in: what a call checked is not lost between its
\* check and its write, whatever the other calls do.
THEOREM EntryAllowed == Spec => []EntryIsAllowed
<1>1. Inv => EntryIsAllowed
  BY DEF Inv
<1> QED
  BY Invariant, <1>1, PTL

\* The limit on pins holds although every store overwrites what it read.
THEOREM PinsLimited == Spec => []PinLimit
<1>1. Inv => PinLimit
  BY DEF Inv, FewPins, PinLimit
<1> QED
  BY Invariant, <1>1, PTL

-----------------------------------------------------------------------------
(* The administrator, as long as no two transfers of one caller overlapped.  *)

InTransfer(p) == req[p].op = "transfer" /\ req[p].at \in {"target", "write"}

Apart == \A p, q \in Proc :
    p # q /\ InTransfer(p) /\ InTransfer(q) => req[p].me # req[q].me

\* Nobody but the caller of a transfer takes its role away before it writes.
StillAdmin == \A p \in Proc : InTransfer(p) => role[req[p].me] = "ADMIN"

Single == \A a, b \in User : role[a] = "ADMIN" /\ role[b] = "ADMIN" => a = b

AdminInv ==
    /\ Inv
    /\ \E a \in User : role[a] = "ADMIN"
    /\ ~doubled => Single /\ Apart /\ StillAdmin

LEMMA AdminInitial == Init => AdminInv
<1> SUFFICES ASSUME Init PROVE AdminInv
  OBVIOUS
<1>1. (\E a \in User : role[a] = "ADMIN") /\ Single
  BY UserAssumption DEF Init, Single
<1> QED
  BY <1>1, Initial, IdleCall DEF Init, AdminInv, Apart, StillAdmin, InTransfer

LEMMA BeginAdmin ==
  ASSUME AdminInv, NEW p \in Proc, NEW o \in Ops, NEW m \in Msg, Begin(p, o[1], o[2], o[3], m)
  PROVE  /\ \E a \in User : role'[a] = "ADMIN"
         /\ ~doubled' => Single' /\ Apart' /\ StillAdmin'
<1>1. PICK c \in Call : req' = [req EXCEPT ![p] = c] /\ c.at \in {"group", "request", "verify"}
  BY BeginForm DEF AdminInv
<1>2. req \in [Proc -> Call] /\ role' = role /\ doubled' = doubled
  BY DEF AdminInv, Inv, TypeOK, Begin, group, story
<1>3. \A q \in Proc : InTransfer(q)' => InTransfer(q) /\ req'[q] = req[q]
  BY <1>1, <1>2 DEF InTransfer
<1> QED
  BY <1>2, <1>3 DEF AdminInv, Single, Apart, StillAdmin

\* Whoever checks a transfer beside another one of its caller is recorded.
LEMMA DoubledStep ==
  ASSUME Inv, NEW p \in Proc, Look(p) \/ Write(p)
  PROVE  /\ doubled => doubled'
         /\ Verify(p) /\ req[p].op = "transfer" /\ IsAdmin(req[p].me) /\ ~doubled'
              => \A q \in Proc : InTransfer(q) => req[q].me # req[p].me
<1>1. CASE Verify(p)
  <2>1. doubled' = IF req[p].op = "transfer" /\ IsAdmin(req[p].me)
                        /\ \E q \in Proc : Handing(q, req[p].me)
                   THEN TRUE ELSE doubled
    BY <1>1 DEF Verify
  <2> QED
    BY <2>1 DEF Handing, InTransfer
<1>2. CASE ~Verify(p)
  <2>1. doubled' = doubled
    BY <1>2, ReadsFrame, DeleteSteps
       DEF Look, Write, Reads, story, Group, Transfer, Remove, EnterGroup, AskIn, Approve, Reject,
           Switch, Store, Dissolve
  <2> QED
    BY <1>2, <2>1
<1> QED
  BY <1>1, <1>2

\* A call comes to the writing of a transfer through the check of its caller.
LEMMA TransferForm ==
  ASSUME Inv, NEW p \in Proc, Look(p) \/ Write(p)
  PROVE  /\ \A q \in Proc \ {p} : req'[q] = req[q]
         /\ InTransfer(p)' =>
              /\ req'[p].me = req[p].me
              /\ \/ InTransfer(p) /\ req[p].at = "target"
                 \/ Verify(p) /\ req[p].op = "transfer" /\ IsAdmin(req[p].me)
<1>1. PICK c \in Call : req' = [req EXCEPT ![p] = c] /\ (c = Idle \/ Keeps(c, req[p]))
  BY Steps DEF StepForm
<1>2. req \in [Proc -> Call]
  BY DEF Inv, TypeOK
<1>3. req[p].at = "verify" => Verify(p)
  BY DEF Look, Write, Group, Request, Target, AddTarget, ReviewTarget, Self, InviteTarget, Previous,
         Settings, Transfer, Remove, Count, EnterGroup, DropPending, AskIn, Approve, Reject,
         DeleteRequest, Switch, ClearPending, Store, Dissolve
<1>4. InTransfer(p)' => /\ Keeps(c, req[p]) /\ c.op = "transfer" /\ c.at \in {"target", "write"}
                        /\ req'[p].me = c.me
  BY <1>1, <1>2, IdleCall DEF InTransfer
<1> QED
  BY <1>1, <1>2, <1>3, <1>4 DEF Keeps, InTransfer

LEMMA AdminStep ==
  ASSUME AdminInv, NEW p \in Proc, Look(p) \/ Write(p)
  PROVE  /\ \E a \in User : role'[a] = "ADMIN"
         /\ ~doubled' => Single' /\ Apart' /\ StillAdmin'
<1> DEFINE r == req[p]
<1>0. /\ req \in [Proc -> Call] /\ role \in [User -> {"ADMIN", "MEMBER"}]
      /\ \A q \in Proc : req[q].me \in User
  BY DEF AdminInv, Inv, TypeOK, Call
<1>1. CASE ~Transfer(p)
  <2>1. role' = role
    BY <1>1, ReadsFrame, DeleteSteps
       DEF Look, Write, Reads, group, Group, Verify, Remove, EnterGroup, AskIn, Approve, Reject,
           Switch, Store, Dissolve, AdminInv
  <2> SUFFICES ASSUME ~doubled' PROVE Apart' /\ StillAdmin'
    BY <2>1, DoubledStep DEF AdminInv, Single
  <2>2. ~doubled /\ Apart /\ StillAdmin
    BY DoubledStep DEF AdminInv
  <2>3. ASSUME NEW q \in Proc \ {p}, InTransfer(q)'
        PROVE  InTransfer(q) /\ req'[q] = req[q]
    BY <2>3, TransferForm DEF AdminInv, InTransfer
  <2>4. InTransfer(p)' => /\ req'[p].me = r.me /\ role[r.me] = "ADMIN"
                          /\ \A q \in Proc \ {p} : InTransfer(q) => req[q].me # r.me
    BY <2>2, TransferForm, DoubledStep DEF AdminInv, Apart, StillAdmin, IsAdmin
  <2> QED
    BY <2>1, <2>2, <2>3, <2>4 DEF Apart, StillAdmin
<1>2. CASE Transfer(p)
  <2>1. r.at = "write" /\ r.op = "transfer" /\ CallOK(r, vouched)
    BY <1>2 DEF Transfer, AdminInv, Inv
  <2>2. PICK v \in User \ {r.me} : r.who = {v}
    BY <2>1 DEF CallOK, OneTarget
  <2>3. \A u \in User : role'[u] = IF u = v THEN "ADMIN" ELSE IF u = r.me THEN "MEMBER" ELSE role[u]
    BY <1>2, <2>2 DEF Transfer
  <2> SUFFICES ASSUME ~doubled' PROVE Single' /\ Apart' /\ StillAdmin'
    BY <2>3
  <2>4. Single /\ Apart /\ StillAdmin /\ InTransfer(p)
    BY <2>1, DoubledStep DEF AdminInv, InTransfer
  <2>5. \A u \in User \ {r.me} : role[u] = "MEMBER"
    BY <1>0, <2>4 DEF StillAdmin, Single
  <2>6. \A q \in Proc : ~InTransfer(q)'
    <3>1. ~InTransfer(p)'
      BY <2>1, TransferForm DEF AdminInv, Verify
    <3>2. ASSUME NEW q \in Proc \ {p} PROVE ~InTransfer(q)'
      <4>1. ~InTransfer(q)
        BY <1>0, <2>4, <2>5 DEF Apart, StillAdmin
      <4> QED
        BY <4>1, TransferForm DEF AdminInv, InTransfer
    <3> QED
      BY <3>1, <3>2
  <2>7. Single'
    BY <2>3, <2>5 DEF Single
  <2> QED
    BY <2>6, <2>7 DEF Apart, StillAdmin
<1> QED
  BY <1>1, <1>2

\* A group always has an administrator, and it has two only after two transfers
\* of one administrator were under way at a time: through any number of
\* transfers, removals and returns, by any number of calls.
THEOREM OneAdministrator == Spec => []OneAdmin
<1>1. AdminInv /\ [Next]_vars => AdminInv'
  <2> SUFFICES ASSUME AdminInv, [Next]_vars PROVE AdminInv'
    OBVIOUS
  <2>1. Inv'
    BY Inductive DEF AdminInv
  <2>2. ASSUME NEW p \in Proc, Look(p) \/ Write(p) PROVE AdminInv'
    BY <2>1, <2>2, AdminStep DEF AdminInv
  <2>3. ASSUME NEW p \in Proc, NEW o \in Ops, NEW m \in Msg, Begin(p, o[1], o[2], o[3], m)
        PROVE  AdminInv'
    BY <2>1, <2>3, BeginAdmin DEF AdminInv
  <2>4. CASE UNCHANGED vars
    BY <2>1, <2>4 DEF AdminInv, Single, Apart, StillAdmin, InTransfer, vars, group, story
  <2> QED
    BY <2>2, <2>3, <2>4 DEF Next
<1>2. AdminInv => OneAdmin
  BY DEF AdminInv, Single, OneAdmin
<1> QED
  BY <1>1, <1>2, AdminInitial, PTL DEF Spec

-----------------------------------------------------------------------------
(* The requests.                                                             *)

\* A row that is there was not withdrawn, and no two have the same id.
Ids ==
    /\ \A u \in User : request[u].id \in 0 .. lastId
    /\ withdrawn \subseteq 1 .. lastId
    /\ \A u \in User : request[u].id \notin withdrawn
    /\ \A u, v \in User : u # v /\ request[u].id = request[v].id => request[u].id = 0
    /\ \A u \in User : request[u].status = "PENDING" => request[u].id # 0

LEMMA DeleteIds ==
  ASSUME TypeOK, Ids, NEW S \in SUBSET User, Delete(S), lastId' = lastId
  PROVE  Ids'
<1>1. \A u \in User : request'[u] = IF u \in S THEN NoRow ELSE request[u]
  BY DEF Delete
<1>2. NoRow.id = 0 /\ NoRow.status = "NONE"
  BY DEF NoRow
<1>3. lastId \in Nat
  BY BoundAssumption DEF TypeOK
<1> DEFINE gone == {request[u].id : u \in {v \in S : request[v].status = "PENDING"}}
<1>4. withdrawn' = withdrawn \union gone
  BY DEF Delete
<1>5. gone \subseteq 1 .. lastId
  BY <1>3 DEF Ids
<1>6. \A u \in User : request'[u].id \notin withdrawn'
  BY <1>1, <1>2, <1>4, <1>5, <1>3 DEF Ids
<1>7. withdrawn' \subseteq 1 .. lastId'
  BY <1>4, <1>5 DEF Ids
<1>8. \A u \in User : request'[u].id \in 0 .. lastId'
  BY <1>1, <1>2, <1>3 DEF Ids
<1>10. \A u \in User : request'[u].status = "PENDING" => request'[u].id # 0
  BY <1>1, <1>2 DEF Ids
<1>9. \A u, v \in User : u # v /\ request'[u].id = request'[v].id => request'[u].id = 0
  BY <1>1, <1>2 DEF Ids
<1> HIDE DEF gone
<1> QED
  BY <1>6, <1>7, <1>8, <1>9, <1>10 DEF Ids

LEMMA IdsStep ==
  ASSUME Inv, Ids, NEW p \in Proc, Look(p) \/ Write(p)
  PROVE  Ids'
<1> USE DEF group, joining, story
<1>1. CASE AskIn(p) /\ ~UNCHANGED joining
  <2>0. req[p].me \in User /\ req[p].next \in User /\ lastId \in Nat /\ TypeOK
    BY BoundAssumption DEF Inv, TypeOK, Call
  <2>1. PICK u \in User : Ask(u)
    BY <1>1, <2>0 DEF AskIn
  <2>2. withdrawn' = withdrawn
    BY <1>1 DEF AskIn
  <2> DEFINE id == IF request[u].id = 0 THEN lastId + 1 ELSE request[u].id
  <2>3. request' = [request EXCEPT ![u] = [id |-> id, status |-> "PENDING"]]
    BY <2>1 DEF Ask
  <2>4. \A v \in User : request'[v] = IF v = u THEN [id |-> id, status |-> "PENDING"] ELSE request[v]
    BY <2>0, <2>3 DEF TypeOK
  <2>5. lastId' = (IF request[u].id = 0 THEN lastId + 1 ELSE lastId)
    BY <2>1 DEF Ask
  <2>6. \A v \in User : request[v].id \in 0 .. lastId /\ request[v].id \in Nat
    BY <2>0 DEF Ids
  <2>7. id # 0 /\ id \in 0 .. lastId' /\ id \notin withdrawn /\ lastId' \in Nat /\ lastId <= lastId'
    BY <2>0, <2>5, <2>6 DEF Ids
  <2>8. \A v \in User \ {u} : request[v].id # id
    BY <2>0, <2>6 DEF Ids
  <2> HIDE DEF id
  <2> QED
    BY <2>0, <2>2, <2>4, <2>6, <2>7, <2>8 DEF Ids
<1>2. CASE Approve(p) \/ Reject(p)
  <2>1. \A u \in User : request'[u].id = request[u].id /\
                         (request'[u].status = "PENDING" => request[u].status = "PENDING")
    <3>1. request \in [User -> Request0] /\ req[p].who \subseteq User
      BY DEF Inv, TypeOK, Call
    <3>2. CASE Approve(p)
      <4>1. PICK u \in User : \/ request' = request
                             \/ request' = [request EXCEPT ![u].status = "APPROVED"]
        BY <3>1, <3>2 DEF Approve
      <4> QED
        BY <3>1, <4>1 DEF Request0
    <3>3. CASE Reject(p)
      <4>1. PICK u \in User : request' =
              [request EXCEPT ![u].status = IF request[u].id = req[p].rid THEN "REJECTED" ELSE @]
        BY <3>1, <3>3 DEF Reject
      <4> QED
        BY <3>1, <4>1 DEF Request0
    <3> QED
      BY <1>2, <3>2, <3>3
  <2>2. withdrawn' = withdrawn /\ lastId' = lastId
    BY <1>2 DEF Approve, Reject
  <2> QED
    BY <2>1, <2>2 DEF Ids
<1>3. CASE DropPending(p) \/ DeleteRequest(p) \/ ClearPending(p)
  BY <1>3, DeleteSteps, DeleteIds DEF Inv
<1>4. CASE /\ ~(AskIn(p) /\ ~UNCHANGED joining)
           /\ ~(Approve(p) \/ Reject(p) \/ DropPending(p) \/ DeleteRequest(p) \/ ClearPending(p))
  <2>1. UNCHANGED <<request, lastId, withdrawn>>
    BY <1>4, ReadsFrame
       DEF Look, Write, Reads, Group, Verify, Transfer, Remove, EnterGroup, AskIn, Switch, Store,
           Dissolve
  <2> QED
    BY <2>1 DEF Ids
<1> QED
  BY <1>1, <1>2, <1>3, <1>4

\* Only an approval makes a member of a request, and it finds the row it updates.
LEMMA AdmittedStep ==
  ASSUME Inv, Ids, [Next]_vars
  PROVE  (admitted' \ admitted) \cap withdrawn = {}
<1>1. CASE admitted' = admitted
  BY <1>1
<1>2. CASE admitted' # admitted
  <2>1. PICK p \in Proc : Approve(p)
    BY ZenonT(60), <1>2, ReadsFrame, DeleteSteps
       DEF Next, vars, story, Look, Write, Reads, Begin, Group, Verify, Transfer, Remove,
           EnterGroup, AskIn, Reject, Switch, Store, Dissolve
  <2>2. req[p].who \subseteq User
    BY DEF Inv, TypeOK, Call
  <2>3. PICK u \in User : request[u].id = req[p].rid /\ admitted' = admitted \union {req[p].rid}
    BY <1>2, <2>1, <2>2 DEF Approve
  <2>4. req[p].rid \notin withdrawn
    BY <2>3 DEF Ids
  <2> QED
    BY <2>3, <2>4
<1> QED
  BY <1>1, <1>2

\* A request that was withdrawn makes nobody a member, however late its review
\* writes and however often its user asks again.
THEOREM WithdrawnNotAdmitted == Spec => WithdrawnStaysOut
<1>1. Init => Ids
  BY DEF Init, Ids, NoRow
<1>2. Inv /\ Ids /\ [Next]_vars => Ids'
  <2> SUFFICES ASSUME Inv, Ids, [Next]_vars PROVE Ids'
    OBVIOUS
  <2>1. CASE UNCHANGED <<request, lastId, withdrawn>>
    BY <2>1 DEF Ids
  <2>2. CASE ~UNCHANGED <<request, lastId, withdrawn>>
    BY <2>2, IdsStep DEF Next, vars, joining, story, Begin
  <2> QED
    BY <2>1, <2>2
<1>3. Inv /\ Ids /\ [Next]_vars => [(admitted' \ admitted) \cap withdrawn = {}]_vars
  BY AdmittedStep
<1> QED
  BY <1>1, <1>2, <1>3, Invariant, PTL DEF Spec, WithdrawnStaysOut
=============================================================================
