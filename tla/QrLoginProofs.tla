---------------------------- MODULE QrLoginProofs ----------------------------
(* Theorems about QrLogin: the types, that a page logs in only a user who    *)
(* approved its code, and that exchanges leave a user one PC.                *)
EXTENDS QrLogin, FiniteSetTheorems, SequenceTheorems, TLAPS

USE QrAssumption

-----------------------------------------------------------------------------
(* The calls.                                                                *)

\* Whoever has passed its first read acts for a user.
HasUser(c) ==
    (c.at \notin {"idle", "get"} \/ (c.at = "get" /\ c.op # "exchange")) => c.user \in User

CallsOK == req \in [Proc -> Call] /\ \A p \in Proc : HasUser(req[p])

LEMMA IdleCall == Idle \in Call /\ HasUser(Idle) /\ Idle.at = "idle"
<1>1. Fresh \in Session
  BY DEF Fresh, Session, Statuses
<1>2. (CHOOSE c \in Code : TRUE) \in Code
  OBVIOUS
<1> QED
  BY <1>1, <1>2 DEF Idle, Call, HasUser, Labels, OpNames, Statuses

\* A call goes on with c, the others stay.
LEMMA BecomeOK ==
    ASSUME CallsOK, NEW p \in Proc, NEW c \in Call, HasUser(c), Become(p, c)
    PROVE  CallsOK' /\ req'[p] = c /\ \A q \in Proc \ {p} : req'[q] = req[q]
<1>1. req' = [req EXCEPT ![p] = c]
  BY DEF Become
<1> QED
  BY <1>1 DEF CallsOK

LEMMA AtType ==
    ASSUME NEW c \in Call, NEW l \in Labels
    PROVE  /\ [c EXCEPT !.at = l] \in Call
           /\ [c EXCEPT !.at = l].at = l /\ [c EXCEPT !.at = l].op = c.op
           /\ [c EXCEPT !.at = l].user = c.user /\ [c EXCEPT !.at = l].code = c.code
           /\ [c EXCEPT !.at = l].ticket = c.ticket /\ [c EXCEPT !.at = l].seen = c.seen
           /\ [c EXCEPT !.at = l].put = c.put
  BY DEF Call

\* A call that goes on to a control point keeps its fields; one that ends
\* forgets them.
LEMMA GotoOK ==
    ASSUME CallsOK, NEW p \in Proc, NEW l \in Labels \ {"get"},
           l # "idle" => req[p].user \in User, Goto(p, l)
    PROVE  /\ CallsOK'
           /\ req'[p].at = l
           /\ l # "idle" => /\ req'[p].user = req[p].user /\ req'[p].code = req[p].code
                            /\ req'[p].seen = req[p].seen /\ req'[p].put = req[p].put
                            /\ req'[p].ticket = req[p].ticket
           /\ \A q \in Proc \ {p} : req'[q] = req[q]
<1>1. req[p] \in Call
  BY DEF CallsOK
<1>2. CASE l = "idle"
  <2>1. Become(p, Idle)
    BY <1>2 DEF Goto, Become
  <2> QED
    BY <1>2, <2>1, IdleCall, BecomeOK
<1>3. CASE l # "idle"
  <2> DEFINE c == [req[p] EXCEPT !.at = l]
  <2>1. c \in Call /\ c.at = l /\ c.op = req[p].op /\ c.user = req[p].user /\ c.code = req[p].code
        /\ c.seen = req[p].seen /\ c.put = req[p].put /\ c.ticket = req[p].ticket
    BY <1>1, AtType
  <2>2. Become(p, c)
    BY <1>3 DEF Goto, Become
  <2> HIDE DEF c
  <2>3. HasUser(c)
    BY <1>3, <2>1 DEF HasUser
  <2> QED
    BY <2>1, <2>2, <2>3, BecomeOK
<1> QED
  BY <1>2, <1>3

-----------------------------------------------------------------------------
(* What the tickets stand for.                                               *)

\* The user approved the code.
Approved(u, c) == \E t \in DOMAIN approval : approval[t] = <<u, c>>

\* A session that is approved was approved by its user, and so is whatever a
\* call carries towards a session or a login.
CodesApproved ==
    \A c \in Code : (qr[c] # NULL /\ qr[c].status = "APPROVED") => Approved(qr[c].user, c)
CallApproved(c) ==
    /\ (c.at \in {"load", "store"} /\ c.put = "APPROVED") => Approved(c.user, c.code)
    /\ (c.at = "taken" /\ c.seen.status = "APPROVED") => Approved(c.seen.user, c.code)
    /\ c.at \in {"acquire", "match", "take", "taken", "find", "revoke", "create", "delete",
                 "release"} => Approved(c.user, c.code)
RowsApproved == \A i \in DOMAIN rows : Approved(rows[i].user, rows[i].code)

Approval ==
    /\ TypeOK /\ CallsOK
    /\ CodesApproved /\ RowsApproved /\ \A p \in Proc : CallApproved(req[p])

LEMMA IdleApproved == CallApproved(Idle)
  BY DEF CallApproved, Idle

LEMMA InitApproval == Init => Approval
<1> SUFFICES ASSUME Init PROVE Approval
  OBVIOUS
<1>1. req \in [Proc -> Call] /\ \A p \in Proc : req[p] = Idle
  BY IdleCall DEF Init
<1>2. rows = <<>> /\ approval = <<>> /\ rows \in Seq(PcSession) /\ approval \in Seq(User \X Code)
      /\ Len(approval) = tickets /\ DOMAIN rows = {}
  BY DEF Init
<1>3. qr \in [Code -> Session \cup {NULL}] /\ \A c \in Code : qr[c].status = "PENDING"
  BY DEF Init, Fresh, Session, Statuses
<1>4. TypeOK
  BY <1>1, <1>2, <1>3 DEF Init, TypeOK
<1> QED
  BY <1>1, <1>2, <1>3, <1>4, IdleCall, IdleApproved
     DEF Approval, CallsOK, CodesApproved, RowsApproved

\* Approvals are only added.
LEMMA ApproveMore ==
    ASSUME approval \in Seq(User \X Code), NEW u \in User, NEW c \in Code,
           approval' = Append(approval, <<u, c>>)
    PROVE  /\ approval' \in Seq(User \X Code) /\ Len(approval') = Len(approval) + 1
           /\ Approved(u, c)'
           /\ \A v, d : Approved(v, d) => Approved(v, d)'
<1> DEFINE x == <<u, c>>
<1>1. x \in User \X Code /\ approval' = Append(approval, x)
  OBVIOUS
<1> HIDE DEF x
<1>2. /\ approval' \in Seq(User \X Code) /\ Len(approval') = Len(approval) + 1
      /\ \A t \in 1..Len(approval) : approval'[t] = approval[t]
      /\ approval'[Len(approval) + 1] = x
  BY <1>1
<1>3. DOMAIN approval = 1..Len(approval) /\ DOMAIN approval' = 1..Len(approval')
      /\ Len(approval) \in Nat
  BY <1>2
<1>4. Approved(u, c)'
  <2>1. Len(approval) + 1 \in DOMAIN approval'
    BY <1>2, <1>3
  <2>2. approval'[Len(approval) + 1] = <<u, c>>
    BY <1>2 DEF x
  <2> QED
    BY <2>1, <2>2 DEF Approved
<1>5. ASSUME NEW v, NEW d, Approved(v, d) PROVE Approved(v, d)'
  <2>1. PICK t \in DOMAIN approval : approval[t] = <<v, d>>
    BY <1>5 DEF Approved
  <2>2. t \in DOMAIN approval' /\ approval'[t] = approval[t]
    BY <1>2, <1>3
  <2> QED
    BY <2>1, <2>2 DEF Approved
<1> QED
  BY <1>2, <1>4, <1>5

\* The variables besides the calls.
RestOK ==
    /\ qr \in [Code -> Session \cup {NULL}] /\ lock \in [User -> Proc \cup {NULL}]
    /\ rows \in Seq(PcSession)
    /\ known \in [Code -> SUBSET Nat] /\ busy \in [Code -> BOOLEAN]
    /\ tickets \in Nat /\ approval \in Seq(User \X Code) /\ Len(approval) = tickets
    /\ calls \in 0..MaxCalls /\ lapses \in 0..MaxFaults /\ faults \in 0..MaxFaults

LEMMA Parts == TypeOK <=> RestOK /\ req \in [Proc -> Call]
  BY DEF TypeOK, RestOK

\* One call goes on with c, which carries only what was approved.
LEMMA CallStep ==
    ASSUME Approval, NEW p \in Proc, NEW c \in Call, HasUser(c), Become(p, c), CallApproved(c)',
           RestOK', CodesApproved', RowsApproved',
           \A v, d : Approved(v, d) => Approved(v, d)'
    PROVE  Approval'
<1>1. CallsOK' /\ req'[p] = c /\ \A q \in Proc \ {p} : req'[q] = req[q]
  BY BecomeOK DEF Approval
<1>2. TypeOK'
  BY <1>1 DEF RestOK, TypeOK, CallsOK
<1>3. ASSUME NEW q \in Proc PROVE CallApproved(req[q])'
  <2>1. CASE q = p
    BY <1>1, <2>1 DEF CallApproved
  <2>2. CASE q # p
    <3>1. req'[q] = req[q] /\ CallApproved(req[q])
      BY <1>1, <2>2 DEF Approval
    <3> QED
      BY <3>1 DEF CallApproved
  <2> QED
    BY <2>1, <2>2
<1> QED
  BY <1>1, <1>2, <1>3 DEF Approval

\* The same when the call goes on to l or ends, and nobody approves anything.
LEMMA GotoStep ==
    ASSUME Approval, NEW p \in Proc, NEW l \in Labels \ {"get"}, Goto(p, l),
           l # "idle" => /\ req[p].user \in User
                         /\ CallApproved([req[p] EXCEPT !.at = l]),
           approval' = approval, RestOK', CodesApproved', RowsApproved'
    PROVE  Approval'
<1>1. req[p] \in Call
  BY DEF Approval, CallsOK
<1>2. \A v, d : Approved(v, d) <=> Approved(v, d)'
  BY DEF Approved
<1>3. CASE l = "idle"
  <2>1. Become(p, Idle)
    BY <1>3 DEF Goto, Become
  <2>2. CallApproved(Idle)'
    BY DEF CallApproved, Idle
  <2> QED
    BY <1>2, <2>1, <2>2, IdleCall, CallStep
<1>4. CASE l # "idle"
  <2> DEFINE c == [req[p] EXCEPT !.at = l]
  <2>1. c \in Call /\ c.at = l /\ c.op = req[p].op /\ c.user = req[p].user
    BY <1>1, AtType
  <2>2. Become(p, c) /\ CallApproved(c)
    BY <1>4 DEF Goto, Become
  <2>3. req' = [req EXCEPT ![p] = c]
    BY <2>2 DEF Become
  <2> HIDE DEF c
  <2>4. HasUser(c)
    BY <1>4, <2>1 DEF HasUser
  <2>5. PICK d \in Call : d = c
    BY <2>1
  <2>6. CallApproved(d)'
    BY <1>2, <2>2, <2>5 DEF CallApproved
  <2>7. Become(p, d) /\ HasUser(d)
    BY <2>2, <2>4, <2>5
  <2> QED
    BY <1>2, <2>6, <2>7, CallStep
<1> QED
  BY <1>3, <1>4

\* Whoever writes a session back knows who approved it.
LEMMA WriteCode ==
    ASSUME Approval, NEW c \in Code, NEW s \in Session \cup {NULL}, approval' = approval,
           qr' = [qr EXCEPT ![c] = s], (s # NULL /\ s.status = "APPROVED") => Approved(s.user, c)
    PROVE  qr' \in [Code -> Session \cup {NULL}] /\ CodesApproved'
  BY DEF Approval, TypeOK, CodesApproved, Approved

LEMMA SameStore ==
    ASSUME Approval, UNCHANGED <<qr, rows>>, \A v, d : Approved(v, d) => Approved(v, d)'
    PROVE  CodesApproved' /\ RowsApproved'
  BY DEF Approval, CodesApproved, RowsApproved

LEMMA SameRows ==
    ASSUME Approval, UNCHANGED <<approval, rows>>
    PROVE  RowsApproved'
  BY DEF Approval, RowsApproved, Approved

\* The control points of an exchange and those that only go on.
Exchanging == {"acquire", "match", "take", "taken", "find", "revoke", "create", "delete", "release"}

LEMMA GotoKeeps ==
    ASSUME Approval, NEW p \in Proc, NEW l \in Labels \ {"get", "load", "store", "taken"}, Goto(p, l),
           l # "idle" => req[p].user \in User,
           l \in Exchanging => Approved(req[p].user, req[p].code),
           approval' = approval, RestOK', CodesApproved', RowsApproved'
    PROVE  Approval'
<1> DEFINE c == [req[p] EXCEPT !.at = l]
<1>1. req[p] \in Call
  BY DEF Approval, CallsOK
<1>2. c \in Call /\ c.at = l /\ c.user = req[p].user /\ c.code = req[p].code
  BY <1>1, AtType
<1> HIDE DEF c
<1>3. CallApproved(c)
  BY <1>2 DEF CallApproved, Exchanging
<1> QED
  BY <1>3, GotoStep DEF c

-----------------------------------------------------------------------------
(* The steps.                                                                *)

LEMMA CallFacts ==
    ASSUME Approval, NEW p \in Proc
    PROVE  /\ req[p] \in Call /\ HasUser(req[p]) /\ CallApproved(req[p])
           /\ req[p].code \in Code /\ req[p].op \in OpNames /\ req[p].ticket \in Nat
           /\ req[p].seen \in Session /\ req[p].user \in User \cup {NULL}
           /\ qr[req[p].code] \in Session \cup {NULL}
           /\ RestOK
  BY DEF Approval, CallsOK, Call, TypeOK, RestOK

\* A call that begins.
LEMMA Begins ==
    ASSUME Approval, NEW p \in Proc, NEW d \in Call, d.at = "get",
           d.op # "exchange" => d.user \in User, Become(p, d),
           calls < MaxCalls, calls' = calls + 1, busy' \in [Code -> BOOLEAN],
           UNCHANGED <<store, known, tickets, approval, lapses, faults>>
    PROVE  Approval'
<1>1. HasUser(d) /\ CallApproved(d)'
  BY DEF HasUser, CallApproved
<1>2. RestOK'
  BY DEF Approval, TypeOK, RestOK, store
<1>3. \A v, e : Approved(v, e) => Approved(v, e)'
  BY DEF Approved
<1>4. CodesApproved' /\ RowsApproved'
  BY <1>3, SameStore DEF store
<1> QED
  BY <1>1, <1>2, <1>3, <1>4, CallStep

LEMMA BeginKeeps ==
    ASSUME Approval, NEW p \in Proc,
           \/ \E o \in OpNames, u \in User, c \in Code : BeginPhone(p, o, u, c)
           \/ \E c \in Code, t \in 1..MaxCalls : BeginExchange(p, c, t)
    PROVE  Approval'
<1>1. ASSUME NEW o \in OpNames, NEW u \in User, NEW c \in Code, BeginPhone(p, o, u, c)
      PROVE  Approval'
  <2> DEFINE d == [Idle EXCEPT !.at = "get", !.op = o, !.code = c, !.user = u]
  <2>1. d \in Call /\ d.at = "get" /\ d.user = u
    BY IdleCall DEF Call, Labels
  <2>2. busy' \in [Code -> BOOLEAN]
    BY <1>1 DEF BeginPhone, pages, Approval, TypeOK
  <2>3. Become(p, d)
    BY <1>1 DEF BeginPhone
  <2> HIDE DEF d
  <2>4. /\ calls < MaxCalls /\ calls' = calls + 1
        /\ UNCHANGED <<store, known, tickets, approval, lapses, faults>>
    BY <1>1 DEF BeginPhone, pages
  <2> QED
    BY <2>1, <2>2, <2>3, <2>4, Begins
<1>2. ASSUME NEW c \in Code, NEW t \in 1..MaxCalls, BeginExchange(p, c, t)
      PROVE  Approval'
  <2> DEFINE d == [Idle EXCEPT !.at = "get", !.op = "exchange", !.code = c, !.ticket = t]
  <2>5. "exchange" \in OpNames /\ "get" \in Labels /\ t \in Nat
    BY DEF OpNames, Labels
  <2>6. PICK i \in Call : i = Idle
    BY IdleCall
  <2>7. [i EXCEPT !.at = "get", !.op = "exchange", !.code = c, !.ticket = t] \in Call
    BY <2>5 DEF Call
  <2>1. d \in Call /\ d.at = "get" /\ d.op = "exchange"
    BY <2>6, <2>7 DEF Call
  <2>2. busy' \in [Code -> BOOLEAN]
    BY <1>2 DEF BeginExchange, Approval, TypeOK
  <2>3. Become(p, d)
    BY <1>2 DEF BeginExchange
  <2> HIDE DEF d
  <2>4. /\ calls < MaxCalls /\ calls' = calls + 1
        /\ UNCHANGED <<store, known, tickets, approval, lapses, faults>>
    BY <1>2 DEF BeginExchange
  <2> QED
    BY <2>1, <2>2, <2>3, <2>4, Begins
<1> QED
  BY <1>1, <1>2

\* The call whose session was found wanting ends.
LEMMA RefusedKeeps ==
    ASSUME Approval, NEW p \in Proc, Refused(p), UNCHANGED <<store, known, counts>>
    PROVE  Approval'
<1>1. RestOK'
  BY CallFacts DEF RestOK, Refused, store, counts
<1>2. CodesApproved' /\ RowsApproved'
  BY SameStore DEF Refused, store, Approved
<1>3. "idle" \in Labels \ {"get", "load", "store", "taken"} /\ "idle" \notin Exchanging
  BY DEF Labels, Exchanging
<1> QED
  BY <1>1, <1>2, <1>3, GotoKeeps DEF Refused

\* A call that draws a ticket approves the code it acts on.
LEMMA DrawKeeps ==
    ASSUME Approval, NEW p \in Proc, req[p].user \in User, req[p].at \in {"get", "trust"},
           Draw(p, [req[p] EXCEPT !.at = "load"]), UNCHANGED <<store, pages, counts>>
    PROVE  Approval'
<1> USE CallFacts
<1>1. PICK u \in User, c \in Code : req[p].user = u /\ req[p].code = c
  OBVIOUS
<1>2. PICK d \in Call : /\ Become(p, d) /\ d.at = "load" /\ d.put = "APPROVED"
                        /\ d.user = u /\ d.code = c
  <2> DEFINE d == [[req[p] EXCEPT !.at = "load"] EXCEPT !.ticket = tickets + 1, !.put = "APPROVED"]
  <2>1. tickets + 1 \in Nat /\ "APPROVED" \in Statuses /\ "load" \in Labels
    BY DEF RestOK, Statuses, Labels
  <2>2. /\ d \in Call /\ d.at = "load" /\ d.put = "APPROVED"
        /\ d.user = req[p].user /\ d.code = req[p].code
    BY <2>1 DEF Call
  <2>3. Become(p, d)
    BY DEF Draw
  <2> HIDE DEF d
  <2> QED
    BY <1>1, <2>2, <2>3
<1>3. approval' = Append(approval, <<u, c>>) /\ tickets' = tickets + 1
  BY <1>1 DEF Draw
<1>4. approval \in Seq(User \X Code) /\ Len(approval) = tickets
  BY DEF RestOK
<1>5. /\ approval' \in Seq(User \X Code) /\ Len(approval') = Len(approval) + 1
      /\ Approved(u, c)'
      /\ \A v, e : Approved(v, e) => Approved(v, e)'
  BY <1>3, <1>4, ApproveMore
<1>6. HasUser(d)
  BY <1>2 DEF HasUser
<1>7. CodesApproved' /\ RowsApproved'
  BY <1>5, SameStore DEF store
<1>8. RestOK'
  BY <1>3, <1>4, <1>5 DEF RestOK, store, pages, counts
<1>9. CallApproved(d)'
  BY <1>2, <1>5 DEF CallApproved
<1> QED
  BY <1>2, <1>5, <1>6, <1>7, <1>8, <1>9, CallStep

\* What was approved stays so while nobody approves.
LEMMA Still ==
    ASSUME UNCHANGED approval
    PROVE  \A v, e : Approved(v, e) <=> Approved(v, e)'
  BY DEF Approved

\* A call goes on with d, and nothing else moves.
LEMMA OnlyBecomes ==
    ASSUME Approval, NEW p \in Proc, NEW d \in Call, HasUser(d), CallApproved(d), Become(p, d),
           UNCHANGED <<store, pages, tickets, approval, counts>>
    PROVE  Approval'
<1>1. RestOK'
  BY CallFacts DEF RestOK, store, pages, counts
<1>2. CodesApproved' /\ RowsApproved'
  BY Still, SameStore DEF store
<1>3. CallApproved(d)'
  BY Still DEF CallApproved
<1> QED
  BY <1>1, <1>2, <1>3, Still, CallStep

\* The same when it goes on to l.
LEMMA OnlyGoes ==
    ASSUME Approval, NEW p \in Proc, NEW l \in Labels \ {"get", "load", "store", "taken"}, Goto(p, l),
           l # "idle" => req[p].user \in User,
           l \in Exchanging => Approved(req[p].user, req[p].code),
           UNCHANGED <<store, pages, tickets, approval, counts>>
    PROVE  Approval'
<1>1. RestOK'
  BY CallFacts DEF RestOK, store, pages, counts
<1>2. CodesApproved' /\ RowsApproved'
  BY Still, SameStore DEF store
<1> QED
  BY <1>1, <1>2, GotoKeeps

LEMMA GetSessionKeeps ==
    ASSUME Approval, NEW p \in Proc, GetSession(p)
    PROVE  Approval'
<1> USE CallFacts
<1>0. req[p].at = "get" /\ UNCHANGED <<store, known, counts>>
  BY DEF GetSession
<1>1. CASE ~Allowed(p) /\ Refused(p)
  BY <1>0, <1>1, RefusedKeeps
<1>2. CASE /\ UNCHANGED busy /\ req[p].op = "scan" /\ Goto(p, "trust")
           /\ UNCHANGED <<tickets, approval>>
  <2>1. req[p].user \in User
    BY <1>0, <1>2 DEF HasUser
  <2>2. "trust" \in Labels \ {"get", "load", "store", "taken"} /\ "trust" \notin Exchanging
    BY DEF Labels, Exchanging
  <2>3. UNCHANGED <<store, pages, tickets, approval, counts>>
    BY <1>0, <1>2 DEF pages
  <2> QED
    BY <1>2, <2>1, <2>2, <2>3, OnlyGoes
<1>3. CASE UNCHANGED busy /\ req[p].op = "confirm" /\ Draw(p, [req[p] EXCEPT !.at = "load"])
  <2>1. req[p].user \in User
    BY <1>0, <1>3 DEF HasUser
  <2>2. UNCHANGED <<store, pages, counts>>
    BY <1>0, <1>3 DEF pages
  <2> QED
    BY <1>0, <1>3, <2>1, <2>2, DrawKeeps
<1>4. CASE /\ UNCHANGED busy /\ req[p].op = "cancel"
           /\ Become(p, [req[p] EXCEPT !.at = "load", !.put = "CANCELLED"])
           /\ UNCHANGED <<tickets, approval>>
  <2>1. req[p].user \in User
    BY <1>0, <1>4 DEF HasUser
  <2>2. PICK d \in Call : /\ Become(p, d) /\ d.at = "load" /\ d.put = "CANCELLED"
                          /\ d.user = req[p].user
    <3> DEFINE d == [req[p] EXCEPT !.at = "load", !.put = "CANCELLED"]
    <3>1. d \in Call /\ d.at = "load" /\ d.put = "CANCELLED" /\ d.user = req[p].user
      BY DEF Call, Labels, Statuses
    <3>2. Become(p, d)
      BY <1>4
    <3> HIDE DEF d
    <3> QED
      BY <3>1, <3>2
  <2>3. UNCHANGED <<store, pages, tickets, approval, counts>>
    BY <1>0, <1>4 DEF pages
  <2>4. HasUser(d) /\ CallApproved(d)
    BY <2>1, <2>2 DEF HasUser, CallApproved
  <2> QED
    BY <2>2, <2>3, <2>4, OnlyBecomes
<1>5. CASE /\ Allowed(p) /\ UNCHANGED busy /\ req[p].op = "exchange"
           /\ Become(p, [req[p] EXCEPT !.at = "acquire", !.user = qr[req[p].code].user])
           /\ UNCHANGED <<tickets, approval>>
  <2> DEFINE s == qr[req[p].code]
  <2>1. s # NULL /\ s.status = "APPROVED" /\ s.user # NULL
    BY <1>5 DEF Allowed, ExchangeAllowed
  <2>2. s.user \in User /\ Approved(s.user, req[p].code)
    <3>1. s \in Session
      BY <2>1
    <3>2. s.user \in User
      BY <2>1, <3>1 DEF Session
    <3>3. CodesApproved
      BY DEF Approval
    <3> QED
      BY <2>1, <3>2, <3>3 DEF CodesApproved
  <2>3. PICK d \in Call : /\ Become(p, d) /\ d.at = "acquire"
                          /\ d.user = s.user /\ d.code = req[p].code
    <3> DEFINE d == [req[p] EXCEPT !.at = "acquire", !.user = s.user]
    <3>1. d \in Call /\ d.at = "acquire" /\ d.user = s.user /\ d.code = req[p].code
      <4> HIDE DEF s
      <4> QED
        BY <2>2 DEF Call, Labels
    <3>2. Become(p, d)
      BY <1>5
    <3> HIDE DEF d
    <3> QED
      BY <3>1, <3>2
  <2> HIDE DEF s
  <2>4. UNCHANGED <<store, pages, tickets, approval, counts>>
    BY <1>0, <1>5 DEF pages
  <2>5. HasUser(d) /\ CallApproved(d)
    BY <2>2, <2>3 DEF HasUser, CallApproved
  <2> QED
    BY <2>3, <2>4, <2>5, OnlyBecomes
<1> QED
  BY <1>1, <1>2, <1>3, <1>4, <1>5 DEF GetSession

LEMMA CheckTrustedKeeps ==
    ASSUME Approval, NEW p \in Proc, CheckTrusted(p)
    PROVE  Approval'
<1> USE CallFacts
<1>1. req[p].at = "trust" /\ req[p].user \in User /\ UNCHANGED <<store, pages, counts>>
  BY DEF CheckTrusted, HasUser
<1>2. CASE Draw(p, [req[p] EXCEPT !.at = "load"])
  BY <1>1, <1>2, DrawKeeps
<1>3. CASE /\ Become(p, [req[p] EXCEPT !.at = "load", !.put = "SCANNED"])
           /\ UNCHANGED <<tickets, approval>>
  <2>1. PICK d \in Call : /\ Become(p, d) /\ d.at = "load" /\ d.put = "SCANNED"
                          /\ d.user = req[p].user
    <3> DEFINE d == [req[p] EXCEPT !.at = "load", !.put = "SCANNED"]
    <3>1. d \in Call /\ d.at = "load" /\ d.put = "SCANNED" /\ d.user = req[p].user
      BY DEF Call, Labels, Statuses
    <3>2. Become(p, d)
      BY <1>3
    <3> HIDE DEF d
    <3> QED
      BY <3>1, <3>2
  <2>2. HasUser(d) /\ CallApproved(d)
    BY <1>1, <2>1 DEF HasUser, CallApproved
  <2> QED
    BY <1>1, <1>3, <2>1, <2>2, OnlyBecomes
<1> QED
  BY <1>2, <1>3 DEF CheckTrusted

\* What a call reads of its code and will write back.
LEMMA Reads ==
    ASSUME Approval, NEW p \in Proc, NEW l \in {"store", "taken"}, qr[req[p].code] # NULL,
           req[p].at \in {"load", "take"}, l = "store" => req[p].at = "load",
           l = "taken" => req[p].at = "take",
           Become(p, [req[p] EXCEPT !.at = l, !.seen = qr[req[p].code]]),
           UNCHANGED <<store, pages, tickets, approval, counts>>
    PROVE  Approval'
<1> USE CallFacts
<1>1. PICK s \in Session : s = qr[req[p].code]
  OBVIOUS
<1>2. PICK d \in Call : /\ Become(p, d) /\ d.at = l /\ d.seen = s /\ d.user = req[p].user
                        /\ d.code = req[p].code /\ d.put = req[p].put
  <2> DEFINE d == [req[p] EXCEPT !.at = l, !.seen = s]
  <2>1. /\ d \in Call /\ d.at = l /\ d.seen = s /\ d.user = req[p].user
        /\ d.code = req[p].code /\ d.put = req[p].put
    BY DEF Call, Labels
  <2>2. Become(p, d)
    BY <1>1
  <2> HIDE DEF d
  <2> QED
    BY <2>1, <2>2
<1>3. HasUser(d)
  BY <1>2 DEF HasUser
<1>4. s.status = "APPROVED" => Approved(s.user, req[p].code)
  BY <1>1 DEF Approval, CodesApproved
<1>5. CallApproved(d)
  BY <1>2, <1>4 DEF CallApproved
<1> QED
  BY <1>2, <1>3, <1>5, OnlyBecomes

LEMMA LoadKeeps ==
    ASSUME Approval, NEW p \in Proc, Load(p)
    PROVE  Approval'
<1> USE CallFacts
<1>1. req[p].at = "load" /\ req[p].user \in User
      /\ UNCHANGED <<store, pages, tickets, approval, counts>>
  BY DEF Load, HasUser
<1>2. CASE qr[req[p].code] = NULL
  <2>1. Goto(p, "emit")
    BY <1>2 DEF Load
  <2>2. "emit" \in Labels \ {"get", "load", "store", "taken"} /\ "emit" \notin Exchanging
    BY DEF Labels, Exchanging
  <2> QED
    BY <1>1, <2>1, <2>2, OnlyGoes
<1>3. CASE qr[req[p].code] # NULL
  BY <1>1, <1>3, Reads DEF Load
<1> QED
  BY <1>2, <1>3

\* A session is written back and its call goes on to l.
LEMMA WriteKeeps ==
    ASSUME Approval, NEW p \in Proc, NEW s \in Session \cup {NULL},
           NEW l \in Labels \ {"get", "load", "store", "taken"}, Goto(p, l),
           l # "idle" => req[p].user \in User,
           l \in Exchanging => Approved(req[p].user, req[p].code),
           qr' = [qr EXCEPT ![req[p].code] = s],
           (s # NULL /\ s.status = "APPROVED") => Approved(s.user, req[p].code),
           UNCHANGED <<lock, rows, pages, tickets, approval, counts>>
    PROVE  Approval'
<1> USE CallFacts
<1>1. PICK c \in Code : c = req[p].code
  OBVIOUS
<1>2. qr' \in [Code -> Session \cup {NULL}] /\ CodesApproved'
  BY <1>1, WriteCode
<1>3. RestOK'
  BY <1>2 DEF RestOK, pages, counts
<1>4. RowsApproved'
  BY SameRows
<1> QED
  BY <1>2, <1>3, <1>4, GotoKeeps

LEMMA StoreKeeps ==
    ASSUME Approval, NEW p \in Proc, Store(p)
    PROVE  Approval'
<1> USE CallFacts
<1>1. req[p].at = "store" /\ req[p].user \in User
  BY DEF Store, HasUser
<1>2. PICK s \in Session : /\ s = Updated(p)
                           /\ s.status = "APPROVED" => Approved(s.user, req[p].code)
  <2>1. CASE req[p].put = "APPROVED"
    <3>1. Updated(p) = [status |-> "APPROVED", user |-> req[p].user, ticket |-> req[p].ticket]
      BY <2>1 DEF Updated
    <3>2. Updated(p) \in Session /\ Updated(p).user = req[p].user
      BY <1>1, <3>1 DEF Session, Statuses
    <3>3. Approved(req[p].user, req[p].code)
      BY <1>1, <2>1 DEF CallApproved
    <3> QED
      BY <3>2, <3>3
  <2>2. CASE req[p].put = "SCANNED"
    <3>1. Updated(p) = [req[p].seen EXCEPT !.status = "SCANNED", !.user = req[p].user]
      BY <2>2 DEF Updated
    <3>2. Updated(p) \in Session /\ Updated(p).status = "SCANNED"
      BY <1>1, <3>1 DEF Session, Statuses
    <3> QED
      BY <3>2
  <2>3. CASE req[p].put \notin {"APPROVED", "SCANNED"}
    <3>1. Updated(p) = [req[p].seen EXCEPT !.status = "CANCELLED"]
      BY <2>3 DEF Updated
    <3>2. Updated(p) \in Session /\ Updated(p).status = "CANCELLED"
      BY <3>1 DEF Session, Statuses
    <3> QED
      BY <3>2
  <2> QED
    BY <2>1, <2>2, <2>3
<1>3. "emit" \in Labels \ {"get", "load", "store", "taken"} /\ "emit" \notin Exchanging
  BY DEF Labels, Exchanging
<1>4. /\ Goto(p, "emit") /\ qr' = [qr EXCEPT ![req[p].code] = s]
      /\ UNCHANGED <<lock, rows, pages, tickets, approval, counts>>
  BY <1>2 DEF Store
<1> QED
  BY <1>1, <1>2, <1>3, <1>4, WriteKeeps

LEMMA EmitKeeps ==
    ASSUME Approval, NEW p \in Proc, Emit(p)
    PROVE  Approval'
<1> USE CallFacts
<1>1. Goto(p, "idle") /\ UNCHANGED <<store, busy, tickets, approval, counts>>
  BY DEF Emit
<1>2. known' \in [Code -> SUBSET Nat]
  BY SMTT(30) DEF Emit, RestOK
<1>3. RestOK'
  BY <1>1, <1>2 DEF RestOK, store, counts
<1>4. CodesApproved' /\ RowsApproved'
  BY <1>1, Still, SameStore DEF store
<1>5. "idle" \in Labels \ {"get", "load", "store", "taken"} /\ "idle" \notin Exchanging
  BY DEF Labels, Exchanging
<1> QED
  BY <1>1, <1>3, <1>4, <1>5, GotoKeeps

\* An exchange goes on to l.
LEMMA ExchangeGoes ==
    ASSUME Approval, NEW p \in Proc, NEW l \in Labels \ {"get", "load", "store", "taken"}, Goto(p, l),
           req[p].at \in Exchanging, approval' = approval, RestOK', UNCHANGED <<qr, rows>>
    PROVE  Approval'
<1> USE CallFacts
<1>1. req[p].user \in User /\ Approved(req[p].user, req[p].code)
  BY DEF HasUser, CallApproved, Exchanging
<1>2. CodesApproved' /\ RowsApproved'
  BY Still, SameStore
<1> QED
  BY <1>1, <1>2, GotoKeeps

LEMMA AcquireLockKeeps ==
    ASSUME Approval, NEW p \in Proc, AcquireLock(p)
    PROVE  Approval'
<1> USE CallFacts
<1>1. req[p].at = "acquire" /\ req[p].at \in Exchanging /\ req[p].user \in User
  BY DEF AcquireLock, HasUser, Exchanging
<1>2. CASE lock' = [lock EXCEPT ![req[p].user] = p] /\ Goto(p, "match") /\ UNCHANGED <<busy, tickets, approval>>
  <2>1. lock' \in [User -> Proc \cup {NULL}]
    BY <1>1, <1>2 DEF RestOK
  <2>2. RestOK' /\ UNCHANGED <<qr, rows>>
    BY <1>2, <2>1 DEF RestOK, AcquireLock, counts
  <2>3. "match" \in Labels \ {"get", "load", "store", "taken"}
    BY DEF Labels
  <2> QED
    BY <1>1, <1>2, <2>2, <2>3, ExchangeGoes
<1>3. CASE Refused(p) /\ UNCHANGED lock
  <2>1. UNCHANGED <<store, known, counts>>
    BY <1>3 DEF AcquireLock, store
  <2> QED
    BY <1>3, <2>1, RefusedKeeps
<1> QED
  BY <1>2, <1>3 DEF AcquireLock

LEMMA IsTicketMatchKeeps ==
    ASSUME Approval, NEW p \in Proc, IsTicketMatch(p)
    PROVE  Approval'
<1> USE CallFacts
<1>1. req[p].at \in Exchanging /\ UNCHANGED <<store, pages, tickets, approval, counts>>
  BY DEF IsTicketMatch, Exchanging
<1>2. PICK l \in {"take", "release"} : Goto(p, l)
  BY DEF IsTicketMatch
<1>3. l \in Labels \ {"get", "load", "store", "taken"}
  BY DEF Labels
<1>4. RestOK'
  BY <1>1 DEF RestOK, store, pages, counts
<1> QED
  BY <1>1, <1>2, <1>3, <1>4, ExchangeGoes DEF store

LEMMA TakeTicketKeeps ==
    ASSUME Approval, NEW p \in Proc, TakeTicket(p)
    PROVE  Approval'
<1> USE CallFacts
<1>1. req[p].at = "take" /\ req[p].at \in Exchanging /\ UNCHANGED <<store, pages, tickets, approval, counts>>
  BY DEF TakeTicket, Exchanging
<1>2. CASE /\ qr[req[p].code] # NULL
           /\ Become(p, [req[p] EXCEPT !.at = "taken", !.seen = qr[req[p].code]])
  BY <1>1, <1>2, Reads
<1>3. CASE Goto(p, "release")
  <2>1. "release" \in Labels \ {"get", "load", "store", "taken"}
    BY DEF Labels
  <2>2. RestOK'
    BY <1>1 DEF RestOK, store, pages, counts
  <2> QED
    BY <1>1, <1>3, <2>1, <2>2, ExchangeGoes DEF store
<1> QED
  BY <1>2, <1>3 DEF TakeTicket

LEMMA StoreTakenKeeps ==
    ASSUME Approval, NEW p \in Proc, StoreTaken(p)
    PROVE  Approval'
<1> USE CallFacts
<1>1. req[p].at = "taken" /\ req[p].user \in User /\ Approved(req[p].user, req[p].code)
      /\ (req[p].seen.status = "APPROVED" => Approved(req[p].seen.user, req[p].code))
  BY DEF StoreTaken, HasUser, CallApproved
<1>2. PICK s \in Session : /\ s = [req[p].seen EXCEPT !.ticket = 0]
                           /\ s.status = "APPROVED" => Approved(s.user, req[p].code)
  <2> DEFINE s == [req[p].seen EXCEPT !.ticket = 0]
  <2>1. s \in Session /\ s.status = req[p].seen.status /\ s.user = req[p].seen.user
    BY DEF Session
  <2> QED
    BY <1>1, <2>1
<1>3. "find" \in Labels \ {"get", "load", "store", "taken"}
  BY DEF Labels
<1>4. /\ Goto(p, "find") /\ qr' = [qr EXCEPT ![req[p].code] = s]
      /\ UNCHANGED <<lock, rows, pages, tickets, approval, counts>>
  BY <1>2 DEF StoreTaken
<1> QED
  BY <1>1, <1>2, <1>3, <1>4, WriteKeeps

LEMMA FindPcKeeps ==
    ASSUME Approval, NEW p \in Proc, FindPc(p)
    PROVE  Approval'
<1> USE CallFacts
<1>1. req[p].at \in Exchanging /\ UNCHANGED <<store, pages, tickets, approval, counts>>
  BY DEF FindPc, Exchanging
<1>2. PICK l \in {"create", "revoke"} : Goto(p, l)
  BY DEF FindPc
<1>3. l \in Labels \ {"get", "load", "store", "taken"}
  BY DEF Labels
<1>4. RestOK'
  BY <1>1 DEF RestOK, store, pages, counts
<1> QED
  BY <1>1, <1>2, <1>3, <1>4, ExchangeGoes DEF store

\* An exchange writes PC sessions of its user on its code, or ends old ones.
LEMMA RowsKeep ==
    ASSUME Approval, NEW p \in Proc, req[p].at \in Exchanging,
           NEW l \in Labels \ {"get", "load", "store", "taken"}, Goto(p, l),
           rows' \in Seq(PcSession), RowsApproved',
           UNCHANGED <<qr, lock, pages, tickets, approval, counts>>
    PROVE  Approval'
<1> USE CallFacts
<1>1. req[p].user \in User /\ Approved(req[p].user, req[p].code)
  BY DEF HasUser, CallApproved, Exchanging
<1>2. CodesApproved'
  BY DEF Approval, CodesApproved, Approved
<1>3. RestOK'
  BY DEF RestOK, pages, counts
<1> QED
  BY <1>1, <1>2, <1>3, GotoKeeps

LEMMA RowFacts ==
    ASSUME rows \in Seq(PcSession)
    PROVE  /\ Len(rows) \in Nat /\ DOMAIN rows = 1..Len(rows)
           /\ \A i \in DOMAIN rows : rows[i] \in PcSession /\ rows[i].user \in User /\ rows[i].live \in BOOLEAN
<1>1. Len(rows) \in Nat /\ DOMAIN rows = 1..Len(rows)
  OBVIOUS
<1>2. ASSUME NEW i \in DOMAIN rows
      PROVE  rows[i] \in PcSession /\ rows[i].user \in User /\ rows[i].live \in BOOLEAN
  <2>1. rows[i] \in PcSession
    BY <1>1
  <2> QED
    BY <2>1 DEF PcSession
<1> QED
  BY <1>1, <1>2

\* The rows after a revocation of u's sessions.
LEMMA Revoked ==
    ASSUME rows \in Seq(PcSession), NEW u,
           rows' = [i \in DOMAIN rows |-> [rows[i] EXCEPT !.live = @ /\ rows[i].user # u]]
    PROVE  /\ rows' \in Seq(PcSession) /\ DOMAIN rows' = DOMAIN rows
           /\ \A i \in DOMAIN rows :
                /\ rows'[i].user = rows[i].user /\ rows'[i].code = rows[i].code
                /\ rows'[i].live <=> (rows[i].live /\ rows[i].user # u)
<1> USE RowFacts
<1>1. ASSUME NEW i \in DOMAIN rows
      PROVE  /\ [rows[i] EXCEPT !.live = @ /\ rows[i].user # u] \in PcSession
             /\ [rows[i] EXCEPT !.live = @ /\ rows[i].user # u].user = rows[i].user
             /\ [rows[i] EXCEPT !.live = @ /\ rows[i].user # u].code = rows[i].code
             /\ [rows[i] EXCEPT !.live = @ /\ rows[i].user # u].live
                  <=> (rows[i].live /\ rows[i].user # u)
  <2>1. PICK r \in PcSession : r = rows[i]
    OBVIOUS
  <2>2. (r.live /\ r.user # u) \in BOOLEAN
    OBVIOUS
  <2>3. /\ [r EXCEPT !.live = (r.live /\ r.user # u)] \in PcSession
        /\ [r EXCEPT !.live = (r.live /\ r.user # u)].user = r.user
        /\ [r EXCEPT !.live = (r.live /\ r.user # u)].code = r.code
        /\ [r EXCEPT !.live = (r.live /\ r.user # u)].live <=> (r.live /\ r.user # u)
    BY <2>2 DEF PcSession
  <2> QED
    BY <2>1, <2>3
<1>2. /\ DOMAIN rows' = 1..Len(rows)
      /\ \A i \in 1..Len(rows) : rows'[i] \in PcSession
  BY <1>1
<1>3. rows' \in Seq(PcSession)
  <2>1. rows' \in [1..Len(rows) -> PcSession]
    BY <1>2
  <2> QED
    BY <2>1, SeqDef
<1> QED
  BY <1>1, <1>2, <1>3

LEMMA RevokePcKeeps ==
    ASSUME Approval, NEW p \in Proc, RevokePc(p)
    PROVE  Approval'
<1> USE CallFacts
<1>1. req[p].at \in Exchanging /\ UNCHANGED <<qr, lock, pages, tickets, approval, counts>>
      /\ Goto(p, "create") /\ req[p].user \in User
  BY DEF RevokePc, Exchanging, HasUser
<1>2. PICK u \in User : u = req[p].user
  BY <1>1
<1>3. /\ rows' \in Seq(PcSession) /\ DOMAIN rows' = DOMAIN rows
      /\ \A i \in DOMAIN rows : rows'[i].user = rows[i].user /\ rows'[i].code = rows[i].code
  BY <1>2, Revoked DEF RevokePc, RestOK
<1>4. RowsApproved'
  BY <1>1, <1>3 DEF Approval, RowsApproved, Approved
<1>5. "create" \in Labels \ {"get", "load", "store", "taken"}
  BY DEF Labels
<1> QED
  BY <1>1, <1>3, <1>4, <1>5, RowsKeep

LEMMA CreateTokenKeeps ==
    ASSUME Approval, NEW p \in Proc, CreateToken(p)
    PROVE  Approval'
<1> USE CallFacts, RowFacts
<1>1. req[p].at \in Exchanging /\ UNCHANGED <<qr, lock, pages, tickets, approval, counts>>
      /\ Goto(p, "delete") /\ req[p].user \in User /\ Approved(req[p].user, req[p].code)
  BY DEF CreateToken, Exchanging, HasUser, CallApproved
<1>2. PICK r \in PcSession : /\ r.user = req[p].user /\ r.code = req[p].code
                             /\ rows' = Append(rows, r)
  <2> DEFINE r == [user |-> req[p].user, code |-> req[p].code,
                   ticket |-> req[p].ticket, live |-> TRUE]
  <2>1. r \in PcSession /\ r.user = req[p].user /\ r.code = req[p].code
    BY <1>1 DEF PcSession
  <2>2. rows' = Append(rows, r)
    BY DEF CreateToken
  <2> QED
    BY <2>1, <2>2
<1>3. /\ rows' \in Seq(PcSession) /\ Len(rows') = Len(rows) + 1
      /\ \A i \in 1..Len(rows) : rows'[i] = rows[i]
      /\ rows'[Len(rows) + 1] = r
  BY <1>2 DEF RestOK
<1>4. RowsApproved'
  <2> SUFFICES ASSUME NEW i \in DOMAIN rows' PROVE Approved(rows[i].user, rows[i].code)'
    BY DEF RowsApproved
  <2>1. CASE i \in DOMAIN rows
    BY <1>1, <1>3, <2>1 DEF RestOK, Approval, RowsApproved, Approved
  <2>2. CASE i \notin DOMAIN rows
    <3>1. DOMAIN rows' = 1..Len(rows')
      BY <1>3
    <3>2. i = Len(rows) + 1
      BY <1>3, <2>2, <3>1 DEF RestOK
    <3>3. rows'[i].user = req[p].user /\ rows'[i].code = req[p].code
      BY <1>2, <1>3, <3>2
    <3> QED
      BY <1>1, <3>3 DEF Approved
  <2> QED
    BY <2>1, <2>2
<1>5. "delete" \in Labels \ {"get", "load", "store", "taken"}
  BY DEF Labels
<1> QED
  BY <1>1, <1>3, <1>4, <1>5, RowsKeep

LEMMA DeleteSessionKeeps ==
    ASSUME Approval, NEW p \in Proc, DeleteSession(p)
    PROVE  Approval'
<1> USE CallFacts
<1>1. req[p].at = "delete" /\ req[p].user \in User /\ Approved(req[p].user, req[p].code)
  BY DEF DeleteSession, HasUser, CallApproved
<1>2. "release" \in Labels \ {"get", "load", "store", "taken"}
  BY DEF Labels
<1>3. /\ Goto(p, "release") /\ qr' = [qr EXCEPT ![req[p].code] = NULL]
      /\ UNCHANGED <<lock, rows, pages, tickets, approval, counts>>
  BY DEF DeleteSession
<1> QED
  BY <1>1, <1>2, <1>3, WriteKeeps

LEMMA ReleaseLockKeeps ==
    ASSUME Approval, NEW p \in Proc, ReleaseLock(p)
    PROVE  Approval'
<1> USE CallFacts
<1>1. req[p].at \in Exchanging /\ req[p].user \in User /\ Goto(p, "idle")
      /\ UNCHANGED <<qr, rows, known, tickets, approval, counts>>
  BY DEF ReleaseLock, Exchanging, HasUser
<1>2. lock' \in [User -> Proc \cup {NULL}] /\ busy' \in [Code -> BOOLEAN]
  BY DEF ReleaseLock, RestOK
<1>3. RestOK'
  BY <1>1, <1>2 DEF RestOK, counts
<1>4. "idle" \in Labels \ {"get", "load", "store", "taken"}
  BY DEF Labels
<1> QED
  BY <1>1, <1>3, <1>4, ExchangeGoes

\* Steps no call takes.
LEMMA CallsStand ==
    ASSUME Approval, UNCHANGED <<req, rows, approval>>, RestOK', CodesApproved'
    PROVE  Approval'
<1>1. TypeOK' /\ CallsOK'
  BY Parts DEF Approval, TypeOK, RestOK, CallsOK
<1>2. RowsApproved' /\ \A p \in Proc : CallApproved(req[p])'
  BY DEF Approval, RowsApproved, CallApproved, Approved
<1> QED
  BY <1>1, <1>2 DEF Approval

LEMMA OutsideKeeps ==
    ASSUME Approval,
           \/ \E c \in Code : Poll(c) \/ PageTimeout(c) \/ SessionExpires(c)
           \/ \E u \in User : LockExpires(u)
    PROVE  Approval'
<1>0. RestOK
  BY Parts DEF Approval
<1>1. ASSUME NEW c \in Code, Poll(c) PROVE Approval'
  <2>1. RestOK'
    <3>1. qr[c] \in Session
      BY <1>0, <1>1 DEF Poll, RestOK
    <3>2. qr[c].ticket \in Nat
      BY <3>1 DEF Session
    <3>3. known' \in [Code -> SUBSET Nat]
      BY <1>0, <1>1, <3>2 DEF Poll, RestOK
    <3> QED
      BY <1>0, <1>1, <3>3 DEF Poll, RestOK, store, counts
  <2>2. CodesApproved'
    BY <1>1, Still, SameStore DEF Poll, store
  <2> QED
    BY <1>1, <2>1, <2>2, CallsStand DEF Poll, store
<1>2. ASSUME NEW c \in Code, PageTimeout(c) PROVE Approval'
  <2>1. RestOK'
    BY <1>0, <1>2 DEF PageTimeout, RestOK, store, counts
  <2>2. CodesApproved'
    BY <1>2, Still, SameStore DEF PageTimeout, store
  <2> QED
    BY <1>2, <2>1, <2>2, CallsStand DEF PageTimeout, store
<1>3. ASSUME NEW c \in Code, SessionExpires(c) PROVE Approval'
  <2>1. qr' \in [Code -> Session \cup {NULL}] /\ CodesApproved'
    BY <1>3, WriteCode DEF SessionExpires
  <2>2. RestOK'
    BY <1>0, <1>3, <2>1 DEF SessionExpires, RestOK, pages, counts
  <2> QED
    BY <1>3, <2>1, <2>2, CallsStand DEF SessionExpires
<1>4. ASSUME NEW u \in User, LockExpires(u) PROVE Approval'
  <2>1. lock' \in [User -> Proc \cup {NULL}] /\ lapses' \in 0..MaxFaults
    BY <1>0, <1>4 DEF LockExpires, RestOK
  <2>2. RestOK'
    BY <1>0, <1>4, <2>1 DEF LockExpires, RestOK, pages
  <2>3. CodesApproved'
    BY <1>4, Still, SameStore DEF LockExpires
  <2> QED
    BY <1>4, <2>2, <2>3, CallsStand DEF LockExpires
<1> QED
  BY <1>1, <1>2, <1>3, <1>4

LEMMA FailKeeps ==
    ASSUME Approval, NEW p \in Proc, Fail(p)
    PROVE  Approval'
<1> USE CallFacts
<1>1. faults' \in 0..MaxFaults
  BY DEF Fail, RestOK
<1>2. RestOK' /\ UNCHANGED <<store, approval>>
  BY <1>1 DEF RestOK, Fail, store, pages
<1>3. CodesApproved' /\ RowsApproved'
  BY <1>2, Still, SameStore DEF store
<1>4. CASE Goto(p, "idle")
  <2>1. "idle" \in Labels \ {"get", "load", "store", "taken"} /\ "idle" \notin Exchanging
    BY DEF Labels, Exchanging
  <2> QED
    BY <1>2, <1>3, <1>4, <2>1, GotoKeeps
<1>5. CASE InLock(p) /\ Goto(p, "release")
  <2>1. req[p].at \in Exchanging /\ "release" \in Labels \ {"get", "load", "store", "taken"}
    BY <1>5 DEF InLock, Labels, Exchanging
  <2> QED
    BY <1>2, <1>5, <2>1, ExchangeGoes DEF store
<1> QED
  BY <1>4, <1>5 DEF Fail

LEMMA NextApproval == Approval /\ [Next]_vars => Approval'
<1> SUFFICES ASSUME Approval, [Next]_vars PROVE Approval'
  OBVIOUS
<1>1. ASSUME NEW p \in Proc, Step(p) PROVE Approval'
  BY <1>1, GetSessionKeeps, CheckTrustedKeeps, LoadKeeps, StoreKeeps, EmitKeeps,
     AcquireLockKeeps, IsTicketMatchKeeps, TakeTicketKeeps, StoreTakenKeeps, FindPcKeeps,
     RevokePcKeeps, CreateTokenKeeps, DeleteSessionKeeps, ReleaseLockKeeps DEF Step
<1>2. CASE UNCHANGED vars
  <2>1. RestOK'
    BY <1>2, Parts DEF Approval, RestOK, vars, store, pages, counts
  <2>2. CodesApproved'
    BY <1>2, Still, SameStore DEF vars, store
  <2> QED
    BY <1>2, <2>1, <2>2, CallsStand DEF vars, store
<1>3. ASSUME NEW p \in Proc,
             \/ \E o \in OpNames, u \in User, c \in Code : BeginPhone(p, o, u, c)
             \/ \E c \in Code, t \in 1..MaxCalls : BeginExchange(p, c, t)
      PROVE  Approval'
  BY <1>3, BeginKeeps
<1>4. ASSUME NEW p \in Proc, Fail(p) PROVE Approval'
  BY <1>4, FailKeeps
<1>5. CASE \/ \E c \in Code : Poll(c) \/ PageTimeout(c) \/ SessionExpires(c)
           \/ \E u \in User : LockExpires(u)
  BY <1>5, OutsideKeeps
<1> QED
  BY <1>1, <1>2, <1>3, <1>4, <1>5 DEF Next

-----------------------------------------------------------------------------
\* Every variable keeps its type.
THEOREM TypeCorrect == Spec => []TypeOK
<1>1. Approval => TypeOK
  BY DEF Approval
<1> QED
  BY <1>1, InitApproval, NextApproval, PTL DEF Spec

\* A page logs in nobody but a user who approved its code, however the reads
\* and writes of scans, confirmations, cancellations and exchanges of its
\* session interleave.
THEOREM LoginWasApprovedHolds == Spec => []LoginWasApproved
<1>1. Approval => LoginWasApproved
  BY DEF Approval, RowsApproved, Approved, LoginWasApproved
<1> QED
  BY <1>1, InitApproval, NextApproval, PTL DEF Spec

-----------------------------------------------------------------------------
(* One PC for each user: an exchange holds its user's lock until a lock      *)
(* expires under its holder, and logs in with no PC of the user left.        *)

Exclusion == \A p \in Proc : InLock(p) => lock[req[p].user] = p

Alone ==
    /\ \A u \in User : \A i, j \in LivePc(u) : i = j
    /\ \A p \in Proc : req[p].at = "create" => LivePc(req[p].user) = {}

OnlyOne == Approval /\ (lapses = 0 => Exclusion /\ Alone)

LEMMA InitOnlyOne == Init => OnlyOne
<1> SUFFICES ASSUME Init PROVE OnlyOne
  OBVIOUS
<1>1. \A p \in Proc : req[p] = Idle /\ req[p].at = "idle"
  BY IdleCall DEF Init
<1>2. DOMAIN rows = {}
  BY DEF Init
<1>3. Exclusion /\ Alone
  BY <1>1, <1>2 DEF Exclusion, Alone, InLock, LivePc
<1> QED
  BY <1>3, InitApproval DEF OnlyOne

\* A call that stays out of the lock, or goes on inside it for the same user
\* and not to the login, with locks and rows untouched, changes neither.
LEMMA QuietStep ==
    ASSUME OnlyOne, Approval', NEW p \in Proc, UNCHANGED <<lock, rows, lapses>>,
           \A q \in Proc \ {p} : req'[q] = req[q],
           InLock(p)' => InLock(p) /\ req'[p].user = req[p].user,
           req'[p].at = "create" => LivePc(req[p].user) = {}
    PROVE  OnlyOne'
<1> SUFFICES ASSUME lapses' = 0 PROVE Exclusion' /\ Alone'
  BY DEF OnlyOne
<1>1. Exclusion /\ Alone
  BY DEF OnlyOne
<1>2. Exclusion'
  BY <1>1 DEF Exclusion, InLock
<1>3. \A u : LivePc(u)' = LivePc(u)
  BY DEF LivePc
<1>4. ASSUME NEW q \in Proc, req'[q].at = "create" PROVE LivePc(req'[q].user) = {}
  BY <1>1, <1>4 DEF Alone, InLock
<1>5. Alone'
  BY <1>1, <1>3, <1>4 DEF Alone, LivePc
<1> QED
  BY <1>2, <1>5

\* Where the calls that hold no lock are.
Unlocked == {"idle", "get", "trust", "load", "store", "emit", "acquire"}

LEMMA BecomeMoves ==
    ASSUME Approval, NEW p \in Proc, NEW d, Become(p, d)
    PROVE  req'[p] = d /\ \A q \in Proc \ {p} : req'[q] = req[q]
  BY DEF Become, Approval, CallsOK

LEMMA GotoMoves ==
    ASSUME Approval, NEW p \in Proc, NEW l \in Labels, Goto(p, l)
    PROVE  /\ req'[p].at = l
           /\ l # "idle" => req'[p].user = req[p].user /\ req'[p].code = req[p].code
           /\ \A q \in Proc \ {p} : req'[q] = req[q]
<1>1. CASE l = "idle"
  BY <1>1, BecomeMoves, IdleCall DEF Goto, Become
<1>2. CASE l # "idle"
  <2> DEFINE d == [req[p] EXCEPT !.at = l]
  <2>1. d.at = l /\ d.user = req[p].user /\ d.code = req[p].code
    BY CallFacts, AtType
  <2>2. Become(p, d)
    BY <1>2 DEF Goto, Become
  <2> HIDE DEF d
  <2> QED
    BY <1>2, <2>1, <2>2, BecomeMoves
<1> QED
  BY <1>1, <1>2

\* A call that stays out of the lock.
StaysOut(p) == req'[p].at \in Unlocked /\ \A q \in Proc \ {p} : req'[q] = req[q]

LEMMA DrawOut ==
    ASSUME Approval, NEW p \in Proc, Draw(p, [req[p] EXCEPT !.at = "load"])
    PROVE  StaysOut(p)
<1> DEFINE d == [[req[p] EXCEPT !.at = "load"] EXCEPT !.ticket = tickets + 1, !.put = "APPROVED"]
<1>1. d.at = "load"
  <2>1. req[p] \in Call
    BY CallFacts
  <2> QED
    BY <2>1 DEF Call
<1>2. Become(p, d)
  BY DEF Draw
<1> HIDE DEF d
<1> QED
  BY <1>1, <1>2, BecomeMoves DEF StaysOut, Unlocked

LEMMA BecomeOut ==
    ASSUME Approval, NEW p \in Proc, NEW d, d.at \in Unlocked, Become(p, d)
    PROVE  StaysOut(p)
  BY BecomeMoves DEF StaysOut

LEMMA GotoOut ==
    ASSUME Approval, NEW p \in Proc, NEW l \in Unlocked, Goto(p, l)
    PROVE  StaysOut(p)
<1>1. l \in Labels
  BY DEF Unlocked, Labels
<1> QED
  BY <1>1, GotoMoves DEF StaysOut

LEMMA BeginsOut ==
    ASSUME Approval, NEW p \in Proc,
           \/ \E o \in OpNames, u \in User, c \in Code : BeginPhone(p, o, u, c)
           \/ \E c \in Code, t \in 1..MaxCalls : BeginExchange(p, c, t)
    PROVE  StaysOut(p) /\ UNCHANGED <<lock, rows, lapses>>
<1> USE DEF Unlocked
<1>1. ASSUME NEW o \in OpNames, NEW u \in User, NEW c \in Code, BeginPhone(p, o, u, c)
      PROVE  StaysOut(p) /\ UNCHANGED <<lock, rows, lapses>>
  <2> DEFINE d == [Idle EXCEPT !.at = "get", !.op = o, !.code = c, !.user = u]
  <2>1. d.at = "get"
    BY IdleCall DEF Call
  <2>2. Become(p, d) /\ UNCHANGED <<lock, rows, lapses>>
    BY <1>1 DEF BeginPhone, store
  <2> HIDE DEF d
  <2> QED
    BY <2>1, <2>2, BecomeOut
<1>2. ASSUME NEW c \in Code, NEW t \in 1..MaxCalls, BeginExchange(p, c, t)
      PROVE  StaysOut(p) /\ UNCHANGED <<lock, rows, lapses>>
  <2> DEFINE d == [Idle EXCEPT !.at = "get", !.op = "exchange", !.code = c, !.ticket = t]
  <2>1. d.at = "get"
    BY IdleCall DEF Call
  <2>2. Become(p, d) /\ UNCHANGED <<lock, rows, lapses>>
    BY <1>2 DEF BeginExchange, store
  <2> HIDE DEF d
  <2> QED
    BY <2>1, <2>2, BecomeOut
<1> QED
  BY <1>1, <1>2

LEMMA GetSessionOut ==
    ASSUME Approval, NEW p \in Proc, GetSession(p)
    PROVE  StaysOut(p) /\ UNCHANGED <<lock, rows, lapses>>
<1> USE DEF Unlocked
<1>0. UNCHANGED <<lock, rows, lapses>> /\ req[p] \in Call
  BY CallFacts DEF GetSession, store, counts
<1>1. CASE Goto(p, "idle")
  BY <1>0, <1>1, GotoOut
<1>2. CASE Goto(p, "trust")
  BY <1>0, <1>2, GotoOut
<1>3. CASE Draw(p, [req[p] EXCEPT !.at = "load"])
  BY <1>0, <1>3, DrawOut
<1>4. CASE Become(p, [req[p] EXCEPT !.at = "load", !.put = "CANCELLED"])
  <2> DEFINE d == [req[p] EXCEPT !.at = "load", !.put = "CANCELLED"]
  <2>1. d.at = "load" /\ Become(p, d)
    BY <1>0, <1>4 DEF Call
  <2> HIDE DEF d
  <2> QED
    BY <1>0, <2>1, BecomeOut
<1>5. CASE Become(p, [req[p] EXCEPT !.at = "acquire", !.user = qr[req[p].code].user])
  <2> DEFINE d == [req[p] EXCEPT !.at = "acquire", !.user = qr[req[p].code].user]
  <2>1. d.at = "acquire" /\ Become(p, d)
    BY <1>0, <1>5 DEF Call
  <2> HIDE DEF d
  <2> QED
    BY <1>0, <2>1, BecomeOut
<1> QED
  BY <1>1, <1>2, <1>3, <1>4, <1>5 DEF GetSession, Refused

LEMMA PhoneOut ==
    ASSUME Approval, NEW p \in Proc, CheckTrusted(p) \/ Load(p) \/ Store(p) \/ Emit(p)
    PROVE  StaysOut(p) /\ UNCHANGED <<lock, rows, lapses>>
<1> USE DEF Unlocked
<1>0. UNCHANGED <<lock, rows, lapses>> /\ req[p] \in Call
  BY CallFacts DEF CheckTrusted, Load, Store, Emit, store, counts
<1>1. CASE Goto(p, "emit") \/ Goto(p, "idle")
  BY <1>0, <1>1, GotoOut
<1>2. CASE Draw(p, [req[p] EXCEPT !.at = "load"])
  BY <1>0, <1>2, DrawOut
<1>3. CASE Become(p, [req[p] EXCEPT !.at = "load", !.put = "SCANNED"])
  <2> DEFINE d == [req[p] EXCEPT !.at = "load", !.put = "SCANNED"]
  <2>1. d.at = "load" /\ Become(p, d)
    BY <1>0, <1>3 DEF Call
  <2> HIDE DEF d
  <2> QED
    BY <1>0, <2>1, BecomeOut
<1>4. CASE Become(p, [req[p] EXCEPT !.at = "store", !.seen = qr[req[p].code]])
  <2> DEFINE d == [req[p] EXCEPT !.at = "store", !.seen = qr[req[p].code]]
  <2>1. d.at = "store" /\ Become(p, d)
    BY <1>0, <1>4 DEF Call
  <2> HIDE DEF d
  <2> QED
    BY <1>0, <2>1, BecomeOut
<1> QED
  BY <1>1, <1>2, <1>3, <1>4 DEF CheckTrusted, Load, Store, Emit

LEMMA OutKeeps ==
    ASSUME OnlyOne, Approval', NEW p \in Proc, StaysOut(p), UNCHANGED <<lock, rows, lapses>>
    PROVE  OnlyOne'
<1>1. ~InLock(p)' /\ req'[p].at # "create"
  BY DEF StaysOut, Unlocked, InLock
<1>2. \A q \in Proc \ {p} : req'[q] = req[q]
  BY DEF StaysOut
<1> QED
  BY <1>1, <1>2, QuietStep

\* An exchange that goes on under its lock and writes no row.
LEMMA InsideKeeps ==
    ASSUME OnlyOne, Approval', NEW p \in Proc, InLock(p), NEW l \in Labels \ {"get", "idle"}, Goto(p, l),
           l = "create" => LivePc(req[p].user) = {}, UNCHANGED <<lock, rows, lapses>>
    PROVE  OnlyOne'
<1>1. /\ req'[p].at = l /\ req'[p].user = req[p].user
      /\ \A q \in Proc \ {p} : req'[q] = req[q]
  BY GotoMoves DEF OnlyOne
<1> QED
  BY <1>1, QuietStep

LEMMA ExchangeKeeps ==
    ASSUME OnlyOne, Approval', NEW p \in Proc,
           \/ IsTicketMatch(p) \/ TakeTicket(p) \/ StoreTaken(p) \/ FindPc(p) \/ DeleteSession(p)
    PROVE  OnlyOne'
<1>0. InLock(p) /\ UNCHANGED <<lock, rows, lapses>> /\ Approval
  BY DEF OnlyOne, InLock, IsTicketMatch, TakeTicket, StoreTaken, FindPc, DeleteSession, store, counts
<1>1. ASSUME NEW l \in {"take", "release", "find", "revoke"}, Goto(p, l) PROVE OnlyOne'
  <2>1. l \in Labels \ {"get", "idle"} /\ l # "create"
    BY DEF Labels
  <2> QED
    BY <1>0, <1>1, <2>1, InsideKeeps
<1>2. CASE LivePc(req[p].user) = {} /\ Goto(p, "create")
  <2>1. "create" \in Labels \ {"get", "idle"}
    BY DEF Labels
  <2> QED
    BY <1>0, <1>2, <2>1, InsideKeeps
<1>3. CASE Become(p, [req[p] EXCEPT !.at = "taken", !.seen = qr[req[p].code]])
  <2> DEFINE d == [req[p] EXCEPT !.at = "taken", !.seen = qr[req[p].code]]
  <2>1. d.at = "taken" /\ d.user = req[p].user /\ Become(p, d)
    BY <1>0, <1>3, CallFacts DEF Call
  <2> HIDE DEF d
  <2>2. req'[p] = d /\ \A q \in Proc \ {p} : req'[q] = req[q]
    BY <1>0, <2>1, BecomeMoves
  <2> QED
    BY <1>0, <2>1, <2>2, QuietStep
<1> QED
  BY <1>1, <1>2, <1>3 DEF IsTicketMatch, TakeTicket, StoreTaken, FindPc, DeleteSession

\* A lock is set for a user under whose lock nobody is.
LEMMA AcquireKeeps ==
    ASSUME OnlyOne, Approval', NEW p \in Proc, AcquireLock(p)
    PROVE  OnlyOne'
<1>0. req[p].at = "acquire" /\ UNCHANGED <<rows, lapses>> /\ Approval /\ req[p].user \in User
  BY CallFacts DEF OnlyOne, AcquireLock, counts, HasUser
<1>1. CASE Refused(p) /\ UNCHANGED lock
  <2>1. StaysOut(p)
    BY <1>0, <1>1, GotoOut DEF Refused, Unlocked
  <2> QED
    BY <1>0, <1>1, <2>1, OutKeeps
<1>2. CASE /\ lock[req[p].user] = NULL /\ lock' = [lock EXCEPT ![req[p].user] = p]
           /\ Goto(p, "match")
  <2> SUFFICES ASSUME lapses' = 0 PROVE Exclusion' /\ Alone'
    BY DEF OnlyOne
  <2>1. Exclusion /\ Alone
    BY <1>0 DEF OnlyOne
  <2>2. /\ req'[p].at = "match" /\ req'[p].user = req[p].user
        /\ \A q \in Proc \ {p} : req'[q] = req[q]
    BY <1>0, <1>2, GotoMoves DEF Labels
  <2>3. lock \in [User -> Proc \cup {NULL}]
    BY <1>0, CallFacts DEF RestOK
  <2>4. ASSUME NEW q \in Proc, InLock(q)' PROVE lock'[req'[q].user] = q
    <3>1. CASE q = p
      BY <1>0, <1>2, <2>2, <2>3, <3>1
    <3>2. CASE q # p
      <4>1. InLock(q) /\ req'[q] = req[q]
        BY <2>2, <2>4, <3>2 DEF InLock
      <4>2. lock[req[q].user] = q
        BY <2>1, <4>1 DEF Exclusion
      <4>3. req[q].user # req[p].user
        BY <1>2, <4>2
      <4> QED
        BY <1>2, <2>3, <4>1, <4>2, <4>3
    <3> QED
      BY <3>1, <3>2
  <2>5. Alone'
    BY <1>0, <2>1, <2>2 DEF Alone, LivePc
  <2> QED
    BY <2>4, <2>5 DEF Exclusion
<1> QED
  BY <1>1, <1>2 DEF AcquireLock

\* The others under a lock have another user.
LEMMA OthersElsewhere ==
    ASSUME OnlyOne, lapses = 0, NEW p \in Proc, InLock(p), NEW q \in Proc \ {p}, InLock(q)
    PROVE  req[q].user # req[p].user /\ lock[req[q].user] = q
  BY DEF OnlyOne, Exclusion

LEMMA ReleaseKeeps ==
    ASSUME OnlyOne, Approval', NEW p \in Proc, ReleaseLock(p)
    PROVE  OnlyOne'
<1>0. InLock(p) /\ UNCHANGED <<rows, lapses>> /\ Approval /\ req[p].user \in User
  BY CallFacts DEF OnlyOne, ReleaseLock, InLock, counts, HasUser
<1> SUFFICES ASSUME lapses' = 0 PROVE Exclusion' /\ Alone'
  BY DEF OnlyOne
<1>1. Exclusion /\ Alone
  BY <1>0 DEF OnlyOne
<1>2. req'[p].at = "idle" /\ \A q \in Proc \ {p} : req'[q] = req[q]
  BY <1>0, GotoMoves DEF ReleaseLock, Labels
<1>3. ASSUME NEW q \in Proc, InLock(q)' PROVE lock'[req'[q].user] = q
  <2>1. q # p /\ InLock(q) /\ req'[q] = req[q]
    BY <1>2, <1>3 DEF InLock
  <2>2. req[q].user # req[p].user /\ lock[req[q].user] = q
    BY <1>0, <2>1, OthersElsewhere
  <2>3. lock \in [User -> Proc \cup {NULL}] /\ req[q].user \in User
    BY <1>0, <2>1, CallFacts DEF RestOK, HasUser, InLock
  <2> QED
    BY <2>1, <2>2, <2>3 DEF ReleaseLock
<1>4. Alone'
  BY <1>0, <1>1, <1>2 DEF Alone, LivePc
<1> QED
  BY <1>3, <1>4 DEF Exclusion

\* What a step under p's lock may do to the rows: those of other users stay.
LEMMA RowsStep ==
    ASSUME OnlyOne, Approval', lapses' = 0, NEW p \in Proc, InLock(p),
           NEW l \in Labels \ {"get", "idle"}, Goto(p, l), UNCHANGED <<lock, lapses>>,
           \A u \in User \ {req[p].user} : LivePc(u)' = LivePc(u),
           NEW u0 \in User, u0 = req[p].user,
           \A i, j \in LivePc(u0)' : i = j, l = "create" => LivePc(u0)' = {}
    PROVE  Exclusion' /\ Alone'
<1>1. /\ req'[p].at = l /\ req'[p].user = u0
      /\ \A q \in Proc \ {p} : req'[q] = req[q]
  BY GotoMoves DEF OnlyOne
<1>2. Exclusion /\ Alone
  BY DEF OnlyOne
<1>3. Exclusion'
  BY <1>1, <1>2 DEF Exclusion, InLock
<1>4. ASSUME NEW q \in Proc, req'[q].at = "create" PROVE LivePc(req[q].user)' = {}
  <2>1. CASE q = p
    BY <1>1, <1>4, <2>1
  <2>2. CASE q # p
    <3>1. req'[q] = req[q] /\ InLock(q) /\ req[q].at = "create"
      BY <1>1, <1>4, <2>2 DEF InLock
    <3>2. req[q].user # u0 /\ req[q].user \in User
      BY <2>2, <3>1, OthersElsewhere, CallFacts DEF OnlyOne, HasUser
    <3>3. LivePc(req[q].user) = {}
      BY <1>2, <3>1 DEF Alone
    <3>4. PICK v \in User : v = req[q].user
      BY <3>2
    <3>5. LivePc(v)' = {}
      BY <3>2, <3>3, <3>4
    <3> QED
      BY <3>1, <3>4, <3>5
  <2> QED
    BY <2>1, <2>2
<1>5. \A u \in User : \A i, j \in LivePc(u)' : i = j
  BY <1>2 DEF Alone
<1> QED
  BY <1>3, <1>4, <1>5 DEF Alone

LEMMA RevokeAlone ==
    ASSUME OnlyOne, Approval', NEW p \in Proc, RevokePc(p)
    PROVE  OnlyOne'
<1> USE DEF OnlyOne
<1>0. /\ InLock(p) /\ UNCHANGED <<lock, lapses>> /\ Goto(p, "create")
      /\ req[p].user \in User /\ rows \in Seq(PcSession)
  BY CallFacts DEF RevokePc, InLock, counts, HasUser, RestOK
<1> SUFFICES ASSUME lapses' = 0 PROVE Exclusion' /\ Alone'
  OBVIOUS
<1>1. PICK u0 \in User : u0 = req[p].user
  BY <1>0
<1>2. /\ DOMAIN rows' = DOMAIN rows
      /\ \A i \in DOMAIN rows : /\ rows'[i].user = rows[i].user
                                /\ rows'[i].live <=> (rows[i].live /\ rows[i].user # u0)
  BY <1>0, <1>1, Revoked DEF RevokePc
<1>3. \A u \in User \ {u0} : LivePc(u)' = LivePc(u)
  BY <1>2 DEF LivePc
<1>4. LivePc(u0)' = {}
  BY <1>2 DEF LivePc
<1>5. \A u \in User : \A i, j \in LivePc(u) : i = j
  BY <1>0 DEF Alone
<1>6. "create" \in Labels \ {"get", "idle"}
  BY DEF Labels
<1> HIDE DEF OnlyOne
<1> QED
  BY <1>0, <1>1, <1>3, <1>4, <1>5, <1>6, RowsStep

LEMMA CreateAlone ==
    ASSUME OnlyOne, Approval', NEW p \in Proc, CreateToken(p)
    PROVE  OnlyOne'
<1>0. /\ InLock(p) /\ UNCHANGED <<lock, lapses>> /\ Goto(p, "delete") /\ req[p].at = "create"
      /\ req[p].user \in User /\ rows \in Seq(PcSession)
  BY CallFacts DEF OnlyOne, CreateToken, InLock, counts, HasUser, RestOK
<1> SUFFICES ASSUME lapses' = 0 PROVE Exclusion' /\ Alone'
  BY DEF OnlyOne
<1>1. PICK u0 \in User : u0 = req[p].user
  BY <1>0
<1>2. PICK r \in PcSession : r.user = u0 /\ rows' = Append(rows, r)
  <2> DEFINE r == [user |-> req[p].user, code |-> req[p].code,
                   ticket |-> req[p].ticket, live |-> TRUE]
  <2>1. r \in PcSession /\ r.user = u0
    BY <1>0, <1>1, CallFacts DEF OnlyOne, PcSession
  <2>2. rows' = Append(rows, r)
    BY DEF CreateToken
  <2> QED
    BY <2>1, <2>2
<1>3. /\ DOMAIN rows' = DOMAIN rows \cup {Len(rows) + 1}
      /\ \A i \in DOMAIN rows : rows'[i] = rows[i]
      /\ rows'[Len(rows) + 1] = r
  <2>1. /\ Len(rows') = Len(rows) + 1 /\ DOMAIN rows' = 1..Len(rows')
        /\ Len(rows) \in Nat /\ DOMAIN rows = 1..Len(rows)
        /\ \A i \in 1..Len(rows) : rows'[i] = rows[i]
        /\ rows'[Len(rows) + 1] = r
    BY <1>0, <1>2
  <2> QED
    BY <2>1
<1>4. Alone
  BY <1>0 DEF OnlyOne
<1>5. LivePc(u0) = {}
  BY <1>0, <1>1, <1>4 DEF Alone
<1>6. ASSUME NEW u \in User \ {u0} PROVE LivePc(u)' = LivePc(u)
  <2> SUFFICES ASSUME NEW i PROVE i \in LivePc(u)' <=> i \in LivePc(u)
    BY DEF LivePc
  <2>1. CASE i = Len(rows) + 1
    <3>1. i \notin DOMAIN rows
      BY <1>0, <2>1
    <3>2. rows'[i].user = u0
      BY <1>2, <1>3, <2>1
    <3> QED
      BY <3>1, <3>2 DEF LivePc
  <2>2. CASE i # Len(rows) + 1
    BY <1>3, <2>2 DEF LivePc
  <2> QED
    BY <2>1, <2>2
<1>7. \A i \in LivePc(u0)' : i = Len(rows) + 1
  BY <1>3, <1>5 DEF LivePc
<1>8. \A u \in User : \A i, j \in LivePc(u) : i = j
  BY <1>4 DEF Alone
<1>9. "delete" \in Labels \ {"get", "idle"}
  BY DEF Labels
<1> QED
  BY <1>0, <1>1, <1>6, <1>7, <1>8, <1>9, RowsStep

LEMMA FailAlone ==
    ASSUME OnlyOne, Approval', NEW p \in Proc, Fail(p)
    PROVE  OnlyOne'
<1>0. UNCHANGED <<lock, rows, lapses>> /\ Approval
  BY DEF OnlyOne, Fail, store
<1>1. CASE Goto(p, "idle")
  BY <1>0, <1>1, GotoOut, OutKeeps DEF Unlocked
<1>2. CASE InLock(p) /\ Goto(p, "release")
  <2>1. "release" \in Labels \ {"get", "idle"}
    BY DEF Labels
  <2> QED
    BY <1>0, <1>2, <2>1, InsideKeeps
<1> QED
  BY <1>1, <1>2 DEF Fail

LEMMA StandAlone ==
    ASSUME OnlyOne, Approval', UNCHANGED <<req, lock, rows, lapses>>
    PROVE  OnlyOne'
  BY DEF OnlyOne, Exclusion, Alone, InLock, LivePc

\* A lock that runs out under its holder is counted.
LEMMA LockExpiresAlone ==
    ASSUME OnlyOne, Approval', NEW u \in User, LockExpires(u)
    PROVE  OnlyOne'
<1> SUFFICES ASSUME lapses' = 0 PROVE Exclusion' /\ Alone'
  BY DEF OnlyOne
<1>0. lapses \in Nat /\ lock \in [User -> Proc \cup {NULL}] /\ UNCHANGED <<rows, req>>
  BY DEF OnlyOne, Approval, TypeOK, LockExpires
<1>1. lapses = 0 /\ ~\E p \in Proc : lock[u] = p /\ InLock(p) /\ req[p].user = u
  BY <1>0 DEF LockExpires
<1>2. Exclusion /\ Alone
  BY <1>1 DEF OnlyOne
<1>3. ASSUME NEW q \in Proc, InLock(q)' PROVE lock'[req'[q].user] = q
  <2>1. InLock(q) /\ req'[q] = req[q] /\ lock[req[q].user] = q
    BY <1>0, <1>2, <1>3 DEF InLock, Exclusion
  <2>2. req[q].user # u /\ req[q].user \in User
    BY <1>1, <2>1, CallFacts DEF OnlyOne, HasUser, InLock
  <2> QED
    BY <1>0, <2>1, <2>2 DEF LockExpires
<1>4. Alone'
  BY <1>0, <1>2 DEF Alone, LivePc
<1> QED
  BY <1>3, <1>4 DEF Exclusion

LEMMA NextOnlyOne == OnlyOne /\ [Next]_vars => OnlyOne'
<1> SUFFICES ASSUME OnlyOne, [Next]_vars PROVE OnlyOne'
  OBVIOUS
<1>0. Approval /\ Approval'
  BY NextApproval DEF OnlyOne
<1>1. ASSUME NEW p \in Proc, Step(p) PROVE OnlyOne'
  <2>1. CASE GetSession(p) \/ CheckTrusted(p) \/ Load(p) \/ Store(p) \/ Emit(p)
    BY <1>0, <2>1, GetSessionOut, PhoneOut, OutKeeps
  <2>2. CASE \/ IsTicketMatch(p) \/ TakeTicket(p) \/ StoreTaken(p) \/ FindPc(p)
             \/ DeleteSession(p)
    BY <1>0, <2>2, ExchangeKeeps
  <2> QED
    BY <1>0, <1>1, <2>1, <2>2, AcquireKeeps, ReleaseKeeps, RevokeAlone, CreateAlone DEF Step
<1>2. ASSUME NEW p \in Proc,
             \/ \E o \in OpNames, u \in User, c \in Code : BeginPhone(p, o, u, c)
             \/ \E c \in Code, t \in 1..MaxCalls : BeginExchange(p, c, t)
      PROVE  OnlyOne'
  BY <1>0, <1>2, BeginsOut, OutKeeps
<1>3. ASSUME NEW p \in Proc, Fail(p) PROVE OnlyOne'
  BY <1>0, <1>3, FailAlone
<1>4. ASSUME NEW c \in Code, Poll(c) \/ PageTimeout(c) \/ SessionExpires(c) PROVE OnlyOne'
  BY <1>0, <1>4, StandAlone DEF Poll, PageTimeout, SessionExpires, store, counts
<1>5. ASSUME NEW u \in User, LockExpires(u) PROVE OnlyOne'
  BY <1>0, <1>5, LockExpiresAlone
<1>6. CASE UNCHANGED vars
  BY <1>0, <1>6, StandAlone DEF vars, store, counts
<1> QED
  BY <1>1, <1>2, <1>3, <1>4, <1>5, <1>6 DEF Next

\* A set whose members are all equal has at most one.
LEMMA AtMostOne ==
    ASSUME NEW S, \A i, j \in S : i = j
    PROVE  Cardinality(S) <= 1
<1>1. CASE S = {}
  BY <1>1, FS_EmptySet
<1>2. CASE S # {}
  <2>1. PICK i \in S : S = {i}
    BY <1>2
  <2> QED
    BY <2>1, FS_Singleton
<1> QED
  BY <1>1, <1>2

\* No user is logged in on two PCs, unless a lock expired under its holder.
THEOREM OnePcHolds == Spec => []OnePc
<1>1. OnlyOne => OnePc
  <2> SUFFICES ASSUME OnlyOne, lapses = 0, NEW u \in User PROVE Cardinality(LivePc(u)) <= 1
    BY DEF OnePc
  <2>1. \A i, j \in LivePc(u) : i = j
    BY DEF OnlyOne, Alone
  <2> QED
    BY <2>1, AtMostOne
<1> QED
  BY <1>1, InitOnlyOne, NextOnlyOne, PTL DEF Spec
=============================================================================
