--------------------------- MODULE SessionsProofs ---------------------------
(***************************************************************************)
(* Theorems about Sessions for every set of requests and devices and every *)
(* bound: the types, that a renewal keeps the password of its login, that  *)
(* a change replaces the password it verified, that the security lock is a *)
(* lease, that nobody is falsely found to reuse a token, and that a family *)
(* has one live token.                                                     *)
(*                                                                         *)
(* Inv says what a request carries from one await to the next, LockInv who *)
(* is inside the lock. Trees relates the rows, their ancestors and how     *)
(* often each was presented; the ancestors are a recursive function, whose *)
(* equation is part of the invariant.                                      *)
(***************************************************************************)
EXTENDS Sessions, SequenceTheorems, TLAPS

USE SessionsAssumption

-----------------------------------------------------------------------------
(* The rows.                                                                 *)

LEMMA TokenFacts ==
    ASSUME tokens \in Seq(Token)
    PROVE  /\ Len(tokens) \in Nat /\ DOMAIN tokens = 1..Len(tokens)
           /\ \A i \in DOMAIN tokens :
                /\ tokens[i] \in Token
                /\ tokens[i].dev \in Device /\ tokens[i].ver \in Nat /\ tokens[i].parent \in Nat
<1>1. Len(tokens) \in Nat /\ DOMAIN tokens = 1..Len(tokens)
  OBVIOUS
<1>2. ASSUME NEW i \in DOMAIN tokens
      PROVE  /\ tokens[i] \in Token
             /\ tokens[i].dev \in Device /\ tokens[i].ver \in Nat /\ tokens[i].parent \in Nat
  <2>1. tokens[i] \in Token
    BY <1>1
  <2> QED
    BY <2>1 DEF Token
<1> QED
  BY <1>1, <1>2

\* Another state of a row leaves what a renewal copies.
LEMMA OtherState ==
    ASSUME NEW t \in Token, NEW s \in States
    PROVE  /\ [t EXCEPT !.state = s] \in Token
           /\ [t EXCEPT !.state = s].ver = t.ver /\ [t EXCEPT !.state = s].parent = t.parent
           /\ [t EXCEPT !.state = s].dev = t.dev
  BY DEF Token

\* The same rows, perhaps in other states.
SameRows ==
    /\ tokens' \in Seq(Token) /\ Len(tokens') = Len(tokens)
    /\ \A i \in 1..Len(tokens) :
         /\ tokens'[i].ver = tokens[i].ver /\ tokens'[i].parent = tokens[i].parent
         /\ tokens'[i].dev = tokens[i].dev

\* A function that gives some rows another state.
LEMMA NewStates ==
    ASSUME tokens \in Seq(Token), NEW S, NEW s \in States,
           tokens' = [i \in DOMAIN tokens |->
                        IF i \in S THEN [tokens[i] EXCEPT !.state = s] ELSE tokens[i]]
    PROVE  SameRows
<1> USE TokenFacts
<1>1. ASSUME NEW i \in 1..Len(tokens)
      PROVE  /\ tokens'[i] \in Token
             /\ tokens'[i].ver = tokens[i].ver /\ tokens'[i].parent = tokens[i].parent
             /\ tokens'[i].dev = tokens[i].dev
  <2>1. PICK t \in Token : t = tokens[i]
    OBVIOUS
  <2>2. tokens'[i] = IF i \in S THEN [t EXCEPT !.state = s] ELSE t
    BY <2>1
  <2> QED
    BY <2>1, <2>2, OtherState
<1>2. DOMAIN tokens' = 1..Len(tokens)
  OBVIOUS
<1>3. tokens' \in [1..Len(tokens) -> Token]
  BY <1>1, <1>2
<1>4. tokens' \in Seq(Token) /\ Len(tokens') = Len(tokens)
  BY <1>3, SeqDef
<1> QED
  BY <1>1, <1>4 DEF SameRows

LEMMA RevokedRows ==
    ASSUME tokens \in Seq(Token), NEW S, NEW s \in States, tokens' = Revoked(S, s)
    PROVE  SameRows
<1>1. tokens' = [i \in DOMAIN tokens |->
                   IF i \in {j \in DOMAIN tokens : j \in S /\ Live(j)}
                   THEN [tokens[i] EXCEPT !.state = s] ELSE tokens[i]]
  BY DEF Revoked
<1> QED
  BY <1>1, NewStates

LEMMA KeptRows ==
    ASSUME tokens \in Seq(Token), tokens' = tokens
    PROVE  SameRows
  BY DEF SameRows

-----------------------------------------------------------------------------
(* The requests.                                                             *)

Locked == {"verify", "update", "uncache", "revoke", "spend", "release"}

\* What a request carries: a rotation the version of the token it renews, a
\* login no token.
Fits(c) ==
    /\ c.tok <= Len(tokens)
    /\ (c.at \in {"retire", "create"} /\ c.tok # 0) => c.ver = tokens[c.tok].ver
    /\ c.at \in {"lookup", "find", "replace"} => c.tok = 0

RestOK ==
    /\ tokens \in Seq(Token) /\ shown \in Seq(Nat) /\ Len(shown) = Len(tokens)
    /\ \A i \in DOMAIN tokens : tokens[i].parent <= Len(tokens)
    /\ version \in Nat \ {0} /\ profile \in Nat
    /\ lock \in Proc \cup {NULL} /\ permit \in BOOLEAN
    /\ calls \in 0..MaxCalls /\ lapses \in 0..MaxFaults /\ faults \in 0..MaxFaults

Inv ==
    /\ RestOK /\ req \in [Proc -> Request] /\ \A p \in Proc : Fits(req[p])
    /\ RenewalKeepsPassword

LEMMA InvTypes == Inv => TypeOK
  BY DEF Inv, RestOK, Fits, TypeOK

LEMMA IdleRequest ==
    Idle \in Request /\ Idle.at = "idle" /\ Idle.tok = 0 /\ Idle.ver = 0
  <1>1. (CHOOSE d \in Device : TRUE) \in Device
    OBVIOUS
  <1> QED
    BY <1>1 DEF Idle, Request, Labels, OpNames

LEMMA IdleFits == tokens \in Seq(Token) => Fits(Idle)
  BY IdleRequest, TokenFacts DEF Fits

\* The step that request p takes, from req[p] to d: it stays outside or inside
\* the lock, enters it, leaves it or dies in it.
Turn(p, d) ==
    /\ Become(p, d) /\ Fits(d) /\ lapses' = lapses
    /\ \/ lock' = lock /\ (d.at \in Locked <=> InLock(p))
       \/ req[p].at = "acquire" /\ d.at \in Locked /\ lock = NULL /\ lock' = p
       \/ req[p].at = "release" /\ d.at = "idle" /\ lock' = (IF lock = p THEN NULL ELSE lock)
       \/ InLock(p) /\ d.at = "idle" /\ lock' = lock
    /\ (d.at = "update" /\ d.op = "change") => d.ver = version /\ version' = version
    /\ version' # version => req[p].at = "update"

LEMMA RequestFacts ==
    ASSUME Inv, NEW p \in Proc
    PROVE  /\ req[p] \in Request /\ Fits(req[p]) /\ RestOK /\ tokens \in Seq(Token)
           /\ req[p].tok \in Nat /\ req[p].ver \in Nat /\ req[p].dev \in Device
           /\ req[p].op \in OpNames /\ req[p].at \in Labels
  BY DEF Inv, Request, RestOK

\* A request that goes on to a control point keeps its fields; one that ends
\* forgets them.
LEMMA GotoTurn ==
    ASSUME Inv, NEW p \in Proc, NEW l \in Labels, Goto(p, l)
    PROVE  \E d \in Request :
             /\ Become(p, d) /\ d.at = l
             /\ l = "idle" => d.tok = 0
             /\ l # "idle" => /\ d.op = req[p].op /\ d.tok = req[p].tok /\ d.ver = req[p].ver
                              /\ d.dev = req[p].dev /\ d.family = req[p].family
<1>1. CASE l = "idle"
  <2>1. Become(p, Idle)
    BY <1>1 DEF Goto
  <2> QED
    BY <1>1, <2>1, IdleRequest
<1>2. CASE l # "idle"
  <2> DEFINE d == [req[p] EXCEPT !.at = l]
  <2>1. /\ d \in Request /\ d.at = l /\ d.op = req[p].op /\ d.tok = req[p].tok
        /\ d.ver = req[p].ver /\ d.dev = req[p].dev /\ d.family = req[p].family
    BY RequestFacts DEF Request
  <2>2. Become(p, d)
    BY <1>2 DEF Goto
  <2> HIDE DEF d
  <2> QED
    BY <1>2, <2>1, <2>2
<1> QED
  BY <1>1, <1>2

\* It stays where it is in regard to the lock.
LEMMA GotoStays ==
    ASSUME Inv, NEW p \in Proc, NEW l \in Labels \ {"lookup", "find", "replace", "create", "retire", "update"},
           Goto(p, l), lapses' = lapses, lock' = lock, l \in Locked <=> InLock(p),
           version' # version => req[p].at = "update"
    PROVE  \E d \in Request : Turn(p, d)
<1>1. PICK d \in Request : /\ Become(p, d) /\ d.at = l
                           /\ l = "idle" => d.tok = 0
                           /\ l # "idle" => d.tok = req[p].tok
  BY GotoTurn
<1>2. Fits(d)
  BY <1>1, RequestFacts, TokenFacts DEF Fits
<1> QED
  BY <1>1, <1>2 DEF Turn

\* A request goes on with a record of its own making, outside the lock.
LEMMA BecomeStays ==
    ASSUME Inv, NEW p \in Proc, NEW d \in Request, Become(p, d), Fits(d),
           UNCHANGED <<lapses, lock, version>>, ~InLock(p), d.at \notin Locked
    PROVE  \E e \in Request : Turn(p, e)
<1>1. d.at # "update"
  BY DEF Locked
<1> QED
  BY <1>1 DEF Turn

LEMMA BeginTurn ==
    ASSUME Inv, NEW p \in Proc, NEW o \in OpNames, NEW r \in Request, Begin(p, o, r),
           r.at \in {"lookup", "row", "session", "acquire", "permit"}, r.tok <= Len(tokens),
           r.at = "lookup" => r.tok = 0
    PROVE  \E d \in Request : Turn(p, d)
<1> DEFINE d == [r EXCEPT !.op = o]
<1>1. d \in Request /\ d.at = r.at /\ d.tok = r.tok
  BY DEF Request
<1>2. Become(p, d) /\ UNCHANGED <<lapses, lock, version>> /\ ~InLock(p)
  BY DEF Begin, redis, InLock
<1> HIDE DEF d
<1>3. Fits(d) /\ d.at \notin Locked
  BY <1>1 DEF Fits, Locked
<1> QED
  BY <1>1, <1>2, <1>3, BecomeStays

LEMMA StartTurn ==
    ASSUME Inv, NEW p \in Proc, Start(p)
    PROVE  \E d \in Request : Turn(p, d)
<1> USE RequestFacts, TokenFacts, IdleRequest
<1>0. {"login", "rotate", "validate", "change", "reset"} \subseteq OpNames
      /\ {"lookup", "row", "session", "acquire", "permit"} \subseteq Labels
  BY DEF OpNames, Labels
<1>1. ASSUME NEW x \in Device, BeginLogin(p, x) PROVE \E d \in Request : Turn(p, d)
  <2> DEFINE r == [Idle EXCEPT !.at = "lookup", !.dev = x]
  <2>1. r \in Request /\ r.at = "lookup" /\ r.tok = 0
    BY <1>0 DEF Request
  <2>2. Begin(p, "login", r)
    BY <1>1 DEF BeginLogin
  <2> HIDE DEF r
  <2> QED
    BY <1>0, <2>1, <2>2, BeginTurn
<1>2. ASSUME NEW t \in DOMAIN tokens, NEW x \in Device, BeginRotate(p, t, x)
      PROVE  \E d \in Request : Turn(p, d)
  <2> DEFINE r == [Idle EXCEPT !.at = "row", !.tok = t, !.dev = x]
  <2>0. t \in Nat /\ t <= Len(tokens)
    OBVIOUS
  <2>1. r \in Request /\ r.at = "row" /\ r.tok = t
    BY <1>0, <2>0 DEF Request
  <2>2. Begin(p, "rotate", r)
    BY <1>2 DEF BeginRotate
  <2> HIDE DEF r
  <2> QED
    BY <1>0, <2>0, <2>1, <2>2, BeginTurn
<1>3. ASSUME NEW t \in DOMAIN tokens, BeginValidate(p, t) PROVE \E d \in Request : Turn(p, d)
  <2> DEFINE r == [Idle EXCEPT !.at = "session", !.tok = t]
  <2>0. t \in Nat /\ t <= Len(tokens)
    OBVIOUS
  <2>1. r \in Request /\ r.at = "session" /\ r.tok = t
    BY <1>0, <2>0 DEF Request
  <2>2. Begin(p, "validate", r)
    BY <1>3 DEF BeginValidate
  <2> HIDE DEF r
  <2> QED
    BY <1>0, <2>0, <2>1, <2>2, BeginTurn
<1>4. CASE BeginChange(p)
  <2> DEFINE r == [Idle EXCEPT !.at = "acquire", !.ver = version]
  <2>1. r \in Request /\ r.at = "acquire" /\ r.tok = 0
    BY <1>0 DEF Request, RestOK
  <2>2. Begin(p, "change", r)
    BY <1>4 DEF BeginChange
  <2> HIDE DEF r
  <2> QED
    BY <1>0, <2>1, <2>2, BeginTurn
<1>5. CASE BeginReset(p)
  <2> DEFINE r == [Idle EXCEPT !.at = "permit"]
  <2>1. r \in Request /\ r.at = "permit" /\ r.tok = 0
    BY <1>0 DEF Request
  <2>2. Begin(p, "reset", r)
    BY <1>5 DEF BeginReset
  <2> HIDE DEF r
  <2> QED
    BY <1>0, <2>1, <2>2, BeginTurn
<1> QED
  BY <1>1, <1>2, <1>3, <1>4, <1>5 DEF Start

LEMMA LoginTurn ==
    ASSUME Inv, NEW p \in Proc, Lookup(p) \/ FindSame(p) \/ Replace(p) \/ Create(p)
    PROVE  \E d \in Request : Turn(p, d)
<1> USE RequestFacts, TokenFacts
<1>0. UNCHANGED <<lapses, lock, version>> /\ ~InLock(p)
  BY DEF Lookup, FindSame, Replace, Create, redis, counts, InLock
<1>1. CASE Lookup(p)
  <2> DEFINE d == [req[p] EXCEPT !.at = "find", !.ver = version]
  <2>1. d \in Request /\ d.at = "find" /\ d.tok = req[p].tok
    BY DEF Request, RestOK, Labels
  <2>2. Become(p, d) /\ req[p].tok = 0
    BY <1>1 DEF Lookup, Fits
  <2> HIDE DEF d
  <2>3. Fits(d) /\ d.at \notin Locked
    BY <2>1, <2>2 DEF Fits, Locked
  <2> QED
    BY <1>0, <2>1, <2>2, <2>3, BecomeStays
<1>2. ASSUME NEW l \in {"replace", "create"}, Goto(p, l), req[p].at \in {"find", "replace"}
      PROVE  \E d \in Request : Turn(p, d)
  <2>1. PICK d \in Request : Become(p, d) /\ d.at = l /\ d.tok = req[p].tok
    BY <1>2, GotoTurn DEF Labels
  <2>2. Fits(d) /\ d.at \notin Locked
    BY <1>2, <2>1 DEF Fits, Locked
  <2> QED
    BY <1>0, <2>1, <2>2, BecomeStays
<1>3. CASE Create(p)
  <2>1. Become(p, Idle)
    BY <1>3 DEF Create, Goto
  <2> QED
    BY <1>0, <2>1, IdleRequest, IdleFits, BecomeStays DEF Locked
<1> QED
  BY <1>1, <1>2, <1>3 DEF FindSame, Replace

LEMMA RotateTurn ==
    ASSUME Inv, NEW p \in Proc, FindToken(p) \/ Retire(p) \/ FindFamily(p) \/ Condemn(p)
    PROVE  \E d \in Request : Turn(p, d)
<1> USE RequestFacts, TokenFacts
<1>0. UNCHANGED <<lapses, lock, version>> /\ ~InLock(p)
  BY DEF FindToken, Retire, FindFamily, Condemn, redis, counts, InLock
<1>1. CASE Renewable(req[p].tok, req[p].dev)
           /\ Become(p, [req[p] EXCEPT !.at = "retire", !.ver = version])
  <2> DEFINE d == [req[p] EXCEPT !.at = "retire", !.ver = version]
  <2>1. d \in Request /\ d.at = "retire" /\ d.tok = req[p].tok /\ d.ver = version
    BY DEF Request, RestOK, Labels
  <2>2. Become(p, d) /\ tokens[req[p].tok].ver = version
    BY <1>1 DEF Renewable
  <2> HIDE DEF d
  <2>3. Fits(d) /\ d.at \notin Locked
    BY <2>1, <2>2 DEF Fits, Locked
  <2> QED
    BY <1>0, <2>1, <2>2, <2>3, BecomeStays
<1>2. CASE Goto(p, "family") \/ Goto(p, "idle")
  BY <1>0, <1>2, GotoStays DEF Labels, Locked
<1>3. CASE Retire(p)
  <2>1. req[p].at = "retire" /\ Goto(p, "create")
    BY <1>3 DEF Retire
  <2>2. PICK d \in Request : /\ Become(p, d) /\ d.at = "create" /\ d.tok = req[p].tok
                             /\ d.ver = req[p].ver
    BY <2>1, GotoTurn DEF Labels
  <2>3. Fits(d) /\ d.at \notin Locked
    BY <2>1, <2>2 DEF Fits, Locked
  <2> QED
    BY <1>0, <2>2, <2>3, BecomeStays
<1>4. CASE FindFamily(p)
  <2> DEFINE d == [req[p] EXCEPT !.at = "condemn", !.family = Family(req[p].tok)]
  <2>1. Family(req[p].tok) \in SUBSET Nat
    BY DEF Family
  <2>2. d \in Request /\ d.at = "condemn" /\ d.tok = req[p].tok
    BY <2>1 DEF Request, Labels
  <2>3. Become(p, d)
    BY <1>4 DEF FindFamily
  <2> HIDE DEF d
  <2>4. Fits(d) /\ d.at \notin Locked
    BY <2>2 DEF Fits, Locked
  <2> QED
    BY <1>0, <2>2, <2>3, <2>4, BecomeStays
<1> QED
  BY <1>1, <1>2, <1>3, <1>4 DEF FindToken, Condemn

LEMMA ValidateTurn ==
    ASSUME Inv, NEW p \in Proc, FindSession(p) \/ GetProfile(p) \/ FindUser(p) \/ FillProfile(p) \/ FindPermit(p)
    PROVE  \E d \in Request : Turn(p, d)
<1> USE RequestFacts, TokenFacts
<1>0. UNCHANGED <<lapses, lock, version>> /\ ~InLock(p)
  BY DEF FindSession, GetProfile, FindUser, FillProfile, FindPermit, redis, counts, InLock
<1>1. ASSUME NEW l \in {"cached", "user", "acquire", "idle"}, Goto(p, l) PROVE \E d \in Request : Turn(p, d)
  <2>1. l \in Labels \ {"lookup", "find", "replace", "create", "retire", "update"} /\ l \notin Locked
    BY DEF Labels, Locked
  <2> QED
    BY <1>0, <1>1, <2>1, GotoStays
<1>2. CASE Become(p, [req[p] EXCEPT !.at = "fill", !.ver = version])
  <2> DEFINE d == [req[p] EXCEPT !.at = "fill", !.ver = version]
  <2>1. d \in Request /\ d.at = "fill" /\ d.tok = req[p].tok
    BY DEF Request, RestOK, Labels
  <2>2. Become(p, d)
    BY <1>2
  <2> HIDE DEF d
  <2>3. Fits(d) /\ d.at \notin Locked
    BY <2>1 DEF Fits, Locked
  <2> QED
    BY <1>0, <2>1, <2>2, <2>3, BecomeStays
<1>3. CASE Become(p, Idle)
  BY <1>1, <1>3 DEF Goto
<1> QED
  BY <1>1, <1>2, <1>3 DEF FindSession, GetProfile, FindUser, FillProfile, FindPermit

\* Inside the lock a request goes on to another point inside.
LEMMA GotoInside ==
    ASSUME Inv, NEW p \in Proc, NEW l \in Locked, Goto(p, l), InLock(p),
           UNCHANGED <<lapses, lock>>, version' # version => req[p].at = "update",
           (l = "update" /\ req[p].op = "change") => req[p].ver = version /\ version' = version
    PROVE  \E d \in Request : Turn(p, d)
<1>1. l \in Labels /\ l # "idle" /\ l \notin {"lookup", "find", "replace", "create", "retire"}
  BY DEF Locked, Labels
<1>2. PICK d \in Request : /\ Become(p, d) /\ d.at = l /\ d.op = req[p].op
                           /\ d.tok = req[p].tok /\ d.ver = req[p].ver
  BY <1>1, GotoTurn
<1>3. Fits(d)
  BY <1>1, <1>2, RequestFacts DEF Fits
<1> QED
  BY <1>2, <1>3 DEF Turn

\* It leaves the lock by dying or by its release.
LEMMA GotoIdle ==
    ASSUME Inv, NEW p \in Proc, Goto(p, "idle"), UNCHANGED <<lapses, version>>,
           \/ lock' = lock
           \/ req[p].at = "release" /\ lock' = (IF lock = p THEN NULL ELSE lock)
    PROVE  \E d \in Request : Turn(p, d)
<1>1. Become(p, Idle)
  BY DEF Goto
<1>2. Fits(Idle)
  BY RequestFacts, IdleFits
<1> QED
  BY <1>1, <1>2, IdleRequest DEF Turn, Locked

LEMMA LockTurn ==
    ASSUME Inv, NEW p \in Proc,
           Acquire(p) \/ Verify(p) \/ Update(p) \/ Uncache(p) \/ RevokeAll(p) \/ Spend(p) \/ Release(p)
    PROVE  \E d \in Request : Turn(p, d)
<1> USE RequestFacts, TokenFacts
<1>1. CASE Acquire(p) /\ lock = NULL /\ lock' = p
  <2>0. req[p].at = "acquire" /\ UNCHANGED <<lapses, version>>
    BY <1>1 DEF Acquire, counts
  <2>1. PICK l \in {"verify", "update"} : Goto(p, l) /\ (l = "update" => req[p].op # "change")
    BY <1>1 DEF Acquire
  <2>2. PICK d \in Request : Become(p, d) /\ d.at = l /\ d.op = req[p].op /\ d.tok = req[p].tok
    BY <2>1, GotoTurn DEF Labels
  <2>3. Fits(d) /\ d.at \in Locked
    BY <2>2 DEF Fits, Locked
  <2> QED
    BY <1>1, <2>0, <2>1, <2>2, <2>3 DEF Turn
<1>2. CASE Acquire(p) /\ Goto(p, "idle") /\ UNCHANGED lock
  BY <1>2, GotoIdle DEF Acquire, counts
<1>3. CASE Verify(p)
  <2>0. InLock(p) /\ UNCHANGED <<lapses, lock, version>>
    BY <1>3 DEF Verify, InLock, redis, counts
  <2>1. CASE req[p].ver = version /\ Goto(p, "update")
    BY <2>0, <2>1, GotoInside DEF Locked
  <2>2. CASE Goto(p, "release")
    BY <2>0, <2>2, GotoInside DEF Locked
  <2> QED
    BY <1>3, <2>1, <2>2 DEF Verify
<1>4. CASE Update(p)
  <2>1. InLock(p) /\ UNCHANGED <<lapses, lock>> /\ req[p].at = "update"
    BY <1>4 DEF Update, InLock, redis, counts
  <2>2. PICK l \in {"uncache", "revoke"} : Goto(p, l)
    BY <1>4 DEF Update
  <2> QED
    BY <2>1, <2>2, GotoInside DEF Locked
<1>5. CASE Uncache(p) \/ RevokeAll(p) \/ Spend(p)
  <2>1. InLock(p) /\ UNCHANGED <<lapses, lock, version>>
    BY <1>5 DEF Uncache, RevokeAll, Spend, InLock, redis, counts
  <2>2. PICK l \in {"revoke", "release", "spend"} : Goto(p, l)
    BY <1>5 DEF Uncache, RevokeAll, Spend
  <2> QED
    BY <2>1, <2>2, GotoInside DEF Locked
<1>6. CASE Release(p)
  BY <1>6, GotoIdle DEF Release, counts
<1> QED
  BY <1>1, <1>2, <1>3, <1>4, <1>5, <1>6 DEF Acquire

LEMMA FailTurn ==
    ASSUME Inv, NEW p \in Proc, Fail(p)
    PROVE  \E d \in Request : Turn(p, d)
<1>0. UNCHANGED <<lapses, lock, version>>
  BY DEF Fail, redis
<1>1. CASE Goto(p, "idle")
  BY <1>0, <1>1, GotoIdle
<1>2. CASE InLock(p) /\ Goto(p, "release")
  BY <1>0, <1>2, GotoInside DEF Locked
<1> QED
  BY <1>1, <1>2 DEF Fail

LEMMA EveryTurn ==
    ASSUME Inv, NEW p \in Proc, Start(p) \/ Step(p) \/ Fail(p)
    PROVE  \E d \in Request : Turn(p, d)
<1>1. ASSUME Step(p) PROVE \E d \in Request : Turn(p, d)
  BY <1>1, LoginTurn, RotateTurn, ValidateTurn, LockTurn DEF Step
<1> QED
  BY <1>1, StartTurn, FailTurn

-----------------------------------------------------------------------------
(* What the steps do to the rows.                                            *)

\* The rows stay, or a new one copies the version of its parent.
Extends ==
    /\ tokens' \in Seq(Token) /\ Len(tokens) <= Len(tokens')
    /\ \A i \in 1..Len(tokens) : tokens'[i].ver = tokens[i].ver

LEMMA SameExtends ==
    ASSUME Inv, SameRows
    PROVE  /\ Extends /\ RenewalKeepsPassword'
           /\ \A i \in DOMAIN tokens' : tokens'[i].parent <= Len(tokens')
<1> USE TokenFacts
<1>1. tokens \in Seq(Token) /\ \A i \in DOMAIN tokens : tokens[i].parent <= Len(tokens)
  BY DEF Inv, RestOK
<1>2. DOMAIN tokens' = 1..Len(tokens)
  BY <1>1 DEF SameRows
<1>3. ASSUME NEW i \in DOMAIN tokens', tokens'[i].parent # 0
      PROVE  tokens'[i].ver = tokens'[tokens'[i].parent].ver
  <2>1. /\ i \in DOMAIN tokens /\ tokens[i].parent \in 1..Len(tokens)
        /\ tokens'[i].parent = tokens[i].parent /\ tokens'[i].ver = tokens[i].ver
    BY <1>1, <1>2, <1>3 DEF SameRows
  <2>2. tokens[i].ver = tokens[tokens[i].parent].ver
    BY <2>1 DEF Inv, RenewalKeepsPassword
  <2> QED
    BY <2>1, <2>2 DEF SameRows
<1>4. Extends
  BY <1>1 DEF SameRows, Extends
<1> QED
  BY <1>1, <1>2, <1>3, <1>4 DEF SameRows, RenewalKeepsPassword

LEMMA CreateExtends ==
    ASSUME Inv, NEW p \in Proc, Create(p)
    PROVE  /\ Extends /\ RenewalKeepsPassword'
           /\ Len(tokens') = Len(tokens) + 1
           /\ \A i \in DOMAIN tokens' : tokens'[i].parent <= Len(tokens')
<1> USE RequestFacts, TokenFacts
<1>1. PICK r \in Token : /\ tokens' = Append(tokens, r)
                         /\ r.ver = req[p].ver /\ r.parent = req[p].tok
  <2> DEFINE r == Row(req[p].dev, req[p].ver, req[p].tok)
  <2>1. r \in Token /\ r.ver = req[p].ver /\ r.parent = req[p].tok
    BY DEF Row, Token, States
  <2>2. tokens' = Append(tokens, r)
    BY DEF Create
  <2> QED
    BY <2>1, <2>2
<1>2. r.parent \in Nat /\ r.parent <= Len(tokens) /\ (r.parent # 0 => r.ver = tokens[r.parent].ver)
  BY <1>1 DEF Create, Fits
<1>3. /\ tokens' \in Seq(Token) /\ Len(tokens') = Len(tokens) + 1
      /\ \A i \in 1..Len(tokens) : tokens'[i] = tokens[i]
      /\ tokens'[Len(tokens) + 1] = r
  BY <1>1
<1>4. DOMAIN tokens' = 1..(Len(tokens) + 1)
  BY <1>3
<1>5. Extends
  BY <1>3 DEF Extends
<1>6. ASSUME NEW i \in DOMAIN tokens'
      PROVE  /\ tokens'[i].parent \in Nat /\ tokens'[i].parent <= Len(tokens)
             /\ tokens'[i].parent # 0 => tokens'[i].ver = tokens'[tokens'[i].parent].ver
  <2>1. CASE i = Len(tokens) + 1
    BY <1>2, <1>3, <2>1
  <2>2. CASE i # Len(tokens) + 1
    <3>1. i \in DOMAIN tokens /\ tokens'[i] = tokens[i]
      BY <1>3, <1>4, <2>2
    <3>2. tokens[i].parent \in Nat /\ tokens[i].parent <= Len(tokens)
      BY <3>1 DEF RestOK
    <3>3. tokens[i].parent # 0 => tokens[i].ver = tokens[tokens[i].parent].ver
      BY <3>1 DEF Inv, RenewalKeepsPassword
    <3> QED
      BY <1>3, <3>1, <3>2, <3>3
  <2> QED
    BY <2>1, <2>2
<1> QED
  BY <1>3, <1>5, <1>6 DEF RenewalKeepsPassword

\* Every step but a login or a renewal leaves the rows or gives them a state.
LEMMA StepRows ==
    ASSUME Inv, NEW p \in Proc, Start(p) \/ Step(p) \/ Fail(p), ~Create(p)
    PROVE  SameRows
<1> USE RequestFacts
<1>1. CASE tokens' = tokens
  BY <1>1, KeptRows
<1>2. CASE Replace(p) \/ RevokeAll(p)
  BY <1>2, RevokedRows DEF Replace, RevokeAll, States
<1>3. CASE Retire(p)
  <2>1. tokens' = [i \in DOMAIN tokens |->
                     IF i \in {req[p].tok} THEN [tokens[i] EXCEPT !.state = "rotated"] ELSE tokens[i]]
    BY <1>3 DEF Retire
  <2> QED
    BY <2>1, NewStates DEF States
<1>4. CASE Condemn(p)
  BY <1>4, NewStates DEF Condemn, States
<1>5. CASE Start(p)
  BY <1>1, <1>5 DEF Start, BeginLogin, BeginRotate, BeginValidate, BeginChange, BeginReset, Begin
<1>6. CASE Fail(p)
  BY <1>1, <1>6 DEF Fail
<1>7. CASE \/ Lookup(p) \/ FindSame(p) \/ FindToken(p) \/ FindFamily(p)
           \/ FindSession(p) \/ GetProfile(p) \/ FindUser(p) \/ FillProfile(p)
           \/ FindPermit(p) \/ Acquire(p) \/ Verify(p) \/ Update(p) \/ Uncache(p)
           \/ Spend(p) \/ Release(p)
  BY <1>1, <1>7 DEF Lookup, FindSame, FindToken, FindFamily, FindSession, GetProfile, FindUser,
     FillProfile, FindPermit, Acquire, Verify, Update, Uncache, Spend, Release
<1> QED
  BY <1>2, <1>3, <1>4, <1>5, <1>6, <1>7 DEF Step

-----------------------------------------------------------------------------
(* The invariant.                                                            *)

\* The variables besides rows and requests.
CellsOK ==
    /\ version \in Nat \ {0} /\ profile \in Nat
    /\ lock \in Proc \cup {NULL} /\ permit \in BOOLEAN
    /\ calls \in 0..MaxCalls /\ lapses \in 0..MaxFaults /\ faults \in 0..MaxFaults

LEMMA StartCells ==
    ASSUME Inv, NEW p \in Proc, Start(p)
    PROVE  CellsOK' /\ shown' \in Seq(Nat) /\ Len(shown') = Len(shown)
<1> USE RequestFacts
<1>1. ASSUME NEW o, NEW r, Begin(p, o, r) PROVE CellsOK'
  BY <1>1 DEF Begin, RestOK, CellsOK, redis
<1>2. ASSUME NEW t \in DOMAIN tokens, NEW x \in Device, BeginRotate(p, t, x)
      PROVE  CellsOK' /\ shown' \in Seq(Nat) /\ Len(shown') = Len(shown)
  <2>1. CellsOK'
    BY <1>1, <1>2 DEF BeginRotate
  <2>2. shown \in Seq(Nat) /\ t \in 1..Len(shown)
    BY TokenFacts DEF RestOK
  <2>3. PICK n \in {1, 2} : shown' = [shown EXCEPT ![t] = @ + n]
    BY <1>2 DEF BeginRotate
  <2>4. shown' \in Seq(Nat) /\ Len(shown') = Len(shown)
    BY <2>2, <2>3
  <2> QED
    BY <2>1, <2>4
<1>3. ASSUME NEW o, NEW r, Begin(p, o, r), UNCHANGED shown
      PROVE  CellsOK' /\ shown' \in Seq(Nat) /\ Len(shown') = Len(shown)
  BY <1>1, <1>3 DEF RestOK
<1> QED
  BY <1>2, <1>3 DEF Start, BeginLogin, BeginValidate, BeginChange, BeginReset

LEMMA StepCells ==
    ASSUME Inv, NEW p \in Proc, Step(p)
    PROVE  CellsOK'
<1> USE RequestFacts DEF RestOK, CellsOK
<1>1. CASE \/ Lookup(p) \/ FindSame(p) \/ Replace(p) \/ Create(p)
           \/ FindToken(p) \/ Retire(p) \/ FindFamily(p) \/ Condemn(p)
           \/ FindSession(p) \/ GetProfile(p) \/ FindUser(p)
           \/ FindPermit(p) \/ Verify(p) \/ RevokeAll(p)
  BY <1>1 DEF Lookup, FindSame, Replace, Create, FindToken, Retire, FindFamily, Condemn, FindSession,
     GetProfile, FindUser, FindPermit, Verify, RevokeAll, redis, counts
<1>2. CASE FillProfile(p) \/ Uncache(p)
  BY <1>2 DEF FillProfile, Uncache, counts
<1>3. CASE Acquire(p) \/ Release(p)
  BY <1>3 DEF Acquire, Release, counts
<1>4. CASE Update(p)
  BY <1>4 DEF Update, redis, counts
<1>5. CASE Spend(p)
  BY <1>5 DEF Spend, counts
<1> QED
  BY <1>1, <1>2, <1>3, <1>4, <1>5 DEF Step

LEMMA StepShown ==
    ASSUME NEW p \in Proc, Step(p), ~Create(p)
    PROVE  shown' = shown
<1>1. CASE \/ Lookup(p) \/ FindSame(p) \/ Replace(p)
           \/ FindToken(p) \/ Retire(p) \/ FindFamily(p) \/ Condemn(p)
  BY <1>1 DEF Lookup, FindSame, Replace, FindToken, Retire, FindFamily, Condemn
<1>2. CASE \/ FindSession(p) \/ GetProfile(p) \/ FindUser(p) \/ FillProfile(p)
           \/ FindPermit(p) \/ Acquire(p) \/ Verify(p) \/ Update(p) \/ Uncache(p) \/ RevokeAll(p)
           \/ Spend(p) \/ Release(p)
  BY <1>2 DEF FindSession, GetProfile, FindUser, FillProfile, FindPermit, Acquire, Verify, Update,
     Uncache, RevokeAll, Spend, Release
<1> QED
  BY <1>1, <1>2 DEF Step

\* A request of another handler still fits: versions do not change.
LEMMA StillFits ==
    ASSUME Inv, Extends, NEW c \in Request, Fits(c)
    PROVE  Fits(c)'
<1>1. /\ c.tok \in Nat /\ Len(tokens) \in Nat /\ Len(tokens') \in Nat
      /\ Len(tokens) <= Len(tokens')
  BY DEF Extends, Request, Inv, RestOK
<1>2. c.tok # 0 => tokens'[c.tok].ver = tokens[c.tok].ver
  BY <1>1 DEF Extends, Fits
<1> QED
  BY <1>1, <1>2 DEF Fits

LEMMA TurnInv ==
    ASSUME Inv, NEW p \in Proc, NEW d \in Request, Turn(p, d), Extends, RestOK', RenewalKeepsPassword'
    PROVE  Inv'
<1>1. /\ req' \in [Proc -> Request] /\ req'[p] = d
      /\ \A q \in Proc \ {p} : req'[q] = req[q]
  BY DEF Turn, Become, Inv
<1>2. ASSUME NEW q \in Proc PROVE Fits(req[q])'
  <2>1. PICK c \in Request : req'[q] = c /\ Fits(c)
    BY <1>1 DEF Inv, Turn
  <2>2. Fits(c)'
    BY <2>1, StillFits
  <2> QED
    BY <2>1, <2>2 DEF Fits
<1> QED
  BY <1>1, <1>2 DEF Inv

LEMMA RequestInv ==
    ASSUME Inv, NEW p \in Proc, Start(p) \/ Step(p) \/ Fail(p)
    PROVE  Inv'
<1> USE RequestFacts, TokenFacts
<1>1. PICK d \in Request : Turn(p, d)
  BY EveryTurn
<1>2. /\ Extends /\ RenewalKeepsPassword'
      /\ Len(tokens') = Len(tokens) \/ (Create(p) /\ Len(tokens') = Len(tokens) + 1)
      /\ \A i \in DOMAIN tokens' : tokens'[i].parent <= Len(tokens')
  <2>1. CASE Create(p)
    BY <2>1, CreateExtends
  <2>2. CASE ~Create(p)
    BY <2>2, StepRows, SameExtends DEF SameRows
  <2> QED
    BY <2>1, <2>2
<1>3. CellsOK' /\ shown' \in Seq(Nat) /\ Len(shown') = Len(tokens')
  <2>1. CASE Start(p)
    <3>1. ~Create(p)
      <4>1. req[p].at = "idle"
        BY <2>1 DEF Start, BeginLogin, BeginRotate, BeginValidate, BeginChange, BeginReset, Begin
      <4> QED
        BY <4>1 DEF Create
    <3> QED
      BY <1>2, <2>1, <3>1, StartCells DEF RestOK
  <2>2. CASE Step(p) /\ ~Create(p)
    BY <1>2, <2>2, StepCells, StepShown DEF RestOK
  <2>3. CASE Create(p)
    <3>1. shown' = Append(shown, 0) /\ shown \in Seq(Nat) /\ Len(shown) = Len(tokens)
      BY <2>3 DEF Create, RestOK
    <3>2. shown' \in Seq(Nat) /\ Len(shown') = Len(shown) + 1
      BY <3>1
    <3>3. Len(tokens') = Len(tokens) + 1
      BY <2>3, CreateExtends
    <3>4. CellsOK'
      BY <2>3, StepCells DEF Step
    <3> QED
      BY <3>1, <3>2, <3>3, <3>4
  <2>4. CASE Fail(p) /\ ~Create(p)
    BY <1>2, <2>4 DEF Fail, RestOK, CellsOK, redis
  <2> QED
    BY <2>1, <2>2, <2>3, <2>4
<1>4. RestOK'
  BY <1>2, <1>3 DEF RestOK, CellsOK, Extends
<1> QED
  BY <1>1, <1>2, <1>4, TurnInv

\* Steps no request takes.
LEMMA OutsideInv ==
    ASSUME Inv,
           \/ \E x \in Device : LogOut(x)
           \/ ForceLogout \/ GrantReset \/ PermitExpires \/ ProfileExpires \/ LockExpires
           \/ UNCHANGED vars
    PROVE  Inv' /\ version' = version /\ req' = req
<1>0. RestOK /\ tokens \in Seq(Token)
  BY DEF Inv, RestOK
<1>1. SameRows
  <2>1. ASSUME NEW x \in Device, LogOut(x) PROVE SameRows
    BY <1>0, <2>1, RevokedRows DEF LogOut, States
  <2>2. CASE ForceLogout
    BY <1>0, <2>2, RevokedRows DEF ForceLogout, States
  <2>3. CASE GrantReset \/ PermitExpires \/ ProfileExpires \/ LockExpires \/ UNCHANGED vars
    BY <1>0, <2>3, KeptRows DEF GrantReset, PermitExpires, ProfileExpires, LockExpires, vars
  <2> QED
    BY <2>1, <2>2, <2>3
<1>2. UNCHANGED <<version, req, shown>> /\ CellsOK'
  <2>1. ASSUME NEW x \in Device, LogOut(x) PROVE UNCHANGED <<version, req, shown>> /\ CellsOK'
    BY <1>0, <2>1 DEF LogOut, RestOK, CellsOK, redis, counts
  <2>2. CASE ForceLogout \/ UNCHANGED vars
    BY <1>0, <2>2 DEF ForceLogout, vars, RestOK, CellsOK, redis, counts
  <2>3. CASE GrantReset \/ PermitExpires \/ ProfileExpires
    <3>1. permit' \in BOOLEAN
      BY <1>0, <2>3 DEF GrantReset, PermitExpires, ProfileExpires, RestOK
    <3>2. UNCHANGED <<version, req, shown>>
      BY <2>3 DEF GrantReset, PermitExpires, ProfileExpires
    <3>3. profile' \in Nat /\ UNCHANGED <<version, lock, calls, lapses, faults>>
      BY <1>0, <2>3 DEF GrantReset, PermitExpires, ProfileExpires, RestOK, counts
    <3> QED
      BY <1>0, <3>1, <3>2, <3>3 DEF RestOK, CellsOK
  <2>4. CASE LockExpires
    BY <1>0, <2>4 DEF LockExpires, RestOK, CellsOK
  <2> QED
    BY <2>1, <2>2, <2>3, <2>4
<1>3. /\ Extends /\ RenewalKeepsPassword'
      /\ \A i \in DOMAIN tokens' : tokens'[i].parent <= Len(tokens')
  BY <1>1, SameExtends
<1>4. RestOK'
  BY <1>0, <1>1, <1>2, <1>3 DEF RestOK, CellsOK, SameRows
<1>5. ASSUME NEW q \in Proc PROVE Fits(req[q])'
  <2>1. PICK c \in Request : req[q] = c /\ req'[q] = c /\ Fits(c)
    BY <1>2 DEF Inv
  <2>2. Fits(c)'
    BY <1>3, <2>1, StillFits
  <2> QED
    BY <2>1, <2>2 DEF Fits
<1> QED
  BY <1>2, <1>3, <1>4, <1>5 DEF Inv

LEMMA InitInv == Init => Inv
<1> SUFFICES ASSUME Init PROVE Inv
  OBVIOUS
<1>1. PICK x \in Device : tokens = <<Row(x, 1, 0)>>
  BY DEF Init
<1>2. PICK t \in Token : t = Row(x, 1, 0) /\ t.parent = 0
  <2>1. Row(x, 1, 0) \in Token
    BY SMTT(30) DEF Row, Token, States
  <2>2. Row(x, 1, 0).parent = 0
    BY DEF Row
  <2> QED
    BY <2>1, <2>2
<1>3. tokens \in Seq(Token) /\ Len(tokens) = 1 /\ DOMAIN tokens = {1} /\ tokens[1].parent = 0
  <2>1. tokens = <<t>>
    BY <1>1, <1>2
  <2>2. tokens \in Seq(Token) /\ Len(tokens) = 1 /\ tokens[1] = t
    BY <2>1
  <2>3. DOMAIN tokens = 1..1
    BY <2>2
  <2> QED
    BY <1>2, <2>2, <2>3
<1>4. shown \in Seq(Nat) /\ Len(shown) = 1
  BY DEF Init
<1>5. \A q \in Proc : req[q] = Idle /\ Fits(Idle)
  BY <1>3, IdleFits DEF Init
<1>6. req \in [Proc -> Request]
  BY IdleRequest DEF Init
<1>7. RestOK
  <2>1. /\ version = 1 /\ profile = 0 /\ lock = NULL /\ permit = FALSE
        /\ calls = 0 /\ lapses = 0 /\ faults = 0
    BY DEF Init
  <2>2. \A i \in DOMAIN tokens : tokens[i].parent <= Len(tokens)
    BY <1>3
  <2>3. permit \in BOOLEAN
    BY <2>1
  <2> QED
    BY <1>3, <1>4, <2>1, <2>2, <2>3 DEF RestOK
<1>8. RenewalKeepsPassword
  BY <1>3 DEF RenewalKeepsPassword
<1> QED
  BY <1>5, <1>6, <1>7, <1>8 DEF Inv

LEMMA NextInv == Inv /\ [Next]_vars => Inv'
  BY RequestInv, OutsideInv DEF Next

\* Rows, requests and cells keep their types, and rows name older rows.
THEOREM TypeCorrect == Spec => []TypeOK
  BY InvTypes, InitInv, NextInv, PTL DEF Spec

\* A renewed session keeps the password of the login it descends from, however
\* many rotations, changes and resets of the password are under way.
THEOREM RenewalKeepsPasswordHolds == Spec => []RenewalKeepsPassword
<1>1. Inv => RenewalKeepsPassword
  BY DEF Inv
<1> QED
  BY <1>1, InitInv, NextInv, PTL DEF Spec

-----------------------------------------------------------------------------
(* The security lock.                                                        *)

Inside == {<<q, "user">> : q \in {r \in Proc : InLock(r)}}

LEMMA TurnInside ==
    ASSUME Inv, NEW p \in Proc, NEW d \in Request, Turn(p, d)
    PROVE  /\ InLock(p)' <=> d.at \in Locked
           /\ \A q \in Proc \ {p} : (InLock(q)' <=> InLock(q)) /\ req'[q] = req[q]
           /\ req'[p] = d
<1>1. req' = [req EXCEPT ![p] = d] /\ req \in [Proc -> Request]
  BY DEF Turn, Become, Inv
<1>2. req'[p] = d /\ \A q \in Proc \ {p} : req'[q] = req[q]
  BY <1>1
<1> QED
  BY <1>2 DEF InLock, Locked

LEMMA TurnLease ==
    ASSUME Inv, NEW p \in Proc, NEW d \in Request, Turn(p, d)
    PROVE  [Lock!Next]_(Lock!vars)
<1>0. lock \in Proc \cup {NULL}
  BY DEF Inv, RestOK
<1>1. CASE lock' = lock /\ (d.at \in Locked <=> InLock(p))
  <2>1. Inside' = Inside
    BY <1>1, TurnInside DEF Inside
  <2> QED
    BY <1>1, <2>1 DEF Turn, Inside, Lock!vars
<1>2. CASE req[p].at = "acquire" /\ d.at \in Locked /\ lock = NULL /\ lock' = p
  <2>1. ~InLock(p) /\ Inside' = Inside \cup {<<p, "user">>}
    BY <1>2, TurnInside DEF Inside, InLock
  <2>2. Lock!Enter(p, "user")
    BY <1>2, <2>1 DEF Turn, Inside, Lock!Enter
  <2> QED
    BY <2>2 DEF Lock!Next
<1>3. CASE req[p].at = "release" /\ d.at = "idle" /\ lock' = (IF lock = p THEN NULL ELSE lock)
  <2>1. InLock(p) /\ Inside' = Inside \ {<<p, "user">>}
    BY <1>3, TurnInside DEF Inside, InLock, Locked
  <2>2. Lock!Leave(p, "user")
    BY <1>3, <2>1 DEF Turn, Inside, Lock!Leave
  <2> QED
    BY <2>2 DEF Lock!Next
<1>4. CASE InLock(p) /\ d.at = "idle" /\ lock' = lock
  <2>1. Inside' = Inside \ {<<p, "user">>}
    BY <1>4, TurnInside DEF Inside, Locked
  <2>2. Lock!Die(p, "user")
    BY <1>4, <2>1 DEF Turn, Inside, Lock!Die
  <2> QED
    BY <2>2 DEF Lock!Next
<1> QED
  BY <1>1, <1>2, <1>3, <1>4 DEF Turn

LEMMA OutsideLease ==
    ASSUME Inv, req' = req,
           \/ \E x \in Device : LogOut(x)
           \/ ForceLogout \/ GrantReset \/ PermitExpires \/ ProfileExpires \/ LockExpires
           \/ UNCHANGED vars
    PROVE  [Lock!Next]_(Lock!vars)
<1>0. lock \in Proc \cup {NULL} /\ Inside' = Inside
  BY DEF Inv, RestOK, Inside, InLock
<1>1. CASE LockExpires
  <2>1. lock # NULL /\ lock' = NULL /\ lapses' = IF InLock(lock) THEN lapses + 1 ELSE lapses
    BY <1>1 DEF LockExpires
  <2>2. <<lock, "user">> \in Inside <=> InLock(lock)
    BY <1>0, <2>1 DEF Inside
  <2>3. Lock!Lapse("user")
    BY <1>0, <2>1, <2>2 DEF Inside, Lock!Lapse
  <2> QED
    BY <2>3 DEF Lock!Next
<1>2. CASE UNCHANGED <<lock, lapses>>
  BY <1>0, <1>2 DEF Inside, Lock!vars
<1> QED
  BY <1>1, <1>2 DEF LogOut, ForceLogout, GrantReset, PermitExpires, ProfileExpires, vars, redis, counts

LEMMA LeaseStep == Inv /\ [Next]_vars => [Lock!Next]_(Lock!vars)
<1> SUFFICES ASSUME Inv, [Next]_vars PROVE [Lock!Next]_(Lock!vars)
  OBVIOUS
<1>1. ASSUME NEW p \in Proc, Start(p) \/ Step(p) \/ Fail(p) PROVE [Lock!Next]_(Lock!vars)
  BY <1>1, EveryTurn, TurnLease
<1> QED
  BY <1>1, OutsideInv, OutsideLease DEF Next

LEMMA LeaseInit == Init => Lock!Init
<1> SUFFICES ASSUME Init PROVE Lock!Init
  OBVIOUS
<1>1. \A q \in Proc : ~InLock(q)
  BY IdleRequest DEF Init, InLock
<1> QED
  BY <1>1 DEF Init, Lock!Init

\* runWithLock of the security service keeps the promises of a lease: every step
\* enters, leaves, dies in or lapses the lock of the user, or leaves it alone.
THEOREM SecurityLockIsLeaseHolds == Spec => SecurityLockIsLease
<1>1. Inv /\ [Next]_vars => Inv' /\ [Lock!Next]_(Lock!vars)
  BY NextInv, LeaseStep
<1> QED
  BY <1>1, InitInv, LeaseInit, PTL DEF Spec, SecurityLockIsLease, Lock!Spec

\* While nothing lapsed, who is inside holds the lock, and a change about to be
\* written verified the version that it replaces.
LockInv == Inv /\ (lapses = 0 => \A p \in Proc : InLock(p) => lock = p) /\ ChangeReplacesWhatItVerified

LEMMA TurnLockInv ==
    ASSUME LockInv, NEW p \in Proc, NEW d \in Request, Turn(p, d), lapses = 0
    PROVE  /\ \A q \in Proc : InLock(q)' => lock' = q
           /\ \A q \in Proc : (req'[q].at = "update" /\ req'[q].op = "change") => req'[q].ver = version'
<1> USE TurnInside DEF LockInv
<1>0. NULL \notin Proc /\ Inv
  BY SessionsAssumption
<1>1. ASSUME NEW q \in Proc, InLock(q)' PROVE lock' = q
  <2>1. CASE q = p
    BY <1>0, <1>1, <2>1 DEF Turn, InLock, Locked
  <2>2. CASE q # p
    <3>1. InLock(q) /\ lock = q
      BY <1>0, <1>1, <2>2
    <3>2. ~InLock(p)
      BY <2>2, <3>1
    <3> QED
      BY <1>0, <2>2, <3>1, <3>2 DEF Turn, InLock
  <2> QED
    BY <2>1, <2>2
<1>2. ASSUME NEW q \in Proc, req'[q].at = "update", req'[q].op = "change"
      PROVE  req'[q].ver = version'
  <2>1. CASE q = p
    BY <1>0, <1>2, <2>1 DEF Turn
  <2>2. CASE q # p
    <3>1. req'[q] = req[q] /\ req[q].ver = version
      BY <1>0, <1>2, <2>2 DEF ChangeReplacesWhatItVerified
    <3>2. lock = q
      BY <1>2, <3>1 DEF InLock
    <3>3. version' = version
      BY <2>2, <3>2 DEF Turn, InLock
    <3> QED
      BY <3>1, <3>3
  <2> QED
    BY <2>1, <2>2
<1> QED
  BY <1>1, <1>2

LEMMA NextLockInv == LockInv /\ [Next]_vars => LockInv'
<1> SUFFICES ASSUME LockInv, [Next]_vars PROVE LockInv'
  OBVIOUS
<1>0. Inv /\ Inv'
  BY NextInv DEF LockInv
<1>1. ASSUME NEW p \in Proc, Start(p) \/ Step(p) \/ Fail(p) PROVE LockInv'
  <2>1. PICK d \in Request : Turn(p, d)
    BY <1>0, <1>1, EveryTurn
  <2>2. lapses' = lapses
    BY <2>1 DEF Turn
  <2>3. CASE lapses = 0
    BY <1>0, <2>1, <2>3, TurnLockInv DEF LockInv, ChangeReplacesWhatItVerified
  <2>4. CASE lapses # 0
    BY <1>0, <2>2, <2>4 DEF LockInv, ChangeReplacesWhatItVerified
  <2> QED
    BY <2>3, <2>4
<1>2. CASE LockExpires
  <2>1. UNCHANGED <<req, version>> /\ lapses \in Nat
    BY <1>0, <1>2 DEF LockExpires, Inv, RestOK
  <2>2. CASE InLock(lock)
    <3>1. lapses' # 0
      BY <1>2, <2>1, <2>2 DEF LockExpires
    <3> QED
      BY <1>0, <3>1 DEF LockInv, ChangeReplacesWhatItVerified
  <2>3. CASE ~InLock(lock)
    <3>1. lapses' = lapses /\ (lapses = 0 => \A q \in Proc : ~InLock(q))
      BY <1>2, <2>3 DEF LockExpires, LockInv
    <3> QED
      BY <1>0, <2>1, <3>1 DEF LockInv, ChangeReplacesWhatItVerified, InLock
  <2> QED
    BY <2>2, <2>3
<1>3. CASE UNCHANGED <<lock, lapses, req, version>>
  BY <1>0, <1>3 DEF LockInv, ChangeReplacesWhatItVerified, InLock
<1> QED
  BY <1>1, <1>2, <1>3 DEF Next, LogOut, ForceLogout, GrantReset, PermitExpires, ProfileExpires,
     vars, redis, counts

\* A change of the password replaces the version it verified, for any number of
\* changes and resets in flight, as long as no lock expires under its holder.
THEOREM ChangeReplacesWhatItVerifiedHolds == Spec => []ChangeReplacesWhatItVerified
<1>1. Init => LockInv
  <2>1. Init => \A q \in Proc : req[q].at = "idle"
    BY IdleRequest DEF Init
  <2> QED
    BY <2>1, InitInv DEF LockInv, ChangeReplacesWhatItVerified, InLock
<1>2. LockInv => ChangeReplacesWhatItVerified
  BY DEF LockInv
<1> QED
  BY <1>1, <1>2, NextLockInv, PTL DEF Spec

-----------------------------------------------------------------------------
(* The trees of rows.  Up is a recursive function over the rows.  That one   *)
(* function satisfies its equation, and only one, is not assumed: it is part *)
(* of the invariant, and a row more extends the function by one value.       *)

\* f satisfies the equation of up in Up.
Walk(f) ==
    f = [n \in 0..Len(tokens) |->
           IF n = 0 THEN {} ELSE {n} \cup (IF tokens[n].parent < n THEN f[tokens[n].parent] ELSE {})]

Only(f) == Walk(f) /\ \A g : Walk(g) => g = f

LEMMA UpWalk == \A f : Only(f) => Up = [i \in DOMAIN tokens |-> f[i]]
<1> SUFFICES ASSUME NEW f, Only(f) PROVE Up = [i \in DOMAIN tokens |-> f[i]]
  OBVIOUS
<1> DEFINE c == CHOOSE g : Walk(g)
<1>1. Walk(c)
  BY Zenon DEF Only
<1>2. c = f
  BY <1>1, Zenon DEF Only
<1>3. Up = [i \in DOMAIN tokens |-> c[i]]
  BY DEF Up, Walk
<1> QED
  BY <1>2, <1>3

LEMMA UpWalkNext == \A f : Only(f)' => Up' = [i \in DOMAIN tokens' |-> f[i]]
<1>1. (\A f : Only(f) => Up = [i \in DOMAIN tokens |-> f[i]])'
  BY UpWalk, PTL
<1> QED
  BY <1>1

\* The equation, point by point.
Points(f) ==
    /\ f = [n \in 0..Len(tokens) |-> f[n]] /\ f[0] = {}
    /\ \A n \in 1..Len(tokens) :
         f[n] = {n} \cup (IF tokens[n].parent < n THEN f[tokens[n].parent] ELSE {})

LEMMA WalkPoints == tokens \in Seq(Token) => \A f : Walk(f) <=> Points(f)
<1> SUFFICES ASSUME tokens \in Seq(Token), NEW f PROVE Walk(f) <=> Points(f)
  OBVIOUS
<1>0. PICK m \in Nat : m = Len(tokens)
  BY TokenFacts
<1>1. ASSUME Walk(f) PROVE Points(f)
  <2>1. f = [n \in 0..m |-> IF n = 0 THEN {} ELSE {n} \cup (IF tokens[n].parent < n THEN f[tokens[n].parent] ELSE {})]
    BY <1>0, <1>1 DEF Walk
  <2>2. f = [n \in 0..m |-> f[n]]
    BY <2>1
  <2>3. f[0] = {}
    BY <2>1
  <2>4. ASSUME NEW n \in 1..m
        PROVE  f[n] = {n} \cup (IF tokens[n].parent < n THEN f[tokens[n].parent] ELSE {})
    <3>1. n \in 0..m /\ n # 0
      OBVIOUS
    <3>2. f[n] = IF n = 0 THEN {} ELSE {n} \cup (IF tokens[n].parent < n THEN f[tokens[n].parent] ELSE {})
      BY <2>1, <3>1
    <3> QED
      BY <3>1, <3>2, Zenon
  <2> QED
    BY <1>0, <2>2, <2>3, <2>4 DEF Points
<1>2. ASSUME Points(f) PROVE Walk(f)
  <2>0. f[0] = {}
    BY <1>2 DEF Points
  <2>3. \A n \in 1..m : f[n] = {n} \cup (IF tokens[n].parent < n THEN f[tokens[n].parent] ELSE {})
    BY <1>0, <1>2 DEF Points
  <2>1. ASSUME NEW n \in 0..m
        PROVE  f[n] = (IF n = 0 THEN {} ELSE {n} \cup (IF tokens[n].parent < n THEN f[tokens[n].parent] ELSE {}))
    <3>1. CASE n = 0
      BY <2>0, <3>1
    <3>2. CASE n \in 1..m
      <4>1. f[n] = {n} \cup (IF tokens[n].parent < n THEN f[tokens[n].parent] ELSE {})
        BY <2>3, <3>2
      <4>2. n # 0
        BY <3>2
      <4> QED
        BY <4>1, <4>2, Zenon
    <3> QED
      BY <3>1, <3>2
  <2>2. f = [n \in 0..m |-> f[n]]
    BY <1>0, <1>2 DEF Points
  <2> QED
    BY <1>0, <2>1, <2>2 DEF Walk
<1> QED
  BY <1>1, <1>2

LEMMA WalkPointsNext == tokens' \in Seq(Token) => \A f : Walk(f)' <=> Points(f)'
<1>1. (tokens \in Seq(Token) => \A f : Walk(f) <=> Points(f))'
  BY WalkPoints, PTL
<1> QED
  BY <1>1

\* The same rows have the same ancestors.
LEMMA SameUp ==
    ASSUME tokens \in Seq(Token), SameRows, NEW f, Only(f)
    PROVE  Only(f)' /\ Up' = Up /\ DOMAIN tokens' = DOMAIN tokens
<1> USE TokenFacts
<1>1. DOMAIN tokens' = 1..Len(tokens) /\ Len(tokens') = Len(tokens)
  BY DEF SameRows
<1>2. ASSUME NEW g PROVE Walk(g)' <=> Walk(g)
  <2>1. ASSUME NEW n \in 0..Len(tokens)
        PROVE  (IF n = 0 THEN {} ELSE {n} \cup (IF tokens'[n].parent < n THEN g[tokens'[n].parent] ELSE {}))
                 = (IF n = 0 THEN {} ELSE {n} \cup (IF tokens[n].parent < n THEN g[tokens[n].parent] ELSE {}))
    <3>1. n # 0 => tokens'[n].parent = tokens[n].parent
      BY DEF SameRows
    <3> QED
      BY <3>1
  <2> QED
    BY <1>1, <2>1 DEF Walk
<1>3. Only(f)'
  BY <1>2 DEF Only
<1>4. Up = [i \in DOMAIN tokens |-> f[i]] /\ Up' = [i \in DOMAIN tokens' |-> f[i]]
  BY <1>3, UpWalk, UpWalkNext
<1> QED
  BY <1>1, <1>3, <1>4

\* A new row has itself and the ancestors of its parent, the others keep theirs.
LEMMA AppendUp ==
    ASSUME tokens \in Seq(Token), NEW f, Only(f), NEW r \in Token, tokens' = Append(tokens, r),
           r.parent <= Len(tokens)
    PROVE  /\ \E g : Only(g)'
           /\ \A i \in 1..Len(tokens) : Up'[i] = Up[i]
           /\ Up'[Len(tokens) + 1]
                = {Len(tokens) + 1} \cup (IF r.parent = 0 THEN {} ELSE Up[r.parent])
<1>0. PICK m \in Nat, q \in Nat : m = Len(tokens) /\ q = r.parent /\ q <= m
  BY TokenFacts DEF Token
<1>1. /\ tokens' \in Seq(Token) /\ Len(tokens') = m + 1 /\ DOMAIN tokens' = 1..(m + 1)
      /\ DOMAIN tokens = 1..m /\ tokens'[m + 1].parent = q
      /\ \A n \in 1..m : tokens'[n].parent = tokens[n].parent /\ tokens[n].parent \in Nat
  BY <1>0, TokenFacts
<1>2. /\ f[0] = {}
      /\ \A n \in 1..m : f[n] = {n} \cup (IF tokens[n].parent < n THEN f[tokens[n].parent] ELSE {})
  <2>1. Points(f)
    BY WalkPoints DEF Only
  <2> QED
    BY <1>0, <2>1 DEF Points
<1>3. PICK g : g = [n \in 0..(m + 1) |-> IF n = m + 1 THEN {m + 1} \cup f[q] ELSE f[n]]
  OBVIOUS
<1>4. g = [n \in 0..(m + 1) |-> g[n]]
  BY <1>3
<1>5. \A n \in 0..m : g[n] = f[n]
  BY <1>3
<1>6. g[m + 1] = {m + 1} \cup f[q]
  BY <1>3
<1>7. g[q] = f[q]
  BY <1>0, <1>5
<1>8. g[0] = {}
  BY <1>2, <1>5
<1>9. Points(g)'
  <2>1. ASSUME NEW n \in 1..m
        PROVE  g[n] = {n} \cup (IF tokens'[n].parent < n THEN g[tokens'[n].parent] ELSE {})
    <3>0. PICK a \in Nat : a = tokens[n].parent /\ a = tokens'[n].parent
      BY <1>1
    <3>1. g[n] = f[n]
      BY <1>5
    <3>2. f[n] = {n} \cup (IF a < n THEN f[a] ELSE {})
      BY <1>2, <3>0
    <3>4. a < n => a \in 0..m
      OBVIOUS
    <3>3. a < n => g[a] = f[a]
      BY <1>5, <3>4
    <3> QED
      BY <3>0, <3>1, <3>2, <3>3
  <2>2. g[m + 1] = {m + 1} \cup (IF tokens'[m + 1].parent < m + 1 THEN g[tokens'[m + 1].parent] ELSE {})
    BY <1>0, <1>1, <1>6, <1>7
  <2>3. \A n \in 1..(m + 1) :
          g[n] = {n} \cup (IF tokens'[n].parent < n THEN g[tokens'[n].parent] ELSE {})
    <3> TAKE n \in 1..(m + 1)
    <3>1. n \in 1..m \/ n = m + 1
      OBVIOUS
    <3> QED
      BY <2>1, <2>2, <3>1
  <2>4. Len(tokens') = m + 1
    BY <1>1
  <2> QED
    BY <1>4, <1>8, <2>3, <2>4 DEF Points
<1>10. ASSUME NEW h, Points(h)' PROVE h = g
  <2>1. h = [n \in 0..(m + 1) |-> h[n]]
    BY <1>1, <1>10 DEF Points
  <2>2. h[0] = {}
    BY <1>10 DEF Points
  <2>3. \A n \in 1..(m + 1) :
          h[n] = {n} \cup (IF tokens'[n].parent < n THEN h[tokens'[n].parent] ELSE {})
    BY <1>1, <1>10 DEF Points
  <2>4. PICK k : k = [n \in 0..m |-> h[n]]
    OBVIOUS
  <2>5. k = [n \in 0..m |-> k[n]]
    BY <2>4
  <2>6. \A n \in 0..m : k[n] = h[n]
    BY <2>4
  <2>7. ASSUME NEW n \in 1..m
        PROVE  k[n] = {n} \cup (IF tokens[n].parent < n THEN k[tokens[n].parent] ELSE {})
    <3>0. PICK a \in Nat : a = tokens[n].parent /\ a = tokens'[n].parent
      BY <1>1
    <3>5. n \in 1..(m + 1)
      OBVIOUS
    <3>1. h[n] = {n} \cup (IF a < n THEN h[a] ELSE {})
      BY <2>3, <3>0, <3>5, Zenon
    <3>2. k[n] = h[n]
      BY <2>6
    <3>4. a < n => a \in 0..m
      OBVIOUS
    <3>3. a < n => k[a] = h[a]
      BY <2>6, <3>4
    <3> QED
      BY <3>0, <3>1, <3>2, <3>3
  <2>8. k[0] = {}
    BY <2>2, <2>6
  <2>9. Points(k)
    BY <1>0, <2>5, <2>7, <2>8 DEF Points
  <2>10. k = f
    BY <2>9, WalkPoints DEF Only
  <2>11. \A n \in 0..m : h[n] = f[n]
    BY <2>6, <2>10
  <2>12. h[m + 1] = {m + 1} \cup h[q]
    BY <1>0, <1>1, <2>3
  <2>13. h[q] = f[q]
    BY <1>0, <2>11
  <2>14. \A n \in 0..(m + 1) : h[n] = g[n]
    <3> TAKE n \in 0..(m + 1)
    <3>1. n \in 0..m \/ n = m + 1
      OBVIOUS
    <3> QED
      BY <1>5, <1>6, <2>11, <2>12, <2>13, <3>1
  <2> QED
    BY <1>4, <2>1, <2>14
<1>11. Only(g)'
  BY <1>1, <1>9, <1>10, WalkPointsNext DEF Only
<1>12. Up = [i \in DOMAIN tokens |-> f[i]] /\ Up' = [i \in DOMAIN tokens' |-> g[i]]
  BY <1>11, UpWalk, UpWalkNext
<1>13. \A i \in 1..m : Up[i] = f[i]
  BY <1>1, <1>12
<1>14. \A i \in 1..(m + 1) : Up'[i] = g[i]
  BY <1>1, <1>12
<1>15. \A i \in 1..m : Up'[i] = Up[i]
  BY <1>5, <1>13, <1>14
<1>16. Up'[m + 1] = {m + 1} \cup (IF q = 0 THEN {} ELSE Up[q])
  <2>1. Up'[m + 1] = {m + 1} \cup f[q]
    BY <1>6, <1>14
  <2>2. f[q] = IF q = 0 THEN {} ELSE Up[q]
    <3>1. CASE q = 0
      BY <1>2, <3>1
    <3>2. CASE q \in 1..m
      <4>1. Up[q] = f[q] /\ q # 0
        BY <1>13, <3>2
      <4> QED
        BY <4>1
    <3> QED
      BY <1>0, <3>1, <3>2
  <2> QED
    BY <2>1, <2>2
<1> QED
  BY <1>0, <1>11, <1>15, <1>16

-----------------------------------------------------------------------------
(* Who presented what.  A row with a child was presented once, and a rotation *)
(* in flight is a presentation of its own: a rotation that finds a child, or a *)
(* second rotation of the same row, means a row presented twice.              *)

\* The request c presents row t for rotation and has not ended.
Presents(c, t) == c.tok = t /\ c.at \in {"row", "retire", "create", "family", "condemn"}

\* The ancestors of a row are rows, and all but itself have been renewed.
Ancestry ==
    /\ \E f : Only(f)
    /\ \A i \in DOMAIN tokens : i \in Up[i] /\ Up[i] \subseteq DOMAIN tokens
    /\ \A i \in DOMAIN tokens : \A t \in Up[i] \ {i} : Children(t) # {}

\* A renewed row has been presented and is not live any more.
Spent == \A t \in DOMAIN tokens : Children(t) # {} => shown[t] >= 1 /\ ~Live(t)

\* Every presentation is counted: the rotations in flight and the one that made
\* the child add up.
Counted ==
    \A t \in DOMAIN tokens, p \in Proc :
        Presents(req[p], t) =>
            /\ shown[t] >= 1
            /\ Children(t) # {} => shown[t] >= 2
            /\ \A q \in Proc \ {p} : Presents(req[q], t) => shown[t] >= 2

\* What the rotation c has established: a condemned family goes back to a row
\* presented twice, a child is created after its parent was retired.
Judged(c) ==
    /\ c.at \in {"row", "retire", "family", "condemn"} => c.tok \in DOMAIN tokens
    /\ \A t \in DOMAIN tokens : Presents(c, t) =>
         /\ c.at = "row" /\ c.dev # tokens[t].dev => shown[t] >= 2
         /\ c.at \in {"family", "condemn"} => shown[t] >= 2
         /\ c.at = "condemn" => c.family \subseteq Family(t)
         /\ c.at = "create" => ~Live(t)

\* Two rows that descend from one login, in a tree where nothing was presented
\* twice, are on one branch.
OneBranch ==
    \A i, j \in DOMAIN tokens :
        (Up[i] \cap Up[j] # {} /\ \A k \in Up[i] \cup Up[j] : shown[k] <= 1)
            => i \in Up[j] \/ j \in Up[i]

Trees ==
    /\ Inv /\ Ancestry /\ Spent /\ Counted /\ OneBranch /\ NoFalseAlarm
    /\ \A p \in Proc : Judged(req[p])

LEMMA ShownFacts == Inv => \A i \in DOMAIN tokens : shown[i] \in Nat
<1> SUFFICES ASSUME Inv, NEW i \in DOMAIN tokens PROVE shown[i] \in Nat
  OBVIOUS
<1>1. shown \in Seq(Nat) /\ i \in 1..Len(shown)
  BY TokenFacts DEF Inv, RestOK
<1> QED
  BY <1>1

LEMMA ShownFactsNext == Inv' => \A i \in DOMAIN tokens' : shown'[i] \in Nat
<1>1. (Inv => \A i \in DOMAIN tokens : shown[i] \in Nat)'
  BY ShownFacts, PTL
<1> QED
  BY <1>1

\* The rows stay, no row comes back to life and nothing presented is forgotten.
Quiet ==
    /\ SameRows
    /\ \A i \in DOMAIN tokens : tokens'[i].state = "live" => tokens[i].state = "live"
    /\ \A i \in DOMAIN tokens : shown[i] <= shown'[i]

LEMMA QuietRows ==
    ASSUME Inv, Ancestry, Quiet
    PROVE  /\ Up' = Up /\ DOMAIN tokens' = DOMAIN tokens /\ \E f : Only(f)'
           /\ \A t : Children(t)' = Children(t) /\ Family(t)' = Family(t)
<1>0. tokens \in Seq(Token)
  BY DEF Inv, RestOK
<1>1. PICK f : Only(f)
  BY DEF Ancestry
<1>2. Only(f)' /\ Up' = Up /\ DOMAIN tokens' = DOMAIN tokens
  BY <1>0, <1>1, SameUp DEF Quiet
<1>3. \A i \in DOMAIN tokens : tokens'[i].parent = tokens[i].parent
  BY <1>0, TokenFacts DEF Quiet, SameRows
<1>4. ASSUME NEW t PROVE Children(t)' = Children(t) /\ Family(t)' = Family(t)
  BY <1>2, <1>3 DEF Children, Family
<1> QED
  BY <1>2, <1>4

\* A quiet step keeps what is known of the trees.
LEMMA QuietTrees ==
    ASSUME Trees, Inv', Quiet
    PROVE  Ancestry' /\ Spent' /\ OneBranch'
<1>0. /\ Up' = Up /\ DOMAIN tokens' = DOMAIN tokens /\ \E f : Only(f)'
      /\ \A t : Children(t)' = Children(t)
  BY QuietRows DEF Trees
<1>1. \A i \in DOMAIN tokens : shown[i] \in Nat /\ shown'[i] \in Nat /\ shown[i] <= shown'[i]
  BY <1>0, ShownFacts, ShownFactsNext DEF Trees, Quiet
<1>2. Ancestry'
  BY <1>0 DEF Trees, Ancestry
<1>3. Spent'
  <2> SUFFICES ASSUME NEW t \in DOMAIN tokens, Children(t) # {} PROVE shown'[t] >= 1 /\ tokens'[t].state # "live"
    BY <1>0 DEF Spent, Live
  <2>1. shown[t] >= 1 /\ tokens[t].state # "live"
    BY DEF Trees, Spent, Live
  <2> QED
    BY <1>1, <2>1 DEF Quiet
<1>4. OneBranch'
  <2> SUFFICES ASSUME NEW i \in DOMAIN tokens, NEW j \in DOMAIN tokens, Up[i] \cap Up[j] # {},
                      \A k \in Up[i] \cup Up[j] : shown'[k] <= 1
               PROVE  i \in Up[j] \/ j \in Up[i]
    BY <1>0 DEF OneBranch
  <2>1. \A k \in Up[i] \cup Up[j] : k \in DOMAIN tokens
    BY DEF Trees, Ancestry
  <2>2. \A k \in Up[i] \cup Up[j] : shown[k] <= 1
    BY <1>1, <2>1
  <2> QED
    BY <2>2 DEF Trees, OneBranch
<1> QED
  BY <1>2, <1>3, <1>4

LEMMA QuietJudged ==
    ASSUME Trees, Inv', Quiet, NEW c, Judged(c)
    PROVE  Judged(c)'
<1>0. DOMAIN tokens' = DOMAIN tokens /\ \A t : Family(t)' = Family(t)
  BY QuietRows DEF Trees
<1>1. \A i \in DOMAIN tokens : shown[i] \in Nat /\ shown'[i] \in Nat /\ shown[i] <= shown'[i]
  BY <1>0, ShownFacts, ShownFactsNext DEF Trees, Quiet
<1>2. \A t \in DOMAIN tokens : tokens'[t].dev = tokens[t].dev
  BY TokenFacts DEF Trees, Inv, RestOK, Quiet, SameRows
<1>3. ASSUME NEW t \in DOMAIN tokens, Presents(c, t)
      PROVE  /\ c.at = "row" /\ c.dev # tokens'[t].dev => shown'[t] >= 2
             /\ c.at \in {"family", "condemn"} => shown'[t] >= 2
             /\ c.at = "condemn" => c.family \subseteq Family(t)'
             /\ c.at = "create" => ~Live(t)'
  <2>1. /\ c.at = "row" /\ c.dev # tokens[t].dev => shown[t] >= 2
        /\ c.at \in {"family", "condemn"} => shown[t] >= 2
        /\ c.at = "condemn" => c.family \subseteq Family(t)
        /\ c.at = "create" => ~Live(t)
    BY <1>3 DEF Judged
  <2>2. shown[t] >= 2 => shown'[t] >= 2
    BY <1>1
  <2>3. ~Live(t) => ~Live(t)'
    BY DEF Quiet, Live
  <2> QED
    BY <1>0, <1>2, <2>1, <2>2, <2>3
<1> QED
  BY <1>0, <1>3 DEF Judged, Presents

\* A request that goes on presents nothing it did not present before.
LEMMA QuietCounted ==
    ASSUME Trees, Inv', Quiet,
           \A q \in Proc, t \in DOMAIN tokens : Presents(req'[q], t) => Presents(req[q], t)
    PROVE  Counted'
<1>0. DOMAIN tokens' = DOMAIN tokens /\ \A t : Children(t)' = Children(t)
  BY QuietRows DEF Trees
<1> SUFFICES ASSUME NEW t \in DOMAIN tokens, NEW p \in Proc, Presents(req'[p], t)
             PROVE  /\ shown'[t] >= 1
                    /\ Children(t)' # {} => shown'[t] >= 2
                    /\ \A q \in Proc \ {p} : Presents(req'[q], t) => shown'[t] >= 2
  BY <1>0 DEF Counted, Presents
<1>1. shown[t] \in Nat /\ shown'[t] \in Nat /\ shown[t] <= shown'[t]
  BY <1>0, ShownFacts, ShownFactsNext DEF Trees, Quiet
<1>2. /\ shown[t] >= 1 /\ (Children(t) # {} => shown[t] >= 2)
      /\ \A q \in Proc \ {p} : Presents(req[q], t) => shown[t] >= 2
  BY DEF Trees, Counted
<1> QED
  BY <1>0, <1>1, <1>2

LEMMA QuietAlarm ==
    ASSUME Trees, Inv', Quiet,
           \A i \in DOMAIN tokens : tokens'[i].state = "reuse" =>
              tokens[i].state = "reuse" \/ \E j \in DOMAIN tokens : shown[j] >= 2 /\ i \in Family(j)
    PROVE  NoFalseAlarm'
<1>0. DOMAIN tokens' = DOMAIN tokens /\ \A t : Family(t)' = Family(t)
  BY QuietRows DEF Trees
<1>1. \A i \in DOMAIN tokens : shown[i] \in Nat /\ shown'[i] \in Nat /\ shown[i] <= shown'[i]
  BY <1>0, ShownFacts, ShownFactsNext DEF Trees, Quiet
<1> SUFFICES ASSUME NEW i \in DOMAIN tokens, tokens'[i].state = "reuse"
             PROVE  \E j \in DOMAIN tokens : shown'[j] >= 2 /\ i \in Family(j)
  BY <1>0 DEF NoFalseAlarm
<1>2. PICK j \in DOMAIN tokens : shown[j] >= 2 /\ i \in Family(j)
  BY DEF Trees, NoFalseAlarm
<1> QED
  BY <1>1, <1>2

-----------------------------------------------------------------------------
(* What the steps do to the trees.                                           *)

LEMMA NewStateOf ==
    ASSUME tokens \in Seq(Token), NEW S, NEW s \in States,
           tokens' = [i \in DOMAIN tokens |->
                        IF i \in S THEN [tokens[i] EXCEPT !.state = s] ELSE tokens[i]]
    PROVE  \A i \in DOMAIN tokens : tokens'[i].state = IF i \in S THEN s ELSE tokens[i].state
<1> SUFFICES ASSUME NEW i \in DOMAIN tokens
             PROVE  tokens'[i].state = IF i \in S THEN s ELSE tokens[i].state
  OBVIOUS
<1>1. PICK t \in Token : t = tokens[i]
  BY TokenFacts
<1>2. tokens'[i] = IF i \in S THEN [t EXCEPT !.state = s] ELSE t
  BY <1>1
<1>3. [t EXCEPT !.state = s].state = s
  BY DEF Token
<1> QED
  BY <1>1, <1>2, <1>3

\* No row comes to life, and none is called reused.
Sober ==
    \A i \in DOMAIN tokens :
        /\ tokens'[i].state = "live" => tokens[i].state = "live"
        /\ tokens'[i].state = "reuse" => tokens[i].state = "reuse"

LEMMA RevokedSober ==
    ASSUME tokens \in Seq(Token), NEW S, NEW s \in States \ {"live", "reuse"}, tokens' = Revoked(S, s)
    PROVE  Sober
<1> DEFINE T == {j \in DOMAIN tokens : j \in S /\ Live(j)}
<1>1. tokens' = [i \in DOMAIN tokens |->
                   IF i \in T THEN [tokens[i] EXCEPT !.state = s] ELSE tokens[i]]
  BY DEF Revoked
<1> HIDE DEF T
<1>2. \A i \in DOMAIN tokens : tokens'[i].state = IF i \in T THEN s ELSE tokens[i].state
  BY <1>1, NewStateOf
<1> QED
  BY <1>2 DEF Sober

LEMMA StepSober ==
    ASSUME Inv, NEW p \in Proc, Start(p) \/ Step(p) \/ Fail(p), ~Create(p), ~Condemn(p)
    PROVE  Sober
<1> USE RequestFacts
<1>1. CASE tokens' = tokens
  BY <1>1 DEF Sober
<1>2. CASE Replace(p) \/ RevokeAll(p)
  BY <1>2, RevokedSober DEF Replace, RevokeAll, States
<1>3. CASE Retire(p)
  <2>1. tokens' = [i \in DOMAIN tokens |->
                     IF i \in {req[p].tok} THEN [tokens[i] EXCEPT !.state = "rotated"] ELSE tokens[i]]
    BY <1>3 DEF Retire
  <2>2. \A i \in DOMAIN tokens :
          tokens'[i].state = IF i \in {req[p].tok} THEN "rotated" ELSE tokens[i].state
    BY <2>1, NewStateOf DEF States
  <2> QED
    BY <2>2 DEF Sober
<1>5. CASE Start(p)
  BY <1>1, <1>5 DEF Start, BeginLogin, BeginRotate, BeginValidate, BeginChange, BeginReset, Begin
<1>6. CASE Fail(p)
  BY <1>1, <1>6 DEF Fail
<1>7. CASE \/ Lookup(p) \/ FindSame(p) \/ FindToken(p) \/ FindFamily(p)
           \/ FindSession(p) \/ GetProfile(p) \/ FindUser(p) \/ FillProfile(p)
           \/ FindPermit(p) \/ Acquire(p) \/ Verify(p) \/ Update(p) \/ Uncache(p)
           \/ Spend(p) \/ Release(p)
  BY <1>1, <1>7 DEF Lookup, FindSame, FindToken, FindFamily, FindSession, GetProfile, FindUser,
     FillProfile, FindPermit, Acquire, Verify, Update, Uncache, Spend, Release
<1> QED
  BY <1>2, <1>3, <1>5, <1>6, <1>7 DEF Step

\* A row presented is not presented less.
LEMMA StartShown ==
    ASSUME Inv, NEW p \in Proc, Start(p)
    PROVE  \A i \in DOMAIN tokens : shown[i] <= shown'[i]
<1>0. shown \in Seq(Nat) /\ DOMAIN shown = DOMAIN tokens /\ \A i \in DOMAIN tokens : shown[i] \in Nat
  BY ShownFacts, TokenFacts DEF Inv, RestOK
<1>1. ASSUME NEW t \in DOMAIN tokens, NEW x \in Device, BeginRotate(p, t, x)
      PROVE  \A i \in DOMAIN tokens : shown[i] <= shown'[i]
  <2>1. PICK n \in {1, 2} : shown' = [shown EXCEPT ![t] = @ + n]
    BY <1>1 DEF BeginRotate
  <2> QED
    BY <1>0, <2>1
<1>2. CASE shown' = shown
  BY <1>0, <1>2
<1> QED
  BY <1>1, <1>2 DEF Start, BeginLogin, BeginValidate, BeginChange, BeginReset

LEMMA StepQuiet ==
    ASSUME Inv, NEW p \in Proc, Start(p) \/ Step(p) \/ Fail(p), ~Create(p),
           \A i \in DOMAIN tokens : tokens'[i].state = "live" => tokens[i].state = "live"
    PROVE  Quiet
<1>1. SameRows
  BY StepRows
<1>2. \A i \in DOMAIN tokens : shown[i] <= shown'[i]
  <2>1. CASE Start(p)
    BY <2>1, StartShown
  <2>2. CASE shown' = shown
    BY <2>2, ShownFacts
  <2> QED
    BY <2>1, <2>2, StepShown DEF Fail
<1> QED
  BY <1>1, <1>2 DEF Quiet

\* A quiet step of a request that establishes what its next record says.
LEMMA MoveTrees ==
    ASSUME Trees, Inv', Quiet, NEW p \in Proc, NEW d, Become(p, d), Judged(d)', NoFalseAlarm',
           \A t \in DOMAIN tokens : Presents(d, t) => Presents(req[p], t)
    PROVE  Trees'
<1>1. req'[p] = d /\ \A q \in Proc \ {p} : req'[q] = req[q]
  BY DEF Become, Trees, Inv
<1>2. Counted'
  BY <1>1, QuietCounted
<1>3. \A q \in Proc : Judged(req[q])'
  <2> SUFFICES ASSUME NEW q \in Proc PROVE Judged(req[q])'
    OBVIOUS
  <2>1. PICK c : c = req'[q] /\ (c = d \/ c = req[q])
    BY <1>1
  <2>2. Judged(c)'
    <3>1. CASE c = req[q]
      <4>1. Judged(c)
        BY <3>1 DEF Trees
      <4> QED
        BY <4>1, QuietJudged
    <3>2. CASE c = d
      BY <3>2
    <3> QED
      BY <2>1, <3>1, <3>2
  <2> QED
    BY <2>1, <2>2 DEF Judged, Presents
<1> QED
  BY <1>2, <1>3, QuietTrees DEF Trees

\* A request that presents nothing.
Mute(d) ==
    d.at \notin {"row", "retire", "family", "condemn"} /\ (d.at = "create" => d.tok = 0)

LEMMA MuteTrees ==
    ASSUME Trees, Inv', Quiet, Sober, NEW p \in Proc, NEW d, Become(p, d), Mute(d)
    PROVE  Trees'
<1>3. DOMAIN tokens' = DOMAIN tokens /\ \A t \in DOMAIN tokens : t # 0
  BY QuietRows, TokenFacts DEF Trees, Inv, RestOK
<1>4. \A t \in DOMAIN tokens : ~Presents(d, t)
  BY <1>3 DEF Presents, Mute
<1>1. Judged(d)' /\ \A t \in DOMAIN tokens : ~Presents(d, t)
  BY <1>3, <1>4 DEF Judged, Presents, Mute
<1>2. NoFalseAlarm'
  BY QuietAlarm DEF Sober
<1> QED
  BY <1>1, <1>2, MoveTrees

LEMMA GotoMute ==
    ASSUME Inv, NEW p \in Proc, NEW l \in Labels, Goto(p, l),
           l \notin {"row", "retire", "family", "condemn"}, l = "create" => req[p].tok = 0
    PROVE  \E d : Become(p, d) /\ Mute(d)
<1>1. PICK d \in Request : Become(p, d) /\ d.at = l /\ (l # "idle" => d.tok = req[p].tok)
  BY GotoTurn
<1> QED
  BY <1>1 DEF Mute

\* The steps that present nothing: all but the start of a rotation, its steps up
\* to the creation of the child, and that creation.
LEMMA MuteMoves ==
    ASSUME Inv, NEW p \in Proc,
           \/ \E x \in Device : BeginLogin(p, x)
           \/ \E t \in DOMAIN tokens : BeginValidate(p, t)
           \/ BeginChange(p) \/ BeginReset(p) \/ Fail(p)
           \/ Lookup(p) \/ FindSame(p) \/ Replace(p) \/ Condemn(p)
           \/ FindSession(p) \/ GetProfile(p) \/ FindUser(p) \/ FillProfile(p)
           \/ FindPermit(p) \/ Acquire(p) \/ Verify(p) \/ Update(p) \/ Uncache(p) \/ RevokeAll(p)
           \/ Spend(p) \/ Release(p)
    PROVE  \E d : Become(p, d) /\ Mute(d)
<1> USE RequestFacts
<1>1. ASSUME NEW o, NEW r \in Request, Begin(p, o, r), r.at \in {"lookup", "session", "acquire", "permit"}
      PROVE  \E d : Become(p, d) /\ Mute(d)
  <2> DEFINE d == [r EXCEPT !.op = o]
  <2>1. d.at = r.at
    BY DEF Request
  <2>2. Become(p, d)
    BY <1>1 DEF Begin
  <2> HIDE DEF d
  <2> QED
    BY <1>1, <2>1, <2>2 DEF Mute
<1>2. ASSUME NEW x \in Device, BeginLogin(p, x) PROVE \E d : Become(p, d) /\ Mute(d)
  <2> DEFINE r == [Idle EXCEPT !.at = "lookup", !.dev = x]
  <2>1. r \in Request /\ r.at = "lookup" /\ Begin(p, "login", r)
    BY <1>2, IdleRequest DEF BeginLogin, Request, Labels
  <2> HIDE DEF r
  <2> QED
    BY <1>1, <2>1
<1>3. ASSUME NEW t \in DOMAIN tokens, BeginValidate(p, t) PROVE \E d : Become(p, d) /\ Mute(d)
  <2> DEFINE r == [Idle EXCEPT !.at = "session", !.tok = t]
  <2>0. t \in Nat
    BY TokenFacts
  <2>1. r \in Request /\ r.at = "session" /\ Begin(p, "validate", r)
    BY <1>3, <2>0, IdleRequest DEF BeginValidate, Request, Labels
  <2> HIDE DEF r
  <2> QED
    BY <1>1, <2>1
<1>4. CASE BeginChange(p)
  <2> DEFINE r == [Idle EXCEPT !.at = "acquire", !.ver = version]
  <2>1. r \in Request /\ r.at = "acquire" /\ Begin(p, "change", r)
    BY <1>4, IdleRequest DEF BeginChange, Request, Labels, RestOK
  <2> HIDE DEF r
  <2> QED
    BY <1>1, <2>1
<1>5. CASE BeginReset(p)
  <2> DEFINE r == [Idle EXCEPT !.at = "permit"]
  <2>1. r \in Request /\ r.at = "permit" /\ Begin(p, "reset", r)
    BY <1>5, IdleRequest DEF BeginReset, Request, Labels
  <2> HIDE DEF r
  <2> QED
    BY <1>1, <2>1
<1>6. ASSUME NEW l \in Labels, Goto(p, l), l \notin {"row", "retire", "family", "condemn", "create"}
      PROVE  \E d : Become(p, d) /\ Mute(d)
  BY <1>6, GotoMute
<1>7. CASE Lookup(p)
  <2> DEFINE d == [req[p] EXCEPT !.at = "find", !.ver = version]
  <2>1. d.at = "find" /\ Become(p, d)
    BY <1>7 DEF Lookup, Request
  <2> QED
    BY <2>1 DEF Mute
<1>8. CASE FindSame(p) \/ Replace(p)
  <2>1. Goto(p, "replace") \/ (Goto(p, "create") /\ req[p].tok = 0)
    BY <1>8 DEF FindSame, Replace, Fits
  <2> QED
    BY <2>1, GotoMute DEF Labels
<1>9. CASE FindUser(p)
  <2> DEFINE d == [req[p] EXCEPT !.at = "fill", !.ver = version]
  <2>1. d.at = "fill" /\ Idle.at = "idle"
    BY IdleRequest DEF Request
  <2>2. Become(p, d) \/ Become(p, Idle)
    BY <1>9 DEF FindUser
  <2> HIDE DEF d
  <2> QED
    BY <2>1, <2>2 DEF Mute
<1>10. CASE \/ Fail(p) \/ Condemn(p) \/ FindSession(p) \/ GetProfile(p) \/ FillProfile(p)
            \/ FindPermit(p) \/ Acquire(p) \/ Verify(p) \/ Update(p) \/ Uncache(p) \/ RevokeAll(p)
            \/ Spend(p) \/ Release(p)
  <2>1. \E l \in {"idle", "release", "cached", "user", "acquire", "verify", "update", "uncache", "revoke",
                  "spend"} : Goto(p, l)
    BY <1>10 DEF Fail, Condemn, FindSession, GetProfile, FillProfile, FindPermit, Acquire, Verify, Update,
                 Uncache, RevokeAll, Spend, Release
  <2> QED
    BY <1>6, <2>1 DEF Labels
<1> QED
  BY <1>2, <1>3, <1>4, <1>5, <1>7, <1>8, <1>9, <1>10

\* The rows a condemned rotation updates go back to a row presented twice.
LEMMA CondemnTrees ==
    ASSUME Trees, Inv', NEW p \in Proc, Condemn(p)
    PROVE  Trees'
<1> DEFINE c == req[p]
<1>0. Inv /\ (Start(p) \/ Step(p) \/ Fail(p))
  BY DEF Step, Trees
<1>1. tokens \in Seq(Token) /\ c.at = "condemn" /\ c.tok \in DOMAIN tokens /\ Presents(c, c.tok)
  BY RequestFacts DEF Trees, Condemn, Judged, Presents
<1>2. \A i \in DOMAIN tokens : tokens'[i].state = IF i \in c.family THEN "reuse" ELSE tokens[i].state
  <2>1. tokens' = [i \in DOMAIN tokens |->
                     IF i \in c.family THEN [tokens[i] EXCEPT !.state = "reuse"] ELSE tokens[i]]
    BY DEF Condemn
  <2> HIDE DEF c
  <2> QED
    BY <1>1, <2>1, NewStateOf DEF States
<1>3. shown[c.tok] >= 2 /\ c.family \subseteq Family(c.tok)
  BY <1>1 DEF Trees, Judged
<1>4. Quiet
  <2>1. ~Create(p) /\ Inv
    BY DEF Condemn, Create, Trees
  <2> QED
    BY <1>0, <1>2, <2>1, StepQuiet
<1>5. NoFalseAlarm'
  BY <1>1, <1>2, <1>3, <1>4, QuietAlarm
<1>6. PICK d : Become(p, d) /\ Mute(d)
  BY MuteMoves DEF Trees
<1>7. DOMAIN tokens' = DOMAIN tokens /\ \A t \in DOMAIN tokens : t # 0
  BY <1>1, <1>4, QuietRows, TokenFacts DEF Trees
<1>8. \A t \in DOMAIN tokens : ~Presents(d, t)
  BY <1>6, <1>7 DEF Presents, Mute
<1>9. Judged(d)'
  BY <1>6, <1>7, <1>8 DEF Judged, Presents, Mute
<1> QED
  BY <1>4, <1>5, <1>6, <1>8, <1>9, MoveTrees

\* The steps of a rotation before it creates the child: each establishes what
\* the next one relies on.
LEMMA RotateTrees ==
    ASSUME Trees, Inv', NEW p \in Proc, FindToken(p) \/ Retire(p) \/ FindFamily(p)
    PROVE  Trees'
<1>0. PICK t \in DOMAIN tokens :
        Inv /\ tokens \in Seq(Token) /\ t = req[p].tok /\ Presents(req[p], t) /\ Judged(req[p])
  BY RequestFacts DEF Trees, FindToken, Retire, FindFamily, Judged, Presents
<1>1. Sober
  BY <1>0, StepSober DEF Step, FindToken, Retire, FindFamily, Create, Condemn
<1>2. Quiet
  BY <1>0, <1>1, StepQuiet DEF Step, FindToken, Retire, FindFamily, Create, Sober
<1>3. NoFalseAlarm'
  BY <1>1, <1>2, QuietAlarm DEF Sober
<1>4. /\ DOMAIN tokens' = DOMAIN tokens /\ \A u : Family(u)' = Family(u)
      /\ \A i \in DOMAIN tokens : shown[i] \in Nat /\ shown'[i] \in Nat /\ shown[i] <= shown'[i]
  BY <1>0, <1>2, QuietRows, ShownFacts, ShownFactsNext DEF Trees, Quiet
<1>5. ASSUME NEW d, Become(p, d), d.tok = t, d.at \in {"retire", "family", "condemn", "create"},
             d.at \in {"family", "condemn"} => shown'[t] >= 2,
             d.at = "condemn" => d.family \subseteq Family(t)',
             d.at = "create" => ~Live(t)'
      PROVE  Trees'
  <2>1. Judged(d)'
    BY <1>0, <1>4, <1>5 DEF Judged, Presents
  <2>2. \A u \in DOMAIN tokens : Presents(d, u) => Presents(req[p], u)
    BY <1>0, <1>5 DEF Presents
  <2> QED
    BY <1>2, <1>3, <1>5, <2>1, <2>2, MoveTrees
<1>6. CASE FindToken(p)
  <2>1. CASE Condemned(t, req[p].dev) /\ Goto(p, "family")
    <3>1. shown[t] >= 2
      <4>1. CASE Children(t) # {}
        BY <1>0, <4>1 DEF Trees, Counted
      <4>2. CASE tokens[t].dev # req[p].dev
        BY <1>0, <1>6, <4>2 DEF Judged, FindToken
      <4> QED
        BY <2>1, <4>1, <4>2 DEF Condemned
    <3>2. PICK d \in Request : Become(p, d) /\ d.at = "family" /\ d.tok = t
      BY <1>0, <2>1, GotoTurn DEF Labels
    <3>3. shown'[t] >= 2
      BY <1>0, <1>4, <3>1
    <3> QED
      BY <1>5, <3>2, <3>3
  <2>2. CASE Become(p, [req[p] EXCEPT !.at = "retire", !.ver = version])
    <3>1. PICK d : d = [req[p] EXCEPT !.at = "retire", !.ver = version]
      OBVIOUS
    <3>2. d.at = "retire" /\ d.tok = t /\ Become(p, d)
      BY <1>0, <2>2, <3>1, RequestFacts DEF Request
    <3> QED
      BY <1>5, <3>2
  <2>3. CASE Goto(p, "idle")
    <3>1. PICK d : Become(p, d) /\ Mute(d)
      BY <1>0, <2>3, GotoMute DEF Labels
    <3> QED
      BY <1>1, <1>2, <3>1, MuteTrees
  <2> QED
    BY <1>0, <1>6, <2>1, <2>2, <2>3 DEF FindToken
<1>7. CASE Retire(p)
  <2>1. PICK d \in Request : Become(p, d) /\ d.at = "create" /\ d.tok = t
    BY <1>0, <1>7, GotoTurn DEF Retire, Labels
  <2>2. tokens'[t].state = "rotated"
    <3>1. tokens' = [i \in DOMAIN tokens |->
                       IF i \in {t} THEN [tokens[i] EXCEPT !.state = "rotated"] ELSE tokens[i]]
      BY <1>0, <1>7 DEF Retire
    <3>2. \A i \in DOMAIN tokens : tokens'[i].state = IF i \in {t} THEN "rotated" ELSE tokens[i].state
      BY <1>0, <3>1, NewStateOf DEF States
    <3> QED
      BY <3>2
  <2> QED
    BY <1>5, <2>1, <2>2 DEF Live
<1>8. CASE FindFamily(p)
  <2>1. PICK d : d = [req[p] EXCEPT !.at = "condemn", !.family = Family(t)]
    OBVIOUS
  <2>2. d.at = "condemn" /\ d.tok = t /\ d.family = Family(t) /\ Become(p, d)
    BY <1>0, <1>8, <2>1, RequestFacts DEF Request, FindFamily
  <2>3. shown[t] >= 2
    BY <1>0, <1>8 DEF Judged, FindFamily
  <2>4. shown'[t] >= 2 /\ Family(t)' = Family(t)
    BY <1>0, <1>4, <2>3
  <2> QED
    BY <1>5, <2>2, <2>4
<1> QED
  BY <1>6, <1>7, <1>8

\* A presentation is counted before anything is read.
LEMMA PresentTrees ==
    ASSUME Trees, Inv', NEW p \in Proc, NEW t \in DOMAIN tokens, NEW x \in Device, BeginRotate(p, t, x)
    PROVE  Trees'
<1>13. Inv /\ tokens \in Seq(Token) /\ shown \in Seq(Nat) /\ Len(shown) = Len(tokens)
  BY DEF Trees, Inv, RestOK
<1>14. DOMAIN shown = DOMAIN tokens
  BY <1>13
<1>0. /\ Inv /\ tokens \in Seq(Token) /\ shown \in Seq(Nat) /\ DOMAIN shown = DOMAIN tokens
      /\ \A i \in DOMAIN tokens : shown[i] \in Nat
  BY <1>13, <1>14, ShownFacts
<1>1. Start(p) /\ tokens' = tokens /\ req[p].at = "idle"
  BY DEF Start, BeginRotate, Begin
<1>2. Quiet /\ Sober
  <2>1. ~Create(p)
    BY <1>1 DEF Create
  <2> QED
    BY <1>0, <1>1, <2>1, StepQuiet DEF Sober
<1>3. NoFalseAlarm'
  BY <1>2, QuietAlarm DEF Sober
<1>4. DOMAIN tokens' = DOMAIN tokens /\ \A u : Children(u)' = Children(u)
  BY <1>0, <1>2, QuietRows DEF Trees
<1>5. PICK d : d = [[Idle EXCEPT !.at = "row", !.tok = t, !.dev = x] EXCEPT !.op = "rotate"]
  OBVIOUS
<1>6. d.at = "row" /\ d.tok = t /\ d.dev = x /\ Become(p, d)
  BY <1>5, IdleRequest DEF Request, BeginRotate, Begin
<1>7. req'[p] = d /\ \A q \in Proc \ {p} : req'[q] = req[q]
  BY <1>0, <1>6 DEF Become, Inv
<1>8. /\ \A i \in DOMAIN tokens : i # t => shown'[i] = shown[i]
      /\ shown'[t] = shown[t] + (IF x = tokens[t].dev THEN 1 ELSE 2)
  BY <1>0 DEF BeginRotate
<1>9. shown'[t] >= 1 /\ (shown[t] >= 1 => shown'[t] >= 2) /\ (x # tokens[t].dev => shown'[t] >= 2)
  BY <1>0, <1>8
<1>10. Judged(d)'
  BY <1>1, <1>4, <1>6, <1>9 DEF Judged, Presents
<1>11. \A q \in Proc : Judged(req[q])'
  <2> SUFFICES ASSUME NEW q \in Proc PROVE Judged(req[q])'
    OBVIOUS
  <2>1. CASE q = p
    BY <1>7, <1>10, <2>1 DEF Judged, Presents
  <2>2. CASE q # p
    <3>1. PICK c : c = req[q] /\ c = req'[q]
      BY <1>7, <2>2
    <3>2. Judged(c)
      BY <3>1 DEF Trees
    <3>3. Judged(c)'
      BY <1>2, <3>2, QuietJudged
    <3> QED
      BY <3>1, <3>3 DEF Judged, Presents
  <2> QED
    BY <2>1, <2>2
<1>12. Counted'
  <2> SUFFICES ASSUME NEW u \in DOMAIN tokens, NEW q \in Proc, Presents(req'[q], u)
               PROVE  /\ shown'[u] >= 1
                      /\ Children(u) # {} => shown'[u] >= 2
                      /\ \A r \in Proc \ {q} : Presents(req'[r], u) => shown'[u] >= 2
    BY <1>4 DEF Counted, Presents
  <2>0. \A v \in DOMAIN tokens, r \in Proc : Presents(req[r], v) =>
          /\ shown[v] >= 1
          /\ Children(v) # {} => shown[v] >= 2
          /\ \A s \in Proc \ {r} : Presents(req[s], v) => shown[v] >= 2
    BY DEF Trees, Counted
  <2>1. CASE u # t
    <3>1. \A r \in Proc : Presents(req'[r], u) => r # p /\ Presents(req[r], u)
      BY <1>6, <1>7, <2>1 DEF Presents
    <3>2. shown'[u] = shown[u]
      BY <1>8, <2>1
    <3> QED
      BY <2>0, <3>1, <3>2
  <2>2. CASE u = t /\ q = p
    <3>1. Children(u) # {} => shown[u] >= 1
      BY DEF Trees, Spent
    <3>2. \A r \in Proc \ {q} : Presents(req'[r], u) => shown[u] >= 1
      BY <1>7, <2>0, <2>2
    <3> QED
      BY <1>9, <2>2, <3>1, <3>2
  <2>3. CASE u = t /\ q # p
    <3>1. shown[u] >= 1
      BY <1>7, <2>0, <2>3
    <3> QED
      BY <1>9, <2>3, <3>1
  <2> QED
    BY <2>1, <2>2, <2>3
<1> QED
  BY <1>2, <1>3, <1>11, <1>12, QuietTrees DEF Trees

\* One row more: its place is m + 1, its parent q.
Grows(m, q) ==
    /\ m \in Nat /\ q \in 0..m /\ DOMAIN tokens = 1..m /\ DOMAIN tokens' = 1..(m + 1)
    /\ \A i \in 1..m : tokens'[i] = tokens[i] /\ tokens[i].parent \in 0..m
    /\ tokens'[m + 1].parent = q /\ tokens'[m + 1].state = "live"
    /\ \A i \in 1..m : shown[i] \in Nat /\ shown'[i] = shown[i]
    /\ shown'[m + 1] = 0
    /\ \E g : Only(g)'
    /\ \A i \in 1..m : Up'[i] = Up[i]
    /\ Up'[m + 1] = {m + 1} \cup (IF q = 0 THEN {} ELSE Up[q])

LEMMA CreateGrows ==
    ASSUME Trees, NEW p \in Proc, Create(p)
    PROVE  \E m \in Nat : Grows(m, req[p].tok)
<1>0. Inv /\ tokens \in Seq(Token) /\ req[p].tok \in Nat /\ req[p].tok <= Len(tokens)
  BY RequestFacts DEF Trees, Fits
<1>1. PICK m \in Nat, q \in Nat : m = Len(tokens) /\ q = req[p].tok /\ q <= m
  BY <1>0, TokenFacts
<1>2. PICK r \in Token : /\ tokens' = Append(tokens, r)
                         /\ r.parent = q /\ r.state = "live"
  <2> DEFINE r == Row(req[p].dev, req[p].ver, req[p].tok)
  <2>1. r \in Token /\ r.state = "live" /\ r.parent = q
    BY <1>0, <1>1, RequestFacts DEF Row, Token, States
  <2>2. tokens' = Append(tokens, r)
    BY DEF Create
  <2> HIDE DEF r
  <2> QED
    BY <2>1, <2>2
<1>3. /\ DOMAIN tokens = 1..m /\ DOMAIN tokens' = 1..(m + 1) /\ tokens'[m + 1] = r
      /\ \A i \in 1..m : tokens'[i] = tokens[i]
  BY <1>0, <1>1, <1>2
<1>4. \A i \in 1..m : tokens[i].parent \in 0..m
  <2>1. \A i \in 1..m : tokens[i].parent \in Nat
    BY <1>0, <1>3, TokenFacts
  <2>2. \A i \in 1..m : tokens[i].parent <= m
    BY <1>0, <1>1, <1>3 DEF Inv, RestOK
  <2> QED
    BY <2>1, <2>2
<1>5. shown \in Seq(Nat) /\ Len(shown) = m /\ shown' = Append(shown, 0)
  BY <1>0, <1>1 DEF Inv, RestOK, Create
<1>6. shown'[m + 1] = 0 /\ \A i \in 1..m : shown[i] \in Nat /\ shown'[i] = shown[i]
  BY <1>5
<1>7. PICK f : Only(f)
  BY DEF Trees, Ancestry
<1>8. /\ \E g : Only(g)'
      /\ \A i \in 1..m : Up'[i] = Up[i]
      /\ Up'[m + 1] = {m + 1} \cup (IF q = 0 THEN {} ELSE Up[q])
  BY <1>0, <1>1, <1>2, <1>7, AppendUp
<1>9. q \in 0..m
  BY <1>1
<1>10. Grows(m, q)
  BY <1>2, <1>3, <1>4, <1>6, <1>8, <1>9 DEF Grows
<1> QED
  BY <1>1, <1>10

\* The children, the rows of a family and the states after it.
LEMMA GrownRows ==
    ASSUME NEW m, NEW q, Grows(m, q)
    PROVE  /\ \A t \in 1..m : Children(t)' = Children(t) \cup (IF t = q THEN {m + 1} ELSE {})
           /\ Children(m + 1)' = {}
           /\ \A t \in 1..m : Family(t) \subseteq Family(t)'
           /\ \A t \in 1..m : Live(t)' <=> Live(t)
<1>1. \A t \in 1..m : Children(t)' = Children(t) \cup (IF t = q THEN {m + 1} ELSE {})
  <2> TAKE t \in 1..m
  <2>1. ASSUME NEW i \in 1..(m + 1)
        PROVE  tokens'[i].parent = t <=> (i \in 1..m /\ tokens[i].parent = t) \/ (i = m + 1 /\ t = q)
    <3>1. CASE i \in 1..m
      <4>1. i # m + 1
        BY <3>1 DEF Grows
      <4> QED
        BY <3>1, <4>1 DEF Grows
    <3>2. CASE i = m + 1
      <4>1. i \notin 1..m
        BY <3>2 DEF Grows
      <4> QED
        BY <3>2, <4>1 DEF Grows
    <3> QED
      BY <3>1, <3>2 DEF Grows
  <2>2. m + 1 \in 1..(m + 1) /\ 1..m \subseteq 1..(m + 1)
    BY DEF Grows
  <2>3. Children(t)' = {i \in 1..(m + 1) : tokens'[i].parent = t}
    BY DEF Children, Grows
  <2>4. Children(t) = {i \in 1..m : tokens[i].parent = t}
    BY DEF Children, Grows
  <2> QED
    BY <2>1, <2>2, <2>3, <2>4
<1>2. Children(m + 1)' = {}
  <2>1. \A i \in 1..(m + 1) : tokens'[i].parent \in 0..m
    <3> TAKE i \in 1..(m + 1)
    <3>1. i \in 1..m \/ i = m + 1
      BY DEF Grows
    <3> QED
      BY <3>1 DEF Grows
  <2>2. m + 1 \notin 0..m
    BY DEF Grows
  <2> QED
    BY <2>1, <2>2 DEF Children, Grows
<1>3. \A t \in 1..m : Family(t) \subseteq Family(t)'
  <2>1. 1..m \subseteq 1..(m + 1) /\ \A i \in 1..m : Up'[i] = Up[i]
    BY DEF Grows
  <2>2. DOMAIN tokens = 1..m /\ DOMAIN tokens' = 1..(m + 1)
    BY DEF Grows
  <2> QED
    BY <2>1, <2>2 DEF Family
<1>4. \A t \in 1..m : Live(t)' <=> Live(t)
  BY DEF Grows, Live
<1> QED
  BY <1>1, <1>2, <1>3, <1>4

\* What a creation changes, and what the request that creates knows of the
\* parent: nobody else renews it, unless it was presented twice.
LEMMA CreateFacts ==
    ASSUME Trees, NEW p \in Proc, Create(p), NEW m, NEW q, q = req[p].tok, Grows(m, q)
    PROVE  /\ req'[p] = Idle /\ \A x \in Proc \ {p} : req'[x] = req[x]
           /\ \A x \in Proc, t \in DOMAIN tokens' :
                Presents(req'[x], t) => x # p /\ t \in 1..m /\ Presents(req[x], t)
           /\ q # 0 => /\ q \in 1..m /\ Presents(req[p], q) /\ ~Live(q) /\ shown[q] >= 1
                       /\ Children(q) # {} => shown[q] >= 2
                       /\ \A x \in Proc \ {p} : Presents(req[x], q) => shown[q] >= 2
<1>1. req'[p] = Idle /\ \A x \in Proc \ {p} : req'[x] = req[x]
  BY DEF Create, Goto, Become, Trees, Inv
<1>2. req[p].at = "create"
  BY DEF Create
<1>3. ASSUME NEW x \in Proc, NEW t \in DOMAIN tokens', Presents(req'[x], t)
      PROVE  x # p /\ t \in 1..m /\ Presents(req[x], t)
  <2>1. x # p
    BY <1>1, <1>3, IdleRequest DEF Presents
  <2>2. Presents(req[x], t)
    BY <1>1, <1>3, <2>1
  <2>3. t = req[x].tok /\ req[x].tok <= Len(tokens)
    BY <2>2, RequestFacts DEF Presents, Trees, Fits
  <2>4. m \in Nat /\ Len(tokens) \in Nat /\ 1..m = 1..Len(tokens) /\ DOMAIN tokens' = 1..(m + 1)
    BY TokenFacts DEF Grows, Trees, Inv, RestOK
  <2>5. t \in 1..Len(tokens)
    BY <2>3, <2>4
  <2> QED
    BY <2>1, <2>2, <2>4, <2>5
<1>4. ASSUME q # 0
      PROVE  /\ q \in 1..m /\ Presents(req[p], q) /\ ~Live(q) /\ shown[q] >= 1
             /\ Children(q) # {} => shown[q] >= 2
             /\ \A x \in Proc \ {p} : Presents(req[x], q) => shown[q] >= 2
  <2>1. q \in 1..m /\ 1..m = DOMAIN tokens
    BY <1>4 DEF Grows
  <2>2. Presents(req[p], q)
    BY <1>2 DEF Presents
  <2>3. ~Live(q)
    BY <1>2, <2>1, <2>2 DEF Trees, Judged
  <2>4. /\ shown[q] >= 1 /\ (Children(q) # {} => shown[q] >= 2)
        /\ \A x \in Proc \ {p} : Presents(req[x], q) => shown[q] >= 2
    BY <2>1, <2>2 DEF Trees, Counted
  <2> QED
    BY <2>1, <2>2, <2>3, <2>4
<1> QED
  BY <1>1, <1>3, <1>4

LEMMA GrownAncestry ==
    ASSUME Trees, NEW p \in Proc, Create(p), NEW m, NEW q, q = req[p].tok, Grows(m, q)
    PROVE  Ancestry'
<1>1. ASSUME NEW i \in 1..(m + 1)
      PROVE  /\ i \in Up'[i] /\ Up'[i] \subseteq 1..(m + 1)
             /\ \A t \in Up'[i] \ {i} : Children(t)' # {}
  <2>5. \A t \in 1..m : Children(t) \subseteq Children(t)'
    BY GrownRows
  <2>0. 1..m \subseteq 1..(m + 1) /\ DOMAIN tokens = 1..m /\ \A t \in 1..m : Children(t) \subseteq Children(t)'
    BY <2>5 DEF Grows
  <2>1. CASE i \in 1..m
    <3>1. Up'[i] = Up[i]
      BY <2>1 DEF Grows
    <3>2. i \in Up[i] /\ Up[i] \subseteq 1..m /\ \A t \in Up[i] \ {i} : Children(t) # {}
      BY <2>0, <2>1 DEF Trees, Ancestry
    <3> QED
      BY <2>0, <3>1, <3>2
  <2>2. CASE i = m + 1 /\ q = 0
    BY <2>2 DEF Grows
  <2>3. CASE i = m + 1 /\ q # 0
    <3>0. q \in 1..m
      BY <2>3 DEF Grows
    <3>1. Up'[i] = {m + 1} \cup Up[q]
      BY <2>3 DEF Grows
    <3>2. Up[q] \subseteq 1..m /\ \A t \in Up[q] \ {q} : Children(t) # {}
      BY <2>0, <3>0 DEF Trees, Ancestry
    <3>3. Children(q)' # {}
      BY <3>0, GrownRows
    <3> QED
      BY <2>0, <2>3, <3>1, <3>2, <3>3
  <2>4. i \in 1..m \/ i = m + 1
    BY DEF Grows
  <2> QED
    BY <2>1, <2>2, <2>3, <2>4
<1>2. DOMAIN tokens' = 1..(m + 1) /\ \E g : Only(g)'
  BY DEF Grows
<1> QED
  BY <1>1, <1>2 DEF Ancestry

LEMMA GrownSpent ==
    ASSUME Trees, NEW p \in Proc, Create(p), NEW m, NEW q, q = req[p].tok, Grows(m, q)
    PROVE  Spent'
<1>1. ASSUME NEW t \in 1..(m + 1), Children(t)' # {} PROVE shown'[t] >= 1 /\ ~Live(t)'
  <2>1. t # m + 1
    BY <1>1, GrownRows
  <2>2. t \in 1..m
    BY <2>1 DEF Grows
  <2>3. Children(t) # {} \/ t = q
    BY <1>1, <2>2, GrownRows
  <2>4. t # 0 /\ t \in DOMAIN tokens
    BY <2>2 DEF Grows
  <2>5. shown[t] >= 1 /\ ~Live(t)
    <3>1. CASE Children(t) # {}
      BY <2>4, <3>1 DEF Trees, Spent
    <3>2. CASE t = q
      BY <2>4, <3>2, CreateFacts
    <3> QED
      BY <2>3, <3>1, <3>2
  <2> QED
    BY <2>2, <2>5, GrownRows DEF Grows
<1>2. DOMAIN tokens' = 1..(m + 1)
  BY DEF Grows
<1> QED
  BY <1>1, <1>2 DEF Spent

LEMMA GrownAlarm ==
    ASSUME Trees, NEW m, NEW q, Grows(m, q)
    PROVE  NoFalseAlarm'
<1>1. ASSUME NEW i \in 1..(m + 1), tokens'[i].state = "reuse"
      PROVE  \E j \in 1..(m + 1) : shown'[j] >= 2 /\ i \in Family(j)'
  <2>1. i \in 1..m /\ tokens[i].state = "reuse" /\ DOMAIN tokens = 1..m /\ 1..m \subseteq 1..(m + 1)
    BY <1>1 DEF Grows
  <2>2. PICK j \in 1..m : shown[j] >= 2 /\ i \in Family(j)
    BY <2>1 DEF Trees, NoFalseAlarm
  <2> QED
    BY <2>1, <2>2, GrownRows DEF Grows
<1>2. DOMAIN tokens' = 1..(m + 1)
  BY DEF Grows
<1> QED
  BY <1>1, <1>2 DEF NoFalseAlarm

LEMMA GrownCounted ==
    ASSUME Trees, NEW p \in Proc, Create(p), NEW m, NEW q, q = req[p].tok, Grows(m, q)
    PROVE  Counted'
<1>1. ASSUME NEW t \in DOMAIN tokens', NEW x \in Proc, Presents(req'[x], t)
      PROVE  /\ shown'[t] >= 1
             /\ Children(t)' # {} => shown'[t] >= 2
             /\ \A y \in Proc \ {x} : Presents(req'[y], t) => shown'[t] >= 2
  <2>1. x # p /\ t \in 1..m /\ Presents(req[x], t)
    BY <1>1, CreateFacts
  <2>2. shown'[t] = shown[t] /\ DOMAIN tokens = 1..m
    BY <2>1 DEF Grows
  <2>3. /\ shown[t] >= 1 /\ (Children(t) # {} => shown[t] >= 2)
        /\ \A y \in Proc \ {x} : Presents(req[y], t) => shown[t] >= 2
    BY <2>1, <2>2 DEF Trees, Counted
  <2>4. Children(t)' # {} => shown[t] >= 2
    <3>1. CASE t = q
      <4>1. t # 0
        BY <2>1 DEF Grows
      <4>2. Presents(req[x], q) /\ x \in Proc \ {p}
        BY <2>1, <3>1
      <4>4. q # 0
        BY <3>1, <4>1
      <4>5. \A y \in Proc \ {p} : Presents(req[y], q) => shown[q] >= 2
        BY <4>4, CreateFacts
      <4>3. shown[q] >= 2
        BY <4>2, <4>5
      <4> QED
        BY <3>1, <4>3
    <3>2. CASE t # q
      <4>2. \A u \in 1..m : Children(u)' = Children(u) \cup (IF u = q THEN {m + 1} ELSE {})
        BY GrownRows
      <4>3. t \in 1..m
        BY <2>1
      <4>1. Children(t)' = Children(t)
        BY <3>2, <4>2, <4>3
      <4> QED
        BY <2>3, <4>1
    <3> QED
      BY <3>1, <3>2
  <2>5. \A y \in Proc \ {x} : Presents(req'[y], t) => shown[t] >= 2
    BY <2>3, CreateFacts
  <2> QED
    BY <2>2, <2>3, <2>4, <2>5
<1> QED
  BY <1>1 DEF Counted, Presents

LEMMA GrownJudged ==
    ASSUME Trees, NEW p \in Proc, Create(p), NEW m, NEW q, q = req[p].tok, Grows(m, q), NEW x \in Proc
    PROVE  Judged(req[x])'
<1>0. DOMAIN tokens = 1..m /\ DOMAIN tokens' = 1..(m + 1) /\ 1..m \subseteq 1..(m + 1)
  BY DEF Grows
<1>1. CASE x = p
  <2>1. req'[x] = Idle
    BY <1>1, CreateFacts
  <2> QED
    BY <2>1, IdleRequest DEF Judged, Presents
<1>2. CASE x # p
  <2>1. PICK c : c = req[x] /\ c = req'[x] /\ Judged(c)
    BY <1>2, CreateFacts DEF Trees
  <2>2. \A t \in DOMAIN tokens' : Presents(c, t) => t \in 1..m
    BY <2>1, CreateFacts
  <2>3. ASSUME NEW t \in 1..m, Presents(c, t)
        PROVE  /\ c.at = "row" /\ c.dev # tokens'[t].dev => shown'[t] >= 2
               /\ c.at \in {"family", "condemn"} => shown'[t] >= 2
               /\ c.at = "condemn" => c.family \subseteq Family(t)'
               /\ c.at = "create" => ~Live(t)'
    <3>1. tokens'[t] = tokens[t] /\ shown'[t] = shown[t] /\ Family(t) \subseteq Family(t)' /\ (Live(t)' <=> Live(t))
      BY GrownRows DEF Grows
    <3>2. /\ c.at = "row" /\ c.dev # tokens[t].dev => shown[t] >= 2
          /\ c.at \in {"family", "condemn"} => shown[t] >= 2
          /\ c.at = "condemn" => c.family \subseteq Family(t)
          /\ c.at = "create" => ~Live(t)
      BY <1>0, <2>1, <2>3 DEF Judged
    <3> QED
      BY <3>1, <3>2
  <2>4. c.at \in {"row", "retire", "family", "condemn"} => c.tok \in DOMAIN tokens'
    BY <1>0, <2>1 DEF Judged
  <2>5. Judged(c)'
    BY <2>2, <2>3, <2>4 DEF Judged, Presents
  <2> QED
    BY <2>1, <2>5 DEF Judged, Presents
<1> QED
  BY <1>1, <1>2

\* A second child needs a second presentation: in a tree without one the parent
\* was the last row of its branch.
LEMMA GrownBranch ==
    ASSUME Trees, NEW p \in Proc, Create(p), NEW m, NEW q, q = req[p].tok, Grows(m, q)
    PROVE  OneBranch'
<1>0. /\ DOMAIN tokens = 1..m /\ DOMAIN tokens' = 1..(m + 1) /\ \A i \in 1..m : Up'[i] = Up[i]
      /\ \A i \in 1..(m + 1) : i \in 1..m \/ i = m + 1
  BY DEF Grows
<1>1. \A i \in 1..m : i \in Up[i] /\ Up[i] \subseteq 1..m /\ \A t \in Up[i] \ {i} : Children(t) # {}
  BY <1>0 DEF Trees, Ancestry
<1>2. \A i \in 1..m : m + 1 \notin Up[i]
  BY <1>1 DEF Grows
<1>3. ASSUME NEW j \in 1..m, Up'[m + 1] \cap Up[j] # {}, \A k \in Up'[m + 1] \cup Up[j] : shown'[k] <= 1
      PROVE  j \in Up'[m + 1]
  <2>1. q # 0
    BY <1>2, <1>3 DEF Grows
  <2>2. q \in 1..m /\ Up'[m + 1] = {m + 1} \cup Up[q]
    BY <2>1 DEF Grows
  <2>3. Up[q] \cap Up[j] # {}
    BY <1>2, <1>3, <2>2
  <2>4. \A k \in Up[q] \cup Up[j] : k \in 1..m /\ shown[k] <= 1
    <3>1. \A k \in Up[q] \cup Up[j] : k \in 1..m
      BY <1>1, <2>2
    <3> QED
      BY <1>3, <2>2, <3>1 DEF Grows
  <2>5. q \in Up[j] \/ j \in Up[q]
    BY <1>0, <2>2, <2>3, <2>4 DEF Trees, OneBranch
  <2>6. q \in Up[j] => q = j
    <3>1. shown[q] \in Nat /\ shown[q] <= 1
      BY <1>1, <2>2, <2>4 DEF Grows
    <3>3. Children(q) # {} => shown[q] >= 2
      BY <2>1, CreateFacts
    <3>2. Children(q) = {}
      BY <3>1, <3>3
    <3> QED
      BY <1>1, <3>2
  <2>7. j \in Up[q]
    BY <1>1, <2>5, <2>6
  <2> QED
    BY <2>2, <2>7
<1>4. m + 1 \in Up'[m + 1]
  BY DEF Grows
<1>5. ASSUME NEW i \in 1..(m + 1), NEW j \in 1..(m + 1), Up'[i] \cap Up'[j] # {},
             \A k \in Up'[i] \cup Up'[j] : shown'[k] <= 1
      PROVE  i \in Up'[j] \/ j \in Up'[i]
  <2>1. CASE i \in 1..m /\ j \in 1..m
    <3>1. \A k \in Up[i] \cup Up[j] : shown[k] <= 1
      BY <1>0, <1>1, <1>5, <2>1 DEF Grows
    <3> QED
      BY <1>0, <1>5, <2>1, <3>1 DEF Trees, OneBranch
  <2>2. CASE i = m + 1 /\ j \in 1..m
    BY <1>0, <1>3, <1>5, <2>2
  <2>3. CASE i \in 1..m /\ j = m + 1
    <3>1. Up'[m + 1] \cap Up[i] # {} /\ \A k \in Up'[m + 1] \cup Up[i] : shown'[k] <= 1
      BY <1>0, <1>5, <2>3
    <3> QED
      BY <1>3, <2>3, <3>1
  <2>4. CASE i = m + 1 /\ j = m + 1
    BY <1>4, <2>4
  <2> QED
    BY <1>0, <2>1, <2>2, <2>3, <2>4
<1> QED
  BY <1>0, <1>5 DEF OneBranch

LEMMA CreateTrees ==
    ASSUME Trees, Inv', NEW p \in Proc, Create(p)
    PROVE  Trees'
<1>0. PICK q : q = req[p].tok
  OBVIOUS
<1>1. PICK m \in Nat : q = req[p].tok /\ Grows(m, q)
  BY <1>0, CreateGrows
<1>2. Ancestry' /\ Spent' /\ OneBranch' /\ NoFalseAlarm' /\ Counted'
  BY <1>1, GrownAncestry, GrownSpent, GrownBranch, GrownAlarm, GrownCounted
<1>3. \A x \in Proc : Judged(req[x])'
  BY <1>1, GrownJudged
<1> QED
  BY <1>2, <1>3 DEF Trees

LEMMA OutsideTrees ==
    ASSUME Trees,
           \/ \E x \in Device : LogOut(x)
           \/ ForceLogout \/ GrantReset \/ PermitExpires \/ ProfileExpires \/ LockExpires
           \/ UNCHANGED vars
    PROVE  Trees'
<1>0. Inv /\ tokens \in Seq(Token) /\ Inv' /\ req' = req
  BY OutsideInv DEF Trees, Inv, RestOK
<1>1. shown' = shown
  BY DEF LogOut, ForceLogout, GrantReset, PermitExpires, ProfileExpires, LockExpires, vars
<1>2. SameRows /\ Sober
  <2>1. ASSUME NEW x \in Device, LogOut(x) PROVE SameRows /\ Sober
    BY <1>0, <2>1, RevokedRows, RevokedSober DEF LogOut, States
  <2>2. CASE ForceLogout
    BY <1>0, <2>2, RevokedRows, RevokedSober DEF ForceLogout, States
  <2>3. CASE tokens' = tokens
    BY <1>0, <2>3, KeptRows DEF Sober
  <2>4. CASE GrantReset \/ PermitExpires \/ ProfileExpires \/ LockExpires \/ UNCHANGED vars
    BY <2>3, <2>4 DEF GrantReset, PermitExpires, ProfileExpires, LockExpires, vars
  <2> QED
    BY <2>1, <2>2, <2>4
<1>3. Quiet
  BY <1>0, <1>1, <1>2, ShownFacts DEF Quiet, Sober
<1>4. NoFalseAlarm'
  BY <1>0, <1>2, <1>3, QuietAlarm DEF Sober
<1>5. Counted'
  BY <1>0, <1>3, QuietCounted
<1>6. \A q \in Proc : Judged(req[q])'
  <2> SUFFICES ASSUME NEW q \in Proc PROVE Judged(req[q])'
    OBVIOUS
  <2>1. PICK c : c = req[q] /\ c = req'[q] /\ Judged(c)
    BY <1>0 DEF Trees
  <2>2. Judged(c)'
    BY <1>0, <1>3, <2>1, QuietJudged
  <2> QED
    BY <2>1, <2>2 DEF Judged, Presents
<1> QED
  BY <1>0, <1>3, <1>4, <1>5, <1>6, QuietTrees DEF Trees

LEMMA RequestTrees ==
    ASSUME Trees, NEW p \in Proc, Start(p) \/ Step(p) \/ Fail(p)
    PROVE  Trees'
<1>0. Inv /\ Inv'
  BY RequestInv DEF Trees
<1>1. CASE Create(p)
  BY <1>0, <1>1, CreateTrees
<1>2. CASE Condemn(p)
  BY <1>0, <1>2, CondemnTrees
<1>3. CASE FindToken(p) \/ Retire(p) \/ FindFamily(p)
  BY <1>0, <1>3, RotateTrees
<1>4. ASSUME NEW t \in DOMAIN tokens, NEW x \in Device, BeginRotate(p, t, x) PROVE Trees'
  BY <1>0, <1>4, PresentTrees
<1>5. CASE /\ ~Create(p) /\ ~Condemn(p)
           /\ \/ \E x \in Device : BeginLogin(p, x)
              \/ \E t \in DOMAIN tokens : BeginValidate(p, t)
              \/ BeginChange(p) \/ BeginReset(p) \/ Fail(p)
              \/ Lookup(p) \/ FindSame(p) \/ Replace(p)
              \/ FindSession(p) \/ GetProfile(p) \/ FindUser(p) \/ FillProfile(p)
              \/ FindPermit(p) \/ Acquire(p) \/ Verify(p) \/ Update(p) \/ Uncache(p) \/ RevokeAll(p)
              \/ Spend(p) \/ Release(p)
  <2>1. PICK d : Become(p, d) /\ Mute(d)
    BY <1>0, <1>5, MuteMoves
  <2>2. Sober
    BY <1>0, <1>5, StepSober
  <2>3. Quiet
    BY <1>0, <1>5, <2>2, StepQuiet DEF Sober
  <2> QED
    BY <1>0, <2>1, <2>2, <2>3, MuteTrees
<1> QED
  BY <1>1, <1>2, <1>3, <1>4, <1>5 DEF Start, Step

LEMMA NextTrees == Trees /\ [Next]_vars => Trees'
  BY RequestTrees, OutsideTrees DEF Next

\* One row, without parent or child, that nobody has presented yet.
LEMMA InitTrees == Init => Trees
<1> SUFFICES ASSUME Init PROVE Trees
  OBVIOUS
<1>0. Inv /\ tokens \in Seq(Token)
  BY InitInv DEF Inv, RestOK
<1>1. PICK x \in Device : tokens = <<Row(x, 1, 0)>>
  BY DEF Init
<1>2. /\ Len(tokens) = 1 /\ DOMAIN tokens = 1..1 /\ tokens[1] = Row(x, 1, 0)
  BY <1>1
<1>3. tokens[1].parent = 0 /\ tokens[1].state = "live"
  BY <1>2 DEF Row
<1>4. shown = <<0>> /\ \A q \in Proc : req[q] = Idle
  BY DEF Init
<1>5. \A i \in DOMAIN tokens : i = 1
  BY <1>2
<1>6. \A t \in DOMAIN tokens : Children(t) = {}
  BY <1>3, <1>5 DEF Children
<1>7. \A q \in Proc : req[q].at = "idle"
  BY <1>4, IdleRequest
<1>8. PICK f : f = [n \in 0..1 |-> IF n = 0 THEN {} ELSE {1}]
  OBVIOUS
<1>9. ASSUME NEW g PROVE Points(g) <=> g = f
  <2>1. ASSUME Points(g) PROVE g = f
    <3>1. g = [n \in 0..1 |-> g[n]] /\ g[0] = {}
      BY <1>2, <2>1 DEF Points
    <3>2. g[1] = {1} \cup (IF 0 < 1 THEN g[0] ELSE {})
      BY <1>2, <1>3, <2>1 DEF Points
    <3>3. g[1] = {1}
      BY <3>1, <3>2
    <3>4. \A n \in 0..1 : g[n] = IF n = 0 THEN {} ELSE {1}
      BY <3>1, <3>3
    <3> QED
      BY <1>8, <3>1, <3>4
  <2>2. ASSUME g = f PROVE Points(g)
    <3>1. g = [n \in 0..1 |-> g[n]] /\ g[0] = {} /\ g[1] = {1}
      BY <1>8, <2>2
    <3>2. \A n \in 1..1 : n = 1
      OBVIOUS
    <3>3. \A n \in 1..1 : g[n] = {n} \cup (IF tokens[n].parent < n THEN g[tokens[n].parent] ELSE {})
      BY <1>3, <3>1, <3>2
    <3> QED
      BY <1>2, <3>1, <3>3 DEF Points
  <2> QED
    BY <2>1, <2>2
<1>10. Only(f)
  BY <1>0, <1>9, WalkPoints DEF Only
<1>11. Up = [i \in DOMAIN tokens |-> f[i]]
  BY <1>10, UpWalk
<1>12. Up[1] = {1}
  BY <1>2, <1>8, <1>11
<1>13. Ancestry
  <2>1. \A i \in DOMAIN tokens : Up[i] = {i} /\ i \in DOMAIN tokens
    BY <1>5, <1>12
  <2> QED
    BY <1>10, <2>1 DEF Ancestry
<1>14. Spent
  BY <1>6 DEF Spent
<1>15. Counted /\ \A q \in Proc : Judged(req[q])
  BY <1>7 DEF Counted, Judged, Presents
<1>16. OneBranch
  BY <1>5, <1>12 DEF OneBranch
<1>17. NoFalseAlarm
  BY <1>3, <1>5 DEF NoFalseAlarm
<1> QED
  BY <1>0, <1>13, <1>14, <1>15, <1>16, <1>17 DEF Trees

\* Nobody whose clients present each token once, from its own device, is taken
\* for a thief, however the requests interleave and fail.
THEOREM NoFalseAlarmHolds == Spec => []NoFalseAlarm
<1>1. Trees => NoFalseAlarm
  BY DEF Trees
<1> QED
  BY <1>1, InitTrees, NextTrees, PTL DEF Spec

\* Of the rows that descend from one login at most one is live, as long as none
\* of them has been presented twice: two live ones would be on one branch, and
\* the older of them has been renewed.
THEOREM OneLivePerFamilyHolds == Spec => []OneLivePerFamily
<1>1. Trees => OneLivePerFamily
  <2> SUFFICES ASSUME Trees, NEW i \in DOMAIN tokens, NEW j \in DOMAIN tokens,
                      Live(i), Live(j), Up[i] \cap Up[j] # {},
                      \A k \in Up[i] \cup Up[j] : shown[k] <= 1
               PROVE  i = j
    BY DEF OneLivePerFamily
  <2>1. i \in Up[j] \/ j \in Up[i]
    BY DEF Trees, OneBranch
  <2>2. Children(i) = {} /\ Children(j) = {}
    BY DEF Trees, Spent
  <2> QED
    BY <2>1, <2>2 DEF Trees, Ancestry
<1> QED
  BY <1>1, InitTrees, NextTrees, PTL DEF Spec
=============================================================================
