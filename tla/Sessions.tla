------------------------------ MODULE Sessions ------------------------------
(***************************************************************************)
(* The sessions of one user: logins that replace the sessions of the same  *)
(* kind of device, the rotation of refresh tokens with its detection of a  *)
(* token presented twice, the change and the reset of the password under   *)
(* the user's security lock, and the profile that JwtStrategy caches.      *)
(*                                                                         *)
(* A row of user_tokens stands for the refresh token and the access token  *)
(* issued with it.  Each member of Proc is a request being served, split   *)
(* at every await.  Expiry of tokens (days) and the cleanup of expired     *)
(* rows are left out; so are the second factor and the login fail counter. *)
(***************************************************************************)
EXTENDS Naturals, Sequences, FiniteSets

CONSTANTS
    Proc,      \* requests in flight
    Device,    \* devices of the user
    Kind,      \* Kind[d]: "pc" (WEB, DESKTOP), "mobile" or "other"
    NULL,      \* "no request"
    Ops,       \* operations the clients call
    MaxCalls,  \* bound: requests the clients make
    MaxFaults  \* bound: requests that fail half way, and locks that expire
               \* under their holder

OpNames == {"login", "rotate", "validate", "change", "reset"}

ASSUME SessionsAssumption ==
    /\ Device # {} /\ Kind \in [Device -> {"pc", "mobile", "other"}]
    /\ NULL \notin Proc /\ Ops \subseteq OpNames
    /\ MaxCalls \in Nat /\ MaxFaults \in Nat

VARIABLES
    tokens,    \* user_tokens, in the order of creation
    version,   \* User.passwordVersion
    profile,   \* Redis: passwordVersion of the cached profile, 0 when absent
    lock,      \* Redis: the user's security lock -> the request that set it
    permit,    \* Redis: a password reset has been granted and not consumed
    req,       \* the requests
    calls, lapses, faults,
    shown      \* history: how often each token was presented for rotation,
               \* once from another device counting as twice

redis == <<profile, lock, permit>>
counts == <<calls, lapses, faults>>
vars == <<tokens, version, redis, req, counts, shown>>

-----------------------------------------------------------------------------
\* isRevoked with its reason, "live" while isRevoked is false.
States == {"live", "rotated", "replaced", "logout", "password", "reuse"}

\* Parent 0 is "no parent".
Row(d, v, i) == [dev |-> d, ver |-> v, parent |-> i, state |-> "live"]

Live(i) == tokens[i].state = "live"

Children(i) == {j \in DOMAIN tokens : tokens[j].parent = i}

\* A parent is always an older row: Up[i] are i and its ancestors.
Up == [i \in DOMAIN tokens |->
         LET up[n \in 0..Len(tokens)] ==
               IF n = 0 THEN {} ELSE {n} \cup (IF tokens[n].parent < n THEN up[tokens[n].parent] ELSE {})
         IN up[i]]

\* findTokenFamily: ancestors and descendants, not the descendants of ancestors.
Family(i) == {j \in DOMAIN tokens : j \in Up[i] \/ i \in Up[j]}

\* updateMany on the rows that are not revoked yet.
Revoked(S, why) ==
    [i \in DOMAIN tokens |-> IF i \in S /\ Live(i) THEN [tokens[i] EXCEPT !.state = why] ELSE tokens[i]]

Idle == [at |-> "idle", op |-> "login", dev |-> CHOOSE d \in Device : TRUE, tok |-> 0, ver |-> 0,
         family |-> {}]

Become(p, r) == req' = [req EXCEPT ![p] = r]

Goto(p, l) == Become(p, IF l = "idle" THEN Idle ELSE [req[p] EXCEPT !.at = l])

-----------------------------------------------------------------------------
\* The user has logged in once, with the first password.
Init ==
    /\ \E d \in Device : tokens = <<Row(d, 1, 0)>>
    /\ version = 1 /\ profile = 0 /\ lock = NULL /\ permit = FALSE
    /\ req = [p \in Proc |-> Idle]
    /\ calls = 0 /\ lapses = 0 /\ faults = 0 /\ shown = <<0>>

Begin(p, o, r) ==
    /\ req[p].at = "idle" /\ o \in Ops /\ calls < MaxCalls /\ calls' = calls + 1
    /\ Become(p, [r EXCEPT !.op = o])
    /\ UNCHANGED <<tokens, version, redis, lapses, faults>>

BeginLogin(p, d) ==
    Begin(p, "login", [Idle EXCEPT !.at = "lookup", !.dev = d]) /\ UNCHANGED shown

\* A client presents a refresh token, perhaps for the second time because it
\* never saw the answer to the first.
BeginRotate(p, t, d) ==
    /\ Begin(p, "rotate", [Idle EXCEPT !.at = "row", !.tok = t, !.dev = d])
    /\ shown' = [shown EXCEPT ![t] = @ + (IF d = tokens[t].dev THEN 1 ELSE 2)]

BeginValidate(p, t) ==
    Begin(p, "validate", [Idle EXCEPT !.at = "session", !.tok = t]) /\ UNCHANGED shown

\* The password typed as the old one is the one of this moment.
BeginChange(p) ==
    Begin(p, "change", [Idle EXCEPT !.at = "acquire", !.ver = version]) /\ UNCHANGED shown

BeginReset(p) ==
    Begin(p, "reset", [Idle EXCEPT !.at = "permit"]) /\ UNCHANGED shown

-----------------------------------------------------------------------------
(* login and finalizeLogin.                                                  *)

\* findByPhoneNumber and the check of the password typed.
Lookup(p) ==
    /\ req[p].at = "lookup"
    /\ Become(p, [req[p] EXCEPT !.at = "find", !.ver = version])
    /\ UNCHANGED <<tokens, version, redis, counts, shown>>

\* The sessions a login replaces: those on devices of its kind, or on this very
\* device when it is neither a computer nor a phone.
Replaces(d) ==
    {i \in DOMAIN tokens :
        IF Kind[d] = "other" THEN tokens[i].dev = d ELSE Kind[tokens[i].dev] = Kind[d]}

\* revokeExistingSessionsByType writes nothing when it finds nothing.
FindSame(p) ==
    /\ req[p].at = "find"
    /\ Goto(p, IF Kind[req[p].dev] = "other" \/ \E i \in Replaces(req[p].dev) : Live(i)
               THEN "replace" ELSE "create")
    /\ UNCHANGED <<tokens, version, redis, counts, shown>>

Replace(p) ==
    /\ req[p].at = "replace"
    /\ tokens' = Revoked(Replaces(req[p].dev), "replaced")
    /\ Goto(p, "create")
    /\ UNCHANGED <<version, redis, counts, shown>>

\* createRefreshToken, by a login (tok = 0) or by a rotation.
Create(p) ==
    /\ req[p].at = "create"
    /\ tokens' = Append(tokens, Row(req[p].dev, req[p].ver, req[p].tok))
    /\ shown' = Append(shown, 0)
    /\ Goto(p, "idle")
    /\ UNCHANGED <<version, redis, counts>>

-----------------------------------------------------------------------------
(* rotateRefreshToken.                                                       *)

\* Mutant: the version of the password is not compared.
Bug_FindToken(p) ==
    /\ req[p].at = "row"
    /\ LET t == tokens[req[p].tok] IN
       \/ (Children(req[p].tok) # {} \/ t.dev # req[p].dev) /\ Goto(p, "family")
       \/ /\ Children(req[p].tok) = {} /\ t.dev = req[p].dev
          /\ Become(p, IF t.state = "live" THEN [req[p] EXCEPT !.at = "retire", !.ver = version] ELSE Idle)
    /\ UNCHANGED <<tokens, version, redis, counts, shown>>

\* Mutant: a revoked token is taken for a reused one.
Bug_FindTokenRevoked(p) ==
    /\ req[p].at = "row"
    /\ LET t == tokens[req[p].tok] IN
       Become(p, IF t.state # "live" \/ t.dev # req[p].dev
                 THEN [req[p] EXCEPT !.at = "family"]
                 ELSE IF t.ver # version THEN Idle
                 ELSE [req[p] EXCEPT !.at = "retire", !.ver = version])
    /\ UNCHANGED <<tokens, version, redis, counts, shown>>

\* The row with its user and its children, and every check made on them: a
\* token that has a child, or that is live but comes from another device,
\* condemns its family.
Condemned(t, d) == Children(t) # {} \/ (Live(t) /\ tokens[t].dev # d)

Renewable(t, d) ==
    Children(t) = {} /\ Live(t) /\ tokens[t].dev = d /\ tokens[t].ver = version

FindToken(p) ==
    /\ req[p].at = "row"
    /\ LET t == req[p].tok
           d == req[p].dev
       IN  \/ Condemned(t, d) /\ Goto(p, "family")
           \/ Renewable(t, d) /\ Become(p, [req[p] EXCEPT !.at = "retire", !.ver = version])
           \/ ~Condemned(t, d) /\ ~Renewable(t, d) /\ Goto(p, "idle")
    /\ UNCHANGED <<tokens, version, redis, counts, shown>>

\* Mutant: the child is created before its parent is retired.
Bug_Retire(p) ==
    /\ req[p].at = "retire"
    /\ tokens' = Append(tokens, Row(req[p].dev, req[p].ver, req[p].tok))
    /\ shown' = Append(shown, 0)
    /\ Goto(p, "idle")
    /\ UNCHANGED <<version, redis, counts>>

\* An update by id: it also marks a row revoked since it was read.
Retire(p) ==
    /\ req[p].at = "retire"
    /\ tokens' = [tokens EXCEPT ![req[p].tok].state = "rotated"]
    /\ Goto(p, "create")
    /\ UNCHANGED <<version, redis, counts, shown>>

\* revokeTokenFamily: the recursive query ...
FindFamily(p) ==
    /\ req[p].at = "family"
    /\ Become(p, [req[p] EXCEPT !.at = "condemn", !.family = Family(req[p].tok)])
    /\ UNCHANGED <<tokens, version, redis, counts, shown>>

\* ... and the update of what it returned, revoked or not.
Condemn(p) ==
    /\ req[p].at = "condemn"
    /\ tokens' = [i \in DOMAIN tokens |->
                    IF i \in req[p].family THEN [tokens[i] EXCEPT !.state = "reuse"] ELSE tokens[i]]
    /\ Goto(p, "idle")
    /\ UNCHANGED <<version, redis, counts, shown>>

-----------------------------------------------------------------------------
(* JwtStrategy.validate.                                                     *)

FindSession(p) ==
    /\ req[p].at = "session"
    /\ Goto(p, IF Live(req[p].tok) THEN "cached" ELSE "idle")
    /\ UNCHANGED <<tokens, version, redis, counts, shown>>

\* A cached profile answers, whichever way.
GetProfile(p) ==
    /\ req[p].at = "cached"
    /\ Goto(p, IF profile # 0 THEN "idle" ELSE "user")
    /\ UNCHANGED <<tokens, version, redis, counts, shown>>

FindUser(p) ==
    /\ req[p].at = "user"
    /\ Become(p, IF tokens[req[p].tok].ver = version
                 THEN [req[p] EXCEPT !.at = "fill", !.ver = version] ELSE Idle)
    /\ UNCHANGED <<tokens, version, redis, counts, shown>>

FillProfile(p) ==
    /\ req[p].at = "fill"
    /\ profile' = req[p].ver
    /\ Goto(p, "idle")
    /\ UNCHANGED <<tokens, version, lock, permit, counts, shown>>

-----------------------------------------------------------------------------
(* changePassword and resetPassword, in runWithLock.                         *)

\* resetPassword looks its token up before it has the lock.
FindPermit(p) ==
    /\ req[p].at = "permit"
    /\ Goto(p, IF permit THEN "acquire" ELSE "idle")
    /\ UNCHANGED <<tokens, version, redis, counts, shown>>

InLock(p) == req[p].at \in {"verify", "update", "uncache", "revoke", "spend", "release"}

\* Mutant: a held lock is no obstacle.
Bug_Acquire(p) ==
    /\ req[p].at = "acquire"
    /\ lock' = p
    /\ Goto(p, IF req[p].op = "change" THEN "verify" ELSE "update")
    /\ UNCHANGED <<tokens, version, profile, permit, counts, shown>>

\* SET NX EX; a held lock refuses the request (429), there is no retry.
Acquire(p) ==
    /\ req[p].at = "acquire"
    /\ \/ /\ lock = NULL /\ lock' = p
          /\ Goto(p, IF req[p].op = "change" THEN "verify" ELSE "update")
       \/ lock # NULL /\ Goto(p, "idle") /\ UNCHANGED lock
    /\ UNCHANGED <<tokens, version, profile, permit, counts, shown>>

\* changePassword compares the old password with the stored one.
Verify(p) ==
    /\ req[p].at = "verify"
    /\ Goto(p, IF req[p].ver = version THEN "update" ELSE "release")
    /\ UNCHANGED <<tokens, version, redis, counts, shown>>

\* Mutant: the version that an earlier read returned is written back.
Bug_Update(p) ==
    /\ req[p].at = "update"
    /\ version' = req[p].ver
    /\ Goto(p, IF req[p].op = "change" THEN "uncache" ELSE "revoke")
    /\ UNCHANGED <<tokens, redis, counts, shown>>

Update(p) ==
    /\ req[p].at = "update"
    /\ version' = version + 1
    /\ Goto(p, IF req[p].op = "change" THEN "uncache" ELSE "revoke")
    /\ UNCHANGED <<tokens, redis, counts, shown>>

\* Only changePassword deletes the cached profile.
Uncache(p) ==
    /\ req[p].at = "uncache"
    /\ profile' = 0
    /\ Goto(p, "revoke")
    /\ UNCHANGED <<tokens, version, lock, permit, counts, shown>>

RevokeAll(p) ==
    /\ req[p].at = "revoke"
    /\ tokens' = Revoked(DOMAIN tokens, "password")
    /\ Goto(p, IF req[p].op = "change" THEN "release" ELSE "spend")
    /\ UNCHANGED <<version, redis, counts, shown>>

Spend(p) ==
    /\ req[p].at = "spend"
    /\ permit' = FALSE
    /\ Goto(p, "release")
    /\ UNCHANGED <<tokens, version, profile, lock, counts, shown>>

\* Mutant: the lock is deleted whoever holds it.
Bug_Release(p) ==
    /\ req[p].at = "release"
    /\ lock' = NULL
    /\ Goto(p, "idle")
    /\ UNCHANGED <<tokens, version, profile, permit, counts, shown>>

\* The script deletes the lock if its value is still this request's.
Release(p) ==
    /\ req[p].at = "release"
    /\ lock' = IF lock = p THEN NULL ELSE lock
    /\ Goto(p, "idle")
    /\ UNCHANGED <<tokens, version, profile, permit, counts, shown>>

-----------------------------------------------------------------------------
(* Single writes, time and failure.                                          *)

\* logout, revokeSession or removeDevice: the sessions of one device end.
LogOut(d) ==
    /\ \E i \in DOMAIN tokens : Live(i) /\ tokens[i].dev = d
    /\ tokens' = Revoked({i \in DOMAIN tokens : tokens[i].dev = d}, "logout")
    /\ UNCHANGED <<version, redis, req, counts, shown>>

\* An administrator, or the handler of auth.security.revoked, ends them all.
ForceLogout ==
    /\ \E i \in DOMAIN tokens : Live(i)
    /\ tokens' = Revoked(DOMAIN tokens, "logout")
    /\ UNCHANGED <<version, redis, req, counts, shown>>

\* The second factor of a forgotten password has been verified.
GrantReset ==
    /\ "reset" \in Ops /\ ~permit /\ permit' = TRUE
    /\ UNCHANGED <<tokens, version, profile, lock, req, counts, shown>>

\* The grant is kept for some minutes.
PermitExpires ==
    /\ permit /\ permit' = FALSE
    /\ UNCHANGED <<tokens, version, profile, lock, req, counts, shown>>

\* PROFILE_CACHE_TTL.
ProfileExpires ==
    /\ profile # 0 /\ profile' = 0
    /\ UNCHANGED <<tokens, version, lock, permit, req, counts, shown>>

\* The lock's TTL; it counts when its holder is still at work.
LockExpires ==
    /\ lock # NULL /\ lock' = NULL
    /\ IF InLock(lock)
       THEN lapses + faults < MaxFaults /\ lapses' = lapses + 1
       ELSE UNCHANGED lapses
    /\ UNCHANGED <<tokens, version, profile, permit, req, calls, faults, shown>>

\* The server dies with the request, or a call of the request throws: the
\* finally of runWithLock still releases.
Fail(p) ==
    /\ req[p].at # "idle" /\ lapses + faults < MaxFaults
    /\ \/ Goto(p, "idle")
       \/ InLock(p) /\ Goto(p, "release")
    /\ faults' = faults + 1
    /\ UNCHANGED <<tokens, version, redis, calls, lapses, shown>>

-----------------------------------------------------------------------------
Start(p) ==
    \/ \E d \in Device : BeginLogin(p, d)
    \/ \E t \in DOMAIN tokens : BeginValidate(p, t) \/ \E d \in Device : BeginRotate(p, t, d)
    \/ BeginChange(p) \/ BeginReset(p)

Step(p) ==
    \/ Lookup(p) \/ FindSame(p) \/ Replace(p) \/ Create(p)
    \/ FindToken(p) \/ Retire(p) \/ FindFamily(p) \/ Condemn(p)
    \/ FindSession(p) \/ GetProfile(p) \/ FindUser(p) \/ FillProfile(p)
    \/ FindPermit(p) \/ Acquire(p) \/ Verify(p) \/ Update(p) \/ Uncache(p) \/ RevokeAll(p)
    \/ Spend(p) \/ Release(p)

Next ==
    \/ \E p \in Proc : Start(p) \/ Step(p) \/ Fail(p)
    \/ \E d \in Device : LogOut(d)
    \/ ForceLogout \/ GrantReset \/ PermitExpires \/ ProfileExpires \/ LockExpires

Spec == Init /\ [][Next]_vars

-----------------------------------------------------------------------------
(* Properties.                                                               *)

Labels == {"idle", "lookup", "find", "replace", "create", "row", "retire", "family", "condemn",
           "session", "cached", "user", "fill", "permit", "acquire", "verify", "update", "uncache",
           "revoke", "spend", "release"}

Token == [dev: Device, ver: Nat, parent: Nat, state: States]

Request == [at: Labels, op: OpNames, dev: Device, tok: Nat, ver: Nat, family: SUBSET Nat]

\* The type of every variable; tokens are referred to by their place.
TypeOK ==
    /\ tokens \in Seq(Token) /\ shown \in Seq(Nat) /\ Len(shown) = Len(tokens)
    /\ \A i \in DOMAIN tokens : tokens[i].parent <= Len(tokens)
    /\ version \in Nat \ {0} /\ profile \in Nat
    /\ lock \in Proc \cup {NULL} /\ permit \in BOOLEAN
    /\ req \in [Proc -> Request] /\ \A p \in Proc : req[p].tok <= Len(tokens)
    /\ calls \in 0..MaxCalls /\ lapses \in 0..MaxFaults /\ faults \in 0..MaxFaults

\* A session renewed by rotation stays bound to the password of the login it
\* descends from: however a rotation races a change of the password, it never
\* hands out a session of a password that was not typed.
RenewalKeepsPassword ==
    \A i \in DOMAIN tokens : tokens[i].parent # 0 => tokens[i].ver = tokens[tokens[i].parent].ver

\* A change replaces the very password it verified, not one that a second
\* change or a reset stored in between, as long as no lock expires under its
\* holder (user-security-lock: "Prevents simultaneous sensitive operations").
ChangeReplacesWhatItVerified ==
    lapses = 0 =>
        \A p \in Proc : (req[p].at = "update" /\ req[p].op = "change") => req[p].ver = version

\* A client that presents each token once, from the device it was issued to,
\* is never found to have reused one, whatever else revokes its sessions.
NoFalseAlarm ==
    \A i \in DOMAIN tokens :
        tokens[i].state = "reuse" => \E j \in DOMAIN tokens : shown[j] >= 2 /\ i \in Family(j)

\* As long as no token of a family is presented twice, at most one of the
\* tokens that descend from one login is live: a renewal leaves neither its
\* parent nor a sibling usable beside what it issued.
OneLivePerFamily ==
    \A i, j \in DOMAIN tokens :
        (/\ Live(i) /\ Live(j) /\ Up[i] \cap Up[j] # {}
         /\ \A k \in Up[i] \cup Up[j] : shown[k] <= 1) => i = j

\* The user's security lock is a lease (module Lease): at most one request is
\* between its SET and its release, and nobody gives back what it lost.
Lock == INSTANCE Lease WITH
          Worker <- Proc, Key <- {"user"},
          holder <- [k \in {"user"} |-> lock],
          inside <- {<<p, "user">> : p \in {q \in Proc : InLock(q)}},
          lapses <- lapses

SecurityLockIsLease == Lock!Spec

\* Whoever logs in again after a new password is let in
\* (auth.service.ts:406 asks the user to log in again).
FreshSessionAccepted ==
    \A i \in DOMAIN tokens : (Live(i) /\ tokens[i].ver = version) => profile \in {0, version}
=============================================================================
