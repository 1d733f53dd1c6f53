------------------------ MODULE MediaPipelineProofs ------------------------
(***************************************************************************)
(* Theorems about MediaPipeline: the types, that READY files exist, that   *)
(* the files of messages are kept and that a purge leaves nothing behind.  *)
(*                                                                         *)
(* Fits says what a request knows at each of its awaits about the file it  *)
(* works on, Uploads what the row of a file says about its objects; Closed *)
(* keeps the cleanup of a file apart from its confirmation and its expiry. *)
(***************************************************************************)
EXTENDS MediaPipeline, SequenceTheorems, TLAPS

-----------------------------------------------------------------------------
Confirming == {"head", "source", "copy", "dest", "unlink", "rollback", "ready", "enqueue", "fail"}

\* Until when a confirmation has stored no key.
Unkeyed == Confirming \ {"enqueue", "fail"}

Writing == Confirming \cup {"drop", "expire"}
Cleaning == {"failed", "purge"}

\* What a request relies on.
Fits(p) ==
    LET m == req[p].m
        l == req[p].at
        o == req[p].op
    IN  l # "idle" =>
          /\ l \in Confirming => o = "confirm"
          /\ l \in {"drop", "expire"} => o = "stale"
          /\ l = "link" => o = "send"
          /\ l \in {"assets", "erase"} => o \in Cleaning
          /\ o \in Cleanup => m \notin window
          /\ l \in {"ready", "erase"} => (m \in temp => m \in late)
          /\ l = "expire" => m \notin temp
          /\ l = "enqueue" => row[m] # NULL /\ row[m].status # "PENDING"
          /\ (o \in Cleaning /\ row[m] # NULL) =>
               /\ row[m].status # "PENDING"
               /\ o = "failed" => row[m].status = "FAILED"
               /\ o = "purge" => row[m].deleted
          /\ l = "assets" => /\ m \in temp => req[p].seen.hasTemp \/ m \in late
                             /\ (faults = 0 /\ m \in perm) => req[p].seen.hasKey
          /\ (l = "erase" /\ faults = 0) => m \notin perm
          /\ o = "send" => m \in known
          /\ (m \notin raced /\ row[m] # NULL) =>
               /\ l = "link" => row[m].hasKey /\ row[m].status \in {"READY", "EXPIRED"}
               /\ l \in Unkeyed => ~row[m].hasKey
               /\ (l \in {"drop", "expire"} /\ row[m].hasKey) => m \in perm
          /\ (m \notin raced /\ l \in {"dest", "unlink", "ready"}) => m \in perm

\* Two confirmations of an upload overlap only when it is raced.
Alone ==
    \A p, q \in Proc :
        (/\ req[p].at # "idle" /\ req[q].at # "idle" /\ req[p].m = req[q].m
         /\ req[p].op = "confirm" /\ req[q].op = "confirm" /\ req[p].m \notin raced) => p = q

\* While a file is cleaned up, and when its row is gone, no confirmation and no
\* expiry of it is under way.
Closed ==
    \A p \in Proc :
        req[p].at \in Writing =>
            /\ row[req[p].m] # NULL
            /\ \A q \in Proc : (req[q].at # "idle" /\ req[q].m = req[p].m) => req[q].op \notin Cleaning

\* What the row of a file says about the file.
Upload(m) ==
    /\ row[m] = NULL => m \notin window /\ (m \in temp => m \in late) /\ (faults = 0 => m \notin perm)
    /\ row[m] # NULL =>
         /\ row[m].status = "PENDING" => row[m].hasTemp /\ ~row[m].hasKey
         /\ row[m].status = "READY" => row[m].hasKey
         /\ ~row[m].hasTemp => (m \in temp => m \in late)
         /\ row[m].linked => m \in known
         /\ m \in known => row[m].status # "PENDING"
         /\ (m \notin raced /\ row[m].linked) => row[m].hasKey /\ row[m].status \in {"READY", "EXPIRED"}
         /\ (m \notin raced /\ row[m].hasKey /\ ~row[m].deleted /\ row[m].status # "FAILED") => m \in perm
         /\ (faults = 0 /\ m \in perm /\ ~row[m].hasKey) =>
              \E p \in Proc : req[p].m = m /\ req[p].at \in {"dest", "unlink", "ready", "rollback"}
    /\ (m \notin raced /\ m \in known) => \A p \in Proc : req[p].m = m => req[p].at \notin Confirming

Inv == TypeOK /\ (\A p \in Proc : Fits(p)) /\ Alone /\ Closed /\ \A m \in Media : Upload(m)

-----------------------------------------------------------------------------
(* Types.                                                                    *)

LEMMA IdleType == Media # {} => Idle \in Request /\ Idle.at = "idle"
<1> SUFFICES ASSUME Media # {} PROVE Idle \in Request /\ Idle.at = "idle"
  OBVIOUS
<1>1. (CHOOSE m \in Media : TRUE) \in Media
  OBVIOUS
<1> QED
  BY <1>1 DEF Idle, Request, Labels, OpNames, Keys, NewRow

\* A request that goes on keeps its fields.
LEMMA GotoFields ==
    ASSUME TypeOK, NEW p \in Proc, NEW l \in Labels, Goto(p, l)
    PROVE  \E d \in Request :
             /\ req' = [req EXCEPT ![p] = d] /\ d.at = l
             /\ l # "idle" => d.op = req[p].op /\ d.m = req[p].m /\ d.seen = req[p].seen
<1>0. req[p] \in Request
  BY DEF TypeOK
<1>1. CASE l = "idle"
  <2>1. Media # {}
    BY <1>0 DEF Request
  <2> QED
    BY <1>1, <2>1, IdleType DEF Goto
<1>2. CASE l # "idle"
  <2> DEFINE d == [req[p] EXCEPT !.at = l]
  <2>1. d \in Request /\ d.at = l /\ d.op = req[p].op /\ d.m = req[p].m /\ d.seen = req[p].seen
    BY <1>0 DEF Request
  <2>2. req' = [req EXCEPT ![p] = d]
    BY <1>2 DEF Goto
  <2> HIDE DEF d
  <2> QED
    BY <2>1, <2>2
<1> QED
  BY <1>1, <1>2

LEMMA Replaced ==
    ASSUME TypeOK, NEW p \in Proc, NEW d \in Request, req' = [req EXCEPT ![p] = d]
    PROVE  /\ req' \in [Proc -> Request] /\ req'[p] = d
           /\ \A q \in Proc : q # p => req'[q] = req[q]
  BY DEF TypeOK

LEMMA RequestFacts ==
    ASSUME TypeOK, NEW p \in Proc
    PROVE  /\ req[p] \in Request /\ req[p].m \in Media /\ req[p].op \in OpNames /\ req[p].at \in Labels
           /\ req[p].seen.hasTemp \in BOOLEAN /\ req[p].seen.hasKey \in BOOLEAN
           /\ row[req[p].m] \in Attachment \cup {NULL}
  BY DEF TypeOK, Request

-----------------------------------------------------------------------------
(* Steps of a request.                                                       *)

\* The rest of the types of a step that leaves the workers alone.
LEMMA TypeFrame ==
    ASSUME TypeOK, UNCHANGED <<queue, work>>, req' \in [Proc -> Request],
           row' \in [Media -> Attachment \cup {NULL}], temp' \subseteq Media, perm' \subseteq Media,
           window' \subseteq Media, known' \subseteq Media, raced' \subseteq Media, late' \subseteq Media,
           calls' \in 0..MaxCalls, faults' \in 0..MaxFaults
    PROVE  TypeOK'
  BY DEF TypeOK

\* A request goes from one control point to the next and nothing else changes.
LEMMA MoveInv ==
    ASSUME Inv, NEW p \in Proc, NEW d \in Request, req' = [req EXCEPT ![p] = d],
           UNCHANGED <<row, objects, client, queue, work, calls, raced, late>>,
           faults' \in 0..MaxFaults, faults' = faults \/ faults' # 0,
           d.at # "idle" =>
             /\ d.op = req[p].op /\ d.m = req[p].m /\ req[p].at # "idle" /\ Fits(p)'
             /\ d.at \in Writing => req[p].at \in Writing
             /\ d.at \in Confirming => req[p].at \in Confirming,
           (faults' = 0 /\ req[p].at \in {"dest", "unlink", "ready", "rollback"}) =>
             d.at \in {"dest", "unlink", "ready", "rollback"}
    PROVE  Inv'
<1> USE DEF objects, client, story
<1>1. /\ req' \in [Proc -> Request] /\ req'[p] = d
      /\ \A q \in Proc : q # p => req'[q] = req[q]
  BY Replaced DEF Inv
<1>2. TypeOK'
  BY <1>1, TypeFrame DEF Inv, TypeOK
<1>3. ASSUME NEW q \in Proc PROVE Fits(q)'
  <2>1. CASE q = p
    BY <1>1, <2>1 DEF Fits
  <2>2. CASE q # p
    BY <1>1, <2>2 DEF Inv, Fits
  <2> QED
    BY <2>1, <2>2
<1>4. Alone'
  BY <1>1 DEF Inv, Alone
<1>5. Closed'
  BY <1>1 DEF Inv, Closed, Writing, Confirming
<1>6. ASSUME NEW m \in Media PROVE Upload(m)'
  <2>1. Upload(m)
    BY DEF Inv
  <2>2. (m \notin raced /\ m \in known) => \A q \in Proc : req'[q].m = m => req'[q].at \notin Confirming
    BY <1>1, <2>1 DEF Upload, Confirming
  <2>3. (faults' = 0 /\ m \in perm /\ row[m] # NULL /\ ~row[m].hasKey) =>
           \E q \in Proc : req'[q].m = m /\ req'[q].at \in {"dest", "unlink", "ready", "rollback"}
    BY <1>1, <2>1 DEF Upload
  <2> QED
    BY <2>1, <2>2, <2>3 DEF Upload
<1> QED
  BY <1>2, <1>3, <1>4, <1>5, <1>6 DEF Inv

\* A request that ends and leaves the file and its row alone.
LEMMA EndInv ==
    ASSUME Inv, NEW p \in Proc, Goto(p, "idle"), UNCHANGED <<row, objects, client, queue, work, calls, raced, late>>,
           faults' \in 0..MaxFaults, faults' = faults \/ faults' # 0,
           faults' # 0 \/ req[p].at \notin {"dest", "unlink", "ready", "rollback"}
    PROVE  Inv'
<1>1. PICK d \in Request : req' = [req EXCEPT ![p] = d] /\ d.at = "idle"
  BY GotoFields DEF Inv, Labels
<1> QED
  BY <1>1, MoveInv

LEMMA BeginInv ==
    ASSUME Inv, NEW p \in Proc, NEW o \in OpNames, NEW m \in Media, Begin(p, o, m)
    PROVE  Inv'
<1> USE DEF objects, client, story
<1>0. TypeOK /\ Upload(m)
  BY DEF Inv
<1> DEFINE d == [Idle EXCEPT !.at = "read", !.op = o, !.m = m]
<1>1. d \in Request /\ d.at = "read" /\ d.op = o /\ d.m = m
  BY IdleType DEF Request, Labels
<1>2. req' = [req EXCEPT ![p] = d] /\ req[p].at = "idle" /\ MayBegin(o, m)
      /\ UNCHANGED <<row, temp, perm, known, queue, work, faults, late>>
      /\ window' = (IF o \in Cleanup THEN window \ {m} ELSE window)
      /\ calls' = calls + 1 /\ calls < MaxCalls
      /\ raced' = (IF o = "confirm" /\ \E q \in InFlight(m) : req[q].op = "confirm"
                  THEN raced \cup {m} ELSE raced)
  BY DEF Begin
<1> HIDE DEF d
<1>3. /\ req' \in [Proc -> Request] /\ req'[p] = d
      /\ \A q \in Proc : q # p => req'[q] = req[q]
  BY <1>0, <1>1, <1>2, Replaced
<1>4. TypeOK'
  BY <1>0, <1>2, <1>3, MediaAssumption DEF TypeOK
<1>5. o \in Cleaning => /\ \A q \in Proc : req[q].at = "idle" \/ req[q].m # m
                        /\ row[m] # NULL /\ row[m].status # "PENDING"
                        /\ o = "failed" => row[m].status = "FAILED"
                        /\ o = "purge" => row[m].deleted
  <2> SUFFICES ASSUME o \in Cleaning
               PROVE  /\ \A q \in Proc : req[q].at = "idle" \/ req[q].m # m
                      /\ row[m] # NULL /\ row[m].status # "PENDING"
                      /\ o = "failed" => row[m].status = "FAILED"
                      /\ o = "purge" => row[m].deleted
    OBVIOUS
  <2>1. Quiet(m) /\ Allowed(o, row[m]) /\ ~StaleAllowed(row[m])
    BY <1>2 DEF MayBegin, Cleaning
  <2>2. row[m] # NULL
    BY <2>1 DEF Allowed
  <2>3. row[m].status # "PENDING"
    BY <1>0, <2>1, <2>2 DEF StaleAllowed, Upload
  <2>4. o = "failed" => row[m].status = "FAILED"
    BY <2>1, <2>2 DEF Allowed, FailedAllowed
  <2>5. o = "purge" => row[m].deleted
    BY <2>1, <2>2 DEF Allowed, PurgeAllowed
  <2> QED
    BY <2>1, <2>2, <2>3, <2>4, <2>5 DEF Quiet, InFlight
<1>6. ASSUME NEW q \in Proc PROVE Fits(q)'
  <2>1. CASE q = p
    <3>1. o \in Cleanup => m \notin window'
      BY <1>2
    <3>2. o = "send" => m \in known
      BY <1>2 DEF MayBegin
    <3> QED
      BY <1>1, <1>2, <1>3, <1>5, <2>1, <3>1, <3>2 DEF Fits, Confirming, Unkeyed, Cleaning, Cleanup
  <2>2. CASE q # p
    BY <1>2, <1>3, <2>2 DEF Inv, Fits
  <2> QED
    BY <2>1, <2>2
<1>7. Alone'
  BY <1>1, <1>2, <1>3 DEF Inv, Alone, InFlight
<1>8. Closed'
  BY <1>1, <1>2, <1>3, <1>5 DEF Inv, Closed, Writing, Confirming
<1>9. ASSUME NEW x \in Media PROVE Upload(x)'
  <2>1. Upload(x)
    BY DEF Inv
  <2>2. (x \notin raced' /\ x \in known) => \A q \in Proc : req'[q].m = x => req'[q].at \notin Confirming
    BY <1>1, <1>2, <1>3, <2>1 DEF Upload, Confirming
  <2>3. (faults = 0 /\ x \in perm /\ row[x] # NULL /\ ~row[x].hasKey) =>
           \E q \in Proc : req'[q].m = x /\ req'[q].at \in {"dest", "unlink", "ready", "rollback"}
    BY <1>2, <1>3, <2>1 DEF Upload
  <2>4. raced \subseteq raced'
    BY <1>2
  <2> QED
    BY <1>2, <2>1, <2>2, <2>3, <2>4 DEF Upload
<1> QED
  BY <1>4, <1>6, <1>7, <1>8, <1>9 DEF Inv

LEMMA FailInv == ASSUME Inv, NEW p \in Proc, Fail(p) PROVE Inv'
<1>0. TypeOK /\ Fits(p) /\ req[p].at # "idle" /\ req[p].at \in Labels
  BY RequestFacts DEF Inv, Fail
<1>1. faults' \in 0..MaxFaults /\ faults' # 0
  BY <1>0, MediaAssumption DEF Fail, TypeOK
<1>2. CASE Goto(p, "idle")
  BY <1>1, <1>2, EndInv DEF Fail, story
<1>3. ASSUME NEW l \in {"rollback", "fail"}, Goto(p, l), req[p].at \in Confirming,
             l = "rollback" => req[p].at \in Unkeyed
      PROVE  Inv'
  <2>1. PICK d \in Request : /\ req' = [req EXCEPT ![p] = d] /\ d.at = l
                             /\ d.op = req[p].op /\ d.m = req[p].m
    BY <1>0, <1>3, GotoFields DEF Labels
  <2>2. req'[p] = d
    BY <1>0, <2>1, Replaced
  <2>3. UNCHANGED <<row, temp, perm, window, known, raced, late>>
    BY DEF Fail, objects, client, story
  <2>4. Fits(p)'
    BY <1>0, <1>1, <1>3, <2>1, <2>2, <2>3 DEF Fits, Confirming, Unkeyed, Cleaning
  <2> QED
    BY <1>0, <1>1, <1>3, <2>1, <2>4, MoveInv DEF Fail, story, Writing, Confirming
<1> QED
  BY <1>2, <1>3 DEF Fail, Moving, Confirming, Unkeyed

\* Steps that only decide where to go on.
LEMMA DecideInv ==
    ASSUME Inv, NEW p \in Proc, HeadTemp(p) \/ VerifySource(p) \/ VerifyCopy(p)
    PROVE  Inv'
<1>0. TypeOK /\ Fits(p) /\ req[p].at # "idle" /\ Upload(req[p].m) /\ faults \in 0..MaxFaults
  BY RequestFacts DEF Inv, HeadTemp, VerifySource, VerifyCopy, TypeOK
<1>1. PICK l \in {"source", "fail", "copy", "rollback", "unlink"} :
        /\ Goto(p, l)
        /\ \/ req[p].at = "head" /\ ((l = "source" /\ req[p].m \in temp) \/ l = "fail")
           \/ req[p].at = "source" /\ l \in {"copy", "rollback"}
           \/ req[p].at = "dest" /\ l \in {"unlink", "rollback"}
  BY DEF HeadTemp, VerifySource, VerifyCopy
<1>2. PICK d \in Request : /\ req' = [req EXCEPT ![p] = d] /\ d.at = l
                           /\ d.op = req[p].op /\ d.m = req[p].m
  BY <1>0, <1>1, GotoFields DEF Labels
<1>3. req'[p] = d
  BY <1>0, <1>2, Replaced
<1>4. UNCHANGED <<row, temp, perm, window, known, raced, late, faults, queue, work, calls>>
  BY DEF HeadTemp, VerifySource, VerifyCopy, objects, client, counts, story
<1>5. Fits(p)'
  BY <1>0, <1>1, <1>2, <1>3, <1>4 DEF Fits, Confirming, Unkeyed, Cleaning, Upload
<1> QED
  BY <1>0, <1>1, <1>2, <1>4, <1>5, MoveInv DEF Writing, Confirming, objects, client, story

\* A request works on its own file: the others' files keep what is known of them.
LEMMA LocalInv ==
    ASSUME Inv, NEW p \in Proc, NEW m \in Media, req[p].m = m, NEW d \in Request, req' = [req EXCEPT ![p] = d], req[p].at # "idle",
           d.at # "idle" => d.op = req[p].op /\ d.m = m,
           UNCHANGED <<window, calls, faults, raced, late>>, TypeOK',
           \A x \in Media \ {m} :
             row'[x] = row[x] /\ (x \in temp' <=> x \in temp) /\ (x \in perm' <=> x \in perm)
             /\ (x \in known' <=> x \in known),
           d.at \in Writing => req[p].at \in Writing \/
              (\A q \in Proc : (req[q].at # "idle" /\ req[q].m = m) => req[q].op \notin Cleaning),
           row'[m] = NULL =>
              d.at \notin Writing
              /\ \A q \in Proc : (q # p /\ req[q].m = m) => req[q].at \notin Writing,
           \A q \in Proc : (q # p /\ req[q].m = m /\ req[q].at # "idle") => Fits(q)',
           Fits(p)', Upload(m)'
    PROVE  Inv'
<1>1. /\ req' \in [Proc -> Request] /\ req'[p] = d
      /\ \A q \in Proc : q # p => req'[q] = req[q]
  BY Replaced DEF Inv
<1>3. ASSUME NEW q \in Proc PROVE Fits(q)'
  <2>1. CASE q # p /\ (req[q].m # m \/ req[q].at = "idle")
    <3>1. Fits(q) /\ req[q].m \in Media /\ req'[q] = req[q]
      BY <1>1, <2>1, RequestFacts DEF Inv
    <3>2. CASE req[q].at = "idle"
      BY <3>1, <3>2 DEF Fits
    <3>3. CASE req[q].m # m
      BY <3>1, <3>3 DEF Fits
    <3> QED
      BY <2>1, <3>2, <3>3
  <2> QED
    BY <2>1
<1>4. Alone'
  BY <1>1 DEF Inv, Alone
<1>5. Closed'
  <2> SUFFICES ASSUME NEW r \in Proc, req'[r].at \in Writing
               PROVE  /\ row'[req'[r].m] # NULL
                      /\ \A q \in Proc : (req'[q].at # "idle" /\ req'[q].m = req'[r].m) => req'[q].op \notin Cleaning
    BY DEF Closed
  <2>1. CASE r = p
    <3>1. d.m = m /\ d.at # "idle"
      BY <1>1, <2>1 DEF Writing, Confirming
    <3>2. row'[m] # NULL
      BY <1>1, <2>1
    <3>3. \A q \in Proc : (req[q].at # "idle" /\ req[q].m = m) => req[q].op \notin Cleaning
      BY <1>1, <2>1 DEF Inv, Closed
    <3> QED
      BY <1>1, <2>1, <3>1, <3>2, <3>3
  <2>2. CASE r # p
    <3>1. /\ row[req[r].m] # NULL /\ req'[r] = req[r] /\ req[r].m \in Media
          /\ \A q \in Proc : (req[q].at # "idle" /\ req[q].m = req[r].m) => req[q].op \notin Cleaning
      BY <1>1, <2>2, RequestFacts DEF Inv, Closed
    <3>2. row'[req[r].m] # NULL
      BY <2>2, <3>1
    <3> QED
      BY <1>1, <3>1, <3>2
  <2> QED
    BY <2>1, <2>2
<1>6. ASSUME NEW x \in Media, x # m PROVE Upload(x)'
  <2>1. Upload(x) /\ row'[x] = row[x] /\ (x \in temp' <=> x \in temp) /\ (x \in perm' <=> x \in perm)
        /\ (x \in known' <=> x \in known)
    BY <1>6 DEF Inv
  <2>2. (x \notin raced /\ x \in known) => \A q \in Proc : req'[q].m = x => req'[q].at \notin Confirming
    BY <1>1, <1>6, <2>1 DEF Upload, Confirming
  <2>3. (faults = 0 /\ x \in perm /\ row[x] # NULL /\ ~row[x].hasKey) =>
           \E q \in Proc : req'[q].m = x /\ req'[q].at \in {"dest", "unlink", "ready", "rollback"}
    BY <1>1, <1>6, <2>1 DEF Upload
  <2> QED
    BY <2>1, <2>2, <2>3 DEF Upload
<1> QED
  BY <1>3, <1>4, <1>5, <1>6 DEF Inv

\* What a request that goes on finds at its file.
LEMMA Around ==
    ASSUME Inv, NEW p \in Proc, NEW m \in Media, req[p].m = m, req[p].at # "idle"
    PROVE  /\ TypeOK /\ Fits(p) /\ Upload(m) /\ req[p] \in Request /\ row[m] \in Attachment \cup {NULL}
           /\ \A q \in Proc : Fits(q)
           /\ req[p].at \in Writing =>
                /\ row[m] # NULL
                /\ \A q \in Proc : (req[q].at # "idle" /\ req[q].m = m) => req[q].op \notin Cleaning
           /\ req[p].op \in Cleaning =>
                \A q \in Proc : req[q].m = m => req[q].at \notin Writing
           /\ (req[p].op = "confirm" /\ m \notin raced) =>
                \A q \in Proc : (q # p /\ req[q].m = m /\ req[q].at # "idle") => req[q].op # "confirm"
           /\ (req[p].op = "confirm" /\ m \notin raced) =>
                \A q \in Proc : (q # p /\ req[q].m = m) => req[q].at \notin Confirming
<1>1. TypeOK /\ Fits(p) /\ Upload(m) /\ (\A q \in Proc : Fits(q)) /\ Closed /\ Alone
  BY DEF Inv
<1>2. req[p] \in Request /\ row[m] \in Attachment \cup {NULL}
  BY <1>1 DEF TypeOK
<1>3. req[p].at \in Writing =>
                /\ row[m] # NULL
                /\ \A q \in Proc : (req[q].at # "idle" /\ req[q].m = m) => req[q].op \notin Cleaning
  BY <1>1 DEF Closed
<1>4. req[p].op \in Cleaning => \A q \in Proc : req[q].m = m => req[q].at \notin Writing
  BY <1>1 DEF Closed
<1>5. (req[p].op = "confirm" /\ m \notin raced) =>
                \A q \in Proc : (q # p /\ req[q].m = m /\ req[q].at # "idle") => req[q].op # "confirm"
  BY <1>1 DEF Alone
<1>6. (req[p].op = "confirm" /\ m \notin raced) =>
                \A q \in Proc : (q # p /\ req[q].m = m) => req[q].at \notin Confirming
  BY <1>1, <1>5 DEF Fits, Confirming
<1> QED
  BY <1>1, <1>2, <1>3, <1>4, <1>5, <1>6

\* The first read, by what the operation finds.
LEMMA ReadInv == ASSUME Inv, NEW p \in Proc, Read(p) PROVE Inv'
<1> USE DEF objects, counts, story
<1>0. TypeOK /\ req[p].at = "read" /\ req[p].m \in Media /\ req[p].op \in OpNames
      /\ UNCHANGED <<row, temp, perm, window, queue, work, calls, faults, raced, late>>
  BY RequestFacts DEF Inv, Read
<1>1. PICK m \in Media, o \in OpNames : req[p].m = m /\ req[p].op = o
  BY <1>0
<1>2. /\ known' = IF o = "confirm" /\ row[m] # NULL /\ ~ConfirmAllowed(row[m]) THEN known \cup {m} ELSE known
      /\ \/ /\ Allowed(o, row[m])
            /\ req' = [req EXCEPT ![p].at = FirstStep[o],
                                  ![p].seen = IF o \in {"failed", "purge"} THEN Keys(row[m]) ELSE @]
         \/ ~Allowed(o, row[m]) /\ Goto(p, "idle")
  BY <1>1 DEF Read
<1>3. /\ Fits(p) /\ Upload(m) /\ req[p] \in Request /\ row[m] \in Attachment \cup {NULL}
      /\ \A q \in Proc : Fits(q)
      /\ o \in Cleaning => \A q \in Proc : req[q].m = m => req[q].at \notin Writing
      /\ (o = "confirm" /\ m \notin raced) =>
            \A q \in Proc : (q # p /\ req[q].m = m) => req[q].at \notin Confirming
  BY <1>0, <1>1, Around
<1>4. PICK d \in Request :
        /\ req' = [req EXCEPT ![p] = d]
        /\ \/ d.at = "idle"
           \/ /\ Allowed(o, row[m]) /\ d.at = FirstStep[o] /\ d.op = o /\ d.m = m
              /\ o \in Cleaning => d.seen = Keys(row[m])
  <2>1. CASE ~Allowed(o, row[m])
    BY <1>0, <1>2, <2>1, GotoFields DEF Labels
  <2>2. CASE Allowed(o, row[m])
    <3> DEFINE s == IF o \in Cleaning THEN Keys(row[m]) ELSE req[p].seen
               d == [req[p] EXCEPT !.at = FirstStep[o], !.seen = s]
    <3>1. FirstStep[o] \in Labels
      BY DEF FirstStep, Labels, OpNames
    <3>2. row[m] \in Attachment
      BY <1>3, <2>2 DEF Allowed
    <3>3. s \in [hasTemp: BOOLEAN, hasKey: BOOLEAN]
      BY <1>3, <3>2 DEF Keys, Attachment, Request
    <3>4. req' = [req EXCEPT ![p] = d]
      BY <1>0, <1>2, <2>2 DEF TypeOK, Request, Cleaning
    <3> HIDE DEF s
    <3>5. d \in Request /\ d.at = FirstStep[o] /\ d.op = o /\ d.m = m /\ d.seen = s
      BY <1>1, <1>3, <3>1, <3>3 DEF Request
    <3> HIDE DEF d
    <3>6. o \in Cleaning => s = Keys(row[m])
      BY DEF s
    <3> QED
      BY <2>2, <3>4, <3>5, <3>6
  <2> QED
    BY <2>1, <2>2
<1>5. req' \in [Proc -> Request] /\ req'[p] = d /\ \A q \in Proc : q # p => req'[q] = req[q]
  BY <1>0, <1>4, Replaced
<1>6. TypeOK'
  <2>1. known' \subseteq Media
    BY <1>0, <1>2 DEF TypeOK
  <2> QED
    BY <1>0, <1>5, <2>1, TypeFrame DEF TypeOK
<1>7. d.at # "idle" =>
        /\ row[m] # NULL
        /\ o = "confirm" => d.at = "head" /\ row[m].status = "PENDING"
        /\ o = "send" => d.at = "link" /\ row[m].status = "READY"
        /\ o = "delete" => d.at = "mark"
        /\ o = "stale" => d.at = "drop" /\ row[m].status = "PENDING"
        /\ o \in Cleaning => d.at = "assets" /\ d.seen = Keys(row[m])
  <2> SUFFICES ASSUME d.at # "idle"
               PROVE  /\ row[m] # NULL
                      /\ o = "confirm" => d.at = "head" /\ row[m].status = "PENDING"
                      /\ o = "send" => d.at = "link" /\ row[m].status = "READY"
                      /\ o = "delete" => d.at = "mark"
                      /\ o = "stale" => d.at = "drop" /\ row[m].status = "PENDING"
                      /\ o \in Cleaning => d.at = "assets" /\ d.seen = Keys(row[m])
    OBVIOUS
  <2>1. Allowed(o, row[m]) /\ d.at = FirstStep[o] /\ (o \in Cleaning => d.seen = Keys(row[m]))
    BY <1>4
  <2>2. row[m] # NULL /\ (o = "confirm" => ConfirmAllowed(row[m]))
    BY <2>1 DEF Allowed
  <2>3. o = "send" => SendAllowed(row[m])
    BY <2>1 DEF Allowed
  <2>4. o = "stale" => StaleAllowed(row[m])
    BY <2>1 DEF Allowed
  <2>5. /\ FirstStep["confirm"] = "head" /\ FirstStep["send"] = "link" /\ FirstStep["delete"] = "mark"
        /\ FirstStep["stale"] = "drop" /\ FirstStep["failed"] = "assets" /\ FirstStep["purge"] = "assets"
    BY DEF FirstStep
  <2> QED
    BY <2>1, <2>2, <2>3, <2>4, <2>5 DEF ConfirmAllowed, SendAllowed, StaleAllowed, Cleaning
<1>8. known \subseteq known' /\ (m \in known' => m \in known \/ (o = "confirm" /\ row[m] # NULL /\ row[m].status # "PENDING"))
      /\ \A x \in Media \ {m} : x \in known' <=> x \in known
  BY <1>2 DEF ConfirmAllowed
<1>9. ASSUME NEW q \in Proc, q # p PROVE Fits(q)'
  BY <1>0, <1>3, <1>5, <1>8, <1>9 DEF Fits
<1>10. Fits(p)'
  <2> SUFFICES ASSUME d.at # "idle" PROVE Fits(p)'
    BY <1>5 DEF Fits
  <2>1. d.op = o /\ d.m = m /\ row[m] # NULL
    BY <1>4, <1>7
  <2>2. CASE o \in Cleaning
    <3>1. m \in temp => row[m].hasTemp \/ m \in late
      BY <1>3, <2>1 DEF Upload
    <3>2. (faults = 0 /\ m \in perm) => row[m].hasKey
      BY <1>3, <2>1, <2>2 DEF Upload, Writing, Confirming
    <3>3. d.at = "assets" /\ d.seen.hasTemp = row[m].hasTemp /\ d.seen.hasKey = row[m].hasKey
      BY <1>7, <2>2 DEF Keys
    <3> QED
      BY <1>0, <1>1, <1>3, <1>5, <2>1, <2>2, <3>1, <3>2, <3>3 DEF Fits, Cleaning, Confirming, Unkeyed
  <2>3. CASE o \notin Cleaning
    <3>1. CASE o = "confirm"
      BY <1>0, <1>1, <1>3, <1>5, <1>7, <1>8, <2>1, <3>1 DEF Fits, Cleaning, Confirming, Unkeyed, Upload
    <3>2. CASE o = "send"
      BY <1>0, <1>1, <1>3, <1>5, <1>7, <1>8, <2>1, <3>2 DEF Fits, Cleaning, Confirming, Unkeyed, Upload
    <3>3. CASE o = "delete"
      BY <1>0, <1>1, <1>3, <1>5, <1>7, <1>8, <2>1, <3>3 DEF Fits, Cleaning, Confirming, Unkeyed, Upload
    <3>4. CASE o = "stale"
      BY <1>0, <1>1, <1>3, <1>5, <1>7, <1>8, <2>1, <3>4 DEF Fits, Cleaning, Confirming, Unkeyed, Upload
    <3> QED
      BY <2>3, <3>1, <3>2, <3>3, <3>4 DEF OpNames, Cleaning
  <2> QED
    BY <2>2, <2>3
<1>11. Upload(m)'
  <2>1. ASSUME m \notin raced, m \in known', NEW q \in Proc, req'[q].m = m PROVE req'[q].at \notin Confirming
    <3>1. CASE q = p
      BY <1>3, <1>5, <1>7, <1>8, <2>1, <3>1, <1>4 DEF Confirming, Upload, FirstStep, OpNames, Cleaning
    <3>2. CASE q # p
      BY <1>3, <1>5, <1>8, <2>1, <3>2 DEF Upload
    <3> QED
      BY <3>1, <3>2
  <2>2. (faults = 0 /\ m \in perm /\ row[m] # NULL /\ ~row[m].hasKey) =>
           \E q \in Proc : req'[q].m = m /\ req'[q].at \in {"dest", "unlink", "ready", "rollback"}
    BY <1>0, <1>3, <1>5 DEF Upload
  <2>3. (row[m] # NULL /\ m \in known') => row[m].status # "PENDING"
    BY <1>3, <1>8 DEF Upload
  <2> QED
    BY <1>0, <1>3, <1>8, <2>1, <2>2, <2>3 DEF Upload
<1>12. d.at \in Writing => \A q \in Proc : (req[q].at # "idle" /\ req[q].m = m) => req[q].op \notin Cleaning
  <2>1. d.at \in Writing => row[m] # NULL /\ row[m].status = "PENDING"
    BY <1>4, <1>7 DEF Writing, Confirming, OpNames, Cleaning
  <2> QED
    BY <1>3, <2>1 DEF Fits
<1>13. row[m] = NULL => d.at \notin Writing /\ \A q \in Proc : (q # p /\ req[q].m = m) => req[q].at \notin Writing
  BY <1>7 DEF Inv, Closed, Writing, Confirming
<1> QED
  BY <1>0, <1>1, <1>4, <1>6, <1>8, <1>9, <1>10, <1>11, <1>12, <1>13, LocalInv

LEMMA CopyInv == ASSUME Inv, NEW p \in Proc, Copy(p) PROVE Inv'
<1> USE DEF objects, client, counts, story
<1>0. TypeOK /\ req[p].at = "copy" /\ req[p].m \in Media
  BY RequestFacts DEF Inv, Copy
<1>1. PICK m \in Media : req[p].m = m
  BY <1>0
<1>2. /\ Fits(p) /\ Upload(m) /\ req[p].op = "confirm" /\ row[m] # NULL
      /\ \A q \in Proc : Fits(q) /\ ((req[q].at # "idle" /\ req[q].m = m) => req[q].op \notin Cleaning)
      /\ m \notin raced => \A q \in Proc : (q # p /\ req[q].m = m) => req[q].at \notin Confirming
  BY <1>0, <1>1, Around DEF Fits, Writing, Confirming
<1>3. UNCHANGED <<row, temp, window, known, queue, work, calls, faults, raced, late>>
  BY DEF Copy
<1>4. CASE m \in temp /\ perm' = perm \cup {m} /\ Goto(p, "dest")
  <2>1. PICK d \in Request : /\ req' = [req EXCEPT ![p] = d] /\ d.at = "dest" /\ d.op = "confirm" /\ d.m = m
    BY <1>0, <1>1, <1>2, <1>4, GotoFields DEF Labels
  <2>2. req' \in [Proc -> Request] /\ req'[p] = d /\ \A q \in Proc : q # p => req'[q] = req[q]
    BY <1>0, <2>1, Replaced
  <2>3. TypeOK'
    BY <1>0, <1>3, <1>4, <2>2, TypeFrame DEF TypeOK
  <2>4. ASSUME NEW q \in Proc, q # p, req[q].m = m, req[q].at # "idle" PROVE Fits(q)'
    BY <1>2, <1>3, <1>4, <2>2, <2>4 DEF Fits, Cleaning
  <2>5. Fits(p)'
    BY <1>0, <1>1, <1>2, <1>3, <1>4, <2>1, <2>2 DEF Fits, Cleaning, Confirming, Unkeyed
  <2>6. Upload(m)'
    BY <1>0, <1>1, <1>2, <1>3, <1>4, <2>1, <2>2 DEF Upload, Confirming
  <2> QED
    BY <1>0, <1>1, <1>2, <1>3, <1>4, <2>1, <2>3, <2>4, <2>5, <2>6, LocalInv DEF Writing, Confirming
<1>5. CASE Goto(p, "rollback") /\ UNCHANGED perm
  <2>1. PICK d \in Request : /\ req' = [req EXCEPT ![p] = d] /\ d.at = "rollback" /\ d.op = "confirm" /\ d.m = m
    BY <1>0, <1>1, <1>2, <1>5, GotoFields DEF Labels
  <2>2. req'[p] = d
    BY <1>0, <2>1, Replaced
  <2>3. Fits(p)'
    BY <1>0, <1>1, <1>2, <1>3, <1>5, <2>1, <2>2 DEF Fits, Cleaning, Confirming, Unkeyed
  <2>4. faults \in 0..MaxFaults
    BY <1>0 DEF TypeOK
  <2> QED
    BY <1>0, <1>1, <1>2, <1>3, <1>5, <2>1, <2>3, <2>4, MoveInv DEF Writing, Confirming
<1> QED
  BY <1>1, <1>4, <1>5 DEF Copy

\* Only the temporary file is deleted.
LEMMA DropInv == ASSUME Inv, NEW p \in Proc, DeleteSource(p) \/ DropTemp(p) PROVE Inv'
<1> USE DEF objects, client, counts, story
<1>0. TypeOK /\ req[p].at \in {"unlink", "drop"} /\ req[p].m \in Media
  BY RequestFacts DEF Inv, DeleteSource, DropTemp
<1>1. PICK m \in Media, l \in {"ready", "expire"} :
        req[p].m = m /\ Goto(p, l) /\ ((l = "ready" /\ req[p].at = "unlink") \/ (l = "expire" /\ req[p].at = "drop"))
  BY <1>0 DEF DeleteSource, DropTemp
<1>2. /\ Fits(p) /\ Upload(m) /\ row[m] # NULL
      /\ \A q \in Proc : Fits(q) /\ ((req[q].at # "idle" /\ req[q].m = m) => req[q].op \notin Cleaning)
  BY <1>0, <1>1, Around DEF Writing, Confirming
<1>3. UNCHANGED <<row, perm, window, known, queue, work, calls, faults, raced, late>> /\ temp' = temp \ {m}
  BY <1>1 DEF DeleteSource, DropTemp
<1>4. PICK d \in Request : /\ req' = [req EXCEPT ![p] = d] /\ d.at = l /\ d.op = req[p].op /\ d.m = m
  BY <1>0, <1>1, GotoFields DEF Labels
<1>5. req' \in [Proc -> Request] /\ req'[p] = d /\ \A q \in Proc : q # p => req'[q] = req[q]
  BY <1>0, <1>4, Replaced
<1>6. TypeOK'
  BY <1>0, <1>3, <1>5, TypeFrame DEF TypeOK
<1>7. ASSUME NEW q \in Proc, q # p, req[q].m = m, req[q].at # "idle" PROVE Fits(q)'
  BY <1>2, <1>3, <1>5, <1>7 DEF Fits, Cleaning
<1>8. Fits(p)'
  BY <1>0, <1>1, <1>2, <1>3, <1>4, <1>5 DEF Fits, Cleaning, Confirming, Unkeyed
<1>9. Upload(m)'
  BY <1>0, <1>1, <1>2, <1>3, <1>4, <1>5 DEF Upload, Confirming
<1> QED
  BY <1>0, <1>1, <1>2, <1>3, <1>4, <1>6, <1>7, <1>8, <1>9, LocalInv DEF Writing, Confirming

\* Without a second confirmation nobody else's file is in the way.
LEMMA RollbackInv == ASSUME Inv, NEW p \in Proc, Rollback(p) PROVE Inv'
<1> USE DEF objects, client, counts, story
<1>0. TypeOK /\ req[p].at = "rollback" /\ req[p].m \in Media
  BY RequestFacts DEF Inv, Rollback
<1>1. PICK m \in Media : req[p].m = m
  BY <1>0
<1>2. /\ Fits(p) /\ Upload(m) /\ req[p].op = "confirm" /\ row[m] # NULL
      /\ m \notin raced => ~row[m].hasKey
      /\ \A q \in Proc : Fits(q) /\ ((req[q].at # "idle" /\ req[q].m = m) => req[q].op \notin Cleaning)
      /\ m \notin raced => \A q \in Proc : (q # p /\ req[q].m = m) => req[q].at \notin Confirming
  BY <1>0, <1>1, Around DEF Fits, Writing, Confirming, Unkeyed
<1>3. UNCHANGED <<row, temp, window, known, queue, work, calls, faults, raced, late>> /\ perm' = perm \ {m}
      /\ Goto(p, "fail")
  BY <1>1 DEF Rollback
<1>4. PICK d \in Request : /\ req' = [req EXCEPT ![p] = d] /\ d.at = "fail" /\ d.op = "confirm" /\ d.m = m
  BY <1>0, <1>1, <1>2, <1>3, GotoFields DEF Labels
<1>5. req' \in [Proc -> Request] /\ req'[p] = d /\ \A q \in Proc : q # p => req'[q] = req[q]
  BY <1>0, <1>4, Replaced
<1>6. TypeOK'
  BY <1>0, <1>3, <1>5, TypeFrame DEF TypeOK
<1>7. ASSUME NEW q \in Proc, q # p, req[q].m = m, req[q].at # "idle" PROVE Fits(q)'
  BY <1>2, <1>3, <1>5, <1>7 DEF Fits, Cleaning, Confirming
<1>8. Fits(p)'
  BY <1>0, <1>1, <1>2, <1>3, <1>4, <1>5 DEF Fits, Cleaning, Confirming, Unkeyed
<1>9. Upload(m)'
  BY <1>0, <1>1, <1>2, <1>3, <1>4, <1>5 DEF Upload, Confirming
<1> QED
  BY <1>0, <1>1, <1>2, <1>3, <1>4, <1>6, <1>7, <1>8, <1>9, LocalInv DEF Writing, Confirming

-----------------------------------------------------------------------------
(* Steps that update the row.                                                *)

\* The update of one row.
LEMMA RowSet ==
    ASSUME TypeOK, NEW m \in Media, NEW r \in Attachment \cup {NULL}, row' = [row EXCEPT ![m] = r]
    PROVE  /\ row' \in [Media -> Attachment \cup {NULL}] /\ row'[m] = r
           /\ \A x \in Media \ {m} : row'[x] = row[x]
  BY DEF TypeOK

LEMMA MarkReadyInv == ASSUME Inv, NEW p \in Proc, MarkReady(p) PROVE Inv'
<1> USE DEF objects, client, counts, story
<1>0. TypeOK /\ req[p].at = "ready" /\ req[p].m \in Media
  BY RequestFacts DEF Inv, MarkReady
<1>1. PICK m \in Media : req[p].m = m
  BY <1>0
<1>2. /\ Fits(p) /\ Upload(m) /\ req[p].op = "confirm" /\ row[m] # NULL /\ row[m] \in Attachment
      /\ (m \in temp => m \in late) /\ (m \notin raced => m \in perm)
      /\ \A q \in Proc : Fits(q) /\ ((req[q].at # "idle" /\ req[q].m = m) => req[q].op \notin Cleaning)
      /\ m \notin raced => \A q \in Proc : (q # p /\ req[q].m = m) => req[q].at \notin Confirming
  BY <1>0, <1>1, Around DEF Fits, Writing, Confirming
<1> DEFINE r == [row[m] EXCEPT !.status = "READY", !.hasKey = TRUE, !.hasTemp = FALSE]
<1>3. /\ row' = [row EXCEPT ![m] = r] /\ Goto(p, "enqueue")
      /\ UNCHANGED <<temp, perm, window, known, queue, work, calls, faults, raced, late>>
  BY <1>1, <1>2 DEF MarkReady, SetRow
<1>4. /\ r \in Attachment /\ r.status = "READY" /\ r.deleted = row[m].deleted /\ r.linked = row[m].linked
      /\ r.hasKey /\ ~r.hasTemp
  BY <1>2 DEF Attachment, Statuses
<1> HIDE DEF r
<1>5. PICK d \in Request : /\ req' = [req EXCEPT ![p] = d] /\ d.at = "enqueue" /\ d.op = "confirm" /\ d.m = m
  BY <1>0, <1>1, <1>2, <1>3, GotoFields DEF Labels
<1>6. req' \in [Proc -> Request] /\ req'[p] = d /\ \A q \in Proc : q # p => req'[q] = req[q]
  BY <1>0, <1>5, Replaced
<1>7. r # NULL /\ row' \in [Media -> Attachment \cup {NULL}] /\ row'[m] = r
      /\ \A x \in Media \ {m} : row'[x] = row[x]
  BY <1>0, <1>3, <1>4, RowSet, NullAssumption
<1>8. TypeOK'
  BY <1>0, <1>3, <1>6, <1>7, TypeFrame DEF TypeOK
<1>9. ASSUME NEW q \in Proc, q # p, req[q].m = m, req[q].at # "idle" PROVE Fits(q)'
  BY <1>2, <1>3, <1>4, <1>6, <1>7, <1>9 DEF Fits, Cleaning, Confirming, Unkeyed
<1>10. Fits(p)'
  BY <1>2, <1>3, <1>4, <1>5, <1>6, <1>7 DEF Fits, Cleaning, Cleanup, Confirming, Unkeyed
<1>11. Upload(m)'
  BY <1>0, <1>1, <1>2, <1>3, <1>4, <1>5, <1>6, <1>7 DEF Upload, Confirming
<1> QED
  BY <1>0, <1>1, <1>2, <1>3, <1>5, <1>7, <1>8, <1>9, <1>10, <1>11, LocalInv DEF Writing, Confirming

\* A job is of an image or a video, whose row is no longer PENDING.
LEMMA EnqueueInv == ASSUME Inv, NEW p \in Proc, Enqueue(p) PROVE Inv'
<1> USE DEF objects, client, counts, story
<1>0. TypeOK /\ req[p].at = "enqueue" /\ req[p].m \in Media
  BY RequestFacts DEF Inv, Enqueue
<1>1. PICK m \in Media : req[p].m = m
  BY <1>0
<1>2. /\ Fits(p) /\ Upload(m) /\ req[p].op = "confirm" /\ row[m] # NULL /\ row[m].status # "PENDING"
      /\ \A q \in Proc : Fits(q) /\ ((req[q].at # "idle" /\ req[q].m = m) => req[q].op \notin Cleaning)
      /\ m \notin raced => \A q \in Proc : (q # p /\ req[q].m = m) => req[q].at \notin Confirming
  BY <1>0, <1>1, Around DEF Fits, Writing, Confirming
<1>3. /\ known' = known \cup {m} /\ Goto(p, "idle")
      /\ queue' = IF m \in Visual THEN Append(queue, [media |-> m, state |-> "visible", last |-> NULL]) ELSE queue
      /\ UNCHANGED <<row, temp, perm, window, work, calls, faults, raced, late>>
  BY <1>1 DEF Enqueue
<1>4. PICK d \in Request : /\ req' = [req EXCEPT ![p] = d] /\ d.at = "idle"
  BY <1>0, <1>1, <1>2, <1>3, GotoFields DEF Labels
<1>5. req' \in [Proc -> Request] /\ req'[p] = d /\ \A q \in Proc : q # p => req'[q] = req[q]
  BY <1>0, <1>4, Replaced
<1>6. TypeOK'
  <2>1. queue \in Seq(Job) /\ ([media |-> m, state |-> "visible", last |-> NULL] \in Job \/ m \notin Visual)
    BY <1>0 DEF TypeOK, Job
  <2>2. queue' \in Seq(Job) /\ DOMAIN queue \subseteq DOMAIN queue'
    <3>1. CASE m \in Visual
      <4>1. PICK j \in Job : queue' = Append(queue, j)
        BY <1>3, <2>1, <3>1
      <4> QED
        BY <1>0, <4>1 DEF TypeOK
    <3>2. CASE m \notin Visual
      BY <1>0, <1>3, <3>2 DEF TypeOK
    <3> QED
      BY <3>1, <3>2
  <2> QED
    BY <1>0, <1>3, <1>5, <2>2 DEF TypeOK
<1>7. ASSUME NEW q \in Proc, q # p, req[q].m = m, req[q].at # "idle" PROVE Fits(q)'
  BY <1>2, <1>3, <1>5, <1>7 DEF Fits
<1>8. Fits(p)'
  BY <1>4, <1>5 DEF Fits
<1>9. Upload(m)'
  BY <1>0, <1>1, <1>2, <1>3, <1>4, <1>5 DEF Upload, Confirming
<1>10. \A x \in Media \ {m} : x \in known' <=> x \in known
  BY <1>3
<1> QED
  BY <1>0, <1>1, <1>2, <1>3, <1>4, <1>6, <1>7, <1>8, <1>9, <1>10, LocalInv DEF Writing, Confirming

\* The row that a failed confirmation overwrites has not been shown to anybody
\* unless another confirmation was in flight.
LEMMA MarkAsFailedInv == ASSUME Inv, NEW p \in Proc, MarkAsFailed(p) PROVE Inv'
<1> USE DEF objects, client, counts, story
<1>0. TypeOK /\ req[p].at = "fail" /\ req[p].m \in Media
  BY RequestFacts DEF Inv, MarkAsFailed
<1>1. PICK m \in Media : req[p].m = m
  BY <1>0
<1>2. /\ Fits(p) /\ Upload(m) /\ req[p].op = "confirm" /\ row[m] # NULL /\ row[m] \in Attachment
      /\ \A q \in Proc : Fits(q) /\ ((req[q].at # "idle" /\ req[q].m = m) => req[q].op \notin Cleaning)
      /\ m \notin raced => m \notin known /\ ~row[m].linked
  BY <1>0, <1>1, Around DEF Fits, Writing, Confirming, Upload
<1> DEFINE r == [row[m] EXCEPT !.status = "FAILED"]
<1>3. /\ row' = [row EXCEPT ![m] = r] /\ Goto(p, "idle")
      /\ UNCHANGED <<temp, perm, window, known, queue, work, calls, faults, raced, late>>
  BY <1>1, <1>2 DEF MarkAsFailed
<1>4. /\ r \in Attachment /\ r.status = "FAILED" /\ r.deleted = row[m].deleted /\ r.linked = row[m].linked
      /\ r.hasKey = row[m].hasKey /\ r.hasTemp = row[m].hasTemp
  BY <1>2 DEF Attachment, Statuses
<1> HIDE DEF r
<1>5. PICK d \in Request : /\ req' = [req EXCEPT ![p] = d] /\ d.at = "idle"
  BY <1>0, <1>1, <1>2, <1>3, GotoFields DEF Labels
<1>6. req' \in [Proc -> Request] /\ req'[p] = d /\ \A q \in Proc : q # p => req'[q] = req[q]
  BY <1>0, <1>5, Replaced
<1>7. r # NULL /\ row' \in [Media -> Attachment \cup {NULL}] /\ row'[m] = r
      /\ \A x \in Media \ {m} : row'[x] = row[x]
  BY <1>0, <1>3, <1>4, RowSet, NullAssumption
<1>8. TypeOK'
  BY <1>0, <1>3, <1>6, <1>7, TypeFrame DEF TypeOK
<1>9. ASSUME NEW q \in Proc, q # p, req[q].m = m, req[q].at # "idle" PROVE Fits(q)'
  BY <1>2, <1>3, <1>4, <1>6, <1>7, <1>9 DEF Fits, Cleaning, Confirming, Unkeyed
<1>10. Fits(p)'
  BY <1>5, <1>6 DEF Fits
<1>11. Upload(m)'
  <2>1. (faults = 0 /\ m \in perm /\ ~row[m].hasKey) =>
           \E q \in Proc : req'[q].m = m /\ req'[q].at \in {"dest", "unlink", "ready", "rollback"}
    BY <1>0, <1>2, <1>6 DEF Upload
  <2>2. (m \notin raced /\ m \in known) => \A q \in Proc : req'[q].m = m => req'[q].at \notin Confirming
    BY <1>2
  <2> QED
    BY <1>2, <1>3, <1>4, <1>7, <2>1, <2>2 DEF Upload
<1> QED
  BY <1>0, <1>1, <1>2, <1>3, <1>5, <1>7, <1>8, <1>9, <1>10, <1>11, LocalInv DEF Writing, Confirming

\* A message takes an attachment, or the uploader deletes it.
LEMMA FlagInv == ASSUME Inv, NEW p \in Proc, Link(p) \/ MarkDeleted(p) PROVE Inv'
<1> USE DEF objects, client, counts, story
<1>0. TypeOK /\ req[p].at \in {"link", "mark"} /\ req[p].m \in Media
  BY RequestFacts DEF Inv, Link, MarkDeleted
<1>1. PICK m \in Media : req[p].m = m
  BY <1>0
<1>2. /\ Fits(p) /\ Upload(m) /\ row[m] \in Attachment \cup {NULL}
      /\ \A q \in Proc : Fits(q)
      /\ req[p].at = "link" => m \in known
      /\ (req[p].at = "link" /\ m \notin raced /\ row[m] # NULL) => row[m].hasKey /\ row[m].status \in {"READY", "EXPIRED"}
  BY <1>0, <1>1, Around DEF Fits
<1>3. /\ Goto(p, "idle")
      /\ UNCHANGED <<temp, perm, window, known, queue, work, calls, faults, raced, late>>
  BY <1>1 DEF Link, MarkDeleted
<1>4. PICK r \in Attachment \cup {NULL} :
        /\ row' = [row EXCEPT ![m] = r]
        /\ r = NULL <=> row[m] = NULL
        /\ r # NULL =>
             /\ r.status = row[m].status /\ r.hasTemp = row[m].hasTemp /\ r.hasKey = row[m].hasKey
             /\ row[m].linked => r.linked
             /\ r.linked => row[m].linked \/ req[p].at = "link"
             /\ row[m].deleted => r.deleted
  <2>1. CASE row[m] = NULL
    <3>1. row' = [row EXCEPT ![m] = NULL]
      BY <1>0, <1>1, <2>1 DEF Link, MarkDeleted, TypeOK
    <3> QED
      BY <2>1, <3>1
  <2>2. CASE row[m] # NULL /\ Link(p)
    <3> DEFINE r == [row[m] EXCEPT !.linked = TRUE]
    <3>1. /\ r \in Attachment /\ r.status = row[m].status /\ r.hasTemp = row[m].hasTemp
          /\ r.hasKey = row[m].hasKey
      BY <1>2, <2>2 DEF Attachment
    <3>2. r.linked /\ (row[m].deleted => r.deleted)
      BY <1>2, <2>2 DEF Attachment
    <3>3. row' = [row EXCEPT ![m] = r] /\ req[p].at = "link"
      BY <1>1, <2>2 DEF Link
    <3> HIDE DEF r
    <3> QED
      BY <2>2, <3>1, <3>2, <3>3, NullAssumption
  <2>3. CASE row[m] # NULL /\ MarkDeleted(p)
    <3> DEFINE r == [row[m] EXCEPT !.deleted = TRUE]
    <3>1. /\ r \in Attachment /\ r.status = row[m].status /\ r.hasTemp = row[m].hasTemp
          /\ r.hasKey = row[m].hasKey
      BY <1>2, <2>3 DEF Attachment
    <3>2. r.deleted /\ (r.linked <=> row[m].linked)
      BY <1>2, <2>3 DEF Attachment
    <3>3. row' = [row EXCEPT ![m] = r]
      BY <1>1, <2>3 DEF MarkDeleted
    <3> HIDE DEF r
    <3> QED
      BY <2>3, <3>1, <3>2, <3>3, NullAssumption
  <2> QED
    BY <2>1, <2>2, <2>3
<1>5. PICK d \in Request : req' = [req EXCEPT ![p] = d] /\ d.at = "idle"
  BY <1>0, <1>1, <1>2, <1>3, GotoFields DEF Labels
<1>6. req' \in [Proc -> Request] /\ req'[p] = d /\ \A q \in Proc : q # p => req'[q] = req[q]
  BY <1>0, <1>5, Replaced
<1>7. row' \in [Media -> Attachment \cup {NULL}] /\ row'[m] = r
      /\ \A x \in Media \ {m} : row'[x] = row[x]
  BY <1>0, <1>4, RowSet
<1>8. TypeOK'
  BY <1>0, <1>3, <1>6, <1>7, TypeFrame DEF TypeOK
<1>9. ASSUME NEW q \in Proc, q # p, req[q].m = m, req[q].at # "idle" PROVE Fits(q)'
  BY <1>2, <1>3, <1>4, <1>6, <1>7, <1>9 DEF Fits
<1>10. Fits(p)'
  BY <1>5, <1>6 DEF Fits
<1>11. Upload(m)'
  <2>1. (row[m] # NULL /\ faults = 0 /\ m \in perm /\ ~row[m].hasKey) =>
           \E q \in Proc : req'[q].m = m /\ req'[q].at \in {"dest", "unlink", "ready", "rollback"}
    BY <1>0, <1>2, <1>6 DEF Upload
  <2>2. (m \notin raced /\ m \in known) => \A q \in Proc : req'[q].m = m => req'[q].at \notin Confirming
    BY <1>2, <1>5, <1>6 DEF Upload, Confirming
  <2> QED
    BY <1>2, <1>3, <1>4, <1>7, <2>1, <2>2 DEF Upload
<1>12. row'[m] = NULL => \A q \in Proc : req[q].m = m => req[q].at \notin Writing
  BY <1>4, <1>7 DEF Inv, Closed
<1> QED
  BY <1>0, <1>1, <1>2, <1>3, <1>5, <1>7, <1>8, <1>9, <1>10, <1>11, <1>12, LocalInv DEF Writing, Confirming

LEMMA ExpireInv == ASSUME Inv, NEW p \in Proc, Expire(p) PROVE Inv'
<1> USE DEF objects, client, counts, story
<1>0. TypeOK /\ req[p].at = "expire" /\ req[p].m \in Media
  BY RequestFacts DEF Inv, Expire
<1>1. PICK m \in Media : req[p].m = m
  BY <1>0
<1>2. /\ Fits(p) /\ Upload(m) /\ row[m] # NULL /\ row[m] \in Attachment
      /\ m \notin temp /\ ((m \notin raced /\ row[m].hasKey) => m \in perm)
      /\ \A q \in Proc : Fits(q) /\ ((req[q].at # "idle" /\ req[q].m = m) => req[q].op \notin Cleaning)
  BY <1>0, <1>1, Around DEF Fits, Writing, Confirming
<1> DEFINE r == [row[m] EXCEPT !.status = "EXPIRED", !.hasTemp = FALSE]
<1>3. /\ row' = [row EXCEPT ![m] = r] /\ Goto(p, "idle")
      /\ UNCHANGED <<temp, perm, window, known, queue, work, calls, faults, raced, late>>
  BY <1>0, <1>1, <1>2 DEF Expire, TypeOK
<1>4. /\ r \in Attachment /\ r.status = "EXPIRED" /\ r.deleted = row[m].deleted /\ r.linked = row[m].linked
      /\ r.hasKey = row[m].hasKey /\ ~r.hasTemp
  BY <1>2 DEF Attachment, Statuses
<1> HIDE DEF r
<1>5. PICK d \in Request : req' = [req EXCEPT ![p] = d] /\ d.at = "idle"
  BY <1>0, <1>1, <1>2, <1>3, GotoFields DEF Labels
<1>6. req' \in [Proc -> Request] /\ req'[p] = d /\ \A q \in Proc : q # p => req'[q] = req[q]
  BY <1>0, <1>5, Replaced
<1>7. r # NULL /\ row' \in [Media -> Attachment \cup {NULL}] /\ row'[m] = r
      /\ \A x \in Media \ {m} : row'[x] = row[x]
  BY <1>0, <1>3, <1>4, RowSet, NullAssumption
<1>8. TypeOK'
  BY <1>0, <1>3, <1>6, <1>7, TypeFrame DEF TypeOK
<1>9. ASSUME NEW q \in Proc, q # p, req[q].m = m, req[q].at # "idle" PROVE Fits(q)'
  BY <1>2, <1>3, <1>4, <1>6, <1>7, <1>9 DEF Fits, Cleaning, Confirming, Unkeyed
<1>10. Fits(p)'
  BY <1>5, <1>6 DEF Fits
<1>11. Upload(m)'
  <2>1. (faults = 0 /\ m \in perm /\ ~row[m].hasKey) =>
           \E q \in Proc : req'[q].m = m /\ req'[q].at \in {"dest", "unlink", "ready", "rollback"}
    BY <1>0, <1>2, <1>6 DEF Upload
  <2>2. (m \notin raced /\ m \in known) => \A q \in Proc : req'[q].m = m => req'[q].at \notin Confirming
    BY <1>2, <1>5, <1>6 DEF Upload, Confirming
  <2> QED
    BY <1>2, <1>3, <1>4, <1>7, <2>1, <2>2 DEF Upload
<1> QED
  BY <1>0, <1>1, <1>2, <1>3, <1>5, <1>7, <1>8, <1>9, <1>10, <1>11, LocalInv DEF Writing, Confirming

\* A cleanup deletes under the keys it read, which are still those of the row.
LEMMA DeleteAssetsInv == ASSUME Inv, NEW p \in Proc, DeleteAssets(p) PROVE Inv'
<1> USE DEF objects, client, counts, story
<1>0. TypeOK /\ req[p].at = "assets" /\ req[p].m \in Media
  BY RequestFacts DEF Inv, DeleteAssets
<1>1. PICK m \in Media : req[p].m = m
  BY <1>0
<1>2. /\ Fits(p) /\ Upload(m) /\ row[m] \in Attachment \cup {NULL} /\ req[p].op \in Cleaning
      /\ \A q \in Proc : Fits(q) /\ (req[q].m = m => req[q].at \notin Writing)
      /\ row[m] # NULL => row[m].status = "FAILED" \/ row[m].deleted
  BY <1>0, <1>1, Around DEF Fits, Cleaning
<1>3. /\ Goto(p, "erase") /\ UNCHANGED <<row, window, known, queue, work, calls, faults, raced, late>>
      /\ temp' \subseteq temp /\ (m \in temp' => m \in late) /\ perm' \subseteq perm /\ (faults = 0 => m \notin perm')
      /\ \A x \in Media \ {m} : (x \in temp' <=> x \in temp) /\ (x \in perm' <=> x \in perm)
  <2>1. /\ Goto(p, "erase") /\ UNCHANGED <<row, window, known, queue, work, calls, faults, raced, late>>
        /\ temp' = IF req[p].seen.hasTemp THEN temp \ {m} ELSE temp
        /\ perm' = IF req[p].seen.hasKey THEN perm \ {m} ELSE perm
    BY <1>1 DEF DeleteAssets
  <2>2. (m \in temp => req[p].seen.hasTemp \/ m \in late) /\ ((faults = 0 /\ m \in perm) => req[p].seen.hasKey)
    BY <1>0, <1>1, <1>2 DEF Fits
  <2> QED
    BY <2>1, <2>2
<1>4. PICK d \in Request : req' = [req EXCEPT ![p] = d] /\ d.at = "erase" /\ d.op = req[p].op /\ d.m = m
  BY <1>0, <1>1, <1>2, <1>3, GotoFields DEF Labels
<1>5. req' \in [Proc -> Request] /\ req'[p] = d /\ \A q \in Proc : q # p => req'[q] = req[q]
  BY <1>0, <1>4, Replaced
<1>6. TypeOK'
  BY <1>0, <1>3, <1>5, TypeFrame DEF TypeOK
<1>7. ASSUME NEW q \in Proc, q # p, req[q].m = m, req[q].at # "idle" PROVE Fits(q)'
  BY <1>2, <1>3, <1>5, <1>7 DEF Fits, Writing, Confirming, Unkeyed
<1>8. Fits(p)'
  BY <1>0, <1>1, <1>2, <1>3, <1>4, <1>5 DEF Fits, Cleaning, Confirming, Unkeyed
<1>9. Upload(m)'
  BY <1>0, <1>1, <1>2, <1>3, <1>4, <1>5 DEF Upload, Confirming, Writing
<1> QED
  BY <1>0, <1>1, <1>2, <1>3, <1>4, <1>6, <1>7, <1>8, <1>9, LocalInv DEF Writing, Confirming

LEMMA EraseInv == ASSUME Inv, NEW p \in Proc, Erase(p) PROVE Inv'
<1> USE DEF objects, client, counts, story
<1>0. TypeOK /\ req[p].at = "erase" /\ req[p].m \in Media
  BY RequestFacts DEF Inv, Erase
<1>1. PICK m \in Media : req[p].m = m
  BY <1>0
<1>2. /\ Fits(p) /\ Upload(m) /\ row[m] \in Attachment \cup {NULL} /\ req[p].op \in Cleaning
      /\ (m \in temp => m \in late) /\ m \notin window /\ (faults = 0 => m \notin perm)
      /\ \A q \in Proc : Fits(q) /\ (req[q].m = m => req[q].at \notin Writing)
      /\ (row[m] # NULL /\ req[p].op # "purge") => row[m].status = "FAILED"
  BY <1>0, <1>1, Around DEF Fits, Cleaning, Cleanup
<1>3. /\ Goto(p, "idle")
      /\ UNCHANGED <<temp, perm, window, known, queue, work, calls, faults, raced, late>>
  BY <1>1 DEF Erase
<1>4. PICK r \in Attachment \cup {NULL} :
        /\ row' = [row EXCEPT ![m] = r]
        /\ r # NULL =>
             /\ row[m] # NULL /\ r.status = "FAILED" /\ row[m].status = "FAILED" /\ ~r.hasTemp /\ ~r.hasKey
             /\ r.linked = row[m].linked /\ r.deleted = row[m].deleted
  <2>1. CASE row[m] = NULL \/ req[p].op = "purge"
    <3>1. row' = [row EXCEPT ![m] = NULL]
      BY <1>0, <1>1, <2>1 DEF Erase, TypeOK
    <3> QED
      BY <3>1
  <2>2. CASE row[m] # NULL /\ req[p].op # "purge"
    <3> DEFINE r == [row[m] EXCEPT !.hasKey = FALSE, !.hasTemp = FALSE]
    <3>1. /\ r \in Attachment /\ r.status = row[m].status /\ ~r.hasTemp /\ ~r.hasKey
          /\ r.linked = row[m].linked /\ r.deleted = row[m].deleted
      BY <1>2, <2>2 DEF Attachment
    <3>2. row' = [row EXCEPT ![m] = r]
      BY <1>0, <1>1, <2>2 DEF Erase, TypeOK
    <3> HIDE DEF r
    <3> QED
      BY <1>2, <2>2, <3>1, <3>2
  <2> QED
    BY <2>1, <2>2
<1>5. PICK d \in Request : req' = [req EXCEPT ![p] = d] /\ d.at = "idle"
  BY <1>0, <1>1, <1>2, <1>3, GotoFields DEF Labels
<1>6. req' \in [Proc -> Request] /\ req'[p] = d /\ \A q \in Proc : q # p => req'[q] = req[q]
  BY <1>0, <1>5, Replaced
<1>7. row' \in [Media -> Attachment \cup {NULL}] /\ row'[m] = r
      /\ \A x \in Media \ {m} : row'[x] = row[x]
  BY <1>0, <1>4, RowSet
<1>8. TypeOK'
  BY <1>0, <1>3, <1>6, <1>7, TypeFrame DEF TypeOK
<1>9. ASSUME NEW q \in Proc, q # p, req[q].m = m, req[q].at # "idle" PROVE Fits(q)'
  BY <1>2, <1>3, <1>4, <1>6, <1>7, <1>9 DEF Fits, Writing, Confirming, Unkeyed
<1>10. Fits(p)'
  BY <1>5, <1>6 DEF Fits
<1>11. Upload(m)'
  <2>1. r # NULL => (m \notin raced => ~row[m].linked) /\ (row[m].linked => m \in known)
    BY <1>2, <1>4 DEF Upload
  <2>2. (m \notin raced /\ m \in known) => \A q \in Proc : req'[q].m = m => req'[q].at \notin Confirming
    BY <1>2, <1>5, <1>6 DEF Writing, Confirming
  <2> QED
    BY <1>2, <1>3, <1>4, <1>7, <2>1, <2>2 DEF Upload
<1> QED
  BY <1>0, <1>1, <1>2, <1>3, <1>5, <1>7, <1>8, <1>9, <1>10, <1>11, LocalInv DEF Writing, Confirming

-----------------------------------------------------------------------------
(* The client's PUT, the workers and the queue.                              *)

LEMMA PutInv == ASSUME Inv, NEW m \in Media, Put(m) PROVE Inv'
<1> USE DEF objects, counts, story
<1>1. /\ m \in window /\ temp' = temp \cup {m} /\ late' = (IF Moved(m) THEN late \cup {m} ELSE late)
      /\ UNCHANGED <<row, perm, window, known, queue, req, work, calls, faults, raced>>
  BY DEF Put, client
<1>2. TypeOK'
  BY <1>1, TypeFrame DEF Inv, TypeOK
<1>3. /\ late \subseteq late' /\ \A x \in Media : x \in temp' => x \in temp \/ x = m
      /\ (row[m] = NULL \/ ~row[m].hasTemp) => m \in late'
      /\ \A q \in Proc : (req[q].at = "ready" /\ req[q].m = m) => m \in late'
  BY <1>1 DEF Moved, InFlight
<1>4. ASSUME NEW q \in Proc PROVE Fits(q)'
  <2>1. Fits(q) /\ req[q].m \in Media
    BY RequestFacts DEF Inv
  <2>2. CASE req[q].m = m
    BY <1>1, <1>3, <2>1, <2>2 DEF Fits, Cleaning, Cleanup
  <2>3. CASE req[q].m # m
    BY <1>1, <1>3, <2>1, <2>3 DEF Fits
  <2> QED
    BY <2>2, <2>3
<1>5. Alone' /\ Closed'
  BY <1>1 DEF Inv, Alone, Closed
<1>6. ASSUME NEW x \in Media PROVE Upload(x)'
  <2>1. Upload(x)
    BY DEF Inv
  <2>2. x \in temp' => x \in temp \/ x = m
    BY <1>3
  <2> QED
    BY <1>1, <1>3, <2>1, <2>2 DEF Upload
<1> QED
  BY <1>2, <1>4, <1>5, <1>6 DEF Inv

\* The workers and the queue touch no file, and of a row only its retries.
LEMMA AsideInv ==
    ASSUME Inv, TypeOK', UNCHANGED <<temp, perm, window, known, req, raced, late>>,
           faults' = 0 => faults = 0,
           \A m \in Media :
             /\ row'[m] = NULL <=> row[m] = NULL
             /\ row[m] # NULL =>
                  /\ row'[m].status = row[m].status /\ row'[m].hasTemp = row[m].hasTemp
                  /\ row'[m].hasKey = row[m].hasKey /\ row'[m].deleted = row[m].deleted
                  /\ row'[m].linked = row[m].linked
    PROVE  Inv'
<1>1. ASSUME NEW q \in Proc PROVE Fits(q)'
  <2>1. Fits(q) /\ req[q].m \in Media
    BY RequestFacts DEF Inv
  <2> QED
    BY <2>1 DEF Fits
<1>2. Alone'
  BY DEF Inv, Alone
<1>3. Closed'
  BY RequestFacts DEF Inv, Closed
<1>4. ASSUME NEW x \in Media PROVE Upload(x)'
  <2>1. Upload(x)
    BY DEF Inv
  <2> QED
    BY <2>1 DEF Upload
<1> QED
  BY <1>1, <1>2, <1>3, <1>4 DEF Inv

\* The tasks of the workers stay within a queue that keeps its length.
LEMMA QueueType ==
    ASSUME TypeOK, NEW j \in DOMAIN queue, NEW r \in Job, queue' = [queue EXCEPT ![j] = r]
    PROVE  queue' \in Seq(Job) /\ DOMAIN queue' = DOMAIN queue
  BY DEF TypeOK

LEMMA TurnType ==
    ASSUME TypeOK, NEW w \in Worker, work[w].at # "idle",
           NEW l \in {"idle", "fetch", "process", "save", "done", "discard", "failure"}, Turn(w, l)
    PROVE  work' \in [Worker -> Task] /\ \A v \in Worker : work'[v].at # "idle" => work'[v].job \in DOMAIN queue
<1>0. work \in [Worker -> Task] /\ \A v \in Worker : work[v].at # "idle" => work[v].job \in DOMAIN queue
  BY DEF TypeOK
<1>1. PICK t \in Task : work' = [work EXCEPT ![w] = t] /\ (t.at # "idle" => t.job = work[w].job)
  <2>1. CASE l = "idle"
    <3>1. Resting \in Task /\ Resting.at = "idle"
      BY DEF Resting, Task
    <3> QED
      BY <2>1, <3>1 DEF Turn
  <2>2. CASE l # "idle"
    <3> DEFINE t == [work[w] EXCEPT !.at = l]
    <3>1. t \in Task /\ t.job = work[w].job
      BY <1>0 DEF Task
    <3>2. work' = [work EXCEPT ![w] = t]
      BY <2>2 DEF Turn
    <3> HIDE DEF t
    <3> QED
      BY <3>1, <3>2
  <2> QED
    BY <2>1, <2>2
<1> QED
  BY <1>0, <1>1

\* The file of a task.
LEMMA FileType ==
    ASSUME TypeOK, NEW w \in Worker, work[w].at # "idle"
    PROVE  File(w) \in Media /\ work[w].job \in DOMAIN queue /\ queue[work[w].job] \in Job
<1>1. work[w].job \in DOMAIN queue /\ queue \in Seq(Job)
  BY DEF TypeOK
<1>2. queue[work[w].job] \in Job
  BY <1>1
<1> QED
  BY <1>1, <1>2, MediaAssumption DEF File, Job

LEMMA ReceiveInv == ASSUME Inv, NEW w \in Worker, Receive(w) PROVE Inv'
<1> USE DEF objects, client, counts, story
<1>0. TypeOK
  BY DEF Inv
<1>1. PICK j \in DOMAIN queue :
        /\ queue' = [queue EXCEPT ![j].state = "hidden", ![j].last = w]
        /\ work' = [work EXCEPT ![w] = [at |-> "fetch", job |-> j]]
  BY DEF Receive
<1>2. UNCHANGED <<row, temp, perm, window, known, req, calls, faults, raced, late>>
  BY DEF Receive
<1>3. queue[j] \in Job /\ j \in Nat
  BY <1>0 DEF TypeOK
<1>4. queue' \in Seq(Job) /\ DOMAIN queue' = DOMAIN queue
  <2> DEFINE r == [queue[j] EXCEPT !.state = "hidden", !.last = w]
  <2>1. r \in Job
    BY <1>3 DEF Job
  <2>2. queue' = [queue EXCEPT ![j] = r]
    BY <1>0, <1>1, <1>3 DEF TypeOK, Job
  <2> HIDE DEF r
  <2> QED
    BY <1>0, <2>1, <2>2, QueueType
<1>5. work' \in [Worker -> Task] /\ \A v \in Worker : work'[v].at # "idle" => work'[v].job \in DOMAIN queue
  <2>1. [at |-> "fetch", job |-> j] \in Task
    BY <1>3 DEF Task
  <2> QED
    BY <1>0, <1>1, <2>1 DEF TypeOK
<1>6. TypeOK'
  BY <1>0, <1>2, <1>4, <1>5 DEF TypeOK
<1> QED
  BY <1>2, <1>6, AsideInv

LEMMA ReappearInv == ASSUME Inv, NEW j \in 1..MaxCalls, Reappear(j) PROVE Inv'
<1> USE DEF objects, client, counts, story
<1>0. TypeOK /\ j \in DOMAIN queue
  BY DEF Inv, Reappear
<1>1. /\ queue' = [queue EXCEPT ![j].state = "visible"]
      /\ UNCHANGED <<row, temp, perm, window, known, req, work, calls, raced, late>>
  BY DEF Reappear
<1>2. faults' \in 0..MaxFaults /\ (faults' = 0 => faults = 0)
  BY <1>0, MediaAssumption DEF Reappear, TypeOK
<1>3. queue' \in Seq(Job) /\ DOMAIN queue' = DOMAIN queue
  <2> DEFINE r == [queue[j] EXCEPT !.state = "visible"]
  <2>1. queue[j] \in Job
    BY <1>0 DEF TypeOK
  <2>2. r \in Job
    BY <2>1 DEF Job
  <2>3. queue' = [queue EXCEPT ![j] = r]
    BY <1>1
  <2> HIDE DEF r
  <2> QED
    BY <1>0, <2>2, <2>3, QueueType
<1>4. TypeOK'
  BY <1>0, <1>1, <1>2, <1>3 DEF TypeOK
<1> QED
  BY <1>1, <1>2, <1>4, AsideInv

\* A worker that moves on, or fails.
LEMMA MoveOnInv ==
    ASSUME Inv, NEW w \in Worker,
           FetchMedia(w) \/ Process(w) \/ SaveThumbnail(w) \/ FailWorker(w)
    PROVE  Inv'
<1> USE DEF objects, client, counts, story
<1>0. TypeOK
  BY DEF Inv
<1>1. PICK l \in {"idle", "fetch", "process", "save", "done", "discard", "failure"} :
        work[w].at # "idle" /\ Turn(w, l)
  <2>1. CASE FetchMedia(w)
    BY <2>1 DEF FetchMedia
  <2>2. CASE Process(w)
    BY <2>2 DEF Process
  <2>3. CASE SaveThumbnail(w)
    BY <2>3 DEF SaveThumbnail
  <2>4. CASE FailWorker(w)
    BY <2>4 DEF FailWorker
  <2> QED
    BY <2>1, <2>2, <2>3, <2>4
<1>2. UNCHANGED <<row, temp, perm, window, known, queue, req, calls, raced, late>>
  BY DEF FetchMedia, Process, SaveThumbnail, FailWorker
<1>3. faults' \in 0..MaxFaults /\ (faults' = 0 => faults = 0)
  BY <1>0, MediaAssumption DEF FetchMedia, Process, SaveThumbnail, FailWorker, TypeOK
<1>4. TypeOK'
  BY <1>0, <1>1, <1>2, <1>3, TurnType DEF TypeOK
<1> QED
  BY <1>2, <1>3, <1>4, AsideInv

LEMMA DeleteMessageInv == ASSUME Inv, NEW w \in Worker, DeleteMessage(w) PROVE Inv'
<1> USE DEF objects, client, counts, story
<1>0. TypeOK /\ work[w].at # "idle"
  BY DEF Inv, DeleteMessage
<1>1. PICK j \in DOMAIN queue : work[w].job = j /\ queue[j] \in Job
  BY <1>0, FileType
<1>2. /\ Turn(w, "idle") /\ UNCHANGED <<row, temp, perm, window, known, req, calls, faults, raced, late>>
      /\ queue' = [queue EXCEPT ![j].state = "gone", ![j].last = NULL] \/ UNCHANGED queue
  BY <1>1 DEF DeleteMessage
<1>3. queue' \in Seq(Job) /\ DOMAIN queue' = DOMAIN queue
  <2>1. CASE UNCHANGED queue
    BY <1>0, <2>1 DEF TypeOK
  <2>2. CASE queue' = [queue EXCEPT ![j].state = "gone", ![j].last = NULL]
    <3> DEFINE r == [queue[j] EXCEPT !.state = "gone", !.last = NULL]
    <3>1. r \in Job
      BY <1>1 DEF Job
    <3>2. queue' = [queue EXCEPT ![j] = r]
      BY <1>0, <1>1, <2>2 DEF TypeOK, Job
    <3> HIDE DEF r
    <3> QED
      BY <1>0, <3>1, <3>2, QueueType
  <2> QED
    BY <1>2, <2>1, <2>2
<1>4. TypeOK'
  BY <1>0, <1>2, <1>3, TurnType DEF TypeOK
<1> QED
  BY <1>2, <1>4, AsideInv

LEMMA HandleJobFailureInv == ASSUME Inv, NEW w \in Worker, HandleJobFailure(w) PROVE Inv'
<1> USE DEF objects, client, counts, story
<1>0. TypeOK /\ work[w].at # "idle"
  BY DEF Inv, HandleJobFailure
<1>1. PICK m \in Media : File(w) = m
  BY <1>0, FileType
<1>2. /\ UNCHANGED <<temp, perm, window, known, queue, req, calls, faults, raced, late>>
      /\ row' = IF row[m] = NULL THEN row ELSE [row EXCEPT ![m].retries = @ + 1]
  BY <1>1 DEF HandleJobFailure
<1>3. Turn(w, "idle") \/ Turn(w, "discard")
  BY <1>1 DEF HandleJobFailure
<1>4. row' = row \/
      \E r \in Attachment :
        /\ row' = [row EXCEPT ![m] = r] /\ row[m] # NULL
        /\ r.status = row[m].status /\ r.hasTemp = row[m].hasTemp
        /\ r.hasKey = row[m].hasKey /\ r.deleted = row[m].deleted /\ r.linked = row[m].linked
  <2> SUFFICES ASSUME row[m] # NULL PROVE \E r \in Attachment :
        /\ row' = [row EXCEPT ![m] = r] /\ row[m] # NULL
        /\ r.status = row[m].status /\ r.hasTemp = row[m].hasTemp
        /\ r.hasKey = row[m].hasKey /\ r.deleted = row[m].deleted /\ r.linked = row[m].linked
    BY <1>2
  <2> DEFINE r == [row[m] EXCEPT !.retries = @ + 1]
  <2>1. row[m] \in Attachment
    BY <1>0 DEF TypeOK
  <2>2. /\ r \in Attachment /\ r.status = row[m].status /\ r.hasTemp = row[m].hasTemp
        /\ r.hasKey = row[m].hasKey /\ r.deleted = row[m].deleted /\ r.linked = row[m].linked
    BY <2>1 DEF Attachment
  <2>3. row' = [row EXCEPT ![m] = r]
    BY <1>2
  <2> HIDE DEF r
  <2> QED
    BY <2>2, <2>3
<1>5. /\ row' \in [Media -> Attachment \cup {NULL}]
      /\ \A x \in Media :
           /\ row'[x] = NULL <=> row[x] = NULL
           /\ row[x] # NULL =>
                /\ row'[x].status = row[x].status /\ row'[x].hasTemp = row[x].hasTemp
                /\ row'[x].hasKey = row[x].hasKey /\ row'[x].deleted = row[x].deleted
                /\ row'[x].linked = row[x].linked
  <2>1. CASE row' = row
    BY <1>0, <2>1 DEF TypeOK
  <2>2. CASE row' # row
    <3>1. PICK r \in Attachment :
            /\ row' = [row EXCEPT ![m] = r] /\ row[m] # NULL
            /\ r.status = row[m].status /\ r.hasTemp = row[m].hasTemp
            /\ r.hasKey = row[m].hasKey /\ r.deleted = row[m].deleted /\ r.linked = row[m].linked
      BY <1>4, <2>2
    <3>2. r # NULL /\ row' \in [Media -> Attachment \cup {NULL}] /\ row'[m] = r
          /\ \A x \in Media \ {m} : row'[x] = row[x]
      BY <1>0, <3>1, RowSet, NullAssumption
    <3> QED
      BY <3>1, <3>2
  <2> QED
    BY <2>1, <2>2
<1>6. work' \in [Worker -> Task] /\ \A v \in Worker : work'[v].at # "idle" => work'[v].job \in DOMAIN queue
  BY <1>0, <1>3, TurnType
<1>7. TypeOK'
  BY <1>0, <1>2, <1>5, <1>6 DEF TypeOK
<1> QED
  BY <1>2, <1>5, <1>7, AsideInv

-----------------------------------------------------------------------------
(* The invariant and the theorems.                                           *)

LEMMA InitInv == Init => Inv
<1> SUFFICES ASSUME Init PROVE Inv
  OBVIOUS
<1>0. NewRow \in Attachment /\ NewRow # NULL
  <2>1. NewRow \in Attachment
    BY DEF NewRow, Attachment, Statuses
  <2> QED
    BY <2>1, NullAssumption
<1>1. \A p \in Proc : req[p].at = "idle"
  BY DEF Init, Idle
<1>2. TypeOK
  <2>1. Idle \in Request
    BY IdleType, MediaAssumption
  <2>2. Resting \in Task /\ Resting.at = "idle"
    BY DEF Resting, Task
  <2>3. req \in [Proc -> Request]
    BY <2>1 DEF Init
  <2> QED
    BY <1>0, <2>2, <2>3, MediaAssumption DEF Init, TypeOK
<1>3. (\A p \in Proc : Fits(p)) /\ Alone /\ Closed
  BY <1>1 DEF Fits, Alone, Closed, Writing, Confirming
<1>4. ASSUME NEW m \in Media PROVE Upload(m)
  <2>1. row[m] = NewRow /\ m \notin temp /\ m \notin perm /\ m \notin known
    BY DEF Init
  <2> QED
    BY <1>0, <2>1 DEF Upload, NewRow
<1> QED
  BY <1>2, <1>3, <1>4 DEF Inv

LEMMA NextInv == Inv /\ [Next]_vars => Inv'
<1> SUFFICES ASSUME Inv, [Next]_vars PROVE Inv'
  OBVIOUS
<1>1. ASSUME NEW m \in Media, Put(m) PROVE Inv'
  BY <1>1, PutInv
<1>2. ASSUME NEW p \in Proc, NEW o \in OpNames, NEW m \in Media, Begin(p, o, m) PROVE Inv'
  BY <1>2, BeginInv
<1>3. ASSUME NEW p \in Proc, Step(p) PROVE Inv'
  BY <1>3, ReadInv, DecideInv, CopyInv, DropInv, RollbackInv, MarkReadyInv, EnqueueInv, MarkAsFailedInv,
     FlagInv, ExpireInv, DeleteAssetsInv, EraseInv DEF Step
<1>4. ASSUME NEW p \in Proc, Fail(p) PROVE Inv'
  BY <1>4, FailInv
<1>5. ASSUME NEW w \in Worker, Work(w) \/ FailWorker(w) PROVE Inv'
  BY <1>5, ReceiveInv, MoveOnInv, DeleteMessageInv, HandleJobFailureInv DEF Work
<1>6. ASSUME NEW j \in 1..MaxCalls, Reappear(j) PROVE Inv'
  BY <1>6, ReappearInv
<1>7. CASE UNCHANGED vars
  <2>1. UNCHANGED <<row, temp, perm, window, known, req, raced, late, queue, work, calls, faults>>
    BY <1>7 DEF vars, objects, client, counts, story
  <2>2. TypeOK'
    BY <2>1 DEF Inv, TypeOK
  <2> QED
    BY <2>1, <2>2, AsideInv
<1> QED
  BY <1>1, <1>2, <1>3, <1>4, <1>5, <1>6, <1>7 DEF Next

LEMMA Invariance == Spec => []Inv
  BY InitInv, NextInv, PTL DEF Spec

\* The variables keep their types.
THEOREM TypeCorrect == Spec => []TypeOK
<1>1. Inv => TypeOK
  BY DEF Inv
<1> QED
  BY <1>1, Invariance, PTL

\* Whatever the interleaving, the faults and the number of requests, a READY
\* upload that nobody deleted has its file, unless two confirmations of it
\* overlapped: its row has a key, and a keyed row that has not failed is stored.
THEOREM ReadyIsStoredHolds == Spec => []ReadyIsStored
<1>1. Inv => ReadyIsStored
  <2> SUFFICES ASSUME Inv, NEW m \in Media \ raced, row[m] # NULL, row[m].status = "READY", m \notin perm
               PROVE  row[m].deleted
    BY DEF ReadyIsStored
  <2> QED
    BY DEF Inv, Upload
<1> QED
  BY <1>1, Invariance, PTL

\* The file of a message is kept until its uploader deletes it: no failure mark,
\* rollback or cleanup reaches a row that a message could take.
THEOREM SentIsKeptHolds == Spec => []SentIsKept
<1>1. Inv => SentIsKept
  <2> SUFFICES ASSUME Inv, NEW m \in Media \ raced, row[m] # NULL, row[m].linked, ~row[m].deleted
               PROVE  m \in perm
    BY DEF SentIsKept
  <2> QED
    BY DEF Inv, Upload
<1> QED
  BY <1>1, Invariance, PTL

\* While no call fails, a row that was purged leaves no file under either key,
\* raced or not, but one that was put again after its move: the URL is over by
\* then, and no confirmation is in flight that could bring one back.
THEOREM PurgeLeavesNoOriginalHolds == Spec => []PurgeLeavesNoOriginal
<1>1. Inv => PurgeLeavesNoOriginal
  BY DEF Inv, Upload, PurgeLeavesNoOriginal
<1> QED
  BY <1>1, Invariance, PTL

=============================================================================
