--------------------------- MODULE MediaPipeline ---------------------------
(***************************************************************************)
(* An uploaded file from its presigned PUT to its thumbnail and its        *)
(* removal.  The backend confirms an upload by moving the object from its  *)
(* temporary to its permanent key, with a rollback, marks the row READY    *)
(* and queues a job; messages take READY attachments; the worker makes the *)
(* thumbnail of a job that SQS delivers at least once; a nightly cleanup   *)
(* removes what was never confirmed, what failed and what was deleted.     *)
(*                                                                         *)
(* Each member of Proc is a request or a step of the cleanup, each member  *)
(* of Worker a polling loop; both are split at every await.  PROCESSING is *)
(* never stored by the code.  Thumbnails are not modelled: nothing reads    *)
(* their files, and no code stores thumbnailS3Key.                         *)
(***************************************************************************)
EXTENDS Naturals, Sequences, FiniteSets

CONSTANTS
    Proc,      \* requests and cleanup steps in flight
    Worker,    \* polling loops of the media workers
    Media,     \* uploads initiated
    Visual,    \* those that are images or videos
    NULL,      \* "no row", "no receiver"
    Ops,       \* operations that happen
    MaxCalls,  \* bound: operations in all
    MaxFaults  \* bound: calls that throw, processes that die, jobs that
               \* become visible again under their worker

OpNames == {"confirm", "send", "delete", "stale", "failed", "purge"}

ASSUME MediaAssumption ==
    /\ Media # {} /\ Visual \subseteq Media /\ Ops \subseteq OpNames
    /\ NULL \notin Worker
    /\ MaxCalls \in Nat /\ MaxFaults \in Nat

VARIABLES
    row,       \* media_attachments
    temp, perm,  \* S3: the files present under each kind of key
    window,    \* uploads whose presigned URL may still be good
    known,     \* attachments whose id a confirmation has told the client
    queue,     \* SQS: jobs in the order they were sent
    req,       \* the requests
    work,      \* the workers
    calls, faults,
    raced,     \* history: files with two confirmations in flight at a time
    late       \* history: files put again after a confirmation had moved them

objects == <<temp, perm>>
client == <<window, known>>
counts == <<calls, faults>>
story == <<raced, late>>
vars == <<row, objects, client, queue, req, work, counts, story>>

-----------------------------------------------------------------------------
Statuses == {"PENDING", "READY", "FAILED", "EXPIRED"}

MaxAttempts == 3

\* hasTemp and hasKey: s3KeyTemp and s3Key are not null.
NewRow == [status |-> "PENDING", hasTemp |-> TRUE, hasKey |-> FALSE, deleted |-> FALSE,
           linked |-> FALSE, retries |-> 0]

Keys(r) == [hasTemp |-> r.hasTemp, hasKey |-> r.hasKey]

Idle == [at |-> "idle", op |-> "confirm", m |-> CHOOSE m \in Media : TRUE, seen |-> Keys(NewRow)]

Resting == [at |-> "idle", job |-> 0]

Goto(p, l) == req' = [req EXCEPT ![p] = IF l = "idle" THEN Idle ELSE [@ EXCEPT !.at = l]]

Turn(w, l) == work' = [work EXCEPT ![w] = IF l = "idle" THEN Resting ELSE [@ EXCEPT !.at = l]]

InFlight(m) == {p \in Proc : req[p].at # "idle" /\ req[p].m = m}

\* Rows that are days old have no request of that time in flight.
Quiet(m) == InFlight(m) = {}

\* An update by id throws when the row is gone.
SetRow(m, r) == row' = [row EXCEPT ![m] = r]

-----------------------------------------------------------------------------
Init ==
    /\ row = [m \in Media |-> NewRow]
    /\ temp = {} /\ perm = {}
    /\ window = Media /\ known = {}
    /\ queue = <<>> /\ req = [p \in Proc |-> Idle] /\ work = [w \in Worker |-> Resting]
    /\ calls = 0 /\ faults = 0 /\ raced = {} /\ late = {}

\* The temporary file of m was moved away, or is about to be forgotten.
Moved(m) ==
    \/ row[m] = NULL
    \/ ~row[m].hasTemp
    \/ \E p \in InFlight(m) : req[p].at = "ready"

\* The client puts the file, as often as it likes while the URL is good, also
\* after the confirmation.
Put(m) ==
    /\ m \in window
    /\ temp' = temp \cup {m}
    /\ late' = IF Moved(m) THEN late \cup {m} ELSE late
    /\ UNCHANGED <<row, perm, client, queue, req, work, counts, raced>>

\* What each operation requires of the row it reads.
ConfirmAllowed(r) == r.status = "PENDING"
\* Mutant: a message takes an upload whatever became of it.
Bug_SendAllowed(r) == ~r.linked /\ ~r.deleted

SendAllowed(r) == ~r.linked /\ ~r.deleted /\ r.status = "READY"
DeleteAllowed(r) == ~r.deleted
StaleAllowed(r) == r.status = "PENDING" /\ r.hasTemp
FailedAllowed(r) == r.status = "FAILED" /\ (r.hasTemp \/ r.hasKey)
PurgeAllowed(r) == r.deleted

Allowed(o, r) ==
    /\ r # NULL
    /\ CASE o = "confirm" -> ConfirmAllowed(r)
         [] o = "send" -> SendAllowed(r)
         [] o = "delete" -> DeleteAllowed(r)
         [] o = "stale" -> StaleAllowed(r)
         [] o = "failed" -> FailedAllowed(r)
         [] o = "purge" -> PurgeAllowed(r)

Cleanup == {"stale", "failed", "purge"}

\* The cleanup selects rows that are old enough; a run of it expires stale
\* uploads before it purges.
MayBegin(o, m) ==
    CASE o = "send" -> m \in known
      [] o \in {"failed", "purge"} ->
           Quiet(m) /\ Allowed(o, row[m]) /\ ~StaleAllowed(row[m])
      [] OTHER -> TRUE

\* By the time of a cleanup the URL of the upload has expired.
Begin(p, o, m) ==
    /\ req[p].at = "idle" /\ o \in Ops /\ calls < MaxCalls /\ MayBegin(o, m)
    /\ req' = [req EXCEPT ![p] = [Idle EXCEPT !.at = "read", !.op = o, !.m = m]]
    /\ calls' = calls + 1
    /\ raced' = IF o = "confirm" /\ \E q \in InFlight(m) : req[q].op = "confirm"
                THEN raced \cup {m} ELSE raced
    /\ window' = IF o \in Cleanup THEN window \ {m} ELSE window
    /\ UNCHANGED <<row, objects, known, queue, work, faults, late>>

FirstStep == [confirm |-> "head", send |-> "link", delete |-> "mark", stale |-> "drop",
              failed |-> "assets", purge |-> "assets"]

\* The first read.  A confirmation of a row past PENDING is answered with it.
Read(p) ==
    /\ req[p].at = "read"
    /\ LET m == req[p].m
           o == req[p].op
       IN  /\ \/ /\ Allowed(o, row[m])
                 /\ req' = [req EXCEPT ![p].at = FirstStep[o],
                                      ![p].seen = IF o \in {"failed", "purge"} THEN Keys(row[m]) ELSE @]
              \/ ~Allowed(o, row[m]) /\ Goto(p, "idle")
           /\ known' = IF o = "confirm" /\ row[m] # NULL /\ ~ConfirmAllowed(row[m])
                       THEN known \cup {m} ELSE known
    /\ UNCHANGED <<row, objects, window, queue, work, counts, story>>

-----------------------------------------------------------------------------
(* confirmUpload and moveObjectAtomic.                                       *)

\* Mutant: the key is stored before the file is moved.
Bug_HeadTemp(p) ==
    /\ req[p].at = "head"
    /\ IF req[p].m \in temp /\ row[req[p].m] # NULL
       THEN SetRow(req[p].m, [row[req[p].m] EXCEPT !.status = "READY", !.hasKey = TRUE]) /\ Goto(p, "source")
       ELSE UNCHANGED row /\ Goto(p, "fail")
    /\ UNCHANGED <<objects, client, queue, work, counts, story>>

\* verifyFileExists: a missing file is marked as failed.
HeadTemp(p) ==
    /\ req[p].at = "head"
    /\ Goto(p, IF req[p].m \in temp THEN "source" ELSE "fail")
    /\ UNCHANGED <<row, objects, client, queue, work, counts, story>>

VerifySource(p) ==
    /\ req[p].at = "source"
    /\ Goto(p, IF req[p].m \in temp THEN "copy" ELSE "rollback")
    /\ UNCHANGED <<row, objects, client, queue, work, counts, story>>

Copy(p) ==
    /\ req[p].at = "copy"
    /\ \/ req[p].m \in temp /\ perm' = perm \cup {req[p].m} /\ Goto(p, "dest")
       \/ req[p].m \notin temp /\ Goto(p, "rollback") /\ UNCHANGED perm
    /\ UNCHANGED <<row, temp, client, queue, work, counts, story>>

VerifyCopy(p) ==
    /\ req[p].at = "dest"
    /\ Goto(p, IF req[p].m \in perm THEN "unlink" ELSE "rollback")
    /\ UNCHANGED <<row, objects, client, queue, work, counts, story>>

DeleteSource(p) ==
    /\ req[p].at = "unlink"
    /\ temp' = temp \ {req[p].m}
    /\ Goto(p, "ready")
    /\ UNCHANGED <<row, perm, client, queue, work, counts, story>>

\* The rollback deletes the destination, whoever wrote it.
Rollback(p) ==
    /\ req[p].at = "rollback"
    /\ perm' = perm \ {req[p].m}
    /\ Goto(p, "fail")
    /\ UNCHANGED <<row, temp, client, queue, work, counts, story>>

\* Mutant: the temporary key is kept although the file moved.
Bug_MarkReady(p) ==
    LET m == req[p].m IN
    /\ req[p].at = "ready"
    /\ \/ /\ row[m] # NULL
          /\ SetRow(m, [row[m] EXCEPT !.status = "READY"])
          /\ Goto(p, "enqueue")
       \/ row[m] = NULL /\ Goto(p, "fail") /\ UNCHANGED row
    /\ UNCHANGED <<objects, client, queue, work, counts, story>>

\* Mutant: the upload is left to the worker, which never makes it READY.
Bug_MarkProcessing(p) ==
    LET m == req[p].m IN
    /\ req[p].at = "ready"
    /\ row[m] # NULL
    /\ SetRow(m, [row[m] EXCEPT !.status = "PROCESSING", !.hasKey = TRUE, !.hasTemp = FALSE])
    /\ Goto(p, "enqueue")
    /\ UNCHANGED <<objects, client, queue, work, counts, story>>

MarkReady(p) ==
    LET m == req[p].m IN
    /\ req[p].at = "ready"
    /\ \/ /\ row[m] # NULL
          /\ SetRow(m, [row[m] EXCEPT !.status = "READY", !.hasKey = TRUE, !.hasTemp = FALSE])
          /\ Goto(p, "enqueue")
       \/ row[m] = NULL /\ Goto(p, "fail") /\ UNCHANGED row
    /\ UNCHANGED <<objects, client, queue, work, counts, story>>

\* Only images and videos have a job; then the client is answered.
Enqueue(p) ==
    /\ req[p].at = "enqueue"
    /\ queue' = IF req[p].m \in Visual
                THEN Append(queue, [media |-> req[p].m, state |-> "visible", last |-> NULL])
                ELSE queue
    /\ known' = known \cup {req[p].m}
    /\ Goto(p, "idle")
    /\ UNCHANGED <<row, objects, window, work, counts, story>>

\* markAsFailed overwrites whatever the status is by now.
MarkAsFailed(p) ==
    LET m == req[p].m IN
    /\ req[p].at = "fail"
    /\ row' = IF row[m] = NULL THEN row ELSE [row EXCEPT ![m].status = "FAILED"]
    /\ Goto(p, "idle")
    /\ UNCHANGED <<objects, client, queue, work, counts, story>>

-----------------------------------------------------------------------------
(* A message takes the attachment; the uploader deletes it.                  *)

\* One transaction stores the message and links the attachment to it, which one
\* deleted meanwhile receives too; a message stored before keeps its link.
Link(p) ==
    LET m == req[p].m IN
    /\ req[p].at = "link"
    /\ row' = IF row[m] = NULL THEN row ELSE [row EXCEPT ![m].linked = TRUE]
    /\ Goto(p, "idle")
    /\ UNCHANGED <<objects, client, queue, work, counts, story>>

MarkDeleted(p) ==
    LET m == req[p].m IN
    /\ req[p].at = "mark"
    /\ row' = IF row[m] = NULL THEN row ELSE [row EXCEPT ![m].deleted = TRUE]
    /\ Goto(p, "idle")
    /\ UNCHANGED <<objects, client, queue, work, counts, story>>

-----------------------------------------------------------------------------
(* S3CleanupService: stale uploads, failed uploads, deleted attachments.     *)

DropTemp(p) ==
    /\ req[p].at = "drop"
    /\ temp' = temp \ {req[p].m}
    /\ Goto(p, "expire")
    /\ UNCHANGED <<row, perm, client, queue, work, counts, story>>

Expire(p) ==
    LET m == req[p].m IN
    /\ req[p].at = "expire"
    /\ row' = IF row[m] = NULL THEN row
              ELSE [row EXCEPT ![m].status = "EXPIRED", ![m].hasTemp = FALSE]
    /\ Goto(p, "idle")
    /\ UNCHANGED <<objects, client, queue, work, counts, story>>

\* Mutant: only the temporary file is deleted.
Bug_DeleteAssets(p) ==
    LET m == req[p].m IN
    /\ req[p].at = "assets"
    /\ temp' = IF req[p].seen.hasTemp THEN temp \ {m} ELSE temp
    /\ Goto(p, "erase")
    /\ UNCHANGED <<row, perm, client, queue, work, counts, story>>

\* deleteMediaAssets deletes under the keys of the row as it was read.
DeleteAssets(p) ==
    LET m == req[p].m IN
    /\ req[p].at = "assets"
    /\ temp' = IF req[p].seen.hasTemp THEN temp \ {m} ELSE temp
    /\ perm' = IF req[p].seen.hasKey THEN perm \ {m} ELSE perm
    /\ Goto(p, "erase")
    /\ UNCHANGED <<row, client, queue, work, counts, story>>

\* A failed upload keeps its row without keys, a deleted one loses it.
Erase(p) ==
    LET m == req[p].m IN
    /\ req[p].at = "erase"
    /\ row' = [row EXCEPT ![m] =
                 IF @ = NULL \/ req[p].op = "purge" THEN NULL
                 ELSE [@ EXCEPT !.hasKey = FALSE, !.hasTemp = FALSE]]
    /\ Goto(p, "idle")
    /\ UNCHANGED <<objects, client, queue, work, counts, story>>

-----------------------------------------------------------------------------
(* SqsMediaConsumer.                                                         *)

Receive(w) ==
    /\ work[w].at = "idle"
    /\ \E j \in DOMAIN queue :
         /\ queue[j].state = "visible"
         /\ queue' = [queue EXCEPT ![j].state = "hidden", ![j].last = w]
         /\ work' = [work EXCEPT ![w] = [at |-> "fetch", job |-> j]]
    /\ UNCHANGED <<row, objects, client, req, counts, story>>

File(w) == queue[work[w].job].media

\* A row that is gone discards its job.
FetchMedia(w) ==
    /\ work[w].at = "fetch"
    /\ Turn(w, IF row[File(w)] = NULL THEN "discard" ELSE "process")
    /\ UNCHANGED <<row, objects, client, queue, req, counts, story>>

\* processImage or processVideo reads the original and stores a thumbnail; it
\* may fail on any file.
Process(w) ==
    /\ work[w].at = "process"
    /\ \/ File(w) \in perm /\ Turn(w, "save")
       \/ Turn(w, "failure")
    /\ UNCHANGED <<row, objects, client, queue, req, counts, story>>

\* Its URL goes into the row, by id.
SaveThumbnail(w) ==
    /\ work[w].at = "save"
    /\ Turn(w, IF row[File(w)] = NULL THEN "failure" ELSE "done")
    /\ UNCHANGED <<row, objects, client, queue, req, counts, story>>

\* A delete may be without effect when the job was received again since.
DeleteMessage(w) ==
    /\ work[w].at \in {"done", "discard"}
    /\ \/ queue' = [queue EXCEPT ![work[w].job].state = "gone", ![work[w].job].last = NULL]
       \/ queue[work[w].job].last # w /\ UNCHANGED queue
    /\ Turn(w, "idle")
    /\ UNCHANGED <<row, objects, client, req, counts, story>>

\* Mutant: the job is left to the visibility timeout whatever the count.
Bug_HandleJobFailure(w) ==
    LET m == File(w) IN
    /\ work[w].at = "failure"
    /\ row' = IF row[m] = NULL \/ row[m].retries = MaxAttempts THEN row
              ELSE [row EXCEPT ![m].retries = @ + 1]
    /\ Turn(w, "idle")
    /\ UNCHANGED <<objects, client, queue, req, counts, story>>

\* The third failure gives the job up, an earlier one leaves it to the
\* visibility timeout, and so does a row that is gone.
HandleJobFailure(w) ==
    LET m == File(w) IN
    /\ work[w].at = "failure"
    /\ row' = IF row[m] = NULL THEN row ELSE [row EXCEPT ![m].retries = @ + 1]
    /\ Turn(w, IF row[m] # NULL /\ row[m].retries + 1 >= MaxAttempts THEN "discard" ELSE "idle")
    /\ UNCHANGED <<objects, client, queue, req, counts, story>>

\* The visibility timeout of a job; under its worker it is a fault.
Held(j) == \E w \in Worker : work[w].at # "idle" /\ work[w].job = j

Reappear(j) ==
    /\ j \in DOMAIN queue /\ queue[j].state = "hidden"
    /\ IF Held(j) THEN faults < MaxFaults /\ faults' = faults + 1 ELSE UNCHANGED faults
    /\ queue' = [queue EXCEPT ![j].state = "visible"]
    /\ UNCHANGED <<row, objects, client, req, work, calls, story>>

-----------------------------------------------------------------------------
(* Failure.                                                                  *)

Moving == {"source", "copy", "dest", "unlink"}

\* The server dies with the request, or a call of it throws.
Fail(p) ==
    /\ req[p].at # "idle" /\ faults < MaxFaults /\ faults' = faults + 1
    /\ \/ Goto(p, "idle")
       \/ req[p].at \in Moving /\ Goto(p, "rollback")
       \/ req[p].at \in {"head", "rollback", "ready", "enqueue"} /\ Goto(p, "fail")
    /\ UNCHANGED <<row, objects, client, queue, work, calls, story>>

FailWorker(w) ==
    /\ work[w].at # "idle" /\ faults < MaxFaults /\ faults' = faults + 1
    /\ \/ Turn(w, "idle")
       \/ work[w].at \in {"fetch", "process", "save", "done"} /\ Turn(w, "failure")
    /\ UNCHANGED <<row, objects, client, queue, req, calls, story>>

-----------------------------------------------------------------------------
Step(p) ==
    \/ Read(p) \/ HeadTemp(p) \/ VerifySource(p) \/ Copy(p) \/ VerifyCopy(p) \/ DeleteSource(p)
    \/ Rollback(p) \/ MarkReady(p) \/ Enqueue(p) \/ MarkAsFailed(p) \/ Link(p) \/ MarkDeleted(p)
    \/ DropTemp(p) \/ Expire(p) \/ DeleteAssets(p) \/ Erase(p)

Work(w) ==
    \/ Receive(w) \/ FetchMedia(w) \/ Process(w) \/ SaveThumbnail(w) \/ DeleteMessage(w)
    \/ HandleJobFailure(w)

Next ==
    \/ \E m \in Media : Put(m) \/ \E p \in Proc, o \in OpNames : Begin(p, o, m)
    \/ \E p \in Proc : Step(p) \/ Fail(p)
    \/ \E w \in Worker : Work(w) \/ FailWorker(w)
    \/ \E j \in 1..MaxCalls : Reappear(j)

\* The polling loops run on, restarted if they die, and SQS shows a job again.
Fairness ==
    /\ \A w \in Worker : WF_vars(Work(w))
    /\ \A j \in 1..MaxCalls : WF_vars(Reappear(j))

Spec == Init /\ [][Next]_vars /\ Fairness

-----------------------------------------------------------------------------
(* Properties.                                                               *)

Labels == {"idle", "read", "head", "source", "copy", "dest", "unlink", "rollback", "ready",
           "enqueue", "fail", "link", "mark", "drop", "expire", "assets", "erase"}

Attachment == [status: Statuses, hasTemp: BOOLEAN, hasKey: BOOLEAN, deleted: BOOLEAN,
               linked: BOOLEAN, retries: Nat]

ASSUME NullAssumption == NULL \notin Attachment

Job == [media: Visual, state: {"visible", "hidden", "gone"}, last: Worker \cup {NULL}]

Request == [at: Labels, op: OpNames, m: Media, seen: [hasTemp: BOOLEAN, hasKey: BOOLEAN]]

Task == [at: {"idle", "fetch", "process", "save", "done", "discard", "failure"}, job: Nat]

\* The type of every variable.
TypeOK ==
    /\ row \in [Media -> Attachment \cup {NULL}]
    /\ temp \subseteq Media /\ perm \subseteq Media
    /\ window \subseteq Media /\ known \subseteq Media
    /\ queue \in Seq(Job) /\ req \in [Proc -> Request] /\ work \in [Worker -> Task]
    /\ \A w \in Worker : work[w].at # "idle" => work[w].job \in DOMAIN queue
    /\ calls \in 0..MaxCalls /\ faults \in 0..MaxFaults /\ raced \subseteq Media /\ late \subseteq Media

\* What is READY is stored: wherever the confirmation dies, rolls back or meets
\* the cleanup, a READY row has its file, provided that the confirmations of
\* one upload do not overlap (the rollback of one deletes what the other moved).
ReadyIsStored ==
    \A m \in Media \ raced :
        (row[m] # NULL /\ row[m].status = "READY" /\ m \notin perm) => row[m].deleted

\* The file of a message that was sent is never cleaned up before its uploader
\* deletes it, under the same proviso.
SentIsKept ==
    \A m \in Media \ raced : (row[m] # NULL /\ row[m].linked /\ ~row[m].deleted) => m \in perm

\* Nothing that was purged leaves its original behind, in either place, unless
\* a call failed half way; only a file that the client put again after its move
\* stays under the temporary key, which no row names any more.
PurgeLeavesNoOriginal ==
    faults = 0 => \A m \in Media :
        row[m] = NULL => m \notin perm /\ (m \in temp => m \in late)

\* Every job leaves the queue for good: it succeeds, is given up after three
\* failures, or is discarded with its row.  As jobs are finitely many, that is
\* to say that none is left again and again.
JobsEnd == []<>(\A j \in DOMAIN queue : queue[j].state = "gone")
=============================================================================
