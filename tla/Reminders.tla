----------------------------- MODULE Reminders -----------------------------
(***************************************************************************)
(* The reminders of one user.  Every server instance polls the database    *)
(* for due reminders and triggers those that no other instance triggered;  *)
(* the event travels over the user's socket.  What is lost with a server   *)
(* or a connection stays triggered but not completed, and the client       *)
(* fetches it when it reconnects.  Meanwhile the user creates, moves,      *)
(* completes, reopens and removes reminders.                               *)
(*                                                                         *)
(* Time is the flag "due" of a reminder, content is data.  Other members   *)
(* of a conversation only receive the event.  Pushes are external.         *)
(***************************************************************************)
EXTENDS Naturals, FiniteSets

CONSTANTS
    Server,     \* instances of the backend
    Proc,       \* requests in flight
    Reminder,
    Muted,      \* those in a conversation that the creator muted
    NULL,       \* "no row"
    Ops,        \* operations that happen
    MaxActive,  \* MAX_ACTIVE_REMINDERS
    BatchSize,  \* POLL_BATCH_SIZE
    MaxCalls,   \* bound: operations in all
    MaxFaults   \* bound: servers that die, calls that throw

OpNames == {"create", "move", "complete", "reopen", "revive", "remove"}

ASSUME RemindersAssumption ==
    /\ Reminder # {} /\ IsFiniteSet(Reminder) /\ Muted \subseteq Reminder /\ Ops \subseteq OpNames
    /\ NULL \notin [due: BOOLEAN, triggered: BOOLEAN, completed: BOOLEAN]
    /\ MaxActive \in Nat /\ BatchSize \in Nat \ {0} /\ MaxCalls \in Nat /\ MaxFaults \in Nat

VARIABLES
    rem,        \* reminders
    server,     \* pollDueReminders of every instance
    news,       \* events in the socket listener of an instance
    client,     \* "offline", "connected" (about to fetch), "ready"
    shown,      \* reminders on the creator's screen
    req, calls, faults,
    armed,      \* history: how often a reminder was set to go off
    announced   \* history: the armings that an event was emitted for

screen == <<client, shown>>
counts == <<calls, faults>>
vars == <<rem, server, news, screen, req, counts, armed, announced>>

-----------------------------------------------------------------------------
NewRow == [due |-> FALSE, triggered |-> FALSE, completed |-> FALSE]

AnyReminder == CHOOSE r \in Reminder : TRUE

Resting == [at |-> "idle", batch |-> {}, cur |-> <<AnyReminder, 0>>]

Idle == [at |-> "idle", op |-> "create", r |-> AnyReminder, seen |-> FALSE]

Goto(p, l) == req' = [req EXCEPT ![p] = IF l = "idle" THEN Idle ELSE [@ EXCEPT !.at = l]]

\* The loop over the batch goes on, or the poll ends.
NextOf(s, batch) ==
    server' = [server EXCEPT ![s] = IF batch = {} THEN Resting
                                    ELSE [Resting EXCEPT !.at = "loop", !.batch = batch]]

Exists(r) == rem[r] # NULL
Active(r) == IF Exists(r) THEN ~rem[r].completed ELSE FALSE
Waiting(r) == IF Active(r) THEN ~rem[r].triggered ELSE FALSE
Unacknowledged(r) == IF Active(r) THEN rem[r].triggered ELSE FALSE

-----------------------------------------------------------------------------
Init ==
    /\ rem = [r \in Reminder |-> NULL]
    /\ server = [s \in Server |-> Resting] /\ news = [s \in Server |-> {}]
    /\ client = "offline" /\ shown = {}
    /\ req = [p \in Proc |-> Idle] /\ calls = 0 /\ faults = 0
    /\ armed = [r \in Reminder |-> 0] /\ announced = {}

\* The time of a reminder comes.
ComesDue(r) ==
    /\ Exists(r)
    /\ ~rem[r].due
    /\ rem' = [rem EXCEPT ![r].due = TRUE]
    /\ UNCHANGED <<server, news, screen, req, counts, armed, announced>>

-----------------------------------------------------------------------------
(* ReminderService.                                                          *)

\* A new reminder has an id of its own.
Begin(p, o, r) ==
    /\ req[p].at = "idle" /\ o \in Ops /\ calls < MaxCalls
    /\ IF o = "create"
       THEN armed[r] = 0 /\ \A q \in Proc : req[q].at # "idle" /\ req[q].op = "create" => req[q].r # r
       ELSE armed[r] > 0
    /\ calls' = calls + 1
    /\ req' = [req EXCEPT ![p] = [Idle EXCEPT !.at = IF o = "create" THEN "count" ELSE "find",
                                              !.op = o, !.r = r]]
    /\ UNCHANGED <<rem, server, news, screen, faults, armed, announced>>

CountActive(p) ==
    /\ req[p].at = "count"
    /\ Goto(p, IF Cardinality({r \in Reminder : Active(r)}) >= MaxActive THEN "idle" ELSE "insert")
    /\ UNCHANGED <<rem, server, news, screen, counts, armed, announced>>

Insert(p) ==
    LET r == req[p].r IN
    /\ req[p].at = "insert"
    /\ rem' = [rem EXCEPT ![r] = NewRow]
    /\ armed' = [armed EXCEPT ![r] = @ + 1]
    /\ Goto(p, "idle")
    /\ UNCHANGED <<server, news, screen, counts, announced>>

Find(p) ==
    LET r == req[p].r IN
    /\ req[p].at = "find"
    /\ \/ /\ Exists(r)
          /\ req' = [req EXCEPT ![p].at = IF req[p].op = "remove" THEN "delete" ELSE "write",
                                ![p].seen = rem[r].triggered]
       \/ ~Exists(r) /\ Goto(p, "idle")
    /\ UNCHANGED <<rem, server, news, screen, counts, armed, announced>>

Moves(o) == o \in {"move", "revive"}

\* The row as an update leaves it; completing triggers what was not, as it was read.
Edited(row, o, seen) ==
    [due |-> row.due /\ ~Moves(o),
     triggered |-> row.triggered \/ (o = "complete" /\ ~seen),
     completed |-> IF o = "complete" THEN TRUE
                   ELSE IF o \in {"reopen", "revive"} THEN FALSE ELSE row.completed]

\* An update of a row that is gone throws.  A moved reminder that is not
\* completed is set again if it was triggered when it was read.
Write(p) ==
    LET r == req[p].r
        o == req[p].op
    IN  /\ req[p].at = "write"
        /\ \/ /\ Exists(r)
              /\ LET row == Edited(rem[r], o, req[p].seen) IN
                   /\ rem' = [rem EXCEPT ![r] = row]
                   /\ Goto(p, IF Moves(o) /\ ~row.completed /\ req[p].seen THEN "reset" ELSE "idle")
           \/ ~Exists(r) /\ Goto(p, "idle") /\ UNCHANGED rem
        /\ UNCHANGED <<server, news, screen, counts, armed, announced>>

Reset(p) ==
    LET r == req[p].r IN
    /\ req[p].at = "reset"
    /\ \/ /\ Exists(r)
          /\ rem' = [rem EXCEPT ![r].triggered = FALSE]
          /\ armed' = [armed EXCEPT ![r] = @ + 1]
       \/ ~Exists(r) /\ UNCHANGED <<rem, armed>>
    /\ Goto(p, "idle")
    /\ UNCHANGED <<server, news, screen, counts, announced>>

Delete(p) ==
    /\ req[p].at = "delete"
    /\ rem' = [rem EXCEPT ![req[p].r] = NULL]
    /\ Goto(p, "idle")
    /\ UNCHANGED <<server, news, screen, counts, armed, announced>>

-----------------------------------------------------------------------------
(* ReminderSchedulerService.                                                 *)

DueNow == {r \in Reminder : Waiting(r) /\ rem[r].due}

\* Mutant: the batch is not bounded.
Bug_Poll(s) ==
    /\ server[s].at = "idle" /\ DueNow # {}
    /\ NextOf(s, DueNow)
    /\ UNCHANGED <<rem, news, screen, req, counts, armed, announced>>

\* isProcessing: the next tick of an instance waits for the end of this one.
Poll(s) ==
    /\ server[s].at = "idle" /\ DueNow # {}
    /\ \E batch \in SUBSET DueNow :
         /\ Cardinality(batch) <= BatchSize
         /\ Cardinality(batch) = BatchSize \/ batch = DueNow
         /\ NextOf(s, batch)
    /\ UNCHANGED <<rem, news, screen, req, counts, armed, announced>>

\* Mutant: an update by id, without the guard.
Bug_Mark(s) ==
    /\ server[s].at = "loop"
    /\ \E r \in server[s].batch :
         \/ /\ Exists(r)
            /\ rem' = [rem EXCEPT ![r].triggered = TRUE]
            /\ server' = [server EXCEPT ![s] = [at |-> "emit", batch |-> @.batch \ {r},
                                                cur |-> <<r, armed[r]>>]]
         \/ ~Exists(r) /\ NextOf(s, server[s].batch \ {r}) /\ UNCHANGED rem
    /\ UNCHANGED <<news, screen, req, counts, armed, announced>>

\* updateMany with the guard on isTriggered only.
Mark(s) ==
    /\ server[s].at = "loop"
    /\ \E r \in server[s].batch :
         \/ /\ Exists(r) /\ ~rem[r].triggered
            /\ rem' = [rem EXCEPT ![r].triggered = TRUE]
            /\ server' = [server EXCEPT ![s] = [at |-> "emit", batch |-> @.batch \ {r},
                                                cur |-> <<r, armed[r]>>]]
         \/ /\ IF Exists(r) THEN rem[r].triggered ELSE TRUE
            /\ NextOf(s, server[s].batch \ {r})
            /\ UNCHANGED rem
    /\ UNCHANGED <<news, screen, req, counts, armed, announced>>

Emit(s) ==
    /\ server[s].at = "emit"
    /\ news' = [news EXCEPT ![s] = @ \cup {server[s].cur[1]}]
    /\ announced' = announced \cup {server[s].cur}
    /\ NextOf(s, server[s].batch)
    /\ UNCHANGED <<rem, screen, req, counts, armed>>

\* Nothing of a week ago is still on its way.
AutoComplete(r) ==
    /\ Unacknowledged(r)
    /\ \A p \in Proc : req[p].at = "idle" \/ req[p].r # r
    /\ \A s \in Server : server[s].at = "idle" /\ r \notin news[s]
    /\ rem' = [rem EXCEPT ![r].completed = TRUE]
    /\ UNCHANGED <<server, news, screen, req, counts, armed, announced>>

-----------------------------------------------------------------------------
(* The socket and the client.                                                *)

\* The listener reads the members that have not muted the conversation.
Deliver(s, r) ==
    /\ r \in news[s]
    /\ news' = [news EXCEPT ![s] = @ \ {r}]
    /\ shown' = IF client # "offline" /\ r \notin Muted THEN shown \cup {r} ELSE shown
    /\ UNCHANGED <<rem, server, client, req, counts, armed, announced>>

Connect ==
    /\ client = "offline" /\ client' = "connected"
    /\ UNCHANGED <<rem, server, news, shown, req, counts, armed, announced>>

\* Mutant: only what waits is fetched, not what was triggered.
Bug_Fetch ==
    /\ client = "connected" /\ client' = "ready"
    /\ shown' = shown \cup {r \in Reminder : Waiting(r)}
    /\ UNCHANGED <<rem, server, news, req, counts, armed, announced>>

\* A fetch that fails is repeated at the next connection only.
Fetch ==
    /\ client = "connected" /\ client' = "ready"
    /\ shown' = shown \cup {r \in Reminder : Unacknowledged(r)}
    /\ UNCHANGED <<rem, server, news, req, counts, armed, announced>>

Disconnect ==
    /\ client # "offline" /\ client' = "offline"
    /\ UNCHANGED <<rem, server, news, shown, req, counts, armed, announced>>

\* The user closes the notice without completing the reminder.
Dismiss(r) ==
    /\ r \in shown /\ shown' = shown \ {r}
    /\ UNCHANGED <<rem, server, news, client, req, counts, armed, announced>>

-----------------------------------------------------------------------------
(* Failure.                                                                  *)

\* An instance dies with its poll and its events.
Crash(s) ==
    /\ server[s].at # "idle" \/ news[s] # {}
    /\ faults < MaxFaults /\ faults' = faults + 1
    /\ server' = [server EXCEPT ![s] = Resting] /\ news' = [news EXCEPT ![s] = {}]
    /\ UNCHANGED <<rem, screen, req, calls, armed, announced>>

\* A request, or the update of one reminder of a batch, throws.
Fail ==
    /\ faults < MaxFaults /\ faults' = faults + 1
    /\ \/ \E p \in Proc : req[p].at # "idle" /\ Goto(p, "idle") /\ UNCHANGED server
       \/ /\ \E s \in Server : server[s].at = "loop"
                /\ \E r \in server[s].batch : NextOf(s, server[s].batch \ {r})
          /\ UNCHANGED req
    /\ UNCHANGED <<rem, news, screen, calls, armed, announced>>

FetchFails ==
    /\ client = "connected" /\ client' = "ready"
    /\ faults < MaxFaults /\ faults' = faults + 1
    /\ UNCHANGED <<rem, server, news, shown, req, calls, armed, announced>>

-----------------------------------------------------------------------------
Step(p) ==
    \/ CountActive(p) \/ Insert(p) \/ Find(p) \/ Write(p) \/ Reset(p) \/ Delete(p)

Tick(s) == Poll(s) \/ Mark(s) \/ Emit(s)

Next ==
    \/ \E p \in Proc : Step(p) \/ \E o \in OpNames, r \in Reminder : Begin(p, o, r)
    \/ \E s \in Server : Tick(s) \/ Crash(s) \/ \E r \in Reminder : Deliver(s, r)
    \/ \E r \in Reminder : ComesDue(r) \/ AutoComplete(r) \/ Dismiss(r)
    \/ Connect \/ Fetch \/ Disconnect \/ Fail \/ FetchFails

\* The cron ticks on every instance; no connection lasts for ever, and one of
\* those that follow each other lasts until its fetch is answered.
Fairness ==
    /\ \A s \in Server : WF_vars(Tick(s))
    /\ WF_vars(Connect) /\ SF_vars(Fetch) /\ WF_vars(client = "ready" /\ Disconnect)

Spec == Init /\ [][Next]_vars
FairSpec == Spec /\ Fairness

-----------------------------------------------------------------------------
(* Properties.                                                               *)

Row == [due: BOOLEAN, triggered: BOOLEAN, completed: BOOLEAN]

\* The type of every variable.
TypeOK ==
    /\ rem \in [Reminder -> Row \cup {NULL}]
    /\ server \in [Server -> [at: {"idle", "loop", "emit"}, batch: SUBSET Reminder,
                              cur: Reminder \X Nat]]
    /\ \A s \in Server : Cardinality(server[s].batch) <= BatchSize
    /\ news \in [Server -> SUBSET Reminder]
    /\ client \in {"offline", "connected", "ready"} /\ shown \subseteq Reminder
    /\ req \in [Proc -> [at: {"idle", "count", "insert", "find", "write", "reset", "delete"},
                         op: OpNames, r: Reminder, seen: BOOLEAN]]
    /\ calls \in 0..MaxCalls /\ faults \in 0..MaxFaults
    /\ armed \in [Reminder -> Nat] /\ announced \subseteq Reminder \X Nat

Emitting(s) == server[s].at = "emit"

\* However many instances poll and whatever the user does meanwhile, a reminder
\* is announced once each time it is set: no instance is about to announce an
\* arming that was announced, or that another one is about to announce.
AnnouncedOnce ==
    \A s \in Server : Emitting(s) =>
        /\ server[s].cur \notin announced
        /\ \A t \in Server \ {s} : Emitting(t) => server[t].cur # server[s].cur

\* A due reminder is shown to its creator, unless it is completed, moved or
\* removed: what a dying server or connection loses, or a muted conversation
\* withholds, the next connection shows.
DueIsShown ==
    \A r \in Reminder :
        (Active(r) /\ rem[r].due) ~> (r \in shown \/ ~Active(r) \/ ~rem[r].due)
=============================================================================
