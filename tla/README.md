# A verification of the chat backend in TLA+

The backend (`src/backend/zalo_backend`, NestJS over PostgreSQL, Redis and
Socket.IO, with a media worker in `src/backend/zalo_media_worker`) serves
friendships, conversations, messages, calls, logins, files and reminders. Its
handlers are asynchronous functions that interleave at every `await`, several
instances of the server may run, and what they share is rows, Redis keys, queues
and in-process events. The modules here describe that protocol; TLC checks them
on small instances and TLAPS proves theorems about them for every instance.

## 1. Inventory

| Component | State | Operations | Talks to |
|---|---|---|---|
| Friendship (`modules/friendship`) | `friendships` rows, one for a pair | send, accept, decline, cancel, remove; listeners of `user.blocked` and `user.unblocked` | block check, distributed lock, event bus |
| Block (`modules/block`) | `blocks` rows, Redis `social:block` | block, unblock, cached `isBlocked`, cache listener | publishes block events |
| Distributed lock (`common/distributed-lock`) | Redis key with a token and a TTL | tryAcquire, acquire with retries, release by token, withLock | friendship |
| Call registry (`modules/call/call-history.service.ts`) | Redis session, user index, end lock, result; `call_history` rows | start, update status, device and media, end, end gracefully | gateway, block listener |
| Call signaling (`call-signaling.gateway.ts`) | ringing, disconnect and lone-participant timers, rooms | initiate, accept, reject, hang up, offer/answer/ICE relay, disconnect, return, group calls | call registry, presence |
| Messages (`modules/message`) | `messages` with receipts and counters, read pointers, unread counters, Redis idempotency keys and offline queues | send, deliver, acknowledge, see, sync, recall, forward | presence, media, event bus |
| Sockets and presence (`socket`, `redis-presence`) | socket registry, device sets, status keys | connect, disconnect, heartbeat, cleanup, forced logout | messages, calls |
| Groups (`group.service.ts`, `group-join.service.ts`) | members with status and role, join requests, settings with pins, `deletedAt` | create, describe, add, remove, leave, transfer, dissolve, pin, join, invite, review, withdraw | block check, event bus |
| Conversations (`conversation.service.ts`) | direct conversations | find or create, queries | messages |
| Sessions and tokens (`auth.service.ts`, `token.service.ts`, `jwt.strategy.ts`) | `user_tokens` families, password version, cached profile, reset grants | login, rotate, validate, log out, change and reset the password | security lock, second factor |
| Security lock of a user (`user-security-lock.service.ts`) | Redis key with a value and a TTL | runWithLock | sessions |
| QR login (`qr-login.service.ts`, `qr-session-redis.service.ts`) | Redis session of a code, ticket, lock of a user | scan, confirm, cancel, poll, exchange | sessions, sockets |
| Second factor and devices (`two-factor.service.ts`, `device.service.ts`) | challenges, trusted devices | challenge, verify, attest | sessions, mail |
| Media (`modules/media`, `zalo_media_worker`) | attachments, SQS jobs, objects in a bucket | initiate, confirm, process, delete, nightly cleanup | messages |
| Reminders (`modules/reminder`) | reminders | create, edit, complete, remove, poll, announce, fetch on reconnect | sockets, event bus |
| Event bus, idempotent listeners (`shared/events`) | processed-event records | publish, withIdempotency | every listener |
| Notifications (`modules/notifications`) | Redis batches, device tokens | batch, flush, push | presence, external push service |
| Search (`modules/search_engine`) | per-instance subscriptions, result caches | query, subscribe, keep results live | messages, members |
| Privacy, permissions, contacts, users, roles, AI proxy, administration, mail, health | rows and caches | edits and queries | |
| Web and mobile clients (`src/frontend`) | user interface | emit and render | sockets and HTTP |

What is hard here:

* **A check and its write are awaits apart.** The friendship service reads a row
  and writes it by id later; `startCall` looks two users up and indexes them
  later; `transferAdmin` reads caller and target in two statements and writes both
  roles in a third; a rotation reads the user and creates a session later.
* **The lock does not always cover the race.** `acceptRequest` and
  `cancelRequest` lock different keys; the end lock of a call is released by
  GET, compare, DEL and expires after 5 s; of all QR operations only the exchange
  takes the user's lock.
* **Whole objects are written back.** A call session, a QR session and the
  settings of a group are read, changed and stored whole, although somebody may
  have changed or deleted them in between.
* **Listeners run late and in any order.** The block cascade of a block may run
  after the unblock's.
* **Two sources of truth.** Redis says who is online and which call a user is
  in, the bucket which files exist, PostgreSQL what happened; a crash, a TTL or a
  failing write separates them.
* **Retries.** A client that misses an answer sends the same message by HTTP
  while the first send still runs; an ender that times out cleans up while the
  holder of the lock still works; SQS delivers a job again while its first run
  lasts; a client presents a refresh token again whose answer was lost.
* **Several pollers.** Every instance polls the same due reminders.

`PROJECT.json` lists forty such hazards with their lines. What makes each
component correct:

* friendship: nobody is made a friend without having asked, a request is decided
  once, a friendship ends only by an unfriend or a block, a block's end restores
  only what the block took;
* locks: one holder of a key, nobody gives back what it no longer holds, and no
  caller waits for ever;
* calls: one history row for a call, no call gone without a row, an ended call
  stays ended, only participants end it, every handler returns;
* messages: a retry names the stored message, a receipt is counted once, a tick
  is not shown before the message was sent out, a group read is counted once;
* groups: always an administrator, and one only unless the code's one race happened, nobody a member who was not let in, a
  withdrawn request makes no member, limits are kept;
* sessions: one live token in a family, a renewal never outlives the password it
  was made with, no false alarm of theft, one security change at a time;
* QR login: a page logs in only who approved it, on one PC only, once for a ticket;
* media: a READY file exists, what was sent is kept, what was purged is gone,
  every job ends;
* reminders: each arming is announced once, and what is due is shown in the end.

## 2. Modules

| Module | Describes | Instances |
|---|---|---|
| `Lease` | what a Redis lock with a TTL promises: an abstract specification | through `SocialGraph` and `Sessions` |
| `SocialGraph` | friendship, block, their lock and listeners, for one pair | `MCSocialGraph` |
| `GroupMembership` | members, administrator, join requests, pins of one group | `MCGroupMembership` |
| `Sessions` | tokens, password, security lock and cached profile of one user | `MCSessions` |
| `QrLogin` | QR sessions of several pages and phones, the exchange under a lock | `MCQrLogin` |
| `CallRegistry` | one-to-one calls from start to history row | `MCCallRegistry` |
| `MessageDelivery` | one conversation: send, delivery, receipts, offline queue, presence | `MCMessageDelivery` |
| `MediaPipeline` | attachments from upload to removal, the workers' queue | `MCMediaPipeline` |
| `Reminders` | reminders of one user, the pollers, the client's screen | `MCReminders` |
| `SocialGraphProofs`, `GroupMembershipProofs`, `CallRegistryProofs`, `MessageDeliveryProofs`, `MediaPipelineProofs`, `RemindersProofs`, `QrLoginProofs`, `SessionsProofs` | theorems | |

The modules have one form. `Proc` is a set of handlers in flight; `req[p]`
holds a handler's control point (`at`), its operation, its caller and the locals
it carries over an await. `Begin...` starts a call of a client, every other
action is the code between two awaits that touch shared state, and a handler
that returns forgets its locals. `Ops` says which calls the clients of an
instance make. `history` variables (marked in the declarations) record the past;
the code's own steps never read them, the environment does (a client acknowledges
only what was emitted to it, a session runs out only when somebody was to end
its call). Operators named `Bug_...` are plausible
mistakes in the code; no specification uses them. They are there so that a
property can be tried against a program that has the mistake.

`Lease` is implemented twice. `SocialGraph!LocksAreLeases` maps a handler inside
`withLock` to a worker inside the key it locks; `Sessions!SecurityLockIsLease`
maps a request between the SET and the release script of `runWithLock`. Both are
`INSTANCE Lease WITH ...` checked as temporal properties. The two other locks of
the system do not implement it: the end lock of a call is released in three
commands and the lock of the QR exchange by an unconditional DEL, so that a
holder whose key has expired deletes the key of the next one.

### SocialGraph

The unique index on `(user1Id, user2Id)` gives a pair one row, and only a rate
limit relates two pairs, so the module has one pair. `row` is the `Friendship`
row (status, requester, `deletedAt`, who acted last), `cooling` says that its
decline is younger than the cooldown, `blockers` are the Block rows,
`blockCache` is `social:block`, `lock` maps each lock key to its holder and
`tasks` are listeners that have been started. `LockKey` keeps what
`RedisKeyBuilder.friendshipLock` makes of its arguments: the two users for send
and remove, the row and *the caller* for accept, decline and cancel. `MaxFaults`
bounds the processes that die and the locks that expire under their holder;
`expiries` counts the latter.

| Code | Actions |
|---|---|
| `validateNotBlocked`, `isBlocked` | `BlockCheck`, `BlockFill` |
| rate limits, cooldown | `Cooldown` |
| `withLock` | `Acquire`, `GiveUp`, `Release`, `LockExpires` |
| the reads and writes of send, accept, decline, cancel, remove | `Read`, `Write`, `RemoveFind` |
| `blockUser`, `unblockUser` | `BlockFind`, `BlockWrite`, `Publish` |
| `BlockCacheListener`, `FriendshipBlockListener` | `CacheListener`, `BlockedFind`, `BlockedDelete`, `UnblockedRestore` |
| TTLs, elapsed cooldown, a process that dies | `CacheExpires`, `CooldownElapses`, `Crash` |

### GroupMembership

One group, because no operation touches two. `status` and `role` are the columns
of the member rows, which outlive a membership and keep their role; `request` is
the one join request row a user can have, with its id, since reviews and
withdrawals write by id; `pinned` is the list inside `settings`. A transaction
that only writes is one step; the one of `addMembers` counts and then writes at
read-committed isolation and is two. `vouched`, `withdrawn` and `admitted` are
history, and so is `doubled`: a transfer passed its check of the caller while another
transfer of the same caller was past its own.

| Code | Actions |
|---|---|
| `getGroupOrThrow` and its copies, `verifyAdmin`, `verifyMember`, `isAdmin` | `Group`, `Verify` |
| what an operation looks up about its target | `Target`, `AddTarget`, `ReviewTarget`, `InviteTarget`, `Self`, `Request`, `Previous`, `Settings` |
| `transferAdmin`, `removeMember` and leaving, `addMembers` | `Transfer`, `Remove`, `Count`, `EnterGroup` |
| `requestJoin` and `autoApproveJoin`, `inviteMembers`, `reviewJoinRequest`, `cancelJoinRequest` | `DropPending`, `AskIn`, `EnterGroup`, `Approve`, `Reject`, `DeleteRequest` |
| `updateGroup`, `pinMessage`, `unpinMessage`, `dissolveGroup` | `Switch`, `ClearPending`, `Store`, `Dissolve` |

### Sessions

One user. A row of `tokens` stands for a refresh token and the access token
issued with it: its device, the password version both carry, its parent and why
it was revoked. `Family` keeps the code's notion, ancestors and descendants but
no siblings. Statements that write once (log out, forced logout, a granted reset)
are single actions; login, rotation, validation, change and reset are requests.
`shown` counts how often a client has presented each token.

| Code | Actions |
|---|---|
| `login`, `finalizeLogin`, `revokeExistingSessionsByType` | `Lookup`, `FindSame`, `Replace`, `Create` |
| `rotateRefreshToken`, `revokeTokenFamily` | `FindToken`, `Retire`, `Create`, `FindFamily`, `Condemn` |
| `JwtStrategy.validate` | `FindSession`, `GetProfile`, `FindUser`, `FillProfile` |
| `runWithLock` | `Acquire`, `Release` |
| `changePassword`, `resetPassword` | `FindPermit`, `Verify`, `Update`, `Uncache`, `RevokeAll`, `Spend` |
| logouts, reset grants, TTLs, a server that dies | `LogOut`, `ForceLogout`, `GrantReset`, `PermitExpires`, `ProfileExpires`, `LockExpires`, `Fail` |

### QrLogin

`qr` are the Redis sessions of the codes, each read and written back whole;
`rows` the PC sessions of all users; `known` the tickets a page has been told,
over its socket or by polling; `busy` its `isExchangingRef`. The browser of a code
is a device; `Before` says where a user has logged in earlier, which is what
`checkTrustedDevice` asks. `approval` records who approved which code with which
ticket.

| Code | Actions |
|---|---|
| `scan`, `confirm`, `cancel` with `updateStatus` | `BeginPhone`, `GetSession`, `CheckTrusted`, `Load`, `Store`, `Emit` |
| the page: polling, its timeout | `Poll`, `PageTimeout` |
| `exchange` with `isTicketMatch`, `consumeTicket` and the rule of one PC | `BeginExchange`, `AcquireLock`, `IsTicketMatch`, `TakeTicket`, `StoreTaken`, `FindPc`, `RevokePc`, `CreateToken`, `DeleteSession`, `ReleaseLock` |
| TTLs, a server that dies, a call that throws | `SessionExpires`, `LockExpires`, `Fail` |

### CallRegistry

`session`, `index`, `endLock` and `result` are the four kinds of Redis keys;
`rows` counts the `CallHistory` rows of a call, the one that has the call's id
(`keyed`) apart from those the database gave an id (`loose`); `armed` are the
ringing timers. Reads that follow one another without a write in between are one
step. The handlers of the gateway and the block listener are the operations:
start, accept, drop and return (socket disconnect and reconnect), media, hang-up,
reject, the ringing timeout, the grace timer (`gone`), a privacy change
(`enforce`), a block.

| Code | Actions |
|---|---|
| `startCall` | `StartCaller`, `StartCallee`, `StartStore`, `StartIndex` |
| validation in the gateway; the grace timer of a call that still rings, which ends the session captured at the disconnect | `Validate`; `RingingGrace` |
| `updateCallStatus`, `updateActiveDevice`, `updateMediaState`, `recordParticipantJoin` | `StatusLoad`, `StatusSave`, `DetailLoad`, `DetailTtl`, `DetailSave` |
| `endCall` with its lock | `EndLoad`, `Lock`, `Create`, `Publish`, `EventThrows`, `Fail`, `Release`, `Unlock` |
| `waitForCallEnd` | `Cached`, `Subscribe`, `WaitTimesOut`, and the waiters' side of `Publish` and `Fail` |
| `endCallWithoutSession` | `Orphan` |
| the catch block of `endCallInternal`, `terminateCallsBetweenUsers`, `endCallGracefully` | `CleanUp`, `Between`, `GraceLog` |
| `removeActiveCallById` | `RemoveLoad`, `RemoveIndex`, `RemoveSession` |
| TTLs and a process that dies | `LockExpires`, `ResultExpires`, `IndexExpires`, `SessionExpires`, `Crash` |

### MessageDelivery

`row` holds for each message id its key (`clientMessageId`) and whether its
insert is open or committed; the unique index makes a second insert wait for an
open one and refuses a committed one. `entry[i][u]` is `direct_receipts[u]` of
message `i`: no entry, `{null, null}`, delivered only, seen only, or both. `socks` are
the live sockets (`Present` says who has one to begin with), `devices` and `online` what Redis says of them. Ids are handed out when
the insert starts and seen when it commits, as with a sequence.

| Code | Actions |
|---|---|
| `sendMessage` with `checkIdempotency`, `persistMessage`, `handlePersistError` | `BeginSend`, `CheckIdempotency`, `Refuse`, `Insert`, `Commit`, `Rollback`, `SetIdempotency`, `PublishSent` |
| `sendMessageAndBroadcast`, `deliverMessageToRecipients` | `GetMembers`, `CheckOnline`, `Emit`, `MarkOne`, `IncrementUnread`, `Enqueue`, `Acknowledge` |
| `message:delivered`, `message:seen` | `BeginDelivered`, `MarkAcked`, `BeginSeen`, `MarkSeen`, `ReadPointer`, `MovePointer`, `CountRange`, `ResetUnread` |
| connect and offline sync | `BeginConnect`, `SetUserOnline`, `SyncRead`, `SyncEmit`, `SyncMark`, `SyncClear` |
| disconnect | `BeginDisconnect`, `RemoveDevice`, `CountDevices`, `SetUserOffline` |
| TTLs, a call that throws, a server that dies | `KeyExpires`, `QueueExpires`, `StatusExpires`, `Throw`, `Crash` |

Recipients are served one after another, in any order, as in
`deliverMessageToRecipients`. `MarkDelivered` may do nothing, because the code
catches and logs a failure of that statement; any other call that fails ends its
handler (`Throw`). `Crash` takes all handlers and sockets, so the instance has one
server process.

What clients report: the handlers of `message:delivered` and `message:seen` take any
ids. `BeginDelivered` is what both clients do, which acknowledge a message they were
sent and leave their own out (`use-message-socket.ts:113`, `use-chat-hooks.ts:434`).
`BeginSeen` is any messages of the conversation, shown or not, the user's own included:
neither `markAsSeen` nor the statement of `markDirectSeen` (`receipt.service.ts:146`) asks
who wrote them, and the mobile list reports the last message whoever wrote it
(`chats-screen.tsx:51`). `own` counts how often a sender was counted as the reader of its
message, `early` holds the users counted as readers before their delivery was recorded;
both are history. The group counter leaves the reader's own messages out (`:215`).

### MediaPipeline

`row` is the attachment; `temp` and `perm` say which objects the bucket holds
under the two kinds of key; `queue` lists the jobs in the order they were sent,
each visible, hidden (received and not deleted) or gone. A request that confirms,
sends or deletes and each of the three row-changing parts of the nightly cleanup
are operations; workers are loops of their own. A presigned URL may be used any
number of times until it expires, also after the confirmation moved the object: `late`
(history) holds the files put again then, to a key that no row names any more. The
cleanup meets rows that are days old, so the URL has expired by then (its `Begin` takes the
file out of `window`) and no request of that time is left (`Quiet`); it may still meet a
confirmation that starts now.

| Code | Actions |
|---|---|
| the client's PUTs to the presigned URL (`generatePresignedUrl`), and its expiry | `Put`, `Begin` of a cleanup |
| `confirmUpload`, `moveObjectAtomic` with its rollback | `Read`, `HeadTemp`, `VerifySource`, `Copy`, `VerifyCopy`, `DeleteSource`, `Rollback`, `MarkReady` |
| `enqueueProcessing`, `markAsFailed` | `Enqueue`, `MarkAsFailed` |
| the attachments of `sendMessage`, `deleteMedia` | `Link`, `MarkDeleted` |
| `cleanupStalePendingUploads`, `cleanFailedUploads`, `cleanupSoftDeletedMedia` | `DropTemp`, `Expire`, `DeleteAssets`, `Erase` |
| `pollLoop`, `processMessage`, `handleJobFailure` | `Receive`, `FetchMedia`, `Process`, `SaveThumbnail`, `DeleteMessage`, `HandleJobFailure` |
| visibility timeout of SQS, calls that throw, processes that die | `Reappear`, `Fail`, `FailWorker` |

### Reminders

`rem` are the rows, with time reduced to "due"; `server` is the poll of each
instance, `news` the events its socket listener still has to deliver, `client` and
`shown` the creator's connection and screen. `armed` counts how often a reminder was
set to go off (at creation and by a reset), `announced` the armings an event was
emitted for.

| Code | Actions |
|---|---|
| `create` | `Begin`, `CountActive`, `Insert` |
| `update` (move, complete, reopen), `remove` | `Begin`, `Find`, `Write`, `Reset`, `Delete` |
| `pollDueReminders`, `autoCompleteStaleReminders` | `Poll`, `Mark`, `Emit`, `AutoComplete` |
| socket listener, `findUndelivered`, the web client's hook | `Deliver`, `Connect`, `Fetch`, `Disconnect`, `Dismiss` |
| time, an instance that dies, calls that throw | `ComesDue`, `Crash`, `Fail`, `FetchFails` |

## 3. Runs

| Run | Question | Distinct states | What it shows |
|---|---|---|---|
| `social_consent` | Both ask, one cancels, blocks and unblocks, the other accepts and unfriends, two calls at a time | 1.25 million | `TypeOK`, `ConsentOfBoth` |
| `social_oneway` | Requests one way, a call that dies or a lock that expires under its holder, fairness | 114 thousand | `OneVerdictPerRequest`, `LocksAreLeases`, `EndsOnlyByRemoveOrBlock`, `CallsReturn` |
| `group_members` | Transfers, removals, leaves and returns among three users, pins and unpins, also two calls of one user | 1.79 million | `TypeOK`, `OneAdmin`, `PinLimit` |
| `group_joins` | Requests, invitations, reviews, withdrawals, the approval switch, removals and a dissolution | 2.90 million | `EntryIsAllowed`, `WithdrawnStaysOut` |
| `sessions_families` | Three requests log in, rotate, validate, change and reset the password, devices are logged out, a request fails or the lock expires | 431 thousand | `TypeOK`, `RenewalKeepsPassword`, `ChangeReplacesWhatItVerified`, `NoFalseAlarm`, `OneLivePerFamily`, `SecurityLockIsLease` |
| `qr_handshake` | Two phones and two pages scan, confirm, cancel and exchange, a call fails or a lock expires | 1.75 million | `TypeOK`, `LoginWasApproved`, `OnePc` |
| `call_end` | Three handlers end one call at a time: hang-ups, a rejection, the ringing timer, the grace timer | 592 thousand | `TypeOK`, `OneRow`, `EndersExclude`, `EndedIsOver` |
| `call_history` | All ways to answer, drop, change and end a call, with slow enders and a write that fails | 1.32 million | `CompletedWasAnswered`, `LoggedBeforeGone` |
| `call_return` | A crashed ender, missed notifications, retries, fairness | 334 thousand | `HandlersReturn` |
| `message_receipts` | A message sent twice while its recipient comes, goes, acknowledges and reads, its sender reports it as seen, keys expire, a commit fails, a call throws or the server restarts | 1.34 million | `TypeOK`, `SameAnswer`, `CacheNamesRow`, `CountsAgree`, `TickAfterEmit` |
| `media_files` | An upload is put any number of times, confirmed, sent, deleted and cleaned up while two workers process its jobs; a call throws, a process dies, a job reappears | 678 thousand | `TypeOK`, `ReadyIsStored`, `SentIsKept`, `PurgeLeavesNoOriginal`, `JobsEnd` |
| `reminders_due` | Two instances poll two reminders while their user creates, moves, completes and removes them over a connection that comes and goes | 407 thousand | `TypeOK`, `AnnouncedOnce`, `DueIsShown` |

Bounds and why they suffice:

* Two handlers are enough for every race on a row: each hazard is one write between
  another handler's read and write. `call_end` has three, because waiters matter
  once two of them wait for one holder; so has `sessions_families`, where a
  rotation, a login and a change of the password meet. `Proc` is symmetric where no
  liveness property is checked.
* `MaxEvents = 2` lets a block and an unblock have their listeners in flight
  together and in either order. It is 0 in `social_oneway`, where nobody blocks:
  there `EndsOnlyByRemoveOrBlock` says that only an unfriend ends a friendship. With
  requests in both directions it does not hold, because a decline that read a
  pending row can overwrite a crossing acceptance.
* A fault is a call that throws or a process that dies, or a lock that expires
  under its holder; one of them (`MaxFaults = 1`, `MaxCrashes = 1`,
  `MaxFailures = 1`) meets every control point. `OneVerdictPerRequest`,
  `EndsOnlyByRemoveOrBlock`, `OnePc` and `ChangeReplacesWhatItVerified` are claimed as
  long as nothing lapsed, and `LocksAreLeases` and `SecurityLockIsLease` without a proviso: they say what remains
  of the lock when it does.
* `MaxExpiries = 0` in the call runs: that an ender needs less than the lock's 5 s is an
  assumption of `OneRow` and the proviso of `EndersExclude`, which the theorem keeps where
  locks do lapse. A lock whose holder died does expire.
* `SlowEnds = FALSE` in `call_end` says that an ender needs less than the 3 s
  its waiters wait. With `TRUE` (`call_history`, `call_return`) a waiter that
  gives up cleans up by itself, `endCallGracefully` lets the database choose the
  id, and a second row is possible; `OneRow` is therefore claimed only for the former.
  One call each (`MaxCalls = 1`): with a second call of the same users an end may meet
  the other one, which the theorems about any number of calls take into account.
* `MaxIds = 2`, `MaxSends = 2`: one key is enough for idempotency, two ids for a
  rolled-back insert before the one that commits. With one stored message the
  queue is not trimmed at its limit; a second key makes the run exceed its time.
  The proofs cover any number. `MaxSockets = 1`; the sender is connected from the
  start (`Present`), the recipient comes and goes. `MaxOwn = 1` counts the sender's reports
  about its own message: each moves the counters in the same way. `Ops` and `MaxFaults` are
  given by kind: acknowledgements and own reports, which write no receipt and no counter in a
  group, are made in the direct conversation, and so is the fault, because a send takes the
  same steps in both kinds up to the receipt that follows its emit.
* Groups: three users are the administrator, a member and somebody outside, which
  every check tells apart (in `group_members` the third comes and goes and hands nothing
  over); two calls may be of one user, who may then transfer the group twice at a time;
  `MaxPinned = 1` with two messages reaches the limit, `MaxGroupSize = 3` lets additions
  through and `MaxRequests = 3` lets a user ask again after a withdrawal.
* `sessions_families`: three requests in all, on a computer and on a device of another
  kind; `qr_handshake`: four calls are a scan, a confirmation, an exchange and one that
  interferes, with two users and two codes. The browsers are known to one of the two
  users, so both kinds of scan happen (a known browser is approved at once).
* `media_files`: one file, since no step touches two; its jobs may be several. Three
  operations are a confirmation and two that race it. `reminders_due`: `MaxActive = 1`
  and `BatchSize = 1` with two reminders reach the limit and split a poll; one reminder
  is of a muted conversation, for which only the fetch can show it.

Deadlock is not checked where it is expected: `SocialGraph`, `MessageDelivery`,
`QrLogin`, `Sessions`, `MediaPipeline` and `Reminders` may be out of calls once their
bounds are used up.

**Fairness.** `FairSpec` of `SocialGraph` has weak fairness for the steps of each
call and for started listeners, because the event loop runs continuations that
are ready; no client is assumed to call and no lock to be released. That
`CallsReturn` holds although a dead call's lock may last follows from `GiveUp`,
the bounded retries of `acquire`. `FairSpec` of `CallRegistry` adds that Redis
expires keys: an end lock and the session of a call that somebody was to end.
`MediaPipeline` has weak fairness for each worker's loop, which is restarted when it
dies, and for the visibility timeout of SQS (`Reappear`); nothing is assumed of
requests. `Reminders` has weak fairness for the cron tick of every instance and for
`Connect` (the user comes back), weak fairness for `Disconnect` of an idle connection
(none lasts for ever) and strong fairness for `Fetch`: of the connections that follow
one another, one lasts until its first request is answered. Without the end of
connections `DueIsShown` fails: what a crash of the emitting instance lost is shown
only by the next fetch, and a client that stays connected to another instance never
fetches again.

### What the models show without a run

The models contain these interleavings; the code excludes none of them. Where a
comment of the code says otherwise, the module states the comment as a property
(in parentheses) that no run claims.

* **Friendship and block.** The block check and the decline cooldown precede the lock of a send and are
  not repeated under it; `isBlocked` may store an answer that the cache listener has
  just deleted (`block.service.ts:327`). Unfriending sets `deletedAt` as a block does, and the
  listener of `user.unblocked` restores every deleted row of the pair: unfriend,
  block, unblock makes the two friends again, although
  `friendship-block.listener.ts:226` says "Only restore records that were
  soft-deleted (by block)" (`RestoresOnlyBlocked`). Accept locks (row, recipient),
  cancel locks (row, requester), so that a row may end accepted and deleted
  (`friendship.service.ts:498`; `CancelledNotAccepted`).
* **Calls.** `updateCallStatus` and `updateActiveDevice` store the session they read
  although it was removed in between (`call-history.service.ts:1479`; `StaysEnded`). An end
  that finds its session gone falls back to the current call of the initiator
  (`call-history.service.ts:355`), so a late hang-up of one user ends the initiator's call with
  a third (`EndedByParticipant`). Two users who call each other at a time get two
  calls, of which the index keeps the later; a block more than 300 s after the start
  of a call finds no index entries and ends nothing; two graceful ends write two rows.
* **Messages.** The read pointer is read, written and used in three statements
  (`receipt.service.ts:178-217`): two overlapping `message:seen` count their range
  twice (`CountedOnce`). A message enqueued between ZRANGE and DEL of an offline sync
  is lost from the queue; a recipient who connects between `isUserOnline` and the
  enqueue gets the message with the next connect only; a retried send is delivered and
  counted as unread again; a read may reset the unread counter before an increment
  lands. Ids are ordered by insert and not by commit, so a group read pointer may pass
  a message that nobody has been shown; a server that dies between the pointer and the
  count never counts the range. A connect between SCARD and `setUserOffline` leaves a
  connected user offline. An offline sync of a group writes `delivered_count` only
  where a receipt is absent and creates none, so every sync that carries the message
  counts its recipient again. In a direct conversation a user who reports a message of
  its own moves `seen_count` and `delivered_count` although there is no receipt to fill,
  each time again (`receipt.service.ts:146`); and a seen that precedes the delivery leaves
  the JSON null of `delivered` in place, since COALESCE passes over SQL's NULL only, so
  that `delivered_count` grows once more with the delivery, whereas `message.md:228` says
  that a seen sets both. `CountsAgree` counts what the code counts, these two included.
* **Groups.** A transfer that races the leave of its target makes an administrator who
  is no member (`group.service.ts:322`; `AdminIsActive`). Two additions at a time exceed the
  size of the group although the count is "inside transaction to prevent race
  condition" (`group.service.ts:246`; `WithinLimit`); approvals and joins of an open group do
  not count at all. Two transfers that one administrator has in flight leave two
  administrators, since nothing limits a user to one call and the partial unique index
  that would forbid the outcome is commented out in `schema.prisma:748`. The runs contain
  this race; `OneAdmin` says that it is the only way to two administrators (`doubled`), and that
  there is never none. Concurrent stores
  of the settings lose pins.
* **Sessions.** `resetPassword` does not delete the cached profile that
  `changePassword` deletes, so a fresh login is refused until the cache expires
  (`auth.service.ts:406`; `FreshSessionAccepted`); a validation that read the user before a
  change stores a stale profile after it. A rotation that read its row before a logout
  creates its child after it; a login does the same to a change of the password, though
  with a version that every later check refuses. Two logins from computers at a time
  leave two. One reset grant serves two resets that overlap.
* **QR login.** A cancellation that read an approved session writes it back after the
  ticket was taken: the ticket serves twice (`qr-session-redis.service.ts:134`; `TicketUsedOnce`). A
  late confirmation stores a session again that was deleted.
* **Media.** Two confirmations of one upload that overlap: the second finds no source, and
  its rollback deletes the file the first has moved. `ReadyIsStored` and `SentIsKept`
  except files with such a past (`raced`). A stale cleanup overwrites a row that has
  become READY meanwhile; a queue that refuses a job turns READY into FAILED; a crash between
  the move and the row's update leaves a file no row names. So does a client that uses its
  presigned URL again after the confirmation (`media-upload.service.ts:218`, `s3.service.ts:102`): the row's
  `s3KeyTemp` is null by then, no purge deletes the object (`s3-cleanup.service.ts:241`), and only the
  manual `cleanTempFolderCompletely` (`:285`) would.
* **Reminders.** A reminder that is moved while a poll triggers it is never announced
  again (`reminder.service.ts:201` resets what was triggered when read); a reminder completed or
  moved in that moment is announced all the same (`reminder-scheduler.service.ts:70`); two creations
  exceed the limit of active reminders.

## 4. Proofs

The theorems hold for every value of the constants that satisfies the modules'
named assumptions: any number of handlers, users, keys, messages and calls, any
bounds, any `Ops`. The assumptions say no more than that bounds are numbers, that
"nobody" is not a member of the set it stands beside, and that there is a device or
a file to begin with. A theorem that needs more says so: its hypotheses are named
operators over the constants, which the run that checks the same property satisfies.
Every invariant and every action property that a run checks has its theorem; what is
left to TLC is liveness.

**`SocialGraphProofs`**

* `TypeCorrect`.
* `ConsentOfBothHolds`. `ConsentOfBoth` is not inductive: an accept writes what an
  earlier read allowed, whatever the row has become since. `Consent` adds that
  the requester of the row has asked (`RowConsent`) and that the peer of whoever
  is about to accept has asked (`FlightConsent`). Consent is never withdrawn by
  a write, which is why a stale accept is still an accept of something asked for.
* `LocksAreLeasesHolds`: the detailed lock implements `Lease`. Initial states map to
  initial states, and under `LockInv` (only operations that lock wait for a lock or
  are inside one) every step maps to a step of the lease or
  a stutter: `Acquire` to `Enter`, `Release` to `Leave`, `Crash` to `Die`, `LockExpires` to
  `Lapse`.
* `LockExclusionHolds`: two handlers are never inside `withLock` with the same
  key as long as no key expired under its holder. It is a consequence of the
  lease and uses nothing else about the code (`LeaseExclusive`).
* `OneVerdictPerRequestHolds`, assuming that only one of the two users asks
  (`OneAsks`). `Asked` adds to the lock's exclusion (`Held`) that a row waiting for its
  verdict has had none (`RowAsked`) and that whoever is about to write a verdict read such
  a row (`FlightAsked`). With one asker every answer is the other user's, so all answers
  take the same key; with requests in both directions two users may answer under two
  keys, and a crossing send answers under a third.
* `EndsOnlyByRemoveOrBlockHolds`, an action property, assuming moreover that nobody
  cancels or unblocks (`NothingUndone`). The hazard is a send that read a deleted or declined
  row and opens it again after an acceptance. `Reopening` says that such a row is
  still closed when the send writes, because whoever could open it holds the key of the
  send. The two exceptions are the code's: a cancel takes another key than the answer it
  races, and the listener of `user.unblocked` takes none and restores a row that a send is
  about to reopen.

**`GroupMembershipProofs`**

* `TypeCorrect`, `EntryAllowed`, `PinsLimited` from one invariant `Inv`. Its part
  `CallOK` says what a handler knows past its checks: who was let in by it was
  vouched for when it looked (vouching is never taken back), and the list of pins
  it is about to store is within the limit, so the limit survives although stores
  overwrite each other.
* `OneAdministrator`, with no hypothesis on who calls. `AdminInv` says that somebody is
  administrator, because every step that takes the role away gives it to another, and,
  until two transfers of one caller were under way at a time, that nobody else is
  (`Single`), that the transfers in flight have different callers (`Apart`) and that the
  caller of each is still the administrator when it writes (`StillAdmin`): nobody but this
  caller takes the role away.
* `WithdrawnNotAdmitted`, an action property: an approval updates the request by its id and
  fails when that row is gone, and a withdrawn id does not come back.

**`CallRegistryProofs`**

* `TypeCorrect`.
* `LoggedBeforeGoneHolds`, an action property. `Tracked` carries a row from the
  write to the removal several awaits later: who is about to remove a session
  knows it logged (`RemovalLogged`), and who is about to write one back read one
  that existed (`SavesLive`). Enders that overlap, time out and fail do not break
  it because rows are only added (`LoggedStays`).
* `EndersExcludeHolds` and `CompletedWasAnsweredHolds` from `Registry`, with any number of
  calls, handlers, crashes and failures. `Fits` says that an ender knows a call that was
  started, that its target is that call or one of the same users (`Related`), and that it holds
  the end lock of its target while it is inside, as long as no lock expired under its holder:
  the release by GET, compare and DEL deletes the next holder's key only after a lapse.
  `Calls` says that a session which is ACTIVE, and hence a row that is COMPLETED, was answered.
  The theorem about COMPLETED is stated with `Related` because the stricter statement is
  false with two calls: a late end whose session is gone falls back to the initiator's
  current call, and stores the status it read of the first one.
* `EndedIsOverHolds`, assuming one call, no crash and no failing write (`OneCall`), and that
  handlers start, hang up, reject, time out, block and end by the grace timer (`EndsOrBlocks`). The grace timer
  of a ringing call asks for an end without a look at the call; it is
  about a call whose start has been stored, and the end it asks for looks for the session itself. `Over` is an
  argument about responsibility: a session that is to end has a handler that still decides
  who writes the row (`Trying`), and one whose row is written has the writer, which removes
  it. The end lock cannot be left to nobody, although it may lapse any number of times.
* `OneRowHolds`, assuming moreover that no lock lapses, that nobody waits longer than an end takes
  (`SwiftEnds`) and that there are no blocks (`OnlyEnds`). `Sole` says that whoever waits for a
  live session has a holder to wait for, hence that `endCallGracefully`, which would let the
  database choose the id of a second row, never finds one. Each hypothesis of these two
  names a way the code has of breaking the property: a second call of the same users receives
  the end meant for the first, a handler that stores a session whole (accept, media, drop,
  return) revives one that was removed (`StaysEnded`), a crash or a failed write leaves a
  session behind, an enforcement of privacy or a block may look up a call that is still being
  started.

**`MessageDeliveryProofs`**

* `TypeCorrect`, with `SendKeys` (a send has a key, and a row once it inserted).
* `SameAnswerHolds` and `CacheNamesRowHolds` follow from `KeyInv`: `OneRowPerKey`
  is what the unique index gives (a key has at most one row that is open or
  committed, no row lies past the sequence, an open row belongs to one handler),
  `HeldIsStored` says that what a handler carries after its insert, what Redis
  caches and what was answered is the committed row of that key. Expiry, failure
  of the transaction, a throwing listener and a crash leave it true because none
  of them removes a committed row.
* `TickAfterEmitHolds`: `EmittedFirst` carries the emit over the await to each of
  the three writers of a tick (delivery, acknowledgement, sync).
* `CountsAgreeHolds`. `Counted` says of a committed direct message that everyone but its
  sender has a receipt and that the counters are what its receipts, the sender's own reports and
  the early readers make (`Balanced`), and of any other message that nothing is counted.
  `Addressed` says who writes a receipt of what: delivery, acknowledgement and sync only of
  messages of others, where an entry exists, while a seen may name any committed message. That an
  entry is absent exactly for the sender is what decides whether a seen fills a receipt or only
  moves the counters; a group sync, which writes to absent entries, drifts for the same
  reason. Finiteness of `Users` is used to count one member more (`OneMore`).

**`MediaPipelineProofs`**

* `TypeCorrect`, `ReadyIsStoredHolds`, `SentIsKeptHolds` and `PurgeLeavesNoOriginalHolds` from one
  invariant. `Fits` says what a request knows of the two objects at each of its awaits
  (after the copy both exist, after the deletion of the source only the final one, a
  deletion of assets has removed what it names). `Upload` says what a row says of its file:
  which keys it records, that a temporary object whose row names none was put there
  late, and that a row that is gone left nothing else behind. Two parts keep
  requests apart: `Alone`, one confirmation of a file at a time unless it is `raced`, and
  `Closed`, that a row is not removed while a confirmation or an expiry of it is past its
  read. `Closed` is what makes the nightly cleanup safe although it takes no lock: it
  selects rows that nobody has touched for days and that no confirmation will accept.
* `PurgeLeavesNoOriginal` holds for raced files too, as long as no call fails: an object
  under the final key that no row records belongs to a confirmation which will record or
  remove it. A file put again after its move (`late`) is the one exception, and the code's;
  a purge itself needs no such proviso, because the URL has expired when it begins.

**`RemindersProofs`**

* `TypeCorrect`.
* `AnnouncedOnceHolds`. The poll reads without a lock and several instances read
  the same row; what keeps announcements apart is the conditional update of `Mark`
  ("set triggered where not triggered"). The invariant `Once` says that a reminder that
  is not triggered is fresh: no instance holds its arming and none announced it
  (`WaitingIsFresh`), and that nobody holds or announced an arming that has not been
  made (`HeldWasArmed`, `AnnouncedWasArmed`). Steps are of four kinds, one lemma each:
  those that touch none of it (`CalmKeeps`), that arm (`ArmKeeps`), mark (`MarkOnce`) and
  emit (`EmitOnce`).

**`QrLoginProofs`**

* `TypeCorrect` and `LoginWasApprovedHolds` from `Approval`. The user of a login comes
  from the first read of an exchange, its ticket is compared with the second, the
  session is written back whole by whoever read it earlier. `Approval` therefore says of
  everything in flight that it was approved: a session that is approved names a user
  who approved this code (`CodesApproved`), so does what a call is about to store or to
  log in (`CallApproved`), and approvals are never taken back (`ApproveMore`).
* `OnePcHolds`, as long as no lock expired under its holder. `Exclusion` says that who is
  inside holds the lock of its user, `Alone` that a user has one live PC session at
  most and none while an exchange of that user is about to create one. The
  unconditional DEL of the release is harmless here because only the holder gets there;
  after a lapse it deletes the next holder's key, which is why the proviso is needed.

**`SessionsProofs`**

* `TypeCorrect` and `RenewalKeepsPasswordHolds` from `Inv`. A renewal reads the version
  in one step, retires the row in a second and writes the new row in a third, so that
  `Fits` says what a request carries meanwhile: the version of the row it renews, which
  no later step changes (`Extends`: rows are added and change their state, never their
  version). `Turn` describes the step of any request by what it becomes and what it does
  to the lock; the lemmas above `EveryTurn` show once, action by action, that there is no
  other step, and the theorems about the lock rest on that alone.
* `SecurityLockIsLeaseHolds`: every `Turn` enters, leaves or dies in the lock of `Lease`
  or leaves it alone, and the expiry of the key is its lapse.
* `ChangeReplacesWhatItVerifiedHolds` from `LockInv`: until a lock lapses, whoever is
  inside holds it, hence nobody else writes the version between the comparison of the
  old password and the update.
* `NoFalseAlarmHolds` and `OneLivePerFamilyHolds` from `Trees`. The check for a child
  and the creation of one are three awaits apart and no lock covers them, so two
  rotations of one token may both get a child. `Counted` shows that this needs two
  presentations: every rotation in flight counts as one, and so does the child that an
  earlier one made. `Spent` says that a row with a child has been presented and is not live,
  `Judged` what a rotation has established for its next step (a condemned family goes back to a
  row presented twice, a child is created after its parent was retired), and `OneBranch`
  that two rows of one login without such a past are on one branch; the older of them
  then has a child (`Ancestry`) and is not live.
* Ancestors are a recursive function of the rows, and that such a function satisfies
  its equation is a fact about all natural numbers, which the installed provers
  cannot derive by induction. The proof does not need it: that exactly one function
  satisfies the equation for the rows there are (`Only`) is a part of the invariant. It
  holds of the first row, changes of a state leave it (`SameUp`), and a new row, whose parent is
  an older one, extends the function by one value (`AppendUp`).

Only model-checked:

* The liveness properties `CallsReturn`, `HandlersReturn`, `JobsEnd` and `DueIsShown`:
  liveness under fairness and `ENABLED` are out of the proof system's reach here.
* Nothing else that a run checks. No module has a recursive operator.

## 5. Not modelled

* Of the modelled components: friend lists and counts; group calls, call queries
  and missed-call counters; recall, deletion, forwarding, history, typing and
  receipt subscriptions of messages; authentication, rooms, the registry and
  the cleanup job of sockets; registration, token expiry and login failures;
  avatars, multipart uploads and the transcoding of media.
* The timers of the call gateway and its group calls. Reading them showed mostly what
  they do not guarantee: a participant who timed out stays in the room, a rejection or a
  ringing timeout that races the acceptance ends an answered call, as does the grace timer of a
  caller who left while it rang (`RingingGrace` has what it does to the registry; a timer that
  another disconnect replaced in `disconnectTimers` is never cleared), and two group calls of one
  conversation start at a time because `getActiveCallIdByConversation` is asked
  before `lock:call_init` is taken. A module is worth writing once there is
  something to claim.
* Idempotent listeners: the unique pair (event, handler) makes a handler run at most
  once; a crash leaves the record RETRYING for ever and a FAILED one is never tried
  again. Notification batches: the flush reads and deletes the batch in a
  pipeline that is no transaction (`notification-batch.service.ts:119`). Both are in the
  plan.
* The second factor and device attestation: their outcome is an input (`GrantReset` of
  `Sessions`, `Trusted` of `QrLogin`).
* Direct conversations: two requests that both find none create two
  (`conversation.service.ts:205`); the rest reads.
* Privacy, permissions, contacts, users, roles, search, administration: edits of
  one row, caches of the form `SocialGraph` already has, or queries.
* AI proxy, mail, health, the push service, the web and mobile user interfaces, which
  are most of the repository's lines: input, output and rendering. What the clients
  send is the environment of the models.

## 6. Plan

Done: `SocialGraph`, `CallRegistry`, `MessageDelivery`, `GroupMembership`, `Sessions`,
`QrLogin`, `MediaPipeline`, `Reminders`, in the order in which others depend on them;
the abstract lock `Lease` with its two implementations; a theorem for every
invariant and action property of the runs.

1. Weaker hypotheses for the theorems about calls: a statement about the second row
   that holds with several calls and with writes that fail.
2. `IdempotentListener`: the record of a handled event under redelivery and crash;
   the notification batch.
3. `CallSignaling`: the gateway's timers, composed with `CallRegistry`.
4. Real-time search: subscriptions kept by each instance against members who leave.
