# Verification of Spoken API

Spoken is a FastAPI backend for meetings with live translated speech. This
directory holds TLA+ models of its stateful parts, the TLC configurations that
check them, and TLAPS proofs of their main safety properties. Paths are
relative to `src/`.

- `tlc -workers 2 -config X.cfg M` checks a model, `tlapm MProofs.tla` its
  proofs.
- `PROJECT.json` lists the components, runs, mutants, the map from every
  definition to the source lines it stands for, the hazards and the theorems.

## 1. The system

| Part | State it keeps | Operations | Interacts with |
|---|---|---|---|
| Meeting rooms (`app/modules/meeting/service.py`, `state.py`, `repository.py`) | tables `rooms`, `participants`; Redis hashes `room:{code}:participants`, `room:{code}:lobby`, key `active_speaker` | create, join, leave, admit, end, update_config, invite, history | announces `meeting_ended` through the connection manager; the sockets and the audio path read the live hash |
| Signaling sockets (`ws_router.py`, `app/services/connection_manager.py`) | per worker: `active_connections`, `_pubsub_tasks`; Redis channel `ws:room:{code}` | connect, relay, disconnect, broadcast, listen | live hash (who may connect), Redis pub/sub between workers |
| Audio and caption sockets (`ws_router.py`, `app/services/audio_bridge.py`) | per worker: the sequence counter of every speaker; per socket: two tasks, a Kafka consumer, the highest number heard | ingest, egress, publish chunk | publishes `audio.raw`, consumes `audio.synthesized` (captions: `text.original`, `text.translated`) |
| Speech pipeline (`stt_worker.py`, `translation_worker.py`, `tts_worker.py`) | none beyond the consumer's (the STT worker sets the active speaker in Redis) | one `handle()` per worker | topics `audio.raw`, `text.original`, `text.translated`, `audio.synthesized` |
| Kafka consumer (`app/kafka/consumer.py`) | position, committed offset, `_running` | start, stop, consume loop, retry, dead-letter, commit | base class of all four workers |
| Kafka manager, producer (`app/kafka/manager.py`, `producer.py`, `app/main.py`) | the producer, the consumers, `kafka_started` | start, stop, create topics | application lifespan |
| Sessions (`app/modules/auth/service.py`, `token_store.py`, `app/core/security.py`) | Redis keys of refresh tokens and of blacklisted access tokens; `users` | login, refresh, logout, reset and change password | every authenticated route |
| Lockout (`app/modules/auth/account_lockout.py`) | Redis counter of failures, lock key | check, record failure, reset | login |
| Accounts (`app/modules/auth/service.py`, `verification.py`, `oauth_google.py`, `app/modules/user`) | tables `users`, verification tokens; Redis reset tokens | sign-up, verify, OAuth linking, update, delete | e-mail topic |
| E-mail (`email_producer.py`, `email_consumer.py`, `invite_participants` of `meeting/service.py`) | table `meeting_invitations` | invite, publish, handle | topic `notifications.email`, Mailgun |
| External services (Cloudinary, Deepgram, DeepL, OpenAI, VoiceAI) | none | HTTP calls | workers, user profile |
| Core and database (`app/core`, `app/db`, `alembic`) | configuration | error mapping, rate limits, sessions | everything |

What is hard about it:

- **Interleaving.** Handlers are `async def` with *synchronous* database calls.
  Between two awaits a handler owns the event loop of its worker; at every
  Redis or Kafka await another request may run; `uvicorn --workers 4` adds true
  parallelism over the same database and Redis.
- **Two stores.** A meeting lives in PostgreSQL and in Redis and no transaction
  spans both; a failure between two writes leaves one of them behind.
- **Check, then act.** Capacity, lobby, status and tokens are read in one step
  and used in a later one.
- **Delivery.** Kafka redelivers after crashes and rebalances; Redis pub/sub
  loses what is published before a listener has subscribed.
- **Tasks that end silently.** A consumer loop or a listener task that raises
  is logged and over while its registration lives on.

What makes each part correct:

| Part | Properties |
|---|---|
| Meeting rooms | guests pass the lobby; database and Redis agree between requests; the limit holds; an ended room is announced, empty and stays ended; a configuration change keeps what it does not mention |
| Signaling | a worker listens exactly while it has sockets; messages reach their addressees only, in order, once; nobody is taken out of the room by others; closing is announced |
| Audio sockets | a speaker's numbers grow; a frame is dropped only when a later one was played; both tasks and the consumer end with the socket; what is spoken while a session is open is heard |
| Speech pipeline | nothing said is forgotten, in any language; until something fails frames come in the order of the chunks and once (retries may repeat them) |
| Kafka consumer | nothing is committed before it is dealt with, nothing overtakes, nothing is repeated without a crash or a rebalance, everything is dealt with in the end |
| Kafka lifecycle | a loop that runs has a producer; the flag that shutdown relies on is true; a shutdown that ends normally has stopped everything |
| Accounts, sessions, lockout | sessions end with the password and the account; rotation leaves one live pair; the failure counter never passes its limit unlocked; flags only move forward |
| E-mail | the host's answer is true; mails are dealt with in order, across restarts, and in the end |

## 2. Modules

| Module | Content |
|---|---|
| `MeetingRoom` | one room: rows, hashes and the requests being served; refines `RoomContract` |
| `RoomContract` | abstract: what the handlers promise the callers of a room |
| `MeetingRoomProofs` | its proofs, with the refinement |
| `OrderedLog` | abstract: what a consumer group promises the producers of a topic |
| `KafkaConsumer` | a group of `BaseConsumer` instances over one partition; refines `OrderedLog` |
| `KafkaConsumerProofs` | its proofs, with the refinement |
| `Signaling` | signaling handlers, connection managers and the Redis channel |
| `SignalingProofs` | its proofs |
| `Account` | one e-mail address: rows, tokens, sessions, lockout, and the requests being served |
| `AccountHistory` | `Account` with the history its session properties are about |
| `AccountProofs` | the proofs about `Account` |
| `AudioSession` | audio sockets: ingest, egress, numbers and the stale frame guard |
| `AudioSessionProofs` | its proofs |
| `SpeechChannel` | abstract: what the speech workers promise the audio sockets |
| `SpeechPipeline` | the three workers over the four topics; refines `SpeechChannel` |
| `SpeechPipelineProofs` | its proofs, with the refinement |
| `KafkaLifecycle` | startup and shutdown of the producer and the consumers of a process |
| `KafkaLifecycleProofs` | its inductive invariant |
| `EmailDispatch` | invitations, the e-mail topic and its worker within `KafkaLifecycle`; refines `OrderedLog` |
| `EmailDispatchProofs` | its proofs, and the theorems about the lifecycle |
| `MC...` | values of the constants for TLC |

### How code becomes actions

Handlers are `async def`, their database calls are synchronous, every Redis
command is awaited. A worker therefore runs a handler from one await to the
next in one piece, and Redis executes every command atomically. `Account` takes
such a piece as one action. `MeetingRoom`, which is also about several workers
over one database, goes one level down: every database call that another worker
can see is an action, and a request that stands between two of them holds its
worker (`HoldsLoop`, `LoopFree`; that a synchronous call keeps the event loop
is asyncio's doing, hence external in the map). A request that fails, or whose
worker dies, keeps what it has written: `Abort`. Rejected calls that change
nothing are the guards of an operation's first action. Definitions whose
comment begins with "Mutant:" are not part of the models: each is a plausible
bug, and `PROJECT.json` pairs it with the property that detects it.

How the modules compose: `EmailDispatch` extends `KafkaLifecycle`, so that the
e-mail worker lives and dies with the process that runs it. `AudioSession`
takes the steps of `SpeechChannel` for the workers between its two topics, and
`SpeechPipeline` is proved to implement `SpeechChannel`; `SpeechPipeline` keeps
of the loop under `handle()` what `KafkaConsumer` models in full.
`KafkaConsumer` and `EmailDispatch` both implement `OrderedLog`, `MeetingRoom`
implements `RoomContract`.

### `MeetingRoom` and `RoomContract`

| Variable | Code |
|---|---|
| `room` | row of `rooms`: status, `settings.max_participants`, `settings.is_locked` |
| `row` | rows of `participants`: absent, `left_at` NULL, `left_at` set |
| `live`, `lobby` | the hashes `room:{code}:participants` (with the role) and `room:{code}:lobby` |
| `req` | each request: its next store access, its caller, the rows its session has loaded |
| `admitted`, `announced`, `orderly` | history |

| Operation | Actions |
|---|---|
| `create_room` | `Init` |
| `join_room` | `Join`, `JoinActivate`, `JoinIdentify`, `JoinCheck`, then `JoinKnock` (lobby) or `JoinInsert`, `JoinEnter` |
| `leave_room` | `Leave`, `LeaveLobby`, `LeaveCheckout` |
| `admit_user` | `Admit`, `AdmitMove` |
| `end_room` | `End`, `EndAnnounce`, `EndClose`, `EndCloseRows`, `EndWipe` |
| `update_config` | `Configure`, `ConfigWrite` |

`RoomContract` has no requests: a caller sees a room that starts, gets members
(who have a row), lets people enter, wait, be admitted and leave, ends, is
cleared and is configured, each at one moment. What it demands of such a moment
comes in two strengths. Always: nobody is enrolled, enters, waits or is
configured before the start, the host never waits, guests never become members,
nobody but a member enters by themselves, only a started room is cleared. While
`serial`: nobody enters a full room or one that has ended, a locked room gets
no new member, members do not wait, who is admitted was waiting, only a pending
room starts and only an ended one is cleared. The mapping is `phase <-
room.status`, `members` <- who has a row, `inside <- Present`, `waiting <-
lobby`, `serial <- orderly`; `orderly` stays TRUE as long as no two requests
have been between two awaits at one time and none has failed.

### `KafkaConsumer` and `OrderedLog`

`kind` and `old` are the log, `committed` and `owner` the group's state at the
coordinator, `inst` each instance (`_consumer`'s position, the message in hand,
the attempts). `_consume_loop` is `Receive...` and `Commit...`,
`_process_with_retry` is `Handle` and `HandleFails`, `_send_to_dlq` is
`SendToDlq` and `SendToDlqFails`; `Halt` is a stop or a crash, `Assign`,
`Rebalance` and `Revoke` are the coordinator. `OrderedLog` is the promise:
messages are settled in log order, possibly again, and the mark never runs
ahead of what is settled nor back. The mapping is `done <- Settled`, `mark <-
committed`.

### `Signaling`

`conns` and `listener` are `active_connections` and `_pubsub_tasks` of every
worker, `sent` is the order in which Redis takes the messages of
`ws:room:{code}`, `next` and `job` the progress of each `_listen_to_redis`,
`at` and `gone` the handlers and the clients of the sockets. A handler goes
through `Connect`, `Announce`, `Greet`, `Relay`..., `Disconnect`, `Farewell`;
it leaves without `disconnect()` by `SetupFails`, `RelayGarbled` and
`HandlerFails`. A listener does `Subscribe`, `Dispatch`, `Send`, or ends by
`ListenerFails` (Redis) or `DispatchRaises`: the handler passes on any JSON
value as `target_user_id`, and a list or an object (`Unhashable`) is no key of
the dictionary it is looked up in. A listener that has ended stays in
`_pubsub_tasks` ("dead").

### `Account`

| Variable | Code |
|---|---|
| `user` | the row of `users` for the address: which one, active or deleted, verified |
| `vtoken`, `rtoken`, `hosts` | its rows in `verification_tokens`, `password_reset_tokens`, `rooms`; the last two refer to it (`Referenced`), and PostgreSQL then refuses to delete it |
| `sessions`, `blacklist` | keys `refresh_token:{email}:*`, `blacklisted_access_token:*` |
| `attempts`, `locked` | keys `login_attempts:{email}`, `account_locked:{email}` |
| `req` | each request: its next access, the row it has loaded, its token |
| `grants`, `era`, `links`, `faults` | history: pairs issued, passwords, verification tokens, failures |

| Operation | Actions |
|---|---|
| login | `Login`, `LoginLookup`, then `LoginFailed`, `Lock`, `Unfail`, or `LoginClear`, `Grant` |
| refresh | `Refresh`, then `RefreshAccount`, `Retire`, `Grant`, or `Scan`, `Purge` |
| any request with an access token | `SignIn`, `SignedIn`, then its operation |
| change or reset of the password | `ChangePassword` or `ResetPassword`, `Scan`, `Purge` |
| deletion | `SoftDelete` or `HardDelete`, `Scan`, `Purge`, `Blacklist` |
| logout | `SignOut`, `Drop` |
| sign-up, resend, forgotten password | `Signup`, `Resend`, `ForgotPassword` (no Redis command: one piece) |
| verification (a thread) | `Verify`, `VerifyCommit` |
| Google sign-in | `OAuth`, `OAuthLocked`, `Link`, `Grant` |

`AccountHistory` adds two histories. `apart` stays TRUE until a pair is being
issued (from the check of the password, of the pair to be refreshed or of the
Google profile up to the SET) while others are being revoked (from the change
or the deletion up to the DEL); `single` stays TRUE until two refreshes of one
login are between the check of the old pair and the SET of the new one at one
time. The session properties hold of all interleavings but those; what these do
instead is in section 6.

### `AudioSession` and `SpeechChannel`

| Variable | Code |
|---|---|
| `counter` | `_sequence_counters` of the `AudioIngestService` of every process |
| `sock` | a connection: the handler, where its ingest and its egress task stand, the number of the chunk in hand, the frame in hand |
| `high` | `highest_seq` of its egress |
| `raw`, `synth` | the topics `audio.raw` and `audio.synthesized` |
| `played`, `dropped` | history |

| Operation | Actions |
|---|---|
| `audio_websocket` | `Connect` (with `reset_sequence`), `EndSession` (the first task that ends cancels the other) |
| `ingest_task`, `publish_audio_chunk` | `IngestBegins` (`egress_ready`), `Receive`, `Publish`, `PublishFails`, `ReceiveDisconnect` |
| `egress_task` | `ConsumerStarts` or `ConsumerFails`, `Seek`, `TakeFrame`, then `Skip`, `Drop`, `Play` or `FrameFails`; `EgressFails`, `ConsumerStops` |
| the workers | `Synthesize`: a step of `SpeechChannel` |

A cancellation is modelled by where it meets the task: a send that is awaited
may have been done (`PerhapsWritten`), `finally` runs unless the start or the
stop of the consumer is hit (`OutAfterCancel`); such an egress is "leaked":
over, with its consumer in the group. `Ended` is either way of being over.

### `SpeechPipeline`

A message is its chunk and its language. `topic` holds the four topics,
`worker` the position, the attempts and the languages still to be published of
each worker, `excused` (history) what a worker had a reason not to speak:
silence, nobody listening in the language, an empty translation, a message
given up or two minutes old. `Take`, `Retry`, `Commit`, `Restart` and their
failures are the loop of `BaseConsumer`; `Transcribe`, `ResolveTargets`,
`PassOver`, `Synthesize` and `Publish` are `handle()` of the three workers. The
roster is read anew at every attempt, hence any set of languages. A send that
fails may have written its message.

### `KafkaLifecycle` and `EmailDispatch`

`at` and `turn` say which await of `lifespan`, `KafkaManager.start` or `stop`
the process stands at; `producer`, `client`, `running`, `loop` are the
attributes of the producer and the consumers, assigned before or after the
await as in the code. `Boot`, `TopicsReady`, `ProducerStarts`, `ConsumerStarts`
start, `Shutdown`, `CancelTask`, `CloseClient`, `CloseProducer` stop; each of
them may fail, a loop may end (`LoopFails`) and the process may crash.

`request` and `rows` are `invite_participants` and its table (`Invite`,
`Insert`, `Queue`, `NotQueued`, `QueueFails`, `InsertFails`), `mails` the
topic, `worker` and `committed` the loop of `EmailConsumerWorker` (`Take`,
`Handle`, `HandleFails`, `DeadLetter`, `Commit` and their failures), `fate`
(history) what became of every mail. `LifecycleStep` is a step of the process
with what it does to the loop and to the requests: a cancelled loop may or may
not have done the call it was in.

## 3. Runs

| Run | Instance | Question |
|---|---|---|
| `room_concurrent` | host, user, guest; two requests, each on a worker of its own; limit 2; join, leave, admit, end, configuration; failures anywhere | What holds under every interleaving, on the several workers of the Dockerfile: the lobby, the records, the announcement; can anything but a join of the host reopen an ended room; do the handlers implement `RoomContract`; do rows and hashes agree when requests neither overlapped nor failed? |
| `room_merge` | host, user; two workers; join and configuration; limits 2 and 3 | Violated: a configuration change sets back what another one has committed since it read the row |
| `room_overfull` | host, two users, limit 2 | Violated: two joins read the hash before either writes it |
| `consumer_group` | two instances, two messages of every kind and age, one retry, two faults | Is nothing repeated without a crash or a rebalance, does the group refine `OrderedLog`, is everything settled unless a loop has ended? |
| `consumer_poison` | one instance, messages that may be no JSON | Violated: the loop ends |
| `signaling` | two of three sockets, of two users or both of one, on one worker; one relayed message, also one whose target is no key; messages that are no object; one failure of Redis | Order, addressees, entries and listeners in step, who takes a user out of the room, announcements, delivery |
| `signaling_replaced` | a user with two sockets on one worker, and another user | Violated: the old socket's late disconnect unregisters the new one |
| `account` | two requests, three token pairs, two passwords, two verification tokens, a limit of two failures, one failure half way | Do counter and flags hold under every interleaving, do sessions follow the password and the account unless issuing met revoking or a request failed, does rotation leave one live pair of a login unless two refreshes overlapped? |
| `audio_session` | a speaker and a listener, one socket each, window 0, two chunks, two frames, one fault | Do numbers grow, is only what is stale dropped, do both tasks end and the consumer with them unless a call fails, is every frame heard? |
| `audio_reconnect` | a speaker who connects twice, a listener, window 1, four chunks and frames | Violated: a reconnect restarts the numbers, and what is new is dropped |
| `speech` | three languages, a speaker of one of them, one retry, three chunks and faults together | Is nothing said forgotten, do the workers implement `SpeechChannel`? |
| `email` | two consumers, the process started twice, one fault; two requests of up to two addresses, two mails, one retry | Are answers true and mails settled in order and in the end, do start and stop keep the producer under every loop? |

No run repeats a type invariant, an inductive invariant or a property that a
refinement it checks implies (of `OrderedLog`: `SettledInOrder`,
`CommittedAreSettled`, `CommittedNeverBack`): those are theorems (section 5).

Why the bounds are enough. Every hazard here is a race of two: one request that
has read something and another one that changes it. Two requests, two
instances, or two sockets of one user give each of them, and both run any
operation; on two workers two requests interleave at every database call, which
includes what they do on one. In a room, three people with limit 2 make it full
and not full, and one person of each kind (host, user, guest) reaches every
branch of `join_room`; `room_merge` needs a second limit to change to. Two
messages are enough for one to be passed or overtaken; one retry distinguishes
failing once from failing always; two faults allow the partition to leave an
instance and come back. Three token pairs give two logins, or a login and two
refreshes, which replace its pair one after the other, meet, or present a
retired pair again; two passwords are the one before and the one after a
change, or those of an account and of its successor. Window 0 makes one frame
behind another stale, where the code needs eleven: what matters is which of two
frames is behind. Three languages give two translations of one text, between
which a failure may come; three events are a chunk and two faults, or two
chunks that pass each other and a fault. Two consumers are a first and a last
one; the second start of the process meets what the first has left in the
topic. Where the theorems apply (section 5) the bounds do not matter.

`MaxRelays`, `MaxFaults`, `MaxPairs`, `MaxEras`, `MaxLinks`, `MaxParts`,
`MaxChunks`, `MaxFrames`, `MaxEvents`, `MaxBoots`, `MaxEmails`, `MaxMails` and
`LastOffset` cap what would grow without limit. Three runs have bounds of their
own in constraints. In `account`, after a request has failed half way, the
others come one by one (`OverlapOrFault`); the third pair is reached by
refreshes alone, with no failed login, reset, deletion or room in between
(`ThirdPairByRefresh`), so that logins, changes and deletions race over two
pairs; and failed logins are counted before there is a second pair
(`LockoutFirst`). In `room_concurrent` there is one limit, and no change
mentions it (`LockOnly`). In `signaling`, two of the three sockets connect
(`TwoConnect`); the constraint only forbids a third connection, which no
fairness demands, so that the temporal properties are checked on complete
behaviours of two sockets.

Symmetry is used where no liveness is checked: over the requests of `account`,
and in `room_concurrent` over the two requests together with their workers
(`Exchange`). These two runs also have a `View`, which leaves out what no step,
no constraint and no property of the run looks at any more: the row a handler
has loaded once it is past using it, who was admitted and has a row, and in
`account` the passwords and logins of pairs that are neither live nor being
refreshed, or of histories the session properties no longer speak of.
`CHECK_DEADLOCK FALSE` stands in all runs but those of `MeetingRoom`: logs,
sockets, tokens and starts are used up and the system rests. The largest runs
are `room_concurrent` (1.1 million distinct views) and `account` (0.8 million),
two minutes each with two workers; `signaling` has 112 thousand states and
spends two minutes on its temporal properties.

## 4. Fairness

- `MeetingRoom` has no liveness property: its handlers are straight lines, and
  a request that fails is never taken up again.
- `KafkaConsumer`: weak fairness of an instance's own steps, of its start
  (`restart: always` in the compose files) and of the assignment of a free
  partition. Crashes, rebalances and failing commits are bounded and not fair.
  That `handle()` fails, and that the dead-letter send fails, may happen every
  time. `SettledUnlessStalled` excuses what waits behind a loop that has ended:
  `consumer_poison` shows that this happens.
- `Signaling`: weak fairness of handlers and listeners, also of a listener's
  step that raises. A failure of Redis and the clients' connecting, messages
  and closings are not fair. `ReadIsDelivered` excuses what a listener that was
  ended, by Redis or by an unhashable target, has left unread.
- `Account` has no liveness property: its handlers are straight lines.
- `AudioSession`: weak fairness of each socket's ingest, egress and handler:
  the event loop serves what is ready, and Kafka and Redis answer. Nobody has
  to connect, to speak or to leave, no fault has to happen, and the workers
  need not make a frame.
- `SpeechPipeline` has no liveness of its own: that its workers come to have
  nothing more to do is `SettledUnlessStalled` of `KafkaConsumer`, and
  `SpokenWhenIdle` says what is true then.
- `EmailDispatch`: weak fairness of the steps of startup and shutdown
  (`restart: always`), of the worker's own steps, and of each request's insert
  and send. No request has to come and no process has to end. `MailsAreSettled`
  excuses the mails of a time from which on no process runs the loop.

## 5. Proofs

All theorem modules prove `Spec => []IInv` from `Init => IInv` and `IInv /\
[Next]_vars => IInv'`, one case per action, and derive the rest. The
assumptions are those of the constants (`RoomAssumption`, `ConsumerAssumption`,
`SignalingAssumption`, `AccountAssumption`, `AudioAssumption`,
`SpeechAssumption`, `LifecycleAssumption`, `EmailAssumption`): disjoint sets of
people, bounds that are naturals, maps that are functions. Sets of people,
requests, workers, instances, sockets, languages, logs, limits and bounds are
arbitrary. Every module has its types as a theorem.

- **`MeetingRoomProofs`.** `NobodyBeforeStart`, a part of the invariant, is not
  inductive: a request that has read an active room could write into a pending
  one. `PendingRequests` adds that while a room is pending every request has
  read it as pending and stands before its first write. `GuestsNeedAdmission`
  needs that a guest never reaches the places "insert" and "enter"
  (`RequestInv`), which rests on guests having no participants rows
  (`GuestsHaveNoRows`). `MembersHaveRows` and `HostNeverWaits` need what
  `RequestInv` says of the places "enter", "knock" and "move". `EndIsFinal`
  holds for any number of workers and requests and any copies they have read:
  no step but the commit of a host's join writes another status into an ended
  room, and no request gets to that commit while the room is ended
  (`FinalStep`). `OrderlyInv` is about histories in which requests neither
  overlapped nor failed: at most one request is in hand, where it stands tells
  what it has found, which is so still (`ServedInv`), and rows, hashes and
  status agree but for what it has left to do. `RowsAgreeWithPresence` and
  `EndLeavesNobody` follow, there being no request in hand. Its proof takes a
  call and a step of the request in hand apart (`CallInHand`, `StepInHand`),
  needs that the room's limit is positive for the first to enter
  (`RoomSettings` has `ge=2`) and that finitely many people are present
  (`PresentIsFinite`), however many there are. `HandlersKeepContract` shows the
  refinement of `RoomContract` step by step (`CallKeepsContract`,
  `StepKeepsContract`): every action is one of the contract's or a rest, the
  weak demands by `IInv`, those of `serial` by `OrderlyInv`.
- **`KafkaConsumerProofs`.** `InstanceInv` says of every instance, owner or
  not, that everything it has got past is settled, save the message in hand,
  and that the owner is never behind the committed offset. From it follow
  `NothingSkipped`, `LogOrder`, `CommitsAdvance`, and step by step
  `GroupIsOrderedLog`, the refinement. `RetriesRepeatNothing` has an invariant
  of its own, `Undisturbed`: while nothing has been disturbed one instance
  keeps the partition, what is settled lies up to its position, and the message
  in hand is not settled yet.
- **`SignalingProofs`.** `ListenerPerRoom` is kept by the pairing of `Connect`
  and `Disconnect`, for any number of sockets of a user. `NothingMisdirected`
  and `ChannelOrder` need to know of the job in progress that it sends the last
  message read (`JobInv`) and of what was received that it was read before
  (`ReceivedInv`), and that an entry belongs to its user (`EntriesAreOwn`).
  `OnlySiblingsUnregister` is about reconnects, for any number of sockets of a
  user, workers, failures and targets: an entry is missing under a socket that
  is served only if another socket of the same user on that worker has closed.
  It needs that only closed clients' sockets get to their farewell (`ReachInv`)
  and a case for `Disconnect`, which makes itself that other socket
  (`PlaceStep`, `ReachStep`).
- **`AccountProofs`.** `AccountsMoveForward` follows from guards that are
  evaluated where the row is written (`RowThere`), and from `user.state =
  "none" <=> user.id = 0`. `FailuresLockAddress` is inductive by itself, given
  that a step leaves the other requests where they are (`OwnRecord`). Type
  correctness needs `RequestInv`: a request in the name of an account carries a
  pair that was issued. The session properties need what every request between
  two awaits has found (`CurrentInv`): as long as issuing never met revoking,
  one that issues a pair still has a usable account and the latest password,
  and one that revokes has found every session there is. `Moves` is a table of
  how a step takes a request from one place to the next and what it changes on
  the way; with it the preservation has one case for the others
  (`OthersStayCurrent`), one for the request itself (`OwnStaysCurrent`) and one
  for the moment a revocation is over (`RevokedIsCurrent`). `RotationKeepsOne`
  needs that the pair a refresh carries is the only one of its login, and none
  after it was retired (`RefreshInv`), and that the new pair goes back to the
  same login (`RootsBefore`).
- **`AudioSessionProofs`.** `NumbersGrow` needs that the counter is ahead of
  every number published and of the one in hand (`Numbered`), for users who
  have connected once. `HighInv` says that `highest_seq` is a number that was
  played and that none played is higher: a dropped frame therefore lies behind
  one that was played, and, numbers growing, was said before it
  (`NothingNewDropped`); and no frame played lags more than the window
  (`LagIsBounded`). `ConsumersAreStopped` needs that ingest cannot end before
  the consumer's start is over (`Gated`).
- **`SpeechPipelineProofs`.** `Core` says of every worker that all it has taken
  is answered, the message in hand in part (`Progress`): a language that is
  neither to do nor excused has been published. It gives `NothingOwed` and,
  followed through the three topics, `NothingForgotten`. While nothing has
  failed, every topic is in the order of the chunks and a message has at most
  one successor per language (`TextOrder`, `TranslationOrder`, `FrameOrder`);
  from them follow `NobodyHearsEcho` and the refinement `PipelineIsChannel`.
- **`KafkaLifecycleProofs`, `EmailDispatchProofs`.** The lifecycle invariant
  relates the place of the lifespan to what has been started and stopped so far
  (`LoopsPublish`, `FlagIsTrue`, `ShutdownIsComplete`). `RequestInv` says of a
  request that its addresses are told, failed or in hand, and `WorkerInv` of
  the loop what `InstanceInv` says of a Kafka consumer; `NoMailLost` and
  `EmailIsOrderedLog` follow. `HostIsToldTruth` needs more, because what is
  told as failed must be in no event until a call fails: `TruthInv` says that
  requests share no invitation and that the one in hand is in no event yet
  (`InsertIsTrue`, `AnswerIsTrue`, `TruthStep`). A step of `EmailDispatch` is
  one of `KafkaLifecycle` or leaves the process where it is, so that
  `LifecycleInv` carries over (`LifecycleKept`).

Only model-checked: all liveness (`SettledUnlessStalled`, `ClosingIsAnnounced`,
`ReadIsDelivered`, `SessionEnds`, `EveryFrameHeard`, `MailsAreSettled`), which
is out of the proof system's reach. Every invariant, every action property and
every refinement that a passing run checks is a theorem.

## 6. Where the code differs from what is said of it

Shown by a run:

- `CapacityHolds`: joins can overfill a room
  (`app/modules/meeting/service.py:294`).
- `ConfigMerges` in `room_merge`: two configuration changes on two workers, and
  the second sets back what the first has committed
  (`app/modules/meeting/service.py:601`, against "we merge the updates" at
  `:600`).
- `EverySettled` in `consumer_poison`: a message that is no JSON ends the loop
  (`app/kafka/consumer.py:149`), and a restart meets it again.
- `OpenSocketHasEntry` in `signaling_replaced`: `disconnect()` removes the
  entry of the user, not of the socket
  (`app/services/connection_manager.py:68`); the late disconnect of a replaced
  socket leaves the open one without an entry.
- `OnlyStaleDropped` in `audio_reconnect`: every connection of a speaker
  restarts the numbers at 0 (`ws_router.py:149`) while the listeners keep the
  highest one heard (`ws_router.py:280`): the guard, there "to drop stale
  frames arriving out-of-order" (`ws_router.py:245`), drops what is new. A
  speaker who reconnects to another worker is numbered from 0 by that worker's
  counter.

In the models, without a run of its own:

- `admit_from_lobby` is atomic in its two writes only: it reads first
  (`app/modules/meeting/state.py:154`), so someone who leaves in between is put
  into the room all the same.
- An admitted person has no participants row: they are not counted and a second
  join sends them back to the lobby (`app/modules/meeting/service.py:308`).
- With several workers a host's join that found the meeting pending reopens it
  when another request has ended it in between (`service.py:211-214`);
  `EndedIsFinal` says that nothing else does.
- A join that passed its checks writes its live entry after `end_room` has
  deleted the hash (`service.py:405`): the entry stays. A leave that a rejoin
  overlaps sets `left_at` of someone who is present (`service.py:498`).
- `app/modules/meeting/api_docs.md:94` says that early joiners are waitlisted;
  they get a 400 (`service.py:216`).
- A message that fails validation is not committed, but the next commit passes
  it (`consumer.py:139`); the log line says it will be delivered again.
- A failing commit after a stale message stands outside the inner `try` and
  ends the loop (`consumer.py:132`).
- A dead-letter payload is encoded to bytes and given to a producer whose
  serializer encodes again (`consumer.py:211`, `app/kafka/producer.py:43`); the
  payload's form is not modelled.
- A signaling handler that leaves by another exception than
  `WebSocketDisconnect` keeps its entry (`ws_router.py:108`).
- A `target_user_id` that is a JSON list or object is published
  (`ws_router.py:94-102`), and every worker's listener ends by the TypeError of
  the lookup (`connection_manager.py:177`), outside its inner `try`; a listener
  task that has ended is not replaced before the worker's room has emptied
  (`connection_manager.py:126`), so nobody there receives anything until then.
- A login or refresh that has passed its checks stores its pair after a
  password change or deletion has revoked all others
  (`app/modules/auth/service.py:334`, `token_store.py:113`): the one overlap
  that the session properties exclude (`apart`). The same session survives when
  Redis fails between the change and the revocation, which is best effort in
  `service.py:525` and unrepeated in `app/modules/user/router.py:185`.
- Two refreshes with one token that both find it live before either revokes it
  (`service.py:323`, `:341`) both get a new pair: the login has two from then
  on, and the replay is not noticed (`single`).
- A hard delete "permanently remove[s] user and all associated records"
  (`app/modules/user/service.py:112`), but deletes verification tokens only
  (`:125`): with a row in `password_reset_tokens`
  (`app/modules/auth/models.py:121`) or `rooms`
  (`app/modules/meeting/models.py:44`) the foreign key makes it fail.
- A failure between setting the lock and clearing the counter
  (`account_lockout.py:101`) leaves the counter at its limit.
- When egress cannot start its consumer it releases ingest, "so ingest can
  still run" (`ws_router.py:240`), and returns; the handler, waiting for the
  first task that ends, then cancels ingest (`ws_router.py:319`): the session
  is over.
- A cancellation that meets `consumer.stop()` in the `finally` of egress, after
  the iteration has failed, or the start before its `try`, leaves the consumer
  in its group (`OutAfterCancel`, "leaked"); `NoConsumerLeft` and `SessionEnds`
  allow it only after a failing call.
- `app/modules/meeting/api_docs.md:490` says that egress plays the frames of
  the listener's language; alone in a room one hears every language
  (`ws_router.py:266`).
- `app/services/api_docs.md:55` says "exactly one `TranslationEvent` per target
  language needed"; a retry of `handle()` publishes those again that it has
  published (`translation_worker.py:131`), the TTS worker speaks them again,
  and the guard, which lets a lag of ten pass, plays them twice.
- `app/services/api_docs.md:54` says that OpenAI takes over "if DeepL fails"; a
  failure of DeepL ends in a mocked text (`translation_worker.py:189`), which
  is published.
- A startup that fails half way leaves the producer and the first consumers
  running while `kafka_started` is False, so shutdown stops none of them
  (`app/main.py:50`, against `app/kafka/api_docs.md:42-44`). A `stop()` that
  raises leaves the consumers behind it and the producer running
  (`manager.py:178`).
- `is_started` says True of a producer whose start has failed
  (`producer.py:33-35`), and `_running` of such a consumer (`consumer.py:74`),
  which nothing can start again. `/health` asks the producer only: a process
  whose loops have ended is healthy.
- An e-mail whose request times out is sent again though Mailgun may have it.
  An address that is told as failed may have an event in the topic, since a
  send that fails may have written it (`app/modules/meeting/service.py:692`).
  When the database fails in the middle of the list the answer is an error
  though mails were queued (`service.py:671`), and a second request invites the
  same people again.
- No code looks up the token of an invitation (`get_invitation_by_token`,
  `app/modules/meeting/repository.py:237`, has no caller).
- A second end of an ended room sets `ended_at` again (`service.py:565`), and
  settings may hold `max_participants` null, with which the comparison in every
  join raises (`service.py:293`): both are data the model of the room leaves
  out.

## 7. Not modelled, and the plan

`PROJECT.json` gives the reason for every part. Left aside for good: the HTTP
layer, formatting, configuration, e-mail templates, the stateless clients of
external services, Cloudinary, migrations, queries that only read. The caption
sockets copy two topics to their client and keep no state; the health probe
changes nothing. Within the models: `ended_at`, profile fields, the
active-speaker key and its broadcast, token expiry (a token that has expired is
one nobody uses), the crash of a worker between two commits of one synchronous
piece in `Account`, several instances of one speech or e-mail worker
(`KafkaConsumer` has those), more than two sockets in `Signaling` at a time and
its several workers (the proofs have any number of both). A send that returns
has written its message once: a producer that is not idempotent
(`producer.py:37-48`) may write it twice when the client library sends again
after an acknowledgement was lost, which the models of `AudioSession`,
`SpeechPipeline` and `EmailDispatch` leave out; what they say of numbers and of
order is said of a broker that acknowledges.

Next, in this order:

1. `Account` on several workers, where synchronous database calls interleave.
2. `SpeechPipeline` with instances that hand a partition over to each other, by
   `KafkaConsumer`'s promise in place of its loop.
3. `MeetingRoom`: `max_participants` null, with which every join fails; what an
   admission and a departure that overlap leave (`admit_from_lobby`);
   participation in `Signaling` that ends while the socket is open.
