# LoRa-Bridge: specifications, checks and proofs

LoRa-Bridge is one asyncio process that connects LoRa mesh nodes (MeshCore) with messengers
(Telegram). A message of a messenger is admitted into a bounded queue, journalled, transmitted by
one worker per node, and its fate is shown to the sender as a reaction. A message heard on a node is
deduplicated, checked against our own echoes and copied to the room. This directory holds TLA+
modules of these parts, the TLC configurations that check them on small instances, and theorems
proved with TLAPS for every value of the constants. Paths below are relative to `src/lora_bridge/`.

How to run: `tlc -config MCCommitPipeline.cfg MCCommitPipeline`, `tlapm CommitPipelineSafety.tla`.
`PROJECT.json` lists every run, the source lines of every definition, the mutants that show that
each property can fail, the findings and the hazards.

## 1. Inventory of the system

| component | state | operations | interacts with |
|---|---|---|---|
| Bridge (`core/bridge.py`) | none but its maps | `run`, `consume`, `admit`, `enqueue_to_lora`, `route_from_lora`, `on_committed`, `reject` | everything below, by awaited calls |
| Queue (`core/queue.py`, `core/ratelimit.py`) | deque, token bucket per node | `put_nowait`, `__anext__`, `is_stale`, `try_consume` | `consume`, `recover` put; the worker takes |
| Egress worker (`core/egress.py`) | the message in hand | `run`, `transmit`, `send_with_retry` | journal, status, loop guard, transport, `on_committed` |
| Journal (`core/journal.py`) | one SQLite table, one connection | `record_pending`, `mark_transmitting`, `mark_terminal`, `prune`, `recover` | all consumers and workers share its connection and transaction |
| Recovery (`app.py`) | none | `recover` | journal, queues, status, before `Bridge.run` |
| Ingress (`transports/hub.py`, `core/dedup.py`, `core/loopguard.py`, `core/ttl_window.py`) | subscriber buffers, two TTL windows | `publish`, `accept`, `is_echo`, `mark_sent` | the radio's dispatcher publishes, `consume` asks, the worker marks |
| Drop notifier (`core/notifier.py`) | window stamps, counters | `note_reject`, `flush_due`, `run_flush_loop` | `reject` of any task, a periodic task, the messenger |
| MeshCore connection (`transports/meshcore/transport.py`, `connection.py`) | `_mc`, `_disconnect_ev`, the handlers' slots | `start`, `run`, `_teardown`, `stop`, `on_event`, `send` | the device library's dispatcher, the worker |
| MeshCore mappers (`transports/meshcore/mappers/`) | `channel_index`; the channel slots and contacts of the device | `resolve_channel`, `create_channel`, `ensure_contact`, `login_room_server`, `send`, `try_rx`, `route_rx` | `start` of the connection calls `resolve`, the worker `send`, the dispatcher `route_rx` |
| Reactions (`transports/telegram/reactions.py`) | sleeping tasks, generations, confirmed keys | `schedule`, `clear_now`, `_delayed_apply` | status reports, the Bot API |
| Telegram moderation (`transports/telegram/moderation/`, `commands/`) | roles, user settings and audit log in SQLite | commands, `audit_page`, every operation of `ModerationStore` | one handler per update, all on one connection |
| Telegram transport (`transports/telegram/transport.py`) | the polling task, the open store | `start`, `stop`, `on_message`, `send`, `report_status` | the hub, the store, the Bot API |
| Rooms and routing (`core/routing.py`, `config/schema/rooms.py`) | the registry, built once | `for_source`, `others`, validators | `Bridge.admit`, `route_from_lora`, `on_committed` |
| Configuration (`config/`) | none after start | validators | `main` |
| Life of the process (`app.py`, `Bridge.run`, `core/supervisor.py`, `wiring.py`) | the task groups, the scope a signal cancels | `main`, `run`, `start`s and `stop`s in order | all transports, the journal |
| Text transform (`core/transform.py`) | none | labels, lengths | `enqueue_to_lora` |

Hard behaviours, each listed at its line under "hazards" in `PROJECT.json`:

* tasks interleave at every `await`; a journal call has two of them, and its COMMIT makes the
  statements of all tasks durable;
* the process can die between any two steps, and only the committed table survives;
* the radio says busy, fails, or does not answer in time, and nobody knows whether the text went out;
* the mesh repeats packets, and a repeater sends our own text back at any time;
* the connection to the node is lost while it is being prepared, used or closed, and events of an
  old connection arrive late;
* Bot API calls overlap and are served in any order;
* the device keeps its tables over a reconnect, answers any command with an error, and may write a
  slot whose answer is lost;
* handlers of several updates read a role, a ban or a flag, wait, and write;
* a signal, a failing task or a failing `start` arrives at any place of start-up and shutdown;
* the notifier's flush works on counts it read before it waited.

What makes each component correct:

* pipeline: persist before act, one TRANSMITTING row per node, at most one transmission per message,
  FIFO over restarts, copies only after commit, no accepted message forgotten, statuses only go
  forward, every queued message gets an answer;
* ingress: duplicates are a TTL apart, silence is forgotten, our echo is not routed;
* notifier: rejections are neither lost nor counted twice, and tails are announced;
* reactions: a sent message ends without a reaction, a verdict ends drawn;
* connection: never two connections, no wait on unresolved endpoints, a loss leads to a reconnect;
* mappers: a slot number never names another channel, frames reach their own channel;
* moderation: the audit log tells the tables, only the owner makes admins, a banned user's text does
  not pass, a toggle toggles;
* rooms and life: an accepted configuration routes, what has run is stopped, a cancelled process ends.

## 2. Modules

| module | models | state and actions against the code |
|---|---|---|
| `CommitPipeline` | queue, worker, journal, statuses, recovery, crash | one action per step between two suspensions. `requests` and `replies` are what the tasks and the aiosqlite thread owe each other; `db` is the open transaction, `disk` what a crash leaves; `worker[n]` says at which `await` of `transmit` the worker of node n is |
| `SerialSender` | the abstract promise of the above | the order in which messages were accepted, those that wait, one in the air per node, none begun twice; nothing is accepted or begun while the system is down, and only then may a dropped message return |
| `CommitPipelineRefinement` | the mapping between the two | what waits is the queues and what a worker is about to send, the orphans of recovery or the PENDING rows of the disk, by phase; the system is up from the end of `recover` to the next crash |
| `CommitPipelineProofs`, `CommitPipelineSafety` | proofs | types and at most once; every other safety property and the refinement |
| `TtlWindow` | `core/ttl_window.py` | pure operators on the sequence of the OrderedDict's items |
| `LoraIngress`, `LoraIngressProofs` | hub, `consume` of a LoRa node, dedup, loop guard, the worker's `mark_sent` | uses `TtlWindow` twice; `Transmit` and `MarkSent` are the two ends of `transmit` |
| `DropNotifier`, `DropNotifierProofs` | `core/notifier.py` | `FlushStart` reads clock and counters, each `FlushResume` goes on with that snapshot |
| `ReactionDebouncer`, `ReactionDebouncerProofs` | `transports/telegram/reactions.py` | `tasks` are the sleeping callbacks, `calls` what is under way to the Bot API |
| `MeshCoreLink` (proofs in `NodeEndpointsProofs`) | `transports/meshcore/transport.py` | `at` is the `await` where `start` or `run` is suspended; connections are numbered, so that a slot, an event or an open port names the connection it belongs to |
| `NodeEndpoints`, `NodeEndpointsProofs` | `transports/meshcore/mappers/` | EXTENDS `MeshCoreLink`: `Turn(e)` is the loop of `start` at endpoint e; `WriteChannel(e, n, i)` is the whole of `resolve_channel` when the scan read the first n slots and `create_channel` writes slot i; `room.step` is the `await` of `ensure_contact` and `login_room_server`; `frame` is what the device received and nobody fetched |
| `Moderation`, `ModerationProofs` | store, commands, `on_message` | a task per update; `line` is the queue of the connection's thread, `task[t].at` the store call a handler awaits, with `open` between `execute` and `fetchone`; `db` is the open transaction all handlers share, `disk` what is committed |
| `Rooms` | validators, registry, routing | pure operators under the names of the source |
| `Lifecycle`, `LifecycleProofs` | `main`, `run`, `Bridge.run`, `Supervisor`, `Hub.slot`, `start` and `stop` of a bot | EXTENDS `Rooms`; `at` is the place of the main task, `next` the transport being started or stopped |
| `MC*` | small instances | constants only |

External and modelled from its use in the code: the aiosqlite thread (statements and COMMITs in the
order submitted), the clock, the Bot API, the loss of the link; the tables of the device and what it
hears; aiogram, whose `stop_polling` raises when nothing polls; the threads of open database
connections, which are not daemons and keep the process alive.

Abstractions. Texts, ids and chats are model values; formatting is left out. Time is an integer
clock with a bound (`LoraIngress`), relative ages (`DropNotifier`), or a nondeterministic event
where only the order matters (`Expire`, `Refill`, the debounce delay, the reconnect delay). The
refusals of admission (read-only, policy, length) are one input, `Refused`. A graceful stop is one
of the crashes of `CommitPipeline`: it cancels tasks at their `await`, and the journal keeps less or
as much as it would after a crash. The secret of a channel stands for the byte of its hash the code
compares. A room server's `resolve` is one step per call to the device, a channel's search one step
per outcome: the table changes only by `set_channel`, which ends it. A chat and a topic are sequences
of symbols, because the registry joins them with `#`. In `Lifecycle` a signal without a receiver ends
the process, as SIGTERM does; a SIGINT at that place is a cancellation, which the raising branches of
`OpenJournal`, `Recover` and `StartRaises` cover.

## 3. Runs

| run | instance and bounds | shows |
|---|---|---|
| `pipeline` | a bot with two messages, a relay from a second node, capacity 2, burst 2, 2 attempts, 1 crash; the restart may lose a node | `OneInTheAir`, `PersistBeforeAct`, `NeverRequeued`, `MirrorAfterCommit`, `PendingIsBacked`, `StatusForward` |
| `pipeline_live` | two bots, one node a restart may lose, burst 1 under a capacity of 2, 3 attempts, 2 crashes, under `FairSpec` | `ImplementsSerialSender`, `QueuedResolves` |
| `pipeline_hang` | as above, the node stays, burst 3, 1 crash | violation of `SentIsShown` |
| `pipeline_room` | as above, burst 1 | violation of `PendingIsQueued` |
| `pipeline_keys` | as above, burst 3, two chats of one bot at the same message number | violation of `AcceptedSurvives` |
| `ingress` | one foreign message, two own texts, TTL 1, clock to 3, buffer 1 | `DuplicatesSpaced`, `SilenceForgets`, `GuardIsExact`, `MarkedEchoDropped` |
| `notifier` | two chats in one window, one in another, window 2, a flush takes up to 3 | `Conservation`, `TailsDrain` |
| `reactions` | two messages, two lives of the process | `SentIsClean`, `ClearIsNeeded`, `VerdictIsDrawn` |
| `link` | two endpoints, three connections, three steps of delay | `OneConnection`, `WaitingIsResolved`, `HeardDropRecovers` |
| `node` | two channels and a room server; two slots and one contact of the device in every initial state; two connections, one advert | `OwnSlot`, `NoCrossTalk`, and that the node implements `MeshCoreLink` (`ImplementsLink`) |
| `moderation` | owner, admin, user; 17 commands and texts, four of them received, two handled at one time; pages of one row; one crash | `LogTellsTables`, `OnlyOwnerMakesAdmins`, `PublishedWasAllowed`, `TogglesCount`, `PageNotBlank` |
| `lifecycle` | every configuration of at most two rooms over two nodes and two bots (one with commands), and configurations with repeated, shared or no ids; two updates, two signals, under `FairSpec` | `AcceptedIsRoutable`, `OrderlyStop`, `LossNeedsAnEdge`, `CancelledExits` |

Why the bounds are enough. The pipeline's properties relate at most two messages of one node; two
messages and a relay fill the queue, empty the bucket, and leave one in hand while one waits. One
crash separates what is durable from what is not; the second crash of `pipeline_live` interrupts a
recovery. Its bucket is smaller than its queue, so that a recovery can put back some rows and not
others, and a start without the node leaves rows for the one after it. In the three runs that end in
a violation the node is there at every start; `pipeline_room` has one token for two rows, and
`pipeline_keys` one key for two messages. Three connections give a lost one, its successor, and one more for the events of the first
to hit. A TTL of one with a clock of three has items younger than, exactly at and beyond the
deadline. The notifier's flush outlasts a window (3 > 2). Two slots for two channels are a device on
which every search can find its own slot, one of the right name with another secret, an empty one, a
foreign one to evict, or none; a contact table of one is full with a stranger. The second connection
repeats the searches over what the first has left. Four updates are enough for a grant, a revoke and
two commands that overlap them, and pages of one row make every row a page. Two nodes and two bots
have a transport of each kind before and after each other, and two rooms can share a member.
`NotifierAssumption`, `PipelineAssumption` and the other assumptions are evaluated by TLC in these
runs; `NodeAssumption` excludes two endpoints of one channel name, which overwrite each other at
every start.

Deadlock is checked for the notifier, which never stops. The other instances stop: messages, clock,
connections, lives, updates and signals are bounded, a stopped transport stays stopped, and the
process of `lifecycle` exits.

Fairness. `CommitPipeline`: weak fairness of the SQLite thread, of every resumed task and of
recovery (the event loop and the thread do not idle with work to do) and of the radio step, because
`anyio.fail_after` bounds every send; nothing about arrivals, expiry, refills or crashes.
`DropNotifier`: the clock, and the flush (the supervisor's task wakes, the Bot API answers or times
out). `ReactionDebouncer`: sleeps end and calls are answered or fail. `MeshCoreLink`: the awaits of
`start` and `run` end (the library's commands time out) and the dispatcher gets to its events; no
fairness of losses or sends, and none that prefers success to failure. `Lifecycle`: the awaits of
`run`, of the `start`s and of the shielded `stop`s end, and a cancelled task reaches its next await;
no fairness of failures, signals or updates.

## 4. Findings

Three runs end in a violation that refutes a sentence of the repository; `PROJECT.json` quotes them.

1. `pipeline_hang`: a crash between the committed SENT and the status report; after the restart, with
   the bridge at rest, the row says SENT and the sender still sees TRANSMITTING. Recovery reads
   PENDING and TRANSMITTING rows only.
2. `pipeline_room`: a restart finds more PENDING rows than the fresh bucket has tokens. `recover`
   ignores what `put_nowait` answers and reports PENDING: the second message is shown as waiting and
   is in no queue until the next restart.
3. `pipeline_keys`: the journal key has no chat in it; the second INSERT OR REPLACE erases the first
   message's row while that message waits in the queue, and the crash then leaves a message shown as
   accepted neither queued nor journalled.

Eight more are kept as configurations of the same modules, outside the listed runs. Each ends in the
violation of the one property it names (`tlc -config MCLoraIngressEcho.cfg MCLoraIngress`).

| configuration | property | what the code does |
|---|---|---|
| `MCLoraIngressEcho.cfg` | `OwnEchoDropped` | our echo is routed when it arrives before `mark_sent`, which runs two suspensions after the radio took the text (core/egress.py:67 against core/loopguard.py:1-5) |
| `MCDropNotifierStorm.cfg` | `TailFlushed` | the immediate branch of `note_reject` opens the window anew before the flush can announce the tail; during an overload a chat's tail is never announced (core/notifier.py:59 against :64) |
| `MCReactionDebouncerRace.cfg` | `NoStaleReaction` | SENT during the call that puts the reaction on finds nothing to clear (reactions.py:93 against :51-53) |
| `MCMeshCoreLinkMissed.cfg` | `DropRecovers` | the events are subscribed last; a loss before that leaves `run` waiting for ever (meshcore/transport.py:113 against :85) |
| `MCNodeEndpointsEvict.cfg` | `EvictsOnlyWhenFull` | `try_add_contact` says False for every error, so that a contact is removed from a table that is not full (room_server.py:88-95 against :80) |
| `MCModerationRank.cfg` | `LoweredByHigher` | a grant looks at the role granted, not at the role its target has; an admin who grants "moderator" to another admin takes his role away (commands/moderation.py:272 against docs/superpowers/specs/2026-06-28-telegram-roles-moderation-design.md:31-32, a rule the code keeps for the word revoke only) |
| `MCLifecycleEarly.cfg` | `StartedIsStopped` | the starts are outside of the `try` whose `finally` stops: a `start` that raises or is cancelled leaves the transports before it running (core/bridge.py:91 against tests/test_shutdown.py:1-8) |
| `MCLifecycleKeys.cfg` | `AcceptedBuilds` | the topics "" and none are two keys for the validator and one for the registry, which then raises with the journal open (app_config.py:27 against core/routing.py:62) |

## 5. Proofs

TLAPS proves, for every value of the constants under the named assumptions of the modules, every
invariant, every action property and both refinements that the passing runs check. What is left to
TLC is liveness. The theorems are listed in `PROJECT.json`; the arguments are these.

**Commit pipeline.** `UniqueKeys` (no two messages share a journal key) is a hypothesis of every
theorem but the first, because without it they are false, by the collision `pipeline_keys` shows.

* `TypeCorrect`: a worker that is not idle reports about `held[n]`, which `TypeOK` allows to be
  `NoMsg`, so the invariant is `Typed`, `TypeOK` with `WorkerHolds`. One lemma for each helper that
  is used by several actions (`Submit`, `Show`, `Returned`, `TokensAfterPut`, `Execute`).
* `AtMostOnce`: `OnceInv` has two halves. `CallsInv` is about the journal: the INSERT of a message is
  ahead of everything its worker asked for (`InsertFirst`), an answered statement shows in the
  transaction and an answered COMMIT on the disk (`StatementsTake`), and a message that has begun is
  PENDING in neither table (`BegunIsSettled`). `PlaceInv` is about places: a message waits once, in
  one line, and what recovery has still to put back is not there yet.
* `AtMostOneInTheAir`, `PersistedBeforeSent`, `CopiedOnlyIfCommitted`, `AcceptedIsBacked`,
  `StatusesGoForward` (`CommitPipelineSafety`): one invariant, `SafeInv`, serves them all. It is
  stated message by message. `Stage(m)` says where m is (in a line, at an await of its worker, out);
  `MsgInv(m)` says what that stage allows the two tables to say (`MaySay`), what the sender may have
  been shown (`Told`), and that m has its row or its INSERT on the way (`Backed`). `CallFits` ties
  each call under way to the task that waits for it: its statement shows in the transaction once it
  has run, and on the disk once its COMMIT has. `Lines` says that no task has two calls about one
  message, and that `record_pending` of a message is never overtaken by its worker, from the first
  statement to the last answer. That is the fact the statuses rest on, since `consume` puts the
  message into the queue before it has journalled it. A step is about one message, so each action has
  a lemma about that message and one about all others.
* `PipelineIsSerialSender`: every step of the pipeline maps to a step of `SerialSender` or a stutter.
  It needs the order, `OrderInv`: `admitted` lists a message once, a row carries the number of its
  admission, the queues are sorted by it, what a worker has taken comes before its queue and what
  recovery has still to put back comes after it. The case of `Restart` is a crash, where the messages
  that wait are those of the PENDING rows, none of which has begun; `Resume` is the end of `recover`
  (`Open`), and in between the pipeline neither admits nor begins anything (`mode`).

**LoRa ingress.** `TypeCorrect`, `Forgets`, `GuardExact`, `Spaced`, `EchoDropped`: for every TTL,
buffer and set of texts. Lemmas about `TtlWindow` come first: eviction removes a prefix and nothing
fresh, closing a gap keeps the order. `IngressInv` then relates each window to a history. The items of
the guard are sorted and carry exactly the last mark. The items of the dedup window are not sorted,
since a refused copy moves its item to the end with its old time; what holds instead is `Ordered`: no
item was asked for before an item in front of it was stored. It is why eviction from the head never
leaves a message refused for longer than TTL after it was last heard.

**Drop notifier.** `NothingLostOrDoubled`: the strengthening says that a key whose window is due by
the flush's clock has the count of the snapshot, because the next rejection would have opened the
window anew. `NotifierTypes`: the types, with the bounds of the clocks; a stamp of the flush is at most
`MaxLag` old.

**Reactions.** `TypeCorrect`, `SentLeavesNothing`, `ClearsWhatIsThere`: the invariant goes message by
message. Outside of overlaps and failures a message has at most one call under way, of the present
life, and what it shows is what the last served call left there.

**Connection and mappers.** `LinkTypes`, `NeverTwoConnections`, `WaitsResolved`: from what each place of
`start` and `run` implies about the connection in use (`PlaceInv`). `NodeOwnSlot`,
`NodeNoCrossTalk`: for every device and any table it was left with. `NodeInv` adds to `OwnSlot` that a
waiting frame of a configured channel is still of the channel in its slot. The lemma they rest on is
`WritesOver`: the slot a search writes holds none of the node's channels, wherever the scan was cut
short, because a slot of the same name with the right secret would have been found and the eviction
looks at foreign names only. `NodeTypes`: `RoomInv` says that a room server is resolved at one place of
`start` only and that the contact table stays finite and within its capacity. `NodeImplementsLink`:
every step of the node is a step of `MeshCoreLink` or leaves it alone.

**Moderation.** `ModerationPublished`, `ModerationAdmins`: one formula per handler, `Fits`: it is at a
place its command leads to (`MayBe`; for a grant of the admin role that is the owner's path only), and
what it has read was true of its sender at a moment since its update came (`HasRead`).
`ModerationLog`, `ModerationToggles`, `ModerationPages`, `ModerationTypes` rest on `FullInv`. The line
of the connection's thread is served in turn, and a handler joins at its end after each answer; hence
the rows of two commands are logged in the order in which their statements ran (`Ahead`, with the
lemmas `ServedOrder` and `Joining`), and the last row about a user tells the table, but for the
statements that have not been logged yet (`ToldInv`). The pages need arithmetic only: the log does
not shrink while a handler lives, so the first row of the page worked out from the count is there.

**Life of the process and rooms.** `LifecycleTypes`, `LifecycleOrderlyStop`, `LifecycleLoss`: `IInv` says
what each place implies (no task outside of `running`, the transports behind `next` are stopped and
quiet while `stopping`). It needs `PolledInv`: a bot whose `start` is over and whose `stop` was not
called polls or has polled, or else a `stop` could leave an open store with another excuse than a dead
polling task. For `LossNeedsAnEdge` the invariant is `AllRun`. `LifecycleRoutable`: the first `#` of a
joined channel is the one that was put there (`JoinedChat`), so that two references are equal only for
equal members (`RefTells`) and two seats with one reference are one seat (`OneSeat`); the rule of shape
makes the LoRa endpoint of a messenger's room unique (`MessengersRoom`).

What the proofs have changed, in cases beyond the instances that were checked:

* With a bucket smaller than the queue the earlier `SerialSender`, which kept lines and let a restart
  only shorten them, was not implemented: for want of tokens `recover()` leaves rows out of the queue
  that stay PENDING, and the next restart puts them back.
  `SerialSender` now has the order of acceptance, and `pipeline_live` an instance with such a bucket.
* `PendingIsBacked` used to count a message in a worker's hand as backed. The invariant showed that
  more holds: the committed journal has the row wherever the message is.
* `PageNotBlank` was an invariant over the rows of the page shown. It is false with three handlers,
  where a row is logged and committed between the SELECT of a page and its fetch; the run has two. It
  is now an action property about the moment the page is read.

Assumptions on constants the proofs need, beyond the numbers being numbers: `NoRow` is not a row;
`Strangers` is finite (a device hears of finitely many contacts); two endpoints of a node differ in
name; a configuration has the shape the schema gives it (`IsRoom`).

Only model-checked: the liveness properties `QueuedResolves`, `TailsDrain`, `VerdictIsDrawn`,
`HeardDropRecovers` and `CancelledExits`. They need fairness, and the prover does not handle ENABLED.

## 6. Not modelled

* Text transformation, message formatting, transliteration and the reading of authors from frames:
  pure string code. The one cut that matters to a property (`split_author`) is in `LoraIngress`.
* The types and ranges of single configuration fields, the wording of their errors
  (`config/errors.py`) and the documentation generators (`docs/`).
* The command menus of the bot, which are best-effort calls whose failures are swallowed; after a
  crash between a role's write and `on_role_changed` the menu shown is that of the old role until the
  next start. Malformed and unknown commands and commands in groups, which change nothing.
* Several bots with commands: they share the moderation tables through connections of their own, and
  `Moderation` has one bot with one connection.
* The order of the audit page: it sorts by a time in whole seconds with no second key
  (moderation/store.py:199). `LogTellsTables` is about the order of insertion.
* Recovery gives a message a new age, against the TTL the documentation promises; the age before a
  restart is not modelled. It matters most for the PENDING row of a node that left the configuration,
  which waits until the node returns and is transmitted then.
* The retries of `send_with_retry` during a reconnect: the retry budget is in `CommitPipeline`, the
  reconnect in `MeshCoreLink`, and no module composes the two.

## 7. Plan

1. The composition of `MeshCoreLink` with the retries of `send_with_retry`: what an outage means for
   a message in hand.
2. The composition of `Lifecycle` with `CommitPipeline`: a graceful stop as a cancellation of each
   task at its await, in place of the crash that stands for it now.
3. An abstract specification of the moderation log (a command takes effect and is logged at once),
   implemented by `Moderation` between crashes.
