# Thumbelina: verification development

Thumbelina (`src/src/thumbelina`, Python, asyncio) is a chat agent service: a
LangGraph agent behind HTTP, WebSocket, WeChat and QQ, with tools under a
permission gate, subagents, knowledge bases, memory and todo files, and a task
scheduler with a heartbeat. This directory holds TLA+ models of its core logic,
the TLC runs that check them and the proofs about them. Sections 3 to 8 take the
parts in turn; section 9 says what is left out.

## 1. Inventory

| Component (sources) | State it keeps | Operations | Talks to | What is hard | What makes it correct |
|---|---|---|---|---|---|
| Task scheduler (`scheduler/scheduler.py`) | working set `_tasks`, poll task, `_inflight` ids, execution handles | add, cancel, pause, resume, recover, start, stop, poll round, fire, hand-off, settle | store (write-through), dispatcher, prompt runner, event bus, heartbeat | fires from a snapshot over many awaits; executions outlive rounds; verdicts meet requests and the reaper | one flight per task, verdicts final, nothing RUNNING without an owner, due work is served |
| Heartbeat (`scheduler/heartbeat.py`) | its loop, per-cycle snapshots | four checks that act: overdue once, dead loop, stale running, late cron | scheduler objects directly | acts on the same objects as the loop, in the middle of its rounds | revives a dead loop, reaps only what is stuck, misses only what nobody delivers |
| Task store (`scheduler/store.py`) | table `scheduled_tasks`, event log | upsert in a worker thread, load | scheduler | threads of one task are not ordered | the row follows the task |
| Cron and models (`scheduler/cron.py`, `models.py`, `events.py`, `time_parser.py`) | none (values) | next_after, parse | scheduler | strictness at an occurrence | a slot is consumed once |
| Dispatcher (`scheduler/dispatcher.py`) | none | deliver a due task to a channel or the web | channels, WebSocket | channel may not answer | delivered or raised |
| WebSocket chat (`api/websocket.py`) | clients, turn registry, turn streams with inboxes and pumps, per-connection reader | message, stop, switch, ping, permission response, disconnect | agent, broker, conversation lock | a reader that waits cannot read; registry entries overwritten; a watcher that comes, leaves or switches while frames are on their way | one turn per conversation at a time, every frame once and in order, stop reaches the turn |
| Permission broker (`api/permission_broker.py`) | pending requests, early answers | register, wait, resolve, time-out, snapshot | WebSocket, agent turn | answer, time-out and disconnect race | settled exactly once; never approved by default |
| Conversation locks (`concurrency.py`) | weak map of locks | lock per conversation | all entry points | lazily created, weakly held | turns of one conversation never overlap |
| Agent graph (`agent/graph.py`, `nodes.py`) | checkpointed message list per conversation | run, stream, tool loop, interrupt/resume, compress, persist | LLM, tools, permissions, repository, compressor | cancellation in the middle of a tool round; healing on the next turn | tool calls and results stay paired; nothing runs unapproved |
| Compression (`agent/compression/*`) | none (pure on a message list) | sliding window, full summary, summary and recent turns | agent graph | cut points inside tool rounds; what earlier compressions left at the front | the open question and whole tool rounds kept |
| Permissions (`tools/permissions.py`) | none (pure) | evaluate a call in a mode, with and without an approver | agent graph, shell and file tools | five modes, and the tools' own review beside the gate's | a stricter mode never lets more happen |
| Subagents (`subagents/manager.py`) | records, slots, tasks, listeners | create, run, retry, cancel, close | agent, WebSocket | cancellation against completion, limits | bounded, one final state |
| LLM endpoints, presets (`llm/endpoint_manager.py`, `preset_manager.py`) | endpoints, the active pair, presets, the active preset | add, update, remove, activate, restore | configuration, agent | rows written one by one, without a lock, by requests that may fail between two | one pair active; what a swap stores belongs together |
| Runtime configuration (`config/*`) | current config, `config.yaml`, overrides table | swap of the model, swap of a channel, reload | every component | partial failure between stop, store and start | one channel polls; no half of two swaps is stored |
| Channels (`channels/*`) | polling tasks, credentials in files, cursor, last user | log in, start, poll, answer, stop, swap | agent, repository, runtime configuration | a session that expires while a login or a swap is under way | no loop polls for a channel that was replaced; a restart finds the last login |
| Knowledge bases (`rag/*`) | documents, fingerprints, vectors, upload tasks | upload, index, replace twins, cancel, delete | database, vector store, embedder | failure, cancellation or deletion between two stores | nothing half stored; what is recorded can be found; an upload leaves no task and no file behind |
| Memory, todo, file store (`memory/*`, `todo/*`, `filestore/*`) | files, index, locks per key | read-modify-write | tools, routes | lock order, crash between write and rename | no lost update, no torn file |
| Plugins (`plugins/*`) | registry, load order | resolve, load, validate | agent | dependency cycles, a failure with others waiting behind it | loaded after, and only with, what is required |
| Skills (`skills/*`) | skills, compositions | apply, compose | agent | order of steps | dependencies first |
| Notifications (`notifications.py`) | subscribers | subscribe, notify, broadcast | nobody subscribes | – | – |
| Rate limit, auth (`security/*`) | request times per key | admit | routes | window boundary | at most N in any window |
| Repository (`repository/*`) | conversations, messages, names, bindings, trajectory | one transaction per call | agent, routes, channels, scheduler | four stores and a checkpoint that change one after the other | question and answer together; what is wiped stays wiped |
| Backup, CLI, tools, frontend | files, none | archive, prompts, UI | all | I/O | environment, see section 9 |

How they meet: everything runs on one asyncio loop, so code between two awaits
is atomic and every hazard is an await (or a worker thread started by
`asyncio.to_thread`) between reading and using a piece of state. The models take
this literally: one action is the code from one await to the next.

## 2. Plan

Order: the most consequential and most concurrent behaviour first.

| Modules | Part | State |
|---|---|---|
| `TaskTable`, `Scheduler`, `Heartbeat`, `TaskService`, `TaskLifecycle`, `TaskHistory`, `TaskServiceProofs` | task scheduling | modelled, checked, proved |
| `ConversationLock`, `PermissionBroker`, `ChatTurns`, `ChatService`, `ChatServiceMC`, `ChatServiceProofs` | turns, approvals and the lock | modelled, checked, proved |
| `FrameRelay`, `ConversationStore`, `Dialogue`, `ChatMC`, `ChatProofs` | frames of turns; what is kept of conversations | modelled, checked, proved |
| `AgentTurn`, `Compression`, `Permissions`, `AgentTurnMC`, `AgentTurnProofs` | the graph of an agent's turn | modelled, checked, proved |
| `Subagents`, `SubagentsProofs` | delegated work | modelled, checked, proved |
| `KnowledgeBases`, `KnowledgeBasesMC`, `KnowledgeBasesProofs` | uploads and deletion | modelled, checked, proved |
| `MemoryStore`, `TodoLists`, `FileStoreProofs` | memory files, to-do lists | modelled, checked, proved |
| `Endpoints`, `ModelChoice`, `Channels`, `PluginLoading`, `ServicesMC`, `ServicesProofs` | configured services | modelled, checked, proved |

To come: the composition of `ChatService` with `FrameRelay`, by the step that
starts a turn.

Runs. One component, or one group of small components, gets one or two passing
runs, each with all the properties of its question on one instance. Components
that share no state share a run when each is small: a variable that never changes
says which of them moves (`view` of `ChatMC`, `service` of `ServicesMC`), so the
state space is the sum of theirs and not the product. The type invariants of all
modules were checked with TLC when the modules were written and are proved for
all of them; the runs are spent on the other properties.
A claim of the repository's text that the code does not keep is defined beside
the properties of its module, under a comment that begins "Refuted" or in
`TaskHistory` and `ChatService`; two of them have a run of their own, and TLC finds a
counterexample to each of the others when it is put into a configuration of its module.

## 3. The task scheduler

### Modules

| Module | Models | Extends |
|---|---|---|
| `TaskTable` | constants, statuses, task records and rows, due-time arithmetic (`models.py`, `cron.py`, `store.py` conversions) | – |
| `Scheduler` | `TaskScheduler` and the store's worker threads | `TaskTable` |
| `Heartbeat` | `Heartbeat`'s cycle and checks | `Scheduler` |
| `TaskService` | the service as the lifespan assembles it: recover, start, stop, exit, crash; specification, fairness, properties | `Heartbeat` |
| `TaskLifecycle` | the abstract specification: one status and "somebody is working on it" per task | – |
| `TaskHistory` | a history variable (slots fired and missed) and the claims of docs and docstrings that need it | `TaskService` |
| `TaskServiceProofs` | the theorems | `TaskService`, TLAPS |

### State and actions against the code

| Variable | Code |
|---|---|
| `task` | `TaskScheduler._tasks`; `due` is `scheduled_time` (once) or `next_run` (cron), `start` is `last_run` |
| `rows` | table `scheduled_tasks`, the fields `recover` reads |
| `writes` | upserts whose worker thread has not committed; `row = {}` until the thread has read the live task object |
| `poll` | where the poll coroutine is suspended, the rest of its due snapshot, the task in hand, the end of its sleep |
| `calls`, `settling`, `inflight` | executions awaiting the runner; executions in `_settle_prompt`'s write or event; the `_inflight` ids |
| `hb` | where the heartbeat is suspended, the cycle's `now`, the tasks left to visit, the snapshot of `_inflight` |
| `phase`, `clock`, `used` | the process's life, time, how much of each bound is used up |

`PollOn` is the heart of the model: the loop's code from the end of one await to
its next, which is the start of `_fire_task` on some task of the snapshot or the
sleep. It does not look at the status of the task again, because the code does
not. `_persist` and `_emit` follow each other with nothing in between and are one
suspension. A store thread is `ThreadWrites` when it is not preempted, and
`ThreadReads` followed by `ThreadCommits` when it is (bounded by
`MaxPreempted`). A crash empties everything but `rows`; `recover` runs before
anything else does and is one step, with any subset of its writes lost.

Three things are less than in the code. A task has one request of the API at a time,
and only while the service is up (`Request`). Of two executions of one task the second
returns only when the first is settled (`ExecutionReturns`). And the table can be
read at a start (`scheduler.py:366-371` logs that it cannot, and goes on with no tasks).

Time is counted in units of the shortest sleep; a cron expression is "every
`Period` units". All thresholds (`Grace`, `Stale`, `Beat`, `LongSleep`) are
constants in the same unit.

### Runs

| Run | Question | Bounds |
|---|---|---|
| `ts_core` | safety of the running service and its refinement of `TaskLifecycle`: a one-shot notify task and a recurring prompt task, loop dying once | horizon 2, no write failures; 1.3 million states |
| `ts_live` | over crashes, restarts and dead loops: is work on a one-shot task begun twice, is a due task served, does RUNNING end though a channel never answers | one notify task, two halts, one loop death; a grace beyond the horizon, so that only a revived loop can serve the task |
| `ts_drain` | does shutdown end, with a failing and reordering store and `missed_policy = run` | one prompt task, one halt, one loop death, one failed write, one preempted thread |

Two tasks are enough in `ts_core` for the snapshot hazards: one in hand and one that waits in
the snapshot. Two occurrences of a cron task fit in the horizons. One death of
the loop reaches every point of a round; a second adds only repetitions of it.
At the horizon (`clock = MaxTime`) sleepers may wake, so no step is lost because
time stopped.

`CHECK_DEADLOCK FALSE` is set because the service may really stop: the bounds on
halts and time end some behaviours in `down` or in a loop that sleeps forever.

### What TLC refutes

`TaskHistory` also states what the repository's text says and the code does not
keep. TLC finds a counterexample to each in the configuration of `ts_live` with
`SPECIFICATION HSpec`, `MaxHalts = 0` and what the table adds:

| Claim | Why it fails | Instance |
|---|---|---|
| `CancelledIsTerminal` | a cancel during the flight is overwritten by the verdict, and a task cancelled after the scan is fired; the design calls CANCELLED terminal | – |
| `SlotsAreNotRefired` | `cron_next_run` advances a task that is in the live loop's snapshot; the loop then fires the future slot and fires it again when it comes | `Tasks = {n1, c1}`, `Cron = {c1}`, `Grace = 0` |
| `RowsFollowMemory` | two upserts of one task commit in the wrong order | `MaxPreempted = 1` |
| `PausedDoesNotFire` | a cron task paused after the scan listed it fires nevertheless, and is PENDING, not PAUSED, afterwards | as for `SlotsAreNotRefired` |
| `OneMissedPerSlot` | with `missed_policy = run`, one overdue slot is declared missed in every cycle | `Tasks` and `Cron` `{c1}`, `Grace = 0`, `Policy = "run"` |
| `ReaperSparesRunners` | the `finally` of one execution discards the id that protects the next execution of the same task | `Tasks`, `Cron` and `Prompt` `{c1}`, `Grace = 0`, `MaxTime = 3` |

### Fairness

`FairSpec` (`HFairSpec` with the history) assumes weak fairness of time, of every asyncio task that is ready
(the poll loop, the heartbeat, each execution), of each caller's worker threads,
of recover, start and exit. asyncio's ready queue is FIFO and its executor's
queue too, so a step that stays enabled is taken; a runner is under
`prompt_timeout_seconds`. Nothing is assumed of requests, deaths, halts or
preemption, nor that a delivery returns, because `on_due_task` has no time-out of
its own. `DueOnceIsServed` therefore has the condition that the loop is out of
deliveries again and again. It is said of the table: a one-shot row that is PENDING and due
is in the end fired, declared missed or cancelled, by the process that wrote it or by a
later one. A crash or a stop that empties the working set does not count. `RunningEnds` needs none, the reaper sees to it.

### What is proved

`TaskServiceProofs` proves, for every set of tasks, every policy, threshold and
bound:

| Theorem | States |
|---|---|
| `TypeCorrect` | `Spec => []TypeOK` |
| `OneWorkerEachHolds` | `Spec => []OneWorkerEach`, of its halves `SingleFlight` (no task is in two flights) and `RunningIsOwned` (a RUNNING one is in one) |
| `VerdictsAreFinalHolds` | `Spec => VerdictsAreFinal` |
| `BacklogIsNotMissedHolds` | `Spec => BacklogIsNotMissed` |
| `Refinement` | `Spec => ImplementsLifecycle` |
| `OnceBeginsOnceHolds` | `HSpec /\ []WritesInOrder => OnceBeginsOnce` |

The argument. `Typed` is `TypeOK` and "inside a round the loop has a task in
hand". `SingleFlight` alone is not inductive: that a hand-off finds no execution
of its task in flight holds because a task of the snapshot is PENDING, PAUSED or
CANCELLED while a task in flight is RUNNING, CANCELLED or FAILED **and** not in
the snapshot. `Flights` states this per task; `Phased` ties the loop, the
heartbeat and the working set to the phase (a dead loop has no snapshot; the
overdue check runs only while the loop is dead, which is why MISSED cannot appear
in a snapshot; the working set is empty before recover). `IInv` is their
conjunction with `RunningIsOwned`. Each action has a lemma; the poll loop's
actions share `PollOnOwned` and `PollSettlesOwned`. `MovedAlive` shows every step
to be, for each task, one of the moves of `TaskLifecycle`; the action properties
and the refinement follow from it. The proofs use the four named assumptions on
the constants and no others; `IInv` was checked with TLC on instances like that
of `ts_core` before it was proved. The theorems also cover what no run does, such
as a scheduler without a prompt runner (`HasRunner = FALSE`).

`OnceBeginsOnce` spans processes, so what it rests on is the table. `OnceInv` says of a
ONCE task: memory is never behind the table, in the sense that a row which is no longer
PENDING is of a task that is not either; while the loop fires the task, RUNNING is in
memory and, unless its write is still under way, in the table; and a task on which
work has begun has such a row and is in no snapshot. A step to the delivery waits for the
write, and recover() leaves no row PENDING that was not. `WritesInOrder` (no write has
failed, no thread is between reading and committing) is an assumption about the
behaviour, and needed: without RUNNING in the table, or with a late thread
that puts PENDING back, the next process fires the task again. The
invariant was checked on a notify and a prompt task with one halt and one death
of the loop (761 341 states).

Only model-checked: the three liveness properties (fairness is out of the
prover's reach here).

## 4. The chat service

### Modules

| Module | Models |
|---|---|
| `ConversationLock` | `concurrency.py`: the fair lock of a conversation, as its queue |
| `PermissionBroker` | `api/permission_broker.py`: one future per open approval request |
| `ChatTurns` | `_run_generation`: the task of one turn, from creation to its `finally` |
| `ChatService` | `websocket_chat`'s handler loop per connection, and the other entries that take the lock; the specification and its properties |
| `ChatServiceMC` | symmetry for TLC |
| `ChatServiceProofs` | the theorems and their proofs |

State and code:

| Variable | Code |
|---|---|
| `turn` | the `asyncio.Task`s; `by` is the connection whose agent clone the turn uses, `cancelled` a cancel that is not yet delivered |
| `gen`, `streams` | `_generation_tasks`, `_turn_streams` |
| `conn` | where a handler is suspended, the turn it awaits, `last_started_task`, and `agent`, the clone's `current_conversation_id` |
| `queue` | the per-conversation lock |
| `pending` | `PermissionBroker._pending`, with the future's result |
| `executed`, `threads`, `stored` | effects: approved tools that were run, checkpoint threads, conversation rows |
| `answers` | history: what users answered to a card they saw |

A turn is `created` by `create_task` and takes its first step later; a cancel in
between means that not even its `finally` runs, so its registration stays (as a
finished task, which every reader of the registry tolerates). Its first step
takes a free lock without suspending. `announcing` is the broadcast of the
approval card: one await per client over a live set, so that the set's size is
compared again; a change makes the iteration raise and the turn fail. The sends
of one broadcast are one suspension. `Message` is everything from the receipt of
a message to the await of the predecessor; `Waited` resumes behind it and, as
in the code, looks at nothing again.

The agent is external: it runs, asks at most `MaxAsks` times, returns or raises.
Frames and their subscribers are the matter of `FrameRelay` (below); clients whose
sends fail are left out.

### Runs

| Run | Question | Bounds |
|---|---|---|
| `ct_core` | safety of turns, approvals, lock and registries; beside them the frames and the stores (below) | two connections, two turns, one other request (run, clear or delete), one conversation, one approval each; 2 million states up to symmetry, of which two thirds belong to the frames and the stores |
| `ct_live` | do turns and handlers come to an end when nobody answers; does a connection's clone stay with the right conversation | one connection, two conversations, two turns, one approval each |
| `cs_qq` | do the turns of a conversation update its checkpoint one at a time, QQ's included | two turns, one conversation |

Two turns and a foreign request give a holder, a waiter and a newcomer at one
lock. Turns are a bound (`Turns`); a message is accepted while one is left
for every handler that is going to need it (`TurnsLeft`). `Guests` bounds
the other requests under way at a time. Connections are used once; a reconnecting client is another one. `CHECK_DEADLOCK FALSE` is set because
a service whose turns are used up may stop.

### What TLC refutes

Claims of comments and docstrings about `ChatService` that the code does not keep.
The instance is that of `ct_live` with `SPECIFICATION Spec` and what the table adds.

| Claim | Why it fails | Instance |
|---|---|---|
| `HandlersCanBeAnswered` | the guards against blocking on a turn that awaits an approval look before the wait only; a turn that asks later blocks the handler that should receive the answer, until the time-out | – |
| `EarlyAnswersCount` | the card is broadcast before the request is registered, and the cache for early answers is never written | – |
| `WorkingTurnIsRegistered` | two handlers behind one turn start one each; the second registration hides the turn that is at work from stop and re-attachment | two connections, one conversation, three turns |
| `OneTurnPerClone` | the `elif` skips the connection's own turn, and two turns share a clone | two connections, three turns |
| `StopSparesOthers` | the fallback of a stop without an id also serves a stop with one | – |
| `DeletedStaysDeleted` | a turn queued behind a deletion writes the deleted checkpoint | two connections, one conversation, `Guests = {g1}` |

### Fairness

`FairSpec` assumes weak fairness of every turn's step, of every handler whose
await is over, of the other requests and of each request's timer (600 s by
default, and a time-out of 0 in the configuration means the default). That the
agent returns rests on the providers' HTTP time-outs and the graph's recursion
limit. Users owe nothing: no message, stop or answer is assumed.

### What is proved

`ChatServiceProofs` proves, for every set of conversations, turns and other
requests, every finite set of connections and every bound on approvals:

| Theorem | States |
|---|---|
| `TypeCorrect` | `Spec => []TypeOK` |
| `OneAtATimeHolds` | `Spec => []OneAtATime` |
| `ToolsNeedConsentHolds` | `Spec => []ToolsNeedConsent` |
| `BusyMeansAskingHolds` | `Spec => []BusyMeansAsking` |
| `StreamsAreLiveHolds` | `Spec => []StreamsAreLive` |
| `FirstVerdictStandsHolds` | `Spec => FirstVerdictStands` |
| `EntriesOutliveOthersHolds` | `Spec => EntriesOutliveOthers` |
| `NotPulledAwayHolds` | `Spec => NotPulledAway` |
| `TurnsStayHomeHolds` | `Spec /\ []OneConnectionEach => []TurnsStayHome` |

The argument. `OneAtATime` follows from "a worker heads his queue", since a queue
has one head. That fact alone is not inductive: a worker that releases the lock
removes the head, so nobody may sit in a queue twice, and a waiter that a cancel
removes must not take another's place, so whoever sits in a queue must be waiting
for that lock and no other. `Locked` is these three facts. `LockJoined`,
`LockLeft`, `LockReleased` and `LockAbandoned` show once for each way of touching a
queue that `Locked` survives, and rest on facts about `Append`, `Tail` and
the removal of one element from a sequence. `Shaped` ties the places where a turn or
a handler stands to the data it needs there (a turn that is under way has a
conversation; an entry of a registry names a turn of that conversation).
`Consented` adds to `BusyMeansAsking` and `ToolsNeedConsent` that an approved
entry has an answer behind it: between the answer and the moment the turn
reads it, only the broker's entry carries the consent. `IInv` is their
conjunction with `TypeOK` and `StreamsAreLive`. The action properties are
shown of each step under `IInv` (`VerdictStep`, `KeptStep`, `SparedStep`).

`TurnsStayHome` takes that no conversation is used on two connections
(`OneConnectionEach`; `OneTurnPerClone` above shows two turns on one clone when one is).
The turns of a connection share one clone of the agent, and its handler points the clone at
a conversation before it starts a turn there; what has to be shown is that no earlier turn
of the connection is still running then. `HomeInv` adds to `IInv`: of the turns of
a connection only the last can be live (`LastOnly`); a handler that waits for
the old turn, or is about to look whether there is one, waits for that last
turn, or it is a turn of another connection that stands in the conversation, which the
hypothesis excludes (`Succeeds`); the entries of the registry are turns of the conversation
they stand under (`Registered`); and a turn that holds its lock finds the clone on its
own conversation (`Pointed`). TLC checked `HomeInv` on two connections, two conversations
and three turns, with the hypothesis as a constraint, before it was proved.

The only assumption is `ChatAssumption` (the sets of names are disjoint where
the code tells their members apart, and the connections, whose number a
broadcast compares, are finite).

Only model-checked: the liveness property `NobodyWaitsForEver` (`TurnsEnd` and `HandlersReturn`).
`StreamsAreLive`, `FirstVerdictStands`, `NotPulledAway` and `TypeOK` hold on the
instance of `ct_core` too; they are proved, so the run does not repeat them.

### The frames of a turn: `FrameRelay`

| Variable | Code |
|---|---|
| `relay` | each turn with its `_TurnStream`: the frames kept so far are the numbers 1 to `frames`, and how the turn ended |
| `subs`, `inbox` | who is subscribed to each stream, and what that subscriber's queue received; the pump's progress is abstracted: what it sent and what it has still to send are one sequence, so an order or a gap shows wherever the pump is |
| `onair` | `_turn_streams` |
| `watcher` | the connections, each with the stream it switched to |
| `wechat` | the conversation whose replies are forwarded to WeChat, if any |
| `heard` | history: a stop, for a watcher that stayed where it was |

Any connection may start a turn at any time, since when it may is `ChatService`'s
matter; events of subagents come at any time; a stop reaches the turn while it
waits for the lock, while it works, while it forwards its reply, or never.
A turn first prepares (`Prepared`, `Fails`: the settings, the agent and its window,
before the inner `try`); an exception there reaches only the `finally`, which ends the
stream (state `failed`) without a done, error or stopped frame.
`RelayKeepsFaith` says that each subscriber has received, without a gap or a
repetition and in order, every frame that the stream keeps, from whenever it
subscribed, then how the turn ended, once, if it had come to ask its agent, and the
end, once and last. Refuted: `WeChatIsTold` (who attaches
while the reply is forwarded to WeChat never hears that the turn is done, and a
stop then adds a second verdict) and `FailureIsTold` (a turn that fails while it prepares
ends without a word of how, so a client that waits for a verdict is told nothing).

`ChatProofs` proves, for every set of connections, turns and conversations and
every bound on frames:

| Theorem | States |
|---|---|
| `RelayTypeCorrect` | `RelaySpec => []RelayTypeOK` |
| `RelayKeepsFaithHolds` | `RelaySpec => []RelayKeepsFaith` |

What is promised speaks of turns that are over and of stops that were answered, so
the induction has to say what is true on the way there (`RelayInv`): whoever is
subscribed has every frame so far in order, and whoever is not has no inbox
(`Served`); until a turn ends nothing tells of its end, but for the answer of a
reply that is being forwarded (`Told`); a connection that waits for its stop to
take effect has cancelled that turn, and what it remembers of having a pump is
still so (`Stopping`), which is why exactly one of the handler and the pump
answers; a stop that was answered was of a turn that is over (`Hears`); a stream that
is registered is of a turn that has not ended (`OnAir`); and a turn in creation
has its connection and conversation, one that is forwarding is of WeChat's
conversation (`Made`). The assumption is `RelayAssumption`: the bound is a natural
number, and "nobody" is nobody.

### What is kept: `ConversationStore`

The rows, messages and trajectory of conversations (`repository/*`), their threads
in the checkpointer and their locks, under turns, prompt tasks, clearing, deletion,
binding, renaming and automatic naming. A request is the list of what it has
still to do (`Turn`, `LockedTurn`, `PromptTurn`, `QQTurn`, `Clear`, `Delete`,
`Bind`), each entry one access to a store; any write may fail the way the code
provides for (logged, or the request gives up). HTTP `/chat` reads the settings of the
conversation before it takes the lock; WebSocket and WeChat after it. A turn may fail
or be stopped at each of its steps that awaits something (`Breaks`, `Stoppable`); a
lock that it holds is given back on the way. If the model may have said something by
then (`Said`), this is stored as an answer and traced, once more if all of it is
stored already: `_run_generation` catches the stop around the whole of `stream()`
(`websocket.py:459-476`). Only turns from WebSocket do so; the other entries keep
nothing, which is one of the two outcomes for every turn here.

One thing is left out: every write runs in a worker thread, and a turn that is
stopped while it waits for one goes on without it. The model has the write over by
then, or not made at all; in the code it may still commit afterwards, in the worst
case after the lock is given back. What is shown below holds of writes that do not.

* `AnswersFollow`: all that a turn leaves in a conversation stands together, and only
  its first message is the user's, wherever turns are stopped.
* `WipedStaysWiped`: no message, thread or event of a turn that a clearing or a
  deletion has wiped comes back.
* `ImplementsDialogue`: the store implements `Dialogue`, which knows no lock,
  request or row: of each conversation the messages, the turns that its thread
  remembers, the turn that has the floor, and those that ever had it. A turn asks
  on a free floor, thinks and answers while it has it, and leaves; messages and
  thread are emptied only while nobody has it. Under the mapping a turn has the floor
  from when its question is written until it gives back the lock (`Floor`, read off
  what the requests have still to do). Each write may be lost, as the code logs and
  goes on.

All three hold for every conversation but QQ's. `QQChannel._handle_message` runs its turns
without the lock, on a conversation that is a row like any other, so `cs_qq` finds
two turns of one conversation at their model at once (`TurnsAreSerial`,
`concurrency.py:3-6`). With QQ on, a behaviour has
`MaxBesideQQ` requests, which is enough for two to meet; otherwise `MaxAccepted`. Also refuted, in the configuration of
`cs_qq` (with `Bindable = {b1}` for the last two): `DeletionIsComplete` (the
trajectory is left to a CASCADE that SQLite is never told to enforce),
`UserNameStays` (the namer looks before it asks the model and not again),
`TasksAreKept` (the dedicated conversation of prompt tasks may have been deleted),
`ModelFits` and `WindowFits` (endpoint, model and window are written and read apart);
and `AnsweredOnce`, for conversations with no turn from QQ: a turn that is stopped
while its answer is traced, or just after, has it twice, the second time with the mark
"生成未完成" that `graph.py:71` has for parts of an answer.

`ChatProofs` proves, for every set of conversations, bindings and
requests and every bound:

| Theorem | States |
|---|---|
| `StoreTypeCorrect` | `StoreSpec => []StoreTypeOK` |
| `AnswersFollowHolds` | `StoreSpec => []AnswersFollow` |
| `WipedStaysWipedHolds` | `StoreSpec => []WipedStaysWiped` |
| `DialogueIsKept` | `StoreSpec => ImplementsDialogue` |

Neither invariant is inductive. That a turn may write behind its own messages
needs that nobody else has written since, hence that whoever may still write
holds the lock; that a wiping is not undone needs that nobody is about to write
for a turn that was wiped. `WorkInv` says this of each request by what it has
still to do: what remains is the end of a program, and what a program does under the
lock it does as its holder (`Planned`); a turn that has not asked yet has
left nothing (`Unbegun`); one that has and may still write has begun (`Begun`), its
messages, if any, are the last ones (`Pending`), and it was not wiped
(`Unwiped`); and behind its deletion of the messages a wiping finds none, later no
trajectory either (`Swept`). `Numbered` says that turns are numbered apart. `IInv`
is their conjunction with `Typed` and the two invariants. What a stop leaves of a
program is sound again (`WhatBreaksOff`, `Broke`). The refinement follows from `IInv`:
whoever has the floor holds the lock (`AskedIs`), so a conversation where somebody
else holds it has a free floor (`FloorAlone`), whoever thinks or answers has it
(`HasFloor`), only a question ever gives it and only the lock takes it away
(`NobodyElseAsks`, `KeepsOn`), and each step is then read off as a move of its conversation, or as
none (`ToldQuestion`, `ToldThought`, `ToldAnswer`, `ToldSweep`, `ToldQuiet`). That no turn has it
twice is `Unbegun`. The assumption is `StoreAssumption`: the bounds are natural numbers, and "no binding"
and "nowhere" are no binding and no conversation.

### One run for three views: `ChatMC`

`ChatService`, `FrameRelay` and `ConversationStore` are views of the same turns that
share no variable here. A behaviour of `ct_core` belongs to one of them, told by
`view`, and leaves the others in their initial state. What this does not show is
an error that needs all three at once; what they owe each other is in their
guards (a turn starts only where `ChatService` lets it, which the other two do not
assume, and so allow more than the code does).


## 5. The agent: its turn, compression, permissions, subagents

### Modules

| Module | Models |
|---|---|
| `Permissions` | `tools/permissions.py` as pure operators: a call is a tool and the class its argument sorts into, a mode one of five; the verdict of the gate and the review of the shell and file tools |
| `Compression` | `agent/compression/*` as pure operators over a sequence of messages: repair of tool pairs, the positions where units and turns begin, heads, the three strategies with their fall-backs, the update of the checkpoint |
| `AgentTurn` | `agent/graph.py` and `nodes.py`: compress, model, gate, tools, resume, stop, the limit of steps, the compression by request and the clearing |
| `Subagents` | `subagents/manager.py`, `types.py` and `tools/collaboration.py` |

`log` is the checkpoint of one conversation. A message has a kind, the turn it
belongs to and, when it is one, the calls it makes or answers; its text is left out,
and whether a message is too long for a strategy, or a summary succeeds, is a
choice. What a node returns is committed when it returns; a new input discards
what was pending; the limit of steps is per invocation (this is how LangGraph,
which is external, is used here). A turn can be stopped wherever the code
awaits. `CutShort` leaves the calls of the model unanswered in the checkpoint,
which is why the view of the next turn has to be repaired.

In `Subagents` `agents` is the manager's table (an ended agent stays in it), `work` the
task of each execution and `caller` a tool call, a `WorkerAgent` or a
`MonitorAgent` that polls it. A cancel marks the agent; its task goes on to
the end of its round, or of the model's call, as in the code. Calls of an answer that
could not be parsed (`invalid_tool_calls`) are left out: the model here only makes
calls that can.

### Runs

| Run | Question | Bounds |
|---|---|---|
| `ag_core` | what the model sees is well formed, what runs was consented to, the order of the checkpoint survives | three turns, two calls in an answer, one round, two modes, two strategies, each strategy in any order with stops and requests |
| `sa_core` | slots, verdicts, orphans; do executions end | three agents, two slots, a tool call, a worker and a monitor, two rounds |

Three turns let a compression see what an earlier compression and an earlier stop
left. `ModesAreOrdered` of `AgentTurn` (a stricter mode never lets more happen, for all
modes and calls) holds on the same instance; it says something of a pure function
and has been left to that.

TLC refutes, in the configuration of `ag_core`: `OneSummary` (a system message
retrieved for a turn follows the summary, which then is not taken out of the
head), `NothingUnsaid` (what precedes the first question is neither kept nor
summarised) and, with `MaxRounds = 2`, `OneBudget` (a resumed invocation counts its
steps from zero). In that of `sa_core`: `SlotsAreForTheLive` (ended agents keep their
slots until nobody may delegate) and `CancelledStays` (a cancelled agent's task
goes on and overwrites the status).

### What is proved

| Theorem | States |
|---|---|
| `AgentTurnProofs!TypeCorrect` | `Spec => []Typed` (everything but the log) |
| `AgentTurnProofs!LogInvAlways` | `Spec => []LogInv`, the log's type and the invariant of the next three |
| `AgentTurnProofs!ModelSeesPairsHolds` | `Spec => []ModelSeesPairs` |
| `AgentTurnProofs!QuestionStandsHolds` | `Spec => []QuestionStands` |
| `AgentTurnProofs!ChronologicalHolds` | `Spec => []Chronological` |
| `AgentTurnProofs!RunsByConsentHolds` | `Spec => []RunsByConsent` |
| `AgentTurnProofs!ModesAreOrderedHolds` | `Spec => []ModesAreOrdered` |
| `AgentTurnProofs!LadderIsMonotoneHolds`, `CeilingOnlyLowersHolds`, `GateAgreesWithReviewHolds` | of the pure functions of `Permissions`: a higher mode grants no less, the ceiling of unattended work grants no more, and what the gate lets through the tool does not refuse |
| `SubagentsProofs!TypeCorrect` | `Spec => []TypeOK` |
| `SubagentsProofs!WorkIsBoundedHolds` | `Spec => []WorkIsBounded` |
| `SubagentsProofs!VerdictStandsHolds` | `Spec => VerdictStands` |
| `SubagentsProofs!NoOrphansHolds` | `Spec => NoOrphans` |

`RunsByConsent` is inductive together with its types and two facts about where a
turn stands: outside the node that runs tools nothing of the current answer has
run, and a call is approved only in a turn that has an approver. The facts about
`Permissions` are case splits over the tools' classes and the modes; `ModesAreOrdered`
follows from them for the mode and the workspace of any turn.

For `Subagents`, `Placed` ties the table to the tasks (an agent has a task exactly if
it is in the table, and the task of one that has completed or failed is over),
`Polled` says that a poll is of an agent in the table, and `Bounded` that the table
has no more than `MaxAgents` entries. Ended agents keep their slot, so the table is
what is bounded, and the working tasks are a part of it.
`SubagentsAssumption`: the ids are finite in number, and a monitor is neither a tool
call nor a worker.

The three properties of the log rest on one, `Good`: the messages are in the order of
their turns, the model's in the order of its rounds, an answer stands behind the very
call it is for with nothing but answers between, no call is answered twice, and the
head of the session comes first. It says nothing of calls without an answer: a turn
that is stopped leaves them, and everything has to work on such logs. The proof has
three layers.

* Sequences. `FlattenIs` says of `FlattenSeq`, which the library defines by
  recursion, that its result is the given sequences one behind the other: each place
  of the result is a place of one of them, in order (`Laid`). The induction is by the least
  position at which the fold would go wrong (`GrownIs`, from the well-foundedness of the
  natural numbers). `SiftIs` and `RepairedIs` follow: what is kept, and what
  stands for one message once it is repaired, with its placeholders.
* Operators, each for any good log: `PairingIs` (the repaired log is good and paired, begins
  with the same message and ends with the same question), `SlidingIs` and
  `SummarisedIs` (a strategy cuts only where no call loses its answers, `CleanCut`; a
  summary takes its place in the order, `InsertedIs`; the first and the last message
  stay), `ReplaceIs` (so does the update of the checkpoint, whether it only removes or
  writes anew), `InitialIs`, `AppendIs` and `AnsweredIs` (what turns add). `Derived` says that
  nothing they make is of a turn, or of a round of the model, that was not there.
* States. `LogInv` adds to `Good` where the turn stands: before the model is asked all
  its answers of this turn are of earlier rounds; while calls wait the last message is
  the one that makes them; until the entry node is done the last message is the
  question; and between reading and writing a compression on request, nothing else has
  changed the log. The last is the lock's doing, and without it (`LockedByTurns`, a
  mutant) `Chronological` fails.

`Compression` says everything by positions (`Units` and `Turns` are where units and turns
begin), so that all of this can be said without a recursion over lists of lists; TLC
found these definitions equal, on all logs of up to five messages over ten messages,
to a form that groups and flattens lists as the code does.

With TLC only: the liveness of executions.

### Fairness

`Subagents` assumes weak fairness of each execution (models and tools answer, by
their time-outs) and of each poll; nothing of requests and cancels. `AgentTurn` states
no liveness: what ends a turn is section 4's matter.

## 6. Knowledge bases

`KnowledgeBases` takes an upload from the request to its last file: saving,
waiting for a slot, looking for exact and near twins, embedding and storing in
batches, fingerprints, the record. `rows`, `vectors` and `prints` are the three stores;
`gen` tells the collection that a deleted knowledge base had from the one made
anew; `tasks`, `known` and `outcome` are the upload manager. Any of the calls in
`Faults` may fail; an upload may be cancelled, removed, or lose its knowledge base
between any two steps.

| Property of `rg_core` | Says |
|---|---|
| `NothingHalfStored` | a file that was skipped, stopped or failed has left no record and no fingerprint, and no vector unless the collection failed to take its batches back |
| `RecordedIsSearchable` | when a document gets its record, its chunks can be found |
| `EveryUploadEnds` | an upload ends, and its temporary files are gone then |

The instance: a page; and a batch of the page's near twin, a file that shares a
chunk with that one, and the page's exact twin, in the other knowledge base, with
one deletion of a knowledge base and one slot. With one slot the second upload
waits, and is cancelled there too; the twin, the sharer and the near twin are the
three ways in which a file displaces what another has stored.

Refuted: `VectorsHaveRecords` (a near twin in another knowledge base loses its record and
keeps its vectors, since they are deleted through the collection of the new document); and
`AllOrNothing`, what `indexer.py:411` and `:431` say of every failure: `_rollback_added`
(`indexer.py:430-437`) only logs a collection that refuses to delete, so the chunks of a file
that failed or was stopped stay and are found (`StaysBehind`, with `"delete"` in `Faults`; such
a file is "left").

What the model says of the code's edges: a record that cannot be created leaves vectors
without one (`unrecorded`, which `NothingHalfStored` leaves out); fingerprints carry
the knowledge base "0" always, so the deletion of another one removes none;
deleting the default one wipes its data and is refused afterwards. A crash in the middle of
an upload is not modelled: tasks live in memory and the code recovers nothing. Nor is a
request that is cancelled while it saves its files, which leaves them (`rag.py:186`, `:618`).
The vector store and the embedder are external: a collection is a set of chunks, and a batch
is stored or not, but for one that fails and cannot be taken back, of which any part may
stay. `Replaces` makes one step of the three deletions of a near twin, which run in one
worker thread without an await; it may end after the first of them.

Fairness: the event loop runs what is ready and worker threads return
(`WF_vars(Run(t))`).

`KnowledgeBasesProofs` proves, for all sequences of uploads and of files in them and
for any texts, bases, faults and bounds:

| Theorem | States |
|---|---|
| `TypeCorrect` | `Spec => []Typed` |
| `NothingHalfStoredHolds` | `Spec => []NothingHalfStored` |
| `RecordedIsSearchableHolds` | `MaxConcurrent = 1` implies `Spec => RecordedIsSearchable` |

`IInv` is `Typed` (every stored chunk is one of its document's, too), `AtFile`
(the files from the one that a task is at have no outcome yet, and how many batches
of that one are stored), `InStores` (where a document in the middle of its storing
cannot be yet) and `Settled` (a file whose outcome
is that it was skipped, stopped or in error is in no store, and one that was left
is in the collections only). `NothingHalfStored`
is a part of it. `RecordedIsSearchable` needs more, `SearchInv`: one task at most is past the
wait for a slot (`Alone`), and the chunks of its document that were embedded are
in the collection (`Found`). Its condition is the limit that the application
builds its manager with (`app.py:556`, `upload_tasks.py:70`) and is
needed: with two uploads at a time one may displace, as a near twin, chunks
whose document has no record yet. `Typed` leaves out that `known`, the list the
manager shows, is a list without repetitions of bounded length; that takes an
induction over `SelectSeq`. `EveryUploadEnds` stays with TLC.

## 7. Memory and to-do lists

Both are files, changed under `filestore`'s locks and replaced through a sibling file.

`MemoryStore` (`mm_core`): two writers, each the extraction of a turn or the
wiping of all data. An extraction reads the index, reads up to `TopK` documents in
full (each under its lock), asks the model, validates what it answers, takes the locks
of the document and of index.md in the order of their paths, checks the limit,
writes, scans and rewrites index.md. `LibraryInOrder`: whoever looks at index.md with its lock free
finds what the documents say, unless writing it failed since, and the
library is within its limit. `NoRing`: writers never wait for one another in a ring,
which is what `FileLocks.locked` sorts its keys for. `EveryWriterEnds`: everyone who
waits gets the locks, also after a writer that failed.
Two entries, one whose path sorts before index.md and one behind it, are what the
order of locks needs; a limit of one makes every second write meet it. Fairness:
tasks run; asyncio's locks are first in, first out, which is strong fairness of who
waits. The limit of the remember tool, which the clones of an agent share
(`graph.py:421-426`), and the ranking of documents are left out. Refuted:
`ReportedIsStored` (an extraction returns its decision as done when the
write was refused or failed).

`FileStoreProofs` is about both modules. Of `MemoryStore` it proves `TypeCorrect`
(`MemorySpec => []MemoryTypeOK`), `LibraryInOrderHolds`
(`MemorySpec => []LibraryInOrder`) and `NoRingHolds` (`MemorySpec => []NoRing`) for all
writers, entries, facts and limits. Whoever changes a document holds index.md's lock until it has
rewritten index.md: `HoldsIndex` says so of each writer between its locks and their
release, `Scanned` that what it is about to write as the index is what the
documents say, `Fits` that a writer past the check of the limit has room, `Bounded` that
the library is within the limit. With these, the index can differ from the
documents only while somebody holds the lock, or after a write of it failed
(`lagging`).

`NoRing` needs to know what a waiting writer holds (`Orderly`): nothing, or one document
before index.md while it waits for index.md, or index.md while it waits for a
document behind it. In a ring somebody would wait for a document behind index.md that
another of the ring holds, but who holds such a document has all that it asked
for and waits no more. Two writers are the smallest ring and what the run has; the theorem is
about rings of any size. `MemoryAssumption` is the only assumption. `EveryWriterEnds`
stays with TLC: that a lock is given back and that who waits gets it is fairness.

`TodoLists` (in `sv_core` and `td_lost`): two requests on todolist.md or notes.md. A
file is the sequence of its headings and entries: in todolist.md a group is a region, in
notes.md a heading is a field of the notes below it and is written anew. Reading,
staging and publishing are steps, the sibling file is shared, and any write may
fail. `MovesOnlyTheNamed`: a rewrite moves only what its request names.
`NoNoteIsLost`: a rewrite of notes.md replaces the text it read. `NoItemIsLost`, which the code
promises of todolist.md too, is refuted by `td_lost`: `delete_group` writes after it has released
the lock. Also refuted: `NewItemsStayUngrouped` (an item added behind a group is in it).
Four lines, two ids and two groups make every region empty, full and between two
others; with `Written = {g}` (a note whose own text looks like a heading)
`MovesOnlyTheNamed` fails, since the parser takes that line for one. An item of todolist.md
whose text has a line break followed by `# x` puts a heading into that file in the same way;
`Written` is of notes only, and items here are single lines. Reads that fail
with an OSError return an empty text in the code; the model assumes that they do not
fail.

For all requests, items, groups and lengths of files `FileStoreProofs` proves:

| Theorem | States |
|---|---|
| `TodoTypeCorrect` | `TodoSpec => []TodoTypeOK` |
| `NoNoteIsLostHolds` | `TodoSpec => []NoNoteIsLost` |
| `TodoFilesAlways` | `TodoSpec => [](NoHeadingsInNotes => TodoFiles)`, the invariant of the next |
| `MovesOnlyTheNamedHolds` | `TodoSpec => []((kind = "notes" => Written = {}) => MovesOnlyTheNamed)` |

`NoNoteIsLost` rests on `TodoInv`: a request between reading and replacing notes.md holds
its lock, and what it read is what the file says. `MovesOnlyTheNamed` compares what a
request writes with what it read. It holds of one rewrite only if what was read is
in order, and `TodoFiles` says that it always is, also in a sibling file that a
restart or another request left: no line of todolist.md occurs twice
(`Distinctly`; two equal headings would make the region of a group two regions), and in
notes.md no note occurs twice and none without a group stands below one that has a group (`Tidy`;
reading would give it to that group). For notes.md this takes the condition on
`Written` that the refutation above shows to be needed; for todolist.md there is none.

The proof has three layers. Where each line of a result is from: `SplicedFrom`,
`RemovedFrom`, and `LinesAtIs`, by which the lines at some places are those lines, in
their order and none left out. What that does to groups: a line is `Under` a group if the nearest
heading above it is that group's, and whatever puts in, takes out or leaves out lines
keeps every line under its group as long as the group's heading stays and no other heading comes
between (`UnderCarried`). In notes.md it is `RereadIs`, that writing and reading a
tidy file changes nothing, and `MayStand`, where a note can be put in. Last, each operation
(`ItemsAfterIs`, `NotesAfterIs`): the items afterwards, and where each is. `TodoAssumption` is the only
assumption: the values for "no name", "nobody" and "a blank note" are not names,
requests or items. So that this could be proved, `TodoLists` speaks of the lines at a set
of places (`LinesAt`) and of the last heading up to a place, where the code loops;
TLC found both equal to the forms with loops, on all files of up to four lines.

## 8. Services that are configured

`ServicesMC` checks five modules that share no state in one run, `sv_core`; `service`
says which of them a behaviour is of.

| Module | Code | State | Properties in `sv_core` |
|---|---|---|---|
| `Endpoints` | `llm/endpoint_manager.py`, its routes, the table | `row`, `listed`, and what each request is at | `OneActiveAlone`: without overlapping requests at most one endpoint is marked |
| `ModelChoice` | `llm/preset_manager.py`, `swap_llm_provider`, the lifespan's restore | presets and their index, the key, what the agent uses, the configuration in memory, what is stored where, reloads | `SavedTogether`: the provider and the model in the table are of one swap, and `config.yaml` has the same unless a reload was under way together with another request; `PresetsInOrder`: one marked preset, and it is what a restart restores |
| `Channels` | `wechat_channel.py`, `wechat_qrcode.py`, `qq_channel.py`, `swap_channel`, the lifespan | configuration in memory and table, credentials in files, channel objects, the swap lock, reloads | `NoStrayLoop`: whoever polls is the channel in use with the configured token, and is enabled while requests come one by one and no write fails; `LoginStands`: the last login is what a restart comes back with, until a PUT names another bot or token |
| `PluginLoading` | `plugins/*` | degrees and queue of the resolver, what is loaded, what failed | `LoadedAsDeclared`: after everything required, once, and nothing left out without a cause |
| `TodoLists` | section 7 | | `MovesOnlyTheNamed`, `NoNoteIsLost` |

Every read and write of the configuration table is a step, and each may fail and
with it the request. Only swaps take a lock: POST `/config/reload` takes none. It reads the
table and then lays what it has read over the configuration in memory (`Rereads` and
`LaysOver`, `Reloads` and `Overlays`), which the swap of a channel writes to `config.yaml`
(`ChannelPersists`). The body of PUT `/config/channels/wechat` may name a bot and a token of its own
(`PutBodies`), of which no credentials file is written. Two requests at a time, two
endpoints (presets, bots, tokens) and all dependencies of at most three among
three plugins, one of them missing, are where these meet; `MaxRequests` and `MaxSwaps` bound how many
requests and restarts a behaviour has. The run keeps to a single message per
poll of WeChat. `CHECK_DEADLOCK FALSE`, because those bounds end behaviours.

Refuted in the configuration of `sv_core` (`OptionalIsOptional` in one of `PluginLoading` alone):

| Claim | Why it fails |
|---|---|
| `OneActivePair` | activations that overlap both clear before either marks |
| `IndexIsComplete` | two creations or deletions read and write the same index |
| `RestoredIsMarked` | an update that sets or clears the mark leaves the key where it was |
| `FileTogether` | a reload that reads the table in the middle of a swap leaves two swaps in memory, and the next swap of a channel writes them to `config.yaml` |
| `EnabledWhilePolling` | a reload after a failed write, or across a swap, says "disabled" while the channel polls on |
| `BaseIsOfProvider` | a base URL stays with the next provider, which has none |
| `MessagesGoToClawbot` | with QQ on, the shared agent's conversation is QQ's when WeChat's messages run |
| `WiredIsCurrent` | the agent and the dispatcher keep the channel they were given at the start |
| `OneQQClient` | a client whose closing fails goes on beside the new one |
| `OptionalIsOptional` | an optional dependency counts in the order, so in a cycle it keeps a plugin out |
| `RequirementsFirstAlways` | the application gives its manager the sandboxed loader, which goes by name |

Further edges that the model follows: an update of the active preset with `is_active`
swaps to the old settings and stores the new ones; a start prefers the preset over an
endpoint activated later, and restores an endpoint without storing it; WeChat's cursor
lives in memory and moves on before the messages of its batch are processed. Left out are the
base URL of the configuration in memory, which reloads overwrite as well, and the fields of
`config.yaml` for channels, which a start finds overlaid by the table.

### What is proved

`ServicesProofs` is about `Endpoints`, `ModelChoice`, `Channels` and
`PluginLoading`. The modules share no variable, so each has an invariant of its own.

| Theorem | States |
|---|---|
| `EndpointTypeCorrect`, `ChannelTypeCorrect`, `ModelTypeCorrect`, `PluginTypeCorrect` | the type invariants |
| `OneActiveAloneHolds` | `EndpointSpec => []OneActiveAlone` |
| `NoStrayLoopHolds`, `LoginStandsHolds` | `ChannelSpec => []NoStrayLoop`, `ChannelSpec => []LoginStands` |
| `SavedTogetherHolds`, `PresetsInOrderHolds` | `ModelSpec => []SavedTogether`, `ModelSpec => []PresetsInOrder` |
| `LoadedAsDeclaredHolds` | `PluginSpec => []LoadedAsDeclared` |

* `EndpointInv`: while requests have not overlapped (`OneByOne`), the request under way
  finds every marked endpoint among those it has still to look at or to wipe
  (`Marking`), and whatever is saved is in the index, but for the one it is adding (`Listing`).
* `ChannelInv`: what a request has still to do is the end of one of the three programs, and
  a swap that has taken its first step holds the lock (`Planned`); a start
  of the application is alone (`BootAlone`); a channel that polls is the one in use,
  none polls between the stop and the start of a swap, and at all other times the one
  that polls has the configured token (`LoopInv`): a reload overlays only whether WeChat is
  enabled and its bot. `AloneInv` says when two requests are at work. While none has met
  another and no write has failed, the table and the memory agree on "enabled" but for the swap that is
  about to write it, and a reload has read what the table says (`TableInv`); and
  `LoginInv` says of the request under way which of credentials file, table and
  configuration have the last login already, until a PUT names another bot or token
  (`past.named`).
* `ModelInv`: each request has what the rest of its program needs (`Equipped`), and the
  holder of the lock is the swap under way, with those of its writes done
  that are behind it (`Swapping`); when the lock is free and nothing failed, the table
  has one swap (`TableTogether`). `MemInv`: while nothing failed and no reload met
  another request (`Untroubled`), memory and `config.yaml` agree, and each differs from the table by no
  more than what the swap under way has still to write (`InFile`), so a channel swap that
  saves the memory changes nothing. `PresetInv`: at each step of a request that is
  alone, which presets may have the mark.
* `PluginInv`: while the resolver runs (`Resolving`), the degree of a plugin is the
  number of its dependencies that are not in the order yet, so it is zero
  exactly for those in the order or the queue, no plugin is in the two of them twice, and the
  dependencies of whatever is in the order stand before it. While plugins are loaded
  (`LoadingGoesOn`), what is left is the rest of the plan, and each plugin before it was
  loaded, has failed or lacks something it requires. That none is on a cycle
  (`NoneOnCycles`) is by the least place in the order of such a plugin, which is why
  `LeastOf` is there; that none is forgotten, by the plugins that the queue never reached:
  each of them waits for another of them.

The assumptions are the named ones of the modules: lists of models and the directory
of plugins are sequences, the latter without repetition, bounds are natural numbers, and the
values for "none" are none of the values. Of `TodoLists`, section 7 says what is proved.

## 9. Not modelled

* Skills, backup, security, notifications: single calls without an await between what
  they read and write, or (backup, notifications' subscribers) without a caller in
  the application. Command line and frontend are the environment.
* Providers (`llm/*.py` beside the managers), the wire formats of iLink and botpy,
  LangGraph, Chroma, SQLite and the operating system are external: what they
  answer is a choice, that they may fail is modelled.
* Search, retrieval, pricing, statistics, lists and pages: reads.
* Parsers of free text (`time_parser.py`, prompts, splitting of documents, the imitated tool
  calls of a model): their result is an input.
* Liveness of turns under the whole application, with the agent, its tools and the
  model each in detail: sections 4 and 5 each assume of the other that it answers.

What is proved for every value of the constants is listed at the end of sections 3 to 8.
Every invariant that a passing run checks is a theorem. Left to TLC on the instances above:
all liveness, since the prover here reasons neither about fairness nor about ENABLED.
