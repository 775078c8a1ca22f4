# Formal models of missbot

Missbot is one Python `asyncio` program with several front ends over one language-model agent: a
Misskey bot, a Nostr bot, an ACP agent for editors, and a hosted agent for Buzz communities. This
directory holds TLA+ models of it, the TLC configurations that check them on small instances, and
TLAPS proofs of what matters most for instances of any size. `PROJECT.json` maps every definition
to the lines it models.

The program has no threads of its own in the parts modelled here: whatever runs between two
`await`s of one event loop is one step of a model, and so is one SQLite transaction where a crash
can separate it from the next.

## Inventory

| component | state | operations | talks to | hard behaviours |
|---|---|---|---|---|
| Buzz store (`buzz/store.py`) | SQLite tables `communities`, `inbox`, `history` | provision, profile, activate, deactivate, enqueue, next_event, outbox, finish, abandon | called by the runner and the service | a crash between two transactions, three limits, dedup record that forgets |
| Buzz runner (`buzz/runner.py`) | `wake`, `turn`, `channel`, `conversation`, `stopping` | start, on_event, work, process, interrupt, close | store, relay, chat agent | serial lane against deliveries, interrupts, disconnections and crashes |
| Buzz relay transport (`buzz/transport.py`) | socket, operation lock, pending query, pending acknowledgement, readiness events, channels | run, membership task, query, publish, wait_ready, aclose | relay over WebSocket and HTTP, runner's callback | reconnection and cancellation under one operation lock, late OK and EOSE, a roster that changes while it is read |
| Hosted Buzz service (`buzz/service.py`) | runner per community, lock, rows of `communities` | provision, activate, profile, remove, interrupt, status, start, close | store, runner, relay | management calls of several clients, each of which may be cut off after 60 s |
| Management server (`buzz/server.py`) | number of clients | authenticate, one call at a time per client | service | deadlines that cancel a call at any await |
| ACP agent and sessions (`acp/agent.py`, `acp/session.py`) | sessions, in-flight task, cancelled flag, history, prompt slots | new_session, prompt, cancel, close_session | chat agent, ACP connection | cancel and close at any await of a prompt, shared slots |
| ACP WebSocket bridge (`acp/ws.py`) | connection count, output queue, sender task, error and closed flags | admit, authenticate, write, drain, abort, aclose, sender loop | SDK, WebSocket | backpressure, overflow, failure and close racing the sender |
| Misskey bot (`bot.py`) | handler tasks, notes in process, recent notes, auto-reply time | mention, timeline note, auto post | Misskey API, chat agent | one note on two channels, capacity, ambiguous POST |
| Nostr bot and transport (`nostr.py`, `nostr_transport.py`) | pending and recent events, handler tasks | on_event, handle, publish, profile | relays, chat agent | duplicates from several relays, capacity, ambiguous publication |
| Chat agent (`ai.py`) | scoring task, cooldown in Redis, image and poll slots of a run, recent posts | run, run_auto, scoring, retention | models, tools, memory, Redis | parallel tool calls, concurrent scoring of one author, cancellation beside a background task |
| Memory (`memory.py`) | user profiles at the Hindsight service | recall, retain, profile upkeep | Hindsight | concurrent creation and refresh of one profile |
| Tools and social credit (`tools.py`, `scoring.py`) | score, history, leaderboard in Redis | adjust, get, automatic score | Redis | an increment and a pipeline that do not commit together |
| HTTP client (`api.py`) | one shared client | request, configure, close | Misskey API | which requests may be sent again |
| Image generation (`imagegen.py`) | none | generate | image provider | one paid request, many ways to no image |
| NIP-05, media guard, MCP, configuration, command line, ACP identity and entry points, desktop plugin | none or start-up only | | | data handling without shared state |

What makes each correct, in a line:

* **Store and runner**: a message is answered at most once for each time it is admitted, with the
  reply that was written to the outbox first; only accepted replies are remembered; the lane never
  sleeps over work, works oldest first, and settles every message in the end; tables stay bounded.
* **Relay transport**: an acknowledgement or a query result belongs to the operation that waits
  for it; `wait_ready` is never true without a live subscription whose replay is complete; the
  subscription comes to follow the roster, and no operation keeps the lock.
* **Service**: a lane runs only for an active community, ownership never changes, a failed
  activation leaves nothing behind, a removal drains before it clears, every call returns.
* **ACP**: one prompt per session, each answered exactly once; history is the conversation the
  model saw; slots and sessions are never leaked.
* **Misskey, Nostr**: one handler per message at a time, one reply per message unless a
  publication was ambiguous, and no message lost except where the code says it drops it.
* **WebSocket bridge**: the close sentinel always fits; a sender that finished sent everything, in
  order; `drain()` returns; a connection whose output failed ends.
* **Chat turns, social credit**: one automatic score per author and cooldown, no change of a score
  unaccounted for, nothing retained by a failed turn, nothing left running by a reply.
* **Autonomous posts**: one paid image, nothing empty or malformed published, one post per run.

## Modules

| module | models | kind |
|---|---|---|
| `BuzzStore` | `buzz/store.py`: the rows and columns of one community, each SQLite transaction an operator | state and transactions, no next-state relation of its own |
| `BuzzDelivery` | `buzz/runner.py` over `BuzzStore`, the connection of `buzz/transport.py` as the runner sees it, process stops | specification |
| `ReplyPromise` | what `BuzzDelivery` promises a member of the community | abstract specification |
| `BuzzService` | `buzz/service.py` under the deadline of `buzz/server.py`: the lifecycle of one community | specification |
| `MisskeyNotes` | `bot.py`: the handlers of incoming notes and the automatic reply's time | specification |
| `AcpSessions` | `acp/agent.py`, `acp/session.py`: prompts, cancels and closes of sessions over the connections of `acp/ws.py` | specification |
| `NostrMentions` | `nostr.py` over `nostr_transport.py`: the handlers of mentions, the walk up a thread and the reply | specification |
| `BuzzRelay` | `buzz/transport.py`: connection, operation lock, queries, publications, the membership task | specification |
| `ChatTurns` | `ai.py` (`run`), `tools.py`, `scoring.py`: turns of one author, their scoring task and tool calls over Redis | specification |
| `AutoPost` | `ai.py` (`run_auto`), `imagegen.py`, the post loops of `bot.py` and `nostr.py`, the replay rule of `api.py` | specification |
| `AcpWriter` | `acp/ws.py`: the handler of a connection and its output transport | specification |
| `MC...` of each specification | the constants of the instances below, initial states and symmetry | for TLC |
| `BuzzDeliveryProofs`, `BuzzRelayProofs`, `BuzzServiceProofs`, `AcpSessionsProofs`, `AcpWriterProofs`, `MisskeyNotesProofs`, `NostrMentionsProofs` | lemmas and theorems about the specification of that name | for TLAPS |
| `ChatAgentProofs` | lemmas and theorems about `AutoPost` and `ChatTurns` | for TLAPS |

The specifications meet at the calls they make: `BuzzDelivery` and `BuzzService` take from
`BuzzRelay` a connection that becomes ready, is lost, and confirms an event only once the relay has
it; `BuzzDelivery`, `AcpSessions`, `MisskeyNotes` and `NostrMentions` take from `ChatTurns` a turn
that ends with a reply, without one, or fails; `AcpSessions` sees a lost connection where
`AcpWriter` closes it.

The community is the unit: runners of different communities share no state but the agent, the
database file (whose statements all say `WHERE community=?`) and the service's lock.

### BuzzStore and BuzzDelivery

`state[e]` is the `state` column of the inbox row of event `e` (`"absent"` without a row),
`outgoing[e]` the column of that name: NULL, the empty object that stands for NO_REPLY, or the
number of the signed reply. The four columns `conversation`, `author`, `reply`, `outgoing` of an
unfinished row are written and cleared together, so one variable stands for them. The code orders
rows by `(received, rowid)`; the model keeps for each row the set of rows that came before,
`older[e]`, which gives the same order without a clock. It assumes that `time.time()` does not run
backwards. `finish` prunes finished rows and history rows exactly as its SQL does (`Newest`).

`phase` is the await at which `work()` and the `process()` it waits for are suspended: scanning,
waiting for `wake`, `wait_ready`, the roster query, the score, the generation, the publication and
its acknowledgement. `snapshot` is the row as `next_event` read it, which is what `process`
decides by; `WriteAhead` says that it still agrees with the row. `link` is the connection: down,
authenticated, or ready after EOSE. `sent` is what was ever written to a socket, `sentHere` what
this runner wrote, `stored` what the relay has kept, at once or long after the sender gave up.
`signed`, `admitted` and `torn` are history variables that count replies stored, admissions to the
inbox and replies erased by an `abandon` that a crash cut in half.

| action | code |
|---|---|
| `Start`, `Activate`, `Remove`, `Halt` | `BuzzRunner.start`, the last step of a first activation, a removal after the drain, `close()` or a crash |
| `Connect`, `Subscribe`, `Resubscribe`, `Disconnect` | one turn of `BuzzRelay.run`, `_refresh_channels`, `_disconnected` |
| `Deliver`, `RelayStore` | `on_event` with `enqueue`, for live events and replays; the relay's own database |
| `Scan`, `Woken`, `NotReady`, `Ready` | the loop of `work()` up to `process` and the branch for a row that has its reply |
| `Ignore`, `Admit`, `StoreReply`, `NoReply` | the checks of `process` and its two outcomes |
| `Transmit`, `RelayOk`, `Confirm` | `publish_event` and the `finish` after it |
| `FailTurn`, `Interrupt` | the two `abandon` branches of `work()` |
| `TornNoReply`, `TornAbandon` | a process that stops between the two transactions of NO_REPLY and of `abandon()` |

What a reply says, who asked, the thread root, the display name cache and the score are data the
properties do not tell apart: a check of `process` may go either way.

### ReplyPromise

Four variables: the messages waiting for an outcome, the number of replies promised for each, the
reply promised now, the replies told to the relay. `BuzzDelivery` implements it with the
unfinished rows as open messages, `outgoing` as the promise and `sent` as what was told
(`ImplementsPromise`, checked and proved). Its one action that a reader may find odd is `Drop`: a
promise forgotten with its message left open. It is there because of `TornAbandon`; without it the
implementation fails, which is the finding below.

### BuzzService

The row of `communities` (`known`, `active`, `owner`, `auth`); `lane`, the authorization with
which the runner in `runners` was created; `ending`, runners out of that table with tasks that
still run; `held`, the caller inside `self.lock`; for each caller the await it is suspended at,
the operation, the authorization it brought, `was_active`, and whether its deadline has fired.
`shown` is the authorization in the profile at the Buzz relay. What a call does between two awaits
is one action (`Provision`, `Refuse`, `Remove`, `Removed`, `CutOff`, `Activate`, `Edit`,
`RelayReady`, `Finish`, `Fail`, `Undone`).

`Expire` is `asyncio.timeout(60)`: it cancels the call once, wherever it is. A call that waits for
the lock is gone at once. At `wait_ready` or in `_profile` the cancellation runs through
`except BaseException` (`Unwind`), which awaits again for a first activation. A call that is
draining a runner is in `asyncio.gather`, whose cancellation cancels the tasks a second time and
still waits for all of them: it leaves only when they have ended, and then without having done
what comes after the drain (`CutOff`). The lock may be granted in any order, where asyncio grants it first
come, first served: more behaviours than the code has.

### MisskeyNotes

A slot of `Handler` is one of the `max_concurrent_handlers` background tasks; `pc` is the await at
which its task is suspended: not yet begun, waiting for another task's future, saving the claimed
time to Redis, in `on_mention`, or in `notes/create`. `owner` is `_note_processing`, `verdict` the
result of the future a waiting task awaits, which it may act on later than it was set. `recent` is
the deque of remembered note ids, with the set beside it (they always agree, so one variable
stands for both). `last`, `delay` and `saved` are the claimed time, the next delay and the value
in Redis. `posted`, `handled`, `unsure`, `forgotten` and `spoke` are history.

| action | code |
|---|---|
| `Deliver` | `_handle_messages` with `_spawn_background_task`; a note without a free slot changes nothing |
| `Duplicate`, `Join`, `Relieved`, `Mention` | the loop of `_process_note_event`: remembered, in another task's hand, that task succeeded, taken |
| `NotDue`, `Claim`, `Saved`, `SaveFails` | `on_auto_reply` up to its `return False`, to the await of Redis, and on from it |
| `Ignore`, `RunFails`, `Send` | `on_mention`: no reply, an exception, a reply |
| `Posted`, `Refused`, `Lost` | `send_note`: created, refused, no readable answer |
| `Restart` | `run()` again after a stop or crash, with what Redis holds |

`_note_processing_lock` is never held at an await, so it never makes a task wait and is left out.
`time.time()` is assumed not to run backwards. Redis is assumed to take two writes in the order of
their claims (`InTurn`): they use a connection each, but are a whole delay, minutes, apart.

### AcpSessions

Sessions are in one registry and prompts in one semaphore that all connections share; `home` and
`open` give each adapter's `_session_ids` as its part of the registry. `task`, `cancelled` and
`history` are the fields of `AcpSession`, which outlives its place in the registry. `pc` is the
await at which `prompt()` is suspended: the semaphore, the score, `agent.run`, the session update.
`doomed` is a `Task.cancel()` that has not reached the task yet: nothing else can happen to it
first. The score is looked up in every prompt; without a threshold that await is just not there.

| action | code |
|---|---|
| `NewSession`, `Cancel` | `new_session`, `cancel` |
| `Close`, `Closed`, `Sweep`, `Down` | `close_session` up to its await of the prompt and after it; the same from `aclose`; the end of the handler |
| `Begin`, `GetSlot`, `Refuse`, `Run` | `prompt` up to the semaphore, into it, the social credit floor, the call of the agent |
| `NoReply`, `Reply`, `Pushed`, `Raise`, `Cancelled` | the ways out of `prompt` |
| `Disconnect` | a lost connection, where the SDK's `connection.close()` cancels unanswered requests |

That the agent lets `CancelledError` through is read from `ai.py`, whose handlers catch
`Exception`. A close that is itself cancelled goes on waiting, since it awaits the prompt's task
directly.

### NostrMentions

`post` is what the relays hold: immutable events whose tags name a parent, a root and, for a
comment (NIP-22), what these are. A claim about another event is a Boolean (`parentRight`,
`scopeRight`), since nothing but its truth decides; ids are hashes, so the worlds of the instances
have no cycles, though no proof relies on it. A slot of `Handler` is a task; `history` is the list
`_context` builds, and `seen`, `claimed_roots` and `claimed_scopes` are functions of it (`Chain`,
`Agreed`). `topic` is the event whose id becomes `conversation_id`. `recent` is `_recent_order` with
its set, `_pending` the events of the busy slots. `fresh` says up to which start of the process an
event's `created_at` is not before `started_at`.

| action | code |
|---|---|
| `Deliver` | the filter in `NostrTransport.run` with `on_event`; an event without a free slot changes nothing |
| `Skip` | `_handle_event` before the walk: a low score, nothing to answer |
| `Climb`, `AtTop`, `CutShort` | one turn of the loop of `_context`: a parent fetched, nothing above, any other way out |
| `VerifyScope`, `RefuseScope` | the checks of a comment, which may fetch its root and its parent once more |
| `NoReply`, `Sign`, `Transmit`, `Published` | `agent.run` and `publish`; a reply may be at a relay though `publish` raised |
| `Stop`, `Start` | the end of `run` and of the process, the next start |

Every fetch may fail, whatever it did before. Deduplication by the Nostr library is not relied on:
the same event may be delivered again as often as the bound allows.

### BuzzRelay

`link` is the connection: `"down"`, `"up"` from authentication on, `"dying"` once the reader or the
membership task has ended and the other is being cancelled. `lock` is `_operation_lock`, `step` the
await of each caller inside an operation, `topic` and `future` the one pending query or
acknowledgement. `ready`, `liveReady` and `changed` are the three `asyncio.Event`s; `member` is the
await of the membership task, which queries as `Member`. At the relay, `requests` are those of this
connection it has yet to answer (each may be read long before it is answered, when its caller has
given up), `replays` the live subscriptions without their EOSE. Live events themselves go to
`BuzzDelivery`.

| action | code |
|---|---|
| `Connect`, `Drop`, `TearDown`, `Close` | `run()` to its two tasks, an error of the reader, `_disconnected` in the `finally`, `aclose` |
| `Call`, `Acquire`, `Request`, `Answered`, `Finish` | `query`, `publish_event` and the publication of a profile: the lock, `_io_ready`, the future, the `CLOSE` after it |
| `Abort`, `Expire` | a cancellation, or the deadline of 10 or 15 s, at any await of an operation |
| `Refreshed`, `Resubscribe`, `Replayed`, `Refresh`, `ReplayExpires`, `CancelMember` | `_refresh_channels` and its loop |
| `Take`, `Row`, `Answer`, `LiveEose`, `Notice`, `Change` | the relay, external, and what the reader does with each message |

### ChatTurns

The turns are those of one author, who may write on all front ends at once. `phase` is the await of
`run()`; `scoring` the Redis command `_maybe_score_message` sends next, `cancelled` the turns whose
scoring task was told to stop. An entry is one change of the score, automatic or a tool call's;
`credit` is where `apply_social_credit` is with it. The Redis keys are one variable each, and every
command is a step of its own, the pipeline of history and leaderboard being one transaction. A
failure may come before or after the command took effect (the step before or after it). A command is
assumed to take effect at most once: both entry points make the client with the library's defaults
(`cli.py:61`), and a client that by itself sends a command again whose answer was lost could apply
an INCRBY or push an entry twice. `Record` pushes an entry and lets the list live for another 30
days (`tools.py:63`); `HistoryEnds` deletes the list, at any time, while the score and the
leaderboard keep what it said. `expired`, `applied`, `windows` and `answered` are history variables.
A tool call that is refused changes nothing and is no step.

| action | code |
|---|---|
| `Begin`, `Recall`, `Answers`, `Settled`, `Retain` | `run()` from the score to the reply, and `_retain_memory_exchange` |
| `Fails`, `Stopped`, `Cancel` | the `except` around the model run, its wait of 0.1 s, a cancellation anywhere else |
| `Exists`, `Classify`, `Claim`, `ScoringFails`, `Unwind`, `CooldownEnds` | `_maybe_score_message` and the expiry of its key |
| `Adjust`, `IncrBy`, `Record`, `HistoryEnds`, `CreditFails` | `adjust_social_credit` and `apply_social_credit`, the expiry of the history |

### AutoPost

A draft of the model is known by what `run_auto` tells apart: text, nothing, the attachment marker,
tool markup, an image description with or without a caption, NO_REPLY, too long for Misskey, too
long for the agent. `image`, `poll`, `attempted` and `lock` are the run's dependencies, `auto` is
`_auto_history`, shared by the loops of one agent. `paid` and `posts` count.

| action | code |
|---|---|
| `Start`, `Close` | the loop after its interval, and at shutdown |
| `CreatePoll`, `GenerateImage`, `Generated` | the tools, whose calls of one turn run concurrently under `deps.lock` |
| `Output`, `Recovered`, `RunFails` | the validators, the recovery of a written description, the last checks and `_auto_history` |
| `Upload`, `UploadForNostr`, `CreateNote`, `PublishEvent` | the publication by either loop, with `RetryTransport`'s rule for replays |

Two things the model shows and no text contradicts: only the Nostr loop treats NO_REPLY as a
declined post, so Misskey would publish it; and a text within `auto_max_chars` but over
`max_note_length` is remembered as a recent post although Misskey refuses it.

### AcpWriter

A connection is its handler's `phase` (waiting for a slot, authenticating, serving, closing the
SDK's connection, in `aclose()`, closing the WebSocket) and its transport: `pending` is the
`asyncio.Queue` of `MaxQueue + 1` places, `sender` the await of `_sender_loop` or how it ended,
`writable`, `closed` and `failed` the flags, `closing` the task that closes the WebSocket with 1013.
Frames are numbered as written; `sent` is what the WebSocket took.

| action | code |
|---|---|
| `Admit`, `Authenticated`, `Unauthenticated` | `_ConnectionLimiter`, `_authenticate_browser` |
| `Write`, `Abort`, `Drain`, `Drained` | `write` with `_fail`, `abort`, `wait_writable` |
| `Take`, `Send` | `_sender_loop` |
| `Listened`, `Aclose`, `Flushed`, `Leave`, `Cancelled` | `_pump_frames` and the end of the handler, also by cancellation |
| `PeerCloses`, `ClosesWebSocket` | the peer or the keepalive; the `_websocket_close` task |

## Runs

| run | instance | what it shows |
|---|---|---|
| `delivery` | three messages of two conversations; limits of two pending rows, two finished rows, one conversation, two exchanges of history; one stop, one disconnection, one removal, one admission of each | the reply discipline, history and order, every table within its limit, the refinement of `ReplyPromise`, and that whatever is admitted is settled |
| `delivery_torn` | one message, one stop | expected violation: a crash inside `abandon()` makes the restart sign a second reply |
| `service_lifecycle` | two clients, two owners, three authorizations, five calls, one stop | row and runner agree; two runners never overlap; the lock is given back |
| `misskey_notes` | two notes, one of them blank, three handlers, three arrivals, a record of one note, interval 3 and jitter 1, one stop, Redis | one reply; mentions proceed; automatic replies keep their distance (of two claims side by side only the theorem `Spaced` speaks: one note can be answered automatically); every handler ends |
| `misskey_spacing` | one note, one handler, jitter | expected violation: replies closer than `auto_reply_interval` |
| `acp_sessions` | two sessions, three prompts, two connections, one place, one slot, one exchange of history | a turn sees the whole conversation it is added to; a cancel is answered as such and leaves nothing in the history (memory may have retained the exchange already); close and disconnection leave nothing at work; no slot is lost; every prompt is answered |
| `nostr_mentions` | either all threads of four events (every kind, parent, root and truth of claims) with the last mention the counters allow, or one thread of four events and all its mentions; two handlers, four deliveries, a record of one event, one restart, at most two ancestors | a mention joins a shared conversation exactly if all above it was seen and agrees; comments are answered in their scope; one reply to a mention |
| `relay` | a lane and the membership task, two events, two subscriptions, two channels of which one may be followed, one failure or deadline, one change of the roster | answers belong to what waits for them; ready means a complete replay; the subscription follows the roster |
| `chat_turns` | two turns, one of a privileged author with two tool calls, two failures or cancellations, an expiry of either key at any time | one automatic score in a window; the score is accounted for though the history expires; nothing retained or left running by mistake; turns end |
| `chat_board` | the same without failures | expected violation: the leaderboard stays behind the score |
| `auto_post` | a Misskey loop and a Nostr loop, a history of one post | one paid image; presentable posts; one post per run |
| `acp_writer` | two connections for one slot, two tasks, a queue of two frames, four messages each | the sentinel fits; a finished sender sent everything in order; `drain()` returns; a failed connection ends |

The bounds are guards on history counters (`MaxStops`, `MaxDrops`, `MaxRemovals`, `MaxAdmissions`,
`MaxCalls`, `MaxDeliveries`, `MaxTime`, `MaxFaults`, `MaxChanges`, `MaxWrites`). Three messages
against a limit of two are an overload, and two conversations against one an eviction; one stop may
come at any await, and what it leaves is what a second one would; five calls allow activation,
removal and renewal to overlap with a call that waits for the lock; three handlers put an owner and
two waiters on one note, and a record of one note forgets at the second success; three prompts over
one place and one slot have one at work, one waiting, and one of a session opened after a close;
four events are three ancestors against a depth of two, so that a walk ends at the root, at a
disagreement, at a failed fetch and at the limit; two subscriptions let the relay answer a query
that was given up while the next one waits; one failure at any await of the relay is enough for each
recovery path, and its effects meet the other actor's steps in every order; two failures of turns
let one turn fail while the other, or its own scoring task, is cancelled; four messages against a
queue of two fill it, drain it and fill it again. The limits 128 and 2048 are constants because only
their order relative to the number of messages matters.

`MCNostrMentions` starts either as `Init` does, in one world, or in any world just before its last
start and delivery (`LateInit`), where the walk alone is left to explore. `MCAcpSessions` uses the
names of sessions, prompts and connections in one order only; this is symmetry by hand, for TLC's
`SYMMETRY` is unsound with the liveness property of that run. `SYMMETRY` is used in
`nostr_mentions` alone, which has none. `MCBuzzRelay` starts with a roster of at most one channel,
so that the change may exceed what may be followed or replace it.

All configurations say `CHECK_DEADLOCK FALSE`: once the bounds are used up and every message is
settled, or every call has returned, nothing is left to do.

### Fairness

`FairDelivery` asks what the event loop and the deadlines give: the service is started again after a
stop (for an active community only), `run()` reconnects for ever with a bounded delay, the lane does
what it can do, and each await of `process` ends, by its result or by its deadline. Nothing is asked
of deliveries, interrupts, relays that keep events, or activations. Disconnections and renewed
subscriptions are bounded: against a relay that disconnects for ever the program can and does
nothing. `FairSpec` of `BuzzService` asks that deadlines fire, that cancelled tasks end (closing a
socket is bounded by `close_timeout=1`), and that a call goes on after its drain; it asks nothing of
the relay. `FairSpec` of `MisskeyNotes` asks that a task that can run does, and that each await
ends: the agent and Misskey have timeouts; the Redis client has none, so that Redis answers or fails
is an assumption about it, here and in `ChatTurns`. `Fairness` of `AcpSessions` asks that a score, a
turn of the agent and a write to the client end; a client that neither reads nor goes away is
outside it. `Fairness` of `BuzzRelay` asks that the relay answers what it is sent, that cancelled
tasks end, that `run()` reconnects and that tasks go on. Getting the lock is strongly fair: an
`asyncio.Lock` wakes its waiters first come, first served, so a caller is not passed over for ever.
Nothing is asked of the periodic refresh, so what `Follows` says rests on the notice alone.
`FairTurns` of `ChatTurns` asks that model, classifier and Hindsight calls end, which they do by
their timeouts, and that Redis answers; it asks no key to expire, and nothing of a cancelled scoring
task, which is why a failed turn must not wait for it. `FairSpec` of `AcpWriter` asks that the
sender goes on, that a send ends (the keepalive drops a peer that does not read), and that the
handler leaves; it does not ask a peer to close. `AutoPost` has no liveness property and no
fairness.

## Proofs

All theorems hold for any finite or infinite set of events, conversations, clients, owners and
authorizations, and for any limits and bounds that satisfy the named assumptions (`StoreAssumption`,
`DeliveryAssumption`, `ServiceAssumption`, `NotesAssumption`, `MentionsAssumption`,
`PostAssumption`, `WriterAssumption`, `AcpAssumption`, `RelayAssumption`, `TurnsAssumption`). They
say what the types of the constants are, that names of different things differ, that limits are
natural numbers, positive where zero makes no sense, that a change of the score is not zero and, for
the events, that a well-formed comment names a parent and a root. Every safety property of every
passing run is a theorem. TLC evaluates the assumptions in every run. The inductive invariants, and
the properties that are proved but not listed with a run (`WriteAhead`, `NoLostWakeup`,
`SerialLane`, `SoleHandler`, `OneSuccess`, `NobodyStranded`, `OwnerBound`, `DrainedBeforeCleared`,
`Announced`, `ClosedQuiet`), were checked on the instances above while the proofs were written;
their theorems now say more than a run does.

`BuzzDeliveryProofs` has three parts. The first states what each transaction of `BuzzStore` does to
the rows: `finish` and `abandon` take exactly one row out of the unfinished ones, keep the order of
the rest, touch no other reply. The second proves `Invariance` (`DeliverySpec => []IInv`), the
properties of one turn, and the refinement (`KeepsPromise`). None of the properties is inductive
alone. `OneReplyPerAdmission` bounds the replies by the admissions; that a turn may still sign one
needs `CountInv`: an unfinished row without a reply has an admission to spare. That needs
`WriteAhead`, so that a turn signs for a row that is there and has none, and that needs `LaneInv`
(the row of the turn is the oldest unfinished one, so no other step closes it) and `RowsInv` (only
outbox rows hold replies). `NoRepublish` needs `WireInv`: the reply of an unfinished row is unsent
by this runner unless its turn is past sending. `HistoryConfirmed` is inductive as `HistoryInv`, in
terms of sequences over a set instead of indices, with `phase = "acked"` implying an accepted reply.

The third part proves `MemoryInvariance`, what the pruned tables still know, and from it
`RecordedOnce`, `HistoryOrdered` and `Bounded`. `TableInv` says that the arrival order of each table
is total and without cycles; the rank of a row is then an injection into the ranks below the limit,
so what `Newest` keeps is no more than the limit (`NewestBounded`). `LedgerInv` is an account: every
admission of an event is spent on one entry of the history or is still due. The entries left after a
pruning are the old ones moved by one offset, so their places map one to one into the old places,
and one more for the turn just added; that replaces counting along the sequence. `HistoryOrdered`
rests on both: what is finished arrived before what is not, and an unfinished row that the history
already mentions has been admitted twice, the case the property leaves out.

`BuzzServiceProofs` proves `ServiceInvariance` and from it every safety property of
`service_lifecycle`. The argument is that of a monitor: `HeldInv` says that exactly the holder of
the lock is past it, so `CallInv`, what a suspended call relies on when it goes on, can only be
disturbed by the call itself; `EndingInv` says that a runner that is ending has a holder waiting for
it, so no other runner can be started meanwhile.

`MisskeyNotesProofs` proves `NotesInvariance` and from it every safety property of `misskey_notes`.
`OwnerInv` says that the table of notes in process names exactly the tasks at work, so a task that
finds its note free is alone with it. `CountInv` relates the record to history: what succeeded is
remembered or was forgotten, and a note in hand is not remembered, which is why a success adds one
only where there is room for one. `ClockInv` orders the claims: those still being saved are a
shortest delay apart from each other and from the last reply that began, and Redis never holds less
than the latter, which is what a restart relies on.

`NostrMentionsProofs` proves `MentionsInvariance` and from it the three properties of
`nostr_mentions`. `Lineage` defines what is above an event as a least set closed under parents,
without induction: `WalkInv` says that the walk stays inside it and has the parents of everything it
has passed, so a walk that ends at an event without a parent has closed the set and seen all of it,
and no other event seen is without a parent (`OnlyTop`). `HandInv` says that no two handlers have
one event and that none has a remembered one; `CountInv` that an event that may have been answered
is remembered, in flight, or too old for this start.

`ChatAgentProofs` proves `PostsInvariance` of `AutoPost` and from it all three properties of
`auto_post`. `PaidInv` makes one paid image inductive: a run that has paid has marked its attempt,
and both ways to the provider look at the mark in the step that sets it. `DraftInv` follows the text
from the validators through a recovery to the last checks (`FinishFacts`), which is where a caption
that is empty, or a poll without a question, must be stopped; `PostInv` that a run has no note
before its one request, whose loss no replay makes good.

It also proves `TurnsInvariance` of `ChatTurns` and from it `ScoredOncePerWindow`, `ScoreAccounted`
and `Settlement`. A window is opened by one claim, so the turns that began to score are no more than
the windows (`ClaimInv`), and those whose score was applied are among them. `EntryInv` says that the
score is the total of the changes applied and how far each has come in Redis; a change joins the
total in the step of its INCRBY and once only (`TotalAdds`). `ScorerInv` and `TurnInv` carry what
`run()` waits for: tool calls end with the model run, and nothing follows a reply before the scoring
task has ended.

`AcpWriterProofs` proves `WriterInvariance` and from it `SentinelFits` and `NothingDropped`. The
queue is bounded by its backlog, and by one more only where the sentinel is in it (`BoundInv`).
`OrderInv` says that the frames sent, the one being sent and the queue are the written frames in
order, with the sentinel last after a close and nowhere else: so a sender that meets it has sent the
rest. It speaks of a sender at work; `BridgeInv` ties the transport to the handler, so that a new
bridge starts from nothing.

`AcpSessionsProofs` proves `SessionsInvariance` and from it the five safety properties of
`acp_sessions` and `ClosedQuiet`. `TaskInv` makes the task of a session its one prompt at work.
`CancelInv` ties the flag of the session, which a cancel sets, to the prompt it was meant for: the
flag of a session at work is that of its prompt, and a prompt that was asked has recorded nothing
and will be told. `CloseInv` follows a session from the registry to its end: one that is no longer
open either is closed or has a close that awaits its prompt, which is doomed; so a prompt cannot
outlive its session, nor a session its connection (`NothingLeftBehind`). `SlotsKept` counts: a slot
is taken and given by the step that moves one prompt into or out of the set of holders.

`BuzzRelayProofs` proves `RelayInvariance` and from it the three safety properties of `relay`.
`OperationInv` says that what is waited for belongs to the holder of the lock and is gone when it
leaves. `RequestInv` looks at the wire: of the requests still to be answered at most one has the
subscription waited for, and the rows collected for it with those the relay has yet to send are what
the relay read; so the EOSE of that subscription finds all rows and only those, while answers to a
query given up find no one. `MemberInv` says what each await of the membership task relies on: there
is at most one replay under way, it is of the channels followed now, and the connection is not ready
meanwhile.

Only model-checked is what needs fairness: `EventuallySettled`, `LockFreed`, `TasksEnd`, `Answered`,
`Follows`, `TurnEnds`, `DrainReturns` and `FailureEnds`. The three properties that runs refute are
not theorems, of course.

## Findings

* **A crash inside `abandon()` regenerates a reply.** `abandon()` (`buzz/store.py:111`) erases
  `conversation`, `reply` and `outgoing` in one transaction and marks the row done in a second one.
  A process that stops in between restarts with an unfinished row without its signed reply, and
  `process()` generates and signs another one, although the first may be at the relay. The comment
  at `buzz/runner.py:86` says that crash recovery never regenerates a stored event's identity. The
  run `delivery_torn` shows it.
* **`auto_reply_interval` is a mean, not a minimum.** The delay until the next automatic reply is
  the interval plus or minus the jitter (`bot.py:439`); `models.py:314` calls the interval the
  "Minimum seconds between automatic replies". The run `misskey_spacing` shows two replies closer
  than that; `AutoRepliesSpaced` is what holds.
* **The leaderboard may stay behind the score.** `apply_social_credit` (`tools.py:64`) increments the
  score and then stores what INCRBY returned in the leaderboard. Two changes of one author, of two
  turns or of a tool call and the automatic score, may store theirs in the reverse order: the older
  score stays, though nothing failed. `tools.py:300` says the leaderboard shows the "top users by
  social credit score". The run `chat_board` shows it; `ScoreAccounted` is what holds of the score.

Not a contradiction of anything the repository says, but worth knowing: a removal that the
60 second deadline reaches while its runner drains leaves an active community without a runner
until the next management call or restart (`cut` in `ServedUnlessCut`); a Nostr event dated up to
300 seconds ahead is fresh again after a restart and is answered once more (`Lives` in `OneReply`).

## Plan

What comes next, in this order.

1. The abstract specification of an ACP session, a sequence of answered prompts, and that
   `AcpSessions` implements it; `SessionsInvariance` has what the proof needs.
2. `BuzzReplay`, extending `BuzzStore`: the relay's replay against the deduplication record and the
   watermark (how large a record must be for a replay to admit nothing twice; what a stop in the
   middle of a replay loses).
3. `NostrProfile` (`fetch_profile`, `_publish_profile`, the cache of identifiers): a profile is
   overwritten only with what every relay has confirmed.
4. `UserProfile` (`memory.py`) against an assumed service, and the visibility mapping of `bot.py`
   as operators checked against a reference.

## Not modelled

What a model says or calls, prompt texts, MCP tool servers, NIP-05 and media checks, ACP sender
parsing, configuration and its types, logging and the desktop plugin: they keep no state that two
actors share, or their content is data none of the properties above depends on. The entry points
(`cli.py`, `buzz/__main__.py`, `acp/__main__.py`) wire and stop what the models start and stop; their
order of closing at shutdown is not modelled. Of `memory.py` only what a turn sees of it is: the
creation and refresh of a user's profile is a request or two to a service whose side the code does
not show. Of `bot.py` the connection to Misskey, thread context and visibility are left out, of
`nostr.py` the profile, of `service.py` the content of a profile. The relay of `BuzzRelay` is
external: modelled from what `transport.py` relies on.
Failures of SQLite itself
are not modelled: a full disk would end a lane's task. Signatures are assumed to be unforgeable.
