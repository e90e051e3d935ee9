# A verification development for tomat

tomat is a self-hosted assistant: a **core** (Deno, `packages/tomat-core` and
the platform-neutral `packages/tomat-core-engine`) owns sessions, models, tools
and downloads; **clients** (`packages/tomat-client`, Svelte in Tauri) talk to it
over REST and one WebSocket. This directory holds TLA+ modules of the parts of
it in which the order of events matters, TLC configurations that check them on
small instances, and proofs that TLAPS checks.

Run `tlc -config X.cfg M` for the runs of section 3 (each takes less than three
minutes with two workers), and `tlapm M.tla` for the proofs of section 5.
`PROJECT.json` maps every definition to the lines it models and lists the
hazards each property is aimed at.

## 1. The system

| component | state | operations | speaks to |
|---|---|---|---|
| LLM scheduler (`services/llm-scheduler.ts`) | active count, queue per client, rotation | schedule, abort in the queue, release, watchdog | chat, titles, llama-server |
| Chat turn (`chat.ts`, `chat-stream-muxer.ts`, `chat-turn-writer.ts`, `chat-tool-dispatch.ts`) | active stream per session, live messages, two cursors | start, hops, finalize, interrupt, cancel, resubscribe | scheduler, sessions, tools, frame bus |
| Session documents (`sessions-store.ts`) | one file per session | append, insert after, delete a turn, read | chat, REST |
| Frame bus and hub (`frame-bus.ts`, `ws/hub.ts`) | open sockets | broadcast to a client, dispatch a client's frame | chat, client |
| Client streaming state (`streaming`, `messages`, `sessions`, `extensions` `.svelte.ts`) | transcript, stream id, spinner, abandoned streams | apply a frame, stop, post, load, reconnect | hub, REST |
| Worker pool and tool calls (`extensions/worker-*.ts`) | warm workers, LRU, idle timers, calls in flight | start, boot, answer, cancel, time out, evict, refresh | tool dispatch, PTY host |
| Module broker, tool prompts (`module-broker.ts`, `worker-call.ts`, `chat.ts`, client forms) | open prompts, remaining time budget, the prompt kept for a reconnect | ask, answer, pause, resume, cancel, show again | worker calls, chat, client |
| Sidecar supervisor, idle unload (`sidecars/manager.ts`, `services/llm-idle.ts`, `sidecar-boot.ts`) | process, status, restart loop, idle timer | start, stop, restart, probe, crash, unload, reload | scheduler, chat |
| Self-update and rollback (`update/`, `tomat-core-updater`) | binary, anchor, staging, marker | download, swap, boot, roll back, commit | a second process, the supervisor |
| Scheduled prompts (`services/prompt-scheduler.ts`) | rows, one timer, a running tick | create, edit, arm, tick, fire, restart | sidecars, chat |
| Downloads (`downloads/`) | rows, in-flight entries, one permit | enqueue, join, cancel, retry, remove, resume | network, disk, binaries |
| SSE chat, speech scheduler, background queue, pairing and tickets, MCP servers | see section 6 | | |
| Binaries, extensions, memories, settings, secrets, native helpers, UI, website | documents | sequential | disk |

What is hard, and what each part must keep:

* **Scheduler.** Grants, aborts, watchdogs and releases interleave between
  awaits. Slots must neither leak nor be released twice, nobody may queue beside
  a free slot, and everyone queued must be served.
* **Chat turn.** Messages are announced before they are stored, deltas are
  coalesced, and stop, cancel and resubscribe arrive between any two awaits. The
  store must end in the order the user saw, and a client that joins must be able
  to catch up from what is stored and what is live.
* **Client.** Frames sent while the socket is down are gone. The transcript must
  converge to the stored one, nothing may be doubled, the spinner must go.
* **Worker pool.** Three Maps keyed by tool are edited by seven paths, and four
  timers race. A worker must not be evicted in use or leak, and each call settles.
* **Prompts.** Forms and answers cross timers, cancels, dead workers and lost
  connections. A waiting call must be on screen, its budget must stand still
  exactly while it waits, and what the user accepts must happen once.
* **Sidecar.** Starts, stops, crashes and a back-off loop overlap at every await.
  What was decided last must run, the status must not lie, a turn that is let
  through must find a model.
* **Update.** A handful of files, edited step by step, with the power failing in
  between. A working binary must stay on disk, and a broken one must be undone.
* **Scheduled prompts.** The next occurrence is stored before one fires; sleeps,
  edits and crashes fall in between. Nothing fires twice, nothing is forgotten.
* **Downloads.** Workers, rows and callers that wait are three records of one
  transfer. Every caller must hear of it, every open row must have its worker.

## 2. Modules

| module | models |
|---|---|
| `SlotPool` | what the scheduler promises: abstract slots, without queues |
| `SlotScheduler` | `LlmScheduler`: the queues, the rotation, abort, watchdog; implements `SlotPool` |
| `ChatTurn` | `ChatService.run`, `StreamMuxer`, `TurnWriter` and the document they write |
| `ChatResume` | `ChatTurn` composed with the WebSocket and the client's state |
| `WorkerPool` | `WorkerPool`, `WorkerHandle`, `InFlightCall` |
| `ToolPrompts` | every prompt of one tool call, from the tool over core and socket to the user and back |
| `Sidecar` | class `Sidecar` of the supervisor |
| `LlmIdle` | `Sidecar` composed with settings, the idle timer and the turns that reload the model |
| `Updater` | `applyUpdate`, the Windows updater process, boot with rollback and commit |
| `PromptScheduler` | rows, timer and tick of the scheduled prompts |
| `Downloads` | the download manager, its store, its transfers and its semaphore |
| `*Proofs` | theorems, one module per component (`ChatProofs`: `ChatTurn` and `ChatResume`; `LlmIdleProofs`: `Sidecar` and `LlmIdle`) |
| `MC*` | small instances for TLC |

**SlotScheduler.** A request is a call of `schedule()` for the local provider;
`phase` says whether it waits, holds a slot or is over. `Enqueue`, `AbortQueued`,
`ReleaseLocal` are what the code runs between two awaits, dispatch included.
`nextClientIdx` counts from 0 as in the code and may equal the length of the
rotation. `Wedge` is an upstream that goes silent, `Watchdog` the timer of the
first token or of a stall. `Reissued` names the requests that are asked again.
The number of slots is a constant: only `sessions.ts:242` passes one, from a
setting that no schema declares, so it stays at its default unless
`settings.json` is edited by hand.

**ChatTurn.** An action is a stretch of `run()` between two awaits. `doc` is the
session file. `Born` and `Persist`/`Announce` are the two halves of
`TurnWriter`: `Persist` is the write inside `finalize()`, `Announce` its
continuation, so that a resubscribe or a post can fall between. `live` is the Map
`stream.liveMessages` from a message to its `afterId`; a Map replays in insertion
order, which is the order of ids because `born()` is given them in that order.
Text is counted
in deltas (`text` produced, `flushed` sent). `Interrupt`, `Cancel`,
`Resubscribe`, `PostUser` are the handlers. The model takes no account of what a
message says: roles, order, and how much of it was produced, sent and stored.

**ChatResume.** Adds a FIFO in each direction, emptied by `Disconnect`, the
client's transcript (`view`, `shown`), its stream state (`adopted`, `active`,
`abandoned`) and its REST calls. `Reconnect` is the edge that starts `load()`;
`ServeGet` reads the document, `Hydrate` applies the answer and subscribes.

**WorkerPool.** `workers`, `lru` and `idleTimers` are the pool's Maps,
`inFlight` the counter it keeps on each worker, `phase` the life of a call.
Timers fire whenever they are armed. The event loop finishes promise callbacks
before the next timer or I/O event; `Quiet` says so and keeps the model from
splitting what the runtime cannot split. Two phases come from the code's flags:
`refused` is a call whose promise is rejected but which is not `settled`,
`drained` one that its drain timer settled while its boot wait was open.

**ToolPrompts.** One started call. `at` is what the tool knows of each prompt,
`open` the four pending Maps, `waits` the count that pauses the budget, `kept`
the call's entry in `outstandingPrompts`. The clock is abstracted to a budget
that is left or spent and a timer that is off, armed or `due` (its time has
come, its callback has not run). The client is its bubble, its form, its two
queues and whether it follows the stream; `Shown` is what `UserInput.svelte`
puts on screen. `mixed` is a history variable: prompts of the call have met,
which the code says they do not (section 4).

**Sidecar, LlmIdle.** A start is named by its `startId`, and so is its process.
`task` is the position of each `startInternal()`, `loop` the one restart loop,
`stopping` the processes that some stop awaits, `decision` what the last
explicit call wanted. `LlmIdle` adds the timer and the turns: `BeginTurn`
cancels a pending unload, `ensureLoaded()` decides on the status, the turn is
sent.

**Updater.** The state is the files of the bin directory and `pc`s of the
processes that edit them. A step is one file operation, which may fail; the
power may fail between any two; so may the operation that is to put a failed one
right. Versions are numbers, some of them broken.
`accidents` records what went wrong for good, so that a property can say which
of them it does not survive.

**PromptScheduler.** Time is a counter, a row is its state, schedule and next
run, and whether its JSON is a schedule, does not parse, or parses to something else.
A tick is a small program: check the model, re-read each due row, write the session
of one that fires and its first message, arm again. Each read and write of the table
may throw, within the bound; one that does ends the tick as the `finally` does. Sleep
is the clock going on with the timer not yet fired.

**Downloads.** `row` is the table (it survives a crash), `inFlight`, `worker`
and `call` are memory: the entry of the Map, where `spawn()` is, and how far
each `enqueue()` is. `permit` is the semaphore, `Pause` its hold between two
downloads, `Lost` a permit that nobody gives back any more. `check` is where
`reconcileCompleted` is with a row, between its list, its `stat` and its `DELETE`.

## 3. Runs

| run | shows | bounds |
|---|---|---|
| `slots` | all safety properties of the scheduler, that every queued request is served, and that it implements `SlotPool` | 2 slots, queue of 4, 7 requests of 3 clients (one is refused), `a1` asked again for ever |
| `slots_monopoly` | a disagreement: one client is passed over for ever | 1 slot, 2 clients with 2 requests each, all asked again |
| `turn` | block and order of the stored turn, completeness and placeability of the catch-up, no text lost, an interrupt ends the turn wherever it strikes | tail and regenerate, 5 messages, 2 deltas each, 2 hops, writes may fail |
| `resume` | in the end every message on screen has all its text, and none is missing unless a load read too early; nothing is doubled, the live tail is shown, the spinner goes | first turn and regenerate, 2 messages of 2 deltas, 1 hop, one drop at any point, stop and post |
| `resume_lost_message` | a disagreement: a message finalized between GET and subscribe is lost to the view | 2 messages, one drop |
| `pool` | the Maps agree, the limit holds, pooled workers are counted and idle-timed right, no leak, every call ends | 1 warm worker, 2 tools, 3 calls, one crash, refresh or permission prompt |
| `prompts` | the budget stands still exactly while a prompt is open, the screen shows what the call waits for, a proposal is stored once and as told, the call ends | one prompt of each of four kinds, up to three put, one drop or restart of the client |
| `prompts_overlap` | a disagreement: of two prompts one is answered, and after a reconnect nobody is asked for the other | as `prompts` |
| `sidecar` | only the process decided on last runs, the status is honest, nothing is left down unattended, loading ends, a turn finds a model | 3 calls, 2 faults, 1 restart before the flap guard, 1 attempt, 1 turn |
| `update` | a good and a bootable binary stay, an unproven one is guarded, rollback is justified, a broken version is undone | 1 broken and 1 good update, 2 requests, 2 power failures, 2 faults (also of the operation that puts the first right), Unix and Windows |
| `schedule` | the timer is not left disarmed, what is taken to be fired is due and opens one session, what is due is handled, unless `arm()` throws or a row is no schedule | 2 prompts, 3 edits, 1 fault (crash, failing check, read or write, damaged row), 4 units of time |
| `downloads` | an open row has a live worker, every caller is answered | 2 files, 2 callers, 3 acts of the user, 3 faults |

Each module has one type invariant, `TypeOK` (`SidecarTypeOK`). It is a property of its own in
`slots`; elsewhere it is the first conjunct of a structural invariant
(`DurableOrder`, `MapsAgree`, `ScreenMatchesCall`, `StatusHonest`,
`UnprovenIsGuarded`, `NeverDisarmed`, `LiveWorker`). `ChatResume` extends
`ChatTurn` and relies on that module's.

*Why the bounds are enough.* Three clients give the rotation a middle, and a
queue of four lets it hold all three. Two deltas are needed for one to be flushed
while another waits. Five messages and two hops give a hop with reasoning,
an answer and two calls, or a call with a display and a second hop. One drop
reaches every pair of (what was sent, what was stored), since a further one
starts from a state that the load has rebuilt; two messages put one before and
one behind every point of it (three of them with a regenerate also pass, in
twice the time). Two calls of one tool share a
worker, the third competes for its place with `maxWarmWorkers` at one, so each
Map's entry can be taken, lost and replaced. Three of four prompts reach every
pair of kinds that meet and a third beside them; `prompts` also passes with two
drops and two prompts. Three sidecar calls let a stop be overtaken by a start
that is overtaken itself, with a crash and a failed spawn at any point. Two
crashes are `MAX_BOOT_ATTEMPTS`, so that a sound version can be put aside; two
requests let a second apply find what the first left. Two rows and an edit of
one while the other fires reach the stale snapshot of a tick. Two files make a
queue behind the permit, two callers a joiner, or one of each file; three faults let
an error follow a deleted file and a crash. One prompt opens in `pool`, so there no
timer fires while its call is asking, which needs a second prompt of the call: that
branch of `TimerFires` is covered by the proofs alone.

*Symmetry* is not used: all runs finish without it.

*Deadlock* is switched off everywhere, because each system may stop: all requests
over, the turn ended, all calls settled, all edits made.

*Fairness.*

* `slots`: a stream that is not wedged ends and an armed watchdog fires; nobody
  has to ask or abort.
* `turn`: `Forward`, what `run()` gets on with by itself: file writes return, the
  filters bound their own lookups, and once the user interrupts, the abort signal
  ends the stream and the cancel settles the call, at the latest when its worker is
  killed (`worker-call.ts:532-543`). Without an interrupt neither has to happen: an
  external provider has no watchdog, and the budget of a tool that waits on its user
  stands still. So `InterruptEnds` promises an end to an interrupted turn only; no
  property says that a turn ends by itself.
* `resume`: `Forward`, frames are delivered while the socket lives, the client
  reconnects (its back-off loop has no limit) and a GET is answered. `SpinnerStops`
  asks only of a turn that is over.
* `pool`: `Due`: a wait for a boot ends (ten seconds) and armed timers fire; no tool has
  to answer, no process to exit, no user to reply, so `EveryCallEnds` promises an
  end only while the call does not wait on the user.
* `prompts`: timers fire, frames are delivered, the client comes back and loads,
  and the user decides what is on screen. The tool owes nothing. `CallEnds` needs
  the user: a budget that stands still has no other end.
* `sidecar`: the supervisor's own steps run, a readiness probe ends, and a process
  that was told to end does so (a kill follows). No process has to crash.
* `update`: a supervisor launches core, core boots, and the updater that was
  spawned runs. No request has to come, no power failure has to stop.
* `schedule`: the timer fires and the clock goes on, core is started again. A tick
  gets on under strong fairness, since crashes may interrupt it.
* `downloads`: calls and workers get on, a transfer ends or fails, core is started
  again. A peer that never answers is a fault and has no fairness.

## 4. Where code and comments disagree

Shown by a run:

1. **One client can monopolize the model** (`slots_monopoly`,
   `llm-scheduler.ts:243`). `nextClientIdx` is left one past the end, exactly
   where a client that queues anew is appended.
2. **A message missed on reconnect** (`resume_lost_message`,
   `sessions.svelte.ts:309`). Finalized after the GET, gone from the live list at
   the subscribe.
3. **A waiting call that asks nobody** (`prompts_overlap`, `chat.ts:275`). One
   prompt is kept per call, "at most one prompt per call is open at a time"; a
   tool may put two, the second overwrites the first, any answer clears it.

Met while modelling, taken over into the model as the code has them, and
excluded by name in the properties they touch:

* *Chat.* `chat.error` also puts an error bubble into the transcript that no store
  knows (`streaming.svelte.ts:236-242`); `ChatResume` leaves it out of `view`, so
  convergence is that of the other messages.
* *Prompts.* A plain reconnect while a bubble is running or waits for a form
  goes through `interruptStreaming` and sends `tool.cancel`
  (`streaming.svelte.ts:488`, `hasActiveToolCall` at `messages.svelte.ts:72`):
  the form is cancelled, and only permission prompts or a restarted client get a
  prompt shown again. The bubble's one status loses a form when a sibling
  permission is answered. A prompt that opens as the timer is due leaves a spent
  budget, `arm()` is then a no-op and the call is never timed out. A client that
  pressed Stop and lost the cancel to a drop sees no later form of the call.
  Broker prompts open when a call ends are never resolved.
* *Worker pool.* `refreshPermissions` deletes the key after an await whoever
  holds it (`worker-pool.ts:109`); eviction takes a worker that is still booting
  for a call (`:259`); a call cancelled before boot is uncounted although never
  counted (`worker-call.ts:538`). A permission answered while the worker boots arms
  the budget, and `onBoot` arms it again over the same handle (`:203`): the first
  timer is never cleared and may kill the worker under another call.
* *Sidecar.* Two starts that await the end of the same process both spawn
  (`manager.ts:162`; the header promises to supersede them). A crash while a
  superseded loop sleeps is swallowed (`:423`). While an unload is ending the
  process the status still says Running, and `ensureLoaded` lets a turn through
  (`llm-idle.ts:51-52`). A stop overtaken by a start reports Disabled over a
  running process.
* *Update.* Two overlapping applies, which `self-updater.ts:130-131` takes not to
  happen, can leave no proven binary. The copy that becomes the anchor is
  accepted by its existence (the Rust updater compares bytes), be it a part or, where
  the removal of the last update's anchor failed unseen, that one. When neither the
  install nor the move back succeeds, Windows is left without a binary at its place
  (`notRestored`). If `chmod` fails or the marker cannot be written after the swap,
  the new binary boots unmarked, and a retry overwrites the anchor. A power cut
  between swap and marker leaves an unmarked binary, though `update/README.md:45`
  says the marker always comes first; `:55-59` describes one attempt and a timer
  where the code counts two boots and has a checkpoint.
* *Scheduled prompts.* "A user edit revives it" (`prompt-scheduler.ts:343-344`):
  an edit of an unreadable row throws before it can. "Must not wedge the whole
  subsystem in a throw/re-arm loop" (`:342`): JSON that parses and is no schedule
  passes the `try`, `nextOccurrence` throws at `:355` on every tick, and the due rows
  behind it (the query has no order) stay untaken (`Wedged`). "A transient error must
  not leave the scheduler permanently disarmed" (`:387-388`): the query of `arm()`
  comes after the timer was cleared, and may throw in that `finally` itself
  (`Disarmed`, until an edit or a restart arms again). A first message that cannot be
  written leaves its session without one.
* *Downloads.* A store error inside `spawn()` or after `inFlight.set` leaves the
  entry or the permit behind, and one in `retry()` a `Pending` row that nobody works
  on (`stranded`). The checksum question has no time limit and is asked while the
  permit is held; a cancel reaches its second half only, the catalog is fetched
  without a signal. `reconcileCompleted` deletes a row by id after an await, whatever
  the row has become (`store.ts:160`). A caller that joins a cancelled download is
  rejected with it.

## 5. Proofs

**`SlotSchedulerProofs`**, for any finite or infinite sets of clients and
requests, any number of slots and any queue depth: `TypeCorrect`,
`SlotsNeverExceeded`, `WorkConserving`, `QueuesConsistent`, `NoGrantAfterEnd`
and `Refinement` (of `SlotPool`). The assumptions are those of `SlotScheduler`:
a positive number of slots, a positive multiplier, one client per request.

None of these is inductive alone. `IInv` joins the types, the accounting of
slots, the finiteness of the set of active requests (so that its cardinality
moves by one), `NoIdleSlot`, `RotationConsistent` and `GrantsFaithful`. They need
one another: that a release may hand its slot over rests on the rotation
naming only clients with a queue; that a queued request's removal is right rests
on its grant being in exactly one place; that a new request may take a free slot
without overtaking rests on nobody being queued then. The module proves facts
about sequences without repetitions, one lemma on what `removeQueuedGrant` and
`dispatch` have in common (`Dequeue`), one lemma per action, and combines them.
Each step's lemma also says what it does to the pool, which gives the refinement.

**`ToolPromptsProofs`**, for any sets of prompts of the four kinds and any
bounds: `ToldWhatIsStored`, `BudgetStandsStill` and `PromptsOnScreen`. The
assumptions are those of `ToolPrompts`: the kinds are disjoint. `PromptsInv` says that an open prompt is
asked and not yet told, so that an answer can only ever store and tell what
nobody stored before; a cancel, an exit and a refusal touch permissions alone,
which is where the disjointness enters. `BudgetInv` adds that the set of open
prompts is finite: with `PromptsInv` a prompt that opens is new to it, one that
is answered was in it, so that the count moves with the cardinality, reaches
zero with the last prompt and only then arms the timer. It is asked of calls that
are neither cancelled nor settled; for the others the lemma `EndedBudget` keeps
the types alone. `ScreenInv` follows the frames. `Finished` says that the end of the
call is the last thing its client hears, or that a document is still to be loaded.
As long as no second prompt has joined the first, `Single` says that the prompt kept
for a resubscribe is the one that is open, the only one on its way and the only one
the client has, with nothing behind it; `Answered` that its answer, if on the way, is
the only one; `Presented` that a client that has loaded and subscribed has it, is
about to, or has answered it. `Severed` empties the frames and both prompt queues
at a drop, which is why `Resubscribe` may put the prompt again without its being
there twice.

**`ChatProofs`**, for any number of messages, deltas and hops (at least one
message and one delta), with or without regenerates, whether or not session
writes fail: `StoredInOrder`, `CatchUpIsComplete`, `ReplayIsPlaceable`,
`NothingEverLost`. `MessageAssumption` says that the five named messages are
distinct from each other and from the turn's. `IInv` counts: `Announced` is the
number of messages finalized so far, `Stored` adds the one whose `finalize()` is
suspended, `Claimed` those handed to `finalize()`. Ids are given in order of
creation, so the whole turn is these numbers and `created`: `Numbered` says that
the document holds exactly the first `Stored`, `InHand` what lies between
`Claimed` and `created` at each stage (the one bubble that grows, or a running
call and its displays), `Catching` that the buffer holds what was born beyond
`Announced`, `Texts` that only the bubble that grows has unflushed text, `Block`
that the turn's messages are consecutive in the document. `Block` is what makes
`insertMessageAfter()` right: nothing of the turn lies behind the cursor, so what
is inserted there is the block's new end, also when a user message was posted
behind it. `TurnImplemented` shows that `ChatResume` implements `ChatTurn`: the
composition with the client only ever steps the turn as its own handlers may,
whatever frames it sends. The four invariants follow there
(`TurnKeepsItsPromises`).

The second half of the module is about the screen, for any number of connections
lost and loads (`DropsAssumption` says no more than that `MaxDrops` is a number):
`ConvergesWhenUpToDate`, `NothingTwice` and `LiveTailIsShown`. What the client
shows is what it was sent, and what it was sent is a prefix of what will be, so
each part of `ScreenInv` quantifies over what the frames on their way bring:

* `Told`: the messages a client that heard everything knows are the first `Known`,
  all that were announced, and all that were created but for those in hand.
* `Watched(m)`: there is a number `v`, what the frames that came carried of `m`.
  `Flow(m, v)` says that the deltas on their way raise it to what is flushed, that
  each snapshot on its way carries the level at its place, and that where the level
  is not final a snapshot is to come or the message is live. `NotAhead(m, v)` says
  that no more than `v` is shown, or that a snapshot, a load or a resubscribe will
  replace what is; the client that walked away from the stream shows at most what is
  flushed. `OnScreen(m, v)` says that an attached client has a live message on
  screen with exactly `v`, or has it to come.
* `Held`, while no connection was lost: the document is the other messages with the
  first `Stored` of the turn spliced in at one place (`Seated`), the transcript is
  the same with the first `k`, and the frames on their way bring `k` to `Known`
  in order, each to go behind the one before (`Arrives`).
* `Linked` and `ClientTypes`: a dropped connection carries nothing, a reply to a load
  holds nothing that is not stored.

They need one another: that a delta finds its bubble on screen is `Held`, that a
snapshot of the catch-up does not take text back is `Flow`, that a load which
crosses frames of the old connection ends well is `NotAhead`. The proof has a lemma
for each way a step sends (`StepKinds`: nothing, the pending deltas, a birth, an
announcement, the replay), which says of every message what the frames do to its
level (`StepTells`) and to the order (`StepArrives`); then for each step of the
client. When nothing is on its way `v` is what is flushed and `k` is `Known`, which
a turn that ended has all stored: that gives `NothingTwice` and `LiveTailIsShown`,
and `ConvergesWhenUpToDate` of a connection that held.

`Held` promises nothing once the connection dropped. For the client that reloads a
third invariant, `ReloadInv`, stands on the two others:

* `Replied`: what a load was told of is still stored, and the reply that a
  regenerate deletes does not come back. A step that changes the document stores a
  message or takes that reply out (`DocSteps`), so once it changed no reply to a load
  is equal to it again.
* `Placed`: `Seated` of every reachable state, not only of a connection that held; so
  the deleted reply is not in the document and a late `deleted` frame takes nothing.
* `Heard`: no frame brings a message that was not created. Where all of them are
  stored and on screen a late `message` frame finds its bubble and inserts nothing.
* `Reloaded`: while no load is under way, what is on screen of a message is what was
  flushed of it, or a snapshot of it is on its way, or it is live and its end will
  be one (`Tracks`); a client that walked away has only messages on screen that cannot
  grow. And a load was done whose document is on screen, if that is still the stored
  one and nothing is to be added to it (`Current`).

`ConvergesWhenUpToDate` follows: of the text without any condition on the loads, of
the messages and their order where no load was stale. The condition cannot go:
`resume_lost_message` shows a load that read the document a moment too early, and
`sessions.load()` has no guard against the answer of an older load that comes after
that of a newer one.

**`WorkerPoolProofs`**, for any finite set of calls, any tools and bound:
`MapsAlwaysAgree`, `AlwaysWarmBounded`, `CountsAreAccurate`, `NoOrphanEver`. The
set of calls is finite because a count of those that run is a cardinality.
`PoolOK` ties the three Maps, `CallsOK` gives each worker a call that spawned it
and each call under way a worker of its tool, `Counted` the counter, `Spared` that
no timer runs beside a started call. They need one another: eviction is safe
because the evicted worker counts no call, the count is right because a worker
stands under one key, the bound holds because `evictLeastRecent()` takes a key
that is in the Map. `removeFromLru` is a recursive function over the list
(`Untouched`); that it removes one key and keeps the order of the rest is an
induction, done by taking a least counterexample (`NoLeastFailure`).

**`LlmIdleProofs`**, for any turns, settings and numbers of calls and faults:
`OnlyDecided`, `StatusIsHonest`, `AlwaysAttended`, and the step property
`TurnsFindModel`. `Supervised` says where the start of the active process is, what
the status says and what the process does, together, as long as no call came
while another awaited an exit. `LoopCurrent` says that a restart loop which
nothing superseded carries the last decision's options and is alone at work.
`Accounts` bounds the crashes the flap guard counts by the faults that happened.

**`UpdaterProofs`**, for any set of versions and requests, any `MAX_BOOT_ATTEMPTS`
and any number of faults and power failures: `GoodBinaryKept`, `AlwaysBootable`,
`UnprovenGuarded`, and the step property `RollbacksJustified`. `IInv` has a part for
each question: `Actors` (who may touch the files), `Launched` (a booting core runs
the file it came from), `Counted` (each attempt of a marker was cut short), `Kept`
(a proven binary stays at `<bin>` or is the anchor through every step of a swap),
`Complete` (what would be put back is a binary), `Guarded` (an unproven one is
marked). `Kept` follows the swap step by step: past the anchor the anchor holds a
proven version, and on Windows the one that runs. Each part but the first holds only while the accidents it names have not
happened; those are the exceptions that the checked properties state.

**`PromptSchedulerProofs`**, for any prompts, at least one schedule, any periods,
grace and retry: `NeverDisarmedEver` and the step property `FiresOnce`. `Covered`
is the armed timer; `Unfired` says that nothing was fired at or after the time a
row is armed for, nor in the future; `InHand` that the row in hand was due and moved on
before it fires, which is why neither a crash, nor an overlapping tick, nor one that
throws and is tried again fires it twice. `Covered` holds wherever `arm()` did not throw.
That the next run of a schedule lies beyond now is a fact about a least element,
from the well-foundedness of the natural numbers.

**`DownloadsProofs`**, for any finite set of files and any callers:
`AlwaysAWorker`. `Entered` ties the Map, the workers and the rows; `Held` makes
whoever is past the semaphore the one that holds the permit; `Lined` makes the
line of waiters exactly the queued workers, each once, and empty when the permit
is free, so that a permit given back always goes to a worker that waits. `stranded` and
`resumed` name the rows for which a store error broke that.

Each of these invariants was first checked by TLC on the instance of its run. The
assumptions on constants exclude no system that runs: beside those named above,
schedules exist (`Specs # {}`), the sets of calls and of files are finite, and the
values that stand for "none" are not members of the sets they complete.

Only model-checked:

* liveness and fairness (`InterruptEnds`, `SpinnerStops`, `EveryCallEnds`, ...): out of
  the provers' reach.

Every safety property and every action property of the passing runs is a theorem.

## 6. Not modelled

* Scheduler: external providers, which bypass it.
* Chat: refusal of a second turn (`session_busy`), routing and classification,
  usage, titles, the text of anything; the SSE route with its own guard.
* Sessions: their creation and deletion, temporary sessions, attachments.
* Client: several sessions or cores, a load that fails, the first-token watchdog
  of the client, speech.
* Worker pool: send queues, output limits, `shutdown()`. Prompts of several
  calls in one queue, prompts of MCP servers.
* Sidecar: arguments, logs and metrics, Windows job objects, `shutdown()`.
* Update: manifest and signature, helper and worker artifacts, which supervisor
  relaunches core.
* Scheduled prompts: `runNow`, the limit per owner, calendars beyond a period.
* Downloads: sidecar binaries after a restart, ranges and partial content.
* The components marked `not_modelled` in `PROJECT.json`, each with its reason.

The hazards list in `PROJECT.json` names each known exposure, those that no
property reaches yet included, with the reason.

## 7. Plan

Modules next:

1. `SseChat`: exclusion of two turns of a session over WebSocket and SSE, release
   of the guard on every path (`sessions.ts:200-289`), `cancel()` that releases it
   while the generation goes on, and a prompt sent right after a stop.
2. The speech scheduler, as a second instance of the pool without a watchdog; the
   background queue, which yields to chats and shares the idle timer's view.
3. Tickets and pairing, MCP connections.

Abstract specifications worth stating: a turn as an atomic append of a block to
the document, which `ChatTurn` implements; a warm pool as a bounded partial
function from tools to live workers, which `WorkerPool` implements; a download as
pending, running or over, which `Downloads` implements.

Theorems next: those that go with the specifications above; and of `ChatResume`, the
convergence of a client whose load read the document while the turn still stored
messages, if none was announced between that read and the resubscribe
(`resume_lost_message` is that case). It needs `Held` for a transcript that starts
from a document in the middle of a turn.
