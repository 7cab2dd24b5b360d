# Verification of EDUX / EduOrbit

TLA+ modules, TLC runs and TLAPS proofs about the server of EduOrbit
(`src/edux`). Two kinds of code are modelled. The first is the runtime that
executes a *turn* (one question of the user and everything the server does to
answer it) in a background task, while sockets come and go, users cancel,
sessions are deleted and the process restarts. The second are the services that
keep state of their own beside it and share its difficulties: the passes over
the memory documents and the registry of their runs, the book engine with its
compile queue, the cron scheduler, and the friends and chat store.

All paths below are relative to the repository; TR stands for
`src/edux/services/session/turn_runtime.py`, SS for
`src/edux/services/session/sqlite_store.py`, WS for
`src/edux/api/routers/unified_ws.py`, RUNS for
`src/edux/services/memory/consolidator/runs.py`, MEM for
`src/edux/api/routers/memory.py`, BOOK for `src/edux/book/engine.py`, CRON for
`src/edux/services/cron/service.py`, SOC for `src/edux/services/social/store.py`.

## 1. The system

| Component | State it keeps | Operations | Interacts with |
|---|---|---|---|
| **Turn runtime** (TR) | `_executions`: one `_TurnExecution` per running turn, with its task, buffered events, subscribers; `_reply_queues` | `start_turn`, `regenerate_last_turn`, `cancel_turn`, `submit_user_reply`, `subscribe_turn`, `_run_turn`, orphan recovery | the store (rows), the orchestrator (events), sockets (subscribers) |
| **Session store** (SS) | tables `sessions`, `turns`, `turn_events`, `messages`; one asyncio lock | one transaction per method | runtime, HTTP routers |
| **Entry points** (WS, `routers/sessions.py`) | subscriptions per socket | start, subscribe, resume, cancel, reply, regenerate, `check_active_turn`, rename, delete | runtime, store |
| PocketBase store | the same tables over HTTP, no lock | list then insert | runtime |
| Stream bus (`core/stream_bus.py`) | subscribers, history, input listeners | emit, subscribe, wait_for_input, close | capabilities, entry points |
| Event bus (`events/event_bus.py`) | queue, processor task | publish, flush, stop | background consumers |
| **Friends and chat** (SOC) | friend requests, friendships, rooms, members, invite codes | request, accept or decline, create a group, join by code, add or remove a member | routers, sockets |
| **Cron** (CRON) | `_jobs`, its JSON file, the scheduler task | add, cancel, tick, run job, start, stop | tool calls, partner manager, executor |
| **Memory consolidator** (`services/memory/consolidator/`, MEM) | one document and meta sidecar per surface or slot; a `Run` per pass with undo stack and event ring; `_order`, `_active` | start, cancel, undo, update, audit, dedup, merge, edit, reset, follow a run | model calls, writer threads, SSE streams |
| **Book engine** (BOOK, `book/compiler.py`) | manifest, spine, page files; queue and worker per book | confirm, rebuild, compile, edit blocks, delete | model calls, the HTTP requests |
| Partners (`services/partners/runtime.py`) | instances, per-session locks | start, stop, inbound message | channels, orchestrator |
| Message tree (SS, `context_builder.py`) | `parent_message_id` links | branch path, delete a turn by message | runtime, routers |
| Learning (`learning/`) | progress record per learner | grade, mastery, next objective, spaced repetition | agents |
| Timetable (`timetable/scheduler.py`) | none (pure) | assign slots | router |
| Knowledge bases, parsing cache | JSON files and indices | stage pipelines | capabilities |
| Capabilities, agents, providers | model conversations | `handle` yields events | runtime |
| Users and grants, MCP, sandbox, launcher, clients | files, child processes, user interfaces | | |

`PROJECT.json` lists each of them with its status. *What makes each correct*:

- Turn runtime: a session has one active turn; recovery finalizes exactly the
  rows that no task will finalize; every task ends with a terminal row;
  an answer announced is an answer stored; what was streamed is kept.
- Streams: every event once, in order, through reconnects; one end per stream;
  the end is reported truthfully; no reader waits for ever.
- Friends and chat: membership changes only through the operations meant for
  it; one friendship and one direct room per pair; a group keeps an owner.
- Memory: one pass over a document at a time; no entity is skipped; undo leads
  back; who follows a run gets its events in order and is let go at its end.
- Book: what is queued is compiled once; no page is left in a transient state;
  what was deleted stays deleted.
- Cron: a one-shot runs once, a cancelled job does not come back, a due job runs.
- Partners: one turn at a time per chat session; a stopped partner is quiet.
- Message tree: a deleted turn leaves a tree, and the selected path is a path.
- Learning, timetable: pure functions with bounds and monotonicity.

**What is hard here.** Everything runs in one asyncio event loop, so the
interleavings are those of suspension points: between orphan recovery and
`create_turn`; between two of the ~20 awaits of `_run_turn` at any of which
`CancelledError` may be thrown; between the table read, the registration and
the buffer copy of a subscriber. `asyncio.to_thread` is not interruptible, so a
cancelled status write may commit after the handler's own, and a cancelled pass
over a memory document may still replace the file. The process may stop anywhere
and only the database or the files survive.

The other services load an object, suspend for seconds or minutes in a model
call, and save the object whole: a memory pass its document, a compilation or an
edit its page, the spine synthesis its book. Users act on the same files
meanwhile. The book worker's queue can time out while a page is enqueued; the
scheduler walks over a copy of a table that is changed while it waits; a ring of
events renumbers under the cursors of its readers. The chat store has no
interleaving inside an operation (one lock, one transaction), but long sequences
of legal calls: leaving, coming back by a code, owners who cannot hand over.

`PROJECT.json` "hazards" lists these at their lines, with the properties meant to
catch them.

## 2. What is modelled

### TurnRuntime

The runtime and the transactions of the SQLite store it uses.

*Granularity.* One event loop: the code between two suspensions is atomic.
`manager._lock` never guards an await, so it is never contended. The store's
`_run` (SS:398) holds the store's lock from before the transaction until the
caller is resumed, so a transaction and the code after it up to the next
suspension are one step to everybody who uses the store. `pc[t]` names the await
the task of turn `t` is suspended in:

    context -> stream <-> paused -> answer -> flush* -> complete -> titleCheck -> titleWrite -> ended
    cancelled: cancelFlush* -> cancelAnswer -> cancelStatus -> ended
    failed:    failFlush* -> failStatus -> ended
    cancelled inside a handler: aborted            process gone: killed

| Variables | Code |
|---|---|
| `sess`, `title`, `msgs`, `nextId`, `row`, `saved` | the tables: sessions, title (sentinel, generated, typed by the user), messages, the autoincrement id, status and error of turns, number of stored events |
| `late` | status writes whose caller was cancelled while the worker thread had not committed |
| `session`, `owner`, `regen`, `events`, `flushTo` | `_TurnExecution` and the turn's payload; an event's seq is its index |
| `executions`, `replyQueues` | `_executions` and `_reply_queues` of the managers |
| `call` | what each concurrent caller is in the middle of |
| `budget` | bound on disturbances |

| Actions | Code |
|---|---|
| `EnsureSession`, `ListActiveTurns`, `FailOrphan`, `RefuseTurn`, `CreateTurn` | `start_turn` (TR:686-854), one step per store operation |
| `Regenerate`, `LastUser`, `LastMessage`, `DeleteMessage` | `regenerate_last_turn` (TR:856-964), which then goes on with `start_turn` |
| `PersistUserMessage` ... `MarkUnwound` | `_run_turn` (TR:1173-1861): message, stream, questions, answer, flush, status, title, the two handlers and the finally block |
| `CancelLive`, `CancelReturns`, `CancelOrphan`, `CancelRow` | `cancel_turn` (TR:966-982), with `Interrupt` the delivery of `CancelledError` at whatever await the task is in |
| `CheckActiveTurn` | the stale-row branch of `check_active_turn` (WS:160-193) |
| `SubmitUserReply`, `RenameSession`, `DeleteSession` | replies and the sessions router |
| `LateWrite` | the worker thread of a cancelled status write |
| `Restart` | process death and start |

*Abstracted:* the text of questions and answers, the context builder,
capabilities and models (a run emits up to `MaxOutput` events, may ask the user,
may raise, ends at any time), event metadata, and logging. Reads that only feed
the prompt are not steps of their own. A message insert or an event insert whose
caller is cancelled either commits or does not; only status writes, where it
changes what the row says, may commit later (`late`).

### TurnLease

The abstract promise of the `turns` table: a session is leased to one turn at a
time; a turn gets the lease once in its life and never back. `TurnRuntime`
refines it: `held` is the set of running rows of a session, `used` the turns
ever created.

### TurnStream

EXTENDS TurnRuntime with readers: the generator `subscribe_turn` (backlog from
the table; registration and copy of the buffer under the lock; live queue;
catch-up, orphan check and synthesized DONE when no task runs), what
`_publish_live_event` and the finally block put in its queue, and a client that
loses its connection and resumes after the last event it *received* (`Drop` may
lose any suffix of what was sent). `Feed` derives the queue's contents from what
a runtime step publishes, so no action of TurnRuntime has to know of it.

### MemoryDoc

One memory document (an L2 surface or an L3 slot) with everything that changes
it. A step runs from one suspension to the next; a file is replaced by a thread,
which lands on its own.

| Variables | Code |
|---|---|
| `known` | L1 entities in the snapshot: 1..`known`; a chunk is one entity, and the fact drawn from entity e is the piece e of a document |
| `doc`, `meta` | the file (a set of pieces, or `NoFile`), `seen_entity_refs` of the sidecar |
| `writes` | `_atomic_write` calls a thread has not finished |
| `run`, `active` | `Run` objects with what their task holds (`plan`, `mem`, `todo`, `seen`, `prev`), undo stacks, `_active` |
| `offered`, `base`, `mixed` | history: entities a model was called for; the document a run began with; runs whose writes met somebody else's |

`Start`, `Cancel` and `Undo` are the methods of `RunManager` (RUNS:156-234),
`Begin`, `AnswerUpdate`, `AnswerEdit`, `Written`, `Fails`, `Cancelled` the task
(`_drive` around `modes/update.py`, `audit.py`, `dedup.py`, `merge.py`), `Save`
and `Reset` the editor and the reset endpoint, `Lands` and `WriteFails` the
threads. A model call that fails answers with nothing, as the modes do.
*Abstracted:* entities are only added; the text of facts and references, parsing
and serializing; an audit and a dedup are both passes of `MaxEdits` calls that
may each drop a piece; a merge writes what it read (its ordering and numbering
are text) or finds nothing to change.

### RunManager

The registry of runs of all documents: `order` (`_order`, whose members are the
keys of `_runs`), `active`, `run` with the number of events emitted. The ring is
not a sequence but a window: once it is full, position i holds emission
`Dropped` + i + 1. Followers are the producers of the two endpoints around
`wait_for_events`: `Replayers` of `GET /runs/{id}/events` (MEM:410-451) and
`Legacy` streams of the mode endpoints (MEM:459-506), each suspended in a send
(`Sent`) or waiting for an event (`Wakened`). The events that one step emits
without suspending are one event.

MemoryDoc and RunManager model the same object twice on purpose: MemoryDoc keeps
its effect on a document and needs one key, RunManager keeps registry and events
and needs two. They share `Start`, `Cancel` and the end of `_drive`.

### BookEngine

One book: status, spine, page files; `queue` and `queued` of `_BookRuntime`;
and `task`: the background worker and the user's requests, each with the
`Page` object it loaded (`copy`) and the block it is at. `runtime.lock` and the
engine's lock are held over no suspension, so they do not appear. `Take`,
`Planned`, `Generated`, `WorkerExits` are the worker around
`BookCompiler.compile_page`; `ConfirmProposal` ... `DeleteBook` the stages;
`CompilePage`, `InsertBlock`, `InsertNote`, `DeleteBlock`, `Regenerate`,
`EditDone` the requests on a page; `Restart` the process.
A spine is the set of its chapters: `Listed` and `Enqueue` give the pages of a
confirmed spine to the queue, `Shells` makes them. *Abstracted:* content of blocks
(a block is pending, ready, in error, or a note of the user), chapters are numbers
and their order is that of the numbers (reordering chapters is left out), a
request is one at a time per member of `Requests`. Left out: the overview page
(built in the step that makes it), the order of blocks, quiz progress, the log.

### CronService

The table (`job`, `jobs`), the file (`disk`), the scheduler (`loop`, `todo`,
`tickAt`, `running`, `alarm`, `wake`). `Tick` is a turn of `_loop` up to the
first job that is due in the copy `_tick` goes through, `RunReturns` and
`RunRaises` the rest of `_run_job` and of the tick. A save may raise anywhere it
is called. `Start` loads the file and drops one-shots that came due while the
service was down. `Crash` is a stop of the server or its death: both lose the
running job and the table. *Abstracted:* the clock is a counter that only goes
forward; an interval or cron expression is next due one tick after it was
computed; what a job does (the executor) is what the scheduler waits for.

### FriendGraph and SocialStore

`FriendGraph` is the promise: a friendship needs one who asked and one who
accepted; a pair has one open question at most; friends are not asked again.
`SocialStore` has the tables (`requests`, `friendships`, `rooms`, `members`,
`codes`), one action per operation of SOC that changes a table, each one
transaction under the store's lock; an operation that raises cannot be taken.
Friendships keep the id of the request they answer, so that a double row is
visible. `usedRooms` is history (a room id is a uuid, never given twice).

### MC modules

Each `MC...` module gives the constants of its module values for TLC
(`TwoPlans` for MemoryDoc, `Interchangeable` the symmetry of users, requests,
rooms and codes for SocialStore); nothing of the modelled code is replaced.

## 3. What is checked

| Run | Bounds | What it shows |
|---|---|---|
| `turn_core` | 2 callers, 1 session, 2 turns, 1 output event, one each of cancel, restart, failure, regenerate, delete, rename; the callers are symmetric | the safety properties below, and that the turns table refines the lease (1.2M states) |
| `turn_live` | the same callers and turns; one each of cancel, reply, failure, delete; fairness | tasks end, calls return |
| `turn_stream` | 1 caller, 1 turn, 2 output events, 1 reader; one each of cancel, restart, failure, drop, delete, rename; fairness | what readers get |
| `turn_orphan_label`, `turn_two_managers`, `turn_title` | minimal budgets | the findings (section 6) |
| `memory_doc` | 2 runs of an update with merge or of an audit/dedup, 2 entities, 1 edit or reset of the user; fairness | watermark, undo, that runs end (217k states) |
| `run_manager` | 2 documents, 2 runs of up to 4 events, a ring of 3, a history of 1, a replaying and a legacy stream; fairness | registry and event streams (843k states) |
| `run_events_lost` | 1 run, a ring that never overflows | a finding (section 6) |
| `book_engine` | 2 pages and chapters, 2 blocks, 1 request beside the worker, 1 block edit; fairness | queue, pages, deletion (356k states) |
| `cron` | 2 jobs, times 0 to 3; fairness | one-shots, cancellation, due jobs (129k states) |
| `social` | 3 users, 3 requests, 2 rooms, 2 codes; symmetric | tables and promise (9.7k states up to symmetry) |

*Why the bounds are enough.* Turns: the hazards are races of two callers on a session,
or of one caller with the task of a turn; a second turn is needed so that one
can be started while the other unwinds or is an orphan, and a third would repeat
the second. Sessions do not interact except through `EnsureSession`, which can
only hand out a fresh one. Readers do not interact with each other: each has its
own queue, so one is enough; two output events distinguish "lost", "doubled" and
"reordered". One disturbance of each kind still combines with all the others.
Two cancellations of one task (needed for `aborted`) happen because a
failing task can be cancelled once in its handler; two *cancellations* of one
task lead to the same states. Checking for deadlock is off because turn ids and
disturbances run out; that nothing blocks is what the liveness properties say.

Memory: two runs can meet in the registry and in undos out of order, and a
third could only meet another; two entities give an update two chunks, so that
there is a "between two chunks". With a ring of 3 and 4 events the ring
overflows while streams hold cursors; with a history of 1 the second run already
asks for the eviction of the first, active or not. Book: the second page is the
one that waits in the queue while the first is compiled, deleted or edited; one
request beside the worker is every race of two copies of a page. Cron: the
second job is the one that is due, cancelled or added while the first runs; three
ticks are a due time, one before and one after it. Friends: three users are a
pair and a third who asks one of them, joins or is added; a request may be
declined and asked again; two rooms tell a code or a member of one from the
other's, and a direct room from a group. The proofs below remove the
bounds for the safety properties of every module; what rests on the bounds is
liveness. Deadlock checking is off in all runs for the reason above: ids, edits and
time run out.

Properties of `turn_core`: `OneRunningTurn`, `OneWorkingTurn` (no two tasks write
to one session), `InterruptedMeansNoRunner` (recovery does not take a live,
paused or unwinding turn for an orphan), `EndedTurnIsTerminal`,
`CompletedTurnIsWhole` (a completed row has its answer and its events, also after
a restart), `DoneIsDurable` (after DONE was streamed no restart turns the answer
into an interrupted one), `OutputIsKept` (cancelling at any await keeps the
visible work), `RefusedOnlyIfLive` (a row left by a restart never locks its
session), `RefinesLease`, `TypeOK`.
Of `turn_live`: `TaskEnds`, `CallReturns`.
Of `turn_stream`: `NoGapNoDuplicate`, `OneDoneThenMeta`, `OverMeansDone`,
`NoFalseSuccess`, `SubscriptionEnds`, `StreamTypeOK`.

Of `memory_doc`: `SeenWasOffered` (cancelled, failed or running, an update never
moves the watermark past an entity no model has read), `UndoReturnsToStart`
(undoing all checkpoints of a run restores the document it found, whatever mixture
of passes wrote and wherever it failed), `DocumentIsFreed` (every run ends),
`TypeOK`.
Of `run_manager`: `OneActiveRun` (the active run of a document stays registered
and named, also when the history evicts), `LegacyHasPrefix`, `NoRepeat` (streams
skip nothing before an overflow, and never repeat), `FollowersAreReleased`.
Of `book_engine`: `QueueIsServed` (what is marked queued is in the queue once or
with the worker, and then there is a worker), `NotStranded` (a page says it is
being planned or generated only while somebody does it), `BackgroundNeverResurrects`
(the worker brings back no deleted page), `QueuedPagesAreServed`, `TypeOK`.
Of `cron`: `OneShotRunsOnce`, `CancelledStaysGone`, `DueJobsRun`.
Of `social`: `OnePerPair`, `GroupKeepsOwner`, `RoomsAreWhole`,
`DirectRoomsStayClosed`, `KeepsPromise` (the refinement of FriendGraph), `TypeOK`.

Each has a mutant of the code's model that breaks it; the mutated definitions
stand above the definitions they vary.

*What the properties leave open, because the code does.* `OneWorkingTurn` and the
transcript properties speak of sessions that exist (a deleted session's task goes
on until its next write). `DoneIsDurable` admits `cancelled`: a cancellation
during title generation changes a completed row. `RefusedOnlyIfLive` admits a
turn whose task was torn down inside its handler a moment ago. The answer-related
properties hold until a regenerate deletes an answer.

`UndoReturnsToStart` leaves out the runs in `mixed`: somebody else wrote while the
run or its undo did (the code merges nothing), two undos of it overlapped, an
undo's write failed, or it was cancelled inside a write, whose thread goes on
without leaving a checkpoint. `NotStranded` leaves out what a restart interrupted:
the queue is not persisted, and the `resume_book()` of the engine's docstring
(BOOK:18) does not exist. `BackgroundNeverResurrects` speaks of the worker: a
compilation that a request runs itself is stopped by nothing, and its next save
does bring back a deleted page. `CancelledStaysGone` speaks of the table: a job
cancelled while a tick runs is still started if it was due in the tick's copy.
`DueJobsRun` is promised while jobs end: `execute_job` has no timeout, and a job
that hangs holds up all others. `GroupKeepsOwner` holds because an owner can
neither hand over a group nor leave it to others.

*Fairness.* `FairSpec` has weak fairness of each task, of each call in progress
and of late commits: the event loop runs every ready callback, the executor
every submitted transaction, and the model calls have timeouts or end
(`StreamEnds` is always possible while streaming). Nothing is assumed of users:
no fairness on replies, cancellations, new requests, reconnects. This is why
`TaskEnds` and `SubscriptionEnds` stop at `paused`: `ask_user` has no timeout.
`MaxOutput` bounds what one run emits, as the iteration limits of the agent loops
do.

The other specifications follow the same rule: MemoryDoc has weak fairness of each
run's task (model calls have timeouts, and a failed one counts as an empty answer)
and of the writer threads; RunManager of tasks and of followers (a response's send
returns, or its client is gone); BookEngine of the worker only; CronService of the
scheduler and of time. No user is obliged to anything.

## 4. What is proved

With tlapm, for every value of the constants.

### Turns

- `TurnRuntimeProofs`, with no assumption but `ConstantsAssumption`, for any number
  of managers:
  - `TypeCorrect`, `Spec => []TypeOK`;
  - `StoryHolds`: `StoryInv` and `AnswerStory` are invariants (below);
  - `CompletedTurnIsWholeHolds`, `OutputIsKeptHolds`.
- `TurnSafetyProofs`: under `OneManagerOnly` (all calls go through one
  `TurnRuntimeManager`, what one server process over SQLite is, since the
  registry is keyed by `db_path`):
  - `TurnInvariant`: `TurnInv` is an invariant, and it is inductive (with TypeOK);
  - `OneRunningTurnHolds`, `OneWorkingTurnHolds`,
    `InterruptedMeansNoRunnerHolds`, `EndedTurnIsTerminalHolds`;
  - `DoneIsDurableHolds`, `RefusedOnlyIfLiveHolds`;
  - `ImplementsLease`: `Spec => RefinesLease`.

The assumption is not a convenience: `turn_two_managers` shows what happens without.

*The story of a turn* (`StoryInv`, `AnswerStory`). A completed row promises things
about the buffer, the table of events and the transcript, which are written by
different steps of the task, any of which may be the last. `Story` relates phase,
published events, `flushTo`, stored events, row and session: before the stream ends nothing is to be flushed and no DONE is
published; what is to be flushed (`flushTo`) covers everything the user saw, and
nothing is published after DONE but metadata; a task at its flush has stored less
than that, a task about to complete all of it; a completed row has it stored. A
status whose writer was cancelled may still be a "completed", so it is part of the
story too (`LateStory`). `AnswerStory` says the same of the answer: it is kept from
the step that stores it on, unless the session is deleted or something is
regenerated, and only a call of regenerate deletes messages (`RegenerateStory`). A
task that was cancelled with output on its hands has kept it before it writes its
status, or has failed, and then it says so in its events.

*The invariant of one manager.* The row properties are not inductive. What they rest
on is (`TurnInv`): a turn is in `_executions` exactly while its task is active
(`Registered`), so "no live execution" means that the task is gone; a working
task of an existing session has a running row (`WorkingRuns`), so the check in
`create_turn` sees it; a call between its look at memory and its write
(`recover`, `cancelRow`, `staleRow`) aims at a turn that was killed or aborted
and will never run again (`PendingOverwrite`); a late write belongs to a task
that is past its work (`LateIsOver`); a task that generates a title has left
its row terminal (`Settled`), so that any way out of that phase ends with a
terminal row; turns never started have no row, started ones a session (`Unborn`,
`SessionsExist`).

*The argument.* `TurnInv` reads few variables, so `StepKinds` first shows that
every step is one of six kinds - a step of a task, a quiet step of a call, a
status written from outside, `CreateTurn`, `DeleteSession`, `Restart` - and one
lemma per kind shows that it keeps the invariant. The refinement follows the
same kinds: only `CreateTurn` acquires, and any step that takes the running row
away releases.

`DoneIsDurable` needs to know what is pending against a turn (`DoneInv`): a "failed"
that a thread still has to write belongs to a task that published its failure, and so
never a completion; a recovery about to write has found its turn running, hence not
told completed. `RefusedOnlyIfLive` needs to know what a start has seen
(`RefuseInv`): between its look at the rows and `create_turn` there is no row in its
session that a restart left running, but the one it is about to fail.

### Subscribers: TurnStreamProofs

For any number of subscribers, turns and managers: `StreamTypeCorrect`,
`SubscribersHold`, `NoGapNoDuplicateHolds`, `OneDoneThenMetaHolds`,
`OverMeansDoneHolds`, `NoFalseSuccessHolds`.

The invariant (`SubInv`) says of each subscriber that it received 1..n of its turn's
events, and, while it is live, what its queue holds: the events from some point no
later than n + 1 up to the last one published, and the sentinel exactly when the task
is over (`Following`). "No later" is the gap that cannot arise between backlog,
buffer and queue; the overlap is what `last_seq` hides. The sentinel is last because
the finally block unregisters the turn in the step that sends it, and by the story of
the turn a DONE was published before: hence a stream that ends at the sentinel has
its DONE. A synthesized "completed" was read from a row, so by the story of the turn
its events and answer are stored; `NoFalseSuccess` exempts what was regenerated since,
because regenerating deletes the answer.

A reader is not passive: without a runner, `subscribe_turn` fails a running row as an
orphan, one suspension after it looked. Under `OneManagerOnly`:

- `SharedInvariant`: `TurnInv`, `DoneInv` and `RefuseInv` are invariants of the runtime
  *with* its readers (`StreamSpec`), with `OrphanIsOver` for the reader between its look and its
  write: its turn has lost its task and never told that it was completed, and whatever
  the runtime does meanwhile leaves it so;
- `ReadersInterruptNobody`, `ReadersKeepDone`, `ReadersRefuseNobody`,
  `ReadersImplementLease`: the safety properties of the runtime, and its refinement of
  the lease, hold in the composition.

### Friends and chat: SocialStoreProofs

`TypeCorrect`, `OnePerPairHolds`, `GroupKeepsOwnerHolds`, `RoomsAreWholeHolds`,
`DirectRoomsStayClosedHolds` and `ImplementsFriendGraph` (`Spec => KeepsPromise`),
without any assumption on users, rooms or codes.

`OnePerPair` is inductive as it stands. The rooms part (`RoomInv`) is `RoomsAreWhole /\ GroupKeepsOwner` with `RoomsKnown` (an id names one
room and was given out, so that a new room starts empty) and
`OwnersInGroups` (only groups have owners, so that only their owner regenerates a
code). For the refinement each operation maps to one step of FriendGraph or to a
stutter: the pairs must be unambiguous (`OnePerPair`) for an answer to remove
exactly the question it answers.

### Cron: CronServiceProofs

`TypeCorrect`, `CancelledStaysGoneHolds`, `OneShotRunsOnceHolds`, from
`CronAssumption`. The invariant behind the last one (`OneShotInv`) says where a
started one-shot can still be: not in the table unless it is the one running
(`StartedIsSpent`), in the file perhaps, but then with the due time it had, which
is past (`FileAgrees`), so that a restart drops it; the list a tick still has to go
through names each job once (`TodoHasEachOnce`), and no job was started before it
was made (`NotStartedBeforeMade`). Without the drop at start the invariant fails at
the crash between a run and the save that removes it.

### Memory documents: MemoryDocProofs

`TypeCorrect`, `OneActiveRunHolds`, `SeenWasOfferedHolds`,
`UndoReturnsToStartHolds`, from `MemoryAssumption` (a plan is a nonempty sequence of
passes). Every step of a task ends in one of three ways, which `Outcome` states
once: the run ends, waits for its write, or waits for a model; each invariant is
then shown for the three.

`SeenInv`: what an update has in its hands as seen is offered already or still to
do; the watermark therefore moves to a set that is offered. `UndoInv`: a begun run
that is not mixed is alone (`Alone`), and is clean (`Clean`): what lies at the
bottom of its undo stack, or else the document itself, or else the content kept
aside by the write in flight, is the document it found; the writes in flight are
its own, one at a time.

### Runs and their streams: RunManagerProofs

`TypeCorrect`, `OneActiveRunHolds`, `NoRepeatHolds`, `LegacyHasPrefixHolds`, from
`RunManagerAssumption` (the limits are positive, no client is of both kinds). The
ring size and the history limit are arbitrary, as are the documents and clients.

`OneActiveRun` is inductive with `RegistryOK`: eviction removes a prefix of the
history without any active run in it (`EvictFacts`), the new run is its last member
and never removed, and a run that ends gives back a key that is its own. For the
streams the ring is a window over the numbered events: `Dropped` are gone, `Length`
are in it, and both only grow. The invariant `Streams` compares every number a
client has with the emission its cursor stands for, `Dropped + cursor`: a cursor
keeps its value when the ring drops an event, and thereby moves forward, over an
event the client does not have (skipped) and never back over one it has (repeated).
While nothing is dropped and the cursor counts what was sent, as in the legacy
stream, the two are equal (`LegacyHasPrefix`).

### Books: BookEngineProofs

`TypeCorrect`, `BookHolds`, `QueueIsServedHolds`, `NotStrandedHolds`,
`BackgroundNeverResurrectsHolds`, from `BookAssumption` (the bounds are natural
numbers, there is a chapter, the worker is no request) and `AbsentIsNoPage` (a file
that is not there is no page), for any number of requests, chapters, pages, blocks
and edits.

Every action is one of seven kinds of steps or changes nothing (`Kinds`): a step of a
compilation, another step of a request, the worker dropping a page or ending, a
confirmation, a rebuild, the deletion of the book, a restart. `BookInv` is `TypeOK`,
`QueueIsServed` and `NotStranded` with `WorkerHasPage`: a worker that compiles has a
page that exists, though the user deletes pages and books meanwhile; so what the
worker saves next is never a page that was deleted. The queue is
kept as one statement about what is marked, listed and in the worker's hands
(`Serves`): `confirm_spine` and a rebuild add exactly the pages that are not marked
yet, in the order of their chapters and each once (`ShelledServed`), so nothing is
compiled twice. `BackgroundNeverResurrects` then follows from each kind of step.

### Only model-checked

Every safety property of a passing run is stated by a theorem. Only model-checked are
the seven liveness properties, `TaskEnds`, `CallReturns`, `SubscriptionEnds`,
`DocumentIsFreed`, `FollowersAreReleased`, `QueuedPagesAreServed` and `DueJobsRun`:
fairness and ENABLED are out of the prover's reach. The properties that the four runs of
section 6 refute are no theorems.

## 5. What is not modelled, and why

- Errors of the database other than a missing row, a full disk, a locked file:
  the branch "post-stream persistence failed" of `_run_turn` is reached only by
  them.
- The orchestrator's inside, context building, attachments, notebooks, memory:
  they do not touch the state above, except by raising.
- The PocketBase store's own races (no lock, two requests per `create_turn`); it
  is only covered as the origin of several managers over one database.
- `subscribe_session` (reads a turn id, then is `subscribe_turn`), the heartbeat,
  a socket's own task management.
- Memory: the first generation of the consolidator (`consolidate_l2`,
  `consolidate_l3`), preferences, migrations, L1 traces and snapshots.
- Book: ideation, deep-dive pages, moving blocks, quiz progress, the log, drift of
  knowledge bases.
- Cron: the executor and the parsing of cron expressions. The comment that
  `_load` "picks up externally-edited stores" (CRON:29-31) is not a behaviour to
  model: `_load` returns as soon as the table was loaded once.
- Friends: the message table, which no operation uses yet.
- Stream bus and event bus: emit never suspends, so a step has no interleaving of
  its own; what is lost between a bus and its reader is covered by TurnStream.
- Partners, message tree, learning, timetable, the traffic controller: planned.
- Capabilities, agents, providers, knowledge bases, parsing, users, MCP, sandbox,
  launcher, clients: model-driven loops, file and network I/O, or user interfaces;
  see their notes in `PROJECT.json`.

## 6. Findings

- `turn_orphan_label`: a comment (TR:1788-1790) says that every step of the
  handlers is suppressed separately so that the status update always runs.
  `suppress(Exception)` does not suppress `CancelledError`: a `cancel_turn`
  delivered while a handler flushes or writes its status leaves the row running
  without a task, and the next `start_turn` reports a server restart.
- `turn_two_managers`: the recovery's docstring (TR:668-672) takes a running row
  without local execution for a leftover of a restart; with a second manager over
  the database the live turn of the first is marked interrupted.
- `turn_title`: the docstring of title generation (TR:1903-1905) says it
  short-circuits once the user has renamed the chat; the title is read before
  the model call and written after it.
- `run_events_lost`: the docstring of runs.py (RUNS:4-7) says that a client that
  re-attaches replays everything it missed. The stream moves its cursor, after a
  batch, to the end of the ring as it is *then* (MEM:438): what the run emitted
  during the sends is skipped, `run_ended` included.

Not a finding, but worth knowing: `FRIENDS_CHAT_PLAN.md`:148 says "owner adds an
existing friend", while any member may add any user (SOC:361-384); no code or test
says so, and the model has what the code does. `confirm_spine` on a finished book
leaves it `compiling`, since nothing is queued that would finish it again;
`confirm_proposal` saves the book it loaded before the model call.

## 7. Plan

Done: the turn core with its streams, SocialStore with FriendGraph, CronService,
MemoryDoc, RunManager and BookEngine, each with proofs of its safety.

Next, in this order:

1. Proofs that say more: why no task is stuck, as safety (whenever a task or a call is
   not over, the step it waits for is possible), which is the part of the liveness
   properties that needs no fairness.
2. **MessageTree**: deletion by message and branch selection over
   `parent_message_id`, and with it a property of `regenerate_last_turn` (the old
   answer is lost when the new turn is refused).
3. **PartnerRunner**: per-session locks, stop while a message is handled.
4. **TrafficController**: slots, tokens, timeouts, and the slot a cancelled request
   does not give back (`services/llm/traffic_control.py`:103).
5. **Learning** and **Timetable** as functions against reference definitions.
