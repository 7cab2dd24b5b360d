----------------------------- MODULE TurnRuntime -----------------------------
(***************************************************************************)
(* TurnRuntimeManager (edux/services/session/turn_runtime.py) over the     *)
(* SQLite session store: how a turn is started, run in a background task,  *)
(* cancelled, persisted, and found again after a restart.                  *)
(*                                                                         *)
(* Granularity.  The runtime is one asyncio event loop, so the code        *)
(* between two suspension points is atomic.  manager._lock never guards an *)
(* await and so never suspends.  Every store operation holds the store's   *)
(* own lock from before its transaction until its caller has resumed       *)
(* (sqlite_store.py, _run), so a transaction and the code that follows it, *)
(* up to the caller's next suspension, are one step for everybody else.    *)
(* pc[t] names the await the task of turn t is suspended in.               *)
(***************************************************************************)
EXTENDS Integers, Sequences, FiniteSets
LOCAL INSTANCE SequencesExt   \* RemoveAt

CONSTANTS
    Sessions,    \* session ids the store can hand out
    Turns,       \* turn ids, each used by at most one create_turn
    Clients,     \* concurrent callers: sockets and HTTP handlers
    Managers,    \* TurnRuntimeManager objects over one database
    ManagerOf,   \* the manager a client's calls go through
    MaxOutput,   \* bound: events one orchestrator run may emit
    Budget       \* bound: how often each disturbance may happen

Disturbances ==
    {"restart", "cancel", "delete", "rename", "fail", "reply", "regenerate", "drop"}

ASSUME ConstantsAssumption ==
    /\ Sessions # {} /\ Turns # {} /\ Managers # {}
    /\ ManagerOf \in [Clients -> Managers]
    /\ MaxOutput \in Nat
    /\ Budget \in [Disturbances -> Nat]

VARIABLES
    sess,          \* sessions table: "unused" | "live" | "deleted"
    title,         \* sessions.title, as far as title generation tells titles apart
    msgs,          \* messages table, in id order
    nextId,        \* next autoincrement id of messages
    row,           \* turns table: status and error
    saved,         \* turn_events table: how many events of a turn are stored
    late,          \* status writes whose caller was cancelled, still to commit
    session,       \* _TurnExecution.session_id
    owner,         \* the manager that runs the turn
    regen,         \* payload config _regenerate of the turn
    pc,            \* the await the turn's task is suspended in
    events,        \* _TurnExecution.events; an event's seq is its index
    flushTo,       \* last seq copied by _flush_buffered_events, 0 before it ran
    executions,    \* _executions of every manager
    replyQueues,   \* _reply_queues: replies waiting, or NoQueue
    call,          \* the call each client is in
    budget         \* disturbances left

storeVars  == <<sess, title, msgs, nextId, row, saved>>
taskVars   == <<session, owner, regen, pc, events, flushTo>>
memoryVars == <<executions, replyQueues>>
vars == <<storeVars, late, taskVars, memoryVars, call, budget>>

NoQueue == -1
Terminal == {"completed", "failed", "cancelled"}

(* Phases of _run_turn, by the await they are suspended in. *)
Working   == {"context", "stream", "paused", "answer", "flush", "complete"}
Titling   == {"titleCheck", "titleWrite"}
Unwinding == {"cancelFlush", "cancelAnswer", "cancelStatus", "failFlush", "failStatus"}
Over      == {"ended",    \* the coroutine reached its last line
              "aborted",  \* a CancelledError left one of its handlers
              "killed"}   \* the process went away
Active    == Working \cup Titling \cup Unwinding

Idle == [op |-> "idle", s |-> CHOOSE s \in Sessions : TRUE,
         t |-> CHOOSE t \in Turns : TRUE, m |-> 0, regen |-> FALSE]

Init ==
    /\ sess = [s \in Sessions |-> "unused"]
    /\ title = [s \in Sessions |-> "default"]
    /\ msgs = [s \in Sessions |-> <<>>]
    /\ nextId = 1
    /\ row = [t \in Turns |-> [status |-> "absent", why |-> ""]]
    /\ saved = [t \in Turns |-> 0]
    /\ late = {}
    /\ session = [t \in Turns |-> CHOOSE s \in Sessions : TRUE]
    /\ owner = [t \in Turns |-> CHOOSE m \in Managers : TRUE]
    /\ regen = [t \in Turns |-> FALSE]
    /\ pc = [t \in Turns |-> "none"]
    /\ events = [t \in Turns |-> <<>>]
    /\ flushTo = [t \in Turns |-> 0]
    /\ executions = {}
    /\ replyQueues = [t \in Turns |-> NoQueue]
    /\ call = [c \in Clients |-> Idle]
    /\ budget = Budget

Spend(d) == budget[d] > 0 /\ budget' = [budget EXCEPT ![d] = @ - 1]

(***************************************************************************)
(* Queries.                                                                *)
(***************************************************************************)
\* Mutant: a turn that waits for a reply is not counted as running.
LiveUnlessPaused(m, t) == <<m, t>> \in executions /\ pc[t] # "paused"

Live(m, t) == <<m, t>> \in executions
RunningIn(s) == {t \in Turns : row[t].status = "running" /\ session[t] = s}
HasOutput(t) == \E i \in 1..Len(events[t]) : events[t][i] = "output"
OutputCount(t) == Cardinality({i \in 1..Len(events[t]) : events[t][i] = "output"})
SessionLive(t) == sess[session[t]] = "live"
Has(s, r) == \E i \in 1..Len(msgs[s]) : msgs[s][i].role = r
Answers(t) == {i \in 1..Len(msgs[session[t]]) :
                 msgs[session[t]][i].turn = t /\ msgs[session[t]][i].role = "assistant"}

(***************************************************************************)
(* Transactions of the store.                                              *)
(***************************************************************************)
AddMessage(s, r, t) ==
    IF sess[s] = "live"
    THEN /\ msgs' = [msgs EXCEPT ![s] = Append(@, [id |-> nextId, role |-> r, turn |-> t])]
         /\ nextId' = nextId + 1
         /\ UNCHANGED <<sess, title, row, saved>>
    ELSE UNCHANGED storeVars

\* No guard on the status a row already has: the last writer wins.
SetStatus(t, status, why) ==
    /\ row' = [row EXCEPT ![t] = IF @.status = "absent" THEN @
                                 ELSE [status |-> status, why |-> why]]
    /\ UNCHANGED <<sess, title, msgs, nextId, saved>>

AppendTurnEvent(t) ==
    /\ saved' = [saved EXCEPT ![t] = IF row[t].status = "absent" THEN @ ELSE @ + 1]
    /\ UNCHANGED <<sess, title, msgs, nextId, row>>

SetTitle(s, value) ==
    /\ title' = [title EXCEPT ![s] = IF sess[s] = "live" THEN value ELSE @]
    /\ UNCHANGED <<sess, msgs, nextId, row, saved>>

\* Mutant: the phase is written where a status belongs.
StatusWriteOfPhase(phase) == [status |-> phase, why |-> ""]

(* The row a suspended status update is about to write. *)
StatusWrite(phase) ==
    CASE phase = "complete"     -> [status |-> "completed", why |-> ""]
      [] phase = "cancelStatus" -> [status |-> "cancelled", why |-> "cancelled"]
      [] OTHER                  -> [status |-> "failed", why |-> "error"]

(* The transaction the task of turn t is suspended in.  A phase that waits *)
(* for something else (the model, a reply, a read) writes nothing.         *)
PendingWrite(t) ==
    \/ pc[t] = "context" /\ ~regen[t] /\ AddMessage(session[t], "user", t)
    \/ pc[t] \in {"answer", "cancelAnswer"} /\ AddMessage(session[t], "assistant", t)
    \/ pc[t] \in {"flush", "cancelFlush", "failFlush"} /\ AppendTurnEvent(t)
    \/ /\ pc[t] \in {"complete", "cancelStatus", "failStatus"}
       /\ SetStatus(t, StatusWrite(pc[t]).status, StatusWrite(pc[t]).why)
    \/ pc[t] = "titleWrite" /\ SetTitle(session[t], "generated")

(***************************************************************************)
(* Pieces of _run_turn shared by its steps.                                *)
(***************************************************************************)
Publish(t, evs) == events' = [events EXCEPT ![t] = @ \o evs]

Goto(t, phase) ==
    /\ pc' = [pc EXCEPT ![t] = phase]
    /\ UNCHANGED memoryVars

\* The finally block: drop the reply queue, wake the subscribers, unregister.
Finish(t, how) ==
    /\ pc' = [pc EXCEPT ![t] = how]
    /\ executions' = executions \ {<<owner[t], t>>}
    /\ replyQueues' = [replyQueues EXCEPT ![t] = NoQueue]

\* What _flush_buffered_events copies under the lock, once per execution.
StartFlush(t) == flushTo' = [flushTo EXCEPT ![t] = Len(events'[t])]

\* Mutant: the partial answer is not stored.
AfterCancelFlushNoAnswer(t) == "cancelStatus"

AfterCancelFlush(t) == IF HasOutput(t) THEN "cancelAnswer" ELSE "cancelStatus"

\* except Exception, up to its first await.
EnterFailure(t) ==
    /\ Publish(t, <<"error", "failed">>)
    /\ StartFlush(t)
    /\ Goto(t, "failFlush")

\* Mutant: stream_done_sent is not looked at.
EnterCancelAlwaysPublish(t) ==
    /\ Publish(t, <<"error", "cancelled">>)
    /\ IF flushTo[t] = 0
       THEN StartFlush(t) /\ Goto(t, "cancelFlush")
       ELSE UNCHANGED flushTo /\ Goto(t, AfterCancelFlush(t))

\* except asyncio.CancelledError, up to its first await.
EnterCancel(t) ==
    /\ IF pc[t] \in Titling THEN UNCHANGED events
                            ELSE Publish(t, <<"error", "cancelled">>)
    /\ IF flushTo[t] = 0
       THEN StartFlush(t) /\ Goto(t, "cancelFlush")
       ELSE UNCHANGED flushTo /\ Goto(t, AfterCancelFlush(t))

(***************************************************************************)
(* The task of a turn: _run_turn.                                          *)
(***************************************************************************)
TaskUnchanged == UNCHANGED <<late, session, owner, regen, call, budget>>

\* The user message is stored and the orchestrator begins.
PersistUserMessage(t) ==
    /\ pc[t] = "context"
    /\ regen[t] \/ SessionLive(t)
    /\ IF regen[t] THEN UNCHANGED storeVars ELSE PendingWrite(t)
    /\ Goto(t, "stream")
    /\ UNCHANGED <<events, flushTo>>
    /\ TaskUnchanged

\* add_message finds no session row: ValueError.
MessageRefused(t) ==
    /\ \/ pc[t] = "context" /\ ~regen[t]
       \/ pc[t] = "answer"
    /\ ~SessionLive(t)
    /\ EnterFailure(t)
    /\ UNCHANGED storeVars
    /\ TaskUnchanged

\* An orchestrator event: published, remembered for the assistant message.
StreamOutput(t) ==
    /\ pc[t] = "stream"
    /\ OutputCount(t) < MaxOutput
    /\ Publish(t, <<"output">>)
    /\ UNCHANGED <<storeVars, pc, memoryVars, flushTo>>
    /\ TaskUnchanged

\* ask_user: the loop publishes its question and waits on the reply queue.
AskUser(t) ==
    /\ pc[t] = "stream"
    /\ OutputCount(t) < MaxOutput
    /\ Publish(t, <<"output">>)
    /\ Goto(t, "paused")
    /\ UNCHANGED <<storeVars, flushTo>>
    /\ TaskUnchanged

TakeReply(t) ==
    /\ pc[t] = "paused"
    /\ replyQueues[t] > 0
    /\ replyQueues' = [replyQueues EXCEPT ![t] = @ - 1]
    /\ pc' = [pc EXCEPT ![t] = "stream"]
    /\ UNCHANGED <<storeVars, executions, events, flushTo>>
    /\ TaskUnchanged

\* orch.handle is exhausted; its DONE event is held back.
StreamEnds(t) ==
    /\ pc[t] = "stream"
    /\ Goto(t, "answer")
    /\ UNCHANGED <<storeVars, events, flushTo>>
    /\ TaskUnchanged

\* The context builder, the model or a tool raises.
RunFails(t) ==
    /\ pc[t] \in {"context", "stream"}
    /\ Spend("fail")
    /\ EnterFailure(t)
    /\ UNCHANGED <<storeVars, late, session, owner, regen, call>>

\* Mutant: the row is completed without flushing the events.
PersistAnswerUnflushed(t) ==
    /\ pc[t] = "answer"
    /\ SessionLive(t)
    /\ PendingWrite(t)
    /\ UNCHANGED <<events, flushTo>>
    /\ Goto(t, "complete")
    /\ TaskUnchanged

PersistAnswer(t) ==
    /\ pc[t] = "answer"
    /\ SessionLive(t)
    /\ PendingWrite(t)
    /\ UNCHANGED events
    /\ StartFlush(t)
    /\ Goto(t, "flush")
    /\ TaskUnchanged

\* Mutant: events of a deleted turn are retried for ever.
FlushDoneOnlyWhenAllSaved(t) == saved'[t] = flushTo[t]

\* One append_turn_event.  A deleted turn makes the rest of the loop skip.
FlushDone(t) == row'[t].status = "absent" \/ saved'[t] = flushTo[t]

AfterFlush(t) ==
    CASE pc[t] = "flush"       -> "complete"
      [] pc[t] = "cancelFlush" -> AfterCancelFlush(t)
      [] pc[t] = "failFlush"   -> "failStatus"

FlushEvent(t) ==
    /\ pc[t] \in {"flush", "cancelFlush", "failFlush"}
    /\ PendingWrite(t)
    /\ Goto(t, IF FlushDone(t) THEN AfterFlush(t) ELSE pc[t])
    /\ UNCHANGED <<events, flushTo>>
    /\ TaskUnchanged

\* Mutant: DONE is published without the row completed.
DoneBeforeRow(t) ==
    /\ pc[t] = "complete"
    /\ Publish(t, <<"completed">>)
    /\ Goto(t, "titleCheck")
    /\ UNCHANGED <<storeVars, flushTo>>
    /\ TaskUnchanged

\* The row is completed, then DONE is published; a regenerated turn is over.
MarkCompleted(t) ==
    /\ pc[t] = "complete"
    /\ PendingWrite(t)
    /\ Publish(t, <<"completed">>)
    /\ IF regen[t] THEN Finish(t, "ended") ELSE Goto(t, "titleCheck")
    /\ UNCHANGED flushTo
    /\ TaskUnchanged

\* _maybe_generate_session_title up to the model call.
NeedsTitle(t) ==
    /\ SessionLive(t)
    /\ title[session[t]] = "default"
    /\ Has(session[t], "user") /\ Has(session[t], "assistant")

CheckTitle(t) ==
    /\ pc[t] = "titleCheck"
    /\ IF NeedsTitle(t) THEN Goto(t, "titleWrite") ELSE Finish(t, "ended")
    /\ UNCHANGED <<storeVars, events, flushTo>>
    /\ TaskUnchanged

\* The model answered, failed or timed out: some title is written anyway.
WriteTitle(t) ==
    /\ pc[t] = "titleWrite"
    /\ PendingWrite(t)
    /\ Publish(t, <<"meta">>)
    /\ Finish(t, "ended")
    /\ UNCHANGED flushTo
    /\ TaskUnchanged

\* The partial answer of a cancelled turn; a refusal is suppressed.
PersistPartialAnswer(t) ==
    /\ pc[t] = "cancelAnswer"
    /\ PendingWrite(t)
    /\ Goto(t, "cancelStatus")
    /\ UNCHANGED <<events, flushTo>>
    /\ TaskUnchanged

\* Mutant: the handlers end without the status update.
UnwindWithoutStatus(t) ==
    /\ pc[t] \in {"cancelStatus", "failStatus"}
    /\ Finish(t, "ended")
    /\ UNCHANGED <<storeVars, events, flushTo>>
    /\ TaskUnchanged

\* The last line of either handler.
MarkUnwound(t) ==
    /\ pc[t] \in {"cancelStatus", "failStatus"}
    /\ PendingWrite(t)
    /\ Finish(t, "ended")
    /\ UNCHANGED <<events, flushTo>>
    /\ TaskUnchanged

Task(t) ==
    \/ PersistUserMessage(t) \/ MessageRefused(t)
    \/ StreamOutput(t) \/ AskUser(t) \/ TakeReply(t) \/ StreamEnds(t) \/ RunFails(t)
    \/ PersistAnswer(t) \/ FlushEvent(t) \/ MarkCompleted(t)
    \/ CheckTitle(t) \/ WriteTitle(t)
    \/ PersistPartialAnswer(t) \/ MarkUnwound(t)

(***************************************************************************)
(* cancel_turn, delivered: task.cancel() throws CancelledError at the      *)
(* await the task is suspended in.  The worker thread of the abandoned     *)
(* transaction may not have begun (it never will), may have committed, or  *)
(* may still be about to: late, kept for status writes, where it matters.  *)
(* A handler that is itself interrupted goes straight to finally.          *)
(***************************************************************************)
AbandonedWrite(t) ==
    \/ UNCHANGED <<storeVars, late>> /\ pc[t] # "cancelAnswer"
    \/ PendingWrite(t) /\ UNCHANGED late
    \/ /\ pc[t] \in {"complete", "cancelStatus", "failStatus"}
       /\ late' = late \cup {[t |-> t, row |-> StatusWrite(pc[t])]}
       /\ UNCHANGED storeVars

Interrupt(t) ==
    /\ AbandonedWrite(t)
    /\ IF pc[t] \in Unwinding
       THEN Finish(t, "aborted") /\ UNCHANGED <<events, flushTo>>
       ELSE EnterCancel(t)
    /\ UNCHANGED <<session, owner, regen>>

LateWrite ==
    \E w \in late :
        /\ SetStatus(w.t, w.row.status, w.row.why)
        /\ late' = late \ {w}
        /\ UNCHANGED <<taskVars, memoryVars, call, budget>>

(***************************************************************************)
(* The calls.  Each suspends at every store operation it awaits.           *)
(***************************************************************************)
StartsTurn == {"list", "recover", "create", "lastUser", "lastMessage", "deleteMessage", "ensure"}
Mine(c, t) == Live(ManagerOf[c], t)
At(c, op) == call[c].op = op
CallUnchanged == UNCHANGED <<late, taskVars, memoryVars, budget>>

\* Bound: a call that starts a turn begins only while a turn id is left for it.
IdLeft ==
    Cardinality({c \in Clients : call[c].op \in StartsTurn})
        < Cardinality({t \in Turns : pc[t] = "none"})

\* ensure_session: the session named, or a new one when it does not exist.
EnsureSession(c, s) ==
    /\ \/ At(c, "idle") /\ IdLeft
       \/ At(c, "ensure") /\ call[c].s = s
    /\ \E u \in Sessions :
         /\ IF sess[s] = "live" THEN u = s ELSE sess[u] = "unused"
         /\ sess' = [sess EXCEPT ![u] = "live"]
         /\ call' = [call EXCEPT ![c] = [@ EXCEPT !.op = "list", !.s = u]]
    /\ UNCHANGED <<title, msgs, nextId, row, saved>>
    /\ CallUnchanged

\* _recover_orphan_running_turns_for_session: at most one row is running.
ListActiveTurns(c) ==
    /\ At(c, "list")
    /\ \/ \E t \in RunningIn(call[c].s) :
            /\ ~Mine(c, t)
            /\ call' = [call EXCEPT ![c].op = "recover", ![c].t = t]
       \/ /\ \A t \in RunningIn(call[c].s) : Mine(c, t)
          /\ call' = [call EXCEPT ![c].op = "create"]
    /\ UNCHANGED storeVars
    /\ CallUnchanged

\* Mutant: recovery looks at orphans and leaves them.
LeaveOrphan(c) ==
    /\ At(c, "recover")
    /\ call' = [call EXCEPT ![c].op = "create"]
    /\ UNCHANGED storeVars
    /\ CallUnchanged

FailOrphan(c) ==
    /\ At(c, "recover")
    /\ SetStatus(call[c].t, "failed", "interrupted")
    /\ call' = [call EXCEPT ![c].op = "create"]
    /\ CallUnchanged

\* Mutant: the insert does not look for an active turn.
MayCreateUnchecked(s) == sess[s] = "live"

\* The checks of create_turn, in the transaction that inserts the row.
MayCreate(s) == sess[s] = "live" /\ RunningIn(s) = {}

\* create_turn refuses; the caller gets an error.
RefuseTurn(c) ==
    /\ At(c, "create")
    /\ ~MayCreate(call[c].s)
    /\ call' = [call EXCEPT ![c] = Idle]
    /\ UNCHANGED storeVars
    /\ CallUnchanged

\* create_turn, the SESSION event, registration, and the task up to its
\* first await: its first step runs before anyone else can learn the id.
CreateTurn(c, t) ==
    /\ At(c, "create")
    /\ pc[t] = "none"
    /\ MayCreate(call[c].s)
    /\ row' = [row EXCEPT ![t] = [status |-> "running", why |-> ""]]
    /\ session' = [session EXCEPT ![t] = call[c].s]
    /\ owner' = [owner EXCEPT ![t] = ManagerOf[c]]
    /\ regen' = [regen EXCEPT ![t] = call[c].regen]
    /\ Publish(t, <<"session">>)
    /\ executions' = executions \cup {<<ManagerOf[c], t>>}
    /\ replyQueues' = [replyQueues EXCEPT ![t] = 0]
    /\ pc' = [pc EXCEPT ![t] = "context"]
    /\ call' = [call EXCEPT ![c] = Idle]
    /\ UNCHANGED <<sess, title, msgs, nextId, saved, late, flushTo, budget>>

\* regenerate_last_turn: a running row makes it regenerate_busy.
Regenerate(c, s) ==
    /\ At(c, "idle")
    /\ IdLeft
    /\ sess[s] = "live" /\ RunningIn(s) = {}
    /\ Spend("regenerate")
    /\ call' = [call EXCEPT ![c] = [@ EXCEPT !.op = "lastUser", !.s = s, !.regen = TRUE]]
    /\ UNCHANGED <<storeVars, late, taskVars, memoryVars>>

\* No user message: nothing_to_regenerate.
LastUser(c) ==
    /\ At(c, "lastUser")
    /\ call' = [call EXCEPT ![c] =
         IF Has(call[c].s, "user") THEN [@ EXCEPT !.op = "lastMessage"] ELSE Idle]
    /\ UNCHANGED storeVars
    /\ CallUnchanged

LastMessage(c) ==
    LET log == msgs[call[c].s] IN
    /\ At(c, "lastMessage")
    /\ call' = [call EXCEPT ![c] =
         IF log # <<>> /\ log[Len(log)].role = "assistant"
         THEN [@ EXCEPT !.op = "deleteMessage", !.m = log[Len(log)].id]
         ELSE [@ EXCEPT !.op = "ensure"]]
    /\ UNCHANGED storeVars
    /\ CallUnchanged

DeleteMessage(c) ==
    LET s == call[c].s
        Named == {i \in 1..Len(msgs[s]) : msgs[s][i].id = call[c].m}
    IN
    /\ At(c, "deleteMessage")
    /\ IF Named = {} THEN UNCHANGED msgs
       ELSE \E i \in Named : msgs' = [msgs EXCEPT ![s] = RemoveAt(@, i)]
    /\ call' = [call EXCEPT ![c] = [@ EXCEPT !.op = "ensure", !.m = 0]]
    /\ UNCHANGED <<sess, title, nextId, row, saved>>
    /\ CallUnchanged

\* cancel_turn on a turn with a runner: cancel it and await its end.
CancelLive(c, t) ==
    /\ At(c, "idle")
    /\ Mine(c, t)
    /\ Spend("cancel")
    /\ Interrupt(t)
    /\ call' = [call EXCEPT ![c].op = "awaitTask", ![c].t = t]

\* Mutant: the caller misses a task torn down in its handler.
CancelReturnsIfEnded(c) ==
    /\ At(c, "awaitTask")
    /\ pc[call[c].t] = "ended"
    /\ call' = [call EXCEPT ![c] = Idle]
    /\ UNCHANGED storeVars
    /\ CallUnchanged

CancelReturns(c) ==
    /\ At(c, "awaitTask")
    /\ pc[call[c].t] \in Over
    /\ call' = [call EXCEPT ![c] = Idle]
    /\ UNCHANGED storeVars
    /\ CallUnchanged

\* cancel_turn on a running row without a runner: only the row is changed.
CancelOrphan(c, t) ==
    /\ At(c, "idle")
    /\ ~Mine(c, t) /\ row[t].status = "running"
    /\ call' = [call EXCEPT ![c].op = "cancelRow", ![c].t = t]
    /\ UNCHANGED storeVars
    /\ CallUnchanged

\* check_active_turn meets the same state and calls the turn stale.
CheckActiveTurn(c, t) ==
    /\ At(c, "idle")
    /\ ~Mine(c, t) /\ row[t].status = "running"
    /\ call' = [call EXCEPT ![c].op = "staleRow", ![c].t = t]
    /\ UNCHANGED storeVars
    /\ CallUnchanged

CancelRow(c) ==
    /\ call[c].op \in {"cancelRow", "staleRow"}
    /\ SetStatus(call[c].t, "cancelled", IF At(c, "staleRow") THEN "stale" ELSE "cancelled")
    /\ call' = [call EXCEPT ![c] = Idle]
    /\ CallUnchanged

\* submit_user_reply: the queue exists for as long as the task does.
SubmitUserReply(t) ==
    /\ replyQueues[t] # NoQueue
    /\ Spend("reply")
    /\ replyQueues' = [replyQueues EXCEPT ![t] = @ + 1]
    /\ UNCHANGED <<storeVars, late, taskVars, executions, call>>

\* PATCH and DELETE of the sessions router.
RenameSession(s) ==
    /\ sess[s] = "live"
    /\ Spend("rename")
    /\ SetTitle(s, "manual")
    /\ UNCHANGED <<late, taskVars, memoryVars, call>>

DeleteSession(s) ==
    /\ sess[s] = "live"
    /\ Spend("delete")
    /\ sess' = [sess EXCEPT ![s] = "deleted"]
    /\ msgs' = [msgs EXCEPT ![s] = <<>>]
    /\ row' = [t \in Turns |-> IF session[t] = s THEN [status |-> "absent", why |-> ""] ELSE row[t]]
    /\ saved' = [t \in Turns |-> IF session[t] = s THEN 0 ELSE saved[t]]
    /\ UNCHANGED <<title, nextId, late, taskVars, memoryVars, call>>

\* The process dies and comes back: the database is all that is left.
Restart ==
    /\ Spend("restart")
    /\ pc' = [t \in Turns |-> IF pc[t] \in Active THEN "killed" ELSE pc[t]]
    /\ executions' = {}
    /\ replyQueues' = [t \in Turns |-> NoQueue]
    /\ call' = [c \in Clients |-> Idle]
    /\ late' = {}
    /\ UNCHANGED <<storeVars, session, owner, regen, events, flushTo>>

Pending(c) ==
    \/ At(c, "ensure") /\ EnsureSession(c, call[c].s)
    \/ ListActiveTurns(c) \/ FailOrphan(c) \/ RefuseTurn(c)
    \/ \E t \in Turns : CreateTurn(c, t)
    \/ LastUser(c) \/ LastMessage(c) \/ DeleteMessage(c)
    \/ CancelReturns(c) \/ CancelRow(c)

Request(c) ==
    \/ \E s \in Sessions : (At(c, "idle") /\ EnsureSession(c, s)) \/ Regenerate(c, s)
    \/ \E t \in Turns : CancelLive(c, t) \/ CancelOrphan(c, t) \/ CheckActiveTurn(c, t)

Environment ==
    \/ \E t \in Turns : SubmitUserReply(t)
    \/ \E s \in Sessions : RenameSession(s) \/ DeleteSession(s)

Operate ==
    \/ \E t \in Turns : Task(t)
    \/ LateWrite
    \/ \E c \in Clients : Pending(c) \/ Request(c)
    \/ Environment

Next == Operate \/ Restart

Spec == Init /\ [][Next]_vars

(* The event loop runs every task and call that is ready, and the executor *)
(* every transaction.  Nothing makes a user reply, cancel or reconnect.    *)
FairSpec ==
    /\ Spec
    /\ \A t \in Turns : WF_vars(Task(t))
    /\ \A c \in Clients : WF_vars(Pending(c))
    /\ WF_vars(LateWrite)

(***************************************************************************)
(* Properties.                                                             *)
(***************************************************************************)
EventTypes == {"session", "output", "meta", "error"} \cup Terminal
Phases == {"none"} \cup Active \cup Over
Reasons == {"", "error", "cancelled", "interrupted", "stale"}
RowType == [status : {"absent", "running"} \cup Terminal, why : Reasons]
MessageType == [id : Nat, role : {"user", "assistant"}, turn : Turns]
Ops == {"idle", "awaitTask", "cancelRow", "staleRow"} \cup StartsTurn

StoreTypes ==
    /\ sess \in [Sessions -> {"unused", "live", "deleted"}]
    /\ title \in [Sessions -> {"default", "generated", "manual"}]
    /\ msgs \in [Sessions -> Seq(MessageType)]
    /\ nextId \in Nat
    /\ row \in [Turns -> RowType]
    /\ saved \in [Turns -> Nat]

TaskTypes ==
    /\ session \in [Turns -> Sessions]
    /\ owner \in [Turns -> Managers]
    /\ regen \in [Turns -> BOOLEAN]
    /\ pc \in [Turns -> Phases]
    /\ events \in [Turns -> Seq(EventTypes)]
    /\ flushTo \in [Turns -> Nat]

MemoryTypes ==
    /\ executions \subseteq Managers \X Turns
    /\ replyQueues \in [Turns -> Nat \cup {NoQueue}]

LateType == late \subseteq [t : Turns, row : [status : Terminal, why : Reasons]]
CallType == [op : Ops, s : Sessions, t : Turns, m : Nat, regen : BOOLEAN]

(* Every variable holds what the code can put in it.                       *)
TypeOK ==
    /\ StoreTypes
    /\ LateType
    /\ TaskTypes
    /\ MemoryTypes
    /\ call \in [Clients -> CallType]
    /\ budget \in [Disturbances -> Nat]

(* create_turn promises that a session has one active turn: no two rows of *)
(* a session are running, whoever starts, cancels or recovers turns.       *)
OneRunningTurn ==
    \A t, u \in Turns :
        (row[t].status = "running" /\ row[u].status = "running" /\ session[t] = session[u])
            => t = u

(* No two tasks work on one session at once: no orphan recovery frees the  *)
(* session of a turn whose task still streams or stores its answer.        *)
OneWorkingTurn ==
    \A t, u \in Turns :
        (pc[t] \in Working /\ pc[u] \in Working /\ session[t] = session[u] /\ SessionLive(t))
            => t = u

(* A row marked as interrupted or stale belongs to a task that a restart   *)
(* killed or a second cancellation tore down, never to one that still runs *)
(* or that came to its regular end.                                        *)
InterruptedMeansNoRunner ==
    \A t \in Turns : row[t].why \in {"interrupted", "stale"} => pc[t] \in {"killed", "aborted"}

(* A task that reaches its last line leaves a terminal row behind, however *)
(* it was cancelled or failed on the way.                                  *)
EndedTurnIsTerminal ==
    \A t \in Turns : pc[t] = "ended" => row[t].status \in Terminal \cup {"absent"}

(* A completed row has its answer stored (unless a regenerate took it away *)
(* later) and every event that was streamed before DONE, also after a      *)
(* restart, when the buffer in memory is gone.                             *)
CompletedTurnIsWhole ==
    \A t \in Turns : row[t].status = "completed" =>
        /\ \A i \in 1..Len(events[t]) : events[t][i] \in {"session", "output"} => i <= saved[t]
        /\ Answers(t) # {} \/ budget["regenerate"] < Budget["regenerate"]

(* Once subscribers were told DONE(completed) the row is never running or  *)
(* failed again: no restart turns a finished answer into an interrupted one.*)
DoneIsDurable ==
    \A t \in Turns :
        (\E i \in 1..Len(events[t]) : events[t][i] = "completed")
            => row[t].status \in {"completed", "cancelled", "absent"}

(* What a turn streamed is in the transcript when its task has ended, be   *)
(* it completed or cancelled at any await ("cancelling a turn does not     *)
(* erase visible work"); failures excepted, which store no answer.         *)
OutputIsKept ==
    \A t \in Turns :
        /\ pc[t] = "ended" /\ HasOutput(t) /\ SessionLive(t)
        /\ \A i \in 1..Len(events[t]) : events[t][i] # "failed"
        /\ budget["regenerate"] = Budget["regenerate"]
        => Answers(t) # {}

(* start_turn refuses a live session only because of a turn this process   *)
(* runs, or was still running when it looked for orphans: a row that a     *)
(* restart left behind never blocks its session.                           *)
Refuses(c) == call[c].op = "create" /\ call'[c].op = "idle" /\ pc' = pc
RefusedOnlyIfLive ==
    [][\A c \in Clients :
         Refuses(c) /\ sess[call[c].s] = "live" /\ budget' = budget
            => \E t \in RunningIn(call[c].s) : pc[t] \in Active \cup {"aborted"}]_vars

(* A row says "interrupted by server restart" only when a restart killed   *)
(* its task.  The docstring of _fail_orphan_running_turn takes it so.      *)
OrphanMeansRestart ==
    \A t \in Turns : row[t].why = "interrupted" => pc[t] = "killed"

(* A title the user typed stays: "once a user manually renames the chat"   *)
(* the generator is said to short-circuit.                                 *)
ManualTitleStays ==
    [][\A s \in Sessions : title[s] = "manual" => title'[s] = "manual"]_vars

(* The turns table is a lease: it refines TurnLease, in which a turn gets  *)
(* its session once and never back.                                        *)
Lease == INSTANCE TurnLease WITH
            held <- [s \in Sessions |-> RunningIn(s)],
            used <- {t \in Turns : pc[t] # "none"}
RefinesLease == Lease!Spec

(* Every task comes to its end, or waits for the user's reply.             *)
TaskEnds == \A t \in Turns : pc[t] \in Active ~> pc[t] \in Over \cup {"paused"}

(* Every call returns: start_turn, regenerate, and cancel_turn, which      *)
(* waits for the task it cancelled.                                        *)
CallReturns == \A c \in Clients : ~At(c, "idle") ~> At(c, "idle")

(***************************************************************************)
(* What makes the properties inductive when all calls go through one       *)
(* manager: a turn is registered exactly while its task is active, its row *)
(* is running for as long as the task works, and a call that is about to   *)
(* overwrite a running row has seen it without a runner.                   *)
(***************************************************************************)
OneManagerOnly == \A m, n \in Managers : m = n

Registered ==
    \A m \in Managers, t \in Turns : <<m, t>> \in executions <=> pc[t] \in Active

Unborn == \A t \in Turns : pc[t] = "none" => row[t].status = "absent"

SessionsExist == \A t \in Turns : pc[t] # "none" => sess[session[t]] # "unused"

Settled ==
    \A t \in Turns : pc[t] \in Titling => row[t].status \in Terminal \cup {"absent"}

WorkingRuns ==
    \A t \in Turns : pc[t] \in Working /\ SessionLive(t) => row[t].status = "running"

LateIsOver ==
    \A w \in late :
        pc[w.t] \notin Working \cup {"none"} /\ w.row.why \in {"", "error", "cancelled"}

PendingOverwrite ==
    \A c \in Clients :
        call[c].op \in {"recover", "cancelRow", "staleRow"} => pc[call[c].t] \in {"killed", "aborted"}

TurnInv ==
    /\ OneRunningTurn
    /\ Registered
    /\ Unborn
    /\ SessionsExist
    /\ Settled
    /\ WorkingRuns
    /\ LateIsOver
    /\ PendingOverwrite
    /\ EndedTurnIsTerminal
    /\ InterruptedMeansNoRunner
=============================================================================
