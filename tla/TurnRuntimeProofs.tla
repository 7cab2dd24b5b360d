-------------------------- MODULE TurnRuntimeProofs --------------------------
(***************************************************************************)
(* Proofs about TurnRuntime, for any sets of sessions, turns and clients   *)
(* and any budget of disturbances.                                         *)
(***************************************************************************)
EXTENDS TurnRuntime, TLAPS
LOCAL INSTANCE SequencesExt   \* RemoveAt

(***************************************************************************)
(* Type correctness.                                                       *)
(***************************************************************************)

(* Idle is a call: the choices in it are made from nonempty sets.          *)
LEMMA IdleType == Idle \in CallType
BY ConstantsAssumption DEF Idle, CallType, Ops

(* Appending a message, the row's last-writer-wins update, one more stored *)
(* event and a new title keep the tables well typed.                       *)
LEMMA AddMessageType ==
    ASSUME StoreTypes, NEW s \in Sessions, NEW r \in {"user", "assistant"}, NEW t \in Turns,
           AddMessage(s, r, t)
    PROVE  StoreTypes'
<1>1. CASE sess[s] = "live"
  <2>1. [id |-> nextId, role |-> r, turn |-> t] \in MessageType
    BY DEF StoreTypes, MessageType
  <2>2. msgs[s] \in Seq(MessageType)
    BY DEF StoreTypes
  <2>3. Append(msgs[s], [id |-> nextId, role |-> r, turn |-> t]) \in Seq(MessageType)
    BY <2>1, <2>2
  <2>4. msgs' \in [Sessions -> Seq(MessageType)]
    BY <1>1, <2>3 DEF AddMessage, StoreTypes
  <2> QED
    BY <1>1, <2>4 DEF AddMessage, StoreTypes
<1>2. CASE sess[s] # "live"
  BY <1>2 DEF AddMessage, StoreTypes, storeVars
<1> QED
  BY <1>1, <1>2

(* A status update keeps the store's types.                                *)
LEMMA SetStatusType ==
    ASSUME StoreTypes, NEW t \in Turns, NEW status \in Terminal, NEW why \in Reasons,
           SetStatus(t, status, why)
    PROVE  StoreTypes'
BY DEF SetStatus, StoreTypes, RowType

(* Storing an event keeps the store's types.                               *)
LEMMA AppendTurnEventType ==
    ASSUME StoreTypes, NEW t \in Turns, AppendTurnEvent(t)
    PROVE  StoreTypes'
BY DEF AppendTurnEvent, StoreTypes

(* Setting a title keeps the store's types.                                *)
LEMMA SetTitleType ==
    ASSUME StoreTypes, NEW s \in Sessions, NEW value \in {"generated", "manual"}, SetTitle(s, value)
    PROVE  StoreTypes'
BY DEF SetTitle, StoreTypes

(* The status a phase of the task writes is terminal, for a known reason.  *)
LEMMA StatusWriteType ==
    ASSUME NEW p \in {"complete", "cancelStatus", "failStatus"}
    PROVE  /\ StatusWrite(p).status \in Terminal
           /\ StatusWrite(p).why \in {"", "error", "cancelled"}
           /\ StatusWrite(p) \in [status : Terminal, why : Reasons]
BY DEF StatusWrite, Terminal, Reasons

(* Whatever transaction the task is suspended in, the store stays typed.   *)
LEMMA PendingWriteType ==
    ASSUME StoreTypes, TaskTypes, NEW t \in Turns, PendingWrite(t)
    PROVE  StoreTypes'
<1>1. session[t] \in Sessions
  BY DEF TaskTypes
<1>2. CASE pc[t] = "context" /\ AddMessage(session[t], "user", t)
  BY <1>1, <1>2, AddMessageType
<1>3. CASE AddMessage(session[t], "assistant", t)
  BY <1>1, <1>3, AddMessageType
<1>4. CASE AppendTurnEvent(t)
  BY <1>4, AppendTurnEventType
<1>5. CASE /\ pc[t] \in {"complete", "cancelStatus", "failStatus"}
           /\ SetStatus(t, StatusWrite(pc[t]).status, StatusWrite(pc[t]).why)
  <2>1. /\ StatusWrite(pc[t]).status \in Terminal
        /\ StatusWrite(pc[t]).why \in Reasons
    BY <1>5, StatusWriteType
  <2> QED
    BY <1>5, <2>1, SetStatusType
<1>6. CASE SetTitle(session[t], "generated")
  BY <1>1, <1>6, SetTitleType
<1> QED
  BY <1>2, <1>3, <1>4, <1>5, <1>6 DEF PendingWrite

(* The initial event buffers are typed.                                    *)
LEMMA EmptyLists ==
    <<>> \in Seq(EventTypes) /\ <<>> \in Seq(MessageType)
<1>1. ASSUME NEW S PROVE <<>> \in Seq(S)
  OBVIOUS
<1> QED
  BY <1>1

(* Publishing known events keeps every event list a sequence of events.    *)
LEMMA PublishType ==
    ASSUME TaskTypes, NEW t \in Turns, NEW evs \in Seq(EventTypes), Publish(t, evs)
    PROVE  events' \in [Turns -> Seq(EventTypes)]
<1>1. events[t] \in Seq(EventTypes)
  BY DEF TaskTypes
<1>2. events[t] \o evs \in Seq(EventTypes)
  BY <1>1
<1> QED
  BY <1>2 DEF TaskTypes, Publish

(* Publishing typed events keeps the event buffers typed.                  *)
LEMMA EventListsType ==
    /\ <<"output">> \in Seq(EventTypes)
    /\ <<"meta">> \in Seq(EventTypes)
    /\ <<"session">> \in Seq(EventTypes)
    /\ <<"completed">> \in Seq(EventTypes)
    /\ <<"error", "failed">> \in Seq(EventTypes)
    /\ <<"error", "cancelled">> \in Seq(EventTypes)
BY DEF EventTypes, Terminal

(* Moving a task to another phase keeps the types of tasks and memory.     *)
LEMMA GotoType ==
    ASSUME TaskTypes, MemoryTypes, NEW t \in Turns, NEW phase \in Phases, Goto(t, phase)
    PROVE  pc' \in [Turns -> Phases] /\ MemoryTypes'
BY DEF TaskTypes, MemoryTypes, Goto, memoryVars

(* The finally block keeps the types of tasks and memory.                  *)
LEMMA FinishType ==
    ASSUME TaskTypes, MemoryTypes, NEW t \in Turns, NEW how \in Over, Finish(t, how)
    PROVE  pc' \in [Turns -> Phases] /\ MemoryTypes'
<1>1. how \in Phases
  BY DEF Phases
<1> QED
  BY <1>1 DEF TaskTypes, MemoryTypes, Finish, NoQueue

(* A flush copies as many events as there are.                             *)
LEMMA StartFlushType ==
    ASSUME TaskTypes, NEW t \in Turns, events' \in [Turns -> Seq(EventTypes)], StartFlush(t)
    PROVE  flushTo' \in [Turns -> Nat]
<1>1. Len(events'[t]) \in Nat
  OBVIOUS
<1> QED
  BY <1>1 DEF TaskTypes, StartFlush

(* The first steps of the two handlers of _run_turn.                       *)
LEMMA EnterFailureType ==
    ASSUME TaskTypes, MemoryTypes, NEW t \in Turns, EnterFailure(t)
    PROVE  /\ events' \in [Turns -> Seq(EventTypes)]
           /\ flushTo' \in [Turns -> Nat]
           /\ pc' \in [Turns -> Phases]
           /\ MemoryTypes'
<1>1. events' \in [Turns -> Seq(EventTypes)]
  BY EventListsType, PublishType DEF EnterFailure
<1>2. flushTo' \in [Turns -> Nat]
  BY <1>1, StartFlushType DEF EnterFailure
<1>3. "failFlush" \in Phases
  BY DEF Phases, Active, Unwinding
<1> QED
  BY <1>1, <1>2, <1>3, GotoType DEF EnterFailure

(* The cancellation handler's first step keeps the types.                  *)
LEMMA EnterCancelType ==
    ASSUME TaskTypes, MemoryTypes, NEW t \in Turns, EnterCancel(t)
    PROVE  /\ events' \in [Turns -> Seq(EventTypes)]
           /\ flushTo' \in [Turns -> Nat]
           /\ pc' \in [Turns -> Phases]
           /\ MemoryTypes'
<1>1. events' \in [Turns -> Seq(EventTypes)]
  <2>1. CASE Publish(t, <<"error", "cancelled">>)
    BY <2>1, EventListsType, PublishType
  <2>2. CASE UNCHANGED events
    BY <2>2 DEF TaskTypes
  <2> QED
    BY <2>1, <2>2 DEF EnterCancel
<1>2. "cancelFlush" \in Phases /\ AfterCancelFlush(t) \in Phases
  BY DEF Phases, Active, Unwinding, AfterCancelFlush
<1>3. CASE StartFlush(t) /\ Goto(t, "cancelFlush")
  BY <1>1, <1>2, <1>3, StartFlushType, GotoType
<1>4. CASE UNCHANGED flushTo /\ Goto(t, AfterCancelFlush(t))
  <2>1. flushTo' \in [Turns -> Nat]
    BY <1>4 DEF TaskTypes
  <2> QED
    BY <1>1, <1>2, <1>4, <2>1, GotoType
<1> QED
  BY <1>3, <1>4 DEF EnterCancel

(* Spending a disturbance keeps the budget a function into Nat.            *)
LEMMA SpendType ==
    ASSUME budget \in [Disturbances -> Nat], NEW d \in Disturbances, Spend(d)
    PROVE  budget' \in [Disturbances -> Nat]
BY DEF Spend

(* The phases the steps of a task go to.                                   *)
LEMMA PhaseNames ==
    /\ {"stream", "paused", "answer", "flush", "complete", "titleCheck", "titleWrite"} \subseteq Phases
    /\ {"cancelFlush", "cancelAnswer", "cancelStatus", "failFlush", "failStatus"} \subseteq Phases
    /\ "context" \in Phases /\ "killed" \in Phases
    /\ "ended" \in Over /\ "aborted" \in Over
BY DEF Phases, Active, Working, Titling, Unwinding, Over

(* Every step of the task of a turn keeps the types.                       *)
LEMMA TaskType ==
    ASSUME TypeOK, NEW t \in Turns, Task(t)
    PROVE  TypeOK'
<1> USE DEF TypeOK
<1>1. ASSUME TaskUnchanged,
             StoreTypes', MemoryTypes',
             events' \in [Turns -> Seq(EventTypes)],
             flushTo' \in [Turns -> Nat],
             pc' \in [Turns -> Phases]
      PROVE  TypeOK'
  BY <1>1 DEF TaskUnchanged, TaskTypes, LateType
<1>2. CASE PersistUserMessage(t)
  <2>1. StoreTypes'
    BY <1>2, PendingWriteType DEF PersistUserMessage, StoreTypes, storeVars
  <2> QED
    BY <1>1, <1>2, <2>1, PhaseNames, GotoType DEF PersistUserMessage, TaskTypes
<1>3. CASE MessageRefused(t)
  <2>1. StoreTypes'
    BY <1>3 DEF MessageRefused, StoreTypes, storeVars
  <2> QED
    BY <1>1, <1>3, <2>1, EnterFailureType DEF MessageRefused
<1>4. CASE StreamOutput(t)
  <2>1. StoreTypes' /\ MemoryTypes' /\ pc' \in [Turns -> Phases] /\ flushTo' \in [Turns -> Nat]
    BY <1>4 DEF StreamOutput, StoreTypes, storeVars, MemoryTypes, memoryVars, TaskTypes
  <2>2. events' \in [Turns -> Seq(EventTypes)]
    BY <1>4, EventListsType, PublishType DEF StreamOutput
  <2> QED
    BY <1>1, <1>4, <2>1, <2>2 DEF StreamOutput
<1>5. CASE AskUser(t)
  <2>1. StoreTypes' /\ flushTo' \in [Turns -> Nat]
    BY <1>5 DEF AskUser, StoreTypes, storeVars, TaskTypes
  <2>2. events' \in [Turns -> Seq(EventTypes)]
    BY <1>5, EventListsType, PublishType DEF AskUser
  <2> QED
    BY <1>1, <1>5, <2>1, <2>2, PhaseNames, GotoType DEF AskUser
<1>6. CASE TakeReply(t)
  <2>1. StoreTypes' /\ flushTo' \in [Turns -> Nat] /\ events' \in [Turns -> Seq(EventTypes)]
    BY <1>6 DEF TakeReply, StoreTypes, storeVars, TaskTypes
  <2>2. MemoryTypes'
    BY <1>6 DEF TakeReply, MemoryTypes, NoQueue
  <2>3. pc' \in [Turns -> Phases]
    BY <1>6, PhaseNames DEF TakeReply, TaskTypes
  <2> QED
    BY <1>1, <1>6, <2>1, <2>2, <2>3 DEF TakeReply
<1>7. CASE StreamEnds(t)
  <2>1. StoreTypes' /\ flushTo' \in [Turns -> Nat] /\ events' \in [Turns -> Seq(EventTypes)]
    BY <1>7 DEF StreamEnds, StoreTypes, storeVars, TaskTypes
  <2> QED
    BY <1>1, <1>7, <2>1, PhaseNames, GotoType DEF StreamEnds
<1>8. CASE RunFails(t)
  <2>1. StoreTypes' /\ LateType' /\ call' \in [Clients -> CallType]
    BY <1>8 DEF RunFails, StoreTypes, storeVars, LateType
  <2>2. budget' \in [Disturbances -> Nat]
    BY <1>8, SpendType DEF RunFails, Disturbances
  <2> QED
    BY <1>8, <2>1, <2>2, EnterFailureType DEF RunFails, TaskTypes
<1>9. CASE PersistAnswer(t)
  <2>1. StoreTypes'
    BY <1>9, PendingWriteType DEF PersistAnswer
  <2>2. events' \in [Turns -> Seq(EventTypes)]
    BY <1>9 DEF PersistAnswer, TaskTypes
  <2>3. flushTo' \in [Turns -> Nat]
    BY <1>9, <2>2, StartFlushType DEF PersistAnswer
  <2> QED
    BY <1>1, <1>9, <2>1, <2>2, <2>3, PhaseNames, GotoType DEF PersistAnswer
<1>10. CASE FlushEvent(t)
  <2>1. StoreTypes' /\ flushTo' \in [Turns -> Nat] /\ events' \in [Turns -> Seq(EventTypes)]
    BY <1>10, PendingWriteType DEF FlushEvent, TaskTypes
  <2>2. AfterFlush(t) \in Phases /\ pc[t] \in Phases
    BY <1>10, PhaseNames DEF FlushEvent, AfterFlush, AfterCancelFlush, TaskTypes
  <2>3. pc' \in [Turns -> Phases] /\ MemoryTypes'
    BY <1>10, <2>2, GotoType DEF FlushEvent
  <2> QED
    BY <1>1, <1>10, <2>1, <2>3 DEF FlushEvent
<1>11. CASE MarkCompleted(t)
  <2>1. StoreTypes' /\ flushTo' \in [Turns -> Nat]
    BY <1>11, PendingWriteType DEF MarkCompleted, TaskTypes
  <2>2. events' \in [Turns -> Seq(EventTypes)]
    BY <1>11, EventListsType, PublishType DEF MarkCompleted
  <2>3. pc' \in [Turns -> Phases] /\ MemoryTypes'
    BY <1>11, PhaseNames, GotoType, FinishType DEF MarkCompleted
  <2> QED
    BY <1>1, <1>11, <2>1, <2>2, <2>3 DEF MarkCompleted
<1>12. CASE CheckTitle(t)
  <2>1. StoreTypes' /\ flushTo' \in [Turns -> Nat] /\ events' \in [Turns -> Seq(EventTypes)]
    BY <1>12 DEF CheckTitle, StoreTypes, storeVars, TaskTypes
  <2>2. pc' \in [Turns -> Phases] /\ MemoryTypes'
    BY <1>12, PhaseNames, GotoType, FinishType DEF CheckTitle
  <2> QED
    BY <1>1, <1>12, <2>1, <2>2 DEF CheckTitle
<1>13. CASE WriteTitle(t)
  <2>1. StoreTypes' /\ flushTo' \in [Turns -> Nat]
    BY <1>13, PendingWriteType DEF WriteTitle, TaskTypes
  <2>2. events' \in [Turns -> Seq(EventTypes)]
    BY <1>13, EventListsType, PublishType DEF WriteTitle
  <2> QED
    BY <1>1, <1>13, <2>1, <2>2, PhaseNames, FinishType DEF WriteTitle
<1>14. CASE PersistPartialAnswer(t)
  <2>1. StoreTypes' /\ flushTo' \in [Turns -> Nat] /\ events' \in [Turns -> Seq(EventTypes)]
    BY <1>14, PendingWriteType DEF PersistPartialAnswer, TaskTypes
  <2> QED
    BY <1>1, <1>14, <2>1, PhaseNames, GotoType DEF PersistPartialAnswer
<1>15. CASE MarkUnwound(t)
  <2>1. StoreTypes' /\ flushTo' \in [Turns -> Nat] /\ events' \in [Turns -> Seq(EventTypes)]
    BY <1>15, PendingWriteType DEF MarkUnwound, TaskTypes
  <2> QED
    BY <1>1, <1>15, <2>1, PhaseNames, FinishType DEF MarkUnwound
<1> QED
  BY <1>2, <1>3, <1>4, <1>5, <1>6, <1>7, <1>8, <1>9, <1>10, <1>11, <1>12, <1>13, <1>14, <1>15
  DEF Task

(* A CancelledError: whatever became of the pending transaction, the task  *)
(* is in a handler or over.                                                *)
LEMMA InterruptType ==
    ASSUME TypeOK, NEW t \in Turns, Interrupt(t)
    PROVE  StoreTypes' /\ LateType' /\ TaskTypes' /\ MemoryTypes'
<1> USE DEF TypeOK
<1>1. StoreTypes' /\ LateType'
  <2>1. CASE UNCHANGED <<storeVars, late>>
    BY <2>1 DEF StoreTypes, storeVars, LateType
  <2>2. CASE PendingWrite(t) /\ UNCHANGED late
    BY <2>2, PendingWriteType DEF LateType
  <2>3. CASE /\ pc[t] \in {"complete", "cancelStatus", "failStatus"}
             /\ late' = late \cup {[t |-> t, row |-> StatusWrite(pc[t])]}
             /\ UNCHANGED storeVars
    <3>1. StatusWrite(pc[t]) \in [status : Terminal, why : Reasons]
      BY <2>3, StatusWriteType
    <3> QED
      BY <2>3, <3>1 DEF StoreTypes, storeVars, LateType
  <2> QED
    BY <2>1, <2>2, <2>3 DEF Interrupt, AbandonedWrite
<1>2. CASE Finish(t, "aborted") /\ UNCHANGED <<events, flushTo>>
  BY <1>1, <1>2, PhaseNames, FinishType DEF Interrupt, TaskTypes
<1>3. CASE EnterCancel(t)
  BY <1>1, <1>3, EnterCancelType DEF Interrupt, TaskTypes
<1> QED
  BY <1>2, <1>3 DEF Interrupt

(* The calls of the clients.                                               *)
LEMMA CallsType ==
    ASSUME TypeOK, NEW c \in Clients, Pending(c) \/ Request(c)
    PROVE  TypeOK'
<1> USE DEF TypeOK
<1>1. ASSUME CallUnchanged, StoreTypes', call' \in [Clients -> CallType]
      PROVE  TypeOK'
  BY <1>1 DEF CallUnchanged, taskVars, memoryVars, TaskTypes, MemoryTypes, LateType
<1>2. ASSUME NEW s \in Sessions, EnsureSession(c, s)
      PROVE  TypeOK'
  <2>1. StoreTypes'
    BY <1>2 DEF EnsureSession, StoreTypes
  <2>2. call' \in [Clients -> CallType]
    <3>1. PICK u \in Sessions : call' = [call EXCEPT ![c] = [@ EXCEPT !.op = "list", !.s = u]]
      BY <1>2 DEF EnsureSession
    <3>2. [call[c] EXCEPT !.op = "list", !.s = u] \in CallType
      BY DEF CallType, Ops, StartsTurn
    <3> QED
      BY <3>1, <3>2
  <2> QED
    BY <1>1, <1>2, <2>1, <2>2 DEF EnsureSession
<1>3. CASE ListActiveTurns(c)
  <2>1. call' \in [Clients -> CallType]
    BY <1>3 DEF ListActiveTurns, RunningIn, CallType, Ops, StartsTurn
  <2> QED
    BY <1>1, <1>3, <2>1 DEF ListActiveTurns, StoreTypes, storeVars
<1>4. CASE FailOrphan(c)
  <2>1. call[c].t \in Turns
    BY DEF CallType
  <2>2. StoreTypes'
    BY <1>4, <2>1, SetStatusType DEF FailOrphan, Terminal, Reasons
  <2>3. call' \in [Clients -> CallType]
    BY <1>4 DEF FailOrphan, CallType, Ops, StartsTurn
  <2> QED
    BY <1>1, <1>4, <2>2, <2>3 DEF FailOrphan
<1>5. CASE RefuseTurn(c)
  BY <1>1, <1>5, IdleType DEF RefuseTurn, StoreTypes, storeVars
<1>6. ASSUME NEW t \in Turns, CreateTurn(c, t)
      PROVE  TypeOK'
  <2>1. call[c].s \in Sessions /\ call[c].regen \in BOOLEAN /\ ManagerOf[c] \in Managers
    BY ConstantsAssumption DEF CallType
  <2>2. StoreTypes'
    BY <1>6 DEF CreateTurn, StoreTypes, RowType, Reasons
  <2>3. events' \in [Turns -> Seq(EventTypes)]
    BY <1>6, EventListsType, PublishType DEF CreateTurn
  <2>4. pc' \in [Turns -> Phases]
    BY <1>6, PhaseNames DEF CreateTurn, TaskTypes
  <2>5. TaskTypes'
    BY <1>6, <2>1, <2>3, <2>4 DEF CreateTurn, TaskTypes
  <2>6. MemoryTypes'
    <3>1. executions' \subseteq Managers \X Turns
      <4>1. executions' = executions \cup {<<ManagerOf[c], t>>}
        BY <1>6 DEF CreateTurn
      <4>2. <<ManagerOf[c], t>> \in Managers \X Turns
        BY <2>1
      <4> QED
        BY <4>1, <4>2 DEF MemoryTypes
    <3>2. replyQueues' \in [Turns -> Nat \cup {NoQueue}]
      BY <1>6 DEF CreateTurn, MemoryTypes
    <3> QED
      BY <3>1, <3>2 DEF MemoryTypes
  <2>7. call' \in [Clients -> CallType]
    BY <1>6, IdleType DEF CreateTurn
  <2> QED
    BY <1>6, <2>2, <2>5, <2>6, <2>7 DEF CreateTurn, LateType
<1>7. ASSUME NEW s \in Sessions, Regenerate(c, s)
      PROVE  TypeOK'
  <2>1. budget' \in [Disturbances -> Nat]
    BY <1>7, SpendType DEF Regenerate, Disturbances
  <2>2. call' \in [Clients -> CallType]
    BY <1>7 DEF Regenerate, CallType, Ops, StartsTurn
  <2> QED
    BY <1>7, <2>1, <2>2 DEF Regenerate, StoreTypes, storeVars, TaskTypes, taskVars,
       MemoryTypes, memoryVars, LateType
<1>8. CASE LastMessage(c)
  <2> DEFINE log == msgs[call[c].s]
  <2>1. log \in Seq(MessageType)
    BY DEF StoreTypes, CallType
  <2>2. ASSUME log # <<>> PROVE log[Len(log)].id \in Nat
    <3>1. Len(log) \in 1..Len(log)
      BY <2>1, <2>2
    <3>2. log[Len(log)] \in MessageType
      BY <2>1, <3>1
    <3> QED
      BY <3>2 DEF MessageType
  <2>3. call' \in [Clients -> CallType]
    BY <1>8, <2>2, ZenonT(30) DEF LastMessage, CallType, Ops, StartsTurn
  <2> QED
    BY <1>1, <1>8, <2>3 DEF LastMessage, StoreTypes, storeVars
<1>9. CASE DeleteMessage(c)
  <2> DEFINE s == call[c].s
  <2>1. msgs[s] \in Seq(MessageType) /\ s \in Sessions
    BY DEF StoreTypes, CallType
  <2>2. ASSUME NEW i \in 1..Len(msgs[s])
        PROVE  RemoveAt(msgs[s], i) \in Seq(MessageType)
    <3>1. /\ SubSeq(msgs[s], 1, i - 1) \in Seq(MessageType)
          /\ SubSeq(msgs[s], i + 1, Len(msgs[s])) \in Seq(MessageType)
      BY <2>1
    <3> QED
      BY <3>1 DEF RemoveAt
  <2>3. msgs' \in [Sessions -> Seq(MessageType)]
    BY <1>9, <2>1, <2>2 DEF DeleteMessage, StoreTypes
  <2>4. StoreTypes'
    BY <1>9, <2>3 DEF DeleteMessage, StoreTypes
  <2>5. call' \in [Clients -> CallType]
    BY <1>9, ZenonT(30) DEF DeleteMessage, CallType, Ops, StartsTurn
  <2> QED
    BY <1>1, <1>9, <2>4, <2>5 DEF DeleteMessage
<1>10. ASSUME NEW t \in Turns, CancelLive(c, t)
       PROVE  TypeOK'
  <2>1. budget' \in [Disturbances -> Nat]
    BY <1>10, SpendType DEF CancelLive, Disturbances
  <2>2. call' \in [Clients -> CallType]
    BY <1>10 DEF CancelLive, CallType, Ops
  <2> QED
    BY <1>10, <2>1, <2>2, InterruptType DEF CancelLive
<1>11. CASE CancelReturns(c)
  BY <1>1, <1>11, IdleType DEF CancelReturns, StoreTypes, storeVars
<1>12. ASSUME NEW t \in Turns, CancelOrphan(c, t) \/ CheckActiveTurn(c, t)
       PROVE  TypeOK'
  <2>1. call' \in [Clients -> CallType]
    BY <1>12 DEF CancelOrphan, CheckActiveTurn, CallType, Ops
  <2> QED
    BY <1>1, <1>12, <2>1 DEF CancelOrphan, CheckActiveTurn, StoreTypes, storeVars
<1>13. CASE CancelRow(c)
  <2>1. call[c].t \in Turns
    BY DEF CallType
  <2>2. StoreTypes'
    BY <1>13, <2>1, SetStatusType DEF CancelRow, Terminal, Reasons
  <2> QED
    BY <1>1, <1>13, <2>2, IdleType DEF CancelRow
<1>14. call[c].s \in Sessions
  BY DEF CallType
<1>15. CASE LastUser(c)
  <2>1. call' \in [Clients -> CallType]
    BY <1>15, IdleType DEF LastUser, CallType, Ops, StartsTurn
  <2> QED
    BY <1>1, <1>15, <2>1 DEF LastUser, StoreTypes, storeVars
<1> QED
  BY <1>2, <1>3, <1>4, <1>5, <1>6, <1>7, <1>8, <1>9, <1>10, <1>11, <1>12, <1>13, <1>14,
     <1>15
  DEF Pending, Request

(* Replies, renames and deletions.                                         *)
LEMMA EnvironmentType ==
    ASSUME TypeOK, Environment
    PROVE  TypeOK'
<1> USE DEF TypeOK
<1>1. ASSUME NEW t \in Turns, SubmitUserReply(t)
      PROVE  TypeOK'
  <2>1. budget' \in [Disturbances -> Nat]
    BY <1>1, SpendType DEF SubmitUserReply, Disturbances
  <2>2. MemoryTypes'
    <3>1. replyQueues[t] + 1 \in Nat
      BY <1>1 DEF SubmitUserReply, MemoryTypes, NoQueue
    <3> QED
      BY <1>1, <3>1 DEF SubmitUserReply, MemoryTypes
  <2> QED
    BY <1>1, <2>1, <2>2
    DEF SubmitUserReply, StoreTypes, storeVars, LateType, TaskTypes, taskVars
<1>2. ASSUME NEW s \in Sessions, RenameSession(s)
      PROVE  TypeOK'
  <2>1. budget' \in [Disturbances -> Nat]
    BY <1>2, SpendType DEF RenameSession, Disturbances
  <2>2. StoreTypes'
    BY <1>2, SetTitleType DEF RenameSession
  <2> QED
    BY <1>2, <2>1, <2>2
    DEF RenameSession, LateType, TaskTypes, taskVars, MemoryTypes, memoryVars
<1>3. ASSUME NEW s \in Sessions, DeleteSession(s)
      PROVE  TypeOK'
  <2>1. budget' \in [Disturbances -> Nat]
    BY <1>3, SpendType DEF DeleteSession, Disturbances
  <2>2. row' \in [Turns -> RowType]
    <3>1. [status |-> "absent", why |-> ""] \in RowType
      BY DEF RowType, Reasons
    <3> QED
      BY <1>3, <3>1 DEF DeleteSession, StoreTypes
  <2>3. msgs' \in [Sessions -> Seq(MessageType)]
    BY <1>3, EmptyLists DEF DeleteSession, StoreTypes
  <2>4. StoreTypes'
    BY <1>3, <2>2, <2>3 DEF DeleteSession, StoreTypes
  <2> QED
    BY <1>3, <2>1, <2>4
    DEF DeleteSession, LateType, TaskTypes, taskVars, MemoryTypes, memoryVars
<1> QED
  BY <1>1, <1>2, <1>3 DEF Environment

(* A restart keeps the database and empties the memory.                    *)
LEMMA RestartType ==
    ASSUME TypeOK, Restart
    PROVE  TypeOK'
<1> USE DEF TypeOK
<1>1. budget' \in [Disturbances -> Nat]
  BY SpendType DEF Restart, Disturbances
<1>2. TaskTypes'
  <2>1. pc' \in [Turns -> Phases]
    BY PhaseNames DEF Restart, TaskTypes
  <2> QED
    BY <2>1 DEF Restart, TaskTypes
<1>3. MemoryTypes' /\ LateType'
  BY DEF Restart, MemoryTypes, LateType, NoQueue
<1>4. call' \in [Clients -> CallType]
  BY IdleType DEF Restart
<1> QED
  BY <1>1, <1>2, <1>3, <1>4 DEF Restart, StoreTypes, storeVars

(* The store is in its type after a status write that outlived its caller. *)
LEMMA LateWriteType ==
    ASSUME TypeOK, LateWrite
    PROVE  TypeOK'
<1> USE DEF TypeOK
<1>1. PICK w \in late : /\ SetStatus(w.t, w.row.status, w.row.why)
                        /\ late' = late \ {w}
                        /\ UNCHANGED <<taskVars, memoryVars, call, budget>>
  BY DEF LateWrite
<1>2. w.t \in Turns /\ w.row.status \in Terminal /\ w.row.why \in Reasons
  BY DEF LateType
<1>3. StoreTypes'
  BY <1>1, <1>2, SetStatusType
<1> QED
  BY <1>1, <1>3 DEF LateType, TaskTypes, taskVars, MemoryTypes, memoryVars

(* Every step keeps the types.                                             *)
LEMMA TypeStep ==
    ASSUME TypeOK, [Next]_vars
    PROVE  TypeOK'
<1>1. CASE UNCHANGED vars
  BY <1>1 DEF vars, storeVars, taskVars, memoryVars, TypeOK, StoreTypes, LateType,
     TaskTypes, MemoryTypes
<1>2. ASSUME NEW t \in Turns, Task(t)
      PROVE  TypeOK'
  BY <1>2, TaskType
<1>3. ASSUME NEW c \in Clients, Pending(c) \/ Request(c)
      PROVE  TypeOK'
  BY <1>3, CallsType
<1> QED
  BY <1>1, <1>2, <1>3, LateWriteType, EnvironmentType, RestartType DEF Next, Operate

(* Initially every variable holds what the code put in it.                 *)
LEMMA TypeInit ==
    ASSUME Init
    PROVE  TypeOK
<1>1. StoreTypes
  <2>1. msgs \in [Sessions -> Seq(MessageType)]
    BY EmptyLists DEF Init
  <2>2. [status |-> "absent", why |-> ""] \in RowType
    BY DEF RowType, Reasons
  <2> QED
    BY <2>1, <2>2 DEF Init, StoreTypes
<1>2. \E s \in Sessions, m \in Managers :
        session = [t \in Turns |-> s] /\ owner = [t \in Turns |-> m]
  BY ConstantsAssumption, Zenon DEF Init
<1>3. events \in [Turns -> Seq(EventTypes)]
  BY EmptyLists DEF Init
<1>4. TaskTypes
  <2>1. pc \in [Turns -> Phases] /\ regen \in [Turns -> BOOLEAN] /\ flushTo \in [Turns -> Nat]
    BY DEF Init, Phases
  <2> QED
    BY <1>2, <1>3, <2>1 DEF TaskTypes
<1>5. MemoryTypes /\ LateType
  BY DEF Init, MemoryTypes, LateType
<1>6. call \in [Clients -> CallType] /\ budget \in [Disturbances -> Nat]
  BY IdleType, ConstantsAssumption DEF Init
<1> QED
  BY <1>1, <1>4, <1>5, <1>6 DEF TypeOK

(* Type correctness of the turn runtime.                                   *)
THEOREM TypeCorrect == Spec => []TypeOK
<1>1. Init => TypeOK
  BY TypeInit
<1>2. TypeOK /\ [Next]_vars => TypeOK'
  BY TypeStep
<1> QED
  BY <1>1, <1>2, PTL DEF Spec

(***************************************************************************)
(* The story of a turn: what its events, its stored events and its row say *)
(* about each other, from the await its task is in.  It needs no assumption *)
(* on the managers: whoever else writes a status never writes "completed". *)
(***************************************************************************)
Streaming == {"context", "stream", "paused", "answer"}
Flushing == {"flush", "cancelFlush", "failFlush"}
Content == {"session", "output"}

Clean(e) == \A i \in 1..Len(e) : e[i] \in Content
HasDone(e) == \E i \in 1..Len(e) : e[i] \in Terminal
OneDone(e) == \A i, j \in 1..Len(e) : i < j /\ e[i] \in Terminal => e[j] = "meta"
ContentUpTo(e, n) == \A i \in 1..Len(e) : e[i] \in Content => i <= n

\* A turn at await p with events e, of which f were copied by the flush and n
\* are stored, a row with status st, in a session that is z.
Story(p, e, f, n, st, z) ==
    /\ OneDone(e) /\ n <= f /\ f <= Len(e)
    /\ p = "none" => e = <<>> /\ st = "absent"
    /\ p # "none" => e # <<>> /\ z = IF st = "absent" THEN "deleted" ELSE "live"
    /\ p \in Working => Clean(e)
    /\ p \in Titling \cup Unwinding \cup {"ended", "aborted"} => HasDone(e)
    /\ p \in Streaming => f = 0
    /\ p \notin Streaming \cup {"none", "killed"} => f # 0
    /\ f # 0 => ContentUpTo(e, f)
    /\ p \in Flushing => st = "absent" \/ n < f
    /\ p = "complete" => st = "absent" \/ n = f
    /\ st = "completed" => n = f /\ f # 0

StoryOf(t) == Story(pc[t], events[t], flushTo[t], saved[t], row[t].status, sess[session[t]])

\* What was to be flushed is stored, or there is no turn any more.
Flushed(t) == row[t].status = "absent" \/ (saved[t] = flushTo[t] /\ flushTo[t] # 0)

\* A "completed" that is still to be written is that of a flushed turn.
LateStory ==
    \A w \in late : w.row.status = "completed" => pc[w.t] # "none" /\ Flushed(w.t)

\* A turn is registered with its manager, and exactly while its task is active.
RunnerIsOwner ==
    \A m \in Managers, t \in Turns : <<m, t>> \in executions <=> m = owner[t] /\ pc[t] \in Active

(* What one or two more events do to a list of events.                     *)
LEMMA OneMore ==
    ASSUME NEW e \in Seq(EventTypes), NEW x \in EventTypes
    PROVE  /\ e \o <<x>> \in Seq(EventTypes) /\ Len(e \o <<x>>) = Len(e) + 1
           /\ (e \o <<x>>)[Len(e) + 1] = x
           /\ \A i \in 1..Len(e) : (e \o <<x>>)[i] = e[i]
OBVIOUS

LEMMA TwoMore ==
    ASSUME NEW e \in Seq(EventTypes), NEW x \in EventTypes, NEW y \in EventTypes
    PROVE  /\ e \o <<x, y>> \in Seq(EventTypes) /\ Len(e \o <<x, y>>) = Len(e) + 2
           /\ (e \o <<x, y>>)[Len(e) + 1] = x /\ (e \o <<x, y>>)[Len(e) + 2] = y
           /\ \A i \in 1..Len(e) : (e \o <<x, y>>)[i] = e[i]
OBVIOUS

\* Streamed output after output.
LEMMA OutputShape ==
    ASSUME NEW e \in Seq(EventTypes), NEW h, h = e \o <<"output">>, Clean(e)
    PROVE  h \in Seq(EventTypes) /\ Len(h) = Len(e) + 1 /\ Clean(h) /\ OneDone(h)
<1>1. /\ h \in Seq(EventTypes) /\ Len(h) = Len(e) + 1 /\ Len(e) \in Nat
      /\ h[Len(e) + 1] = "output" /\ \A i \in 1..Len(e) : h[i] = e[i]
  BY OneMore DEF EventTypes
<1>2. \A i \in 1..Len(h) : i \in 1..Len(e) \/ i = Len(e) + 1
  BY <1>1
<1>3. Clean(h)
  BY <1>1, <1>2 DEF Clean, Content
<1>4. OneDone(h)
  BY <1>3 DEF Clean, Content, OneDone, Terminal
<1> QED
  BY <1>1, <1>3, <1>4

\* The DONE of a turn that completes.
LEMMA CompletedShape ==
    ASSUME NEW e \in Seq(EventTypes), NEW h, h = e \o <<"completed">>, Clean(e)
    PROVE  /\ h \in Seq(EventTypes) /\ Len(h) = Len(e) + 1
           /\ HasDone(h) /\ OneDone(h) /\ ContentUpTo(h, Len(e))
<1>1. /\ h \in Seq(EventTypes) /\ Len(h) = Len(e) + 1 /\ Len(e) \in Nat
      /\ h[Len(e) + 1] = "completed" /\ \A i \in 1..Len(e) : h[i] = e[i]
  BY OneMore DEF EventTypes, Terminal
<1>2. \A i \in 1..Len(h) : i \in 1..Len(e) \/ i = Len(e) + 1
  BY <1>1
<1>3. \A i \in 1..Len(h) : h[i] \in Terminal <=> i = Len(e) + 1
  BY <1>1, <1>2 DEF Clean, Content, Terminal
<1>4. HasDone(h) /\ OneDone(h)
  <2>1. Len(e) + 1 \in 1..Len(h)
    BY <1>1
  <2> QED
    BY <1>1, <1>3, <2>1 DEF HasDone, OneDone
<1>5. ContentUpTo(h, Len(e))
  BY <1>1, <1>2 DEF ContentUpTo, Content
<1> QED
  BY <1>1, <1>4, <1>5

\* The error and the DONE of a handler.
LEMMA FailureShape ==
    ASSUME NEW e \in Seq(EventTypes), NEW d \in {"failed", "cancelled"},
           NEW h, h = e \o <<"error", d>>, Clean(e)
    PROVE  /\ h \in Seq(EventTypes) /\ Len(h) = Len(e) + 2
           /\ HasDone(h) /\ OneDone(h) /\ ContentUpTo(h, Len(e))
<1>1. /\ h \in Seq(EventTypes) /\ Len(h) = Len(e) + 2 /\ Len(e) \in Nat
      /\ h[Len(e) + 1] = "error" /\ h[Len(e) + 2] = d /\ \A i \in 1..Len(e) : h[i] = e[i]
  BY TwoMore DEF EventTypes, Terminal
<1>2. \A i \in 1..Len(h) : i \in 1..Len(e) \/ i = Len(e) + 1 \/ i = Len(e) + 2
  BY <1>1
<1>3. \A i \in 1..Len(h) : h[i] \in Terminal <=> i = Len(e) + 2
  BY <1>1, <1>2 DEF Clean, Content, Terminal
<1>4. HasDone(h) /\ OneDone(h)
  <2>1. Len(e) + 2 \in 1..Len(h) /\ \A i \in 1..Len(h) : i <= Len(e) + 2
    BY <1>1
  <2> QED
    BY <1>1, <1>3, <2>1 DEF HasDone, OneDone
<1>5. ContentUpTo(h, Len(e))
  BY <1>1, <1>2 DEF ContentUpTo, Content
<1> QED
  BY <1>1, <1>4, <1>5

\* session_meta may always follow.
LEMMA MetaShape ==
    ASSUME NEW e \in Seq(EventTypes), NEW h, h = e \o <<"meta">>, OneDone(e), HasDone(e),
           NEW f \in Nat, f <= Len(e), ContentUpTo(e, f)
    PROVE  /\ h \in Seq(EventTypes) /\ Len(h) = Len(e) + 1
           /\ HasDone(h) /\ OneDone(h) /\ ContentUpTo(h, f)
<1>1. /\ h \in Seq(EventTypes) /\ Len(h) = Len(e) + 1 /\ Len(e) \in Nat
      /\ h[Len(e) + 1] = "meta" /\ \A i \in 1..Len(e) : h[i] = e[i]
  BY OneMore DEF EventTypes
<1>2. \A i \in 1..Len(h) : i \in 1..Len(e) \/ i = Len(e) + 1
  BY <1>1
<1>3. \A i \in 1..Len(e) : i \in 1..Len(h)
  BY <1>1
<1>4. HasDone(h)
  BY <1>1, <1>3 DEF HasDone
<1>5. ContentUpTo(h, f)
  BY <1>1, <1>2 DEF ContentUpTo, Content
<1>6. OneDone(h)
  <2> SUFFICES ASSUME NEW i \in 1..Len(h), NEW j \in 1..Len(h), i < j, h[i] \in Terminal
               PROVE  h[j] = "meta"
    BY DEF OneDone
  <2>1. i \in 1..Len(e)
    BY <1>1
  <2> QED
    BY <1>1, <1>2, <2>1 DEF OneDone
<1> QED
  BY <1>1, <1>4, <1>5, <1>6

(* What the pending transaction of a task stores.                          *)
LEMMA PendingWriteStores ==
    ASSUME StoreTypes, NEW t \in Turns, PendingWrite(t)
    PROVE  /\ sess' = sess
           /\ \A u \in Turns \ {t} : saved'[u] = saved[u] /\ row'[u] = row[u]
           /\ saved'[t] = IF pc[t] \in Flushing /\ row[t].status # "absent"
                          THEN saved[t] + 1 ELSE saved[t]
           /\ row'[t].status = IF /\ pc[t] \in {"complete", "cancelStatus", "failStatus"}
                                  /\ row[t].status # "absent"
                               THEN StatusWrite(pc[t]).status ELSE row[t].status
<1>1. row \in [Turns -> RowType] /\ saved \in [Turns -> Nat]
  BY DEF StoreTypes
<1>2. CASE pc[t] = "context" /\ AddMessage(session[t], "user", t)
  BY <1>2 DEF AddMessage, storeVars, Flushing
<1>3. CASE pc[t] \in {"answer", "cancelAnswer"} /\ AddMessage(session[t], "assistant", t)
  BY <1>3 DEF AddMessage, storeVars, Flushing
<1>4. CASE pc[t] \in {"flush", "cancelFlush", "failFlush"} /\ AppendTurnEvent(t)
  BY <1>1, <1>4 DEF AppendTurnEvent, Flushing
<1>5. CASE /\ pc[t] \in {"complete", "cancelStatus", "failStatus"}
           /\ SetStatus(t, StatusWrite(pc[t]).status, StatusWrite(pc[t]).why)
  <2> DEFINE status == StatusWrite(pc[t]).status
             why == StatusWrite(pc[t]).why
  <2>1. /\ row' = [row EXCEPT ![t] = IF @.status = "absent" THEN @
                                     ELSE [status |-> status, why |-> why]]
        /\ sess' = sess /\ saved' = saved
    BY <1>5 DEF SetStatus
  <2>2. pc[t] \notin Flushing
    BY <1>5 DEF Flushing
  <2> HIDE DEF status, why
  <2>3. /\ \A u \in Turns \ {t} : saved'[u] = saved[u] /\ row'[u] = row[u]
        /\ row'[t].status = IF row[t].status # "absent" THEN status ELSE row[t].status
    BY <1>1, <2>1
  <2> QED
    BY <1>5, <2>1, <2>2, <2>3 DEF status
<1>6. CASE pc[t] = "titleWrite" /\ SetTitle(session[t], "generated")
  BY <1>6 DEF SetTitle, Flushing
<1> QED
  BY <1>2, <1>3, <1>4, <1>5, <1>6 DEF PendingWrite

(* The story goes on with each step of the task.                           *)
LEMMA TaskStory ==
    ASSUME TypeOK, NEW t \in Turns, StoryOf(t), Task(t)
    PROVE  StoryOf(t)'
<1>1. PICK p, e, f, n, st, z :
        /\ p = pc[t] /\ e = events[t] /\ f = flushTo[t] /\ n = saved[t]
        /\ st = row[t].status /\ z = sess[session[t]]
  OBVIOUS
<1>2. /\ p \in Phases /\ e \in Seq(EventTypes) /\ f \in Nat /\ n \in Nat
      /\ st \in {"absent", "running"} \cup Terminal /\ Len(e) \in Nat
  BY <1>1 DEF TypeOK, StoreTypes, TaskTypes, RowType
<1>3. Story(p, e, f, n, st, z)
  BY <1>1 DEF StoryOf
<1>4. /\ pc \in [Turns -> Phases] /\ events \in [Turns -> Seq(EventTypes)]
      /\ flushTo \in [Turns -> Nat] /\ StoreTypes
  BY DEF TypeOK, TaskTypes
<1>5. ASSUME NEW q, NEW h, NEW g, NEW k, NEW su, Story(q, h, g, k, su, z),
             pc'[t] = q, events'[t] = h, flushTo'[t] = g, saved'[t] = k, row'[t].status = su,
             sess'[session'[t]] = z
      PROVE  StoryOf(t)'
  BY <1>5 DEF StoryOf
<1>6. ASSUME UNCHANGED storeVars
      PROVE  saved'[t] = n /\ row'[t].status = st /\ sess' = sess
  BY <1>1, <1>6 DEF storeVars
<1>7. ASSUME PendingWrite(t), p \notin Flushing \cup {"complete", "cancelStatus", "failStatus"}
      PROVE  saved'[t] = n /\ row'[t].status = st /\ sess' = sess
  BY <1>1, <1>4, <1>7, PendingWriteStores
<1>8. \A q : Goto(t, q) => pc'[t] = q
  BY <1>4 DEF Goto
<1>9. \A q : Finish(t, q) => pc'[t] = q
  BY <1>4 DEF Finish
<1>10. \A evs : Publish(t, evs) => events'[t] = e \o evs
  BY <1>1, <1>4 DEF Publish
<1>11. StartFlush(t) => flushTo'[t] = Len(events'[t])
  BY <1>4 DEF StartFlush
<1>12. session' = session /\ sess'[session'[t]] = sess'[session[t]]
  BY DEF Task, PersistUserMessage, MessageRefused, StreamOutput, AskUser, TakeReply,
     StreamEnds, RunFails, PersistAnswer, FlushEvent, MarkCompleted, CheckTitle, WriteTitle,
     PersistPartialAnswer, MarkUnwound, TaskUnchanged
<1>13. ASSUME EnterFailure(t), UNCHANGED storeVars, p \in {"context", "stream", "answer"}
       PROVE  StoryOf(t)'
  <2>1. PICK h : h = e \o <<"error", "failed">>
    OBVIOUS
  <2>2. events'[t] = h /\ flushTo'[t] = Len(h) /\ pc'[t] = "failFlush"
    BY <1>8, <1>10, <1>11, <1>13, <2>1 DEF EnterFailure
  <2>3. Clean(e) /\ f = 0 /\ n = 0
    BY <1>2, <1>3, <1>13 DEF Story, Working, Streaming
  <2>4. h \in Seq(EventTypes) /\ Len(h) = Len(e) + 2 /\ HasDone(h) /\ OneDone(h)
    BY <1>2, <2>1, <2>3, FailureShape
  <2>5. ContentUpTo(h, Len(h))
    BY <2>4 DEF ContentUpTo
  <2>6. p # "none" /\ h # <<>> /\ Len(h) # 0
    BY <1>2, <1>13, <2>4
  <2>7. n <= Len(h) /\ n < Len(h) /\ st # "completed"
    BY <1>2, <1>3, <2>3, <2>4 DEF Story
  <2>8. Story("failFlush", h, Len(h), n, st, z)
    BY <1>3, <2>4, <2>5, <2>6, <2>7
    DEF Story, Working, Titling, Unwinding, Streaming, Flushing
  <2> QED
    BY <1>1, <1>5, <1>6, <1>12, <1>13, <2>2, <2>8
<1>14. CASE PersistUserMessage(t)
  <2>1. Story("stream", e, f, n, st, z)
    BY <1>1, <1>2, <1>3, <1>14
    DEF PersistUserMessage, Story, Working, Titling, Unwinding, Streaming, Flushing
  <2>2. pc'[t] = "stream" /\ events'[t] = e /\ flushTo'[t] = f
    BY <1>1, <1>8, <1>14 DEF PersistUserMessage
  <2>3. saved'[t] = n /\ row'[t].status = st /\ sess' = sess
    BY <1>1, <1>6, <1>7, <1>14 DEF PersistUserMessage, Flushing
  <2> QED
    BY <1>1, <1>5, <1>12, <2>1, <2>2, <2>3
<1>15. CASE MessageRefused(t) \/ RunFails(t)
  BY <1>1, <1>13, <1>15 DEF MessageRefused, RunFails
<1>16. CASE StreamOutput(t) \/ AskUser(t)
  <2>1. PICK h : h = e \o <<"output">>
    OBVIOUS
  <2>2. PICK q \in {"stream", "paused"} : pc'[t] = q
    BY <1>1, <1>8, <1>16 DEF StreamOutput, AskUser
  <2>3. p = "stream" /\ events'[t] = h /\ flushTo'[t] = f /\ UNCHANGED storeVars
    BY <1>1, <1>10, <1>16, <2>1 DEF StreamOutput, AskUser
  <2>4. Clean(e) /\ f = 0
    BY <1>3, <2>3 DEF Story, Working, Streaming
  <2>5. h \in Seq(EventTypes) /\ Len(h) = Len(e) + 1 /\ Clean(h) /\ OneDone(h)
    BY <1>2, <2>1, <2>4, OutputShape
  <2>6. h # <<>> /\ f <= Len(h)
    BY <1>2, <2>4, <2>5
  <2>7. Story(q, h, f, n, st, z)
    BY <1>3, <2>3, <2>4, <2>5, <2>6
    DEF Story, Working, Titling, Unwinding, Streaming, Flushing
  <2> QED
    BY <1>1, <1>5, <1>6, <1>12, <2>2, <2>3, <2>7
<1>17. CASE TakeReply(t) \/ StreamEnds(t)
  <2>1. PICK q \in {"stream", "answer"} : pc'[t] = q
    BY <1>4, <1>8, <1>17 DEF TakeReply, StreamEnds
  <2>2. /\ p \in {"paused", "stream"} /\ UNCHANGED storeVars
        /\ events'[t] = e /\ flushTo'[t] = f
    BY <1>1, <1>17 DEF TakeReply, StreamEnds
  <2>3. Story(q, e, f, n, st, z)
    BY <1>3, <2>2 DEF Story, Working, Titling, Unwinding, Streaming, Flushing
  <2> QED
    BY <1>1, <1>5, <1>6, <1>12, <2>1, <2>2, <2>3
<1>18. CASE PersistAnswer(t)
  <2>1. /\ p = "answer" /\ events'[t] = e /\ flushTo'[t] = Len(e) /\ pc'[t] = "flush"
        /\ saved'[t] = n /\ row'[t].status = st /\ sess' = sess
    BY <1>1, <1>7, <1>8, <1>11, <1>18 DEF PersistAnswer, Flushing
  <2>2. Clean(e) /\ e # <<>> /\ f = 0 /\ n = 0 /\ st # "completed"
    BY <1>2, <1>3, <2>1 DEF Story, Working, Streaming
  <2>3. Len(e) # 0 /\ n < Len(e) /\ ContentUpTo(e, Len(e))
    BY <1>2, <2>2 DEF ContentUpTo
  <2>4. Story("flush", e, Len(e), n, st, z)
    BY <1>2, <1>3, <2>1, <2>2, <2>3
    DEF Story, Working, Titling, Unwinding, Streaming, Flushing
  <2> QED
    BY <1>1, <1>5, <1>12, <2>1, <2>4
<1>19. CASE FlushEvent(t)
  <2>1. /\ p \in Flushing /\ events'[t] = e /\ flushTo'[t] = f /\ flushTo' = flushTo
        /\ PendingWrite(t) /\ pc'[t] = IF FlushDone(t) THEN AfterFlush(t) ELSE p
    BY <1>1, <1>8, <1>19 DEF FlushEvent, Flushing
  <2>2. PICK k : k = IF st # "absent" THEN n + 1 ELSE n
    OBVIOUS
  <2>3. /\ saved'[t] = k /\ row'[t].status = st /\ sess' = sess
    BY <1>1, <1>4, <2>1, <2>2, PendingWriteStores DEF Flushing
  <2>4. /\ p \in {"flush", "cancelFlush", "failFlush"} /\ f # 0
        /\ st = "absent" \/ n < f
    BY <1>3, <2>1 DEF Story, Flushing, Streaming
  <2>5. k \in Nat /\ k <= f /\ st # "completed"
    BY <1>2, <1>3, <2>2, <2>4 DEF Story
  <2>6. CASE FlushDone(t)
    <3>1. st = "absent" \/ k = f
      BY <1>1, <2>3, <2>6 DEF FlushDone
    <3>2. PICK q : q = AfterFlush(t)
      OBVIOUS
    <3>3. \/ p = "flush" /\ q = "complete"
          \/ p \in {"cancelFlush", "failFlush"}
             /\ q \in {"cancelAnswer", "cancelStatus", "failStatus"}
      BY <1>1, <2>4, <3>2 DEF AfterFlush, AfterCancelFlush
    <3>4. Story(q, e, f, k, st, z)
      BY <1>3, <2>4, <2>5, <3>1, <3>3
      DEF Story, Working, Titling, Unwinding, Streaming, Flushing
    <3> QED
      BY <1>1, <1>5, <1>12, <2>1, <2>3, <2>6, <3>2, <3>4
  <2>7. CASE ~FlushDone(t)
    <3>1. st # "absent" /\ k # f
      BY <1>1, <2>1, <2>3, <2>7 DEF FlushDone
    <3>2. k < f
      BY <1>2, <2>5, <3>1
    <3>3. Story(p, e, f, k, st, z)
      BY <1>3, <2>4, <2>5, <3>2 DEF Story, Flushing
    <3> QED
      BY <1>1, <1>5, <1>12, <2>1, <2>3, <2>7, <3>3
  <2> QED
    BY <2>6, <2>7
<1>20. CASE MarkCompleted(t)
  <2>1. PICK h : h = e \o <<"completed">>
    OBVIOUS
  <2>2. PICK q \in {"ended", "titleCheck"} : pc'[t] = q
    BY <1>8, <1>9, <1>20 DEF MarkCompleted
  <2>3. PICK su : su = IF st # "absent" THEN "completed" ELSE st
    OBVIOUS
  <2>4. /\ p = "complete" /\ events'[t] = h /\ flushTo'[t] = f
        /\ saved'[t] = n /\ row'[t].status = su /\ sess' = sess
    BY <1>1, <1>4, <1>10, <1>20, <2>1, <2>3, PendingWriteStores
    DEF MarkCompleted, StatusWrite, Flushing
  <2>5. Clean(e) /\ f # 0 /\ (st = "absent" \/ n = f)
    BY <1>3, <2>4 DEF Story, Working, Streaming
  <2>6. h \in Seq(EventTypes) /\ Len(h) = Len(e) + 1 /\ HasDone(h) /\ OneDone(h)
    BY <1>2, <2>1, <2>5, CompletedShape
  <2>7. ContentUpTo(h, f)
    <3>1. ContentUpTo(e, f) /\ \A i \in 1..Len(e) : h[i] = e[i]
      BY <1>2, <1>3, <2>1, <2>5, OneMore DEF Story, EventTypes, Terminal
    <3>2. h[Len(e) + 1] = "completed"
      BY <1>2, <2>1, OneMore DEF EventTypes, Terminal
    <3> QED
      BY <1>2, <2>6, <3>1, <3>2 DEF ContentUpTo, Content
  <2>8. h # <<>> /\ f <= Len(h)
    BY <1>2, <1>3, <2>6 DEF Story
  <2>9. Story(q, h, f, n, su, z)
    BY <1>3, <2>3, <2>4, <2>5, <2>6, <2>7, <2>8
    DEF Story, Working, Titling, Unwinding, Streaming, Flushing
  <2> QED
    BY <1>1, <1>5, <1>12, <2>2, <2>4, <2>9
<1>21. CASE CheckTitle(t)
  <2>1. PICK q \in {"ended", "titleWrite"} : pc'[t] = q
    BY <1>8, <1>9, <1>21 DEF CheckTitle
  <2>2. p = "titleCheck" /\ UNCHANGED storeVars /\ events'[t] = e /\ flushTo'[t] = f
    BY <1>1, <1>21 DEF CheckTitle
  <2>3. Story(q, e, f, n, st, z)
    BY <1>3, <2>2 DEF Story, Working, Titling, Unwinding, Streaming, Flushing
  <2> QED
    BY <1>1, <1>5, <1>6, <1>12, <2>1, <2>2, <2>3
<1>22. CASE WriteTitle(t)
  <2>1. PICK h : h = e \o <<"meta">>
    OBVIOUS
  <2>2. /\ p = "titleWrite" /\ events'[t] = h /\ flushTo'[t] = f /\ pc'[t] = "ended"
        /\ saved'[t] = n /\ row'[t].status = st /\ sess' = sess
    BY <1>1, <1>7, <1>9, <1>10, <1>22, <2>1 DEF WriteTitle, Flushing
  <2>3. HasDone(e) /\ OneDone(e) /\ f # 0 /\ f <= Len(e) /\ ContentUpTo(e, f)
    BY <1>3, <2>2 DEF Story, Titling, Streaming
  <2>4. /\ h \in Seq(EventTypes) /\ Len(h) = Len(e) + 1
        /\ HasDone(h) /\ OneDone(h) /\ ContentUpTo(h, f)
    BY <1>2, <2>1, <2>3, MetaShape
  <2>5. h # <<>> /\ f <= Len(h)
    BY <1>2, <2>3, <2>4
  <2>6. Story("ended", h, f, n, st, z)
    BY <1>3, <2>2, <2>3, <2>4, <2>5
    DEF Story, Working, Titling, Unwinding, Streaming, Flushing
  <2> QED
    BY <1>1, <1>5, <1>12, <2>2, <2>6
<1>23. CASE PersistPartialAnswer(t)
  <2>1. /\ p = "cancelAnswer" /\ events'[t] = e /\ flushTo'[t] = f /\ pc'[t] = "cancelStatus"
        /\ saved'[t] = n /\ row'[t].status = st /\ sess' = sess
    BY <1>1, <1>7, <1>8, <1>23 DEF PersistPartialAnswer, Flushing
  <2>2. Story("cancelStatus", e, f, n, st, z)
    BY <1>3, <2>1 DEF Story, Working, Titling, Unwinding, Streaming, Flushing
  <2> QED
    BY <1>1, <1>5, <1>12, <2>1, <2>2
<1>24. CASE MarkUnwound(t)
  <2>1. PICK su : su = IF st # "absent" THEN StatusWrite(p).status ELSE st
    OBVIOUS
  <2>2. /\ p \in {"cancelStatus", "failStatus"} /\ events'[t] = e /\ flushTo'[t] = f
        /\ pc'[t] = "ended" /\ saved'[t] = n /\ row'[t].status = su /\ sess' = sess
    BY <1>1, <1>4, <1>9, <1>24, <2>1, PendingWriteStores DEF MarkUnwound, Flushing
  <2>3. su = "absent" <=> st = "absent"
    BY <2>1, <2>2 DEF StatusWrite
  <2>4. su # "completed" \/ su = st
    BY <2>1, <2>2 DEF StatusWrite
  <2>5. Story("ended", e, f, n, su, z)
    BY <1>3, <2>2, <2>3, <2>4 DEF Story, Working, Titling, Unwinding, Streaming, Flushing
  <2> QED
    BY <1>1, <1>5, <1>12, <2>2, <2>5
<1> QED
  BY <1>14, <1>15, <1>16, <1>17, <1>18, <1>19, <1>20, <1>21, <1>22, <1>23, <1>24 DEF Task

(* The story of a cancelled turn, whatever became of its transaction.      *)
LEMMA InterruptStory ==
    ASSUME TypeOK, NEW t \in Turns, StoryOf(t), pc[t] \in Active, Interrupt(t)
    PROVE  StoryOf(t)'
<1>1. PICK p, e, f, n, st, z, k, su :
        /\ p = pc[t] /\ e = events[t] /\ f = flushTo[t] /\ n = saved[t]
        /\ st = row[t].status /\ z = sess[session[t]]
        /\ k = saved'[t] /\ su = row'[t].status
  OBVIOUS
<1>2. /\ p \in Active /\ e \in Seq(EventTypes) /\ f \in Nat /\ n \in Nat
      /\ st \in {"absent", "running"} \cup Terminal /\ Len(e) \in Nat
  BY <1>1 DEF TypeOK, StoreTypes, TaskTypes, RowType
<1>3. Story(p, e, f, n, st, z)
  BY <1>1 DEF StoryOf
<1>4. /\ pc \in [Turns -> Phases] /\ events \in [Turns -> Seq(EventTypes)]
      /\ flushTo \in [Turns -> Nat] /\ StoreTypes
  BY DEF TypeOK, TaskTypes
<1>5. /\ sess' = sess
      /\ k = n \/ (p \in Flushing /\ st # "absent" /\ k = n + 1)
      /\ \/ su = st
         \/ st # "absent" /\ p = "complete" /\ su = "completed"
         \/ st # "absent" /\ su \in {"cancelled", "failed"}
  <2>1. CASE UNCHANGED storeVars
    BY <1>1, <2>1 DEF storeVars
  <2>2. CASE PendingWrite(t)
    BY <1>1, <1>4, <2>2, PendingWriteStores DEF StatusWrite
  <2> QED
    BY <2>1, <2>2 DEF Interrupt, AbandonedWrite
<1>6. k \in Nat /\ k <= f /\ (su = "absent" <=> st = "absent")
  BY <1>2, <1>3, <1>5 DEF Story
<1>7. su = "completed" => k = f /\ f # 0
  <2>1. CASE su = st
    BY <1>2, <1>3, <1>5, <2>1 DEF Story, Flushing
  <2>2. CASE st # "absent" /\ p = "complete" /\ su = "completed"
    BY <1>3, <1>5, <2>2 DEF Story, Streaming, Flushing
  <2> QED
    BY <1>5, <2>1, <2>2
<1>8. z = IF su = "absent" THEN "deleted" ELSE "live"
  BY <1>2, <1>3, <1>6 DEF Story, Active, Working, Titling, Unwinding
<1>9. ASSUME NEW q, NEW h, NEW g, Story(q, h, g, k, su, z),
             pc'[t] = q, events'[t] = h, flushTo'[t] = g
      PROVE  StoryOf(t)'
  BY <1>1, <1>5, <1>9 DEF StoryOf, Interrupt
<1>10. CASE p \in Unwinding
  <2>1. pc'[t] = "aborted" /\ events'[t] = e /\ flushTo'[t] = f
    BY <1>1, <1>4, <1>10 DEF Interrupt, Finish
  <2>2. HasDone(e) /\ f # 0
    BY <1>3, <1>10 DEF Story, Unwinding, Streaming
  <2>3. Story("aborted", e, f, k, su, z)
    BY <1>2, <1>3, <1>6, <1>7, <1>8, <1>10, <2>2
    DEF Story, Working, Titling, Unwinding, Streaming, Flushing
  <2> QED
    BY <1>9, <2>1, <2>3
<1>11. CASE p \notin Unwinding
  <2>1. EnterCancel(t)
    BY <1>1, <1>11 DEF Interrupt
  <2>2. CASE p \in Titling
    <3>1. HasDone(e) /\ f # 0
      BY <1>3, <2>2 DEF Story, Titling, Streaming
    <3>2. PICK q \in {"cancelAnswer", "cancelStatus"} :
            pc'[t] = q /\ events'[t] = e /\ flushTo'[t] = f
      BY <1>1, <1>4, <2>1, <2>2, <3>1 DEF EnterCancel, Goto, AfterCancelFlush
    <3>3. Story(q, e, f, k, su, z)
      BY <1>2, <1>3, <1>6, <1>7, <1>8, <2>2, <3>1
      DEF Story, Working, Titling, Unwinding, Streaming, Flushing
    <3> QED
      BY <1>9, <3>2, <3>3
  <2>3. CASE p \in Working
    <3>1. PICK h : h = e \o <<"error", "cancelled">>
      OBVIOUS
    <3>2. Clean(e) /\ OneDone(e) /\ f <= Len(e) /\ (f # 0 => ContentUpTo(e, f))
      BY <1>3, <2>3 DEF Story
    <3>3. /\ h \in Seq(EventTypes) /\ Len(h) = Len(e) + 2 /\ HasDone(h) /\ OneDone(h)
          /\ ContentUpTo(h, Len(e))
      BY <1>2, <3>1, <3>2, FailureShape
    <3>4. events'[t] = h
      BY <1>1, <1>4, <2>1, <2>3, <3>1 DEF EnterCancel, Publish, Titling, Working
    <3>5. h # <<>> /\ Len(h) # 0
      BY <1>2, <3>3
    <3>6. CASE f = 0
      <4>1. flushTo'[t] = Len(h) /\ pc'[t] = "cancelFlush"
        BY <1>1, <1>4, <2>1, <3>4, <3>6 DEF EnterCancel, StartFlush, Goto
      <4>2. k < Len(h) /\ su # "completed"
        BY <1>2, <1>6, <1>7, <3>3, <3>6
      <4>3. ContentUpTo(h, Len(h))
        BY DEF ContentUpTo
      <4>4. Story("cancelFlush", h, Len(h), k, su, z)
        BY <1>6, <1>8, <3>3, <3>5, <4>2, <4>3
        DEF Story, Working, Titling, Unwinding, Streaming, Flushing
      <4> QED
        BY <1>9, <3>4, <4>1, <4>4
    <3>7. CASE f # 0
      <4>1. PICK q \in {"cancelAnswer", "cancelStatus"} : pc'[t] = q /\ flushTo'[t] = f
        BY <1>1, <1>4, <2>1, <3>7 DEF EnterCancel, Goto, AfterCancelFlush
      <4>2. ContentUpTo(h, f)
        <5>1. ContentUpTo(e, f) /\ \A i \in 1..Len(e) : h[i] = e[i]
          BY <1>2, <3>1, <3>2, <3>7, TwoMore DEF EventTypes, Terminal
        <5>2. h[Len(e) + 1] = "error" /\ h[Len(e) + 2] = "cancelled"
          BY <1>2, <3>1, TwoMore DEF EventTypes, Terminal
        <5>3. \A i \in 1..Len(h) : i \in 1..Len(e) \/ i = Len(e) + 1 \/ i = Len(e) + 2
          BY <1>2, <3>3
        <5> QED
          BY <5>1, <5>2, <5>3 DEF ContentUpTo, Content
      <4>3. f <= Len(h)
        BY <1>2, <3>2, <3>3
      <4>4. Story(q, h, f, k, su, z)
        BY <1>6, <1>7, <1>8, <3>3, <3>5, <3>7, <4>2, <4>3
        DEF Story, Working, Titling, Unwinding, Streaming, Flushing
      <4> QED
        BY <1>9, <3>4, <4>1, <4>4
    <3> QED
      BY <3>6, <3>7
  <2> QED
    BY <1>2, <1>11, <2>2, <2>3 DEF Active
<1> QED
  BY <1>10, <1>11

(***************************************************************************)
(* The kinds of steps.  A step is the work of one turn, an aside, or one   *)
(* of CreateTurn, DeleteSession and Restart.                               *)
(***************************************************************************)
LateDone(t) == \E w \in late : w.t = t /\ w.row.status = "completed"

MessagesKept ==
    \A s \in Sessions : \A i \in 1..Len(msgs[s]) :
        i \in 1..Len(msgs'[s]) /\ msgs'[s][i] = msgs[s][i]

Regenerated == budget["regenerate"] < Budget["regenerate"]

\* Only a call of regenerate deletes a message.
RegenerateStory ==
    /\ budget["regenerate"] <= Budget["regenerate"]
    /\ \A c \in Clients :
         call[c].op \in {"lastUser", "lastMessage", "deleteMessage"} => Regenerated

\* A step of the task of t, or one that cancels it.
OnlyTurn(t) ==
    /\ UNCHANGED <<sess, session, owner>>
    /\ MessagesKept
    /\ budget'["regenerate"] = budget["regenerate"]
    /\ \A u \in Turns \ {t} : /\ pc'[u] = pc[u] /\ events'[u] = events[u]
                              /\ flushTo'[u] = flushTo[u] /\ saved'[u] = saved[u]
                              /\ row'[u] = row[u]
    /\ pc[t] \in Active /\ pc'[t] \notin {"none", "killed"}
    /\ executions' = IF pc'[t] \in Active THEN executions ELSE executions \ {<<owner[t], t>>}
    /\ \A w \in late' \ late : w.t = t

\* A step that leaves the tasks alone: it may write a status, which is
\* "completed" only when a cancelled task was about to write just that.
Aside ==
    /\ UNCHANGED <<session, owner, pc, events, flushTo, executions, saved>>
    /\ \A s \in Sessions : sess'[s] = sess[s] \/ (sess[s] = "unused" /\ sess'[s] = "live")
    /\ \A u \in Turns :
         \/ row'[u] = row[u]
         \/ /\ row[u].status # "absent" /\ row'[u].status \in Terminal
            /\ row'[u].status = "completed" => LateDone(u)
    /\ late' \subseteq late
    /\ MessagesKept \/ Regenerated
    /\ budget'["regenerate"] <= budget["regenerate"]

OperateKind ==
    \/ Aside
    \/ \E t \in Turns : (Task(t) \/ Interrupt(t)) /\ OnlyTurn(t)
    \/ \E c \in Clients, t \in Turns : CreateTurn(c, t)
    \/ \E s \in Sessions : DeleteSession(s)

StoryKind == OperateKind \/ Restart

(* Messages are only appended.                                             *)
LEMMA AddMessageKeeps ==
    ASSUME StoreTypes, NEW s \in Sessions, NEW r, NEW t \in Turns, AddMessage(s, r, t),
           r \in {"user", "assistant"}
    PROVE  MessagesKept
<1>1. CASE sess[s] = "live"
  <2>1. PICK x \in MessageType : msgs' = [msgs EXCEPT ![s] = Append(@, x)]
    <3>1. [id |-> nextId, role |-> r, turn |-> t] \in MessageType
      BY DEF StoreTypes, MessageType
    <3> QED
      BY <1>1, <3>1 DEF AddMessage
  <2>2. msgs \in [Sessions -> Seq(MessageType)]
    BY DEF StoreTypes
  <2>3. ASSUME NEW v \in Sessions, NEW i \in 1..Len(msgs[v])
        PROVE  i \in 1..Len(msgs'[v]) /\ msgs'[v][i] = msgs[v][i]
    <3>1. msgs[v] \in Seq(MessageType)
      BY <2>2
    <3>2. msgs'[v] = IF v = s THEN Append(msgs[v], x) ELSE msgs[v]
      BY <2>1, <2>2
    <3> QED
      BY <2>3, <3>1, <3>2
  <2> QED
    BY <2>3 DEF MessagesKept
<1>2. CASE UNCHANGED storeVars
  BY <1>2 DEF storeVars, MessagesKept
<1> QED
  BY <1>1, <1>2 DEF AddMessage

(* The pending transaction keeps every message.                            *)
LEMMA PendingWriteKeeps ==
    ASSUME TypeOK, NEW t \in Turns, PendingWrite(t)
    PROVE  MessagesKept
<1>1. StoreTypes /\ session[t] \in Sessions
  BY DEF TypeOK, TaskTypes
<1>2. \A r \in {"user", "assistant"} : AddMessage(session[t], r, t) => MessagesKept
  BY <1>1, AddMessageKeeps
<1>3. msgs' = msgs => MessagesKept
  BY DEF MessagesKept
<1> QED
  BY <1>2, <1>3 DEF PendingWrite, AppendTurnEvent, SetStatus, SetTitle

(* Each step of a task is a step of that turn only.                        *)
LEMMA TaskIsOnlyTurn ==
    ASSUME TypeOK, NEW t \in Turns, Task(t)
    PROVE  OnlyTurn(t)
<1>1. /\ pc \in [Turns -> Phases] /\ events \in [Turns -> Seq(EventTypes)]
      /\ flushTo \in [Turns -> Nat] /\ StoreTypes /\ budget \in [Disturbances -> Nat]
  BY DEF TypeOK, TaskTypes
<1>2. UNCHANGED storeVars => /\ sess' = sess /\ MessagesKept
                             /\ \A u \in Turns \ {t} : saved'[u] = saved[u] /\ row'[u] = row[u]
  BY DEF storeVars, MessagesKept
<1>3. PendingWrite(t) => /\ sess' = sess /\ MessagesKept
                         /\ \A u \in Turns \ {t} : saved'[u] = saved[u] /\ row'[u] = row[u]
  BY <1>1, PendingWriteStores, PendingWriteKeeps
<1>4. /\ sess' = sess /\ MessagesKept
      /\ \A u \in Turns \ {t} : saved'[u] = saved[u] /\ row'[u] = row[u]
  <2>1. UNCHANGED storeVars \/ PendingWrite(t)
    BY DEF Task, PersistUserMessage, MessageRefused, StreamOutput, AskUser, TakeReply,
       StreamEnds, RunFails, PersistAnswer, FlushEvent, MarkCompleted, CheckTitle, WriteTitle,
       PersistPartialAnswer, MarkUnwound
  <2> QED
    BY <1>2, <1>3, <2>1
<1>5. UNCHANGED <<session, owner, late>>
  BY DEF Task, PersistUserMessage, MessageRefused, StreamOutput, AskUser, TakeReply,
     StreamEnds, RunFails, PersistAnswer, FlushEvent, MarkCompleted, CheckTitle, WriteTitle,
     PersistPartialAnswer, MarkUnwound, TaskUnchanged
<1>6. budget'["regenerate"] = budget["regenerate"]
  <2>1. UNCHANGED budget \/ Spend("fail")
    BY DEF Task, PersistUserMessage, MessageRefused, StreamOutput, AskUser, TakeReply,
       StreamEnds, RunFails, PersistAnswer, FlushEvent, MarkCompleted, CheckTitle, WriteTitle,
       PersistPartialAnswer, MarkUnwound, TaskUnchanged
  <2> QED
    BY <1>1, <2>1 DEF Spend, Disturbances
<1>7. \A u \in Turns \ {t} : events'[u] = events[u] /\ flushTo'[u] = flushTo[u]
  <2>1. \/ UNCHANGED events
        \/ \E evs : Publish(t, evs)
    BY DEF Task, PersistUserMessage, MessageRefused, StreamOutput, AskUser, TakeReply,
       StreamEnds, RunFails, PersistAnswer, FlushEvent, MarkCompleted, CheckTitle, WriteTitle,
       PersistPartialAnswer, MarkUnwound, EnterFailure
  <2>2. UNCHANGED flushTo \/ StartFlush(t)
    BY DEF Task, PersistUserMessage, MessageRefused, StreamOutput, AskUser, TakeReply,
       StreamEnds, RunFails, PersistAnswer, FlushEvent, MarkCompleted, CheckTitle, WriteTitle,
       PersistPartialAnswer, MarkUnwound, EnterFailure
  <2> QED
    BY <1>1, <2>1, <2>2 DEF Publish, StartFlush
<1>8. pc[t] \in Active
  BY DEF Task, PersistUserMessage, MessageRefused, StreamOutput, AskUser, TakeReply,
     StreamEnds, RunFails, PersistAnswer, FlushEvent, MarkCompleted, CheckTitle, WriteTitle,
     PersistPartialAnswer, MarkUnwound, Active, Working, Titling, Unwinding
<1>9. \/ Finish(t, "ended")
      \/ \E q \in Active : pc' = [pc EXCEPT ![t] = q] /\ executions' = executions
  <2> DEFINE Moves == \E q \in Active : pc' = [pc EXCEPT ![t] = q] /\ executions' = executions
  <2>1. \A q \in Active : Goto(t, q) => Moves
    BY DEF Goto, memoryVars
  <2>2. /\ {"stream", "paused", "answer", "flush", "complete", "titleCheck", "titleWrite"} \subseteq Active
        /\ {"cancelFlush", "cancelAnswer", "cancelStatus", "failFlush", "failStatus"} \subseteq Active
    BY DEF Active, Working, Titling, Unwinding
  <2>3. UNCHANGED <<pc, memoryVars>> => Moves
    BY <1>1, <1>8 DEF memoryVars
  <2>4. pc[t] \in {"flush", "cancelFlush", "failFlush"} => AfterFlush(t) \in Active
    BY <2>2 DEF AfterFlush, AfterCancelFlush
  <2>5. CASE PersistUserMessage(t) \/ MessageRefused(t) \/ StreamOutput(t) \/ AskUser(t)
    BY <2>1, <2>2, <2>3, <2>5
    DEF PersistUserMessage, MessageRefused, StreamOutput, AskUser, EnterFailure
  <2>6. CASE TakeReply(t) \/ StreamEnds(t) \/ RunFails(t) \/ PersistAnswer(t)
    BY <2>1, <2>2, <2>6 DEF TakeReply, StreamEnds, RunFails, PersistAnswer, EnterFailure
  <2>7. CASE FlushEvent(t)
    BY <1>8, <2>1, <2>4, <2>7 DEF FlushEvent
  <2>8. CASE MarkCompleted(t) \/ CheckTitle(t) \/ WriteTitle(t)
    BY <2>1, <2>2, <2>8 DEF MarkCompleted, CheckTitle, WriteTitle
  <2>9. CASE PersistPartialAnswer(t) \/ MarkUnwound(t)
    BY <2>1, <2>2, <2>9 DEF PersistPartialAnswer, MarkUnwound
  <2> QED
    BY <2>5, <2>6, <2>7, <2>8, <2>9 DEF Task
<1>10. /\ \A u \in Turns \ {t} : pc'[u] = pc[u]
       /\ pc'[t] \notin {"none", "killed"}
       /\ executions' = IF pc'[t] \in Active THEN executions ELSE executions \ {<<owner[t], t>>}
  BY <1>1, <1>9 DEF Finish, Active, Working, Titling, Unwinding
<1> QED
  BY <1>4, <1>5, <1>6, <1>7, <1>8, <1>10 DEF OnlyTurn

(* So is a cancellation of it.                                             *)
LEMMA InterruptIsOnlyTurn ==
    ASSUME TypeOK, NEW t \in Turns, pc[t] \in Active, Interrupt(t), Spend("cancel")
    PROVE  OnlyTurn(t)
<1>1. /\ pc \in [Turns -> Phases] /\ events \in [Turns -> Seq(EventTypes)]
      /\ flushTo \in [Turns -> Nat] /\ StoreTypes /\ budget \in [Disturbances -> Nat]
  BY DEF TypeOK, TaskTypes
<1>2. /\ sess' = sess /\ MessagesKept
      /\ \A u \in Turns \ {t} : saved'[u] = saved[u] /\ row'[u] = row[u]
      /\ \A w \in late' \ late : w.t = t
  <2>1. CASE UNCHANGED storeVars /\ (UNCHANGED late \/ late' = late \cup {[t |-> t, row |-> StatusWrite(pc[t])]})
    BY <2>1 DEF storeVars, MessagesKept
  <2>2. CASE PendingWrite(t) /\ UNCHANGED late
    BY <1>1, <2>2, PendingWriteStores, PendingWriteKeeps
  <2> QED
    BY <2>1, <2>2 DEF Interrupt, AbandonedWrite
<1>3. budget'["regenerate"] = budget["regenerate"]
  BY <1>1 DEF Spend, Disturbances
<1>4. \/ UNCHANGED events /\ UNCHANGED flushTo
      \/ (UNCHANGED events \/ Publish(t, <<"error", "cancelled">>))
         /\ (UNCHANGED flushTo \/ StartFlush(t))
  BY DEF Interrupt, EnterCancel
<1>5. \A u \in Turns \ {t} : events'[u] = events[u] /\ flushTo'[u] = flushTo[u]
  BY <1>1, <1>4 DEF Publish, StartFlush
<1>6. \/ Finish(t, "aborted")
      \/ \E q \in {"cancelFlush", "cancelAnswer", "cancelStatus"} : Goto(t, q)
  BY DEF Interrupt, EnterCancel, AfterCancelFlush
<1>7. /\ \A u \in Turns \ {t} : pc'[u] = pc[u]
      /\ pc'[t] \notin {"none", "killed"}
      /\ executions' = IF pc'[t] \in Active THEN executions ELSE executions \ {<<owner[t], t>>}
  BY <1>1, <1>6 DEF Finish, Goto, memoryVars, Active, Working, Titling, Unwinding
<1> QED
  BY <1>2, <1>3, <1>5, <1>7 DEF OnlyTurn, Interrupt

(* A status written from outside the task is an aside.                     *)
LEMMA StatusIsAside ==
    ASSUME TypeOK, NEW t \in Turns, NEW status \in Terminal, NEW why \in Reasons,
           SetStatus(t, status, why), status = "completed" => LateDone(t),
           UNCHANGED <<taskVars, executions>>, late' \subseteq late,
           budget'["regenerate"] <= budget["regenerate"]
    PROVE  Aside
<1>1. row \in [Turns -> RowType]
  BY DEF TypeOK, StoreTypes
<1>2. \A u \in Turns : \/ row'[u] = row[u]
                       \/ /\ row[u].status # "absent" /\ row'[u].status = status /\ u = t
  BY <1>1 DEF SetStatus
<1>3. MessagesKept
  BY DEF SetStatus, MessagesKept
<1> QED
  BY <1>2, <1>3 DEF Aside, SetStatus, taskVars

(* So is a step that touches no row, no task and no message.               *)
LEMMA QuietIsAside ==
    ASSUME TypeOK, UNCHANGED <<taskVars, executions, row, saved, late, msgs>>,
           \A s \in Sessions : sess'[s] = sess[s] \/ (sess[s] = "unused" /\ sess'[s] = "live"),
           budget'["regenerate"] <= budget["regenerate"]
    PROVE  Aside
BY DEF Aside, MessagesKept, taskVars

(* Every step of a call is of one of the kinds.                            *)
LEMMA CallIsOperateKind ==
    ASSUME TypeOK, RunnerIsOwner, RegenerateStory, NEW c \in Clients, Pending(c) \/ Request(c)
    PROVE  OperateKind
<1>1. /\ call \in [Clients -> CallType] /\ call[c] \in CallType /\ StoreTypes
      /\ sess \in [Sessions -> {"unused", "live", "deleted"}]
      /\ budget \in [Disturbances -> Nat] /\ "regenerate" \in Disturbances
  BY DEF TypeOK, StoreTypes, Disturbances
<1>2. call[c].s \in Sessions /\ call[c].t \in Turns
  BY <1>1 DEF CallType
<1>3. ASSUME CallUnchanged, UNCHANGED storeVars
      PROVE  Aside
  BY <1>1, <1>3, QuietIsAside DEF CallUnchanged, storeVars, memoryVars
<1>4. ASSUME NEW s \in Sessions, EnsureSession(c, s)
      PROVE  Aside
  <2>1. \A v \in Sessions : sess'[v] = sess[v] \/ (sess[v] = "unused" /\ sess'[v] = "live")
    BY <1>1, <1>4 DEF EnsureSession
  <2> QED
    BY <1>1, <1>4, <2>1, QuietIsAside DEF EnsureSession, CallUnchanged, memoryVars
<1>5. CASE ListActiveTurns(c) \/ RefuseTurn(c) \/ LastUser(c) \/ LastMessage(c) \/ CancelReturns(c)
  BY <1>3, <1>5
  DEF ListActiveTurns, RefuseTurn, LastUser, LastMessage, CancelReturns, OperateKind
<1>6. ASSUME NEW t \in Turns, CancelOrphan(c, t) \/ CheckActiveTurn(c, t)
      PROVE  Aside
  BY <1>3, <1>6 DEF CancelOrphan, CheckActiveTurn
<1>7. CASE FailOrphan(c) \/ CancelRow(c)
  <2>1. /\ CallUnchanged
        /\ \E status \in {"failed", "cancelled"}, why \in Reasons :
             SetStatus(call[c].t, status, why)
    BY <1>7 DEF FailOrphan, CancelRow, Reasons
  <2>2. \A status \in {"failed", "cancelled"} : status \in Terminal /\ status # "completed"
    BY DEF Terminal
  <2>3. /\ UNCHANGED <<taskVars, executions>> /\ late' \subseteq late
        /\ budget'["regenerate"] <= budget["regenerate"]
    BY <1>1, <2>1 DEF CallUnchanged, memoryVars
  <2>4. Aside
    BY <1>2, <2>1, <2>2, <2>3, StatusIsAside
  <2> QED
    BY <2>4 DEF OperateKind
<1>8. CASE DeleteMessage(c)
  <2>1. Regenerated
    BY <1>8 DEF DeleteMessage, At, RegenerateStory
  <2>2. UNCHANGED <<sess, row, saved>> /\ CallUnchanged
    BY <1>8 DEF DeleteMessage
  <2>3. Aside
    BY <1>1, <2>1, <2>2 DEF Aside, CallUnchanged, taskVars, memoryVars
  <2> QED
    BY <2>3 DEF OperateKind
<1>9. ASSUME NEW s \in Sessions, Regenerate(c, s)
      PROVE  Aside
  <2>1. budget'["regenerate"] <= budget["regenerate"]
    BY <1>1, <1>9 DEF Regenerate, Spend
  <2> QED
    BY <1>9, <2>1, QuietIsAside DEF Regenerate, storeVars, memoryVars
<1>10. ASSUME NEW t \in Turns, CancelLive(c, t)
       PROVE  (Task(t) \/ Interrupt(t)) /\ OnlyTurn(t)
  <2>1. pc[t] \in Active
    BY <1>10, ConstantsAssumption DEF CancelLive, Mine, Live, RunnerIsOwner
  <2> QED
    BY <1>10, <2>1, InterruptIsOnlyTurn DEF CancelLive
<1> QED
  BY <1>2, <1>4, <1>5, <1>6, <1>7, <1>8, <1>9, <1>10 DEF Pending, Request, OperateKind

(* Every step of the runtime is of one of the kinds.                       *)
LEMMA OperateKinds ==
    ASSUME TypeOK, RunnerIsOwner, RegenerateStory, Operate \/ UNCHANGED vars
    PROVE  OperateKind
<1>1. budget \in [Disturbances -> Nat] /\ "regenerate" \in Disturbances
  BY DEF TypeOK, Disturbances
<1>2. CASE UNCHANGED vars
  <2>1. Aside
    BY <1>1, <1>2, QuietIsAside DEF vars, storeVars, memoryVars
  <2> QED
    BY <2>1 DEF OperateKind
<1>3. ASSUME NEW t \in Turns, Task(t)
      PROVE  OperateKind
  BY <1>3, TaskIsOnlyTurn DEF OperateKind
<1>4. CASE LateWrite
  <2>1. PICK w \in late : /\ SetStatus(w.t, w.row.status, w.row.why)
                          /\ late' = late \ {w}
                          /\ UNCHANGED <<taskVars, memoryVars, call, budget>>
    BY <1>4 DEF LateWrite
  <2>2. /\ w.t \in Turns /\ w.row.status \in Terminal /\ w.row.why \in Reasons
        /\ w.row.status = "completed" => LateDone(w.t)
    BY DEF TypeOK, LateType, LateDone
  <2>3. Aside
    BY <1>1, <2>1, <2>2, StatusIsAside DEF memoryVars
  <2> QED
    BY <2>3 DEF OperateKind
<1>5. CASE Environment
  <2>1. ASSUME NEW t \in Turns, SubmitUserReply(t)
        PROVE  Aside
    <3>1. budget'["regenerate"] = budget["regenerate"]
      BY <1>1, <2>1 DEF SubmitUserReply, Spend
    <3> QED
      BY <1>1, <2>1, <3>1, QuietIsAside DEF SubmitUserReply, storeVars
  <2>2. ASSUME NEW s \in Sessions, RenameSession(s)
        PROVE  Aside
    <3>1. budget'["regenerate"] = budget["regenerate"]
      BY <1>1, <2>2 DEF RenameSession, Spend
    <3> QED
      BY <1>1, <2>2, <3>1, QuietIsAside DEF RenameSession, SetTitle, memoryVars
  <2> QED
    BY <1>5, <2>1, <2>2 DEF Environment, OperateKind
<1>6. ASSUME NEW c \in Clients, Pending(c) \/ Request(c)
      PROVE  OperateKind
  BY <1>6, CallIsOperateKind
<1> QED
  BY <1>2, <1>3, <1>4, <1>5, <1>6 DEF Operate

(* So is every step, a restart being one of its own.                       *)
LEMMA StoryKinds ==
    ASSUME TypeOK, RunnerIsOwner, RegenerateStory, [Next]_vars
    PROVE  StoryKind
BY OperateKinds DEF Next, StoryKind

(* Only regenerate spends its budget and leads to a deleted message.       *)
LEMMA RegenerateStep ==
    ASSUME TypeOK, RegenerateStory, [Next]_vars
    PROVE  RegenerateStory'
<1> DEFINE Deleting == {"lastUser", "lastMessage", "deleteMessage"}
<1>1. /\ budget \in [Disturbances -> Nat] /\ "regenerate" \in Disturbances
      /\ call \in [Clients -> CallType] /\ Idle.op = "idle"
      /\ Budget \in [Disturbances -> Nat]
  BY ConstantsAssumption DEF TypeOK, Disturbances, Idle
<1>2. budget'["regenerate"] <= budget["regenerate"]
  <2>1. UNCHANGED budget \/ \E d \in Disturbances : Spend(d)
    BY ZenonT(40) DEF Next, Operate, Task, PersistUserMessage, MessageRefused, StreamOutput, AskUser,
       TakeReply, StreamEnds, RunFails, PersistAnswer, FlushEvent, MarkCompleted, CheckTitle,
       WriteTitle, PersistPartialAnswer, MarkUnwound, TaskUnchanged, LateWrite, Pending,
       Request, EnsureSession, ListActiveTurns, FailOrphan, RefuseTurn, CreateTurn, LastUser,
       LastMessage, DeleteMessage, CancelReturns, CancelRow, Regenerate, CancelLive,
       CancelOrphan, CheckActiveTurn, CallUnchanged, Environment, SubmitUserReply,
       RenameSession, DeleteSession, Restart, Disturbances, vars
  <2> QED
    BY <1>1, <2>1 DEF Spend
<1>3. budget' \in [Disturbances -> Nat] /\ (Regenerated => Regenerated')
  <2>1. budget' \in [Disturbances -> Nat]
    BY TypeStep DEF TypeOK
  <2> QED
    BY <1>1, <1>2, <2>1 DEF Regenerated
<1>4. ASSUME NEW d \in Clients, call'[d].op \in Deleting, call'[d] # call[d]
      PROVE  call[d].op \in Deleting \/ Regenerated'
  <2>1. PICK c \in Clients : Pending(c) \/ Request(c)
    <3>1. ~Restart
      BY <1>1, <1>4 DEF Restart
    <3>2. UNCHANGED call \/ \E c \in Clients : Pending(c) \/ Request(c)
      BY <3>1
      DEF Next, Operate, Task, PersistUserMessage, MessageRefused, StreamOutput, AskUser,
          TakeReply, StreamEnds, RunFails, PersistAnswer, FlushEvent, MarkCompleted, CheckTitle,
          WriteTitle, PersistPartialAnswer, MarkUnwound, TaskUnchanged, LateWrite, Environment,
          SubmitUserReply, RenameSession, DeleteSession, vars
    <3> QED
      BY <1>4, <3>2
  <2>2. CASE LastUser(c) \/ LastMessage(c)
    BY <1>1, <1>4, <2>2 DEF LastUser, LastMessage, At
  <2>3. ASSUME NEW s \in Sessions, Regenerate(c, s)
        PROVE  Regenerated'
    BY <1>1, <2>3 DEF Regenerate, Spend, Regenerated, RegenerateStory
  <2>4. ASSUME NEW x, call' = [call EXCEPT ![c] = x], x.op \notin Deleting
        PROVE  FALSE
    BY <1>1, <1>4, <2>4
  <2>5. CASE ListActiveTurns(c) \/ FailOrphan(c)
    <3>1. call'[c].op \notin Deleting /\ \A e \in Clients \ {c} : call'[e] = call[e]
      BY <1>1, <2>5 DEF ListActiveTurns, FailOrphan, CallType
    <3> QED
      BY <1>4, <3>1
  <2>6. CASE RefuseTurn(c) \/ CancelReturns(c) \/ CancelRow(c) \/ \E t \in Turns : CreateTurn(c, t)
    BY <1>1, <2>4, <2>6 DEF RefuseTurn, CancelReturns, CancelRow, CreateTurn
  <2>7. CASE DeleteMessage(c) \/ \E s \in Sessions : EnsureSession(c, s)
    <3>1. \/ call' = [call EXCEPT ![c] = [@ EXCEPT !.op = "ensure", !.m = 0]]
          \/ \E u \in Sessions : call' = [call EXCEPT ![c] = [@ EXCEPT !.op = "list", !.s = u]]
      BY <2>7 DEF DeleteMessage, EnsureSession
    <3>2. call'[c].op \notin Deleting /\ \A e \in Clients \ {c} : call'[e] = call[e]
      BY <1>1, <3>1, ZenonT(30) DEF CallType
    <3> QED
      BY <1>4, <3>2
  <2>8. CASE \E t \in Turns : CancelLive(c, t) \/ CancelOrphan(c, t) \/ CheckActiveTurn(c, t)
    <3>1. call'[c].op \notin Deleting /\ \A e \in Clients \ {c} : call'[e] = call[e]
      BY <1>1, <2>8 DEF CancelLive, CancelOrphan, CheckActiveTurn, CallType
    <3> QED
      BY <1>4, <3>1
  <2>9. call[c].s \in Sessions
    BY <1>1 DEF CallType
  <2> QED
    BY <2>1, <2>2, <2>3, <2>5, <2>6, <2>7, <2>8, <2>9 DEF Pending, Request
<1> QED
  BY <1>1, <1>2, <1>3, <1>4 DEF RegenerateStory, Regenerated

(***************************************************************************)
(* Each kind of step keeps the stories.                                    *)
(***************************************************************************)
StoryInv ==
    /\ RunnerIsOwner
    /\ RegenerateStory
    /\ \A t \in Turns : StoryOf(t)
    /\ LateStory

(* Once flushed, a turn stays flushed: its task has no more to store.      *)
LEMMA TaskKeepsFlushed ==
    ASSUME TypeOK, NEW t \in Turns, StoryOf(t), Task(t), Flushed(t)
    PROVE  Flushed(t)'
<1>1. /\ StoreTypes /\ flushTo \in [Turns -> Nat] /\ saved \in [Turns -> Nat]
      /\ row[t] \in RowType
  BY DEF TypeOK, TaskTypes, StoreTypes
<1>2. CASE row[t].status = "absent"
  <2>1. UNCHANGED storeVars \/ PendingWrite(t)
    BY DEF Task, PersistUserMessage, MessageRefused, StreamOutput, AskUser, TakeReply,
       StreamEnds, RunFails, PersistAnswer, FlushEvent, MarkCompleted, CheckTitle, WriteTitle,
       PersistPartialAnswer, MarkUnwound
  <2>2. row'[t].status = "absent"
    BY <1>1, <1>2, <2>1, PendingWriteStores DEF storeVars
  <2> QED
    BY <2>2 DEF Flushed
<1>3. CASE row[t].status # "absent"
  <2>1. saved[t] = flushTo[t] /\ flushTo[t] # 0
    BY <1>3 DEF Flushed
  <2>2. pc[t] \notin Streaming \cup Flushing
    BY <1>1, <1>3, <2>1 DEF StoryOf, Story
  <2>3. /\ UNCHANGED flushTo
        /\ UNCHANGED storeVars \/ PendingWrite(t)
    BY <2>2
    DEF Task, PersistUserMessage, MessageRefused, StreamOutput, AskUser, TakeReply,
        StreamEnds, RunFails, PersistAnswer, FlushEvent, MarkCompleted, CheckTitle, WriteTitle,
        PersistPartialAnswer, MarkUnwound, Streaming
  <2>4. saved'[t] = saved[t]
    BY <1>1, <2>2, <2>3, PendingWriteStores DEF storeVars
  <2> QED
    BY <2>1, <2>3, <2>4 DEF Flushed
<1> QED
  BY <1>2, <1>3

(* Nor does a cancellation make it store more, and the "completed" it may  *)
(* leave behind is that of a flushed turn.                                 *)
LEMMA InterruptKeepsFlushed ==
    ASSUME TypeOK, NEW t \in Turns, StoryOf(t), pc[t] \in Active, Interrupt(t)
    PROVE  /\ Flushed(t) => Flushed(t)'
           /\ \A w \in late' \ late : w.row.status = "completed" => Flushed(t)
<1>1. /\ StoreTypes /\ flushTo \in [Turns -> Nat] /\ saved \in [Turns -> Nat]
      /\ row[t] \in RowType
  BY DEF TypeOK, TaskTypes, StoreTypes
<1>2. UNCHANGED storeVars \/ PendingWrite(t)
  BY DEF Interrupt, AbandonedWrite
<1>3. CASE row[t].status = "absent"
  <2>1. row'[t].status = "absent"
    BY <1>1, <1>2, <1>3, PendingWriteStores DEF storeVars
  <2> QED
    BY <1>3, <2>1 DEF Flushed
<1>4. CASE row[t].status # "absent"
  <2>1. ASSUME Flushed(t)
        PROVE  Flushed(t)'
    <3>1. saved[t] = flushTo[t] /\ flushTo[t] # 0
      BY <1>4, <2>1 DEF Flushed
    <3>2. pc[t] \notin Flushing
      BY <1>1, <1>4, <3>1 DEF StoryOf, Story
    <3>3. flushTo'[t] = flushTo[t]
      BY <3>1 DEF Interrupt, EnterCancel
    <3>4. saved'[t] = saved[t]
      BY <1>1, <1>2, <3>2, PendingWriteStores DEF storeVars
    <3> QED
      BY <3>1, <3>3, <3>4 DEF Flushed
  <2>2. ASSUME NEW w \in late' \ late, w.row.status = "completed"
        PROVE  Flushed(t)
    <3>1. /\ pc[t] \in {"complete", "cancelStatus", "failStatus"}
          /\ w = [t |-> t, row |-> StatusWrite(pc[t])]
      BY <2>2 DEF Interrupt, AbandonedWrite
    <3>2. pc[t] = "complete"
      BY <2>2, <3>1 DEF StatusWrite
    <3> QED
      BY <1>4, <3>2 DEF Flushed, StoryOf, Story, Streaming
  <2> QED
    BY <2>1, <2>2
<1> QED
  BY <1>3, <1>4

(* A step of one turn keeps the stories of all.                            *)
LEMMA OnlyTurnKeepsStory ==
    ASSUME TypeOK, StoryInv, RegenerateStory', NEW t \in Turns,
           Task(t) \/ Interrupt(t), OnlyTurn(t)
    PROVE  StoryInv'
<1>1. owner[t] \in Managers /\ pc[t] \in Active
  BY DEF TypeOK, TaskTypes, OnlyTurn
<1>2. RunnerIsOwner'
  BY <1>1 DEF StoryInv, RunnerIsOwner, OnlyTurn
<1>3. StoryOf(t)' /\ (Flushed(t) => Flushed(t)')
  BY <1>1, TaskStory, InterruptStory, TaskKeepsFlushed, InterruptKeepsFlushed DEF StoryInv
<1>4. \A u \in Turns \ {t} : StoryOf(u)' /\ (Flushed(u) => Flushed(u)')
  BY DEF StoryInv, StoryOf, OnlyTurn, Flushed
<1>5. ASSUME NEW w \in late', w.row.status = "completed"
      PROVE  pc'[w.t] # "none" /\ Flushed(w.t)'
  <2>1. CASE w \in late
    <3>1. w.t \in Turns /\ pc[w.t] # "none" /\ Flushed(w.t)
      BY <1>5, <2>1 DEF StoryInv, LateStory, TypeOK, LateType
    <3>2. pc'[w.t] # "none"
      BY <3>1 DEF OnlyTurn
    <3> QED
      BY <1>3, <1>4, <3>1, <3>2
  <2>2. CASE w \notin late
    <3>1. w.t = t /\ pc'[t] # "none" /\ ~ UNCHANGED late
      BY <1>5, <2>2 DEF OnlyTurn
    <3>2. ~Task(t)
      BY <3>1 DEF Task, PersistUserMessage, MessageRefused, StreamOutput, AskUser, TakeReply,
         StreamEnds, RunFails, PersistAnswer, FlushEvent, MarkCompleted, CheckTitle, WriteTitle,
         PersistPartialAnswer, MarkUnwound, TaskUnchanged
    <3>3. Flushed(t)
      BY <1>1, <1>5, <2>2, <3>2, InterruptKeepsFlushed DEF StoryInv
    <3> QED
      BY <1>3, <3>1, <3>3
  <2> QED
    BY <2>1, <2>2
<1> QED
  BY <1>2, <1>3, <1>4, <1>5 DEF StoryInv, LateStory

(* So does a step that leaves the tasks alone: a "completed" it writes was *)
(* late, and its turn is flushed.                                          *)
LEMMA AsideKeepsStory ==
    ASSUME TypeOK, StoryInv, RegenerateStory', Aside
    PROVE  StoryInv'
<1>1. /\ sess \in [Sessions -> {"unused", "live", "deleted"}] /\ row \in [Turns -> RowType]
      /\ session \in [Turns -> Sessions] /\ flushTo \in [Turns -> Nat] /\ saved \in [Turns -> Nat]
  BY DEF TypeOK, StoreTypes, TaskTypes
<1>2. \A u \in Turns : (row'[u].status = "absent" <=> row[u].status = "absent")
  BY DEF Aside, Terminal
<1>3. \A u \in Turns : Flushed(u) <=> Flushed(u)'
  BY <1>2 DEF Flushed, Aside
<1>4. LateStory'
  <2>1. \A w \in late' : w \in late /\ w.t \in Turns
    BY DEF Aside, TypeOK, LateType
  <2> QED
    BY <1>3, <2>1 DEF StoryInv, LateStory, Aside
<1>5. RunnerIsOwner'
  BY DEF StoryInv, RunnerIsOwner, Aside
<1>6. ASSUME NEW u \in Turns
      PROVE  StoryOf(u)'
  <2>1. PICK p, e, f, n, st, z, su, y :
          /\ p = pc[u] /\ e = events[u] /\ f = flushTo[u] /\ n = saved[u]
          /\ st = row[u].status /\ z = sess[session[u]]
          /\ su = row'[u].status /\ y = sess'[session[u]]
    OBVIOUS
  <2>2. /\ Story(p, e, f, n, st, z) /\ (su = "absent" <=> st = "absent")
        /\ p = "none" => st = "absent"
    BY <1>2, <2>1 DEF StoryInv, StoryOf, Story
  <2>3. p # "none" => y = z
    BY <1>1, <2>1, <2>2 DEF Aside, Story
  <2>4. su = "completed" => n = f /\ f # 0
    <3>1. CASE row'[u] = row[u]
      BY <2>1, <2>2, <3>1 DEF Story
    <3>2. CASE LateDone(u) /\ row[u].status # "absent"
      BY <2>1, <3>2 DEF StoryInv, LateStory, LateDone, Flushed
    <3> QED
      BY <2>1, <3>1, <3>2 DEF Aside
  <2>5. Story(p, e, f, n, su, y)
    BY <2>2, <2>3, <2>4 DEF Story
  <2> QED
    BY <2>1, <2>5 DEF StoryOf, Aside
<1> QED
  BY <1>4, <1>5, <1>6 DEF StoryInv

(* A turn begins with its SESSION event and an empty table.                *)
LEMMA CreateTurnKeepsStory ==
    ASSUME TypeOK, StoryInv, RegenerateStory', NEW c \in Clients, NEW t \in Turns,
           CreateTurn(c, t)
    PROVE  StoryInv'
<1>1. /\ row \in [Turns -> RowType] /\ session \in [Turns -> Sessions]
      /\ pc \in [Turns -> Phases] /\ owner \in [Turns -> Managers]
      /\ events \in [Turns -> Seq(EventTypes)] /\ flushTo \in [Turns -> Nat]
      /\ saved \in [Turns -> Nat] /\ call[c].s \in Sessions
  BY DEF TypeOK, StoreTypes, TaskTypes, CallType
<1>2. /\ pc[t] = "none" /\ sess' = sess /\ sess[call[c].s] = "live"
      /\ saved' = saved /\ flushTo' = flushTo /\ late' = late
      /\ session'[t] = call[c].s /\ pc'[t] = "context" /\ row'[t].status = "running"
      /\ events'[t] = events[t] \o <<"session">>
  BY <1>1 DEF CreateTurn, MayCreate, Publish
<1>3. events[t] = <<>> /\ flushTo[t] = 0 /\ saved[t] = 0
  BY <1>1, <1>2 DEF StoryInv, StoryOf, Story
<1>4. events'[t] = <<"session">>
  BY <1>2, <1>3
<1>5. \A u \in Turns \ {t} :
        /\ pc'[u] = pc[u] /\ events'[u] = events[u] /\ row'[u] = row[u]
        /\ session'[u] = session[u] /\ owner'[u] = owner[u]
  BY <1>1 DEF CreateTurn, Publish
<1>6. StoryOf(t)'
  <2>1. /\ OneDone(<<"session">>) /\ Clean(<<"session">>) /\ Len(<<"session">>) = 1
        /\ <<"session">> # <<>>
    BY DEF OneDone, Clean, Content, Terminal
  <2>2. Story("context", <<"session">>, 0, 0, "running", "live")
    BY <2>1 DEF Story, Working, Titling, Unwinding, Streaming, Flushing
  <2> QED
    BY <1>2, <1>3, <1>4, <2>2 DEF StoryOf
<1>7. \A u \in Turns \ {t} : StoryOf(u)'
  BY <1>2, <1>5 DEF StoryInv, StoryOf
<1>8. LateStory'
  <2>1. ASSUME NEW w \in late, w.row.status = "completed"
        PROVE  pc'[w.t] # "none" /\ Flushed(w.t)'
    <3>1. w.t \in Turns \ {t} /\ pc[w.t] # "none" /\ Flushed(w.t)
      BY <1>2, <2>1 DEF StoryInv, LateStory, TypeOK, LateType
    <3> QED
      BY <1>2, <1>5, <3>1 DEF Flushed
  <2> QED
    BY <1>2, <2>1 DEF LateStory
<1>9. RunnerIsOwner'
  <2>1. /\ owner'[t] = ManagerOf[c] /\ executions' = executions \cup {<<ManagerOf[c], t>>}
        /\ \A m \in Managers : <<m, t>> \notin executions
    BY <1>1, <1>2
    DEF CreateTurn, StoryInv, RunnerIsOwner, Active, Working, Titling, Unwinding
  <2> QED
    BY <1>1, <1>2, <1>5, <2>1, ZenonT(30) DEF StoryInv, RunnerIsOwner, Active, Working
<1> QED
  BY <1>6, <1>7, <1>8, <1>9 DEF StoryInv

(* The rows and events of a deleted session go with it.                    *)
LEMMA DeleteSessionKeepsStory ==
    ASSUME TypeOK, StoryInv, RegenerateStory', NEW s \in Sessions, DeleteSession(s)
    PROVE  StoryInv'
<1>1. /\ row \in [Turns -> RowType] /\ session \in [Turns -> Sessions]
      /\ sess \in [Sessions -> {"unused", "live", "deleted"}]
      /\ flushTo \in [Turns -> Nat] /\ saved \in [Turns -> Nat]
      /\ events \in [Turns -> Seq(EventTypes)]
  BY DEF TypeOK, StoreTypes, TaskTypes
<1>2. \A u \in Turns :
        IF session[u] = s
        THEN row'[u].status = "absent" /\ saved'[u] = 0 /\ sess'[session[u]] = "deleted"
        ELSE row'[u] = row[u] /\ saved'[u] = saved[u] /\ sess'[session[u]] = sess[session[u]]
  BY <1>1 DEF DeleteSession
<1>3. UNCHANGED <<taskVars, executions, late>>
  BY DEF DeleteSession, memoryVars
<1>4. ASSUME NEW u \in Turns
      PROVE  StoryOf(u)' /\ (Flushed(u) => Flushed(u)')
  <2>1. CASE session[u] = s
    <3>1. Story(pc[u], events[u], flushTo[u], 0, "absent", "deleted")
      BY <1>1 DEF StoryInv, StoryOf, Story
    <3> QED
      BY <1>2, <1>3, <2>1, <3>1 DEF StoryOf, Flushed, taskVars
  <2>2. CASE session[u] # s
    BY <1>2, <1>3, <2>2 DEF StoryInv, StoryOf, Flushed, taskVars
  <2> QED
    BY <2>1, <2>2
<1>5. LateStory'
  BY <1>3, <1>4 DEF StoryInv, LateStory, TypeOK, LateType, taskVars
<1>6. RunnerIsOwner'
  BY <1>3 DEF StoryInv, RunnerIsOwner, taskVars
<1> QED
  BY <1>4, <1>5, <1>6 DEF StoryInv

(* A restart ends every task and leaves its table as it is.                *)
LEMMA RestartKeepsStory ==
    ASSUME TypeOK, StoryInv, RegenerateStory', Restart
    PROVE  StoryInv'
<1>1. /\ UNCHANGED <<sess, row, saved, session, events, flushTo>> /\ late' = {}
      /\ executions' = {} /\ owner' = owner /\ pc \in [Turns -> Phases]
      /\ \A u \in Turns : pc'[u] = IF pc[u] \in Active THEN "killed" ELSE pc[u]
  BY DEF Restart, storeVars, TypeOK, TaskTypes
<1>2. ASSUME NEW u \in Turns
      PROVE  StoryOf(u)'
  <2>1. CASE pc[u] \in Active
    <3>1. Story("killed", events[u], flushTo[u], saved[u], row[u].status, sess[session[u]])
      BY <2>1 DEF StoryInv, StoryOf, Story, Active, Working, Titling, Unwinding, Streaming,
         Flushing
    <3> QED
      BY <1>1, <2>1, <3>1 DEF StoryOf
  <2>2. CASE pc[u] \notin Active
    BY <1>1, <2>2 DEF StoryInv, StoryOf
  <2> QED
    BY <2>1, <2>2
<1>3. RunnerIsOwner' /\ LateStory'
  BY <1>1 DEF RunnerIsOwner, LateStory, Active, Working, Titling, Unwinding
<1> QED
  BY <1>2, <1>3 DEF StoryInv

(* Every step keeps the stories.                                           *)
LEMMA StoryStep ==
    ASSUME TypeOK, StoryInv, [Next]_vars
    PROVE  StoryInv'
<1>1. StoryKind /\ RegenerateStory'
  BY StoryKinds, RegenerateStep DEF StoryInv
<1> QED
  BY <1>1, AsideKeepsStory, OnlyTurnKeepsStory, CreateTurnKeepsStory, DeleteSessionKeepsStory,
     RestartKeepsStory DEF StoryKind, OperateKind

(* Before the first turn there is nothing to tell.                         *)
LEMMA StoryInit ==
    ASSUME Init
    PROVE  StoryInv
<1>1. /\ \A t \in Turns : pc[t] = "none" /\ row[t].status = "absent" /\ events[t] = <<>>
                          /\ saved[t] = 0 /\ flushTo[t] = 0
      /\ executions = {} /\ late = {} /\ budget = Budget
      /\ \A c \in Clients : call[c].op = "idle"
  BY DEF Init, Idle
<1>2. Budget["regenerate"] \in Nat
  BY ConstantsAssumption DEF Disturbances
<1>3. ASSUME NEW z PROVE Story("none", <<>>, 0, 0, "absent", z)
  BY DEF Story, OneDone, Working, Titling, Unwinding, Streaming, Flushing
<1> QED
  BY <1>1, <1>2, <1>3
  DEF StoryInv, RunnerIsOwner, RegenerateStory, StoryOf, LateStory, Active, Working, Titling,
      Unwinding

(***************************************************************************)
(* The answer of a turn: where it is promised, and that it stays.          *)
(***************************************************************************)
\* The answer is in the transcript, unless the session went or a regenerate
\* may have taken it.
Kept(t) == ~SessionLive(t) \/ Answers(t) # {} \/ Regenerated
HasFailed(t) == \E i \in 1..Len(events[t]) : events[t][i] = "failed"

AnswerOf(t) ==
    /\ \/ pc[t] \in {"flush", "complete"} \cup Titling
       \/ row[t].status = "completed"
       \/ LateDone(t)
       => Kept(t)
    /\ pc[t] \in {"cancelStatus", "ended"} /\ HasOutput(t) => Kept(t) \/ HasFailed(t)
    /\ pc[t] \in {"failFlush", "failStatus"} => HasFailed(t)

AnswerStory == \A t \in Turns : AnswerOf(t)

(* An answer that is kept stays so.                                        *)
LEMMA KeptStays ==
    ASSUME NEW t \in Turns, session'[t] = session[t],
           budget["regenerate"] \in Int, budget'["regenerate"] \in Int,
           Budget["regenerate"] \in Int, budget'["regenerate"] <= budget["regenerate"],
           \/ sess'[session[t]] = "deleted"
           \/ /\ sess'[session[t]] = sess[session[t]]
              /\ \/ Regenerated
                 \/ \A i \in 1..Len(msgs[session[t]]) :
                      /\ i \in 1..Len(msgs'[session[t]])
                      /\ msgs'[session[t]][i] = msgs[session[t]][i],
           Kept(t)
    PROVE  Kept(t)'
<1>1. CASE sess'[session[t]] = "deleted"
  BY <1>1 DEF Kept, SessionLive
<1>2. CASE Regenerated
  BY <1>2 DEF Kept, Regenerated
<1>3. CASE /\ sess'[session[t]] = sess[session[t]]
           /\ \A i \in 1..Len(msgs[session[t]]) :
                /\ i \in 1..Len(msgs'[session[t]])
                /\ msgs'[session[t]][i] = msgs[session[t]][i]
  <2>1. Answers(t) \subseteq Answers(t)'
    BY <1>3 DEF Answers
  <2> QED
    BY <1>2, <1>3, <2>1 DEF Kept, SessionLive
<1> QED
  BY <1>1, <1>2, <1>3

(* The pending transaction of an answer keeps it.                          *)
LEMMA AnswerIsKept ==
    ASSUME TypeOK, NEW t \in Turns, PendingWrite(t), pc[t] \in {"answer", "cancelAnswer"},
           session' = session
    PROVE  Kept(t)'
<1>1. AddMessage(session[t], "assistant", t)
  BY DEF PendingWrite
<1>2. CASE sess[session[t]] = "live"
  <2>1. PICK n : n = Len(msgs[session[t]]) + 1
    OBVIOUS
  <2>2. msgs \in [Sessions -> Seq(MessageType)] /\ session[t] \in Sessions
    BY DEF TypeOK, StoreTypes, TaskTypes
  <2>3. PICK x : /\ x = [id |-> nextId, role |-> "assistant", turn |-> t]
                 /\ msgs'[session[t]] = Append(msgs[session[t]], x)
    BY <1>1, <1>2, <2>2 DEF AddMessage
  <2>4. x \in MessageType
    BY <2>3 DEF MessageType, TypeOK, StoreTypes
  <2>5. n \in 1..Len(msgs'[session[t]]) /\ msgs'[session[t]][n] = x
    BY <2>1, <2>2, <2>3, <2>4
  <2>6. n \in Answers(t)'
    BY <2>3, <2>5 DEF Answers
  <2> QED
    BY <2>6 DEF Kept
<1>3. CASE sess[session[t]] # "live"
  BY <1>1, <1>3 DEF AddMessage, storeVars, Kept, SessionLive
<1> QED
  BY <1>2, <1>3

(* In the step of another turn, and in a step aside, the answer of a turn  *)
(* that began stays.                                                       *)
LEMMA KeptInStep ==
    ASSUME TypeOK, TypeOK', StoryInv, NEW t \in Turns, pc[t] # "none",
           Aside \/ \E u \in Turns : OnlyTurn(u), Kept(t)
    PROVE  Kept(t)'
<1>1. /\ session[t] \in Sessions /\ "regenerate" \in Disturbances
      /\ budget \in [Disturbances -> Nat] /\ budget' \in [Disturbances -> Nat]
      /\ Budget \in [Disturbances -> Nat]
  BY ConstantsAssumption DEF TypeOK, TaskTypes, Disturbances
<1>2. sess[session[t]] # "unused"
  BY DEF StoryInv, StoryOf, Story
<1>3. session'[t] = session[t] /\ budget'["regenerate"] <= budget["regenerate"]
  BY <1>1 DEF Aside, OnlyTurn
<1>4. sess'[session[t]] = sess[session[t]]
  BY <1>1, <1>2 DEF Aside, OnlyTurn
<1>5. \/ Regenerated
      \/ \A i \in 1..Len(msgs[session[t]]) :
           /\ i \in 1..Len(msgs'[session[t]])
           /\ msgs'[session[t]][i] = msgs[session[t]][i]
  BY <1>1 DEF Aside, OnlyTurn, MessagesKept
<1>6. /\ budget["regenerate"] \in Int /\ budget'["regenerate"] \in Int
      /\ Budget["regenerate"] \in Int
  BY <1>1
<1> QED
  BY <1>3, <1>4, <1>5, <1>6, KeptStays

(* What a task has streamed is kept along its way.                         *)
LEMMA TaskKeepsAnswer ==
    ASSUME TypeOK, TypeOK', StoryInv, NEW t \in Turns, AnswerOf(t), Task(t), OnlyTurn(t)
    PROVE  AnswerOf(t)'
<1>1. /\ pc \in [Turns -> Phases] /\ events \in [Turns -> Seq(EventTypes)]
      /\ StoreTypes /\ session' = session /\ pc[t] # "none"
  BY DEF TypeOK, TaskTypes, OnlyTurn, Active, Working, Titling, Unwinding
<1>2. Kept(t) => Kept(t)'
  BY <1>1, KeptInStep
<1>3. LateDone(t)' <=> LateDone(t)
  <2>1. late' = late
    BY DEF Task, PersistUserMessage, MessageRefused, StreamOutput, AskUser, TakeReply,
       StreamEnds, RunFails, PersistAnswer, FlushEvent, MarkCompleted, CheckTitle, WriteTitle,
       PersistPartialAnswer, MarkUnwound, TaskUnchanged
  <2> QED
    BY <2>1 DEF LateDone
<1>4. row'[t].status = "completed" => row[t].status = "completed" \/ pc[t] = "complete"
  <2>1. UNCHANGED storeVars \/ PendingWrite(t)
    BY DEF Task, PersistUserMessage, MessageRefused, StreamOutput, AskUser, TakeReply,
       StreamEnds, RunFails, PersistAnswer, FlushEvent, MarkCompleted, CheckTitle, WriteTitle,
       PersistPartialAnswer, MarkUnwound
  <2> QED
    BY <1>1, <2>1, PendingWriteStores DEF storeVars, StatusWrite
<1>5. \A q : Goto(t, q) \/ Finish(t, q) => pc'[t] = q
  BY <1>1 DEF Goto, Finish
<1>6. UNCHANGED events => (HasOutput(t)' <=> HasOutput(t)) /\ (HasFailed(t)' <=> HasFailed(t))
  BY DEF HasOutput, HasFailed
<1>7. CASE \/ PersistUserMessage(t) \/ StreamOutput(t) \/ AskUser(t) \/ TakeReply(t)
           \/ StreamEnds(t)
  <2>1. pc'[t] \in {"stream", "paused", "answer"} /\ pc[t] # "complete"
    BY <1>1, <1>5, <1>7
    DEF PersistUserMessage, StreamOutput, AskUser, TakeReply, StreamEnds
  <2> QED
    BY <1>2, <1>3, <1>4, <2>1 DEF AnswerOf, Titling
<1>8. CASE MessageRefused(t) \/ RunFails(t)
  <2>1. PICK e : e = events[t]
    OBVIOUS
  <2>2. /\ e \in Seq(EventTypes) /\ events'[t] = e \o <<"error", "failed">>
        /\ pc'[t] = "failFlush" /\ pc[t] # "complete"
    BY <1>1, <1>5, <1>8, <2>1 DEF MessageRefused, RunFails, EnterFailure, Publish
  <2>3. Len(e) + 2 \in 1..Len(events'[t]) /\ events'[t][Len(e) + 2] = "failed"
    BY <2>2, TwoMore DEF EventTypes, Terminal
  <2>4. HasFailed(t)'
    BY <2>3 DEF HasFailed
  <2> QED
    BY <1>2, <1>3, <1>4, <2>2, <2>4 DEF AnswerOf, Titling
<1>9. CASE PersistAnswer(t) \/ PersistPartialAnswer(t)
  <2>1. Kept(t)'
    BY <1>1, <1>9, AnswerIsKept DEF PersistAnswer, PersistPartialAnswer
  <2>2. pc'[t] \in {"flush", "cancelStatus"}
    BY <1>5, <1>9 DEF PersistAnswer, PersistPartialAnswer
  <2> QED
    BY <2>1, <2>2 DEF AnswerOf
<1>10. CASE FlushEvent(t)
  <2>1. /\ UNCHANGED events /\ pc[t] \in {"flush", "cancelFlush", "failFlush"}
        /\ pc'[t] \in {pc[t], AfterFlush(t)}
    BY <1>5, <1>10 DEF FlushEvent
  <2>2. CASE pc[t] = "flush"
    <3>1. Kept(t)' /\ pc'[t] \in {"flush", "complete"}
      BY <1>2, <2>1, <2>2 DEF AnswerOf, AfterFlush
    <3> QED
      BY <3>1 DEF AnswerOf
  <2>3. CASE pc[t] = "cancelFlush"
    <3>1. /\ pc'[t] \in {"cancelFlush", "cancelAnswer", "cancelStatus"}
          /\ pc'[t] = "cancelStatus" => ~HasOutput(t)
      BY <2>1, <2>3 DEF AfterFlush, AfterCancelFlush
    <3> QED
      BY <1>2, <1>3, <1>4, <1>6, <2>1, <2>3, <3>1 DEF AnswerOf, Titling
  <2>4. CASE pc[t] = "failFlush"
    <3>1. pc'[t] \in {"failFlush", "failStatus"} /\ HasFailed(t)'
      BY <1>6, <2>1, <2>4 DEF AfterFlush, AnswerOf
    <3> QED
      BY <1>2, <1>3, <1>4, <2>4, <3>1 DEF AnswerOf, Titling
  <2> QED
    BY <2>1, <2>2, <2>3, <2>4
<1>11. CASE MarkCompleted(t) \/ CheckTitle(t) \/ WriteTitle(t)
  <2>1. Kept(t)'
    BY <1>2, <1>11 DEF MarkCompleted, CheckTitle, WriteTitle, AnswerOf, Titling
  <2>2. pc'[t] \in {"ended", "titleCheck", "titleWrite"}
    BY <1>5, <1>11 DEF MarkCompleted, CheckTitle, WriteTitle
  <2> QED
    BY <2>1, <2>2 DEF AnswerOf
<1>12. CASE MarkUnwound(t)
  <2>1. UNCHANGED events /\ pc[t] \in {"cancelStatus", "failStatus"} /\ pc'[t] = "ended"
    BY <1>5, <1>12 DEF MarkUnwound
  <2> QED
    BY <1>2, <1>3, <1>4, <1>6, <2>1 DEF AnswerOf, Titling
<1> QED
  BY <1>7, <1>8, <1>9, <1>10, <1>11, <1>12 DEF Task

(* A cancellation leaves a turn with its partial answer still to be stored,*)
(* or with none to store.                                                  *)
LEMMA InterruptKeepsAnswer ==
    ASSUME TypeOK, TypeOK', StoryInv, NEW t \in Turns, AnswerOf(t), Interrupt(t), OnlyTurn(t)
    PROVE  AnswerOf(t)'
<1>1. /\ pc \in [Turns -> Phases] /\ events \in [Turns -> Seq(EventTypes)]
      /\ StoreTypes /\ session' = session /\ pc[t] # "none"
  BY DEF TypeOK, TaskTypes, OnlyTurn, Active, Working, Titling, Unwinding
<1>2. Kept(t) => Kept(t)'
  BY <1>1, KeptInStep
<1>3. LateDone(t)' => LateDone(t) \/ pc[t] = "complete"
  <2>1. CASE UNCHANGED late
    BY <2>1 DEF LateDone
  <2>2. CASE /\ pc[t] \in {"complete", "cancelStatus", "failStatus"}
             /\ late' = late \cup {[t |-> t, row |-> StatusWrite(pc[t])]}
    <3>1. \A w \in late' : w \in late \/ w.row = StatusWrite(pc[t])
      BY <2>2
    <3>2. pc[t] # "complete" => StatusWrite(pc[t]).status # "completed"
      BY <2>2 DEF StatusWrite
    <3> QED
      BY <3>1, <3>2 DEF LateDone
  <2> QED
    BY <2>1, <2>2 DEF Interrupt, AbandonedWrite
<1>4. row'[t].status = "completed" => row[t].status = "completed" \/ pc[t] = "complete"
  <2>1. UNCHANGED storeVars \/ PendingWrite(t)
    BY DEF Interrupt, AbandonedWrite
  <2> QED
    BY <1>1, <2>1, PendingWriteStores DEF storeVars, StatusWrite
<1>5. /\ pc'[t] \in {"aborted", "cancelFlush", "cancelAnswer", "cancelStatus"}
      /\ pc'[t] = "cancelStatus" => ~HasOutput(t)
  BY <1>1 DEF Interrupt, EnterCancel, Goto, Finish, AfterCancelFlush
<1>6. HasOutput(t)' => HasOutput(t)
  <2>1. CASE UNCHANGED events
    BY <2>1 DEF HasOutput
  <2>2. CASE Publish(t, <<"error", "cancelled">>)
    <3>1. PICK e : e = events[t]
      OBVIOUS
    <3>2. e \in Seq(EventTypes) /\ events'[t] = e \o <<"error", "cancelled">>
      BY <1>1, <2>2, <3>1 DEF Publish
    <3>3. /\ Len(events'[t]) = Len(e) + 2 /\ Len(e) \in Nat
          /\ events'[t][Len(e) + 1] = "error" /\ events'[t][Len(e) + 2] = "cancelled"
          /\ \A i \in 1..Len(e) : events'[t][i] = e[i]
      BY <3>2, TwoMore DEF EventTypes, Terminal
    <3>4. \A i \in 1..Len(events'[t]) : i \in 1..Len(e) \/ i = Len(e) + 1 \/ i = Len(e) + 2
      BY <3>3
    <3> QED
      BY <3>1, <3>3, <3>4 DEF HasOutput
  <2> QED
    BY <2>1, <2>2 DEF Interrupt, EnterCancel
<1> QED
  BY <1>2, <1>3, <1>4, <1>5, <1>6 DEF AnswerOf, Titling

(* A step aside promises no answer that is not kept.                       *)
LEMMA AsideKeepsAnswer ==
    ASSUME TypeOK, TypeOK', StoryInv, AnswerStory, Aside
    PROVE  AnswerStory'
<1> SUFFICES ASSUME NEW u \in Turns PROVE AnswerOf(u)'
  BY DEF AnswerStory
<1>1. LateDone(u)' => LateDone(u)
  BY DEF Aside, LateDone
<1>2. row'[u].status = "completed" => row[u].status = "completed" \/ LateDone(u)
  BY DEF Aside
<1>3. pc'[u] = pc[u] /\ events'[u] = events[u]
  BY DEF Aside
<1>4. CASE pc[u] # "none"
  BY <1>1, <1>2, <1>3, <1>4, KeptInStep
  DEF AnswerStory, AnswerOf, HasOutput, HasFailed
<1>5. CASE pc[u] = "none"
  <2>1. row[u].status = "absent" /\ ~LateDone(u)
    BY <1>5 DEF StoryInv, StoryOf, Story, LateStory, LateDone
  <2> QED
    BY <1>1, <1>2, <1>3, <1>5, <2>1 DEF AnswerOf, Titling
<1> QED
  BY <1>4, <1>5

(* Every step keeps the answers.                                           *)
LEMMA AnswerStep ==
    ASSUME TypeOK, StoryInv, AnswerStory, [Next]_vars
    PROVE  AnswerStory'
<1>1. StoryKind /\ TypeOK'
  BY StoryKinds, TypeStep DEF StoryInv
<1>2. /\ session \in [Turns -> Sessions] /\ row \in [Turns -> RowType]
      /\ pc \in [Turns -> Phases] /\ events \in [Turns -> Seq(EventTypes)]
      /\ budget \in [Disturbances -> Nat] /\ budget' \in [Disturbances -> Nat]
      /\ Budget \in [Disturbances -> Nat] /\ "regenerate" \in Disturbances
  BY <1>1, ConstantsAssumption DEF TypeOK, StoreTypes, TaskTypes, Disturbances
<1>3. ASSUME NEW u \in Turns, pc'[u] = pc[u], events'[u] = events[u], LateDone(u)' => LateDone(u),
             row'[u].status = "completed" => row[u].status = "completed" \/ LateDone(u),
             Kept(u) => Kept(u)'
      PROVE  AnswerOf(u)'
  BY <1>3 DEF AnswerStory, AnswerOf, HasOutput, HasFailed
<1>4. \A u \in Turns : pc[u] = "none" => row[u].status = "absent" /\ ~LateDone(u)
  BY DEF StoryInv, StoryOf, Story, LateStory, LateDone
<1>5. ASSUME NEW u \in Turns, pc[u] = "none", pc'[u] = "none", row'[u].status # "completed",
             ~LateDone(u)'
      PROVE  AnswerOf(u)'
  BY <1>5 DEF AnswerOf, Titling
<1>6. CASE Aside
  BY <1>1, <1>6, AsideKeepsAnswer
<1>7. ASSUME NEW t \in Turns, Task(t) \/ Interrupt(t), OnlyTurn(t)
      PROVE  AnswerStory'
  <2> SUFFICES ASSUME NEW u \in Turns PROVE AnswerOf(u)'
    BY DEF AnswerStory
  <2>1. CASE u = t
    BY <1>1, <1>7, <2>1, TaskKeepsAnswer, InterruptKeepsAnswer DEF AnswerStory
  <2>2. CASE u # t
    <3>1. pc'[u] = pc[u] /\ events'[u] = events[u] /\ row'[u] = row[u]
      BY <1>7, <2>2 DEF OnlyTurn
    <3>2. LateDone(u)' => LateDone(u)
      BY <1>7, <2>2 DEF OnlyTurn, LateDone
    <3>3. pc[u] # "none" /\ Kept(u) => Kept(u)'
      BY <1>1, <1>7, KeptInStep
    <3>4. CASE pc[u] # "none"
      BY <1>3, <3>1, <3>2, <3>3, <3>4
    <3>5. CASE pc[u] = "none"
      BY <1>4, <1>5, <3>1, <3>2, <3>5
    <3> QED
      BY <3>4, <3>5
  <2> QED
    BY <2>1, <2>2
<1>8. ASSUME NEW c \in Clients, NEW t \in Turns, CreateTurn(c, t)
      PROVE  AnswerStory'
  <2> SUFFICES ASSUME NEW u \in Turns PROVE AnswerOf(u)'
    BY DEF AnswerStory
  <2>1. UNCHANGED <<sess, msgs, late, budget>> /\ (LateDone(u)' <=> LateDone(u))
    BY <1>8 DEF CreateTurn, LateDone
  <2>2. CASE u = t
    <3>1. pc[u] = "none" /\ pc'[u] = "context" /\ row'[u].status = "running"
      BY <1>2, <1>8, <2>2 DEF CreateTurn
    <3> QED
      BY <1>4, <2>1, <3>1 DEF AnswerOf, Titling
  <2>3. CASE u # t
    <3>1. /\ pc'[u] = pc[u] /\ events'[u] = events[u] /\ row'[u] = row[u]
          /\ session'[u] = session[u]
      BY <1>2, <1>8, <2>3 DEF CreateTurn, Publish
    <3>2. Kept(u) => Kept(u)'
      BY <2>1, <3>1 DEF Kept, SessionLive, Answers, Regenerated
    <3> QED
      BY <1>3, <2>1, <3>1, <3>2
  <2> QED
    BY <2>2, <2>3
<1>9. ASSUME NEW s \in Sessions, DeleteSession(s)
      PROVE  AnswerStory'
  <2> SUFFICES ASSUME NEW u \in Turns PROVE AnswerOf(u)'
    BY DEF AnswerStory
  <2>1. /\ UNCHANGED <<taskVars, late>> /\ (LateDone(u)' <=> LateDone(u))
        /\ budget'["regenerate"] = budget["regenerate"]
    BY <1>2, <1>9 DEF DeleteSession, Spend, Disturbances, LateDone
  <2>2. row'[u].status = "completed" => row[u].status = "completed"
    BY <1>9 DEF DeleteSession
  <2>3. \/ sess'[session[u]] = "deleted"
        \/ sess'[session[u]] = sess[session[u]] /\ msgs'[session[u]] = msgs[session[u]]
    BY <1>1, <1>2, <1>9 DEF DeleteSession, TypeOK, StoreTypes
  <2>4. Kept(u) => Kept(u)'
    <3>1. /\ budget["regenerate"] \in Int /\ budget'["regenerate"] \in Int
          /\ Budget["regenerate"] \in Int /\ session'[u] = session[u]
          /\ budget'["regenerate"] <= budget["regenerate"]
      BY <1>2, <2>1 DEF taskVars
    <3>2. CASE sess'[session[u]] = "deleted"
      BY <3>1, <3>2, KeptStays
    <3>3. CASE sess'[session[u]] = sess[session[u]] /\ msgs'[session[u]] = msgs[session[u]]
      BY <3>1, <3>3, KeptStays
    <3> QED
      BY <2>3, <3>2, <3>3
  <2> QED
    BY <1>3, <2>1, <2>2, <2>4 DEF taskVars
<1>10. CASE Restart
  <2> SUFFICES ASSUME NEW u \in Turns PROVE AnswerOf(u)'
    BY DEF AnswerStory
  <2>1. /\ UNCHANGED <<storeVars, session, events>> /\ ~LateDone(u)'
        /\ budget'["regenerate"] = budget["regenerate"]
        /\ pc'[u] = IF pc[u] \in Active THEN "killed" ELSE pc[u]
    BY <1>2, <1>10 DEF Restart, Spend, Disturbances, LateDone
  <2>2. Kept(u) => Kept(u)'
    BY <2>1 DEF Kept, SessionLive, Answers, Regenerated, storeVars
  <2> QED
    BY <2>1, <2>2 DEF AnswerStory, AnswerOf, HasOutput, HasFailed, storeVars, Titling
<1> QED
  BY <1>1, <1>6, <1>7, <1>8, <1>9, <1>10 DEF StoryKind, OperateKind

(* There is no answer to keep at first.                                    *)
LEMMA AnswerInit ==
    ASSUME Init
    PROVE  AnswerStory
<1>1. \A t \in Turns : pc[t] = "none" /\ row[t].status = "absent" /\ ~LateDone(t)
  BY DEF Init, LateDone
<1> QED
  BY <1>1 DEF AnswerStory, AnswerOf, Titling

(* The stories of all turns hold throughout, whatever the managers do.     *)
THEOREM StoryHolds == Spec => [](StoryInv /\ AnswerStory)
<1>1. Init => StoryInv /\ AnswerStory
  BY StoryInit, AnswerInit
<1>2. TypeOK /\ StoryInv /\ AnswerStory /\ [Next]_vars => StoryInv' /\ AnswerStory'
  BY StoryStep, AnswerStep
<1> QED
  BY <1>1, <1>2, TypeCorrect, PTL DEF Spec

(* The stories say so of every turn.                                       *)
LEMMA StoryIsWhole ==
    ASSUME TypeOK, StoryInv, AnswerStory
    PROVE  CompletedTurnIsWhole
<1> SUFFICES ASSUME NEW t \in Turns, row[t].status = "completed"
             PROVE  /\ \A i \in 1..Len(events[t]) :
                         events[t][i] \in {"session", "output"} => i <= saved[t]
                    /\ Answers(t) # {} \/ budget["regenerate"] < Budget["regenerate"]
  BY DEF CompletedTurnIsWhole
<1>1. saved[t] = flushTo[t] /\ ContentUpTo(events[t], flushTo[t])
  BY DEF StoryInv, StoryOf, Story
<1>2. pc[t] # "none" /\ SessionLive(t)
  BY DEF StoryInv, StoryOf, Story, SessionLive
<1>3. Kept(t)
  BY DEF AnswerStory, AnswerOf
<1> QED
  BY <1>1, <1>2, <1>3 DEF ContentUpTo, Content, Kept, Regenerated

(* A completed row has its events and its answer stored: it was written    *)
(* after the flush, by the task or by its late write, and nobody else      *)
(* writes "completed".                                                     *)
THEOREM CompletedTurnIsWholeHolds == Spec => []CompletedTurnIsWhole
BY StoryHolds, TypeCorrect, StoryIsWhole, PTL

(* A task that ends without having failed leaves its output in the         *)
(* transcript.                                                             *)
THEOREM OutputIsKeptHolds == Spec => []OutputIsKept
<1>1. TypeOK /\ AnswerStory => OutputIsKept
  <2> SUFFICES ASSUME TypeOK, AnswerStory PROVE OutputIsKept
    OBVIOUS
  <2>1. budget["regenerate"] \in Int
    BY DEF TypeOK, Disturbances
  <2>2. budget["regenerate"] = Budget["regenerate"] => ~Regenerated
    BY <2>1 DEF Regenerated
  <2> QED
    BY <2>2 DEF AnswerStory, AnswerOf, OutputIsKept, Kept, HasFailed
<1> QED
  BY <1>1, TypeCorrect, StoryHolds, PTL
=============================================================================
