--------------------------- MODULE TurnSafetyProofs ---------------------------
(***************************************************************************)
(* The safety of the turn runtime when every call goes through one manager *)
(* (OneManagerOnly, what a single server process over SQLite is): TurnInv  *)
(* is inductive, and with it a session has one running and one working     *)
(* turn, no live turn is called interrupted, and no task ends without a    *)
(* terminal row.  On it rest DoneIsDurable (DoneInv: no status that would  *)
(* contradict a DONE is pending), RefusedOnlyIfLive (RefuseInv: what a     *)
(* start found in its way) and the refinement of TurnLease.                *)
(*                                                                         *)
(* TurnInv reads few variables, so the steps fall in a few groups: a step  *)
(* of the task of t (TaskEffect), a call that touches neither row nor task *)
(* (QuietStep), a status written from outside the task (OutsideWrite), and *)
(* the three that stand alone, CreateTurn, DeleteSession and Restart.      *)
(***************************************************************************)
EXTENDS TurnRuntimeProofs

Ordinary == {"", "error", "cancelled"}
Overwriting == {"recover", "cancelRow", "staleRow"}

(* What a step of the task of t does to what TurnInv speaks of.            *)
TaskEffect(t) ==
    /\ UNCHANGED <<sess, session, owner>>
    /\ \A u \in Turns \ {t} : row'[u] = row[u] /\ pc'[u] = pc[u]
    /\ \/ row'[t] = row[t]
       \/ row'[t].status \in Terminal /\ row'[t].why \in Ordinary
    /\ pc[t] \in Active
    /\ pc'[t] \in Active \cup {"ended", "aborted"}
    /\ pc'[t] \in Working => pc[t] \in Working /\ row'[t] = row[t]
    /\ pc'[t] \in Titling \cup {"ended"} => row'[t].status \in Terminal \cup {"absent"}
    /\ executions' = IF pc'[t] \in Active THEN executions ELSE executions \ {<<owner[t], t>>}
    /\ \A w \in late' \ late : w.t = t /\ pc'[t] \notin Working /\ w.row.why \in Ordinary

(* A step of a call that writes no row and touches no task.                *)
QuietStep ==
    /\ UNCHANGED <<row, session, pc, executions, late>>
    /\ \A s \in Sessions : sess'[s] = sess[s] \/ (sess[s] = "unused" /\ sess'[s] = "live")
    /\ \A c \in Clients :
         \/ call'[c] = call[c]
         \/ call'[c].op \notin Overwriting
         \/ pc[call'[c].t] \in {"killed", "aborted"}

(* A status written to the row of t by somebody else than its task.        *)
OutsideWrite(t) ==
    /\ UNCHANGED <<sess, session, pc, executions>>
    /\ \A u \in Turns \ {t} : row'[u] = row[u]
    /\ \/ row'[t] = row[t]
       \/ /\ row[t].status # "absent" /\ row'[t].status \in Terminal
          /\ row'[t].why \in Ordinary \/ pc[t] \in {"killed", "aborted"}
    /\ pc[t] \notin Working \cup {"none"}
    /\ late' \subseteq late
    /\ \A c \in Clients : call'[c] = call[c] \/ call'[c].op \notin Overwriting

(* A step of a task or of a cancellation of it.                            *)
TaskStep(t) ==
    /\ TaskEffect(t)
    /\ \A c \in Clients : call'[c] = call[c] \/ call'[c].op \notin Overwriting

StepKind ==
    \/ QuietStep
    \/ \E t \in Turns : TaskStep(t) \/ OutsideWrite(t)
    \/ \E c \in Clients, t \in Turns : CreateTurn(c, t)
    \/ \E s \in Sessions : DeleteSession(s)
    \/ Restart

(***************************************************************************)
(* What the steps of a task do.                                            *)
(***************************************************************************)

(* A pending transaction changes a row only when it is a status write, and *)
(* then to a terminal status, unless the row is gone.                      *)
LEMMA PendingWriteEffect ==
    ASSUME TypeOK, NEW t \in Turns, PendingWrite(t)
    PROVE  /\ sess' = sess
           /\ \A u \in Turns \ {t} : row'[u] = row[u]
           /\ \/ row'[t] = row[t]
              \/ /\ pc[t] \in {"complete", "cancelStatus", "failStatus"}
                 /\ row'[t].status \in Terminal /\ row'[t].why \in Ordinary
           /\ pc[t] \in {"complete", "cancelStatus", "failStatus"}
                => row'[t].status \in Terminal \cup {"absent"}
<1>1. row \in [Turns -> RowType]
  BY DEF TypeOK, StoreTypes
<1>2. CASE pc[t] = "context" /\ AddMessage(session[t], "user", t)
  BY <1>2 DEF AddMessage, storeVars
<1>3. CASE pc[t] \in {"answer", "cancelAnswer"} /\ AddMessage(session[t], "assistant", t)
  BY <1>3 DEF AddMessage, storeVars
<1>4. CASE pc[t] \in {"flush", "cancelFlush", "failFlush"} /\ AppendTurnEvent(t)
  BY <1>4 DEF AppendTurnEvent
<1>5. CASE /\ pc[t] \in {"complete", "cancelStatus", "failStatus"}
           /\ SetStatus(t, StatusWrite(pc[t]).status, StatusWrite(pc[t]).why)
  <2> DEFINE status == StatusWrite(pc[t]).status
             why == StatusWrite(pc[t]).why
  <2>1. status \in Terminal /\ why \in Ordinary
    BY <1>5, StatusWriteType DEF Ordinary
  <2>2. /\ row' = [row EXCEPT ![t] = IF @.status = "absent" THEN @
                                     ELSE [status |-> status, why |-> why]]
        /\ sess' = sess
    BY <1>5 DEF SetStatus
  <2> HIDE DEF status, why
  <2> QED
    BY <1>1, <1>5, <2>1, <2>2
<1>6. CASE pc[t] = "titleWrite" /\ SetTitle(session[t], "generated")
  BY <1>6 DEF SetTitle
<1> QED
  BY <1>2, <1>3, <1>4, <1>5, <1>6 DEF PendingWrite

(* Each step of a task has a TaskEffect.                                   *)
LEMMA TaskHasEffect ==
    ASSUME TypeOK, TurnInv, NEW t \in Turns, Task(t)
    PROVE  TaskEffect(t)
<1> USE DEF TaskEffect
<1>1. pc \in [Turns -> Phases] /\ row \in [Turns -> RowType]
  BY DEF TypeOK, StoreTypes, TaskTypes
<1>2. ASSUME NEW phase \in Active, Goto(t, phase), pc[t] \in Active,
             UNCHANGED <<storeVars, late, session, owner>>,
             phase \in Working => pc[t] \in Working,
             phase \notin Titling
      PROVE  TaskEffect(t)
  BY <1>1, <1>2 DEF Goto, memoryVars, storeVars, Active, Working, Titling, Unwinding
<1>3. ASSUME NEW phase \in Active, Goto(t, phase), pc[t] \in Active,
             PendingWrite(t), UNCHANGED <<late, session, owner>>,
             phase \in Working => pc[t] \in Working \ {"complete"},
             phase \in Titling => pc[t] = "complete"
      PROVE  TaskEffect(t)
  BY <1>1, <1>3, PendingWriteEffect
  DEF Goto, memoryVars, Active, Working, Titling, Unwinding
<1>4. ASSUME Finish(t, "ended"), pc[t] \in Active, PendingWrite(t),
             UNCHANGED <<late, session, owner>>,
             pc[t] \in {"complete", "cancelStatus", "failStatus"} \cup Titling
      PROVE  TaskEffect(t)
  <2>1. pc'[t] = "ended" /\ "ended" \notin Active
    BY <1>1, <1>4 DEF Finish, Active, Working, Titling, Unwinding
  <2>2. row'[t].status \in Terminal \cup {"absent"}
    BY <1>1, <1>4, PendingWriteEffect DEF TurnInv, Settled
  <2> QED
    BY <1>1, <1>4, <2>1, <2>2, PendingWriteEffect DEF Finish, Working
<1> HIDE DEF TaskEffect
<1>5. CASE PersistUserMessage(t)
  BY <1>2, <1>3, <1>5 DEF PersistUserMessage, TaskUnchanged, Active, Working, Titling
<1>6. CASE MessageRefused(t)
  BY <1>2, <1>6 DEF MessageRefused, EnterFailure, TaskUnchanged, Active, Working, Titling, Unwinding
<1>7. CASE StreamOutput(t)
  <2>1. UNCHANGED <<storeVars, late, session, owner, pc, executions>> /\ pc[t] = "stream"
    BY <1>7 DEF StreamOutput, TaskUnchanged, memoryVars
  <2> QED
    BY <1>1, <2>1 DEF TaskEffect, storeVars, Active, Working, Titling
<1>8. CASE AskUser(t)
  BY <1>2, <1>8 DEF AskUser, TaskUnchanged, Active, Working, Titling
<1>9. CASE TakeReply(t)
  <2>1. /\ UNCHANGED <<storeVars, late, session, owner, executions>>
        /\ pc[t] = "paused" /\ pc' = [pc EXCEPT ![t] = "stream"]
    BY <1>9 DEF TakeReply, TaskUnchanged
  <2> QED
    BY <1>1, <2>1 DEF TaskEffect, storeVars, Active, Working, Titling
<1>10. CASE StreamEnds(t)
  BY <1>2, <1>10 DEF StreamEnds, TaskUnchanged, Active, Working, Titling
<1>11. CASE RunFails(t)
  BY <1>2, <1>11 DEF RunFails, EnterFailure, Active, Working, Titling, Unwinding
<1>12. CASE PersistAnswer(t)
  BY <1>3, <1>12 DEF PersistAnswer, TaskUnchanged, Active, Working, Titling
<1>13. CASE FlushEvent(t)
  <2> DEFINE phase == IF FlushDone(t) THEN AfterFlush(t) ELSE pc[t]
  <2>1. /\ phase \in Active /\ phase \notin Titling
        /\ phase \in Working => pc[t] = "flush"
    BY <1>13
    DEF FlushEvent, AfterFlush, AfterCancelFlush, Active, Working, Titling, Unwinding
  <2>2. Goto(t, phase) /\ PendingWrite(t) /\ UNCHANGED <<late, session, owner>>
    BY <1>13 DEF FlushEvent, TaskUnchanged
  <2>3. pc[t] \in Active
    BY <1>13 DEF FlushEvent, Active, Working, Titling, Unwinding
  <2> HIDE DEF phase
  <2> QED
    BY <1>3, <2>1, <2>2, <2>3 DEF Working
<1>14. CASE MarkCompleted(t)
  BY <1>3, <1>4, <1>14 DEF MarkCompleted, TaskUnchanged, Active, Working, Titling
<1>15. CASE CheckTitle(t)
  <2>1. pc[t] = "titleCheck" /\ UNCHANGED <<storeVars, late, session, owner>>
    BY <1>15 DEF CheckTitle, TaskUnchanged
  <2>2. row'[t].status \in Terminal \cup {"absent"} /\ row' = row /\ sess' = sess
    BY <2>1 DEF TurnInv, Settled, Titling, storeVars
  <2>3. CASE Goto(t, "titleWrite")
    BY <1>1, <2>1, <2>2, <2>3
    DEF TaskEffect, Goto, memoryVars, Active, Working, Titling
  <2>4. CASE Finish(t, "ended")
    <3>1. pc'[t] = "ended" /\ "ended" \notin Active /\ "ended" \notin Working
      BY <1>1, <2>4 DEF Finish, Active, Working, Titling, Unwinding
    <3>2. pc[t] \in Active
      BY <2>1 DEF Active, Titling
    <3> QED
      BY <1>1, <2>1, <2>2, <2>4, <3>1, <3>2 DEF TaskEffect, Finish
  <2> QED
    BY <1>15, <2>3, <2>4 DEF CheckTitle
<1>16. CASE WriteTitle(t)
  BY <1>4, <1>16 DEF WriteTitle, TaskUnchanged, Active, Titling
<1>17. CASE PersistPartialAnswer(t)
  BY <1>3, <1>17
  DEF PersistPartialAnswer, TaskUnchanged, Active, Working, Titling, Unwinding
<1>18. CASE MarkUnwound(t)
  BY <1>4, <1>18 DEF MarkUnwound, TaskUnchanged, Active, Unwinding
<1> QED
  BY <1>5, <1>6, <1>7, <1>8, <1>9, <1>10, <1>11, <1>12, <1>13, <1>14, <1>15, <1>16,
     <1>17, <1>18 DEF Task

(* So has a CancelledError thrown into an active task: it never goes back  *)
(* to work, and the write it abandons is remembered for this turn only.    *)
LEMMA InterruptHasEffect ==
    ASSUME TypeOK, NEW t \in Turns, pc[t] \in Active, Interrupt(t)
    PROVE  TaskEffect(t)
<1>1. pc \in [Turns -> Phases] /\ row \in [Turns -> RowType]
  BY DEF TypeOK, StoreTypes, TaskTypes
<1>2. /\ UNCHANGED <<session, owner>>
      /\ \A u \in Turns \ {t} : pc'[u] = pc[u]
      /\ pc'[t] \in Unwinding \cup {"aborted"}
      /\ executions' = IF pc'[t] \in Unwinding THEN executions ELSE executions \ {<<owner[t], t>>}
  <2>1. CASE Finish(t, "aborted")
    BY <1>1, <2>1 DEF Interrupt, Finish, Unwinding
  <2>2. CASE EnterCancel(t)
    <3>1. PICK phase \in {"cancelFlush", "cancelAnswer", "cancelStatus"} : Goto(t, phase)
      BY <2>2 DEF EnterCancel, AfterCancelFlush
    <3> QED
      BY <1>1, <3>1 DEF Interrupt, Goto, memoryVars, Unwinding
  <2> QED
    BY <2>1, <2>2 DEF Interrupt
<1>3. /\ sess' = sess
      /\ \A u \in Turns \ {t} : row'[u] = row[u]
      /\ \/ row'[t] = row[t]
         \/ row'[t].status \in Terminal /\ row'[t].why \in Ordinary
      /\ \A w \in late' \ late : w.t = t /\ w.row.why \in Ordinary
  <2>1. CASE UNCHANGED <<storeVars, late>>
    BY <2>1 DEF storeVars
  <2>2. CASE PendingWrite(t) /\ UNCHANGED late
    BY <2>2, PendingWriteEffect
  <2>3. CASE /\ pc[t] \in {"complete", "cancelStatus", "failStatus"}
             /\ late' = late \cup {[t |-> t, row |-> StatusWrite(pc[t])]}
             /\ UNCHANGED storeVars
    <3>1. StatusWrite(pc[t]).why \in Ordinary
      BY <2>3, StatusWriteType DEF Ordinary
    <3>2. row' = row /\ sess' = sess
      BY <2>3 DEF storeVars
    <3>3. \A w \in late' \ late : w = [t |-> t, row |-> StatusWrite(pc[t])]
      BY <2>3
    <3> QED
      BY <3>1, <3>2, <3>3
  <2> QED
    BY <2>1, <2>2, <2>3 DEF Interrupt, AbandonedWrite
<1>4. pc'[t] \notin Working \cup Titling \cup {"ended"} /\ (pc'[t] \in Active <=> pc'[t] \in Unwinding)
  BY <1>2 DEF Active, Working, Titling, Unwinding
<1> QED
  BY <1>2, <1>3, <1>4 DEF TaskEffect

(***************************************************************************)
(* Each group of steps keeps TurnInv.                                      *)
(***************************************************************************)
LEMMA TaskStepKeepsInv ==
    ASSUME OneManagerOnly, TypeOK, TurnInv, NEW t \in Turns, TaskStep(t)
    PROVE  TurnInv'
<1> TaskEffect(t) /\ \A c \in Clients : call'[c] = call[c] \/ call'[c].op \notin Overwriting
  BY DEF TaskStep
<1>1. \A u \in Turns : row'[u].status = "running" => row[u].status = "running" /\ row'[u] = row[u]
  BY DEF TaskEffect, Terminal
<1>2. owner[t] \in Managers /\ call \in [Clients -> CallType]
  BY DEF TypeOK, TaskTypes
<1>3. OneRunningTurn'
  BY <1>1 DEF TurnInv, OneRunningTurn, TaskEffect
<1>4. Registered'
  <2>1. ASSUME NEW m \in Managers, NEW u \in Turns
        PROVE  <<m, u>> \in executions' <=> pc'[u] \in Active
    <3>1. m = owner[t]
      BY <1>2 DEF OneManagerOnly
    <3>2. <<m, u>> \in executions <=> pc[u] \in Active
      BY DEF TurnInv, Registered
    <3>3. CASE u = t
      BY <3>1, <3>2, <3>3 DEF TaskEffect
    <3>4. CASE u # t
      BY <3>2, <3>4 DEF TaskEffect
    <3> QED
      BY <3>3, <3>4
  <2> QED
    BY <2>1 DEF Registered
<1>5. Unborn' /\ SessionsExist'
  <2>1. pc[t] # "none" /\ pc'[t] # "none"
    BY DEF TaskEffect, Active, Working, Titling, Unwinding
  <2> QED
    BY <2>1 DEF TurnInv, Unborn, SessionsExist, TaskEffect
<1>6. Settled' /\ EndedTurnIsTerminal'
  BY DEF TurnInv, Settled, EndedTurnIsTerminal, TaskEffect
<1>7. WorkingRuns'
  BY DEF TurnInv, WorkingRuns, TaskEffect, SessionLive
<1>8. LateIsOver'
  <2>1. pc'[t] # "none"
    BY DEF TaskEffect, Active, Working, Titling, Unwinding
  <2>2. ASSUME NEW w \in late'
        PROVE  pc'[w.t] \notin Working \cup {"none"} /\ w.row.why \in Ordinary
    <3>1. CASE w \in late
      <4>1. pc[w.t] \notin Working \cup {"none"} /\ w.row.why \in Ordinary /\ w.t \in Turns
        BY <3>1 DEF TurnInv, LateIsOver, Ordinary, TypeOK, LateType
      <4> QED
        BY <2>1, <4>1 DEF TaskEffect
    <3>2. CASE w \notin late
      BY <2>1, <3>2 DEF TaskEffect
    <3> QED
      BY <3>1, <3>2
  <2> QED
    BY <2>2 DEF LateIsOver, Ordinary
<1>9. PendingOverwrite'
  <2>1. ASSUME NEW c \in Clients, call'[c].op \in Overwriting
        PROVE  pc'[call'[c].t] \in {"killed", "aborted"}
    <3>1. call'[c] = call[c] /\ call[c].t \in Turns
      BY <1>2, <2>1 DEF CallType
    <3>2. pc[call[c].t] \in {"killed", "aborted"}
      BY <2>1, <3>1 DEF TurnInv, PendingOverwrite, Overwriting
    <3>3. call[c].t # t
      BY <3>2 DEF TaskEffect, Active, Working, Titling, Unwinding
    <3> QED
      BY <3>1, <3>2, <3>3 DEF TaskEffect
  <2> QED
    BY <2>1 DEF PendingOverwrite, Overwriting
<1>10. InterruptedMeansNoRunner'
  <2>1. pc[t] \notin {"killed", "aborted"}
    BY DEF TaskEffect, Active, Working, Titling, Unwinding
  <2> QED
    BY <2>1 DEF TurnInv, InterruptedMeansNoRunner, TaskEffect, Ordinary
<1> QED
  BY <1>3, <1>4, <1>5, <1>6, <1>7, <1>8, <1>9, <1>10 DEF TurnInv

(* A call that writes no row and touches no task keeps the invariant.      *)
LEMMA QuietStepKeepsInv ==
    ASSUME TypeOK, TurnInv, QuietStep
    PROVE  TurnInv'
<1>1. session \in [Turns -> Sessions]
  BY DEF TypeOK, TaskTypes
<1>2. /\ OneRunningTurn' /\ Registered' /\ Unborn' /\ Settled' /\ LateIsOver'
      /\ EndedTurnIsTerminal' /\ InterruptedMeansNoRunner'
  BY DEF QuietStep, TurnInv, OneRunningTurn, Registered, Unborn, Settled, LateIsOver,
     EndedTurnIsTerminal, InterruptedMeansNoRunner
<1>3. SessionsExist'
  BY <1>1 DEF QuietStep, TurnInv, SessionsExist
<1>4. WorkingRuns'
  <2>1. ASSUME NEW t \in Turns, pc[t] \in Working, sess'[session[t]] = "live"
        PROVE  sess[session[t]] = "live"
    BY <1>1, <2>1 DEF QuietStep, TurnInv, SessionsExist, Working
  <2> QED
    BY <2>1 DEF QuietStep, TurnInv, WorkingRuns, SessionLive
<1>5. PendingOverwrite'
  BY DEF QuietStep, TurnInv, PendingOverwrite, Overwriting
<1> QED
  BY <1>2, <1>3, <1>4, <1>5 DEF TurnInv

(* A status written to a row whose task no longer works keeps it.          *)
LEMMA OutsideWriteKeepsInv ==
    ASSUME TypeOK, TurnInv, NEW t \in Turns, OutsideWrite(t)
    PROVE  TurnInv'
<1>1. \A u \in Turns : row'[u].status = "running" => row'[u] = row[u]
  BY DEF OutsideWrite, Terminal
<1>2. OneRunningTurn'
  BY <1>1 DEF OutsideWrite, TurnInv, OneRunningTurn
<1>3. Registered' /\ SessionsExist'
  BY DEF OutsideWrite, TurnInv, Registered, SessionsExist
<1>4. Unborn' /\ Settled' /\ EndedTurnIsTerminal' /\ WorkingRuns'
  BY DEF OutsideWrite, TurnInv, Unborn, Settled, EndedTurnIsTerminal, WorkingRuns, SessionLive
<1>5. LateIsOver'
  BY DEF OutsideWrite, TurnInv, LateIsOver
<1>6. PendingOverwrite'
  BY DEF OutsideWrite, TurnInv, PendingOverwrite, Overwriting
<1>7. InterruptedMeansNoRunner'
  BY DEF OutsideWrite, TurnInv, InterruptedMeansNoRunner, Ordinary
<1> QED
  BY <1>2, <1>3, <1>4, <1>5, <1>6, <1>7 DEF TurnInv

(* create_turn inserts a running row only where no row of the session runs *)
(* and registers its task in the same step.                                *)
LEMMA CreateTurnKeepsInv ==
    ASSUME OneManagerOnly, TypeOK, TurnInv, NEW c \in Clients, NEW t \in Turns, CreateTurn(c, t)
    PROVE  TurnInv'
<1> DEFINE s == call[c].s
<1>1. /\ row' = [row EXCEPT ![t] = [status |-> "running", why |-> ""]]
      /\ session' = [session EXCEPT ![t] = s]
      /\ executions' = executions \cup {<<ManagerOf[c], t>>}
      /\ pc' = [pc EXCEPT ![t] = "context"]
      /\ call' = [call EXCEPT ![c] = Idle]
      /\ sess' = sess /\ late' = late /\ pc[t] = "none"
      /\ sess[s] = "live" /\ RunningIn(s) = {}
  BY DEF CreateTurn, MayCreate
<1>2. /\ row \in [Turns -> RowType] /\ pc \in [Turns -> Phases]
      /\ session \in [Turns -> Sessions] /\ call \in [Clients -> CallType]
  BY DEF TypeOK, StoreTypes, TaskTypes
<1>3. ManagerOf[c] \in Managers
  BY ConstantsAssumption
<1>4. /\ \A u \in Turns \ {t} : row'[u] = row[u] /\ pc'[u] = pc[u] /\ session'[u] = session[u]
      /\ row'[t].status = "running" /\ row'[t].why = "" /\ pc'[t] = "context" /\ session'[t] = s
  BY <1>1, <1>2
<1> HIDE DEF s
<1>5. OneRunningTurn'
  <2>1. \A u \in Turns : row[u].status = "running" => session[u] # s
    BY <1>1 DEF RunningIn
  <2>2. ASSUME NEW u \in Turns, NEW v \in Turns,
               row'[u].status = "running", row'[v].status = "running",
               session'[u] = session'[v]
        PROVE  u = v
    <3>1. CASE u = t \/ v = t
      <4>1. session'[u] = s
        BY <1>4, <2>2, <3>1
      <4>2. \A w \in Turns \ {t} : row'[w].status = "running" => session'[w] # s
        BY <1>4, <2>1
      <4> QED
        BY <2>2, <4>1, <4>2
    <3>2. CASE u # t /\ v # t
      <4>1. row[u].status = "running" /\ row[v].status = "running" /\ session[u] = session[v]
        BY <1>4, <2>2, <3>2
      <4> QED
        BY <4>1 DEF TurnInv, OneRunningTurn
    <3> QED
      BY <3>1, <3>2
  <2> QED
    BY <2>2 DEF OneRunningTurn
<1>6. Registered'
  <2>1. ASSUME NEW m \in Managers, NEW u \in Turns
        PROVE  <<m, u>> \in executions' <=> pc'[u] \in Active
    <3>1. m = ManagerOf[c]
      BY <1>3 DEF OneManagerOnly
    <3>2. <<m, u>> \in executions <=> pc[u] \in Active
      BY DEF TurnInv, Registered
    <3> QED
      BY <1>1, <1>4, <3>1, <3>2 DEF Active, Working
  <2> QED
    BY <2>1 DEF Registered
<1>7. Unborn' /\ SessionsExist'
  BY <1>1, <1>4, ZenonT(30) DEF TurnInv, Unborn, SessionsExist
<1>8. Settled' /\ EndedTurnIsTerminal' /\ WorkingRuns'
  <2>1. sess' = sess
    BY <1>1
  <2>2. Settled' /\ EndedTurnIsTerminal'
    BY <1>4 DEF TurnInv, Settled, EndedTurnIsTerminal, Titling
  <2>3. WorkingRuns'
    BY <1>4, <2>1 DEF TurnInv, WorkingRuns, SessionLive
  <2> QED
    BY <2>2, <2>3
<1>9. LateIsOver'
  <2>1. ASSUME NEW w \in late PROVE w.t # t /\ w.t \in Turns
    BY <1>1, <2>1 DEF TurnInv, LateIsOver, TypeOK, LateType
  <2> QED
    BY <1>1, <1>4, <2>1 DEF TurnInv, LateIsOver
<1>10. PendingOverwrite'
  <2>1. ASSUME NEW d \in Clients, call'[d].op \in Overwriting
        PROVE  pc'[call'[d].t] \in {"killed", "aborted"}
    <3>1. call'[d] = call[d] /\ call[d].t \in Turns
      BY <1>1, <1>2, <2>1 DEF Idle, Overwriting, CallType
    <3>2. pc[call[d].t] \in {"killed", "aborted"}
      BY <2>1, <3>1 DEF TurnInv, PendingOverwrite, Overwriting
    <3> QED
      BY <1>1, <1>4, <3>1, <3>2, ZenonT(30)
  <2> QED
    BY <2>1 DEF PendingOverwrite, Overwriting
<1>11. InterruptedMeansNoRunner'
  BY <1>4 DEF TurnInv, InterruptedMeansNoRunner
<1> QED
  BY <1>5, <1>6, <1>7, <1>8, <1>9, <1>10, <1>11 DEF TurnInv

(* Deleting a session takes its rows with it.                              *)
LEMMA DeleteSessionKeepsInv ==
    ASSUME TypeOK, TurnInv, NEW s \in Sessions, DeleteSession(s)
    PROVE  TurnInv'
<1>1. /\ sess' = [sess EXCEPT ![s] = "deleted"]
      /\ UNCHANGED <<session, pc, executions, late, call>>
  BY DEF DeleteSession, taskVars, memoryVars
<1>2. \A t \in Turns :
        \/ session[t] # s /\ row'[t] = row[t]
        \/ session[t] = s /\ row'[t].status = "absent" /\ row'[t].why = ""
  BY DEF DeleteSession
<1>3. sess \in [Sessions -> {"unused", "live", "deleted"}] /\ session \in [Turns -> Sessions]
  BY DEF TypeOK, StoreTypes, TaskTypes
<1>4. OneRunningTurn' /\ Unborn' /\ Settled' /\ EndedTurnIsTerminal' /\ InterruptedMeansNoRunner'
  <2>1. session' = session /\ pc' = pc
    BY <1>1
  <2>2. OneRunningTurn'
    BY <1>2, <2>1 DEF TurnInv, OneRunningTurn
  <2>3. Unborn' /\ Settled' /\ EndedTurnIsTerminal' /\ InterruptedMeansNoRunner'
    BY <1>2, <2>1 DEF TurnInv, Unborn, Settled, EndedTurnIsTerminal, InterruptedMeansNoRunner
  <2> QED
    BY <2>2, <2>3
<1>5. Registered' /\ LateIsOver' /\ PendingOverwrite'
  BY <1>1 DEF TurnInv, Registered, LateIsOver, PendingOverwrite
<1>6. SessionsExist' /\ WorkingRuns'
  BY <1>1, <1>2, <1>3 DEF TurnInv, SessionsExist, WorkingRuns, SessionLive
<1> QED
  BY <1>4, <1>5, <1>6 DEF TurnInv

(* A restart leaves neither tasks nor calls nor pending writes.            *)
LEMMA RestartKeepsInv ==
    ASSUME TypeOK, TurnInv, Restart
    PROVE  TurnInv'
<1>1. /\ UNCHANGED <<sess, row, session>>
      /\ executions' = {} /\ late' = {} /\ call' = [c \in Clients |-> Idle]
      /\ \A t \in Turns : pc'[t] = IF pc[t] \in Active THEN "killed" ELSE pc[t]
  BY DEF Restart, storeVars
<1>2. \A t \in Turns : pc'[t] \notin Active
  BY <1>1 DEF Active, Working, Titling, Unwinding
<1>3. OneRunningTurn' /\ Registered' /\ LateIsOver'
  BY <1>1, <1>2 DEF TurnInv, OneRunningTurn, Registered, LateIsOver
<1>4. Unborn' /\ SessionsExist' /\ EndedTurnIsTerminal' /\ InterruptedMeansNoRunner'
  BY <1>1 DEF TurnInv, Unborn, SessionsExist, EndedTurnIsTerminal, InterruptedMeansNoRunner,
     Active, Working, Titling, Unwinding
<1>5. Settled' /\ WorkingRuns'
  BY <1>2 DEF Settled, WorkingRuns, Active
<1>6. PendingOverwrite'
  BY <1>1 DEF PendingOverwrite, Idle
<1> QED
  BY <1>3, <1>4, <1>5, <1>6 DEF TurnInv

(***************************************************************************)
(* The calls, one by one, and the theorems.                                *)
(***************************************************************************)

(* A running row without a runner belongs to a task that a restart or a    *)
(* second cancellation ended.                                              *)
LEMMA OrphanHasNoTask ==
    ASSUME TypeOK, TurnInv, NEW c \in Clients, NEW t \in Turns,
           ~Mine(c, t), row[t].status = "running"
    PROVE  pc[t] \in {"killed", "aborted"}
<1>1. pc[t] \in Phases
  BY DEF TypeOK, TaskTypes
<1>2. pc[t] \notin Active
  BY ConstantsAssumption DEF Mine, Live, TurnInv, Registered
<1>3. pc[t] # "none" /\ pc[t] # "ended"
  BY DEF TurnInv, Unborn, EndedTurnIsTerminal, Terminal
<1> QED
  BY <1>1, <1>2, <1>3 DEF Phases, Over

(* Every step of a call is of one of the kinds.                            *)
LEMMA CallKinds ==
    ASSUME TypeOK, TurnInv, NEW c \in Clients, Pending(c) \/ Request(c)
    PROVE  StepKind
<1>1. /\ call \in [Clients -> CallType] /\ call[c] \in CallType /\ row \in [Turns -> RowType]
      /\ sess \in [Sessions -> {"unused", "live", "deleted"}]
  BY DEF TypeOK, StoreTypes
<1>2. call[c].s \in Sessions /\ call[c].t \in Turns /\ Idle.op = "idle"
  BY <1>1 DEF CallType, Idle
<1>3. ASSUME NEW x, call' = [call EXCEPT ![c] = x], CallUnchanged, UNCHANGED <<sess, row>>,
             x.op \notin Overwriting \/ pc[x.t] \in {"killed", "aborted"}
      PROVE  StepKind
  <2>1. QuietStep
    BY <1>1, <1>3 DEF QuietStep, CallUnchanged, taskVars, memoryVars
  <2> QED
    BY <2>1 DEF StepKind
<1>4. ASSUME NEW s \in Sessions, EnsureSession(c, s)
      PROVE  StepKind
  <2>1. PICK u \in Sessions :
          /\ IF sess[s] = "live" THEN u = s ELSE sess[u] = "unused"
          /\ sess' = [sess EXCEPT ![u] = "live"]
          /\ call' = [call EXCEPT ![c] = [@ EXCEPT !.op = "list", !.s = u]]
    BY <1>4 DEF EnsureSession
  <2>2. call'[c].op \notin Overwriting /\ \A d \in Clients \ {c} : call'[d] = call[d]
    BY <1>1, <2>1 DEF Overwriting, CallType
  <2>3. \A v \in Sessions : sess'[v] = sess[v] \/ (sess[v] = "unused" /\ sess'[v] = "live")
    BY <1>1, <2>1
  <2>4. QuietStep
    BY <1>4, <2>2, <2>3 DEF QuietStep, EnsureSession, CallUnchanged, taskVars, memoryVars
  <2> QED
    BY <2>4 DEF StepKind
<1>5. CASE ListActiveTurns(c)
  <2>1. CASE call' = [call EXCEPT ![c].op = "create"]
    <3>1. [call[c] EXCEPT !.op = "create"].op \notin Overwriting
      BY <1>1 DEF Overwriting, CallType
    <3> QED
      BY <1>3, <1>5, <2>1, <3>1 DEF ListActiveTurns, storeVars
  <2>2. ASSUME NEW t \in RunningIn(call[c].s), ~Mine(c, t),
               call' = [call EXCEPT ![c].op = "recover", ![c].t = t]
        PROVE  StepKind
    <3>1. pc[t] \in {"killed", "aborted"} /\ t \in Turns
      BY <2>2, OrphanHasNoTask DEF RunningIn
    <3>2. call'[c].t = t /\ \A d \in Clients \ {c} : call'[d] = call[d]
      BY <1>1, <2>2 DEF CallType
    <3>3. QuietStep
      BY <1>5, <3>1, <3>2
      DEF ListActiveTurns, QuietStep, CallUnchanged, storeVars, taskVars, memoryVars
    <3> QED
      BY <3>3 DEF StepKind
  <2> QED
    BY <1>5, <2>1, <2>2 DEF ListActiveTurns
<1>6. ASSUME NEW t \in Turns, NEW status \in Terminal, NEW why \in Reasons,
             NEW x, x.op \notin Overwriting,
             SetStatus(t, status, why), pc[t] \in {"killed", "aborted"},
             call' = [call EXCEPT ![c] = x], CallUnchanged
      PROVE  StepKind
  <2>1. \A d \in Clients : call'[d] = call[d] \/ call'[d].op \notin Overwriting
    BY <1>1, <1>6
  <2>2. /\ sess' = sess /\ \A u \in Turns \ {t} : row'[u] = row[u]
        /\ row'[t] = row[t] \/ (row[t].status # "absent" /\ row'[t].status \in Terminal)
    BY <1>1, <1>6 DEF SetStatus
  <2>3. pc[t] \notin Working \cup {"none"}
    BY <1>6 DEF Working
  <2>4. OutsideWrite(t)
    BY <1>6, <2>1, <2>2, <2>3 DEF OutsideWrite, CallUnchanged, taskVars, memoryVars
  <2> QED
    BY <2>4 DEF StepKind
<1>7. CASE FailOrphan(c)
  <2>1. pc[call[c].t] \in {"killed", "aborted"}
    BY <1>7 DEF FailOrphan, At, TurnInv, PendingOverwrite
  <2>2. [call[c] EXCEPT !.op = "create"].op \notin Overwriting
    BY <1>1 DEF Overwriting, CallType
  <2>3. "failed" \in Terminal /\ "interrupted" \in Reasons
    BY DEF Terminal, Reasons
  <2> QED
    BY <1>2, <1>6, <1>7, <2>1, <2>2, <2>3 DEF FailOrphan
<1>8. CASE CancelRow(c)
  <2>1. pc[call[c].t] \in {"killed", "aborted"}
    BY <1>8 DEF CancelRow, At, TurnInv, PendingOverwrite
  <2>2. Idle.op \notin Overwriting
    BY <1>2 DEF Overwriting
  <2>3. "cancelled" \in Terminal /\ "stale" \in Reasons /\ "cancelled" \in Reasons
    BY DEF Terminal, Reasons
  <2> QED
    BY <1>2, <1>6, <1>8, <2>1, <2>2, <2>3 DEF CancelRow
<1>9. CASE RefuseTurn(c) \/ CancelReturns(c)
  <2>1. Idle.op \notin Overwriting
    BY <1>2 DEF Overwriting
  <2> QED
    BY <1>3, <1>9, <2>1 DEF RefuseTurn, CancelReturns, storeVars
<1>10. ASSUME NEW s \in Sessions, Regenerate(c, s)
       PROVE  StepKind
  <2>1. call'[c].op \notin Overwriting /\ \A d \in Clients \ {c} : call'[d] = call[d]
    BY <1>1, <1>10 DEF Regenerate, Overwriting, CallType
  <2>2. QuietStep
    BY <1>10, <2>1 DEF QuietStep, Regenerate, storeVars, taskVars, memoryVars
  <2> QED
    BY <2>2 DEF StepKind
<1>11. CASE LastMessage(c)
  <2>1. call'[c].op \notin Overwriting /\ \A d \in Clients \ {c} : call'[d] = call[d]
    BY <1>1, <1>2, <1>11 DEF LastMessage, Overwriting, CallType
  <2>2. QuietStep
    BY <1>11, <2>1
    DEF QuietStep, LastMessage, CallUnchanged, storeVars, taskVars, memoryVars
  <2> QED
    BY <2>2 DEF StepKind
<1>15. CASE LastUser(c)
  <2>1. call'[c].op \notin Overwriting /\ \A d \in Clients \ {c} : call'[d] = call[d]
    BY <1>1, <1>2, <1>15 DEF LastUser, Overwriting, CallType
  <2>2. QuietStep
    BY <1>15, <2>1
    DEF QuietStep, LastUser, CallUnchanged, storeVars, taskVars, memoryVars
  <2> QED
    BY <2>2 DEF StepKind
<1>12. CASE DeleteMessage(c)
  <2>1. call'[c].op \notin Overwriting /\ \A d \in Clients \ {c} : call'[d] = call[d]
    BY <1>1, <1>12 DEF DeleteMessage, Overwriting, CallType
  <2>2. QuietStep
    BY <1>12, <2>1 DEF QuietStep, DeleteMessage, CallUnchanged, taskVars, memoryVars
  <2> QED
    BY <2>2 DEF StepKind
<1>13. ASSUME NEW t \in Turns, CancelLive(c, t)
       PROVE  StepKind
  <2>1. pc[t] \in Active
    BY <1>13, ConstantsAssumption DEF CancelLive, Mine, Live, TurnInv, Registered
  <2>2. TaskEffect(t)
    BY <1>13, <2>1, InterruptHasEffect DEF CancelLive
  <2>3. \A d \in Clients : call'[d] = call[d] \/ call'[d].op \notin Overwriting
    BY <1>1, <1>13 DEF CancelLive, Overwriting, CallType
  <2> QED
    BY <2>2, <2>3 DEF StepKind, TaskStep
<1>14. ASSUME NEW t \in Turns, CancelOrphan(c, t) \/ CheckActiveTurn(c, t)
       PROVE  StepKind
  <2>1. pc[t] \in {"killed", "aborted"}
    BY <1>14, OrphanHasNoTask DEF CancelOrphan, CheckActiveTurn
  <2>2. call'[c].t = t /\ \A d \in Clients \ {c} : call'[d] = call[d]
    BY <1>1, <1>14 DEF CancelOrphan, CheckActiveTurn, CallType
  <2>3. QuietStep
    BY <1>14, <2>1, <2>2
    DEF CancelOrphan, CheckActiveTurn, QuietStep, CallUnchanged, storeVars, taskVars, memoryVars
  <2> QED
    BY <2>3 DEF StepKind
<1> QED
  BY <1>2, <1>4, <1>5, <1>7, <1>8, <1>9, <1>10, <1>11, <1>12, <1>13, <1>14, <1>15
  DEF Pending, Request, StepKind

(* Every step is of one of these kinds.                                    *)
LEMMA StepKinds ==
    ASSUME TypeOK, TurnInv, [Next]_vars
    PROVE  StepKind
<1>1. CASE UNCHANGED vars
  <2>1. QuietStep
    BY <1>1 DEF vars, storeVars, taskVars, memoryVars, QuietStep
  <2> QED
    BY <2>1 DEF StepKind
<1>2. ASSUME NEW t \in Turns, Task(t)
      PROVE  StepKind
  <2>1. UNCHANGED call
    BY <1>2 DEF Task, PersistUserMessage, MessageRefused, StreamOutput, AskUser, TakeReply,
       StreamEnds, RunFails, PersistAnswer, FlushEvent, MarkCompleted, CheckTitle, WriteTitle,
       PersistPartialAnswer, MarkUnwound, TaskUnchanged
  <2> QED
    BY <1>2, <2>1, TaskHasEffect DEF StepKind, TaskStep
<1>3. CASE LateWrite
  <2>1. PICK w \in late : /\ SetStatus(w.t, w.row.status, w.row.why)
                          /\ late' = late \ {w}
                          /\ UNCHANGED <<taskVars, memoryVars, call, budget>>
    BY <1>3 DEF LateWrite
  <2>2. /\ w.t \in Turns /\ w.row.status \in Terminal /\ w.row.why \in Ordinary
        /\ pc[w.t] \notin Working \cup {"none"}
    BY DEF TypeOK, LateType, TurnInv, LateIsOver, Ordinary
  <2>3. row \in [Turns -> RowType]
    BY DEF TypeOK, StoreTypes
  <2>4. OutsideWrite(w.t)
    BY <2>1, <2>2, <2>3 DEF OutsideWrite, SetStatus, taskVars, memoryVars
  <2> QED
    BY <2>2, <2>4 DEF StepKind
<1>4. CASE Environment
  <2>1. ASSUME NEW t \in Turns, SubmitUserReply(t)
        PROVE  StepKind
    <3>1. QuietStep
      BY <2>1 DEF SubmitUserReply, QuietStep, storeVars, taskVars
    <3> QED
      BY <3>1 DEF StepKind
  <2>2. ASSUME NEW s \in Sessions, RenameSession(s)
        PROVE  StepKind
    <3>1. QuietStep
      BY <2>2 DEF RenameSession, SetTitle, QuietStep, taskVars, memoryVars
    <3> QED
      BY <3>1 DEF StepKind
  <2> QED
    BY <1>4, <2>1, <2>2 DEF Environment, StepKind
<1> QED
  BY <1>1, <1>2, <1>3, <1>4, CallKinds DEF Next, Operate, StepKind

(* Every step keeps the invariant.                                         *)
LEMMA InvStep ==
    ASSUME OneManagerOnly, TypeOK, TurnInv, [Next]_vars
    PROVE  TurnInv'
BY StepKinds, QuietStepKeepsInv, TaskStepKeepsInv, OutsideWriteKeepsInv, CreateTurnKeepsInv,
   DeleteSessionKeepsInv, RestartKeepsInv DEF StepKind

(* The invariant holds of a fresh database without a task.                 *)
LEMMA InvInit ==
    ASSUME Init
    PROVE  TurnInv
<1>1. /\ \A t \in Turns : pc[t] = "none" /\ row[t].status = "absent" /\ row[t].why = ""
      /\ executions = {} /\ late = {} /\ \A c \in Clients : call[c].op = "idle"
  BY DEF Init, Idle
<1> QED
  BY <1>1 DEF TurnInv, OneRunningTurn, Registered, Unborn, SessionsExist, Settled, WorkingRuns,
     LateIsOver, PendingOverwrite, EndedTurnIsTerminal, InterruptedMeansNoRunner,
     Active, Working, Titling, Unwinding

(* With one manager the inductive invariant holds throughout.              *)
THEOREM TurnInvariant == OneManagerOnly => (Spec => []TurnInv)
<1> SUFFICES ASSUME OneManagerOnly PROVE Spec => []TurnInv
  OBVIOUS
<1>1. Init => TurnInv
  BY InvInit
<1>2. TypeOK /\ TurnInv /\ [Next]_vars => TurnInv'
  BY InvStep
<1> QED
  BY <1>1, <1>2, TypeCorrect, PTL DEF Spec

(* A session never has two running turns.                                  *)
THEOREM OneRunningTurnHolds == OneManagerOnly => (Spec => []OneRunningTurn)
<1>1. TurnInv => OneRunningTurn
  BY DEF TurnInv
<1> QED
  BY <1>1, TurnInvariant, PTL

(* No two tasks work on one session: the rows of both would be running.    *)
THEOREM OneWorkingTurnHolds == OneManagerOnly => (Spec => []OneWorkingTurn)
<1>1. TurnInv => OneWorkingTurn
  BY DEF TurnInv, OneRunningTurn, WorkingRuns, OneWorkingTurn, SessionLive
<1> QED
  BY <1>1, TurnInvariant, PTL

(* A row marked interrupted or stale has no task that still runs.          *)
THEOREM InterruptedMeansNoRunnerHolds == OneManagerOnly => (Spec => []InterruptedMeansNoRunner)
<1>1. TurnInv => InterruptedMeansNoRunner
  BY DEF TurnInv
<1> QED
  BY <1>1, TurnInvariant, PTL

(* A task that reaches its last line leaves a terminal row.                *)
THEOREM EndedTurnIsTerminalHolds == OneManagerOnly => (Spec => []EndedTurnIsTerminal)
<1>1. TurnInv => EndedTurnIsTerminal
  BY DEF TurnInv
<1> QED
  BY <1>1, TurnInvariant, PTL

(***************************************************************************)
(* What was told stays told: DoneIsDurable.                                *)
(***************************************************************************)
HasCompleted(t) == \E i \in 1..Len(events[t]) : events[t][i] = "completed"

\* A "failed" about to be written belongs to a turn that never told DONE
\* (completed): one that failed, or one found running by a recovery.
DoneInv ==
    /\ DoneIsDurable
    /\ \A w \in late : w.row.status = "failed" => pc[w.t] # "none" /\ HasFailed(w.t)
    /\ \A c \in Clients : At(c, "recover") => ~HasCompleted(call[c].t)

(* The call of a client changes by its own step, or by a restart.          *)
LEMMA CallChanges ==
    ASSUME TypeOK, [Next]_vars, NEW c \in Clients, call'[c] # call[c]
    PROVE  Restart \/ Pending(c) \/ Request(c)
<1>1. call \in [Clients -> CallType]
  BY DEF TypeOK
<1>2. PICK d \in Clients : Restart \/ Pending(d) \/ Request(d)
  <2>1. UNCHANGED call \/ Restart \/ \E d \in Clients : Pending(d) \/ Request(d)
    BY ZenonT(30) DEF Next, Operate, Task, PersistUserMessage, MessageRefused, StreamOutput, AskUser,
       TakeReply, StreamEnds, RunFails, PersistAnswer, FlushEvent, MarkCompleted, CheckTitle,
       WriteTitle, PersistPartialAnswer, MarkUnwound, TaskUnchanged, LateWrite, Environment,
       SubmitUserReply, RenameSession, DeleteSession, vars
  <2> QED
    BY <2>1
<1>3. ~Restart => \A e \in Clients \ {d} : call'[e] = call[e]
  BY <1>1, <1>2
  DEF Pending, Request, EnsureSession, ListActiveTurns, FailOrphan, RefuseTurn, CreateTurn,
      LastUser, LastMessage, DeleteMessage, CancelReturns, CancelRow, Regenerate, CancelLive,
      CancelOrphan, CheckActiveTurn
<1> QED
  BY <1>2, <1>3

(* A turn that failed never told DONE(completed): it has one DONE.         *)
LEMMA FailedIsNotCompleted ==
    ASSUME TypeOK, StoryInv, NEW t \in Turns, HasFailed(t)
    PROVE  ~HasCompleted(t)
<1> SUFFICES ASSUME HasCompleted(t) PROVE FALSE
  OBVIOUS
<1>1. PICK i \in 1..Len(events[t]) : events[t][i] = "failed"
  BY DEF HasFailed
<1>2. PICK j \in 1..Len(events[t]) : events[t][j] = "completed"
  BY DEF HasCompleted
<1>3. OneDone(events[t])
  BY DEF StoryInv, StoryOf, Story
<1>4. i < j \/ j < i
  BY <1>1, <1>2
<1> QED
  BY <1>1, <1>2, <1>3, <1>4 DEF OneDone, Terminal

(* Events are only appended; DONE(completed) is appended by MarkCompleted. *)
LEMMA EventsGrow ==
    ASSUME TypeOK, NEW t \in Turns, Task(t) \/ Interrupt(t)
    PROVE  /\ HasFailed(t) => HasFailed(t)'
           /\ HasCompleted(t)' => HasCompleted(t) \/ MarkCompleted(t)
<1>1. PICK e : e = events[t]
  OBVIOUS
<1>2. events \in [Turns -> Seq(EventTypes)] /\ e \in Seq(EventTypes)
  BY <1>1 DEF TypeOK, TaskTypes
<1>3. CASE UNCHANGED events
  BY <1>3 DEF HasFailed, HasCompleted
<1>4. ASSUME NEW x \in EventTypes, Publish(t, <<x>>)
      PROVE  /\ HasFailed(t) => HasFailed(t)'
             /\ HasCompleted(t)' => HasCompleted(t) \/ x = "completed"
  <2>1. events'[t] = e \o <<x>>
    BY <1>1, <1>2, <1>4 DEF Publish
  <2>2. /\ Len(events'[t]) = Len(e) + 1 /\ Len(e) \in Nat /\ events'[t][Len(e) + 1] = x
        /\ \A i \in 1..Len(e) : events'[t][i] = e[i]
    BY <1>2, <2>1, OneMore
  <2>3. \A i \in 1..Len(events'[t]) : i \in 1..Len(e) \/ i = Len(e) + 1
    BY <2>2
  <2>4. \A i \in 1..Len(e) : i \in 1..Len(events'[t])
    BY <2>2
  <2> QED
    BY <1>1, <2>2, <2>3, <2>4 DEF HasFailed, HasCompleted
<1>5. ASSUME NEW d \in {"failed", "cancelled"}, Publish(t, <<"error", d>>)
      PROVE  (HasFailed(t) => HasFailed(t)') /\ (HasCompleted(t)' => HasCompleted(t))
  <2>1. events'[t] = e \o <<"error", d>>
    BY <1>1, <1>2, <1>5 DEF Publish
  <2>2. /\ Len(events'[t]) = Len(e) + 2 /\ Len(e) \in Nat
        /\ events'[t][Len(e) + 1] = "error" /\ events'[t][Len(e) + 2] = d
        /\ \A i \in 1..Len(e) : events'[t][i] = e[i]
    BY <1>2, <2>1, TwoMore DEF EventTypes, Terminal
  <2>3. \A i \in 1..Len(events'[t]) : i \in 1..Len(e) \/ i = Len(e) + 1 \/ i = Len(e) + 2
    BY <2>2
  <2>4. \A i \in 1..Len(e) : i \in 1..Len(events'[t])
    BY <2>2
  <2> QED
    BY <1>1, <2>2, <2>3, <2>4 DEF HasFailed, HasCompleted
<1>6. \/ UNCHANGED events
      \/ Publish(t, <<"output">>) \/ Publish(t, <<"meta">>)
      \/ Publish(t, <<"completed">>) /\ MarkCompleted(t)
      \/ Publish(t, <<"error", "failed">>) \/ Publish(t, <<"error", "cancelled">>)
  BY DEF Task, PersistUserMessage, MessageRefused, StreamOutput, AskUser, TakeReply,
     StreamEnds, RunFails, PersistAnswer, FlushEvent, MarkCompleted, CheckTitle, WriteTitle,
     PersistPartialAnswer, MarkUnwound, EnterFailure, Interrupt, EnterCancel
<1> QED
  BY <1>3, <1>4, <1>5, <1>6 DEF EventTypes, Terminal

(* The task's own writes agree with what it told.                          *)
LEMMA TurnKeepsDone ==
    ASSUME TypeOK, TurnInv, StoryInv, AnswerStory, DoneInv, NEW t \in Turns,
           Task(t) \/ Interrupt(t), OnlyTurn(t),
           \A c \in Clients : call'[c] = call[c] \/ call'[c].op # "recover"
    PROVE  DoneInv'
<1>1. StoreTypes /\ row \in [Turns -> RowType] /\ row[t] \in RowType
  BY DEF TypeOK, StoreTypes
<1>2. \A u \in Turns \ {t} : row'[u] = row[u] /\ events'[u] = events[u] /\ pc'[u] = pc[u]
  BY DEF OnlyTurn
<1>3. UNCHANGED storeVars \/ PendingWrite(t)
  BY DEF Task, PersistUserMessage, MessageRefused, StreamOutput, AskUser, TakeReply,
     StreamEnds, RunFails, PersistAnswer, FlushEvent, MarkCompleted, CheckTitle, WriteTitle,
     PersistPartialAnswer, MarkUnwound, Interrupt, AbandonedWrite
<1>4. pc[t] = "failStatus" => HasFailed(t)
  BY DEF AnswerStory, AnswerOf
<1>5. \/ row'[t].status = row[t].status
      \/ /\ pc[t] \in {"complete", "cancelStatus", "failStatus"}
         /\ row'[t].status = StatusWrite(pc[t]).status
  BY <1>1, <1>3, PendingWriteStores DEF storeVars
<1>6. HasCompleted(t) => row'[t].status \in {"completed", "cancelled", "absent"}
  BY <1>4, <1>5, FailedIsNotCompleted DEF DoneInv, DoneIsDurable, HasCompleted, StatusWrite
<1>7. MarkCompleted(t) => row'[t].status \in {"completed", "absent"}
  BY <1>1, PendingWriteStores DEF MarkCompleted, StatusWrite
<1>8. HasCompleted(t)' => row'[t].status \in {"completed", "cancelled", "absent"}
  BY <1>6, <1>7, EventsGrow
<1>9. DoneIsDurable'
  <2> SUFFICES ASSUME NEW u \in Turns, HasCompleted(u)'
               PROVE  row'[u].status \in {"completed", "cancelled", "absent"}
    BY DEF DoneIsDurable, HasCompleted
  <2>1. CASE u # t
    BY <1>2, <2>1 DEF DoneInv, DoneIsDurable, HasCompleted
  <2> QED
    BY <1>8, <2>1
<1>10. ASSUME NEW w \in late', w.row.status = "failed"
       PROVE  pc'[w.t] # "none" /\ HasFailed(w.t)'
  <2>1. CASE w \in late
    <3>1. w.t \in Turns /\ pc[w.t] # "none" /\ HasFailed(w.t)
      BY <1>10, <2>1 DEF DoneInv, TypeOK, LateType
    <3>2. CASE w.t = t
      BY <3>1, <3>2, EventsGrow DEF OnlyTurn
    <3>3. CASE w.t # t
      BY <1>2, <3>1, <3>3 DEF HasFailed
    <3> QED
      BY <3>2, <3>3
  <2>2. CASE w \notin late
    <3>1. w.t = t /\ pc'[t] # "none" /\ ~ UNCHANGED late
      BY <1>10, <2>2 DEF OnlyTurn
    <3>2. ~Task(t)
      BY <3>1 DEF Task, PersistUserMessage, MessageRefused, StreamOutput, AskUser, TakeReply,
         StreamEnds, RunFails, PersistAnswer, FlushEvent, MarkCompleted, CheckTitle, WriteTitle,
         PersistPartialAnswer, MarkUnwound, TaskUnchanged
    <3>3. /\ pc[t] \in {"complete", "cancelStatus", "failStatus"}
          /\ w = [t |-> t, row |-> StatusWrite(pc[t])]
      BY <1>10, <2>2, <3>2 DEF Interrupt, AbandonedWrite
    <3>4. pc[t] = "failStatus"
      BY <1>10, <3>3 DEF StatusWrite
    <3> QED
      BY <1>4, <3>1, <3>4, EventsGrow
  <2> QED
    BY <2>1, <2>2
<1>11. ASSUME NEW c \in Clients, At(c, "recover")'
       PROVE  ~HasCompleted(call[c].t)'
  <2>1. call'[c] = call[c] /\ At(c, "recover")
    BY <1>11 DEF At
  <2>2. call[c].t \in Turns /\ call[c].t # t
    BY <2>1 DEF TypeOK, CallType, TurnInv, PendingOverwrite, OnlyTurn, At, Active, Working,
       Titling, Unwinding
  <2> QED
    BY <1>2, <2>1, <2>2 DEF DoneInv, HasCompleted
<1> QED
  BY <1>9, <1>10, <1>11 DEF DoneInv

(* A status written from outside is "failed" only for a turn that did not  *)
(* tell DONE(completed).                                                   *)
LEMMA WriteKeepsDone ==
    ASSUME TypeOK, DoneInv, UNCHANGED <<events, pc>>, late' \subseteq late,
           \A u \in Turns :
             \/ row'[u].status = row[u].status
             \/ row'[u].status \in {"completed", "cancelled", "absent"}
             \/ ~HasCompleted(u),
           \A c \in Clients :
             \/ call'[c] = call[c]
             \/ call'[c].op # "recover"
             \/ ~HasCompleted(call'[c].t)
    PROVE  DoneInv'
<1>1. \A u : HasCompleted(u)' <=> HasCompleted(u)
  BY DEF HasCompleted
<1>2. \A u : HasFailed(u)' <=> HasFailed(u)
  BY DEF HasFailed
<1>3. DoneIsDurable'
  BY <1>1 DEF DoneInv, DoneIsDurable, HasCompleted
<1>4. \A c \in Clients : At(c, "recover")' => ~HasCompleted(call'[c].t)
  BY DEF DoneInv, At
<1>5. \A c \in Clients : HasCompleted(call'[c].t) <=> HasCompleted(call[c].t)'
  BY DEF HasCompleted
<1> QED
  BY <1>2, <1>3, <1>4, <1>5 DEF DoneInv

(* Every step keeps it.                                                    *)
LEMMA DoneStep ==
    ASSUME OneManagerOnly, TypeOK, TurnInv, StoryInv, AnswerStory, DoneInv, [Next]_vars
    PROVE  DoneInv'
<1>1. /\ call \in [Clients -> CallType] /\ row \in [Turns -> RowType]
      /\ pc \in [Turns -> Phases] /\ events \in [Turns -> Seq(EventTypes)]
      /\ Idle.op = "idle"
  BY DEF TypeOK, StoreTypes, TaskTypes, Idle
<1>2. ASSUME NEW t \in Turns, Task(t)
      PROVE  DoneInv'
  <2>1. UNCHANGED call
    BY <1>2 DEF Task, PersistUserMessage, MessageRefused, StreamOutput, AskUser, TakeReply,
       StreamEnds, RunFails, PersistAnswer, FlushEvent, MarkCompleted, CheckTitle, WriteTitle,
       PersistPartialAnswer, MarkUnwound, TaskUnchanged
  <2> QED
    BY <1>2, <2>1, TaskIsOnlyTurn, TurnKeepsDone
<1>3. CASE LateWrite
  <2>1. PICK w \in late : /\ SetStatus(w.t, w.row.status, w.row.why)
                          /\ late' = late \ {w}
                          /\ UNCHANGED <<taskVars, memoryVars, call, budget>>
    BY <1>3 DEF LateWrite
  <2>2. w.t \in Turns /\ w.row.status \in Terminal
    BY DEF TypeOK, LateType
  <2>3. w.row.status = "failed" => ~HasCompleted(w.t)
    BY <2>2, FailedIsNotCompleted DEF DoneInv
  <2>4. \A u \in Turns : row'[u].status = row[u].status \/ (u = w.t /\ row'[u].status = w.row.status)
    BY <1>1, <2>1 DEF SetStatus
  <2>5. \A u \in Turns : \/ row'[u].status = row[u].status
                         \/ row'[u].status \in {"completed", "cancelled", "absent"}
                         \/ ~HasCompleted(u)
    BY <2>2, <2>3, <2>4 DEF Terminal
  <2> QED
    BY <2>1, <2>5, WriteKeepsDone DEF taskVars
<1>4. ASSUME NEW c \in Clients, FailOrphan(c) \/ CancelRow(c)
      PROVE  DoneInv'
  <2>1. call[c].t \in Turns /\ CallUnchanged
    BY <1>1, <1>4 DEF CallType, FailOrphan, CancelRow
  <2>2. \A u \in Turns : \/ row'[u].status = row[u].status
                         \/ row'[u].status \in {"completed", "cancelled", "absent"}
                         \/ ~HasCompleted(u)
    <3>1. CASE FailOrphan(c)
      <4>1. ~HasCompleted(call[c].t)
        BY <3>1 DEF FailOrphan, DoneInv
      <4>2. \A u \in Turns : row'[u].status = row[u].status \/ u = call[c].t
        BY <1>1, <3>1 DEF FailOrphan, SetStatus
      <4> QED
        BY <4>1, <4>2
    <3>2. CASE CancelRow(c)
      BY <1>1, <3>2 DEF CancelRow, SetStatus
    <3> QED
      BY <1>4, <3>1, <3>2
  <2>3. \A d \in Clients : call'[d] = call[d] \/ call'[d].op # "recover"
    BY <1>1, <1>4 DEF FailOrphan, CancelRow, CallType
  <2> QED
    BY <2>1, <2>2, <2>3, WriteKeepsDone DEF CallUnchanged, taskVars
<1>5. ASSUME NEW c \in Clients, NEW t \in Turns, CancelLive(c, t)
      PROVE  DoneInv'
  <2>1. pc[t] \in Active
    BY <1>5, ConstantsAssumption DEF CancelLive, Mine, Live, TurnInv, Registered
  <2>2. OnlyTurn(t) /\ Interrupt(t)
    BY <1>5, <2>1, InterruptIsOnlyTurn DEF CancelLive
  <2>3. \A d \in Clients : call'[d] = call[d] \/ call'[d].op # "recover"
    BY <1>1, <1>5 DEF CancelLive, CallType
  <2> QED
    BY <2>2, <2>3, TurnKeepsDone
<1>6. ASSUME NEW c \in Clients, NEW t \in Turns, CreateTurn(c, t)
      PROVE  DoneInv'
  <2>1. /\ pc[t] = "none" /\ pc'[t] = "context" /\ UNCHANGED late
        /\ events'[t] = <<"session">>
    <3>1. pc[t] = "none" /\ events'[t] = events[t] \o <<"session">>
      BY <1>1, <1>6 DEF CreateTurn, Publish
    <3>2. events[t] = <<>>
      BY <3>1 DEF StoryInv, StoryOf, Story
    <3>3. events'[t] = <<"session">>
      BY <3>1, <3>2
    <3>4. pc'[t] = "context" /\ UNCHANGED late
      BY <1>1, <1>6 DEF CreateTurn
    <3> QED
      BY <3>1, <3>3, <3>4
  <2>2. \A u \in Turns \ {t} : pc'[u] = pc[u] /\ events'[u] = events[u] /\ row'[u] = row[u]
    BY <1>1, <1>6 DEF CreateTurn, Publish
  <2>3. ~HasCompleted(t)'
    BY <2>1 DEF HasCompleted
  <2>4. DoneIsDurable'
    BY <2>2, <2>3 DEF DoneInv, DoneIsDurable, HasCompleted
  <2>5. ASSUME NEW w \in late', w.row.status = "failed"
        PROVE  pc'[w.t] # "none" /\ HasFailed(w.t)'
    <3>1. w.t \in Turns /\ pc[w.t] # "none" /\ HasFailed(w.t)
      BY <2>1, <2>5 DEF DoneInv, TypeOK, LateType
    <3>2. pc'[w.t] = pc[w.t] /\ events'[w.t] = events[w.t]
      BY <2>1, <2>2, <3>1
    <3> QED
      BY <3>1, <3>2 DEF HasFailed
  <2>6. ASSUME NEW d \in Clients, At(d, "recover")'
        PROVE  ~HasCompleted(call[d].t)'
    <3>1. call'[d] = call[d] /\ At(d, "recover") /\ call[d].t \in Turns
      BY <1>1, <1>6, <2>6 DEF CreateTurn, At, CallType
    <3>2. call[d].t # t
      BY <2>1, <3>1 DEF TurnInv, PendingOverwrite, At
    <3> QED
      BY <2>2, <3>1, <3>2 DEF DoneInv, HasCompleted
  <2> QED
    BY <2>4, <2>5, <2>6 DEF DoneInv
<1>7. ASSUME NEW s \in Sessions, DeleteSession(s)
      PROVE  DoneInv'
  <2>1. /\ UNCHANGED <<events, pc, late, call>>
        /\ \A u \in Turns : row'[u].status = row[u].status \/ row'[u].status = "absent"
    BY <1>7 DEF DeleteSession, taskVars
  <2> QED
    BY <2>1, WriteKeepsDone
<1>8. CASE Restart
  <2>1. /\ UNCHANGED <<row, events>> /\ late' = {}
        /\ \A c \in Clients : call'[c].op = "idle"
    BY <1>1, <1>8 DEF Restart, storeVars
  <2>2. DoneIsDurable'
    BY <2>1 DEF DoneInv, DoneIsDurable
  <2> QED
    BY <2>1, <2>2 DEF DoneInv, At
<1>9. ASSUME NEW c \in Clients, ListActiveTurns(c)
      PROVE  DoneInv'
  <2>1. UNCHANGED <<row, events, pc, late>>
    BY <1>9 DEF ListActiveTurns, CallUnchanged, storeVars, taskVars
  <2>2. ASSUME NEW t \in RunningIn(call[c].s),
               call' = [call EXCEPT ![c].op = "recover", ![c].t = t]
        PROVE  DoneInv'
    <3>1. ~HasCompleted(t)
      BY DEF RunningIn, DoneInv, DoneIsDurable, HasCompleted
    <3>2. call'[c].t = t /\ \A d \in Clients \ {c} : call'[d] = call[d]
      BY <1>1, <2>2 DEF CallType
    <3> QED
      BY <2>1, <3>1, <3>2, WriteKeepsDone
  <2>3. CASE call' = [call EXCEPT ![c].op = "create"]
    <3>1. \A d \in Clients : call'[d] = call[d] \/ call'[d].op # "recover"
      BY <1>1, <2>3 DEF CallType
    <3> QED
      BY <2>1, <3>1, WriteKeepsDone
  <2> QED
    BY <1>9, <2>2, <2>3 DEF ListActiveTurns
<1>10. ASSUME NEW c \in Clients,
              \/ RefuseTurn(c) \/ LastUser(c) \/ LastMessage(c) \/ DeleteMessage(c)
              \/ CancelReturns(c)
              \/ \E s \in Sessions : EnsureSession(c, s) \/ Regenerate(c, s)
              \/ \E t \in Turns : CancelOrphan(c, t) \/ CheckActiveTurn(c, t)
       PROVE  DoneInv'
  <2>1. UNCHANGED <<row, events, pc, late>>
    BY <1>10 DEF RefuseTurn, LastUser, LastMessage, DeleteMessage, CancelReturns, EnsureSession,
       Regenerate, CancelOrphan, CheckActiveTurn, CallUnchanged, storeVars, taskVars
  <2>2. \A d \in Clients : call'[d] = call[d] \/ call'[d].op # "recover"
    <3>1. ASSUME NEW x, call' = [call EXCEPT ![c] = x], x.op # "recover"
          PROVE  \A d \in Clients : call'[d] = call[d] \/ call'[d].op # "recover"
      BY <1>1, <3>1
    <3>2. CASE RefuseTurn(c) \/ CancelReturns(c)
      BY <1>1, <3>1, <3>2 DEF RefuseTurn, CancelReturns
    <3>3. CASE LastUser(c) \/ LastMessage(c) \/ DeleteMessage(c)
      <4>1. call'[c].op # "recover" /\ \A d \in Clients \ {c} : call'[d] = call[d]
        BY <1>1, <3>3, ZenonT(30) DEF LastUser, LastMessage, DeleteMessage, CallType, At
      <4> QED
        BY <4>1
    <3>4. ASSUME NEW s \in Sessions, EnsureSession(c, s) \/ Regenerate(c, s)
          PROVE  call'[c].op # "recover" /\ \A d \in Clients \ {c} : call'[d] = call[d]
      BY <1>1, <3>4, ZenonT(30) DEF EnsureSession, Regenerate, CallType
    <3>5. ASSUME NEW t \in Turns, CancelOrphan(c, t) \/ CheckActiveTurn(c, t)
          PROVE  call'[c].op # "recover" /\ \A d \in Clients \ {c} : call'[d] = call[d]
      BY <1>1, <3>5 DEF CancelOrphan, CheckActiveTurn, CallType
    <3> QED
      BY <1>10, <3>2, <3>3, <3>4, <3>5
  <2>3. late' \subseteq late /\ events' = events /\ pc' = pc /\ \A u \in Turns : row'[u] = row[u]
    BY <2>1
  <2> QED
    BY <2>2, <2>3, WriteKeepsDone, ZenonT(30)
<1>11. CASE UNCHANGED vars
  BY <1>11, WriteKeepsDone DEF vars, storeVars, taskVars
<1>12. ASSUME NEW x, SubmitUserReply(x) \/ RenameSession(x)
       PROVE  DoneInv'
  <2>1. UNCHANGED <<row, events, pc, late, call>>
    BY <1>12 DEF SubmitUserReply, RenameSession, SetTitle, storeVars, taskVars
  <2> QED
    BY <2>1, WriteKeepsDone
<1>13. \A c \in Clients : call[c].s \in Sessions
  BY <1>1 DEF CallType
<1> QED
  BY <1>2, <1>3, <1>4, <1>5, <1>6, <1>7, <1>8, <1>9, <1>10, <1>11, <1>12, <1>13
  DEF Next, Operate, Pending, Request, Environment

(* At first nothing was told and nothing is pending.                       *)
LEMMA DoneInit ==
    ASSUME Init
    PROVE  DoneInv
<1>1. Idle.op = "idle"
  BY DEF Idle
<1>2. /\ \A t \in Turns : events[t] = <<>>
      /\ late = {} /\ \A c \in Clients : call[c].op = "idle"
  BY <1>1 DEF Init
<1> QED
  BY <1>2 DEF DoneInv, DoneIsDurable, At

(* With one manager a completed answer stays told.                         *)
THEOREM DoneIsDurableHolds == OneManagerOnly => (Spec => []DoneIsDurable)
<1> SUFFICES ASSUME OneManagerOnly PROVE Spec => []DoneIsDurable
  OBVIOUS
<1>1. Init => DoneInv
  BY DoneInit
<1>2. TypeOK /\ TurnInv /\ StoryInv /\ AnswerStory /\ DoneInv /\ [Next]_vars => DoneInv'
  BY DoneStep
<1>3. DoneInv => DoneIsDurable
  BY DEF DoneInv
<1> QED
  BY <1>1, <1>2, <1>3, TypeCorrect, TurnInvariant, StoryHolds, PTL DEF Spec

(***************************************************************************)
(* Why a turn is refused: RefusedOnlyIfLive.                               *)
(***************************************************************************)

\* A call on its way to create_turn has seen every row a restart left.
OrphansSeen(c) ==
    call[c].op \in {"recover", "create"} =>
        \A t \in RunningIn(call[c].s) :
            pc[t] # "killed" \/ (call[c].op = "recover" /\ t = call[c].t)

RefuseInv == \A c \in Clients : OrphansSeen(c)

(* No step but a restart kills a task, and no step makes the row of a      *)
(* killed task run.                                                        *)
LEMMA NoNewOrphan ==
    ASSUME TypeOK, TurnInv, [Next]_vars, ~Restart, NEW t \in Turns,
           row'[t].status = "running", pc'[t] = "killed"
    PROVE  row[t].status = "running" /\ pc[t] = "killed" /\ session'[t] = session[t]
<1>1. /\ session \in [Turns -> Sessions] /\ row \in [Turns -> RowType]
      /\ pc \in [Turns -> Phases]
  BY DEF TypeOK, StoreTypes, TaskTypes
<1>2. CASE QuietStep
  BY <1>2 DEF QuietStep
<1>3. ASSUME NEW u \in Turns, TaskStep(u) \/ OutsideWrite(u)
      PROVE  row[t].status = "running" /\ pc[t] = "killed" /\ session'[t] = session[t]
  BY <1>3 DEF TaskStep, TaskEffect, OutsideWrite, Terminal, Active, Working, Titling, Unwinding
<1>4. ASSUME NEW c \in Clients, NEW u \in Turns, CreateTurn(c, u)
      PROVE  row[t].status = "running" /\ pc[t] = "killed" /\ session'[t] = session[t]
  BY <1>1, <1>4 DEF CreateTurn
<1>5. ASSUME NEW s \in Sessions, DeleteSession(s)
      PROVE  row[t].status = "running" /\ pc[t] = "killed" /\ session'[t] = session[t]
  BY <1>1, <1>5 DEF DeleteSession, taskVars
<1> QED
  BY <1>2, <1>3, <1>4, <1>5, StepKinds DEF StepKind

(* Every step keeps it: recovery has at most one orphan to deal with.      *)
LEMMA RefuseStep ==
    ASSUME OneManagerOnly, TypeOK, TurnInv, RefuseInv, [Next]_vars
    PROVE  RefuseInv'
<1>1. /\ call \in [Clients -> CallType] /\ row \in [Turns -> RowType] /\ Idle.op = "idle"
      /\ \A c \in Clients : call[c] \in CallType /\ ManagerOf[c] \in Managers
  BY ConstantsAssumption DEF TypeOK, StoreTypes, Idle
<1>2. CASE Restart
  BY <1>1, <1>2 DEF Restart, RefuseInv, OrphansSeen
<1>3. ASSUME ~Restart, NEW c \in Clients
      PROVE  OrphansSeen(c)'
  <2>1. \A s \in Sessions : \A t \in RunningIn(s)' :
          pc'[t] = "killed" => t \in RunningIn(s) /\ pc[t] = "killed"
    BY <1>3, NoNewOrphan DEF RunningIn
  <2>2. CASE call'[c] = call[c]
    BY <1>1, <2>1, <2>2 DEF RefuseInv, OrphansSeen, CallType
  <2>3. ASSUME NEW x, call' = [call EXCEPT ![c] = x], x.op \notin {"recover", "create"}
        PROVE  OrphansSeen(c)'
    BY <1>1, <2>3 DEF OrphansSeen
  <2>4. CASE ListActiveTurns(c)
    <3>1. call[c].s \in Sessions /\ UNCHANGED <<row, pc, session>>
      BY <1>1, <2>4 DEF ListActiveTurns, CallUnchanged, storeVars, taskVars, CallType
    <3>2. ASSUME NEW t \in RunningIn(call[c].s),
                 call' = [call EXCEPT ![c].op = "recover", ![c].t = t]
          PROVE  OrphansSeen(c)'
      <4>1. call'[c].op = "recover" /\ call'[c].t = t /\ call'[c].s = call[c].s
        BY <1>1, <3>2 DEF CallType
      <4>2. \A u \in RunningIn(call[c].s) : u = t
        BY <3>2 DEF RunningIn, TurnInv, OneRunningTurn
      <4> QED
        BY <3>1, <4>1, <4>2 DEF OrphansSeen, RunningIn
    <3>3. ASSUME call' = [call EXCEPT ![c].op = "create"],
                 \A t \in RunningIn(call[c].s) : Mine(c, t)
          PROVE  OrphansSeen(c)'
      <4>1. call'[c].op = "create" /\ call'[c].s = call[c].s
        BY <1>1, <3>3 DEF CallType
      <4>2. \A t \in RunningIn(call[c].s) : pc[t] \in Active
        BY <1>1, <3>3 DEF Mine, Live, TurnInv, Registered, RunningIn
      <4> QED
        BY <3>1, <4>1, <4>2
        DEF OrphansSeen, RunningIn, Active, Working, Titling, Unwinding
    <3> QED
      BY <2>4, <3>2, <3>3 DEF ListActiveTurns
  <2>5. CASE FailOrphan(c)
    <3>1. /\ call[c].s \in Sessions /\ call[c].t \in Turns /\ call[c].op = "recover"
          /\ UNCHANGED <<pc, session>>
      BY <1>1, <2>5 DEF FailOrphan, CallUnchanged, taskVars, CallType, At
    <3>2. call'[c].op = "create" /\ call'[c].s = call[c].s
      BY <1>1, <2>5 DEF FailOrphan, CallType
    <3>3. row'[call[c].t].status # "running" /\ \A u \in Turns \ {call[c].t} : row'[u] = row[u]
      BY <1>1, <2>5, <3>1 DEF FailOrphan, SetStatus
    <3>4. \A t \in RunningIn(call[c].s)' : t \in RunningIn(call[c].s) /\ t # call[c].t
      BY <2>5, <3>1, <3>2, <3>3 DEF RunningIn, FailOrphan
    <3> QED
      BY <3>1, <3>2, <3>3 DEF OrphansSeen, RefuseInv, RunningIn
  <2>6. CASE RefuseTurn(c) \/ CancelReturns(c) \/ CancelRow(c) \/ \E t \in Turns : CreateTurn(c, t)
    BY <1>1, <2>3, <2>6 DEF RefuseTurn, CancelReturns, CancelRow, CreateTurn
  <2>7. CASE LastUser(c) \/ LastMessage(c) \/ DeleteMessage(c)
    <3>1. call'[c].op \notin {"recover", "create"}
      BY <1>1, <2>7, ZenonT(30) DEF LastUser, LastMessage, DeleteMessage, CallType, At
    <3> QED
      BY <3>1 DEF OrphansSeen
  <2>8. ASSUME NEW s \in Sessions, EnsureSession(c, s) \/ Regenerate(c, s)
        PROVE  OrphansSeen(c)'
    <3>1. \/ \E u \in Sessions : call' = [call EXCEPT ![c] = [@ EXCEPT !.op = "list", !.s = u]]
          \/ call' = [call EXCEPT ![c] = [@ EXCEPT !.op = "lastUser", !.s = s, !.regen = TRUE]]
      BY <2>8 DEF EnsureSession, Regenerate
    <3>2. call'[c].op \in {"list", "lastUser"}
      <4>1. DOMAIN call[c] = {"op", "s", "t", "m", "regen"}
        BY <1>1 DEF CallType
      <4> QED
        BY <1>1, <3>1, <4>1
    <3> QED
      BY <3>2 DEF OrphansSeen
  <2>9. ASSUME NEW t \in Turns, CancelLive(c, t) \/ CancelOrphan(c, t) \/ CheckActiveTurn(c, t)
        PROVE  OrphansSeen(c)'
    <3>1. call'[c].op \notin {"recover", "create"}
      BY <1>1, <2>9 DEF CancelLive, CancelOrphan, CheckActiveTurn, CallType
    <3> QED
      BY <3>1 DEF OrphansSeen
  <2>10. call'[c] = call[c] \/ Pending(c) \/ Request(c)
    BY <1>3, CallChanges
  <2>11. call[c].s \in Sessions
    BY <1>1 DEF CallType
  <2> QED
    BY <2>2, <2>4, <2>5, <2>6, <2>7, <2>8, <2>9, <2>10, <2>11 DEF Pending, Request
<1> QED
  BY <1>2, <1>3 DEF RefuseInv

(* A refused session has a running turn whose task this process runs, or   *)
(* tore down; only RefuseTurn refuses.                                     *)
LEMMA RefusalHasReason ==
    ASSUME OneManagerOnly, TypeOK, TurnInv, RefuseInv, [Next]_vars, NEW c \in Clients,
           Refuses(c), sess[call[c].s] = "live", budget' = budget
    PROVE  \E t \in RunningIn(call[c].s) : pc[t] \in Active \cup {"aborted"}
<1>1. /\ call \in [Clients -> CallType] /\ call[c].op = "create" /\ call'[c].op = "idle"
      /\ pc' = pc /\ pc \in [Turns -> Phases] /\ budget \in [Disturbances -> Nat]
  BY DEF TypeOK, TaskTypes, Refuses
<1>2. ~Restart
  BY <1>1 DEF Restart, Spend, Disturbances
<1>3. Pending(c) \/ Request(c)
  BY <1>1, <1>2, CallChanges
<1>4. \A t \in Turns : ~CreateTurn(c, t)
  BY <1>1 DEF CreateTurn
<1>5. RefuseTurn(c)
  BY <1>1, <1>3, <1>4
  DEF Pending, Request, At, EnsureSession, ListActiveTurns, FailOrphan, LastUser, LastMessage,
      DeleteMessage, CancelReturns, CancelRow, Regenerate, CancelLive, CancelOrphan,
      CheckActiveTurn
<1>6. PICK t \in RunningIn(call[c].s) : TRUE
  BY <1>5 DEF RefuseTurn, MayCreate
<1>7. t \in Turns /\ row[t].status = "running" /\ pc[t] # "killed"
  BY <1>1 DEF RunningIn, RefuseInv, OrphansSeen
<1>8. pc[t] \notin {"none", "ended"}
  BY <1>7 DEF TurnInv, Unborn, EndedTurnIsTerminal, Terminal
<1>9. pc[t] \in Active \cup {"aborted"}
  BY <1>1, <1>7, <1>8 DEF Phases, Over
<1> QED
  BY <1>9

(* At first no call is on its way.                                         *)
LEMMA RefuseInit ==
    ASSUME Init
    PROVE  RefuseInv
<1>1. Idle.op = "idle"
  BY DEF Idle
<1>2. \A c \in Clients : call[c].op = "idle"
  BY <1>1 DEF Init
<1> QED
  BY <1>2 DEF RefuseInv, OrphansSeen

(* With one manager a live session is refused only for a live turn.        *)
THEOREM RefusedOnlyIfLiveHolds == OneManagerOnly => (Spec => RefusedOnlyIfLive)
<1> SUFFICES ASSUME OneManagerOnly PROVE Spec => RefusedOnlyIfLive
  OBVIOUS
<1>1. Init => RefuseInv
  BY RefuseInit
<1>2. TypeOK /\ TurnInv /\ RefuseInv /\ [Next]_vars => RefuseInv'
  BY RefuseStep
<1>3. TypeOK /\ TurnInv /\ RefuseInv /\ [Next]_vars
        => [\A c \in Clients :
              Refuses(c) /\ sess[call[c].s] = "live" /\ budget' = budget
                 => \E t \in RunningIn(call[c].s) : pc[t] \in Active \cup {"aborted"}]_vars
  BY RefusalHasReason
<1> QED
  BY <1>1, <1>2, <1>3, TypeCorrect, TurnInvariant, PTL DEF Spec, RefusedOnlyIfLive

(***************************************************************************)
(* The refinement: the turns table is a lease.                             *)
(***************************************************************************)
Held == [s \in Sessions |-> RunningIn(s)]
Used == {t \in Turns : pc[t] # "none"}

(* A step that creates no turn and after which only the row of t may have  *)
(* stopped running stutters or releases the session of t.                  *)
LEMMA ReleaseOrStutter ==
    ASSUME TypeOK, TurnInv, NEW t \in Turns, session' = session, Used' = Used,
           \A u \in Turns \ {t} : row'[u] = row[u],
           row'[t] = row[t] \/ row'[t].status # "running"
    PROVE  [Lease!Next]_(Lease!vars)
<1> DEFINE q == session[t]
<1>1. q \in Sessions
  BY DEF TypeOK, TaskTypes
<1>2. CASE row'[t].status = row[t].status \/ row[t].status # "running"
  <2>1. \A s \in Sessions : RunningIn(s)' = RunningIn(s)
    BY <1>2 DEF RunningIn
  <2> QED
    BY <2>1 DEF Lease!vars, Used
<1>3. CASE row[t].status = "running" /\ row'[t].status # "running"
  <2>1. RunningIn(q) = {t}
    BY <1>3 DEF RunningIn, TurnInv, OneRunningTurn
  <2>2. RunningIn(q)' = {}
    BY <1>3, <2>1 DEF RunningIn
  <2>3. \A s \in Sessions \ {q} : RunningIn(s)' = RunningIn(s)
    BY <1>3 DEF RunningIn
  <2>4. Held' = [Held EXCEPT ![q] = {}] /\ Held[q] # {}
    BY <1>1, <2>1, <2>2, <2>3 DEF Held
  <2>5. Lease!Release(q)
    BY <2>4 DEF Lease!Release, Held, Used
  <2> QED
    BY <1>1, <2>5 DEF Lease!Next
<1> QED
  BY <1>2, <1>3

(* Every step is a step of the lease, or does not change it.               *)
LEMMA LeaseStep ==
    ASSUME TypeOK, TurnInv, [Next]_vars
    PROVE  [Lease!Next]_(Lease!vars)
<1>1. ASSUME QuietStep PROVE [Lease!Next]_(Lease!vars)
  BY <1>1 DEF QuietStep, Lease!vars, RunningIn
<1>2. ASSUME NEW t \in Turns, TaskStep(t) PROVE [Lease!Next]_(Lease!vars)
  <2>1. pc[t] # "none" /\ pc'[t] # "none" /\ \A u \in Turns \ {t} : pc'[u] = pc[u]
    BY <1>2 DEF TaskStep, TaskEffect, Active, Working, Titling, Unwinding
  <2>2. Used' = Used
    BY <2>1 DEF Used
  <2>3. row'[t] = row[t] \/ row'[t].status # "running"
    BY <1>2 DEF TaskStep, TaskEffect, Terminal
  <2> QED
    BY <1>2, <2>2, <2>3, ReleaseOrStutter DEF TaskStep, TaskEffect
<1>3. ASSUME NEW t \in Turns, OutsideWrite(t) PROVE [Lease!Next]_(Lease!vars)
  <2>1. row'[t] = row[t] \/ row'[t].status # "running"
    BY <1>3 DEF OutsideWrite, Terminal
  <2> QED
    BY <1>3, <2>1, ReleaseOrStutter DEF OutsideWrite, Used
<1>4. ASSUME NEW c \in Clients, NEW t \in Turns, CreateTurn(c, t)
      PROVE  [Lease!Next]_(Lease!vars)
  <2> DEFINE q == call[c].s
  <2>1. /\ row' = [row EXCEPT ![t] = [status |-> "running", why |-> ""]]
        /\ session' = [session EXCEPT ![t] = q] /\ pc' = [pc EXCEPT ![t] = "context"]
        /\ pc[t] = "none" /\ RunningIn(q) = {}
    BY <1>4 DEF CreateTurn, MayCreate
  <2>2. /\ row \in [Turns -> RowType] /\ pc \in [Turns -> Phases] /\ q \in Sessions
        /\ session \in [Turns -> Sessions]
    BY DEF TypeOK, StoreTypes, TaskTypes, CallType
  <2> HIDE DEF q
  <2>3. /\ \A u \in Turns \ {t} : row'[u] = row[u] /\ session'[u] = session[u] /\ pc'[u] = pc[u]
        /\ row'[t].status = "running" /\ session'[t] = q /\ pc'[t] = "context"
    BY <2>1, <2>2
  <2>4. row[t].status # "running"
    BY <2>1 DEF TurnInv, Unborn
  <2>5. ASSUME NEW s \in Sessions
        PROVE  RunningIn(s)' = IF s = q THEN {t} ELSE RunningIn(s)
    <3>1. \A u \in Turns \ {t} : u \in RunningIn(s)' <=> u \in RunningIn(s)
      BY <2>3 DEF RunningIn
    <3>2. t \notin RunningIn(s) /\ (t \in RunningIn(s)' <=> s = q)
      BY <2>3, <2>4 DEF RunningIn
    <3>3. RunningIn(s) \subseteq Turns /\ RunningIn(s)' \subseteq Turns
      BY DEF RunningIn
    <3>4. RunningIn(q) = {}
      BY <2>1
    <3> QED
      BY <3>1, <3>2, <3>3, <3>4
  <2>6. Held' = [Held EXCEPT ![q] = {t}] /\ Held[q] = {}
    <3>1. RunningIn(q) = {}
      BY <2>1
    <3> QED
      BY <2>2, <2>5, <3>1 DEF Held
  <2>7. Used' = Used \cup {t} /\ t \notin Used
    BY <2>1, <2>3 DEF Used
  <2>8. Lease!Acquire(q, t)
    BY <2>6, <2>7 DEF Lease!Acquire, Held, Used
  <2> QED
    BY <2>2, <2>8 DEF Lease!Next
<1>5. ASSUME NEW q \in Sessions, DeleteSession(q) PROVE [Lease!Next]_(Lease!vars)
  <2>1. /\ session' = session /\ pc' = pc
        /\ \A t \in Turns : \/ session[t] # q /\ row'[t] = row[t]
                            \/ session[t] = q /\ row'[t].status = "absent"
    BY <1>5 DEF DeleteSession, taskVars
  <2>2. RunningIn(q)' = {} /\ \A s \in Sessions \ {q} : RunningIn(s)' = RunningIn(s)
    BY <2>1 DEF RunningIn
  <2>3. Used' = Used
    BY <2>1 DEF Used
  <2>4. CASE RunningIn(q) = {}
    <3>1. \A s \in Sessions : RunningIn(s)' = RunningIn(s)
      BY <2>2, <2>4
    <3> QED
      BY <2>3, <3>1 DEF Lease!vars, Used
  <2>5. CASE RunningIn(q) # {}
    <3>1. Held' = [Held EXCEPT ![q] = {}] /\ Held[q] # {}
      BY <2>2, <2>5 DEF Held
    <3> QED
      BY <2>3, <3>1 DEF Lease!Next, Lease!Release, Held, Used
  <2> QED
    BY <2>4, <2>5
<1>6. ASSUME Restart PROVE [Lease!Next]_(Lease!vars)
  <2>1. row' = row /\ session' = session
    BY <1>6 DEF Restart, storeVars
  <2>2. \A t \in Turns : pc'[t] = "none" <=> pc[t] = "none"
    BY <1>6 DEF Restart, Active, Working, Titling, Unwinding
  <2> QED
    BY <2>1, <2>2 DEF Lease!vars, RunningIn
<1> QED
  BY StepKinds, <1>1, <1>2, <1>3, <1>4, <1>5, <1>6 DEF StepKind

(* At first nobody holds a session.                                        *)
LEMMA LeaseInit ==
    ASSUME Init
    PROVE  Lease!Init
<1>1. \A t \in Turns : pc[t] = "none" /\ row[t].status = "absent"
  BY DEF Init
<1>2. \A s \in Sessions : RunningIn(s) = {}
  BY <1>1 DEF RunningIn
<1> QED
  BY <1>1, <1>2 DEF Lease!Init

(* The runtime implements the lease: a turn is given its session once, and *)
(* never again after its row stopped running.                              *)
THEOREM ImplementsLease == OneManagerOnly => (Spec => RefinesLease)
<1> SUFFICES ASSUME OneManagerOnly PROVE Spec => RefinesLease
  OBVIOUS
<1>1. Init => Lease!Init
  BY LeaseInit
<1>2. TypeOK /\ TurnInv /\ [Next]_vars => [Lease!Next]_(Lease!vars)
  BY LeaseStep
<1> QED
  BY <1>1, <1>2, TypeCorrect, TurnInvariant, PTL DEF Spec, RefinesLease, Lease!Spec
=============================================================================
