------------------------------ MODULE TurnStream ------------------------------
(***************************************************************************)
(* The readers of TurnRuntime: subscribe_turn, an asynchronous generator a *)
(* socket drains, and the queues _publish_live_event and the finally block *)
(* of _run_turn feed.  A subscriber is a client that follows one turn and, *)
(* when its connection drops, resumes after the last event it has.         *)
(***************************************************************************)
EXTENDS TurnRuntime

CONSTANTS
    Subs,        \* subscribers
    SubManager   \* the manager their subscribe_turn calls go through

ASSUME SubManagerAssumption == SubManager \in Managers

VARIABLES
    at,      \* where the generator of a subscriber is suspended
    of,      \* the turn it follows
    from,    \* after_seq of the current subscription
    got,     \* seqs of the stored or live events the client has received
    told,    \* status of the DONE synthesized for it, or "none"
    queue    \* _LiveSubscriber.queue: seqs, and Stop for the None sentinel

subVars == <<at, of, from, got, told, queue>>
streamVars == <<vars, subVars>>

Stop == 0
Open == {"backlog", "register", "catchup", "check", "orphan", "live", "closing"}
Follows(b, t) == of[b] = t /\ at[b] = "live"
IsDone(e) == e \in Terminal

StreamInit ==
    /\ Init
    /\ at = [b \in Subs |-> "off"]
    /\ of = [b \in Subs |-> CHOOSE t \in Turns : TRUE]
    /\ from = [b \in Subs |-> 0]
    /\ got = [b \in Subs |-> <<>>]
    /\ told = [b \in Subs |-> "none"]
    /\ queue = [b \in Subs |-> <<>>]

LastSeq(b) == IF got[b] = <<>> THEN 0 ELSE got[b][Len(got[b])]

\* The seqs after the last one yielded, up to n.
UpTo(b, n) == [i \in 1..(IF n > LastSeq(b) THEN n - LastSeq(b) ELSE 0) |-> LastSeq(b) + i]

DoneYielded(b) ==
    \E i \in 1..Len(got[b]) : got[b][i] > from[b] /\ IsDone(events[of[b]][got[b][i]])

Move(b, place) == at' = [at EXCEPT ![b] = place]
Yield(b, seqs) == got' = [got EXCEPT ![b] = @ \o seqs]

(***************************************************************************)
(* What a step of the runtime puts in the queues: every published event,   *)
(* and the sentinel when the turn is unregistered by its task.             *)
(***************************************************************************)
Fresh(t) == [i \in 1..(Len(events'[t]) - Len(events[t])) |-> Len(events[t]) + i]
\* Mutant: the sentinel is not sent.
NoEnding(t) == <<>>

Ending(t) ==
    IF Live(SubManager, t) /\ <<SubManager, t>> \notin executions' THEN <<Stop>> ELSE <<>>

Feed ==
    queue' = [b \in Subs |->
        IF at[b] = "live" THEN queue[b] \o Fresh(of[b]) \o Ending(of[b]) ELSE queue[b]]

RuntimeStep ==
    /\ Operate
    /\ Feed
    /\ UNCHANGED <<at, of, from, got, told>>

(* A restart takes the generators and their queues with it.                *)
RestartStep ==
    /\ Restart
    /\ at' = [b \in Subs |-> IF at[b] \in Open THEN "off" ELSE at[b]]
    /\ queue' = [b \in Subs |-> <<>>]
    /\ UNCHANGED <<of, from, got, told>>

(***************************************************************************)
(* subscribe_turn.                                                         *)
(***************************************************************************)
\* subscribe_turn from the start, or resume_from the last event received.
Subscribe(b, t) ==
    /\ at[b] = "off"
    /\ pc[t] # "none"
    /\ got[b] = <<>> \/ of[b] = t
    /\ Move(b, "backlog")
    /\ of' = [of EXCEPT ![b] = t]
    /\ from' = [from EXCEPT ![b] = LastSeq(b)]
    /\ UNCHANGED <<vars, got, told, queue>>

ReadBacklog(b) ==
    /\ at[b] = "backlog"
    /\ Yield(b, UpTo(b, saved[of[b]]))
    /\ Move(b, "register")
    /\ UNCHANGED <<vars, of, from, told, queue>>

\* Mutant: the buffer is not copied.
RegisterWithoutCopy(b) ==
    /\ at[b] = "register"
    /\ Move(b, IF Live(SubManager, of[b]) THEN "live" ELSE "catchup")
    /\ UNCHANGED <<vars, of, from, got, told, queue>>

\* Under the lock: join the subscribers and copy what is buffered already.
Register(b) ==
    /\ at[b] = "register"
    /\ IF Live(SubManager, of[b])
       THEN Yield(b, UpTo(b, Len(events[of[b]]))) /\ Move(b, "live")
       ELSE UNCHANGED got /\ Move(b, "catchup")
    /\ UNCHANGED <<vars, of, from, told, queue>>

CatchUp(b) ==
    /\ at[b] = "catchup"
    /\ Yield(b, UpTo(b, saved[of[b]]))
    /\ Move(b, "check")
    /\ UNCHANGED <<vars, of, from, told, queue>>

\* Mutant: a missing row is reported as it is.
SynthesizedRaw(t) == row[t].status
\* Mutant: no DONE for a turn that was deleted.
SynthesizedForRowsOnly(t) == IF row[t].status = "absent" THEN "none" ELSE row[t].status
\* Mutant: every end is a success.
SynthesizedOptimistic(t) == "completed"

\* _synthesize_done_event: an absent row counts as completed.
Synthesized(t) == IF row[t].status = "absent" THEN "completed" ELSE row[t].status

\* get_turn, read without a runner: a running row is an orphan, any other
\* ends the subscription, with a synthesized DONE if none was yielded.
CheckTurn(b) ==
    /\ at[b] = "check"
    /\ ~Live(SubManager, of[b])
    /\ IF row[of[b]].status = "running"
       THEN Move(b, "orphan") /\ UNCHANGED told
       ELSE /\ Move(b, "over")
            /\ told' = IF DoneYielded(b) THEN told
                       ELSE [told EXCEPT ![b] = Synthesized(of[b])]
    /\ UNCHANGED <<vars, of, from, got, queue>>

FailOrphanOfSub(b) ==
    /\ at[b] = "orphan"
    /\ SetStatus(of[b], "failed", "interrupted")
    /\ Move(b, "check")
    /\ UNCHANGED <<late, taskVars, memoryVars, call, budget, of, from, got, told, queue>>

TakeEvent(b) ==
    /\ at[b] = "live"
    /\ queue[b] # <<>> /\ Head(queue[b]) # Stop
    /\ IF Head(queue[b]) > LastSeq(b) THEN Yield(b, <<Head(queue[b])>>) ELSE UNCHANGED got
    /\ queue' = [queue EXCEPT ![b] = Tail(@)]
    /\ UNCHANGED <<vars, at, of, from, told>>

TakeSentinel(b) ==
    /\ at[b] = "live"
    /\ queue[b] # <<>> /\ Head(queue[b]) = Stop
    /\ queue' = [queue EXCEPT ![b] = <<>>]
    /\ Move(b, IF DoneYielded(b) THEN "over" ELSE "closing")
    /\ UNCHANGED <<vars, of, from, got, told>>

\* The safety net of the finally block.
Close(b) ==
    /\ at[b] = "closing"
    /\ Move(b, "over")
    /\ told' = IF row[of[b]].status = "running" THEN told
               ELSE [told EXCEPT ![b] = Synthesized(of[b])]
    /\ UNCHANGED <<vars, of, from, got, queue>>

\* The socket goes away; what was sent last may never have arrived.
Drop(b) ==
    /\ at[b] \in Open
    /\ Spend("drop")
    /\ Move(b, "off")
    /\ \E n \in 0..Len(got[b]) : got' = [got EXCEPT ![b] = SubSeq(@, 1, n)]
    /\ queue' = [queue EXCEPT ![b] = <<>>]
    /\ UNCHANGED <<storeVars, late, taskVars, memoryVars, call, of, from, told>>

Reads(b) ==
    \/ ReadBacklog(b) \/ Register(b) \/ CatchUp(b) \/ CheckTurn(b) \/ FailOrphanOfSub(b)
    \/ TakeEvent(b) \/ TakeSentinel(b) \/ Close(b)

StreamNext ==
    \/ RuntimeStep
    \/ RestartStep
    \/ \E b \in Subs : Reads(b) \/ Drop(b) \/ \E t \in Turns : Subscribe(b, t)

StreamSpec == StreamInit /\ [][StreamNext]_streamVars

(* Each generator is resumed when what it awaits is there, and the runtime *)
(* is scheduled as in FairSpec.                                            *)
FairStreamSpec ==
    /\ StreamSpec
    /\ \A t \in Turns : WF_streamVars(Task(t) /\ RuntimeStep)
    /\ WF_streamVars(LateWrite /\ RuntimeStep)
    /\ \A c \in Clients : WF_streamVars(Pending(c) /\ RuntimeStep)
    /\ \A b \in Subs : WF_streamVars(Reads(b))

(***************************************************************************)
(* Properties.                                                             *)
(***************************************************************************)
StreamTypeOK ==
    /\ at \in [Subs -> {"off", "over"} \cup Open]
    /\ of \in [Subs -> Turns]
    /\ from \in [Subs -> Nat]
    /\ got \in [Subs -> Seq(Nat)]
    /\ told \in [Subs -> {"none"} \cup Terminal]
    /\ queue \in [Subs -> Seq(Nat)]

(* A client has events 1..n of its turn, each once and in order, whatever  *)
(* came from the table, the buffer or the queue, and across dropped        *)
(* connections and restarts.                                               *)
NoGapNoDuplicate ==
    \A b \in Subs : \A i \in 1..Len(got[b]) : got[b][i] = i

(* A stream has one DONE, and only session_meta follows it: nothing that   *)
(* happens to a turn after its DONE is streamed as part of the answer.     *)
OneDoneThenMeta ==
    \A t \in Turns : \A i, j \in 1..Len(events[t]) :
        i < j /\ IsDone(events[t][i]) => events[t][j] = "meta"

ToldDone(b) ==
    told[b] # "none" \/ \E i \in 1..Len(got[b]) : IsDone(events[of[b]][got[b][i]])

(* A subscription that ended has told its client that the turn is over.    *)
OverMeansDone ==
    \A b \in Subs : at[b] = "over" => ToldDone(b)

(* DONE(completed) is made up only when the turn's events and answer are   *)
(* stored, or there is no turn any more; a regenerate takes the answer away.*)
NoFalseSuccess ==
    \A b \in Subs : told[b] = "completed" =>
        LET t == of[b] IN
        \/ ~SessionLive(t)
        \/ /\ saved[t] >= flushTo[t] /\ flushTo[t] > 0
           /\ Answers(t) # {} \/ budget["regenerate"] < Budget["regenerate"]

(* A subscription ends once its turn has, or the turn waits for a reply.   *)
SubscriptionEnds ==
    \A b \in Subs : at[b] \in Open ~> at[b] \notin Open \/ pc[of[b]] = "paused"
=============================================================================
