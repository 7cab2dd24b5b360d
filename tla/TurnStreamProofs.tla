--------------------------- MODULE TurnStreamProofs ---------------------------
(***************************************************************************)
(* Proofs about TurnStream, for any number of turns and subscribers: what  *)
(* a client has received is 1..n of its turn's events, a subscription that *)
(* ended told its client so, and no success is made up.  Nothing is        *)
(* assumed of the managers: a subscriber of another manager reads the      *)
(* table, whose rows and events the stories of TurnRuntimeProofs describe. *)
(***************************************************************************)
EXTENDS TurnStream, TurnSafetyProofs, SequenceTheorems

(***************************************************************************)
(* Lists of consecutive numbers.                                           *)
(***************************************************************************)

\* Consecutive numbers after l.
LEMMA Numbers ==
    ASSUME NEW l \in Nat, NEW k \in Nat, NEW s, s = [i \in 1..k |-> l + i]
    PROVE  s \in Seq(Nat) /\ Len(s) = k /\ \A i \in 1..k : s[i] = l + i
<1>1. s \in [1..k -> Nat] /\ \A i \in 1..k : s[i] = l + i
  OBVIOUS
<1>2. s \in Seq(Nat)
  BY <1>1, SeqDef
<1>3. DOMAIN s = 1..k /\ DOMAIN s = 1..Len(s) /\ Len(s) \in Nat
  BY <1>1, <1>2, LenProperties
<1>4. Len(s) = k
  BY <1>3
<1> QED
  BY <1>1, <1>2, <1>4

\* A list 1..n continued by the numbers after n.
LEMMA Continued ==
    ASSUME NEW g \in Seq(Nat), \A i \in 1..Len(g) : g[i] = i, NEW k \in Nat,
           NEW s, s = [i \in 1..k |-> Len(g) + i]
    PROVE  /\ g \o s \in Seq(Nat) /\ Len(g \o s) = Len(g) + k
           /\ \A i \in 1..Len(g \o s) : (g \o s)[i] = i
<1>1. Len(g) \in Nat
  BY LenProperties
<1>2. s \in Seq(Nat) /\ Len(s) = k /\ \A i \in 1..k : s[i] = Len(g) + i
  BY <1>1, Numbers
<1>3. /\ g \o s \in Seq(Nat) /\ Len(g \o s) = Len(g) + k
      /\ \A i \in 1..Len(g) + Len(s) :
           (g \o s)[i] = IF i <= Len(g) THEN g[i] ELSE s[i - Len(g)]
  BY <1>2, ConcatProperties
<1>4. ASSUME NEW i \in 1..Len(g) + k
      PROVE  (g \o s)[i] = i
  <2>1. CASE i <= Len(g)
    BY <1>1, <1>2, <1>3, <2>1
  <2>2. CASE i > Len(g)
    <3>1. i - Len(g) \in 1..k
      BY <1>1, <2>2
    <3> QED
      BY <1>1, <1>2, <1>3, <2>2, <3>1
  <2> QED
    BY <1>1, <2>1, <2>2
<1> QED
  BY <1>3, <1>4

(***************************************************************************)
(* The runtime below the subscribers.  A reader does nothing to it, except *)
(* that it may mark an orphan as failed, and that its connection may drop. *)
(***************************************************************************)
RuntimeInv == TypeOK /\ StoryInv /\ AnswerStory

Beside ==
    /\ Aside
    /\ call' = call
    /\ budget'["regenerate"] = budget["regenerate"]
    /\ TypeOK'

(* A step of a subscriber is a step beside the runtime.                    *)
LEMMA SubscriberIsBeside ==
    ASSUME TypeOK, StreamTypeOK, NEW b \in Subs,
           Reads(b) \/ Drop(b) \/ \E t \in Turns : Subscribe(b, t)
    PROVE  Beside
<1>1. budget \in [Disturbances -> Nat] /\ "regenerate" \in Disturbances /\ "drop" \in Disturbances
  BY DEF TypeOK, Disturbances
<1>2. CASE UNCHANGED vars
  <2>1. Aside
    BY <1>1, <1>2, QuietIsAside DEF vars, storeVars, memoryVars
  <2>2. TypeOK'
    BY <1>2, TypeStep
  <2> QED
    BY <1>2, <2>1, <2>2 DEF Beside, vars
<1>3. CASE FailOrphanOfSub(b)
  <2>1. /\ of[b] \in Turns /\ "failed" \in Terminal /\ "interrupted" \in Reasons
        /\ SetStatus(of[b], "failed", "interrupted") /\ StoreTypes
        /\ UNCHANGED <<late, taskVars, memoryVars, call, budget>>
    BY <1>3 DEF StreamTypeOK, FailOrphanOfSub, Terminal, Reasons, TypeOK
  <2>2. Aside
    BY <1>1, <2>1, StatusIsAside DEF memoryVars
  <2>3. StoreTypes'
    BY <2>1, SetStatusType
  <2>4. TypeOK'
    BY <2>1, <2>3 DEF TypeOK, LateType, TaskTypes, taskVars, MemoryTypes, memoryVars
  <2> QED
    BY <2>1, <2>2, <2>4 DEF Beside
<1>4. CASE Drop(b)
  <2>1. /\ UNCHANGED <<storeVars, late, taskVars, memoryVars, call>> /\ Spend("drop")
        /\ budget'["regenerate"] = budget["regenerate"]
    BY <1>1, <1>4 DEF Drop, Spend
  <2>2. Aside
    BY <1>1, <2>1, QuietIsAside DEF storeVars, memoryVars
  <2>3. budget' \in [Disturbances -> Nat]
    BY <1>1, <2>1, SpendType
  <2>4. TypeOK'
    BY <2>1, <2>3
    DEF TypeOK, StoreTypes, storeVars, LateType, TaskTypes, taskVars, MemoryTypes, memoryVars
  <2> QED
    BY <2>1, <2>2, <2>4 DEF Beside
<1> QED
  BY <1>2, <1>3, <1>4
  DEF Reads, Subscribe, ReadBacklog, Register, CatchUp, CheckTurn, TakeEvent, TakeSentinel, Close

(* Each step is one of the runtime or one beside it.                       *)
LEMMA StreamStepKinds ==
    ASSUME TypeOK, StreamTypeOK, [StreamNext]_streamVars
    PROVE  [Next]_vars \/ Beside
<1>1. CASE UNCHANGED streamVars
  BY <1>1 DEF streamVars
<1>2. CASE RuntimeStep \/ RestartStep
  BY <1>2 DEF RuntimeStep, RestartStep, Next
<1> QED
  BY <1>1, <1>2, SubscriberIsBeside DEF StreamNext

(* The stories go on under the subscribers.                                *)
LEMMA RuntimeGoesOn ==
    ASSUME RuntimeInv, StreamTypeOK, [StreamNext]_streamVars
    PROVE  RuntimeInv'
<1>1. CASE [Next]_vars
  BY <1>1, TypeStep, StoryStep, AnswerStep DEF RuntimeInv
<1>2. CASE Beside
  <2>1. RegenerateStory'
    BY <1>2 DEF Beside, RuntimeInv, StoryInv, RegenerateStory, Regenerated
  <2> QED
    BY <1>2, <2>1, AsideKeepsStory, AsideKeepsAnswer DEF Beside, RuntimeInv
<1> QED
  BY <1>1, <1>2, StreamStepKinds DEF RuntimeInv

(***************************************************************************)
(* Type correctness of the subscribers.                                    *)
(***************************************************************************)
LEMMA LastType ==
    ASSUME StreamTypeOK, NEW b \in Subs
    PROVE  LastSeq(b) \in Nat
<1>1. got[b] \in Seq(Nat)
  BY DEF StreamTypeOK
<1>2. CASE got[b] = <<>>
  BY <1>2 DEF LastSeq
<1>3. CASE got[b] # <<>>
  <2>1. Len(got[b]) \in 1..Len(got[b])
    BY <1>1, <1>3, EmptySeq, LenProperties
  <2> QED
    BY <1>1, <1>3, <2>1, ElementOfSeq DEF LastSeq
<1> QED
  BY <1>2, <1>3

LEMMA UpToType ==
    ASSUME StreamTypeOK, NEW b \in Subs, NEW n \in Nat
    PROVE  UpTo(b, n) \in Seq(Nat)
<1>1. PICK l \in Nat : l = LastSeq(b)
  BY LastType
<1>2. PICK k \in Nat : k = IF n > l THEN n - l ELSE 0
  BY <1>1
<1>3. UpTo(b, n) = [i \in 1..k |-> l + i]
  BY <1>1, <1>2 DEF UpTo
<1> QED
  BY <1>3, Numbers

LEMMA YieldType ==
    ASSUME StreamTypeOK, NEW b \in Subs, NEW s \in Seq(Nat), Yield(b, s)
    PROVE  got' \in [Subs -> Seq(Nat)]
<1>1. got[b] \o s \in Seq(Nat)
  BY ConcatProperties DEF StreamTypeOK
<1> QED
  BY <1>1 DEF Yield, StreamTypeOK

LEMMA FeedType ==
    ASSUME TypeOK, TypeOK', StreamTypeOK, Feed
    PROVE  queue' \in [Subs -> Seq(Nat)]
<1> SUFFICES ASSUME NEW b \in Subs
             PROVE  queue[b] \o Fresh(of[b]) \o Ending(of[b]) \in Seq(Nat) /\ queue[b] \in Seq(Nat)
  BY DEF Feed
<1>1. queue[b] \in Seq(Nat) /\ of[b] \in Turns
  BY DEF StreamTypeOK
<1>2. Fresh(of[b]) \in Seq(Nat)
  <2>1. Len(events[of[b]]) \in Nat /\ Len(events'[of[b]]) \in Nat
    BY <1>1, LenProperties DEF TypeOK, TaskTypes
  <2>2. PICK l \in Nat : l = Len(events[of[b]])
    BY <2>1
  <2> DEFINE d == Len(events'[of[b]]) - l
  <2>3. Fresh(of[b]) = [i \in 1..d |-> l + i]
    BY <2>2 DEF Fresh
  <2>4. PICK k \in Nat : 1..d = 1..k
    <3>1. d \in Int
      BY <2>1
    <3> HIDE DEF d
    <3>2. d < 0 => 1..d = 1..0
      BY <3>1
    <3> QED
      BY <3>1, <3>2
  <2>5. Fresh(of[b]) = [i \in 1..k |-> l + i]
    BY <2>3, <2>4
  <2> QED
    BY <2>5, Numbers
<1>3. Ending(of[b]) \in Seq(Nat)
  BY DEF Ending, Stop
<1> QED
  BY <1>1, <1>2, <1>3, ConcatProperties

(* Every step keeps the types of the subscribers.                          *)
LEMMA StreamTypeStep ==
    ASSUME RuntimeInv, StreamTypeOK, [StreamNext]_streamVars
    PROVE  StreamTypeOK'
<1>1. TypeOK /\ TypeOK' /\ row \in [Turns -> RowType] /\ saved \in [Turns -> Nat]
  BY RuntimeGoesOn DEF RuntimeInv, TypeOK, StoreTypes
<1>2. CASE UNCHANGED streamVars
  BY <1>2 DEF streamVars, subVars, StreamTypeOK
<1>3. CASE RuntimeStep
  BY <1>1, <1>3, FeedType DEF RuntimeStep, StreamTypeOK
<1>4. CASE RestartStep
  BY <1>4 DEF RestartStep, StreamTypeOK
<1>5. ASSUME NEW b \in Subs, NEW t \in Turns, Subscribe(b, t)
      PROVE  StreamTypeOK'
  BY <1>5, LastType DEF Subscribe, StreamTypeOK, Move, Open
<1>6. ASSUME NEW b \in Subs, Drop(b)
      PROVE  StreamTypeOK'
  <2>1. PICK n \in 0..Len(got[b]) : got' = [got EXCEPT ![b] = SubSeq(@, 1, n)]
    BY <1>6 DEF Drop
  <2>2. got[b] \in Seq(Nat) /\ Len(got[b]) \in Nat
    BY LenProperties DEF StreamTypeOK
  <2>3. SubSeq(got[b], 1, n) \in Seq(Nat)
    <3>1. \A i \in 1..n : got[b][i] \in Nat
      BY <2>2, ElementOfSeq
    <3> QED
      BY <2>2, <3>1, SubSeqProperties
  <2> QED
    BY <1>6, <2>1, <2>3 DEF Drop, StreamTypeOK, Move
<1>7. ASSUME NEW b \in Subs, Reads(b)
      PROVE  StreamTypeOK'
  <2>1. of[b] \in Turns /\ saved[of[b]] \in Nat /\ Len(events[of[b]]) \in Nat
        /\ row[of[b]] \in RowType
    BY <1>1, LenProperties DEF StreamTypeOK, TypeOK, TaskTypes
  <2>2. CASE ReadBacklog(b) \/ CatchUp(b)
    BY <2>1, <2>2, UpToType, YieldType DEF ReadBacklog, CatchUp, StreamTypeOK, Move, Open
  <2>3. CASE Register(b)
    BY <2>1, <2>3, UpToType, YieldType DEF Register, StreamTypeOK, Move, Open
  <2>4. CASE CheckTurn(b)
    <3>1. row[of[b]].status # "running" => Synthesized(of[b]) \in Terminal
      BY <2>1 DEF Synthesized, RowType, Terminal
    <3> QED
      BY <2>4, <3>1 DEF CheckTurn, StreamTypeOK, Move, Open
  <2>5. CASE FailOrphanOfSub(b)
    BY <2>5 DEF FailOrphanOfSub, StreamTypeOK, Move, Open
  <2>6. CASE TakeEvent(b)
    <3>1. /\ queue[b] \in Seq(Nat) /\ queue[b] # <<>>
          /\ Head(queue[b]) \in Nat /\ Tail(queue[b]) \in Seq(Nat)
      BY <2>6, HeadTailProperties DEF TakeEvent, StreamTypeOK
    <3>2. queue' \in [Subs -> Seq(Nat)]
      BY <2>6, <3>1 DEF TakeEvent, StreamTypeOK
    <3>3. <<Head(queue[b])>> \in Seq(Nat)
      BY <3>1
    <3>4. got' \in [Subs -> Seq(Nat)]
      BY <2>6, <3>3, YieldType DEF TakeEvent, StreamTypeOK
    <3> QED
      BY <2>6, <3>2, <3>4 DEF TakeEvent, StreamTypeOK
  <2>7. CASE TakeSentinel(b)
    BY <2>7 DEF TakeSentinel, StreamTypeOK, Move, Open
  <2>8. CASE Close(b)
    <3>1. row[of[b]].status # "running" => Synthesized(of[b]) \in Terminal
      BY <2>1 DEF Synthesized, RowType, Terminal
    <3> QED
      BY <2>8, <3>1 DEF Close, StreamTypeOK, Move
  <2> QED
    BY <1>7, <2>2, <2>3, <2>4, <2>5, <2>6, <2>7, <2>8 DEF Reads
<1> QED
  BY <1>2, <1>3, <1>4, <1>5, <1>6, <1>7 DEF StreamNext

(* No subscriber has done anything at first.                               *)
LEMMA StreamTypeInit ==
    ASSUME StreamInit
    PROVE  StreamTypeOK
<1>1. (CHOOSE t \in Turns : TRUE) \in Turns
  BY ConstantsAssumption
<1> QED
  BY <1>1 DEF StreamInit, StreamTypeOK

(* Type correctness of the subscribers, and the stories of the turns they  *)
(* follow.                                                                 *)
THEOREM StreamTypeCorrect == StreamSpec => [](StreamTypeOK /\ RuntimeInv)
<1>1. StreamInit => StreamTypeOK /\ RuntimeInv
  BY StreamTypeInit, TypeInit, StoryInit, AnswerInit DEF StreamInit, RuntimeInv
<1>2. StreamTypeOK /\ RuntimeInv /\ [StreamNext]_streamVars => StreamTypeOK' /\ RuntimeInv'
  BY StreamTypeStep, RuntimeGoesOn
<1> QED
  BY <1>1, <1>2, PTL DEF StreamSpec

(***************************************************************************)
(* What a subscriber can rely on in any step: the events it has seen stay  *)
(* where they are, a turn that is over says no more, and what was stored   *)
(* of a turn stays stored.                                                 *)
(***************************************************************************)
Extends(t) ==
    /\ Len(events[t]) <= Len(events'[t])
    /\ \A i \in 1..Len(events[t]) : events'[t][i] = events[t][i]

Stored(t) == Flushed(t) /\ Kept(t)

GoesOn(t) ==
    /\ Extends(t)
    /\ pc[t] \in Over => pc'[t] = pc[t] /\ events'[t] = events[t]
    /\ pc[t] # "none" => pc'[t] # "none" /\ owner'[t] = owner[t]
    /\ pc[t] # "none" /\ Stored(t) => Stored(t)'

(* A task only appends to its events.                                      *)
LEMMA EventsExtend ==
    ASSUME TypeOK, NEW t \in Turns, Task(t) \/ Interrupt(t)
    PROVE  Extends(t)
<1>1. PICK e : e = events[t]
  OBVIOUS
<1>2. events \in [Turns -> Seq(EventTypes)] /\ e \in Seq(EventTypes) /\ Len(e) \in Nat
  BY <1>1 DEF TypeOK, TaskTypes
<1>3. CASE UNCHANGED events
  BY <1>1, <1>2, <1>3 DEF Extends
<1>4. ASSUME NEW x \in EventTypes, Publish(t, <<x>>)
      PROVE  Extends(t)
  <2>1. events'[t] = e \o <<x>>
    BY <1>1, <1>2, <1>4 DEF Publish
  <2> QED
    BY <1>1, <1>2, <2>1, OneMore DEF Extends
<1>5. ASSUME NEW x \in EventTypes, NEW y \in EventTypes, Publish(t, <<x, y>>)
      PROVE  Extends(t)
  <2>1. events'[t] = e \o <<x, y>>
    BY <1>1, <1>2, <1>5 DEF Publish
  <2> QED
    BY <1>1, <1>2, <2>1, TwoMore DEF Extends
<1>6. \/ UNCHANGED events
      \/ Publish(t, <<"output">>) \/ Publish(t, <<"meta">>) \/ Publish(t, <<"completed">>)
      \/ Publish(t, <<"error", "failed">>) \/ Publish(t, <<"error", "cancelled">>)
  BY DEF Task, PersistUserMessage, MessageRefused, StreamOutput, AskUser, TakeReply,
     StreamEnds, RunFails, PersistAnswer, FlushEvent, MarkCompleted, CheckTitle, WriteTitle,
     PersistPartialAnswer, MarkUnwound, EnterFailure, Interrupt, EnterCancel
<1> QED
  BY <1>3, <1>4, <1>5, <1>6 DEF EventTypes, Terminal

(* An untouched turn goes on.                                              *)
LEMMA UntouchedGoesOn ==
    ASSUME TypeOK, NEW t \in Turns, pc'[t] = pc[t], events'[t] = events[t],
           owner'[t] = owner[t], Stored(t) /\ pc[t] # "none" => Stored(t)'
    PROVE  GoesOn(t)
<1>1. Len(events[t]) \in Nat
  BY LenProperties DEF TypeOK, TaskTypes
<1> QED
  BY <1>1 DEF GoesOn, Extends

LEMMA AsideGoesOn ==
    ASSUME TypeOK, TypeOK', StoryInv, Aside, NEW t \in Turns
    PROVE  GoesOn(t)
<1>1. pc'[t] = pc[t] /\ events'[t] = events[t] /\ owner'[t] = owner[t]
      /\ saved'[t] = saved[t] /\ flushTo'[t] = flushTo[t]
  BY DEF Aside
<1>2. Flushed(t) => Flushed(t)'
  BY <1>1 DEF Flushed, Aside
<1>3. Kept(t) /\ pc[t] # "none" => Kept(t)'
  BY KeptInStep
<1> QED
  BY <1>1, <1>2, <1>3, UntouchedGoesOn DEF Stored

LEMMA OnlyTurnGoesOn ==
    ASSUME TypeOK, TypeOK', StoryInv, NEW u \in Turns, Task(u) \/ Interrupt(u), OnlyTurn(u),
           NEW t \in Turns
    PROVE  GoesOn(t)
<1>1. Kept(t) /\ pc[t] # "none" => Kept(t)'
  BY KeptInStep
<1>2. owner'[t] = owner[t]
  BY DEF OnlyTurn
<1>3. CASE t = u
  <2>1. Extends(t)
    BY <1>3, EventsExtend
  <2>2. pc[t] \notin Over \cup {"none"} /\ pc'[t] # "none" /\ pc[t] \in Active
    BY <1>3 DEF OnlyTurn, Active, Working, Titling, Unwinding, Over
  <2>3. Flushed(t) => Flushed(t)'
    BY <1>3, <2>2, TaskKeepsFlushed, InterruptKeepsFlushed DEF StoryInv
  <2> QED
    BY <1>1, <1>2, <2>1, <2>2, <2>3 DEF GoesOn, Stored
<1>4. CASE t # u
  <2>1. /\ pc'[t] = pc[t] /\ events'[t] = events[t] /\ saved'[t] = saved[t]
        /\ flushTo'[t] = flushTo[t] /\ row'[t] = row[t]
    BY <1>4 DEF OnlyTurn
  <2>2. Flushed(t) => Flushed(t)'
    BY <2>1 DEF Flushed
  <2> QED
    BY <1>1, <1>2, <2>1, <2>2, UntouchedGoesOn DEF Stored
<1> QED
  BY <1>3, <1>4

LEMMA CreateTurnGoesOn ==
    ASSUME TypeOK, TypeOK', StoryInv, NEW c \in Clients, NEW u \in Turns, CreateTurn(c, u),
           NEW t \in Turns
    PROVE  GoesOn(t)
<1>1. /\ pc \in [Turns -> Phases] /\ events \in [Turns -> Seq(EventTypes)]
      /\ row \in [Turns -> RowType] /\ session \in [Turns -> Sessions]
      /\ owner \in [Turns -> Managers] /\ Len(events'[t]) \in Nat
  BY LenProperties DEF TypeOK, TaskTypes, StoreTypes
<1>2. CASE t = u
  <2>1. pc[t] = "none" /\ events[t] = <<>>
    BY <1>2 DEF CreateTurn, StoryInv, StoryOf, Story
  <2>2. pc[t] \notin Over
    BY <2>1 DEF Over
  <2>3. Len(events[t]) = 0
    BY <2>1
  <2>4. Extends(t)
    BY <1>1, <2>3 DEF Extends
  <2> QED
    BY <2>1, <2>2, <2>4 DEF GoesOn
<1>3. CASE t # u
  <2>1. /\ pc'[t] = pc[t] /\ events'[t] = events[t] /\ row'[t] = row[t] /\ owner'[t] = owner[t]
        /\ session'[t] = session[t] /\ UNCHANGED <<sess, msgs, saved, flushTo, budget>>
    BY <1>1, <1>3 DEF CreateTurn, Publish
  <2>2. Stored(t) => Stored(t)'
    BY <2>1 DEF Stored, Flushed, Kept, SessionLive, Answers, Regenerated
  <2> QED
    BY <2>1, <2>2, UntouchedGoesOn
<1> QED
  BY <1>2, <1>3

LEMMA DeleteSessionGoesOn ==
    ASSUME TypeOK, TypeOK', NEW s \in Sessions, DeleteSession(s), NEW t \in Turns
    PROVE  GoesOn(t)
<1>1. /\ session[t] \in Sessions /\ "regenerate" \in Disturbances
      /\ budget \in [Disturbances -> Nat] /\ budget' \in [Disturbances -> Nat]
      /\ Budget \in [Disturbances -> Nat]
      /\ sess \in [Sessions -> {"unused", "live", "deleted"}]
      /\ msgs \in [Sessions -> Seq(MessageType)]
  BY ConstantsAssumption DEF TypeOK, StoreTypes, TaskTypes, Disturbances
<1>2. UNCHANGED taskVars /\ budget'["regenerate"] = budget["regenerate"]
  BY <1>1 DEF DeleteSession, Spend, Disturbances
<1>3. /\ row'[t].status = "absent" \/ (row'[t] = row[t] /\ saved'[t] = saved[t])
      /\ \/ sess'[session[t]] = "deleted"
         \/ sess'[session[t]] = sess[session[t]] /\ msgs'[session[t]] = msgs[session[t]]
  BY <1>1 DEF DeleteSession
<1>4. Flushed(t) => Flushed(t)'
  BY <1>2, <1>3 DEF Flushed, taskVars
<1>5. Kept(t) => Kept(t)'
  <2>1. /\ budget["regenerate"] \in Int /\ budget'["regenerate"] \in Int
        /\ Budget["regenerate"] \in Int /\ session'[t] = session[t]
        /\ budget'["regenerate"] <= budget["regenerate"]
    BY <1>1, <1>2 DEF taskVars
  <2>2. CASE sess'[session[t]] = "deleted"
    BY <2>1, <2>2, KeptStays
  <2>3. CASE sess'[session[t]] = sess[session[t]] /\ msgs'[session[t]] = msgs[session[t]]
    BY <2>1, <2>3, KeptStays
  <2> QED
    BY <1>3, <2>2, <2>3
<1> QED
  BY <1>2, <1>4, <1>5, UntouchedGoesOn DEF Stored, taskVars

LEMMA RestartGoesOn ==
    ASSUME TypeOK, Restart, NEW t \in Turns
    PROVE  GoesOn(t)
<1>1. /\ UNCHANGED <<storeVars, session, owner, events, flushTo>>
      /\ pc'[t] = IF pc[t] \in Active THEN "killed" ELSE pc[t]
      /\ budget'["regenerate"] = budget["regenerate"] /\ Len(events[t]) \in Nat
  BY LenProperties DEF Restart, Spend, Disturbances, TypeOK, TaskTypes
<1>2. Stored(t) => Stored(t)'
  BY <1>1 DEF Stored, Flushed, Kept, SessionLive, Answers, Regenerated, storeVars
<1>3. pc[t] \in Over => pc[t] \notin Active
  BY DEF Over, Active, Working, Titling, Unwinding
<1> QED
  BY <1>1, <1>2, <1>3 DEF GoesOn, Extends

(* Every turn goes on in every step.                                       *)
LEMMA TurnsGoOn ==
    ASSUME RuntimeInv, StreamTypeOK, [StreamNext]_streamVars, NEW t \in Turns
    PROVE  GoesOn(t)
<1>1. TypeOK /\ TypeOK' /\ StoryInv
  BY RuntimeGoesOn DEF RuntimeInv
<1>2. StoryKind
  <2>1. CASE [Next]_vars
    BY <1>1, <2>1, StoryKinds DEF StoryInv
  <2>2. CASE Beside
    BY <2>2 DEF Beside, StoryKind, OperateKind
  <2> QED
    BY <1>1, <2>1, <2>2, StreamStepKinds
<1> QED
  BY <1>1, <1>2, AsideGoesOn, OnlyTurnGoesOn, CreateTurnGoesOn, DeleteSessionGoesOn, RestartGoesOn
  DEF StoryKind, OperateKind

(* Only a restart kills a task.                                            *)
LEMMA NotKilled ==
    ASSUME RuntimeInv, Operate, NEW t \in Turns, pc[t] # "killed"
    PROVE  pc'[t] # "killed"
<1>1. OperateKind /\ pc \in [Turns -> Phases]
  BY OperateKinds DEF RuntimeInv, StoryInv, TypeOK, TaskTypes
<1>2. CASE Aside
  BY <1>2 DEF Aside
<1>3. ASSUME NEW u \in Turns, OnlyTurn(u)
      PROVE  pc'[t] # "killed"
  BY <1>3 DEF OnlyTurn
<1>4. ASSUME NEW c \in Clients, NEW u \in Turns, CreateTurn(c, u)
      PROVE  pc'[t] # "killed"
  BY <1>1, <1>4 DEF CreateTurn
<1>5. ASSUME NEW s \in Sessions, DeleteSession(s)
      PROVE  pc'[t] # "killed"
  BY <1>5 DEF DeleteSession, taskVars
<1> QED
  BY <1>1, <1>2, <1>3, <1>4, <1>5 DEF OperateKind

(***************************************************************************)
(* The queue of a live subscriber.                                         *)
(***************************************************************************)
\* The last w of e events.
Rest(w, e) == [i \in 1..w |-> e - w + i]

(* More events are published.                                              *)
LEMMA RestGrows ==
    ASSUME NEW e \in Nat, NEW w \in 0..e, NEW d \in Nat
    PROVE  /\ Rest(w, e) \in Seq(Nat)
           /\ Rest(w, e) \o [i \in 1..d |-> e + i] = Rest(w + d, e + d)
<1>1. PICK l \in Nat : l = e - w
  OBVIOUS
<1>2. w \in Nat /\ w + d \in Nat /\ e + d - (w + d) = l /\ e = l + w
  BY <1>1
<1>3. PICK a : a = Rest(w, e)
  OBVIOUS
<1>4. a \in Seq(Nat) /\ Len(a) = w /\ \A i \in 1..w : a[i] = l + i
  BY <1>1, <1>2, <1>3, Numbers DEF Rest
<1>5. PICK c : c = Rest(w + d, e + d)
  OBVIOUS
<1>6. c \in Seq(Nat) /\ Len(c) = w + d /\ \A i \in 1..(w + d) : c[i] = l + i
  BY <1>2, <1>5, Numbers DEF Rest
<1>7. PICK s : s = [i \in 1..d |-> e + i]
  OBVIOUS
<1>8. s \in Seq(Nat) /\ Len(s) = d /\ \A i \in 1..d : s[i] = l + w + i
  BY <1>2, <1>7, Numbers
<1>9. /\ a \o s \in Seq(Nat) /\ Len(a \o s) = w + d
      /\ \A i \in 1..(w + d) : (a \o s)[i] = IF i <= w THEN a[i] ELSE s[i - w]
  <2>1. /\ a \o s \in Seq(Nat) /\ Len(a \o s) = Len(a) + Len(s)
        /\ \A i \in 1..Len(a) + Len(s) :
             (a \o s)[i] = IF i <= Len(a) THEN a[i] ELSE s[i - Len(a)]
    BY <1>4, <1>8, ConcatProperties
  <2> QED
    BY <1>2, <1>4, <1>8, <2>1
<1>10. ASSUME NEW i \in 1..(w + d)
       PROVE  (a \o s)[i] = c[i]
  <2>1. i \in Nat /\ c[i] = l + i
    BY <1>2, <1>6
  <2>2. CASE i <= w
    <3>1. i \in 1..w
      BY <1>2, <2>1, <2>2
    <3> QED
      BY <1>4, <1>9, <2>1, <2>2, <3>1
  <2>3. CASE i > w
    <3>1. i - w \in 1..d /\ ~(i <= w)
      BY <1>2, <2>1, <2>3
    <3>2. (a \o s)[i] = s[i - w]
      BY <1>9, <3>1
    <3>3. s[i - w] = l + w + (i - w)
      BY <1>8, <3>1
    <3> QED
      BY <1>2, <2>1, <3>2, <3>3
  <2>4. i <= w \/ i > w
    BY <1>2, <2>1
  <2> QED
    BY <2>2, <2>3, <2>4
<1>11. a \o s = c
  BY <1>6, <1>9, <1>10, SeqEqual
<1> QED
  BY <1>3, <1>4, <1>5, <1>7, <1>11

(* The oldest of them is taken.                                            *)
LEMMA RestTaken ==
    ASSUME NEW e \in Nat, NEW w \in 1..e, NEW s \in Seq(Nat)
    PROVE  /\ Rest(w, e) \o s # <<>>
           /\ Head(Rest(w, e) \o s) = e - w + 1
           /\ Tail(Rest(w, e) \o s) = Rest(w - 1, e) \o s
<1>1. PICK l \in Nat : l = e - w
  OBVIOUS
<1>2. w \in Nat /\ w > 0 /\ w - 1 \in Nat /\ e - (w - 1) = l + 1
  BY <1>1
<1>3. PICK a : a = Rest(w, e)
  OBVIOUS
<1>4. a \in Seq(Nat) /\ Len(a) = w /\ \A i \in 1..w : a[i] = l + i
  BY <1>1, <1>2, <1>3, Numbers DEF Rest
<1>5. PICK c : c = Rest(w - 1, e)
  OBVIOUS
<1>6. c \in Seq(Nat) /\ Len(c) = w - 1 /\ \A i \in 1..(w - 1) : c[i] = l + 1 + i
  BY <1>2, <1>5, Numbers DEF Rest
<1>7. PICK m \in Nat : m = Len(s)
  BY LenProperties
<1>8. PICK q : q = a \o s
  OBVIOUS
<1>9. /\ q \in Seq(Nat) /\ Len(q) = w + m
      /\ \A i \in 1..(w + m) : q[i] = IF i <= w THEN a[i] ELSE s[i - w]
  <2>1. /\ a \o s \in Seq(Nat) /\ Len(a \o s) = Len(a) + Len(s)
        /\ \A i \in 1..Len(a) + Len(s) :
             (a \o s)[i] = IF i <= Len(a) THEN a[i] ELSE s[i - Len(a)]
    BY <1>4, ConcatProperties
  <2> QED
    BY <2>1, <1>4, <1>7, <1>8
<1>10. PICK r : r = c \o s
  OBVIOUS
<1>11. /\ r \in Seq(Nat) /\ Len(r) = w - 1 + m
      /\ \A i \in 1..(w - 1 + m) : r[i] = IF i <= w - 1 THEN c[i] ELSE s[i - (w - 1)]
  <2>1. /\ c \o s \in Seq(Nat) /\ Len(c \o s) = Len(c) + Len(s)
        /\ \A i \in 1..Len(c) + Len(s) :
             (c \o s)[i] = IF i <= Len(c) THEN c[i] ELSE s[i - Len(c)]
    BY <1>6, ConcatProperties
  <2> QED
    BY <2>1, <1>6, <1>7, <1>10
<1>12. q # <<>>
  BY <1>2, <1>9, EmptySeq
<1>13. Head(q) = l + 1
  <2>1. Head(q) = q[1]
    BY <1>9, <1>12
  <2>2. q[1] = l + 1
    BY <1>2, <1>4, <1>9
  <2> QED
    BY <2>1, <2>2
<1>14. /\ Tail(q) \in Seq(Nat) /\ Len(Tail(q)) = w - 1 + m
      /\ \A i \in 1..Len(Tail(q)) : Tail(q)[i] = q[i + 1]
  BY <1>2, <1>9, <1>12, HeadTailProperties
<1>15. ASSUME NEW i \in 1..Len(Tail(q))
      PROVE  Tail(q)[i] = r[i]
  <2>1. i \in 1..(w - 1 + m) /\ Tail(q)[i] = q[i + 1]
    BY <1>14
  <2>2. i + 1 \in 1..(w + m)
    BY <1>2, <2>1
  <2>3. CASE i <= w - 1
    <3>1. i \in 1..(w - 1) /\ i + 1 \in 1..w
      BY <1>2, <2>1, <2>3
    <3>2. q[i + 1] = l + (i + 1)
      BY <1>4, <1>9, <2>2, <3>1
    <3>3. r[i] = l + 1 + i
      BY <1>6, <1>11, <2>1, <2>3, <3>1
    <3> QED
      BY <2>1, <3>1, <3>2, <3>3
  <2>4. CASE i > w - 1
    <3>1. ~(i + 1 <= w) /\ ~(i <= w - 1) /\ i + 1 - w = i - (w - 1)
      BY <1>2, <2>1, <2>4
    <3>2. q[i + 1] = s[i + 1 - w]
      BY <1>9, <2>2, <3>1
    <3>3. r[i] = s[i - (w - 1)]
      BY <1>11, <2>1, <3>1
    <3> QED
      BY <2>1, <3>1, <3>2, <3>3
  <2>5. i <= w - 1 \/ i > w - 1
    BY <1>2, <2>1
  <2> QED
    BY <2>3, <2>4, <2>5
<1>16. Tail(q) = r
  BY <1>11, <1>14, <1>15, SeqEqual
<1> QED
  BY <1>1, <1>3, <1>5, <1>8, <1>10, <1>12, <1>13, <1>16
(***************************************************************************)
(* The invariant of a subscriber.                                          *)
(***************************************************************************)
Received(b) ==
    /\ \A i \in 1..Len(got[b]) : got[b][i] = i
    /\ Len(got[b]) <= Len(events[of[b]])

EndMark(t) == IF pc[t] \in Active THEN <<>> ELSE <<Stop>>

\* What waits in the queue is the rest of the events, which begins no later
\* than after what was received, and the sentinel once the task is over.
Following(b) ==
    /\ owner[of[b]] = SubManager /\ pc[of[b]] # "killed"
    /\ \E w \in 0..Len(events[of[b]]) :
         /\ Len(events[of[b]]) - w <= Len(got[b])
         /\ queue[b] = Rest(w, Len(events[of[b]])) \o EndMark(of[b])

GotDone(b) == \E i \in 1..Len(got[b]) : IsDone(events[of[b]][got[b][i]])

SubscriberOf(b) ==
    /\ Received(b)
    /\ at[b] # "off" => pc[of[b]] # "none"
    /\ at[b] = "live" => Following(b)
    /\ at[b] # "live" => queue[b] = <<>>
    /\ at[b] = "closing" => GotDone(b)
    /\ at[b] = "over" => ToldDone(b)
    /\ told[b] # "none" => at[b] = "over"
    /\ told[b] = "completed" => Stored(of[b])

SubInv == \A b \in Subs : SubscriberOf(b)

LEMMA LastIsLength ==
    ASSUME StreamTypeOK, NEW b \in Subs, Received(b)
    PROVE  LastSeq(b) = Len(got[b]) /\ Len(got[b]) \in Nat
<1>1. got[b] \in Seq(Nat) /\ Len(got[b]) \in Nat
  BY LenProperties DEF StreamTypeOK
<1>2. CASE got[b] = <<>>
  BY <1>2 DEF LastSeq
<1>3. CASE got[b] # <<>>
  <2>1. Len(got[b]) \in 1..Len(got[b])
    BY <1>1, <1>3, EmptySeq
  <2> QED
    BY <1>1, <1>3, <2>1 DEF LastSeq, Received
<1> QED
  BY <1>1, <1>2, <1>3

(* The events up to n are received, those that were not yet.               *)
LEMMA UpToReceived ==
    ASSUME StreamTypeOK, NEW b \in Subs, Received(b), NEW n \in Nat, n <= Len(events[of[b]]),
           Yield(b, UpTo(b, n)), UNCHANGED <<events, of>>
    PROVE  Received(b)' /\ Len(got'[b]) >= n /\ Len(got'[b]) >= Len(got[b])
<1>1. PICK l \in Nat : l = Len(got[b])
  BY LastIsLength
<1>2. PICK k \in Nat : k = IF n > l THEN n - l ELSE 0
  <2>1. (IF n > l THEN n - l ELSE 0) \in Nat
    OBVIOUS
  <2> QED
    BY <2>1
<1>3. UpTo(b, n) = [i \in 1..k |-> Len(got[b]) + i]
  BY <1>1, <1>2, LastIsLength DEF UpTo
<1>4. got[b] \in Seq(Nat) /\ \A i \in 1..Len(got[b]) : got[b][i] = i
  BY DEF StreamTypeOK, Received
<1>5. /\ Len(got[b] \o UpTo(b, n)) = Len(got[b]) + k
      /\ \A i \in 1..Len(got[b] \o UpTo(b, n)) : (got[b] \o UpTo(b, n))[i] = i
  BY <1>3, <1>4, Continued
<1>6. got'[b] = got[b] \o UpTo(b, n)
  BY DEF Yield, StreamTypeOK
<1>7. Len(got'[b]) = l + k /\ \A i \in 1..Len(got'[b]) : got'[b][i] = i
  BY <1>1, <1>5, <1>6
<1>8. l + k >= n /\ l + k >= l /\ (l + k = n \/ l + k = l)
  BY <1>2
<1> QED
  BY <1>1, <1>7, <1>8 DEF Received

(* A DONE that was received stays received, and so does what was said.     *)
LEMMA GotDoneStays ==
    ASSUME StreamTypeOK, NEW b \in Subs, Received(b), Extends(of[b]),
           of'[b] = of[b], got'[b] = got[b], GotDone(b)
    PROVE  GotDone(b)'
<1>1. PICK i \in 1..Len(got[b]) : IsDone(events[of[b]][got[b][i]])
  BY DEF GotDone
<1>2. got[b][i] = i
  BY DEF Received
<1>3. Len(got[b]) \in Nat /\ Len(got[b]) <= Len(events[of[b]])
  BY LastIsLength DEF Received
<1>4. events'[of[b]][i] = events[of[b]][i]
  <2>1. CASE Len(events[of[b]]) \in Int
    BY <1>3, <2>1 DEF Extends
  <2>2. CASE Len(events[of[b]]) \notin Int
    BY <1>3, <2>2 DEF Extends
  <2> QED
    BY <2>1, <2>2
<1> QED
  BY <1>1, <1>2, <1>4 DEF GotDone

(* What was received of a turn is received of it still.                    *)
LEMMA ReceivedStays ==
    ASSUME TypeOK, TypeOK', StreamTypeOK, NEW b \in Subs, Received(b), Extends(of[b]),
           of'[b] = of[b], got'[b] = got[b]
    PROVE  Received(b)'
<1>1. /\ Len(got[b]) \in Nat /\ of[b] \in Turns
      /\ Len(events[of[b]]) \in Nat /\ Len(events'[of[b]]) \in Nat
  BY LastIsLength, LenProperties DEF StreamTypeOK, TypeOK, TaskTypes
<1> QED
  BY <1>1 DEF Received, Extends

(* A subscriber the step leaves alone, or only feeds.                      *)
LEMMA SubscriberKept ==
    ASSUME TypeOK, TypeOK', StreamTypeOK, NEW b \in Subs, SubscriberOf(b), GoesOn(of[b]),
           at'[b] = at[b], of'[b] = of[b], got'[b] = got[b], told'[b] = told[b],
           at[b] = "live" => Following(b)', at[b] # "live" => queue'[b] = queue[b]
    PROVE  SubscriberOf(b)'
<1>1. Received(b)' /\ (GotDone(b) => GotDone(b)')
  BY ReceivedStays, GotDoneStays DEF SubscriberOf, GoesOn
<1>2. ToldDone(b) => ToldDone(b)'
  BY <1>1 DEF ToldDone, GotDone
<1>3. told[b] = "completed" => Stored(of[b])'
  BY DEF SubscriberOf, GoesOn
<1>4. at[b] # "off" => pc'[of[b]] # "none"
  BY DEF SubscriberOf, GoesOn
<1>5. told'[b] = "completed" => Stored(of[b])'
  BY <1>3
<1> QED
  BY <1>1, <1>2, <1>3, <1>4, <1>5 DEF SubscriberOf, Stored, Flushed, Kept, SessionLive, Answers
(***************************************************************************)
(* The steps of the runtime.                                               *)
(***************************************************************************)
(* What a step publishes, and the sentinel, go to the end of the queue.    *)
LEMMA FeedFollows ==
    ASSUME RuntimeInv, RuntimeInv', StreamTypeOK, NEW b \in Subs, SubscriberOf(b),
           at[b] = "live", GoesOn(of[b]), pc'[of[b]] # "killed", Feed, of' = of, got' = got
    PROVE  Following(b)'
<1>1. PICK t \in Turns : t = of[b]
  BY DEF StreamTypeOK
<1>2. PICK e \in Nat : e = Len(events[t])
  BY LenProperties DEF RuntimeInv, TypeOK, TaskTypes
<1>3. PICK f \in Nat : f = Len(events'[t])
  BY LenProperties DEF RuntimeInv, TypeOK, TaskTypes
<1>4. PICK d \in Nat : f = e + d
  <2>1. e <= f
    BY <1>1, <1>2, <1>3 DEF GoesOn, Extends
  <2>2. f - e \in Nat /\ f = e + (f - e)
    BY <2>1
  <2> QED
    BY <2>2
<1>5. /\ owner[t] = SubManager /\ owner'[t] = SubManager
      /\ pc[t] \notin {"none", "killed"} /\ pc'[t] # "killed"
  BY <1>1 DEF SubscriberOf, Following, GoesOn
<1>6. PICK w \in 0..e : e - w <= Len(got[b]) /\ queue[b] = Rest(w, e) \o EndMark(t)
  BY <1>1, <1>2 DEF SubscriberOf, Following
<1>7. /\ Live(SubManager, t) <=> pc[t] \in Active
      /\ <<SubManager, t>> \in executions' <=> pc'[t] \in Active
  BY <1>5, SubManagerAssumption DEF RuntimeInv, StoryInv, RunnerIsOwner, Live
<1>8. queue'[b] = queue[b] \o Fresh(t) \o Ending(t)
  BY <1>1 DEF Feed
<1>9. Fresh(t) = [i \in 1..d |-> e + i]
  <2>1. f - e = d
    BY <1>4
  <2> QED
    BY <1>2, <1>3, <2>1 DEF Fresh
<1>10. Rest(w, e) \in Seq(Nat) /\ Rest(w, e) \o Fresh(t) = Rest(w + d, f)
  <2>1. /\ Rest(w, e) \in Seq(Nat)
        /\ Rest(w, e) \o [i \in 1..d |-> e + i] = Rest(w + d, e + d)
    BY RestGrows
  <2> QED
    BY <1>4, <1>9, <2>1
<1>11. queue'[b] = Rest(w + d, f) \o EndMark(t)'
  <2>1. CASE pc[t] \in Active
    <3>1. queue[b] = Rest(w, e)
      BY <1>6, <1>10, <2>1, ConcatEmptySeq DEF EndMark
    <3>2. Ending(t) = EndMark(t)'
      BY <1>7, <2>1 DEF Ending, EndMark
    <3> QED
      BY <1>8, <1>10, <3>1, <3>2
  <2>2. CASE pc[t] \notin Active
    <3>1. pc[t] \in Over
      BY <1>5, <2>2 DEF RuntimeInv, TypeOK, TaskTypes, Phases
    <3>2. pc'[t] = pc[t] /\ events'[t] = events[t]
      BY <1>1, <3>1 DEF GoesOn
    <3>3. d = 0 /\ f = e /\ w + d = w
      <4>1. f = e
        BY <1>2, <1>3, <3>2
      <4>2. d = 0
        BY <1>4, <4>1
      <4> QED
        BY <4>1, <4>2
    <3>4. Ending(t) = <<>>
      BY <1>7, <2>2 DEF Ending
    <3>5. Fresh(t) = <<>>
      BY <1>9, <3>3
    <3>6. queue[b] \in Seq(Nat)
      BY DEF StreamTypeOK
    <3>7. queue'[b] = queue[b]
      BY <1>8, <3>4, <3>5, <3>6, ConcatEmptySeq
    <3>8. EndMark(t)' = EndMark(t)
      BY <3>2 DEF EndMark
    <3> QED
      BY <1>6, <3>3, <3>7, <3>8
  <2> QED
    BY <2>1, <2>2
<1>12. w + d \in 0..f /\ f - (w + d) <= Len(got[b])
  BY <1>4, <1>6
<1> QED
  BY <1>1, <1>3, <1>5, <1>11, <1>12 DEF Following

LEMMA RuntimeStepKeepsSub ==
    ASSUME RuntimeInv, RuntimeInv', StreamTypeOK, SubInv, RuntimeStep,
           \A t \in Turns : GoesOn(t)
    PROVE  SubInv'
<1> SUFFICES ASSUME NEW b \in Subs PROVE SubscriberOf(b)'
  BY DEF SubInv
<1>1. SubscriberOf(b) /\ of[b] \in Turns /\ TypeOK /\ TypeOK'
  BY DEF SubInv, StreamTypeOK, RuntimeInv
<1>2. at' = at /\ of' = of /\ got' = got /\ told' = told /\ Feed /\ Operate
  BY DEF RuntimeStep
<1>3. at[b] = "live" => Following(b)'
  <2>1. at[b] = "live" => pc'[of[b]] # "killed"
    BY <1>1, <1>2, NotKilled DEF SubscriberOf, Following
  <2> QED
    BY <1>1, <1>2, <2>1, FeedFollows
<1>4. at[b] # "live" => queue'[b] = queue[b]
  BY <1>2 DEF Feed
<1> QED
  BY <1>1, <1>2, <1>3, <1>4, SubscriberKept

LEMMA RestartStepKeepsSub ==
    ASSUME RuntimeInv, RuntimeInv', StreamTypeOK, SubInv, RestartStep,
           \A t \in Turns : GoesOn(t)
    PROVE  SubInv'
<1> SUFFICES ASSUME NEW b \in Subs PROVE SubscriberOf(b)'
  BY DEF SubInv
<1>1. SubscriberOf(b) /\ GoesOn(of[b]) /\ TypeOK /\ TypeOK'
  BY DEF SubInv, StreamTypeOK, RuntimeInv
<1>2. /\ at'[b] = IF at[b] \in Open THEN "off" ELSE at[b]
      /\ queue'[b] = <<>> /\ of' = of /\ got' = got /\ told' = told
  BY DEF RestartStep
<1>3. CASE at[b] \in Open
  <2>1. at'[b] = "off" /\ told'[b] = "none"
    BY <1>1, <1>2, <1>3 DEF SubscriberOf, Open, StreamTypeOK
  <2>2. Received(b)'
    BY <1>1, <1>2, ReceivedStays DEF SubscriberOf, GoesOn
  <2> QED
    BY <1>2, <2>1, <2>2 DEF SubscriberOf
<1>4. CASE at[b] \notin Open
  <2>1. at'[b] = at[b] /\ at[b] # "live" /\ queue[b] = <<>>
    BY <1>1, <1>2, <1>4 DEF Open, SubscriberOf
  <2> QED
    BY <1>1, <1>2, <2>1, SubscriberKept
<1> QED
  BY <1>3, <1>4

(***************************************************************************)
(* The steps of a subscriber.                                              *)
(***************************************************************************)
(* A step of one is nothing to the others.                                 *)
LEMMA OthersKept ==
    ASSUME RuntimeInv, RuntimeInv', StreamTypeOK, SubInv, NEW b \in Subs,
           Reads(b) \/ Drop(b) \/ \E t \in Turns : Subscribe(b, t), Beside,
           NEW a \in Subs \ {b}, GoesOn(of[a])
    PROVE  SubscriberOf(a)'
<1>1. SubscriberOf(a) /\ TypeOK /\ TypeOK'
  BY DEF SubInv, RuntimeInv
<1>2. /\ at'[a] = at[a] /\ of'[a] = of[a] /\ got'[a] = got[a] /\ told'[a] = told[a]
      /\ queue'[a] = queue[a]
  BY DEF StreamTypeOK, Reads, Subscribe, ReadBacklog, Register, CatchUp, CheckTurn,
     FailOrphanOfSub, TakeEvent, TakeSentinel, Close, Drop, Move, Yield
<1>3. pc' = pc /\ events' = events /\ owner' = owner
  BY DEF Beside, Aside
<1>4. at[a] = "live" => Following(a)'
  BY <1>1, <1>2, <1>3 DEF SubscriberOf, Following, EndMark
<1> QED
  BY <1>1, <1>2, <1>4, SubscriberKept

(* "completed" is synthesized only for a turn that is stored, or gone.     *)
LEMMA SynthesizedIsStored ==
    ASSUME RuntimeInv, NEW t \in Turns, pc[t] # "none", Synthesized(t) = "completed"
    PROVE  Stored(t)
<1>1. CASE row[t].status = "absent"
  <2>1. ~SessionLive(t)
    BY <1>1 DEF RuntimeInv, StoryInv, StoryOf, Story, SessionLive
  <2> QED
    BY <1>1, <2>1 DEF Stored, Flushed, Kept
<1>2. CASE row[t].status # "absent"
  <2>1. row[t].status = "completed"
    BY <1>2 DEF Synthesized
  <2>2. Flushed(t)
    BY <2>1 DEF RuntimeInv, StoryInv, StoryOf, Story, Flushed
  <2>3. Kept(t)
    BY <2>1 DEF RuntimeInv, AnswerStory, AnswerOf
  <2> QED
    BY <2>2, <2>3 DEF Stored
<1> QED
  BY <1>1, <1>2

LEMMA DoneYieldedIsGot ==
    ASSUME NEW b \in Subs, DoneYielded(b)
    PROVE  GotDone(b)
BY DEF DoneYielded, GotDone

LEMMA SubscribeKeepsSub ==
    ASSUME RuntimeInv, StreamTypeOK, NEW b \in Subs, SubscriberOf(b), NEW t \in Turns, Subscribe(b, t)
    PROVE  SubscriberOf(b)'
<1>1. /\ at[b] = "off" /\ at'[b] = "backlog" /\ of'[b] = t /\ pc[t] # "none"
      /\ UNCHANGED <<pc, events, got, told, queue>>
  BY DEF Subscribe, Move, StreamTypeOK, vars, taskVars
<1>2. told[b] = "none" /\ queue[b] = <<>>
  BY <1>1 DEF SubscriberOf, StreamTypeOK
<1>3. Received(b)'
  <2>1. CASE of[b] = t
    BY <1>1, <2>1 DEF SubscriberOf, Received
  <2>2. CASE got[b] = <<>>
    <3>1. Len(got'[b]) = 0 /\ Len(events[t]) \in Nat
      BY <1>1, <2>2, LenProperties DEF RuntimeInv, TypeOK, TaskTypes
    <3> QED
      BY <1>1, <3>1 DEF Received
  <2> QED
    BY <2>1, <2>2 DEF Subscribe
<1> QED
  BY <1>1, <1>2, <1>3 DEF SubscriberOf

LEMMA DropKeepsSub ==
    ASSUME RuntimeInv, StreamTypeOK, NEW b \in Subs, SubscriberOf(b), Drop(b)
    PROVE  SubscriberOf(b)'
<1>1. /\ at'[b] = "off" /\ queue'[b] = <<>> /\ UNCHANGED <<of, told, events>>
      /\ told[b] = "none"
  BY DEF Drop, Move, StreamTypeOK, taskVars, SubscriberOf, Open
<1>2. PICK n \in 0..Len(got[b]) : got' = [got EXCEPT ![b] = SubSeq(@, 1, n)]
  BY DEF Drop
<1>3. /\ got[b] \in Seq(Nat) /\ Len(got[b]) \in Nat /\ got'[b] = SubSeq(got[b], 1, n)
      /\ Len(events[of[b]]) \in Nat
  BY <1>2, LenProperties DEF StreamTypeOK, RuntimeInv, TypeOK, TaskTypes
<1>4. /\ Len(got'[b]) = n /\ \A i \in 1..n : got'[b][i] = got[b][i]
  <2>1. \A i \in 1..n : got[b][i] \in Nat
    BY <1>3, ElementOfSeq
  <2>2. /\ Len(SubSeq(got[b], 1, n)) = IF 1 <= n THEN n - 1 + 1 ELSE 0
        /\ \A i \in 1..(n - 1 + 1) : SubSeq(got[b], 1, n)[i] = got[b][1 + i - 1]
    BY <1>3, <2>1, SubSeqProperties
  <2>3. n \in Nat /\ n - 1 + 1 = n /\ \A i \in 1..n : 1 + i - 1 = i
    BY <1>3
  <2> QED
    BY <1>3, <2>2, <2>3
<1>5. Received(b)'
  BY <1>1, <1>3, <1>4 DEF SubscriberOf, Received
<1> QED
  BY <1>1, <1>5 DEF SubscriberOf
(* The events that are buffered when a subscriber joins are copied.        *)
LEMMA RegisterKeepsSub ==
    ASSUME RuntimeInv, StreamTypeOK, NEW b \in Subs, SubscriberOf(b), Register(b)
    PROVE  SubscriberOf(b)'
<1>1. PICK t \in Turns : t = of[b]
  BY DEF StreamTypeOK
<1>2. PICK e \in Nat : e = Len(events[t])
  BY LenProperties DEF RuntimeInv, TypeOK, TaskTypes
<1>3. /\ at[b] = "register" /\ told[b] = "none" /\ queue[b] = <<>> /\ pc[t] # "none"
      /\ Received(b) /\ UNCHANGED <<pc, events, owner, of, told, queue>>
  BY <1>1 DEF Register, SubscriberOf, vars, taskVars
<1>4. CASE Live(SubManager, of[b])
  <2>1. at'[b] = "live" /\ Yield(b, UpTo(b, e))
    BY <1>1, <1>2, <1>4 DEF Register, Move, StreamTypeOK
  <2>2. Received(b)' /\ Len(got'[b]) >= e /\ Len(got'[b]) >= Len(got[b])
    BY <1>1, <1>2, <1>3, <2>1, UpToReceived
  <2>3. owner[t] = SubManager /\ pc[t] \in Active
    BY <1>1, <1>4, SubManagerAssumption DEF RuntimeInv, StoryInv, RunnerIsOwner, Live
  <2>4. pc[t] # "killed"
    BY <2>3 DEF Active, Working, Titling, Unwinding
  <2>5. queue[b] = Rest(0, e) \o EndMark(t)
    <3>1. Rest(0, e) = <<>>
      BY DEF Rest
    <3>2. EndMark(t) = <<>>
      BY <2>3 DEF EndMark
    <3> QED
      BY <1>3, <3>1, <3>2
  <2>6. EndMark(t)' = EndMark(t)
    BY <1>3 DEF EndMark
  <2>7. 0 \in 0..e /\ e - 0 <= Len(got'[b])
    BY <2>2
  <2>8. Following(b)'
    BY <1>1, <1>2, <1>3, <2>3, <2>4, <2>5, <2>6, <2>7 DEF Following
  <2> QED
    BY <1>1, <1>3, <2>1, <2>2, <2>8 DEF SubscriberOf
<1>5. CASE ~Live(SubManager, of[b])
  <2>1. at'[b] = "catchup" /\ got' = got
    BY <1>5 DEF Register, Move, StreamTypeOK
  <2>2. Received(b)'
    BY <1>3, <2>1 DEF Received
  <2> QED
    BY <1>1, <1>3, <2>1, <2>2 DEF SubscriberOf
<1> QED
  BY <1>4, <1>5

(* The next event is taken from the queue, or was received before.         *)
LEMMA TakeEventKeepsSub ==
    ASSUME RuntimeInv, StreamTypeOK, NEW b \in Subs, SubscriberOf(b), TakeEvent(b)
    PROVE  SubscriberOf(b)'
<1>1. PICK t \in Turns : t = of[b]
  BY DEF StreamTypeOK
<1>2. PICK e \in Nat : e = Len(events[t])
  BY LenProperties DEF RuntimeInv, TypeOK, TaskTypes
<1>3. /\ at[b] = "live" /\ told[b] = "none" /\ pc[t] # "none" /\ Received(b)
      /\ UNCHANGED <<pc, events, owner, at, of, told>>
  BY <1>1 DEF TakeEvent, SubscriberOf, vars, taskVars
<1>4. PICK g \in Nat : g = Len(got[b]) /\ g = LastSeq(b) /\ g <= e
  BY <1>1, <1>2, <1>3, LastIsLength DEF Received
<1>5. PICK w \in 0..e : e - w <= g /\ queue[b] = Rest(w, e) \o EndMark(t)
  BY <1>1, <1>2, <1>3, <1>4 DEF SubscriberOf, Following
<1>6. EndMark(t) \in Seq(Nat) /\ EndMark(t)' = EndMark(t)
  BY <1>3 DEF EndMark, Stop
<1>7. w \in 1..e
  <2> SUFFICES ASSUME w = 0 PROVE FALSE
    OBVIOUS
  <2>1. Rest(w, e) = <<>>
    BY DEF Rest
  <2>2. queue[b] = EndMark(t)
    BY <1>5, <1>6, <2>1, ConcatEmptySeq
  <2> QED
    BY <2>2 DEF TakeEvent, EndMark
<1>8. Head(queue[b]) = e - w + 1 /\ Tail(queue[b]) = Rest(w - 1, e) \o EndMark(t)
  BY <1>5, <1>6, <1>7, RestTaken, ZenonT(30)
<1>9. queue'[b] = Rest(w - 1, e) \o EndMark(t)
  BY <1>8 DEF TakeEvent, StreamTypeOK
<1>10. Received(b)' /\ e - (w - 1) <= Len(got'[b])
  <2>1. CASE Head(queue[b]) > LastSeq(b)
    <3>1. e - w + 1 = g + 1
      <4>1. e - w + 1 > g
        BY <1>4, <1>8, <2>1
      <4>2. e - w <= g
        BY <1>5
      <4> QED
        BY <4>1, <4>2
    <3>2. Yield(b, <<g + 1>>)
      BY <1>8, <2>1, <3>1 DEF TakeEvent
    <3>3. got'[b] = Append(got[b], g + 1) /\ got[b] \in Seq(Nat)
      <4>1. got[b] \in Seq(Nat) /\ g + 1 \in Nat
        BY DEF StreamTypeOK
      <4>2. Append(got[b], g + 1) = got[b] \o <<g + 1>>
        BY <4>1, AppendIsConcat
      <4> QED
        BY <3>2, <4>1, <4>2 DEF Yield, StreamTypeOK
    <3>4. /\ Len(got'[b]) = g + 1 /\ got'[b][g + 1] = g + 1
          /\ \A i \in 1..g : got'[b][i] = got[b][i]
      <4>1. /\ Len(Append(got[b], g + 1)) = Len(got[b]) + 1
            /\ \A i \in 1..Len(got[b]) : Append(got[b], g + 1)[i] = got[b][i]
            /\ Append(got[b], g + 1)[Len(got[b]) + 1] = g + 1
        BY <3>3, AppendProperties
      <4>2. Len(got[b]) = g
        BY <1>4
      <4> QED
        BY <3>3, <4>1, <4>2
    <3>5. g + 1 <= e /\ e - (w - 1) <= g + 1
      BY <1>5, <1>7, <3>1
    <3>6. \A i \in 1..(g + 1) : i \in 1..g \/ i = g + 1
      OBVIOUS
    <3>7. \A i \in 1..g : got[b][i] = i
      BY <1>3, <1>4 DEF Received
    <3>8. \A i \in 1..(g + 1) : got'[b][i] = i
      BY <3>4, <3>6, <3>7
    <3> QED
      BY <1>1, <1>2, <1>3, <3>4, <3>5, <3>8 DEF Received
  <2>2. CASE ~(Head(queue[b]) > LastSeq(b))
    <3>1. got' = got
      BY <2>2 DEF TakeEvent
    <3>2. e - (w - 1) <= g
      <4>1. ~(e - w + 1 > g)
        BY <1>4, <1>8, <2>2
      <4> QED
        BY <4>1
    <3> QED
      BY <1>3, <1>4, <3>1, <3>2 DEF Received
  <2> QED
    BY <2>1, <2>2
<1>11. w - 1 \in 0..e
  BY <1>7
<1>12. Following(b)'
  BY <1>1, <1>2, <1>3, <1>6, <1>9, <1>10, <1>11 DEF SubscriberOf, Following
<1> QED
  BY <1>1, <1>3, <1>10, <1>12 DEF SubscriberOf

(* The sentinel is taken when all events are received, DONE among them.    *)
LEMMA TakeSentinelKeepsSub ==
    ASSUME RuntimeInv, StreamTypeOK, NEW b \in Subs, SubscriberOf(b), TakeSentinel(b)
    PROVE  SubscriberOf(b)'
<1>1. PICK t \in Turns : t = of[b]
  BY DEF StreamTypeOK
<1>2. PICK e \in Nat : e = Len(events[t])
  BY LenProperties DEF RuntimeInv, TypeOK, TaskTypes
<1>3. /\ at[b] = "live" /\ told[b] = "none" /\ pc[t] # "none" /\ Received(b)
      /\ UNCHANGED <<pc, events, of, got, told>>
  BY <1>1 DEF TakeSentinel, SubscriberOf, vars, taskVars
<1>4. Len(got[b]) \in Nat /\ Len(got[b]) <= e
  BY <1>1, <1>2, <1>3, LastIsLength DEF Received
<1>5. PICK w \in 0..e : e - w <= Len(got[b]) /\ queue[b] = Rest(w, e) \o EndMark(t)
  BY <1>1, <1>2, <1>3 DEF SubscriberOf, Following
<1>6. EndMark(t) \in Seq(Nat)
  BY DEF EndMark, Stop
<1>7. w = 0
  <2> SUFFICES ASSUME w # 0 PROVE FALSE
    OBVIOUS
  <2>1. w \in 1..e
    OBVIOUS
  <2>2. Head(queue[b]) = e - w + 1
    BY <1>5, <1>6, <2>1, RestTaken
  <2> QED
    BY <2>1, <2>2 DEF TakeSentinel, Stop
<1>8. pc[t] \notin Active
  <2> SUFFICES ASSUME pc[t] \in Active PROVE FALSE
    OBVIOUS
  <2>1. Rest(w, e) = <<>> /\ EndMark(t) = <<>>
    BY <1>7 DEF Rest, EndMark
  <2>2. queue[b] = <<>>
    BY <1>5, <2>1
  <2> QED
    BY <2>2 DEF TakeSentinel
<1>9. HasDone(events[t])
  <2>1. pc[t] \in {"ended", "aborted"}
    BY <1>1, <1>3, <1>8
    DEF SubscriberOf, Following, RuntimeInv, TypeOK, TaskTypes, Phases, Over
  <2> QED
    BY <2>1 DEF RuntimeInv, StoryInv, StoryOf, Story
<1>10. GotDone(b)
  <2>1. PICK i \in 1..e : events[t][i] \in Terminal
    BY <1>2, <1>9 DEF HasDone
  <2>2. i \in 1..Len(got[b])
    BY <1>4, <1>5, <1>7, <2>1
  <2>3. got[b][i] = i
    BY <1>3, <2>2 DEF Received
  <2> QED
    BY <1>1, <2>1, <2>2, <2>3 DEF GotDone, IsDone
<1>11. GotDone(b)' /\ Received(b)'
  BY <1>3, <1>10 DEF GotDone, Received
<1>12. queue'[b] = <<>> /\ at'[b] \in {"over", "closing"}
  BY DEF TakeSentinel, Move, StreamTypeOK
<1> QED
  BY <1>1, <1>3, <1>11, <1>12 DEF SubscriberOf, ToldDone, GotDone

(* Every step of the generator keeps the invariant of its subscriber.      *)
LEMMA ReadsKeepsSub ==
    ASSUME RuntimeInv, StreamTypeOK, NEW b \in Subs, SubscriberOf(b), Reads(b), Beside
    PROVE  SubscriberOf(b)'
<1>1. PICK t \in Turns : t = of[b]
  BY DEF StreamTypeOK
<1>2. UNCHANGED <<pc, events>>
  BY DEF Beside, Aside
<1>3. CASE ReadBacklog(b) \/ CatchUp(b)
  <2>1. /\ at[b] \in {"backlog", "catchup"} /\ at'[b] \in {"register", "check"}
        /\ UNCHANGED <<of, told, queue>> /\ Yield(b, UpTo(b, saved[t]))
    BY <1>1, <1>3 DEF ReadBacklog, CatchUp, Move, StreamTypeOK
  <2>2. saved[t] \in Nat /\ saved[t] <= Len(events[t])
    <3>1. saved[t] \in Nat /\ flushTo[t] \in Nat /\ Len(events[t]) \in Nat
      BY LenProperties DEF RuntimeInv, TypeOK, StoreTypes, TaskTypes
    <3>2. saved[t] <= flushTo[t] /\ flushTo[t] <= Len(events[t])
      BY DEF RuntimeInv, StoryInv, StoryOf, Story
    <3> QED
      BY <3>1, <3>2
  <2>3. Received(b)'
    BY <1>1, <1>2, <2>1, <2>2, UpToReceived DEF SubscriberOf
  <2> QED
    BY <1>1, <1>2, <2>1, <2>3 DEF SubscriberOf
<1>4. CASE CheckTurn(b) \/ Close(b)
  <2>1. /\ at[b] \in {"check", "closing"} /\ UNCHANGED <<vars, of, got, queue>>
        /\ told[b] = "none" /\ queue[b] = <<>> /\ pc[t] # "none"
    BY <1>1, <1>4 DEF CheckTurn, Close, SubscriberOf
  <2>2. Received(b)' /\ (GotDone(b) => GotDone(b)') /\ Received(b)
    BY <1>2, <2>1 DEF SubscriberOf, Received, GotDone
  <2>3. \/ at'[b] = "orphan" /\ told'[b] = "none"
        \/ at'[b] = "over" /\ GotDone(b) /\ told'[b] = "none"
        \/ at'[b] = "over" /\ told'[b] = Synthesized(t) /\ row[t].status # "running"
    BY <1>1, <1>4, <2>1, DoneYieldedIsGot
    DEF CheckTurn, Close, SubscriberOf, Move, StreamTypeOK
  <2>4. ASSUME at'[b] = "over", told'[b] = Synthesized(t), row[t].status # "running"
        PROVE  SubscriberOf(b)'
    <3>1. Synthesized(t) # "none"
      BY <2>4 DEF Synthesized, RuntimeInv, TypeOK, StoreTypes, RowType, Terminal
    <3>2. told'[b] = "completed" => Stored(t)'
      <4>1. told'[b] = "completed" => Stored(t)
        BY <2>1, <2>4, SynthesizedIsStored
      <4>2. Stored(t) => Stored(t)'
        BY <2>1
        DEF vars, storeVars, taskVars, Stored, Flushed, Kept, SessionLive, Answers, Regenerated
      <4> QED
        BY <4>1, <4>2
    <3>3. /\ of'[b] = t /\ pc'[t] # "none" /\ queue'[b] = <<>>
      BY <1>1, <1>2, <2>1
    <3>4. ToldDone(b)'
      BY <2>4, <3>1 DEF ToldDone
    <3>5. told'[b] = "completed" => Stored(of[b])'
      <4>1. Stored(of[b])' <=> Stored(t)'
        BY <3>3
      <4> QED
        BY <3>2, <4>1
    <3> QED
      BY <2>2, <2>4, <3>3, <3>4, <3>5 DEF SubscriberOf
  <2>5. ASSUME at'[b] \in {"orphan", "over"}, told'[b] = "none", at'[b] = "over" => GotDone(b)
        PROVE  SubscriberOf(b)'
    BY <1>1, <1>2, <2>1, <2>2, <2>5 DEF SubscriberOf, ToldDone, GotDone
  <2> QED
    BY <2>3, <2>4, <2>5
<1>5. CASE FailOrphanOfSub(b)
  <2>1. at[b] = "orphan" /\ at'[b] = "check" /\ UNCHANGED <<of, got, told, queue>>
    BY <1>5 DEF FailOrphanOfSub, Move, StreamTypeOK
  <2>2. Received(b)'
    BY <1>2, <2>1 DEF SubscriberOf, Received
  <2> QED
    BY <1>1, <1>2, <2>1, <2>2 DEF SubscriberOf
<1> QED
  BY <1>3, <1>4, <1>5, RegisterKeepsSub, TakeEventKeepsSub, TakeSentinelKeepsSub DEF Reads

(* Every step keeps the invariant of every subscriber.                     *)
LEMMA SubStep ==
    ASSUME RuntimeInv, StreamTypeOK, SubInv, [StreamNext]_streamVars
    PROVE  SubInv'
<1>1. RuntimeInv' /\ TypeOK /\ TypeOK'
  BY RuntimeGoesOn DEF RuntimeInv
<1>2. \A t \in Turns : GoesOn(t)
  BY TurnsGoOn
<1>3. \A b \in Subs : of[b] \in Turns /\ SubscriberOf(b)
  BY DEF StreamTypeOK, SubInv
<1>4. CASE UNCHANGED streamVars
  <2> SUFFICES ASSUME NEW b \in Subs PROVE SubscriberOf(b)'
    BY DEF SubInv
  <2>1. UNCHANGED <<at, of, got, told, queue, pc, events, owner>>
    BY <1>4 DEF streamVars, subVars, vars, taskVars
  <2>2. at[b] = "live" => Following(b)'
    BY <1>3, <2>1 DEF SubscriberOf, Following, EndMark
  <2> QED
    BY <1>1, <1>2, <1>3, <2>1, <2>2, SubscriberKept
<1>5. CASE RuntimeStep
  BY <1>1, <1>2, <1>5, RuntimeStepKeepsSub
<1>6. CASE RestartStep
  BY <1>1, <1>2, <1>6, RestartStepKeepsSub
<1>7. ASSUME NEW b \in Subs, Reads(b) \/ Drop(b) \/ \E t \in Turns : Subscribe(b, t)
      PROVE  SubInv'
  <2>1. Beside
    BY <1>1, <1>7, SubscriberIsBeside
  <2>2. SubscriberOf(b)'
    BY <1>3, <1>7, <2>1, ReadsKeepsSub, DropKeepsSub, SubscribeKeepsSub
  <2>3. \A a \in Subs \ {b} : SubscriberOf(a)'
    BY <1>1, <1>2, <1>3, <1>7, <2>1, OthersKept
  <2> QED
    BY <2>2, <2>3 DEF SubInv
<1> QED
  BY <1>4, <1>5, <1>6, <1>7 DEF StreamNext

(* Nobody has subscribed at first.                                         *)
LEMMA SubInit ==
    ASSUME StreamInit
    PROVE  SubInv
<1> SUFFICES ASSUME NEW b \in Subs PROVE SubscriberOf(b)
  BY DEF SubInv
<1>1. at[b] = "off" /\ got[b] = <<>> /\ told[b] = "none" /\ queue[b] = <<>>
  BY DEF StreamInit
<1>2. of[b] \in Turns
  BY StreamTypeInit DEF StreamTypeOK
<1>3. Received(b)
  <2>1. events[of[b]] = <<>> /\ Len(got[b]) = 0
    BY <1>1, <1>2 DEF StreamInit, Init
  <2> QED
    BY <2>1 DEF Received
<1> QED
  BY <1>1, <1>3 DEF SubscriberOf

(* The invariant of the subscribers, on top of the stories of the turns.   *)
THEOREM SubscribersHold == StreamSpec => [](RuntimeInv /\ StreamTypeOK /\ SubInv)
<1>1. RuntimeInv /\ StreamTypeOK /\ SubInv /\ [StreamNext]_streamVars => SubInv'
  BY SubStep
<1>2. StreamInit => SubInv
  BY SubInit
<1> QED
  BY <1>1, <1>2, StreamTypeCorrect, PTL DEF StreamSpec

(***************************************************************************)
(* The properties.                                                         *)
(***************************************************************************)
(* A client holds events 1..n of its turn, in order and each once: the     *)
(* table, the buffer and the queue never leave a gap between them, and     *)
(* last_seq hides every overlap.                                           *)
THEOREM NoGapNoDuplicateHolds == StreamSpec => []NoGapNoDuplicate
<1>1. SubInv => NoGapNoDuplicate
  BY DEF SubInv, SubscriberOf, Received, NoGapNoDuplicate
<1> QED
  BY <1>1, SubscribersHold, PTL

(* After the DONE of a turn nothing is published but its new title: the    *)
(* handlers of a cancellation look at what was published before.           *)
THEOREM OneDoneThenMetaHolds == StreamSpec => []OneDoneThenMeta
<1>1. RuntimeInv => OneDoneThenMeta
  BY DEF RuntimeInv, StoryInv, StoryOf, Story, OneDone, OneDoneThenMeta, IsDone
<1> QED
  BY <1>1, SubscribersHold, PTL

(* A subscription that ended has told its client so: the sentinel comes    *)
(* after the DONE of the task, and without a runner a DONE is synthesized. *)
THEOREM OverMeansDoneHolds == StreamSpec => []OverMeansDone
<1>1. SubInv => OverMeansDone
  BY DEF SubInv, SubscriberOf, OverMeansDone
<1> QED
  BY <1>1, SubscribersHold, PTL

(* No success is made up: the events and the answer of the turn are stored *)
(* when a DONE(completed) is synthesized, and stay so for as long as its   *)
(* session lives and nobody regenerates, which deletes the answer.         *)
THEOREM NoFalseSuccessHolds == StreamSpec => []NoFalseSuccess
<1>1. RuntimeInv /\ StreamTypeOK /\ SubInv => NoFalseSuccess
  <2> SUFFICES ASSUME RuntimeInv, StreamTypeOK, SubInv, NEW b \in Subs, told[b] = "completed",
                      NEW t \in Turns, t = of[b], SessionLive(t)
               PROVE  /\ saved[t] >= flushTo[t] /\ flushTo[t] > 0
                      /\ Answers(t) # {} \/ Regenerated
    BY DEF NoFalseSuccess, StreamTypeOK, Regenerated
  <2>1. Stored(t) /\ pc[t] # "none"
    BY DEF SubInv, SubscriberOf
  <2>2. flushTo[t] \in Nat
    BY DEF RuntimeInv, TypeOK, TaskTypes
  <2>3. row[t].status # "absent"
    BY <2>1 DEF RuntimeInv, StoryInv, StoryOf, Story, SessionLive
  <2> QED
    BY <2>1, <2>2, <2>3 DEF Stored, Flushed, Kept
<1> QED
  BY <1>1, SubscribersHold, PTL

(***************************************************************************)
(* The runtime below its readers.  A reader without a runner may write to  *)
(* the row: it fails an orphan, one suspension after it took it for one.   *)
(* With one manager this never meets a turn that runs or was answered.     *)
(***************************************************************************)

\* A reader about to fail an orphan has a turn whose task is gone, and
\* which never told that it was completed.
OrphanIsOver(b) ==
    at[b] = "orphan" => pc[of[b]] \in {"killed", "aborted"} /\ ~HasCompleted(of[b])

SharedInv == TurnInv /\ DoneInv /\ RefuseInv /\ \A b \in Subs : OrphanIsOver(b)

(* What a reader saw of an orphan stays true whatever the runtime does.    *)
LEMMA OrphansStay ==
    ASSUME StreamTypeOK, NEW b \in Subs, OrphanIsOver(b), GoesOn(of[b]),
           of'[b] = of[b], at'[b] = "orphan" => at[b] = "orphan"
    PROVE  OrphanIsOver(b)'
<1> SUFFICES ASSUME at'[b] = "orphan"
             PROVE  pc'[of[b]] \in {"killed", "aborted"} /\ ~HasCompleted(of[b])'
  BY DEF OrphanIsOver, HasCompleted
<1>1. pc[of[b]] \in {"killed", "aborted"} /\ ~HasCompleted(of[b])
  BY DEF OrphanIsOver
<1>2. pc[of[b]] \in Over
  BY <1>1 DEF Over
<1> QED
  BY <1>1, <1>2 DEF GoesOn, HasCompleted

(* A row that runs without a live execution has lost its task, and nobody  *)
(* was told that its turn is completed.                                    *)
LEMMA RunningWithoutTask ==
    ASSUME TypeOK, TurnInv, DoneInv, NEW t \in Turns,
           ~Live(SubManager, t), row[t].status = "running"
    PROVE  pc[t] \in {"killed", "aborted"} /\ ~HasCompleted(t)
<1>1. pc[t] \in Phases
  BY DEF TypeOK, TaskTypes
<1>2. pc[t] \notin Active
  BY SubManagerAssumption DEF Live, TurnInv, Registered
<1>3. pc[t] # "none" /\ pc[t] # "ended"
  BY DEF TurnInv, Unborn, EndedTurnIsTerminal, Terminal
<1>4. ~HasCompleted(t)
  BY DEF DoneInv, DoneIsDurable, HasCompleted
<1> QED
  BY <1>1, <1>2, <1>3, <1>4 DEF Phases, Over

(* The steps of a reader keep the invariant of the runtime: only one of    *)
(* them writes, to the row of an orphan.                                   *)
LEMMA ReaderKeepsRuntime ==
    ASSUME TypeOK, StreamTypeOK, SharedInv, NEW b \in Subs,
           Reads(b) \/ Drop(b) \/ \E t \in Turns : Subscribe(b, t)
    PROVE  TurnInv' /\ DoneInv' /\ RefuseInv'
<1>0. ASSUME UNCHANGED <<session, pc, call>>,
             \A u \in Turns : row'[u] = row[u] \/ row'[u].status # "running"
      PROVE  RefuseInv'
  <2>1. \A s : RunningIn(s)' \subseteq RunningIn(s)
    BY <1>0 DEF RunningIn
  <2> QED
    BY <1>0, <2>1 DEF SharedInv, RefuseInv, OrphansSeen
<1>1. of[b] \in Turns /\ row \in [Turns -> RowType]
  BY DEF StreamTypeOK, TypeOK, StoreTypes
<1>2. CASE UNCHANGED <<storeVars, late, taskVars, memoryVars, call>>
  <2>1. QuietStep /\ UNCHANGED <<events, pc, row, late, call>>
    BY <1>2 DEF QuietStep, storeVars, taskVars, memoryVars
  <2>2. TurnInv'
    BY <2>1, QuietStepKeepsInv DEF SharedInv
  <2>3. DoneInv'
    BY <2>1, WriteKeepsDone DEF SharedInv
  <2>4. RefuseInv'
    BY <1>0, <1>2 DEF storeVars, taskVars
  <2> QED
    BY <2>2, <2>3, <2>4
<1>3. CASE FailOrphanOfSub(b)
  <2>1. pc[of[b]] \in {"killed", "aborted"} /\ ~HasCompleted(of[b])
    BY <1>3 DEF FailOrphanOfSub, SharedInv, OrphanIsOver
  <2>2. /\ UNCHANGED <<sess, session, pc, events, executions, late, call>>
        /\ \A u \in Turns \ {of[b]} : row'[u] = row[u]
        /\ \/ row'[of[b]] = row[of[b]]
           \/ row[of[b]].status # "absent" /\ row'[of[b]].status \in Terminal
    BY <1>1, <1>3 DEF FailOrphanOfSub, SetStatus, taskVars, memoryVars, Terminal
  <2>3. OutsideWrite(of[b])
    BY <2>1, <2>2 DEF OutsideWrite, Working
  <2>4. TurnInv'
    BY <1>1, <2>3, OutsideWriteKeepsInv DEF SharedInv
  <2>5. \A u \in Turns : row'[u].status = row[u].status \/ ~HasCompleted(u)
    BY <2>1, <2>2
  <2>6. DoneInv'
    BY <2>2, <2>5, WriteKeepsDone DEF SharedInv
  <2>7. RefuseInv'
    BY <1>0, <2>2 DEF Terminal
  <2> QED
    BY <2>4, <2>6, <2>7
<1> QED
  BY <1>2, <1>3
  DEF Reads, Subscribe, ReadBacklog, Register, CatchUp, CheckTurn, TakeEvent, TakeSentinel, Close,
      Drop, vars, storeVars, taskVars, memoryVars

(* Every step of runtime and readers keeps it.                             *)
LEMMA SharedStep ==
    ASSUME OneManagerOnly, RuntimeInv, StreamTypeOK, SharedInv, [StreamNext]_streamVars
    PROVE  SharedInv'
<1>1. /\ TypeOK /\ StoryInv /\ AnswerStory /\ TurnInv /\ DoneInv /\ RefuseInv
      /\ \A b \in Subs : of[b] \in Turns /\ OrphanIsOver(b)
  BY DEF RuntimeInv, SharedInv, StreamTypeOK
<1>2. \A t \in Turns : GoesOn(t)
  BY TurnsGoOn
<1>3. CASE [Next]_vars /\ of' = of /\ \A b \in Subs : at'[b] = "orphan" => at[b] = "orphan"
  <2>1. TurnInv' /\ DoneInv' /\ RefuseInv'
    BY <1>1, <1>3, InvStep, DoneStep, RefuseStep
  <2>2. \A b \in Subs : OrphanIsOver(b)'
    BY <1>1, <1>2, <1>3, OrphansStay
  <2> QED
    BY <2>1, <2>2 DEF SharedInv
<1>4. ASSUME NEW b \in Subs, Reads(b) \/ Drop(b) \/ \E t \in Turns : Subscribe(b, t)
      PROVE  SharedInv'
  <2>1. TurnInv' /\ DoneInv' /\ RefuseInv'
    BY <1>1, <1>4, ReaderKeepsRuntime
  <2>2. /\ at \in [Subs -> {"off", "over"} \cup Open] /\ of \in [Subs -> Turns]
    BY DEF StreamTypeOK
  <2>3. \A a \in Subs \ {b} : of'[a] = of[a] /\ at'[a] = at[a]
    BY <1>4, <2>2
    DEF Reads, Subscribe, ReadBacklog, Register, CatchUp, CheckTurn, FailOrphanOfSub, TakeEvent,
        TakeSentinel, Close, Drop, Move
  <2>4. \A a \in Subs \ {b} : OrphanIsOver(a)'
    BY <1>1, <1>2, <2>3, OrphansStay
  <2>5. CASE at'[b] # "orphan"
    BY <2>1, <2>4, <2>5 DEF SharedInv, OrphanIsOver
  <2>6. CASE at'[b] = "orphan"
    <3>1. /\ ~Live(SubManager, of[b]) /\ row[of[b]].status = "running"
          /\ of' = of /\ UNCHANGED vars
      BY <1>4, <2>2, <2>6
      DEF Reads, Subscribe, ReadBacklog, Register, CatchUp, CheckTurn, FailOrphanOfSub, TakeEvent,
          TakeSentinel, Close, Drop, Move
    <3>2. pc[of[b]] \in {"killed", "aborted"} /\ ~HasCompleted(of[b])
      BY <1>1, <3>1, RunningWithoutTask
    <3>3. OrphanIsOver(b)'
      BY <3>1, <3>2 DEF OrphanIsOver, HasCompleted, vars, taskVars
    <3> QED
      BY <2>1, <2>4, <3>3 DEF SharedInv
  <2> QED
    BY <2>5, <2>6
<1>5. CASE UNCHANGED streamVars
  BY <1>3, <1>5 DEF streamVars, subVars
<1>6. CASE RuntimeStep
  BY <1>3, <1>6 DEF RuntimeStep, Next
<1>7. CASE RestartStep
  <2>1. \A b \in Subs : at'[b] = "orphan" => at[b] = "orphan"
    BY <1>7 DEF RestartStep
  <2> QED
    BY <1>3, <1>7, <2>1 DEF RestartStep, Next
<1> QED
  BY <1>4, <1>5, <1>6, <1>7 DEF StreamNext

(* The invariant of the runtime survives its readers.                      *)
THEOREM SharedInvariant ==
    OneManagerOnly => (StreamSpec => [](RuntimeInv /\ StreamTypeOK /\ SharedInv))
<1> SUFFICES ASSUME OneManagerOnly
             PROVE  StreamSpec => [](RuntimeInv /\ StreamTypeOK /\ SharedInv)
  OBVIOUS
<1>1. StreamInit => SharedInv
  <2> SUFFICES ASSUME StreamInit PROVE SharedInv
    OBVIOUS
  <2>1. TurnInv /\ DoneInv /\ RefuseInv
    BY InvInit, DoneInit, RefuseInit DEF StreamInit
  <2>2. \A b \in Subs : at[b] = "off"
    BY DEF StreamInit
  <2> QED
    BY <2>1, <2>2 DEF SharedInv, OrphanIsOver
<1>2. RuntimeInv /\ StreamTypeOK /\ SharedInv /\ [StreamNext]_streamVars => SharedInv'
  BY SharedStep
<1> QED
  BY <1>1, <1>2, StreamTypeCorrect, PTL DEF StreamSpec

(* No reader takes a live turn for one that a restart interrupted, or frees*)
(* its session, though it writes one suspension after it looked.           *)
THEOREM ReadersInterruptNobody ==
    OneManagerOnly => (StreamSpec => [](InterruptedMeansNoRunner /\ OneRunningTurn))
<1>1. SharedInv => InterruptedMeansNoRunner /\ OneRunningTurn
  BY DEF SharedInv, TurnInv
<1> QED
  BY <1>1, SharedInvariant, PTL

(* No reader turns an answer that was told completed into a failed one.    *)
THEOREM ReadersKeepDone == OneManagerOnly => (StreamSpec => []DoneIsDurable)
<1>1. SharedInv => DoneIsDurable
  BY DEF SharedInv, DoneInv
<1> QED
  BY <1>1, SharedInvariant, PTL

(* Readers beside the runtime do not make a start refused: what refuses it *)
(* is a turn of this process, never a row that a restart left behind.      *)
THEOREM ReadersRefuseNobody == OneManagerOnly => (StreamSpec => RefusedOnlyIfLive)
<1> SUFFICES ASSUME OneManagerOnly PROVE StreamSpec => RefusedOnlyIfLive
  OBVIOUS
<1> DEFINE Excused == \A c \in Clients :
             Refuses(c) /\ sess[call[c].s] = "live" /\ budget' = budget
                => \E t \in RunningIn(call[c].s) : pc[t] \in Active \cup {"aborted"}
<1>1. RuntimeInv /\ StreamTypeOK /\ SharedInv /\ [StreamNext]_streamVars => [Excused]_vars
  <2> SUFFICES ASSUME RuntimeInv, StreamTypeOK, SharedInv, [StreamNext]_streamVars PROVE Excused
    OBVIOUS
  <2>1. TypeOK /\ TurnInv /\ RefuseInv
    BY DEF RuntimeInv, SharedInv
  <2>2. CASE [Next]_vars
    BY <2>1, <2>2, RefusalHasReason
  <2>3. CASE Beside
    BY <2>3 DEF Beside, Refuses
  <2> QED
    BY <2>1, <2>2, <2>3, StreamStepKinds
<1> QED
  BY <1>1, SharedInvariant, PTL DEF StreamSpec, RefusedOnlyIfLive

(* Runtime and readers together still implement the lease: a reader only   *)
(* ever releases a session.                                                *)
THEOREM ReadersImplementLease == OneManagerOnly => (StreamSpec => RefinesLease)
<1> SUFFICES ASSUME OneManagerOnly PROVE StreamSpec => RefinesLease
  OBVIOUS
<1>1. StreamInit => Lease!Init
  BY LeaseInit DEF StreamInit
<1>2. ASSUME RuntimeInv, StreamTypeOK, SharedInv, [StreamNext]_streamVars
      PROVE  [Lease!Next]_(Lease!vars)
  <2>1. TypeOK /\ TurnInv
    BY <1>2 DEF RuntimeInv, SharedInv
  <2>2. CASE [Next]_vars
    BY <2>1, <2>2, LeaseStep
  <2>3. CASE UNCHANGED <<row, session, pc>>
    <3>1. Used' = Used /\ \A s \in Sessions : RunningIn(s)' = RunningIn(s)
      BY <2>3 DEF Used, RunningIn
    <3> QED
      BY <3>1 DEF Lease!vars, Used
  <2>4. ASSUME NEW b \in Subs, FailOrphanOfSub(b)
        PROVE  [Lease!Next]_(Lease!vars)
    <3>1. of[b] \in Turns /\ row \in [Turns -> RowType]
      BY <1>2, <2>1 DEF StreamTypeOK, TypeOK, StoreTypes
    <3>2. /\ session' = session /\ pc' = pc
          /\ \A u \in Turns \ {of[b]} : row'[u] = row[u]
          /\ row'[of[b]] = row[of[b]] \/ row'[of[b]].status # "running"
      BY <2>4, <3>1 DEF FailOrphanOfSub, SetStatus, taskVars
    <3>3. Used' = Used
      BY <3>2 DEF Used
    <3> QED
      BY <2>1, <3>1, <3>2, <3>3, ReleaseOrStutter
  <2>5. ASSUME NEW b \in Subs, Reads(b) \/ Drop(b) \/ \E t \in Turns : Subscribe(b, t)
        PROVE  [Lease!Next]_(Lease!vars)
    BY <2>3, <2>4, <2>5
    DEF Reads, Subscribe, ReadBacklog, Register, CatchUp, CheckTurn, TakeEvent, TakeSentinel,
        Close, Drop, vars, storeVars, taskVars
  <2>6. CASE RuntimeStep \/ RestartStep \/ UNCHANGED streamVars
    BY <2>2, <2>6 DEF RuntimeStep, RestartStep, Next, streamVars
  <2> QED
    BY <1>2, <2>5, <2>6 DEF StreamNext
<1>3. RuntimeInv /\ StreamTypeOK /\ SharedInv /\ [StreamNext]_streamVars
        => [Lease!Next]_(Lease!vars)
  BY <1>2
<1> QED
  BY <1>1, <1>3, SharedInvariant, PTL DEF StreamSpec, RefinesLease, Lease!Spec
=============================================================================
