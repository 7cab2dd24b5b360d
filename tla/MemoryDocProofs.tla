---------------------------- MODULE MemoryDocProofs ----------------------------
(***************************************************************************)
(* What the passes over a memory document keep, for any number of runs,   *)
(* entities and edits and any plans: a document has one active run, the   *)
(* watermark never passes an entity no model has read, and undoing all    *)
(* checkpoints of a run gives its document back.                          *)
(*                                                                         *)
(* Every step of a task ends in one of three ways: the run ends, it waits *)
(* for its write, or it waits for a model.  Outcome says so once; each    *)
(* invariant is then shown for the three.                                 *)
(***************************************************************************)
EXTENDS MemoryDoc, SequenceTheorems, WellFoundedInduction, TLAPS

Passes == {"update", "edit", "merge"}

RunType == [status : {"none", "queued", "running"} \cup Terminal,
            at : {"none", "queued", "llm", "write", "over"},
            plan : Seq(Passes), mem : SUBSET Pieces, todo : SUBSET Nat, seen : SUBSET Nat,
            prev : Content, stack : Seq(Content), cancel : BOOLEAN]

\* What a run is like where its task is suspended.
Consistent(x) ==
    /\ x.at = "none" <=> x.status = "none"
    /\ x.at = "queued" <=> x.status = "queued"
    /\ x.at \in {"llm", "write"} <=> x.status = "running"
    /\ x.cancel => x.status = "running"
    /\ x.status \in {"queued", "running"} => x.plan # <<>>
    /\ x.at = "llm" => x.todo # {}

\* What it knows of the entities recorded so far.
Informed(x) ==
    /\ x.seen \subseteq 1..known
    /\ x.status \in {"queued", "running"} /\ Head(x.plan) = "update" => x.todo \subseteq 1..known

StoreOK ==
    /\ known \in 0..MaxEntities /\ edits \in 0..MaxUserEdits /\ doc \in Content
    /\ meta \subseteq 1..known /\ offered \subseteq 1..known
    /\ writes \subseteq [by : Writer, content : Content]
    /\ active \in 0..MaxRuns /\ base \in [Runs -> Content] /\ mixed \subseteq Runs

RunsOK ==
    /\ run \in [Runs -> RunType]
    /\ \A r \in Runs : Consistent(run[r]) /\ Informed(run[r])

LEMMA TypeParts == StoreOK /\ RunsOK => TypeOK
<1> SUFFICES ASSUME StoreOK, RunsOK PROVE TypeOK
  OBVIOUS
<1>1. ASSUME NEW r \in Runs
      PROVE  /\ run[r].status \in {"none", "queued", "running"} \cup Terminal
             /\ run[r].at \in {"none", "queued", "llm", "write", "over"}
             /\ run[r].mem \subseteq Pieces /\ run[r].seen \subseteq 1..known
             /\ run[r].stack \in Seq(Content)
             /\ base[r] \in Content
  BY DEF StoreOK, RunsOK, RunType, Informed
<1> QED
  BY <1>1 DEF StoreOK, TypeOK

-----------------------------------------------------------------------------
(* Minima and contents.                                                    *)

LEMMA MinIsLeast ==
    ASSUME NEW S \in SUBSET Nat, S # {}
    PROVE  Min(S) \in S /\ \A y \in S : Min(S) <= y
<1>1. PICK x \in S : \A y \in S : ~(<<y, x>> \in OpToRel(<, Nat))
  BY NatLessThanWellFounded, WFMin
<1>2. \A y \in S : ~(y < x)
  BY <1>1 DEF OpToRel
<1>3. \A y \in S : x <= y
  BY <1>2
<1> QED
  BY <1>3 DEF Min

LEMMA EntriesTypes == ASSUME NEW content \in Content PROVE Entries(content) \subseteq Pieces
<1>1. CASE content = NoFile
  BY <1>1 DEF Entries
<1>2. CASE content # NoFile
  <2>1. content \in SUBSET Pieces
    BY <1>2 DEF Content
  <2> QED
    BY <1>2, <2>1 DEF Entries
<1> QED
  BY <1>1, <1>2

LEMMA PiecesAreContent == \A c : c \subseteq Pieces => c \in Content
BY DEF Content

(* The passes that are left are some of the plan, from one with work on.   *)
LEMMA PendingFacts ==
    ASSUME NEW plan \in Seq(Passes)
    PROVE  /\ Pending(plan) \in Seq(Passes)
           /\ Pending(plan) # <<>> => HasWork(Head(Pending(plan)))
<1> DEFINE busy == {i \in 1..Len(plan) : HasWork(plan[i])}
<1>1. CASE busy = {}
  BY <1>1 DEF Pending
<1>2. CASE busy # {}
  <2>1. Min(busy) \in busy
    <3>1. busy \in SUBSET Nat
      OBVIOUS
    <3> HIDE DEF busy
    <3> QED
      BY <1>2, <3>1, MinIsLeast
  <2>2. Min(busy) \in 1..Len(plan) /\ HasWork(plan[Min(busy)])
    BY <2>1
  <2> HIDE DEF busy
  <2>3. PICK m \in 1..Len(plan) : m = Min(busy)
    BY <2>2
  <2>4. Pending(plan) = SubSeq(plan, m, Len(plan))
    BY <1>2, <2>3 DEF Pending, busy
  <2>5. m \in Int /\ Len(plan) \in Int /\ \A i \in m..Len(plan) : plan[i] \in Passes
    OBVIOUS
  <2>6. /\ SubSeq(plan, m, Len(plan)) \in Seq(Passes)
        /\ Len(SubSeq(plan, m, Len(plan))) = Len(plan) - m + 1
        /\ SubSeq(plan, m, Len(plan))[1] = plan[m]
    BY <2>5, SubSeqProperties
  <2> QED
    BY <2>2, <2>3, <2>4, <2>6
<1> QED
  BY <1>1, <1>2

-----------------------------------------------------------------------------
(* The three ways a step of a task ends.                                   *)

\* The run z, with the checkpoints of x, is over.
Ends(x, z) ==
    /\ z.status \in Terminal /\ z.at = "over" /\ z.seen = {} /\ ~z.cancel
    /\ z.stack = x.stack /\ active' = 0

\* A thread of the run r writes content; the checkpoint keeps what was there.
Writes(r, x, z, content) ==
    /\ z.status = x.status /\ z.at = "write" /\ z.stack = x.stack /\ z.prev = doc
    /\ z.cancel = x.cancel /\ z.plan # <<>>
    /\ content \subseteq Pieces
    /\ writes' = writes \cup {[by |-> <<"run", r, 0>>, content |-> content]}
    /\ active' = active

\* A model is asked about a chunk.
Asks(x, z) ==
    /\ z.status = x.status /\ z.at = "llm" /\ z.stack = x.stack /\ z.todo # {}
    /\ z.cancel = x.cancel /\ z.plan # <<>>
    /\ writes' = writes /\ active' = active

\* Within the pass of x, or from the beginning of another.
SamePass(x, z) == z.plan = x.plan /\ z.seen = x.seen /\ z.todo = x.todo
NewPass(z) ==
    /\ z.seen \subseteq 1..known
    /\ Head(z.plan) = "update" => z.todo = (1..known) \ meta /\ z.seen = 1..known

(* The passes a run goes on with when one is over.                         *)
LEMMA EnterFacts ==
    ASSUME StoreOK, NEW r, NEW x \in RunType, x.seen \subseteq 1..known,
           NEW plan \in Seq(Passes), Enter(r, x, plan)
    PROVE  \E z \in RunType :
             /\ run' = [run EXCEPT ![r] = z]
             /\ \/ Ends(x, z) /\ z.status = "done" /\ writes' = writes
                \/ NewPass(z) /\ (Writes(r, x, z, Entries(doc)) \/ Asks(x, z))
<1> DEFINE todo == Pending(plan)
           y == [x EXCEPT !.plan = todo, !.mem = Entries(doc)]
           over == [x EXCEPT !.status = "done", !.at = "over", !.plan = <<>>, !.mem = {},
                             !.todo = {}, !.seen = {}, !.prev = NoFile, !.cancel = FALSE]
           writing == [y EXCEPT !.at = "write", !.mem = Entries(doc), !.prev = doc]
           asking == [y EXCEPT !.at = "llm", !.todo = Todo(Head(todo)), !.seen = 1..known]
<1>1. /\ todo \in Seq(Passes) /\ (todo # <<>> => HasWork(Head(todo)) /\ Head(todo) \in Passes)
      /\ Entries(doc) \subseteq Pieces /\ NoFile \in Content /\ doc \in Content
      /\ <<>> \in Seq(Passes)
  <2>1. todo \in Seq(Passes) /\ (todo # <<>> => HasWork(Head(todo)))
    BY PendingFacts
  <2>2. todo # <<>> => Head(todo) \in Passes
    <3> HIDE DEF todo
    <3> QED
      BY <2>1
  <2>3. Entries(doc) \subseteq Pieces /\ NoFile \in Content /\ doc \in Content
    BY EntriesTypes DEF StoreOK, Content
  <2> HIDE DEF todo
  <2> QED
    BY <2>1, <2>2, <2>3
<1>2. known \in Nat /\ (1..known) \subseteq Nat
  BY MemoryAssumption DEF StoreOK
<1>3. CASE todo = <<>> \/ (todo # <<>> /\ Head(todo) = "merge" /\ End(r, x, "done") /\ writes' = writes)
  <2>1. End(r, x, "done") /\ writes' = writes
    BY <1>3 DEF Enter
  <2>2. over \in RunType
    BY <1>1 DEF RunType, Terminal
  <2>3. Ends(x, over) /\ over.status = "done"
    BY <2>1 DEF Ends, End, RunType, Terminal
  <2>4. run' = [run EXCEPT ![r] = over]
    BY <2>1 DEF End, Goes
  <2> QED
    BY <2>1, <2>2, <2>3, <2>4
<1>4. CASE todo # <<>> /\ Head(todo) = "merge" /\ Write(r, y, Entries(doc))
  <2> HIDE DEF todo
  <2>1. writing \in RunType
    BY <1>1 DEF RunType
  <2>2. writing.plan = todo /\ writing.seen = x.seen
    BY DEF RunType
  <2>3. Writes(r, x, writing, Entries(doc))
    BY <1>1, <1>4, <2>2 DEF Writes, Write, RunType
  <2>4. NewPass(writing)
    BY <1>4, <2>2 DEF NewPass
  <2>5. run' = [run EXCEPT ![r] = writing]
    BY <1>4 DEF Write, Goes
  <2> QED
    BY <2>1, <2>3, <2>4, <2>5
<1>5. CASE todo # <<>> /\ Head(todo) # "merge" /\ Goes(r, asking) /\ UNCHANGED <<writes, active>>
  <2> HIDE DEF todo
  <2>1. Todo(Head(todo)) # {} /\ Todo(Head(todo)) \subseteq Nat
    BY <1>1, <1>2, <1>5, MemoryAssumption DEF HasWork, Todo, Passes
  <2>2. asking \in RunType
    BY <1>1, <1>2, <2>1 DEF RunType
  <2>3. asking.plan = todo /\ asking.seen = 1..known /\ asking.todo = Todo(Head(todo))
    BY DEF RunType
  <2>4. Asks(x, asking)
    BY <1>5, <2>1, <2>3 DEF Asks, RunType
  <2>5. NewPass(asking)
    BY <2>3 DEF NewPass, Todo
  <2>6. run' = [run EXCEPT ![r] = asking]
    BY <1>5 DEF Goes
  <2> QED
    BY <2>2, <2>4, <2>5, <2>6
<1> QED
  BY <1>3, <1>4, <1>5 DEF Enter

(* A step of the task of r, whose run is x at the end of what it did.      *)
Outcome(r, x, z) ==
    \/ Ends(x, z) /\ writes' = writes
    \/ /\ SamePass(x, z) \/ NewPass(z)
       /\ Asks(x, z) \/ \E c \in SUBSET Pieces : Writes(r, x, z, c)

Step(r, x) == \E z \in RunType : run' = [run EXCEPT ![r] = z] /\ Outcome(r, x, z)

\* The watermark moves to what the run has seen, at the end of an update.
MetaMoves(x) ==
    meta' = meta \/ (Head(x.plan) = "update" /\ x.todo = {} /\ meta' = x.seen)

LEMMA EnterSteps ==
    ASSUME StoreOK, NEW r, NEW x \in RunType, x.seen \subseteq 1..known,
           NEW plan \in Seq(Passes), Enter(r, x, plan)
    PROVE  Step(r, x)
<1>1. Entries(doc) \in SUBSET Pieces
  BY EntriesTypes DEF StoreOK
<1> QED
  BY <1>1, EnterFacts DEF Step, Outcome

LEMMA WriteSteps ==
    ASSUME StoreOK, NEW r, NEW x \in RunType, x.plan # <<>>,
           NEW content \in SUBSET Pieces, Write(r, x, content)
    PROVE  Step(r, x)
<1> DEFINE z == [x EXCEPT !.at = "write", !.mem = content, !.prev = doc]
<1>1. z \in RunType
  BY DEF StoreOK, RunType
<1>2. SamePass(x, z)
  BY DEF SamePass, RunType
<1>3. Writes(r, x, z, content)
  BY DEF Write, Writes, RunType
<1>4. run' = [run EXCEPT ![r] = z]
  BY DEF Write, Goes
<1> QED
  BY <1>1, <1>2, <1>3, <1>4 DEF Step, Outcome

LEMMA ContinueSteps ==
    ASSUME StoreOK, NEW r, NEW x \in RunType, x.seen \subseteq 1..known, x.plan # <<>>,
           Continue(r, x)
    PROVE  Step(r, x) /\ MetaMoves(x)
<1>1. CASE x.todo # {} /\ Goes(r, [x EXCEPT !.at = "llm"]) /\ UNCHANGED <<writes, active, meta>>
  <2> DEFINE z == [x EXCEPT !.at = "llm"]
  <2>1. z \in RunType /\ SamePass(x, z) /\ Asks(x, z)
    BY <1>1 DEF RunType, SamePass, Asks
  <2>2. run' = [run EXCEPT ![r] = z]
    BY <1>1 DEF Goes
  <2> QED
    BY <1>1, <2>1, <2>2 DEF Step, Outcome, MetaMoves
<1>2. CASE /\ x.todo = {} /\ Enter(r, x, Tail(x.plan))
           /\ meta' = IF Head(x.plan) = "update" THEN x.seen ELSE meta
  <2>1. Tail(x.plan) \in Seq(Passes)
    BY DEF RunType
  <2> QED
    BY <1>2, <2>1, EnterSteps DEF MetaMoves
<1> QED
  BY <1>1, <1>2 DEF Continue

-----------------------------------------------------------------------------
(* The actions of a task.                                                  *)

LEMMA BeginFacts ==
    ASSUME StoreOK, RunsOK, NEW r \in Runs, Begin(r)
    PROVE  \E x \in RunType :
             /\ x.status = "running" /\ Informed(x) /\ x.stack = run[r].stack /\ ~x.cancel
             /\ x.plan = run[r].plan /\ x.todo = run[r].todo /\ x.seen = run[r].seen
             /\ Step(r, x)
<1> DEFINE x == [run[r] EXCEPT !.status = "running"]
<1>1. run[r] \in RunType /\ Consistent(run[r]) /\ Informed(run[r]) /\ run[r].at = "queued"
  BY DEF RunsOK, Begin
<1>2. x \in RunType /\ Informed(x) /\ ~x.cancel
  BY <1>1 DEF RunType, Informed, Consistent
<1>3. Enter(r, x, run[r].plan) /\ run[r].plan \in Seq(Passes)
  BY <1>1 DEF Begin, RunType
<1>4. Step(r, x)
  BY <1>2, <1>3, EnterSteps DEF Informed
<1>5. /\ x.status = "running" /\ x.stack = run[r].stack
      /\ x.plan = run[r].plan /\ x.todo = run[r].todo /\ x.seen = run[r].seen
  BY <1>1 DEF RunType
<1> HIDE DEF x
<1> QED
  BY <1>2, <1>4, <1>5

LEMMA AnswerUpdateFacts ==
    ASSUME StoreOK, RunsOK, NEW r \in Runs, AnswerUpdate(r)
    PROVE  \E x \in RunType :
             /\ x.status = "running" /\ Informed(x) /\ x.stack = run[r].stack /\ ~x.cancel
             /\ x.plan = run[r].plan /\ x.todo = run[r].todo \ {Min(run[r].todo)}
             /\ x.seen = run[r].seen
             /\ Min(run[r].todo) \in 1..known
             /\ Step(r, x) /\ MetaMoves(x)
<1> DEFINE chunk == Min(run[r].todo)
           x == [run[r] EXCEPT !.todo = @ \ {chunk}]
<1>1. /\ run[r] \in RunType /\ Consistent(run[r]) /\ Informed(run[r])
      /\ run[r].at = "llm" /\ Head(run[r].plan) = "update" /\ ~run[r].cancel
  BY DEF RunsOK, AnswerUpdate
<1>2. run[r].status = "running" /\ run[r].plan # <<>> /\ run[r].todo # {}
  BY <1>1 DEF Consistent
<1>3. run[r].todo \subseteq 1..known /\ run[r].todo \in SUBSET Nat
  BY <1>1, <1>2 DEF Informed, RunType
<1>4. chunk \in 1..known
  BY <1>2, <1>3, MinIsLeast
<1> HIDE DEF chunk
<1>5. x \in RunType
  BY <1>1 DEF RunType
<1>6. /\ x.status = "running" /\ x.stack = run[r].stack /\ x.cancel = run[r].cancel
      /\ x.plan = run[r].plan /\ x.todo = run[r].todo \ {chunk}
      /\ x.seen = run[r].seen /\ x.mem = run[r].mem
  BY <1>1, <1>2 DEF RunType
<1>7. Continue(r, x) \/ (Write(r, x, x.mem \cup {chunk}) /\ UNCHANGED meta)
  BY DEF AnswerUpdate, chunk
<1> HIDE DEF x
<1>8. Informed(x)
  BY <1>1, <1>3, <1>6 DEF Informed
<1>9. x.mem \cup {chunk} \in SUBSET Pieces
  BY <1>4, <1>5, MemoryAssumption DEF RunType, StoreOK, Pieces
<1>10. Step(r, x) /\ MetaMoves(x)
  <2>1. CASE Continue(r, x)
    BY <1>2, <1>5, <1>6, <1>8, <2>1, ContinueSteps DEF Informed
  <2>2. CASE Write(r, x, x.mem \cup {chunk}) /\ UNCHANGED meta
    BY <1>2, <1>5, <1>6, <1>9, <2>2, WriteSteps DEF MetaMoves
  <2> QED
    BY <1>7, <2>1, <2>2
<1> QED
  BY <1>1, <1>4, <1>5, <1>6, <1>8, <1>10 DEF chunk

LEMMA AnswerEditFacts ==
    ASSUME StoreOK, RunsOK, NEW r \in Runs, AnswerEdit(r)
    PROVE  \E x \in RunType :
             /\ x.status = "running" /\ Informed(x) /\ x.stack = run[r].stack /\ ~x.cancel
             /\ x.plan = run[r].plan /\ Head(x.plan) = "edit"
             /\ Step(r, x) /\ MetaMoves(x)
<1> DEFINE y == [run[r] EXCEPT !.todo = @ \ {Min(@)}]
<1>1. /\ run[r] \in RunType /\ Consistent(run[r]) /\ Informed(run[r])
      /\ run[r].at = "llm" /\ Head(run[r].plan) = "edit" /\ ~run[r].cancel
  BY DEF RunsOK, AnswerEdit
<1>2. run[r].status = "running" /\ run[r].plan # <<>>
  BY <1>1 DEF Consistent
<1>3. /\ y \in RunType /\ y.status = "running" /\ y.stack = run[r].stack /\ ~y.cancel
      /\ y.plan = run[r].plan /\ y.seen = run[r].seen /\ y.mem \subseteq Pieces
  BY <1>1, <1>2 DEF RunType
<1>4. \/ \E rest \in {y.todo, {}} : Continue(r, [y EXCEPT !.todo = rest])
      \/ \E kept \in {y.mem} \cup {y.mem \ {p} : p \in y.mem} :
           Write(r, y, kept) /\ UNCHANGED meta
  BY DEF AnswerEdit
<1> HIDE DEF y
<1>5. ASSUME NEW rest \in {y.todo, {}}, Continue(r, [y EXCEPT !.todo = rest])
      PROVE  \E x \in RunType :
               /\ x.status = "running" /\ Informed(x) /\ x.stack = run[r].stack /\ ~x.cancel
               /\ x.plan = run[r].plan /\ Head(x.plan) = "edit"
               /\ Step(r, x) /\ MetaMoves(x)
  <2> DEFINE x == [y EXCEPT !.todo = rest]
  <2>1. /\ x \in RunType /\ x.status = "running" /\ x.stack = run[r].stack /\ ~x.cancel
        /\ x.plan = run[r].plan /\ x.seen = run[r].seen
    BY <1>3, <1>5 DEF RunType
  <2>2. Continue(r, x)
    BY <1>5
  <2> HIDE DEF x
  <2>3. Informed(x) /\ Head(x.plan) = "edit"
    BY <1>1, <2>1 DEF Informed
  <2>4. Step(r, x) /\ MetaMoves(x)
    BY <1>2, <2>1, <2>2, <2>3, ContinueSteps DEF Informed
  <2> QED
    BY <2>1, <2>3, <2>4
<1>6. ASSUME NEW kept \in {y.mem} \cup {y.mem \ {p} : p \in y.mem}, Write(r, y, kept),
             UNCHANGED meta
      PROVE  Step(r, y) /\ MetaMoves(y)
  <2>1. kept \in SUBSET Pieces
    BY <1>3
  <2> QED
    BY <1>2, <1>3, <1>6, <2>1, WriteSteps DEF MetaMoves
<1>7. Informed(y) /\ Head(y.plan) = "edit"
  BY <1>1, <1>3 DEF Informed
<1> QED
  BY <1>3, <1>4, <1>5, <1>6, <1>7

LEMMA WrittenFacts ==
    ASSUME StoreOK, RunsOK, NEW r \in Runs, Written(r)
    PROVE  \E x \in RunType :
             /\ x.status = "running" /\ Informed(x) /\ ~x.cancel
             /\ x.stack = Append(run[r].stack, run[r].prev)
             /\ x.plan = run[r].plan /\ x.todo = run[r].todo /\ x.seen = run[r].seen
             /\ Step(r, x) /\ MetaMoves(x)
<1> DEFINE x == Checkpoint(run[r])
<1>1. /\ run[r] \in RunType /\ Consistent(run[r]) /\ Informed(run[r])
      /\ run[r].at = "write" /\ ~run[r].cancel /\ Continue(r, x)
  BY DEF RunsOK, Written
<1>2. run[r].status = "running" /\ run[r].plan # <<>>
  BY <1>1 DEF Consistent
<1>3. NoFile \in Content /\ Append(run[r].stack, run[r].prev) \in Seq(Content)
  BY <1>1 DEF Content, RunType
<1>4. /\ x \in RunType /\ x.status = "running" /\ x.cancel = run[r].cancel
      /\ x.stack = Append(run[r].stack, run[r].prev)
      /\ x.plan = run[r].plan /\ x.todo = run[r].todo /\ x.seen = run[r].seen
  BY <1>1, <1>2, <1>3 DEF RunType, Checkpoint
<1> HIDE DEF x
<1>5. Informed(x)
  BY <1>1, <1>2, <1>4 DEF Informed
<1>6. Step(r, x) /\ MetaMoves(x)
  BY <1>1, <1>2, <1>4, <1>5, ContinueSteps DEF Informed
<1> QED
  BY <1>1, <1>4, <1>5, <1>6

\* CancelledError and the other exceptions.
LEMMA EndFacts ==
    ASSUME RunsOK, NEW r \in Runs, NEW status \in Terminal, End(r, run[r], status)
    PROVE  \E z \in RunType : run' = [run EXCEPT ![r] = z] /\ Ends(run[r], z)
<1> DEFINE z == [run[r] EXCEPT !.status = status, !.at = "over", !.plan = <<>>, !.mem = {},
                               !.todo = {}, !.seen = {}, !.prev = NoFile, !.cancel = FALSE]
<1>1. run[r] \in RunType
  BY DEF RunsOK
<1>2. NoFile \in Content /\ <<>> \in Seq(Passes)
  BY DEF Content
<1>3. z \in RunType /\ Ends(run[r], z)
  BY <1>1, <1>2 DEF RunType, Ends, End, Terminal
<1>4. run' = [run EXCEPT ![r] = z]
  BY DEF End, Goes
<1> QED
  BY <1>3, <1>4

-----------------------------------------------------------------------------
(* Type correctness.                                                       *)

LEMMA RunTypes ==
    ASSUME RunsOK, NEW r \in Runs, NEW z \in RunType, run' = [run EXCEPT ![r] = z],
           known' = known, Consistent(z), Informed(z)
    PROVE  RunsOK'
BY DEF RunsOK, Informed, Consistent

LEMMA OutcomeTypes ==
    ASSUME StoreOK, NEW r \in Runs, NEW x \in RunType, x.status = "running", Informed(x),
           NEW z \in RunType, Outcome(r, x, z)
    PROVE  /\ Consistent(z) /\ Informed(z)
           /\ writes' \subseteq [by : Writer, content : Content] /\ active' \in 0..MaxRuns
           /\ \/ z.status \in Terminal /\ active' = 0
              \/ z.status = "running" /\ active' = active
<1>1. CASE Ends(x, z) /\ writes' = writes
  <2>1. Consistent(z) /\ Informed(z)
    BY <1>1 DEF Ends, Consistent, Informed, Terminal
  <2> QED
    BY <1>1, <2>1, MemoryAssumption DEF Ends, StoreOK
<1>2. ASSUME SamePass(x, z) \/ NewPass(z), z.status = "running" PROVE Informed(z)
  BY <1>2 DEF SamePass, NewPass, Informed
<1>3. CASE (SamePass(x, z) \/ NewPass(z)) /\ Asks(x, z)
  <2>1. Consistent(z) /\ z.status = "running"
    BY <1>3 DEF Asks, Consistent
  <2> QED
    BY <1>2, <1>3, <2>1 DEF Asks, StoreOK
<1>4. ASSUME SamePass(x, z) \/ NewPass(z), NEW c \in SUBSET Pieces, Writes(r, x, z, c)
      PROVE  /\ Consistent(z) /\ Informed(z) /\ z.status = "running" /\ active' = active
             /\ writes' \subseteq [by : Writer, content : Content]
  <2>1. Consistent(z) /\ z.status = "running"
    BY <1>4 DEF Writes, Consistent
  <2>2. <<"run", r, 0>> \in Writer /\ c \in Content
    BY DEF Writer, Content
  <2> QED
    BY <1>2, <1>4, <2>1, <2>2 DEF Writes, StoreOK
<1> QED
  BY <1>1, <1>3, <1>4 DEF Outcome, StoreOK

(* What every step of a task does to its run and to the entry of the       *)
(* document.                                                               *)
TaskStep(r) ==
    /\ Active(r)
    /\ \E z \in RunType :
         /\ run' = [run EXCEPT ![r] = z]
         /\ \/ z.status \in Terminal /\ active' = 0
            \/ z.status = "running" /\ active' = active

LEMMA StepTypes ==
    ASSUME StoreOK, RunsOK, NEW r \in Runs, Active(r),
           NEW x \in RunType, x.status = "running", Informed(x), Step(r, x),
           UNCHANGED <<known, edits, doc>>, meta' \subseteq 1..known, offered' \subseteq 1..known,
           base' \in [Runs -> Content], mixed' \subseteq Runs
    PROVE  StoreOK' /\ RunsOK' /\ TaskStep(r)
<1>1. PICK z \in RunType : run' = [run EXCEPT ![r] = z] /\ Outcome(r, x, z)
  BY DEF Step
<1>2. /\ Consistent(z) /\ Informed(z)
      /\ writes' \subseteq [by : Writer, content : Content] /\ active' \in 0..MaxRuns
      /\ \/ z.status \in Terminal /\ active' = 0
         \/ z.status = "running" /\ active' = active
  BY <1>1, OutcomeTypes
<1>3. RunsOK'
  BY <1>1, <1>2, RunTypes
<1>4. StoreOK'
  BY <1>2 DEF StoreOK
<1> QED
  BY <1>1, <1>2, <1>3, <1>4 DEF TaskStep

LEMMA TaskTypes ==
    ASSUME StoreOK, RunsOK, NEW r \in Runs, Task(r)
    PROVE  StoreOK' /\ RunsOK' /\ TaskStep(r)
<1>1. /\ Consistent(run[r]) /\ Informed(run[r])
      /\ run[r] \in RunType /\ base \in [Runs -> Content] /\ doc \in Content
      /\ meta \subseteq 1..known /\ offered \subseteq 1..known /\ mixed \subseteq Runs
  BY DEF StoreOK, RunsOK
<1>2. CASE Begin(r)
  <2>1. Active(r)
    BY <1>1, <1>2 DEF Begin, Consistent, Active
  <2>2. PICK x \in RunType : x.status = "running" /\ Informed(x) /\ Step(r, x)
    BY <1>2, BeginFacts
  <2>3. /\ UNCHANGED <<known, edits, doc>> /\ meta' \subseteq 1..known /\ offered' = offered
        /\ base' \in [Runs -> Content] /\ mixed' \subseteq Runs
    BY <1>1, <1>2 DEF Begin, Begun
  <2> QED
    BY <1>1, <2>1, <2>2, <2>3, StepTypes
<1>3. CASE AnswerUpdate(r)
  <2>1. Active(r)
    BY <1>1, <1>3 DEF AnswerUpdate, Consistent, Active
  <2>2. PICK x \in RunType :
          /\ x.status = "running" /\ Informed(x) /\ Step(r, x) /\ MetaMoves(x)
          /\ Min(run[r].todo) \in 1..known
    BY <1>3, AnswerUpdateFacts
  <2>3. /\ UNCHANGED <<known, edits, doc, base, mixed>> /\ offered' \subseteq 1..known
    BY <1>1, <1>3, <2>2 DEF AnswerUpdate
  <2>4. meta' \subseteq 1..known
    BY <1>1, <2>2 DEF MetaMoves, Informed
  <2> QED
    BY <1>1, <2>1, <2>2, <2>3, <2>4, StepTypes
<1>4. CASE AnswerEdit(r)
  <2>1. Active(r)
    BY <1>1, <1>4 DEF AnswerEdit, Consistent, Active
  <2>2. PICK x \in RunType :
          x.status = "running" /\ Informed(x) /\ Step(r, x) /\ MetaMoves(x)
    BY <1>4, AnswerEditFacts
  <2>3. UNCHANGED <<known, edits, doc, offered, base, mixed>>
    BY <1>4 DEF AnswerEdit, history
  <2>4. meta' \subseteq 1..known
    BY <1>1, <2>2 DEF MetaMoves, Informed
  <2> QED
    BY <1>1, <2>1, <2>2, <2>3, <2>4, StepTypes
<1>5. CASE Written(r)
  <2>1. Active(r)
    BY <1>1, <1>5 DEF Written, Consistent, Active
  <2>2. PICK x \in RunType :
          x.status = "running" /\ Informed(x) /\ Step(r, x) /\ MetaMoves(x)
    BY <1>5, WrittenFacts
  <2>3. UNCHANGED <<known, edits, doc, offered, base, mixed>>
    BY <1>5 DEF Written, history
  <2>4. meta' \subseteq 1..known
    BY <1>1, <2>2 DEF MetaMoves, Informed
  <2> QED
    BY <1>1, <2>1, <2>2, <2>3, <2>4, StepTypes
<1>6. ASSUME NEW status \in Terminal, End(r, run[r], status), Active(r), writes' \subseteq writes,
             UNCHANGED <<known, edits, doc, meta, offered, base>>, mixed' \subseteq Runs
      PROVE  StoreOK' /\ RunsOK' /\ TaskStep(r)
  <2>1. PICK z \in RunType : run' = [run EXCEPT ![r] = z] /\ Ends(run[r], z)
    BY <1>6, EndFacts
  <2>2. Consistent(z) /\ Informed(z) /\ z.status \in Terminal /\ active' = 0
    BY <2>1 DEF Ends, Consistent, Informed, Terminal
  <2>3. RunsOK'
    BY <1>6, <2>1, <2>2, RunTypes
  <2>4. StoreOK'
    BY <1>6, <2>2, MemoryAssumption DEF StoreOK
  <2> QED
    BY <1>6, <2>1, <2>2, <2>3, <2>4 DEF TaskStep
<1>7. CASE Fails(r)
  <2>1. Active(r)
    BY <1>1, <1>7 DEF Fails, Consistent, Active
  <2> QED
    BY <1>1, <1>6, <1>7, <2>1 DEF Fails, Terminal, history
<1>8. CASE Cancelled(r)
  <2>1. Active(r)
    BY <1>1, <1>8 DEF Cancelled, Consistent, Active
  <2>2. mixed' \subseteq Runs
    BY <1>1, <1>8 DEF Cancelled
  <2> QED
    BY <1>6, <1>8, <2>1, <2>2 DEF Cancelled, Terminal, storeVars
<1> QED
  BY <1>2, <1>3, <1>4, <1>5, <1>7, <1>8 DEF Task

LEMMA StartTypes ==
    ASSUME StoreOK, RunsOK, NEW r \in Runs, NEW plan \in Plans, Start(r, plan)
    PROVE  StoreOK' /\ RunsOK'
<1> DEFINE z == [NoRun EXCEPT !.status = "queued", !.at = "queued", !.plan = plan]
<1>1. plan \in Seq(Passes) /\ plan # <<>>
  BY MemoryAssumption DEF Passes
<1>2. z \in RunType
  <2>1. NoFile \in Content /\ <<>> \in Seq(Content)
    BY DEF Content
  <2> QED
    BY <1>1, <2>1 DEF RunType, NoRun
<1>3. /\ z.status = "queued" /\ z.at = "queued" /\ z.plan = plan /\ z.seen = {} /\ z.todo = {}
      /\ z.cancel = FALSE
  BY DEF NoRun
<1>4. run' = [run EXCEPT ![r] = z] /\ active' = r /\ UNCHANGED <<storeVars, history>>
  BY DEF Start
<1> HIDE DEF z
<1>5. Consistent(z) /\ Informed(z)
  BY <1>1, <1>3 DEF Consistent, Informed
<1>6. RunsOK'
  BY <1>2, <1>4, <1>5, RunTypes DEF storeVars
<1>7. StoreOK'
  <2>1. r \in 0..MaxRuns
    BY MemoryAssumption DEF Runs
  <2> QED
    BY <1>4, <2>1 DEF StoreOK, storeVars, history
<1> QED
  BY <1>6, <1>7

LEMMA CancelTypes ==
    ASSUME StoreOK, RunsOK, NEW r \in Runs, Cancel(r)
    PROVE  /\ StoreOK' /\ RunsOK'
           /\ \A q \in Runs : /\ run'[q].status = run[q].status /\ run'[q].at = run[q].at
                              /\ run'[q].plan = run[q].plan /\ run'[q].seen = run[q].seen
                              /\ run'[q].todo = run[q].todo /\ run'[q].prev = run[q].prev
                              /\ run'[q].stack = run[q].stack
<1> DEFINE z == [run[r] EXCEPT !.cancel = TRUE]
<1>1. run[r] \in RunType /\ Consistent(run[r]) /\ Informed(run[r])
  BY DEF RunsOK
<1>2. /\ z \in RunType
      /\ z.status = run[r].status /\ z.at = run[r].at /\ z.plan = run[r].plan
      /\ z.seen = run[r].seen /\ z.todo = run[r].todo /\ z.prev = run[r].prev
      /\ z.stack = run[r].stack
  BY <1>1 DEF RunType
<1>3. run' = [run EXCEPT ![r] = z] /\ UNCHANGED <<storeVars, active, history>>
  BY DEF Cancel
<1>4. z.status = "running"
  BY <1>1, <1>2 DEF Cancel, Active, Consistent
<1> HIDE DEF z
<1>5. Consistent(z) /\ Informed(z)
  BY <1>1, <1>2, <1>4 DEF Consistent, Informed
<1>6. RunsOK' /\ StoreOK'
  BY <1>2, <1>3, <1>5, RunTypes DEF storeVars, history, StoreOK
<1>7. \A q \in Runs : run'[q] = IF q = r THEN z ELSE run[q]
  BY <1>3 DEF RunsOK
<1> QED
  BY <1>2, <1>6, <1>7

(* An undo takes the top checkpoint of an ended run.                       *)
LEMMA UndoTypes ==
    ASSUME StoreOK, RunsOK, NEW r \in Runs, Undo(r)
    PROVE  /\ StoreOK' /\ RunsOK'
           /\ \A q \in Runs : /\ run'[q].status = run[q].status /\ run'[q].at = run[q].at
                              /\ run'[q].plan = run[q].plan /\ run'[q].seen = run[q].seen
                              /\ run'[q].todo = run[q].todo /\ run'[q].prev = run[q].prev
                              /\ q # r => run'[q].stack = run[q].stack
           /\ Len(run[r].stack) \in Nat \ {0}
           /\ run'[r].stack = SubSeq(run[r].stack, 1, Len(run[r].stack) - 1)
<1> DEFINE depth == Len(run[r].stack)
           z == [run[r] EXCEPT !.stack = SubSeq(@, 1, depth - 1)]
<1>1. run[r] \in RunType /\ Consistent(run[r]) /\ Informed(run[r]) /\ run[r].stack \in Seq(Content)
  BY DEF RunsOK, RunType
<1>2. depth \in Nat \ {0} /\ run[r].stack[depth] \in Content
  BY <1>1 DEF Undo
<1>3. SubSeq(run[r].stack, 1, depth - 1) \in Seq(Content)
  <2>1. \A i \in 1..(depth - 1) : run[r].stack[i] \in Content
    BY <1>1, <1>2
  <2> QED
    BY <1>2, <2>1, SubSeqProperties
<1>4. run' = [run EXCEPT ![r] = z]
  BY DEF Undo
<1> HIDE DEF depth
<1>5. /\ z \in RunType
      /\ z.status = run[r].status /\ z.at = run[r].at /\ z.plan = run[r].plan
      /\ z.seen = run[r].seen /\ z.todo = run[r].todo /\ z.prev = run[r].prev
      /\ z.stack = SubSeq(run[r].stack, 1, depth - 1)
  BY <1>1, <1>3 DEF RunType
<1>6. z.cancel => run[r].cancel
  BY <1>1 DEF RunType
<1> HIDE DEF z
<1>7. Consistent(z) /\ Informed(z)
  BY <1>1, <1>5, <1>6 DEF Consistent, Informed
<1>8. UNCHANGED <<known, edits, doc, meta, active, offered, base>>
  BY DEF Undo
<1>9. StoreOK'
  <2>1. <<"undo", r, depth>> \in Writer
    BY <1>2 DEF Writer
  <2>2. writes' = writes \cup {[by |-> <<"undo", r, depth>>, content |-> run[r].stack[depth]]}
    BY DEF Undo, depth
  <2>3. mixed' \subseteq Runs
    BY DEF Undo, Begun, StoreOK
  <2> QED
    BY <1>2, <1>8, <2>1, <2>2, <2>3 DEF StoreOK
<1>10. RunsOK'
  BY <1>4, <1>5, <1>7, <1>8, RunTypes
<1>11. \A q \in Runs : run'[q] = IF q = r THEN z ELSE run[q]
  BY <1>4 DEF RunsOK
<1> QED
  BY <1>2, <1>5, <1>9, <1>10, <1>11 DEF depth

LEMMA StoreTypes ==
    ASSUME StoreOK, RunsOK, Save \/ Reset \/ Record \/ \E w \in writes : Lands(w) \/ WriteFails(w)
    PROVE  StoreOK' /\ RunsOK'
<1>1. CASE Save
  <2>1. PICK content \in {{}, {Note}} \cup {doc \ {p} : p \in Entries(doc)} :
          writes' = writes \cup {[by |-> <<"user", 0, 0>>, content |-> content]}
    BY <1>1 DEF Save
  <2>2. content \in Content
    <3>1. {Note} \subseteq Pieces
      BY MemoryAssumption DEF Note, Pieces
    <3>2. ASSUME NEW p \in Entries(doc) PROVE doc \ {p} \subseteq Pieces
      BY <3>2 DEF StoreOK, Content, Entries
    <3> QED
      BY <3>1, <3>2 DEF Content
  <2>3. <<"user", 0, 0>> \in Writer
    BY DEF Writer
  <2>4. edits' \in 0..MaxUserEdits
    BY <1>1, MemoryAssumption DEF Save, StoreOK
  <2>5. mixed' \subseteq Runs /\ UNCHANGED <<known, doc, meta, active, run, offered, base>>
    BY <1>1 DEF Save, Begun, StoreOK, runVars
  <2> QED
    BY <2>1, <2>2, <2>3, <2>4, <2>5 DEF StoreOK, RunsOK, Informed
<1>2. CASE Reset
  <2>1. edits' \in 0..MaxUserEdits
    BY <1>2, MemoryAssumption DEF Reset, StoreOK
  <2>2. NoFile \in Content
    BY DEF Content
  <2>3. mixed' \subseteq Runs /\ UNCHANGED <<known, writes, active, run, offered, base>>
    BY <1>2 DEF Reset, Begun, StoreOK, runVars
  <2> QED
    BY <1>2, <2>1, <2>2, <2>3 DEF Reset, StoreOK, RunsOK, Informed
<1>3. CASE Record
  <2>1. known' \in 0..MaxEntities /\ 1..known \subseteq 1..known'
    BY <1>3, MemoryAssumption DEF Record, StoreOK
  <2>2. UNCHANGED <<edits, doc, meta, writes, active, run, offered, base, mixed>>
    BY <1>3 DEF Record, runVars, history
  <2> QED
    BY <2>1, <2>2 DEF StoreOK, RunsOK, Informed
<1>4. ASSUME NEW w \in writes, Lands(w) PROVE StoreOK' /\ RunsOK'
  <2>1. w.content \in Content
    BY DEF StoreOK
  <2> QED
    BY <1>4, <2>1 DEF Lands, StoreOK, RunsOK, Informed, runVars, history
<1>5. ASSUME NEW w \in writes, WriteFails(w) PROVE StoreOK' /\ RunsOK'
  <2>1. mixed' \subseteq Runs
    <3>1. w.by \in Writer /\ w.by[1] # "run"
      BY <1>5 DEF WriteFails, StoreOK
    <3>2. w.by[1] = "undo" => w.by[2] \in Runs
      BY <3>1 DEF Writer
    <3> QED
      BY <1>5, <3>2 DEF WriteFails, StoreOK
  <2> QED
    BY <1>5, <2>1 DEF WriteFails, StoreOK, RunsOK, Informed, runVars
<1> QED
  BY <1>1, <1>2, <1>3, <1>4, <1>5

LEMMA TypesHold == Spec => [](StoreOK /\ RunsOK)
<1>1. Init => StoreOK /\ RunsOK
  <2> SUFFICES ASSUME Init PROVE StoreOK /\ RunsOK
    OBVIOUS
  <2>1. NoFile \in Content /\ <<>> \in Seq(Content) /\ <<>> \in Seq(Passes)
    BY DEF Content
  <2>2. NoRun \in RunType /\ Consistent(NoRun) /\ Informed(NoRun)
    BY <2>1 DEF NoRun, RunType, Consistent, Informed
  <2>3. run = [r \in Runs |-> NoRun] /\ base = [r \in Runs |-> NoFile]
    BY DEF Init
  <2>4. 0 \in 0..MaxEntities /\ 0 \in 0..MaxUserEdits /\ 0 \in 0..MaxRuns
    BY MemoryAssumption
  <2> HIDE DEF NoRun
  <2>5. RunsOK
    BY <2>2, <2>3 DEF RunsOK
  <2>6. StoreOK
    BY <2>1, <2>3, <2>4 DEF Init, StoreOK
  <2> QED
    BY <2>5, <2>6
<1>2. StoreOK /\ RunsOK /\ [Next]_vars => StoreOK' /\ RunsOK'
  <2>1. StoreOK /\ RunsOK /\ UNCHANGED vars => StoreOK' /\ RunsOK'
    BY DEF vars, storeVars, runVars, history, StoreOK, RunsOK, Informed, Consistent
  <2> QED
    BY <2>1, StartTypes, TaskTypes, CancelTypes, UndoTypes, StoreTypes DEF Next
<1> QED
  BY <1>1, <1>2, PTL DEF Spec

(* Document, sidecar, threads and runs hold what they may.                 *)
THEOREM TypeCorrect == Spec => []TypeOK
BY TypesHold, TypeParts, PTL

-----------------------------------------------------------------------------
(* One active run.                                                         *)

ActiveIsNamed == \A r \in Runs : Active(r) => active = r

LEMMA ActiveStep ==
    ASSUME StoreOK, RunsOK, ActiveIsNamed, Next PROVE ActiveIsNamed'
<1>1. ASSUME NEW r \in Runs, NEW plan \in Plans, Start(r, plan) PROVE ActiveIsNamed'
  <2>1. \A q \in Runs : ~Active(q)
    BY <1>1, MemoryAssumption DEF Start, Busy, ActiveIsNamed, Runs
  <2>2. active' = r /\ \A q \in Runs : q # r => run'[q] = run[q]
    BY <1>1 DEF Start, RunsOK
  <2> QED
    BY <2>1, <2>2 DEF ActiveIsNamed, Active
<1>2. ASSUME NEW r \in Runs, Task(r) PROVE ActiveIsNamed'
  <2>1. TaskStep(r)
    BY <1>2, TaskTypes
  <2>2. PICK z \in RunType :
          /\ run' = [run EXCEPT ![r] = z]
          /\ \/ z.status \in Terminal /\ active' = 0
             \/ z.status = "running" /\ active' = active
    BY <2>1 DEF TaskStep
  <2>3. active = r /\ \A q \in Runs : q # r => ~Active(q)
    BY <2>1 DEF TaskStep, ActiveIsNamed
  <2>4. run'[r] = z /\ \A q \in Runs : q # r => run'[q] = run[q]
    BY <2>2 DEF RunsOK
  <2> QED
    BY <2>2, <2>3, <2>4 DEF ActiveIsNamed, Active, Terminal
<1>3. ASSUME active' = active, \A q \in Runs : run'[q].status = run[q].status
      PROVE  ActiveIsNamed'
  BY <1>3 DEF ActiveIsNamed, Active
<1>4. ASSUME NEW r \in Runs, Cancel(r) PROVE ActiveIsNamed'
  BY <1>3, <1>4, CancelTypes DEF Cancel
<1>5. ASSUME NEW r \in Runs, Undo(r) PROVE ActiveIsNamed'
  BY <1>3, <1>5, UndoTypes DEF Undo
<1>6. ASSUME Save \/ Reset \/ Record \/ \E w \in writes : Lands(w) \/ WriteFails(w)
      PROVE  ActiveIsNamed'
  BY <1>3, <1>6 DEF Save, Reset, Record, Lands, WriteFails, runVars
<1> QED
  BY <1>1, <1>2, <1>4, <1>5, <1>6 DEF Next

LEMMA ActiveHolds == Spec => []ActiveIsNamed
<1>1. Init => ActiveIsNamed
  BY DEF Init, NoRun, ActiveIsNamed, Active
<1>2. StoreOK /\ RunsOK /\ ActiveIsNamed /\ [Next]_vars => ActiveIsNamed'
  <2>1. ActiveIsNamed /\ UNCHANGED vars => ActiveIsNamed'
    BY DEF vars, runVars, ActiveIsNamed, Active
  <2> QED
    BY <2>1, ActiveStep
<1> QED
  BY <1>1, <1>2, TypesHold, PTL DEF Spec

(* A document has at most one active run, and so one copy in memory, at a  *)
(* time (RunManager.start, the finally clause of _drive).                  *)
THEOREM OneActiveRunHolds == Spec => []OneActiveRun
<1>1. ActiveIsNamed => OneActiveRun
  BY DEF ActiveIsNamed, OneActiveRun
<1> QED
  BY <1>1, ActiveHolds, PTL

-----------------------------------------------------------------------------
(* The watermark.                                                          *)

\* What an update has seen it has offered, or is going to.
InUpdate(x) == x.status \in {"queued", "running"} /\ Head(x.plan) = "update"
SeenInv ==
    /\ meta \subseteq offered
    /\ \A r \in Runs : InUpdate(run[r]) => run[r].seen \subseteq offered \cup run[r].todo

LEMMA OutcomeSeen ==
    ASSUME NEW r, NEW x, NEW z, Outcome(r, x, z), NEW O, meta \subseteq O,
           x.status = "running",
           Head(x.plan) = "update" => x.seen \subseteq O \cup x.todo
    PROVE  InUpdate(z) => z.seen \subseteq O \cup z.todo
<1>1. CASE Ends(x, z)
  BY <1>1 DEF Ends, InUpdate, Terminal
<1>2. CASE SamePass(x, z)
  BY <1>2 DEF SamePass, InUpdate
<1>3. CASE NewPass(z)
  BY <1>3 DEF NewPass, InUpdate
<1> QED
  BY <1>1, <1>2, <1>3 DEF Outcome

LEMMA StepSeen ==
    ASSUME RunsOK, SeenInv, NEW r \in Runs, NEW x \in RunType, x.status = "running",
           Step(r, x), offered \subseteq offered',
           Head(x.plan) = "update" => x.seen \subseteq offered' \cup x.todo,
           MetaMoves(x) \/ meta' \subseteq offered'
    PROVE  SeenInv'
<1>1. PICK z \in RunType : run' = [run EXCEPT ![r] = z] /\ Outcome(r, x, z)
  BY DEF Step
<1>2. meta \subseteq offered'
  BY DEF SeenInv
<1>3. InUpdate(z) => z.seen \subseteq offered' \cup z.todo
  BY <1>1, <1>2, OutcomeSeen
<1>4. meta' \subseteq offered'
  BY <1>2 DEF MetaMoves
<1>5. run'[r] = z /\ \A q \in Runs : q # r => run'[q] = run[q]
  BY <1>1 DEF RunsOK
<1>6. ASSUME NEW q \in Runs, InUpdate(run[q]) PROVE run[q].seen \subseteq offered' \cup run[q].todo
  BY <1>6 DEF SeenInv
<1>7. ASSUME NEW q \in Runs, InUpdate(run'[q])
      PROVE  run'[q].seen \subseteq offered' \cup run'[q].todo
  BY <1>3, <1>5, <1>6, <1>7
<1> QED
  BY <1>4, <1>7 DEF SeenInv, InUpdate

LEMMA TaskSeen ==
    ASSUME StoreOK, RunsOK, SeenInv, NEW r \in Runs, Task(r) PROVE SeenInv'
<1>1. run[r] \in RunType /\ Consistent(run[r])
  BY DEF RunsOK
<1>2. CASE Begin(r)
  <2>1. PICK x \in RunType :
          /\ x.status = "running" /\ x.plan = run[r].plan /\ x.todo = run[r].todo
          /\ x.seen = run[r].seen /\ Step(r, x)
    BY <1>2, BeginFacts
  <2>2. offered' = offered /\ run[r].status = "queued"
    BY <1>1, <1>2 DEF Begin, Consistent
  <2>3. Head(x.plan) = "update" => x.seen \subseteq offered' \cup x.todo
    BY <2>1, <2>2 DEF SeenInv, InUpdate
  <2>4. meta' \subseteq offered'
    <3>1. meta' = meta \/ (meta' = 1..known /\ (1..known) \ meta = {})
      BY <1>2 DEF Begin, Todo
    <3> QED
      BY <2>2, <3>1 DEF SeenInv
  <2> QED
    BY <2>1, <2>2, <2>3, <2>4, StepSeen
<1>3. CASE AnswerUpdate(r)
  <2>1. PICK x \in RunType :
          /\ x.status = "running" /\ x.plan = run[r].plan
          /\ x.todo = run[r].todo \ {Min(run[r].todo)}
          /\ x.seen = run[r].seen /\ Step(r, x) /\ MetaMoves(x)
    BY <1>3, AnswerUpdateFacts
  <2>2. offered' = offered \cup {Min(run[r].todo)} /\ run[r].status = "running"
    BY <1>1, <1>3 DEF AnswerUpdate, Consistent
  <2>3. Head(x.plan) = "update" => x.seen \subseteq offered' \cup x.todo
    BY <2>1, <2>2 DEF SeenInv, InUpdate
  <2> QED
    BY <2>1, <2>2, <2>3, StepSeen
<1>4. CASE AnswerEdit(r)
  <2>1. PICK x \in RunType :
          /\ x.status = "running" /\ Head(x.plan) = "edit" /\ Step(r, x) /\ MetaMoves(x)
    BY <1>4, AnswerEditFacts
  <2>2. offered' = offered
    BY <1>4 DEF AnswerEdit, history
  <2> QED
    BY <2>1, <2>2, StepSeen
<1>5. CASE Written(r)
  <2>1. PICK x \in RunType :
          /\ x.status = "running" /\ x.plan = run[r].plan /\ x.todo = run[r].todo
          /\ x.seen = run[r].seen /\ Step(r, x) /\ MetaMoves(x)
    BY <1>5, WrittenFacts
  <2>2. offered' = offered /\ run[r].status = "running"
    BY <1>1, <1>5 DEF Written, Consistent, history
  <2>3. Head(x.plan) = "update" => x.seen \subseteq offered' \cup x.todo
    BY <2>1, <2>2 DEF SeenInv, InUpdate
  <2> QED
    BY <2>1, <2>2, <2>3, StepSeen
<1>6. ASSUME NEW status \in Terminal, End(r, run[r], status), UNCHANGED <<meta, offered>>
      PROVE  SeenInv'
  <2>1. PICK z \in RunType : run' = [run EXCEPT ![r] = z] /\ Ends(run[r], z)
    BY <1>6, EndFacts
  <2>2. run'[r] = z /\ ~InUpdate(z) /\ \A q \in Runs : q # r => run'[q] = run[q]
    BY <2>1 DEF RunsOK, Ends, InUpdate, Terminal
  <2> QED
    BY <1>6, <2>2 DEF SeenInv, InUpdate
<1>7. CASE Fails(r) \/ Cancelled(r)
  BY <1>6, <1>7 DEF Fails, Cancelled, Terminal, history, storeVars
<1> QED
  BY <1>2, <1>3, <1>4, <1>5, <1>7 DEF Task

LEMMA SeenStep == ASSUME StoreOK, RunsOK, SeenInv, Next PROVE SeenInv'
<1>1. ASSUME NEW r \in Runs, NEW plan \in Plans, Start(r, plan) PROVE SeenInv'
  <2>1. run'[r].seen = {} /\ \A q \in Runs : q # r => run'[q] = run[q]
    BY <1>1 DEF Start, RunsOK, NoRun
  <2>2. UNCHANGED <<meta, offered>>
    BY <1>1 DEF Start, storeVars, history
  <2> QED
    BY <2>1, <2>2 DEF SeenInv, InUpdate
<1>2. ASSUME UNCHANGED offered, meta' \subseteq meta,
             \A q \in Runs : /\ run'[q].status = run[q].status /\ run'[q].plan = run[q].plan
                             /\ run'[q].seen = run[q].seen /\ run'[q].todo = run[q].todo
      PROVE  SeenInv'
  BY <1>2 DEF SeenInv, InUpdate
<1>3. ASSUME NEW r \in Runs, Cancel(r) PROVE SeenInv'
  <2>1. UNCHANGED <<meta, offered>>
    BY <1>3 DEF Cancel, storeVars, history
  <2> QED
    BY <1>2, <1>3, <2>1, CancelTypes
<1>4. ASSUME NEW r \in Runs, Undo(r) PROVE SeenInv'
  <2>1. UNCHANGED <<meta, offered>>
    BY <1>4 DEF Undo
  <2> QED
    BY <1>2, <1>4, <2>1, UndoTypes
<1>5. ASSUME Save \/ Reset \/ Record \/ \E w \in writes : Lands(w) \/ WriteFails(w)
      PROVE  SeenInv'
  <2>1. UNCHANGED <<run, offered>> /\ meta' \subseteq meta
    BY <1>5 DEF Save, Reset, Record, Lands, WriteFails, runVars, history
  <2> QED
    BY <1>2, <2>1
<1> QED
  BY <1>1, <1>3, <1>4, <1>5, TaskSeen DEF Next

(* An entity the meta sidecar calls seen has been put to a model, for any  *)
(* plans, and however runs end (save_l2_meta comes after the last chunk).  *)
THEOREM SeenWasOfferedHolds == Spec => []SeenWasOffered
<1>1. Init => SeenInv
  BY DEF Init, NoRun, SeenInv, InUpdate
<1>2. StoreOK /\ RunsOK /\ SeenInv /\ [Next]_vars => SeenInv'
  <2>1. SeenInv /\ UNCHANGED vars => SeenInv'
    BY DEF vars, storeVars, runVars, history, SeenInv, InUpdate
  <2> QED
    BY <2>1, SeenStep
<1>3. SeenInv => SeenWasOffered
  BY DEF SeenInv, SeenWasOffered
<1> QED
  BY <1>1, <1>2, <1>3, TypesHold, PTL DEF Spec

-----------------------------------------------------------------------------
(* Undo.  A begun run that is not mixed is alone with its document: only    *)
(* its own write or undo is in flight, no other run is active, and what    *)
(* the document or the lowest checkpoint holds is the document it found.   *)
ByRun(r, w) == w.by = <<"run", r, 0>>
ByUndo(r, w) == w.by[1] = "undo" /\ w.by[2] = r

Clean(r, y, W, d, b) ==
    /\ y.stack # <<>> => y.stack[1] = b
    /\ y.at = "llm" => W = {} /\ (y.stack = <<>> => d = b)
    /\ y.at = "write" => /\ \A w \in W : ByRun(r, w)
                         /\ W # {} => d = y.prev
                         /\ \A v, w \in W : v = w
                         /\ y.stack = <<>> => y.prev = b
    /\ y.at = "over" => /\ \A w \in W : ByUndo(r, w) /\ (y.stack = <<>> => w.content = b)
                        /\ W = {} /\ y.stack = <<>> => d = b

Alone(r) == \A q \in Runs \ {r} : run[q].status # "running"

UndoInv ==
    /\ \A r \in Begun \ mixed : Clean(r, run[r], writes, doc, base[r]) /\ Alone(r)
    /\ \A r \in Runs \ Begun : run[r].stack = <<>>

(* A task that goes on with no write in flight stays clean.                *)
LEMMA OutcomeClean ==
    ASSUME NEW r, NEW x, NEW z, Outcome(r, x, z), NEW b, writes = {}, doc' = doc,
           x.stack # <<>> => x.stack[1] = b,
           x.stack = <<>> => doc = b
    PROVE  Clean(r, z, writes', doc', b)
<1>1. CASE Ends(x, z) /\ writes' = writes
  BY <1>1 DEF Ends, Clean
<1>2. CASE Asks(x, z)
  BY <1>2 DEF Asks, Clean
<1>3. ASSUME NEW c, Writes(r, x, z, c) PROVE Clean(r, z, writes', doc', b)
  <2>1. PICK new : new = [by |-> <<"run", r, 0>>, content |-> c]
    OBVIOUS
  <2>2. ByRun(r, new) /\ writes' = {new}
    BY <1>3, <2>1 DEF Writes, ByRun
  <2>3. z.at = "write" /\ z.stack = x.stack /\ z.prev = doc
    BY <1>3 DEF Writes
  <2> QED
    BY <2>2, <2>3 DEF Clean
<1> QED
  BY <1>1, <1>2, <1>3 DEF Outcome

(* A task runs beside no other, so every other begun run is mixed.         *)
LEMMA OthersAreMixed ==
    ASSUME UndoInv, NEW r \in Runs, run[r].status = "running", NEW q \in Begun \ {r}
    PROVE  q \in mixed
BY DEF UndoInv, Alone, Begun

(* The invariant after a step of the task of r, which becomes z.           *)
LEMMA TaskKeepsUndo ==
    ASSUME RunsOK, ActiveIsNamed, UndoInv, NEW r \in Runs, Active(r), NEW z,
           run' = [run EXCEPT ![r] = z], z.status \in {"running"} \cup Terminal,
           \A q \in Begun \ {r} : q \in mixed',
           r \notin mixed' => Clean(r, z, writes', doc', base'[r])
    PROVE  UndoInv'
<1>1. run'[r] = z /\ \A q \in Runs : q # r => run'[q] = run[q]
  BY DEF RunsOK
<1>2. \A q \in Runs : q # r => (q \in Begun' <=> q \in Begun)
  BY <1>1 DEF Begun
<1>3. r \in Begun'
  BY <1>1 DEF Begun, Terminal
<1>4. \A q \in Runs \ {r} : run'[q].status # "running"
  BY <1>1 DEF ActiveIsNamed, Active
<1>5. ASSUME NEW q \in Begun' \ mixed'
      PROVE  Clean(q, run[q], writes, doc, base[q])' /\ Alone(q)'
  <2>1. q \in Runs
    BY DEF Begun
  <2>2. q = r
    BY <1>2, <1>5, <2>1
  <2>3. Alone(r)'
    BY <1>4 DEF Alone
  <2>4. Clean(r, z, writes', doc', base'[r])
    BY <1>5, <2>2
  <2> QED
    BY <1>1, <2>2, <2>3, <2>4 DEF Clean
<1>6. ASSUME NEW q \in Runs \ Begun' PROVE run'[q].stack = <<>>
  BY <1>1, <1>2, <1>3, <1>6 DEF UndoInv
<1> QED
  BY <1>5, <1>6 DEF UndoInv

LEMMA StepUndo ==
    ASSUME RunsOK, ActiveIsNamed, UndoInv, NEW r \in Runs, Active(r),
           NEW x \in RunType, x.status = "running", Step(r, x), doc' = doc,
           \A q \in Begun \ {r} : q \in mixed',
           r \notin mixed' => /\ writes = {}
                              /\ x.stack # <<>> => x.stack[1] = base'[r]
                              /\ x.stack = <<>> => doc = base'[r]
    PROVE  UndoInv'
<1>1. PICK z \in RunType : run' = [run EXCEPT ![r] = z] /\ Outcome(r, x, z)
  BY DEF Step
<1>2. z.status \in {"running"} \cup Terminal
  BY <1>1 DEF Outcome, Ends, Asks, Writes
<1>3. r \notin mixed' => Clean(r, z, writes', doc', base'[r])
  BY <1>1, OutcomeClean
<1> QED
  BY <1>1, <1>2, <1>3, TaskKeepsUndo

LEMMA AppendFacts ==
    ASSUME NEW S, NEW s \in Seq(S), NEW e \in S
    PROVE  /\ Append(s, e) # <<>>
           /\ Append(s, e)[1] = IF s = <<>> THEN e ELSE s[1]
<1>1. Len(Append(s, e)) = Len(s) + 1 /\ Len(s) \in Nat
  OBVIOUS
<1>2. CASE s = <<>>
  BY <1>2
<1>3. CASE s # <<>>
  <2>1. Len(s) >= 1 /\ 1 \in 1..Len(s)
    BY <1>3
  <2> QED
    BY <1>1, <1>3, <2>1
<1> QED
  BY <1>2, <1>3

LEMMA TaskUndo ==
    ASSUME StoreOK, RunsOK, ActiveIsNamed, UndoInv, NEW r \in Runs, Task(r) PROVE UndoInv'
<1>1. run[r] \in RunType /\ Consistent(run[r]) /\ Active(r)
  BY TaskTypes DEF RunsOK, TaskStep
<1>2. ASSUME run[r].status = "running", mixed \subseteq mixed'
      PROVE  /\ \A q \in Begun \ {r} : q \in mixed'
             /\ r \notin mixed' => Clean(r, run[r], writes, doc, base[r])
  <2>1. r \in Begun
    BY <1>2 DEF Begun
  <2> QED
    BY <1>2, <2>1, OthersAreMixed DEF UndoInv
<1>3. CASE Begin(r)
  <2>1. PICK x \in RunType : x.status = "running" /\ x.stack = run[r].stack /\ Step(r, x)
    BY <1>3, BeginFacts
  <2>2. run[r].stack = <<>>
    <3>1. r \in Runs \ Begun
      BY <1>1, <1>3 DEF Begin, Consistent, Begun
    <3> QED
      BY <3>1 DEF UndoInv
  <2>3. base'[r] = doc /\ doc' = doc /\ Begun \subseteq mixed' /\ (r \notin mixed' => writes = {})
    BY <1>3 DEF Begin, StoreOK
  <2> QED
    BY <1>1, <2>1, <2>2, <2>3, StepUndo
<1>4. CASE AnswerUpdate(r) \/ AnswerEdit(r)
  <2>1. PICK x \in RunType : x.status = "running" /\ x.stack = run[r].stack /\ Step(r, x)
    BY <1>4, AnswerUpdateFacts, AnswerEditFacts
  <2>2. UNCHANGED <<doc, base, mixed>> /\ run[r].at = "llm"
    BY <1>4 DEF AnswerUpdate, AnswerEdit, history
  <2>3. run[r].status = "running"
    BY <1>1, <2>2 DEF Consistent
  <2>4. r \notin mixed' => /\ writes = {}
                           /\ x.stack # <<>> => x.stack[1] = base'[r]
                           /\ x.stack = <<>> => doc = base'[r]
    BY <1>2, <2>1, <2>2, <2>3 DEF Clean
  <2>5. \A q \in Begun \ {r} : q \in mixed'
    BY <1>2, <2>2, <2>3
  <2> QED
    BY <1>1, <2>1, <2>2, <2>4, <2>5, StepUndo
<1>5. CASE Written(r)
  <2>1. PICK x \in RunType :
          x.status = "running" /\ x.stack = Append(run[r].stack, run[r].prev) /\ Step(r, x)
    BY <1>5, WrittenFacts
  <2>2. UNCHANGED <<doc, base, mixed>> /\ run[r].at = "write" /\ OwnWrites(r) = {}
    BY <1>5 DEF Written, history
  <2>3. run[r].status = "running"
    BY <1>1, <2>2 DEF Consistent
  <2>4. ASSUME r \notin mixed' PROVE writes = {} /\ x.stack # <<>> /\ x.stack[1] = base'[r]
    <3>1. Clean(r, run[r], writes, doc, base[r])
      BY <1>2, <2>2, <2>3, <2>4
    <3>2. /\ run[r].stack # <<>> => run[r].stack[1] = base[r]
          /\ run[r].stack = <<>> => run[r].prev = base[r]
          /\ \A w \in writes : ByRun(r, w)
      BY <2>2, <3>1 DEF Clean
    <3>3. writes = {}
      BY <2>2, <3>2 DEF OwnWrites, ByRun
    <3>4. run[r].stack \in Seq(Content) /\ run[r].prev \in Content
      BY <1>1 DEF RunType
    <3> QED
      BY <2>1, <2>2, <3>2, <3>3, <3>4, AppendFacts
  <2>5. \A q \in Begun \ {r} : q \in mixed'
    BY <1>2, <2>2, <2>3
  <2> QED
    BY <1>1, <2>1, <2>2, <2>4, <2>5, StepUndo
<1>6. ASSUME NEW status \in Terminal, End(r, run[r], status), run[r].status = "running",
             mixed \subseteq mixed', UNCHANGED <<doc, base>>, 
             r \notin mixed' => /\ writes' = {}
                                /\ run[r].stack = <<>> => doc = base[r]
      PROVE  UndoInv'
  <2>1. PICK z \in RunType : run' = [run EXCEPT ![r] = z] /\ Ends(run[r], z)
    BY <1>6, EndFacts
  <2>2. /\ \A q \in Begun \ {r} : q \in mixed'
        /\ r \notin mixed' => Clean(r, run[r], writes, doc, base[r])
    BY <1>2, <1>6
  <2>3. r \notin mixed' => Clean(r, z, writes', doc', base'[r])
    BY <1>6, <2>1, <2>2 DEF Clean, Ends
  <2>4. z.status \in {"running"} \cup Terminal
    BY <2>1 DEF Ends
  <2> QED
    BY <1>1, <2>1, <2>2, <2>3, <2>4, TaskKeepsUndo
<1>7. CASE Fails(r)
  <2>1. /\ run[r].at \in {"llm", "write"} /\ writes' = writes \ OwnWrites(r)
        /\ run[r].at = "write" => OwnWrites(r) # {}
        /\ End(r, run[r], "error") /\ UNCHANGED <<doc, base, mixed>>
    BY <1>7 DEF Fails, history
  <2>2. run[r].status = "running"
    BY <1>1, <2>1 DEF Consistent
  <2>3. ASSUME r \notin mixed' PROVE writes' = {} /\ (run[r].stack = <<>> => doc = base[r])
    <3>1. Clean(r, run[r], writes, doc, base[r])
      BY <1>2, <2>1, <2>2, <2>3
    <3> QED
      BY <2>1, <3>1 DEF Clean, OwnWrites, ByRun
  <2> QED
    BY <1>6, <2>1, <2>2, <2>3 DEF Terminal
<1>8. CASE Cancelled(r)
  <2>1. /\ End(r, run[r], "cancelled") /\ run[r].cancel /\ UNCHANGED <<doc, writes, base>>
        /\ mixed' = IF run[r].at = "write" THEN mixed \cup {r} ELSE mixed
    BY <1>8 DEF Cancelled, storeVars
  <2>2. run[r].status = "running" /\ run[r].at \in {"llm", "write"}
    BY <1>1, <2>1 DEF Consistent
  <2>3. mixed \subseteq mixed'
    BY <2>1
  <2>4. ASSUME r \notin mixed' PROVE writes' = {} /\ (run[r].stack = <<>> => doc = base[r])
    <3>1. Clean(r, run[r], writes, doc, base[r]) /\ run[r].at = "llm"
      BY <1>2, <2>1, <2>2, <2>3, <2>4
    <3> QED
      BY <2>1, <3>1 DEF Clean
  <2> QED
    BY <1>6, <2>1, <2>2, <2>3, <2>4 DEF Terminal
<1> QED
  BY <1>3, <1>4, <1>5, <1>7, <1>8 DEF Task

LEMMA FrontFacts ==
    ASSUME NEW S, NEW s \in Seq(S), s # <<>>
    PROVE  /\ SubSeq(s, 1, Len(s) - 1) # <<>> => SubSeq(s, 1, Len(s) - 1)[1] = s[1]
           /\ SubSeq(s, 1, Len(s) - 1) = <<>> => Len(s) = 1
<1>1. PICK n \in Nat : n = Len(s) - 1
  BY EmptySeq, LenProperties
<1>2. \A i \in 1..n : s[i] \in S
  BY <1>1
<1>3. /\ Len(SubSeq(s, 1, n)) = n
      /\ \A i \in 1..n : SubSeq(s, 1, n)[i] = s[i]
  BY <1>1, <1>2, SubSeqProperties
<1>4. CASE n = 0
  BY <1>1, <1>3, <1>4
<1>5. CASE n # 0
  <2>1. SubSeq(s, 1, n)[1] = s[1]
    BY <1>1, <1>3, <1>5
  <2>2. SubSeq(s, 1, n) # <<>>
    BY <1>1, <1>3, <1>5
  <2> QED
    BY <1>1, <2>1, <2>2
<1> QED
  BY <1>4, <1>5

(* A user who undoes: the checkpoint goes back, the lowest one last.       *)
LEMMA UndoUndo ==
    ASSUME StoreOK, RunsOK, UndoInv, NEW r \in Runs, Undo(r) PROVE UndoInv'
<1> DEFINE s == run[r].stack
           d == Len(run[r].stack)
<1>1. /\ \A q \in Runs : /\ run'[q].status = run[q].status /\ run'[q].at = run[q].at
                         /\ run'[q].prev = run[q].prev
                         /\ q # r => run'[q].stack = run[q].stack
      /\ d \in Nat \ {0} /\ run'[r].stack = SubSeq(s, 1, d - 1)
  BY UndoTypes
<1>2. /\ s \in Seq(Content) /\ Consistent(run[r])
      /\ ~Active(r) /\ UNCHANGED <<doc, base>>
  BY DEF RunsOK, RunType, Undo
<1>3. Begun' = Begun
  BY <1>1 DEF Begun
<1>4. s # <<>>
  BY <1>1, <1>2
<1>5. r \in Begun /\ run[r].at = "over"
  BY <1>2, <1>4 DEF UndoInv, Consistent, Active, Begun, RunsOK, RunType
<1>6. ASSUME NEW q \in Begun \ mixed'
      PROVE  Clean(q, run'[q], writes', doc', base'[q]) /\ Alone(q)'
  <2>1. q = r /\ r \notin mixed /\ UndosOf(r) = {}
    BY <1>6 DEF Undo
  <2>2. Clean(r, run[r], writes, doc, base[r]) /\ Alone(r)
    BY <1>5, <2>1 DEF UndoInv
  <2>3. \A w \in writes : ByUndo(r, w)
    BY <1>5, <2>2 DEF Clean
  <2>4. writes = {} /\ s[1] = base[r]
    BY <1>4, <2>1, <2>2, <2>3 DEF Clean, UndosOf, ByUndo
  <2>5. PICK new : new = [by |-> <<"undo", r, d>>, content |-> s[d]]
    OBVIOUS
  <2>6. ByUndo(r, new) /\ new.content = s[d]
    BY <2>5 DEF ByUndo
  <2>7. writes' = {new}
    BY <2>4, <2>5 DEF Undo
  <2>8. /\ SubSeq(s, 1, d - 1) # <<>> => SubSeq(s, 1, d - 1)[1] = s[1]
        /\ SubSeq(s, 1, d - 1) = <<>> => d = 1
    BY <1>2, <1>4, FrontFacts
  <2>9. Alone(r)'
    BY <1>1, <2>2 DEF Alone
  <2>10. run'[r].at = "over"
    BY <1>1, <1>5
  <2> HIDE DEF s, d
  <2>11. Clean(r, run'[r], writes', doc', base'[r])
    BY <1>1, <1>2, <2>4, <2>6, <2>7, <2>8, <2>10 DEF Clean
  <2> QED
    BY <2>1, <2>9, <2>11
<1>7. ASSUME NEW q \in Runs \ Begun PROVE run'[q].stack = <<>>
  BY <1>1, <1>5, <1>7 DEF UndoInv
<1>8. \A q \in Begun' \ mixed' : Clean(q, run'[q], writes', doc', base'[q]) /\ Alone(q)'
  BY <1>3, <1>6
<1> QED
  BY <1>3, <1>7, <1>8 DEF UndoInv

(* The threads.                                                            *)
LEMMA WritesUndo ==
    ASSUME StoreOK, RunsOK, UndoInv, NEW w \in writes, Lands(w) \/ WriteFails(w)
    PROVE  UndoInv'
<1>1. /\ UNCHANGED <<run, base>> /\ writes' = writes \ {w} /\ mixed \subseteq mixed'
      /\ Begun' = Begun /\ \A q : Alone(q)' <=> Alone(q)
  BY DEF Lands, WriteFails, runVars, history, Begun, Alone
<1>2. ASSUME NEW r \in Begun, r \notin mixed' PROVE Clean(r, run[r], writes', doc', base[r])
  <2>1. Clean(r, run[r], writes, doc, base[r])
    BY <1>1, <1>2 DEF UndoInv
  <2>2. CASE Lands(w)
    <3>1. doc' = w.content
      BY <2>2 DEF Lands
    <3>2. CASE run[r].at = "write"
      BY <1>1, <2>1, <3>1, <3>2 DEF Clean
    <3>3. CASE run[r].at = "over"
      BY <1>1, <2>1, <3>1, <3>3 DEF Clean
    <3> QED
      BY <2>1, <3>2, <3>3 DEF Clean
  <2>3. CASE WriteFails(w)
    <3>1. ~ByRun(r, w) /\ ~ByUndo(r, w)
      BY <1>2, <2>3 DEF WriteFails, ByRun, ByUndo
    <3>2. run[r].at # "llm" /\ run[r].at # "write" /\ run[r].at # "over"
      BY <2>1, <3>1 DEF Clean
    <3> QED
      BY <2>1, <3>2 DEF Clean
  <2> QED
    BY <2>2, <2>3
<1>3. \A r \in Begun' \ mixed' : Clean(r, run'[r], writes', doc', base'[r]) /\ Alone(r)'
  BY <1>1, <1>2 DEF UndoInv
<1>4. \A r \in Runs \ Begun' : run'[r].stack = <<>>
  BY <1>1 DEF UndoInv
<1> QED
  BY <1>3, <1>4 DEF UndoInv

LEMMA UndoStep ==
    ASSUME StoreOK, RunsOK, ActiveIsNamed, UndoInv, Next PROVE UndoInv'
<1>1. ASSUME UNCHANGED <<writes, doc, base, mixed>>, 
             \A q \in Runs : \/ /\ run'[q].status = run[q].status /\ run'[q].at = run[q].at
                                /\ run'[q].prev = run[q].prev /\ run'[q].stack = run[q].stack
                             \/ q \notin Begun /\ run'[q].status = "queued" /\ run'[q].stack = <<>>
      PROVE  UndoInv'
  <2>1. Begun' = Begun
    BY <1>1 DEF Begun
  <2>2. ASSUME NEW q \in Begun' \ mixed'
        PROVE  Clean(q, run'[q], writes', doc', base'[q]) /\ Alone(q)'
    <3>1. Clean(q, run[q], writes, doc, base[q]) /\ Alone(q)
      BY <1>1, <2>1, <2>2 DEF UndoInv
    <3>2. /\ run'[q].at = run[q].at
          /\ run'[q].prev = run[q].prev /\ run'[q].stack = run[q].stack
      BY <1>1, <2>1, <2>2 DEF Begun
    <3>3. Alone(q)'
      BY <1>1, <3>1 DEF Alone
    <3> QED
      BY <1>1, <3>1, <3>2, <3>3 DEF Clean
  <2>3. \A q \in Runs \ Begun' : run'[q].stack = <<>>
    BY <1>1, <2>1 DEF UndoInv
  <2> QED
    BY <2>2, <2>3 DEF UndoInv
<1>2. ASSUME NEW r \in Runs, NEW plan \in Plans, Start(r, plan) PROVE UndoInv'
  <2>1. /\ r \notin Begun /\ run'[r].status = "queued" /\ run'[r].stack = <<>>
        /\ \A q \in Runs : q # r => run'[q] = run[q]
        /\ UNCHANGED <<writes, doc, base, mixed>>
    BY <1>2 DEF Start, Begun, RunsOK, NoRun, storeVars, history
  <2> QED
    BY <1>1, <2>1
<1>3. ASSUME NEW r \in Runs, Cancel(r) PROVE UndoInv'
  <2>1. UNCHANGED <<writes, doc, base, mixed>>
    BY <1>3 DEF Cancel, storeVars, history
  <2> QED
    BY <1>1, <1>3, <2>1, CancelTypes
<1>4. CASE Record
  BY <1>1, <1>4 DEF Record, runVars, history
<1>5. CASE Save \/ Reset
  <2>1. run' = run /\ Begun' = Begun /\ Begun \subseteq mixed'
    BY <1>5 DEF Save, Reset, runVars, Begun
  <2> QED
    BY <2>1 DEF UndoInv
<1> QED
  BY <1>2, <1>3, <1>4, <1>5, TaskUndo, UndoUndo, WritesUndo DEF Next

(* Undoing every checkpoint of an ended run gives back the document its    *)
(* task found (push_undo_checkpoint, undo_last), for any plan and any      *)
(* number of writes, under the conditions the property states.             *)
THEOREM UndoReturnsToStartHolds == Spec => []UndoReturnsToStart
<1>1. Init => UndoInv
  BY DEF Init, NoRun, UndoInv, Begun
<1>2. StoreOK /\ RunsOK /\ ActiveIsNamed /\ UndoInv /\ [Next]_vars => UndoInv'
  <2>1. UndoInv /\ UNCHANGED vars => UndoInv'
    BY DEF vars, storeVars, runVars, history, UndoInv, Begun, Alone, Clean
  <2> QED
    BY <2>1, UndoStep
<1>3. RunsOK /\ UndoInv => UndoReturnsToStart
  BY DEF RunsOK, UndoInv, UndoReturnsToStart, Consistent, Clean, Begun, Terminal, RunType
<1> QED
  BY <1>1, <1>2, <1>3, TypesHold, ActiveHolds, PTL DEF Spec
=============================================================================
