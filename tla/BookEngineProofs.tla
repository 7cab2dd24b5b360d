--------------------------- MODULE BookEngineProofs ---------------------------
(***************************************************************************)
(* Proofs about BookEngine.  Every action is first shown to be one of a    *)
(* few kinds of steps (Kinds): a compilation, another request, the worker  *)
(* dropping a page or ending, a confirmation or rebuild, a deletion, a     *)
(* restart.  The invariant BookInv is then preserved by each kind.         *)
(***************************************************************************)
EXTENDS BookEngine, TLAPS, SequenceTheorems, FiniteSetTheorems

(* The fields and types of pages and tasks. *)

Blocks == Seq(BlockStatus)
Status == {"pending", "planning", "generating", "ready", "partial", "error"}
At == {"off", "get", "spine", "plan", "generate", "insert", "regenerate"}
Task(n) == [at : At, page : 0..n, copy : Page, block : Nat]

\* A page that is not in the middle of a compilation.
Settled(page) == page.status \notin {"planning", "generating"}

USE DEF Blocks, Status, At, Task

-----------------------------------------------------------------------------
(* Pages: what the helpers make of them. *)

LEMMA PageFields ==
    ASSUME NEW page \in Page
    PROVE  /\ page.chapter \in 1..MaxChapters
           /\ page.status \in Status
           /\ page.blocks \in Blocks
  BY DEF Page

LEMMA WithBlocks ==
    ASSUME NEW page \in Page, NEW b \in Blocks
    PROVE  /\ [page EXCEPT !.blocks = b] \in Page
           /\ [page EXCEPT !.blocks = b].status = page.status
           /\ [page EXCEPT !.blocks = b].chapter = page.chapter
           /\ [page EXCEPT !.blocks = b].blocks = b
  BY DEF Page

LEMMA WithStatus ==
    ASSUME NEW page \in Page, NEW s \in Status
    PROVE  /\ [page EXCEPT !.status = s] \in Page
           /\ [page EXCEPT !.status = s].status = s
           /\ [page EXCEPT !.status = s].chapter = page.chapter
           /\ [page EXCEPT !.status = s].blocks = page.blocks
  BY DEF Page

LEMMA FinalizedIsSettled ==
    ASSUME NEW page \in Page
    PROVE  Finalized(page) \in Page /\ Settled(Finalized(page))
<1> DEFINE ready == {i \in 1..Len(page.blocks) : Done(page.blocks[i])}
           s == IF ready = {} THEN "error"
                ELSE IF Cardinality(ready) = Len(page.blocks) THEN "ready" ELSE "partial"
<1>1. s \in Status /\ s \notin {"planning", "generating"}
  OBVIOUS
<1>2. Finalized(page) = [page EXCEPT !.status = s]
  BY DEF Finalized
<1> HIDE DEF s
<1>3. /\ [page EXCEPT !.status = s] \in Page
      /\ [page EXCEPT !.status = s].status = s
  BY <1>1, WithStatus
<1> QED
  BY <1>1, <1>2, <1>3, Zenon DEF Settled

LEMMA BlockChanged ==
    ASSUME NEW page \in Page, NEW i, NEW x \in BlockStatus
    PROVE  /\ [page EXCEPT !.blocks[i] = x] \in Page
           /\ [page EXCEPT !.blocks[i] = x].status = page.status
<1> DEFINE b == [page.blocks EXCEPT ![i] = x]
<1>1. page.blocks \in Blocks
  BY PageFields
<1>2. PICK n \in Nat : page.blocks \in [1..n -> BlockStatus]
  <2>1. Len(page.blocks) \in Nat /\ page.blocks \in [1..Len(page.blocks) -> BlockStatus]
    BY <1>1
  <2> QED
    BY <2>1
<1>3. b \in [1..n -> BlockStatus]
  BY <1>2
<1>4. b \in Blocks
  BY <1>3, SeqDef, ZenonT(30)
<1>5. [page EXCEPT !.blocks[i] = x] = [page EXCEPT !.blocks = b]
  BY DEF Page
<1> HIDE DEF b
<1> QED
  BY <1>4, <1>5, WithBlocks

LEMMA AppendedPage ==
    ASSUME NEW page \in Page, NEW x \in BlockStatus
    PROVE  /\ Appended(page, x) \in Page
           /\ Appended(page, x).status = page.status
<1>1. Append(page.blocks, x) \in Blocks
  BY PageFields
<1> QED
  BY <1>1, WithBlocks DEF Appended

LEMMA RemovedPage ==
    ASSUME NEW page \in Page, NEW i \in 1..Len(page.blocks)
    PROVE  [page EXCEPT !.blocks = RemoveAt(@, i)] \in Page
<1> DEFINE b == page.blocks
<1>0. b \in Seq(BlockStatus) /\ Len(b) \in Nat
  BY PageFields
<1>1. SubSeq(b, 1, i - 1) \in Seq(BlockStatus)
  BY <1>0, SubSeqProperties
<1>2. SubSeq(b, i + 1, Len(b)) \in Seq(BlockStatus)
  BY <1>0, SubSeqProperties
<1>3. RemoveAt(b, i) \in Blocks
  BY <1>1, <1>2, ConcatProperties DEF RemoveAt
<1> QED
  BY <1>3, WithBlocks

LEMMA ResetPage ==
    ASSUME NEW page \in Page
    PROVE  Reset(page) \in Page /\ Settled(Reset(page))
<1> DEFINE b == [i \in 1..Len(page.blocks) |-> IF page.blocks[i] = "note" THEN "note" ELSE "pending"]
           p == [page EXCEPT !.blocks = b]
<1>1. Len(page.blocks) \in Nat
  BY PageFields
<1>2. b \in [1..Len(page.blocks) -> BlockStatus]
  BY DEF BlockStatus
<1>3. b \in Blocks
  BY <1>1, <1>2, SeqDef, ZenonT(30)
<1>4. Reset(page) = [p EXCEPT !.status = "pending"]
  BY DEF Reset, Page
<1>5. p \in Page
  BY <1>3, WithBlocks
<1> HIDE DEF b, p
<1> QED
  BY <1>4, <1>5, WithStatus, ZenonT(30) DEF Settled

LEMMA NoPageIsPage ==
    ASSUME NEW c \in 1..MaxChapters
    PROVE  [NoPage EXCEPT !.chapter = c] \in Page /\ Settled([NoPage EXCEPT !.chapter = c])
<1> DEFINE p == [chapter |-> c, status |-> "pending", blocks |-> <<>>]
<1>1. [NoPage EXCEPT !.chapter = c] = p
  BY DEF NoPage
<1>2. <<>> \in Seq(BlockStatus)
  OBVIOUS
<1>3. p \in Page
  BY <1>2 DEF Page
<1> QED
  BY <1>1, <1>3 DEF Settled

-----------------------------------------------------------------------------
(* The kinds of steps. *)

\* A task saves page p and goes on compiling it, or is done with it.
CompileStep(t, p) ==
    \E page \in Page, next \in Task(made) :
      /\ stored' = [stored EXCEPT ![p] = page]
      /\ task' = [task EXCEPT ![t] = next]
      /\ book' \in {book, "ready"}
      /\ \/ next.at \in {"plan", "generate"} /\ next.page = p /\ queued' = queued
         \/ /\ Settled(page) /\ next = Idle(t)
            /\ queued' = IF t = Worker THEN queued \ {p} ELSE queued

\* The task was compiling the page, is the worker that takes it, or a request
\* that starts on it.
Compilation ==
    \E t \in Tasks, p \in 0..made :
      /\ CompileStep(t, p)
      /\ UNCHANGED <<spine, chapters, made, edits>>
      /\ \/ Compiles(t, p) /\ UNCHANGED <<queue, interrupted>>
         \/ /\ t = Worker /\ task[t].at = "get" /\ queue # <<>> /\ p = Head(queue)
            /\ p \in Pages /\ Exists(p)
            /\ queue' = Tail(queue) /\ interrupted' = interrupted \ {p}
         \/ /\ t \in Requests /\ task[t].at = "off"
            /\ p \in Pages /\ Exists(p)
            /\ queue' = queue /\ interrupted' = interrupted \ {p}

\* A request that compiles nothing: it may save a page that exists or that it
\* holds, settled or with the status it has.
RequestSaves ==
    \/ stored' = stored
    \/ \E p \in 0..made, page \in Page :
         /\ stored' = [stored EXCEPT ![p] = page]
         /\ Settled(page) \/ (p \in Pages /\ Exists(p) /\ page.status = stored[p].status)
         /\ (p \in Pages /\ Exists(p)) \/ \E r \in Requests : task[r].page = p

RequestMoves ==
    \/ task' = task
    \/ \E r \in Requests, next \in Task(made) :
         /\ task' = [task EXCEPT ![r] = next]
         /\ task[r].at \notin {"plan", "generate"} /\ next.at \notin {"plan", "generate"}

RequestStep ==
    /\ RequestSaves /\ RequestMoves
    /\ book' \in {book, "ready", "spine_ready"}
    /\ chapters' \in chapters..MaxChapters /\ spine' \subseteq 1..chapters'
    /\ edits' \in 0..MaxEdits
    /\ UNCHANGED <<made, queue, queued, interrupted>>

\* The worker drops a page it does not compile, or ends.
WorkerStep ==
    /\ task[Worker].at = "get"
    /\ UNCHANGED <<files, edits, interrupted>>
    /\ \/ /\ queue # <<>> /\ queue' = Tail(queue)
          /\ queued' = queued \ {Head(queue)} /\ task' = task
       \/ /\ queue = <<>> /\ UNCHANGED runtime
          /\ task' = [task EXCEPT ![Worker] = Off]

\* New pages over the pages in disk, some of the unfinished ones into the queue.
Shelled(disk, q, marked, tasks) ==
    /\ made' \in made..MaxPages
    /\ stored' \in [Pages -> Page \cup {Absent}]
    /\ \A p \in Pages : /\ p <= made => stored'[p] = disk[p]
                        /\ p > made => stored'[p] = Absent \/ Settled(stored'[p])
                        /\ p > made' => stored'[p] = Absent
    /\ spine' \subseteq 1..chapters
    /\ book' \in {"compiling", "spine_ready"}
    /\ \E open \in Seq(1..made') :
         /\ \A i, j \in 1..Len(open) : open[i] = open[j] => i = j
         /\ \A i \in 1..Len(open) : open[i] \notin marked
         /\ queue' = q \o open
         /\ queued' = marked \cup {open[i] : i \in 1..Len(open)}
         /\ task' = tasks \/ task' = Ensured(tasks)
         /\ open # <<>> => task' = Ensured(tasks)
    /\ UNCHANGED <<chapters, edits>>

Confirmation == Shelled(stored, queue, queued, task) /\ UNCHANGED interrupted
Rebuilding ==
    /\ Shelled([p \in Pages |-> Absent], <<>>, {}, CancelsWorker)
    /\ interrupted' = {}

Kinds ==
    Compilation \/ RequestStep \/ WorkerStep \/ Confirmation \/ Rebuilding
    \/ DeleteBook \/ Restart \/ UNCHANGED vars

LEMMA Bounds ==
    /\ MaxBlocks \in Nat /\ MaxChapters \in Nat /\ MaxPages \in Nat /\ MaxEdits \in Nat
    /\ PlanSize \in Nat /\ Worker \in Tasks /\ Worker \notin Requests
  BY BookAssumption DEF Tasks

LEMMA OffIsTask ==
    ASSUME NEW n \in Nat
    PROVE  Off \in Task(n) /\ [Off EXCEPT !.at = "get"] \in Task(n)
<1>1. <<>> \in Seq(BlockStatus) /\ 1 \in 1..MaxChapters
  BY BookAssumption
<1>2. NoPage \in Page
  BY <1>1 DEF NoPage, Page
<1>3. /\ Off = [at |-> "off", page |-> 0, copy |-> NoPage, block |-> 0]
      /\ [Off EXCEPT !.at = "get"] = [at |-> "get", page |-> 0, copy |-> NoPage, block |-> 0]
  BY DEF Off
<1> QED
  BY <1>2, <1>3

LEMMA TaskGrows ==
    ASSUME NEW m \in Nat, NEW n \in Nat, m <= n
    PROVE  Task(m) \subseteq Task(n)
  OBVIOUS

LEMMA IdleIsTask ==
    ASSUME NEW t, NEW n \in Nat
    PROVE  /\ Idle(t) \in Task(n)
           /\ Idle(t).at = IF t = Worker THEN "get" ELSE "off"
  BY OffIsTask DEF Idle, Off

LEMMA EnsuredTasks ==
    ASSUME NEW n \in Nat, NEW tasks \in [Tasks -> Task(n)]
    PROVE  /\ Ensured(tasks) \in [Tasks -> Task(n)]
           /\ Ensured(tasks)[Worker].at # "off"
           /\ \A t \in Tasks \ {Worker} : Ensured(tasks)[t] = tasks[t]
           /\ tasks[Worker].at # "off" => Ensured(tasks) = tasks
           /\ tasks[Worker].at = "off" => Ensured(tasks)[Worker].at = "get"
  BY Bounds DEF Ensured

-----------------------------------------------------------------------------
(* Every action is a step of one of these kinds. *)

LEMMA GenerateKind ==
    ASSUME TypeOK, NEW t \in Tasks, NEW p \in 0..made, NEW page \in Page, NEW i \in Nat,
           Generate(t, p, page, i)
    PROVE  CompileStep(t, p)
<1> DEFINE todo == {j \in i..Len(page.blocks) : ~Done(page.blocks[j])}
           busy == [page EXCEPT !.status = "generating"]
<1>0. made \in Nat /\ Len(page.blocks) \in Nat
  BY PageFields DEF TypeOK
<1>1. CASE \E j \in todo :
             /\ Saved(p, busy)
             /\ task' = [task EXCEPT ![t] = [at |-> "generate", page |-> p, copy |-> busy,
                                             block |-> j]]
             /\ UNCHANGED <<book, queued>>
  <2>1. PICK j \in todo :
             /\ Saved(p, busy)
             /\ task' = [task EXCEPT ![t] = [at |-> "generate", page |-> p, copy |-> busy,
                                             block |-> j]]
             /\ UNCHANGED <<book, queued>>
    BY <1>1
  <2>2. j \in Nat
    BY <1>0
  <2>3. busy \in Page
    BY WithStatus
  <2> DEFINE next == [at |-> "generate", page |-> p, copy |-> busy, block |-> j]
  <2> HIDE DEF busy
  <2>4. next \in Task(made) /\ next.at = "generate" /\ next.page = p
    BY <2>2, <2>3
  <2> HIDE DEF next
  <2> QED
    BY <2>1, <2>3, <2>4 DEF CompileStep, Saved, next
<1>2. CASE /\ Saved(p, Finalized(page))
           /\ FinalizeBook(p, Finalized(page))
           /\ task' = [task EXCEPT ![t] = Idle(t)]
           /\ queued' = IF t = Worker THEN queued \ {p} ELSE queued
  <2>1. book' \in {book, "ready"}
    BY <1>2 DEF FinalizeBook
  <2> QED
    BY <1>0, <1>2, <2>1, FinalizedIsSettled, IdleIsTask DEF CompileStep, Saved
<1> QED
  BY <1>1, <1>2 DEF Generate

LEMMA StartKind ==
    ASSUME TypeOK, NEW t \in Tasks, NEW p \in 0..made, NEW page \in Page,
           StartCompile(t, p, page)
    PROVE  CompileStep(t, p) /\ interrupted' = interrupted \ {p}
<1> DEFINE planning == [page EXCEPT !.status = "planning"]
           next == [at |-> "plan", page |-> p, copy |-> planning, block |-> 0]
<1>1. CASE page.blocks = <<>>
  <2>1. planning \in Page
    BY WithStatus
  <2>2. /\ Saved(p, planning) /\ task' = [task EXCEPT ![t] = next]
        /\ UNCHANGED <<book, queued>>
    BY <1>1 DEF StartCompile
  <2> HIDE DEF planning
  <2>3. next \in Task(made) /\ next.at = "plan" /\ next.page = p
    BY <2>1
  <2> HIDE DEF next
  <2> QED
    BY <2>1, <2>2, <2>3 DEF CompileStep, Saved, StartCompile
<1>2. CASE page.blocks # <<>>
  BY <1>2, GenerateKind DEF StartCompile
<1> QED
  BY <1>1, <1>2 DEF StartCompile

LEMMA TaskType ==
    ASSUME TypeOK, NEW t \in Tasks
    PROVE  /\ task[t] \in Task(made) /\ task[t].at \in At /\ task[t].page \in 0..made
           /\ task[t].copy \in Page /\ task[t].block \in Nat
<1>1. task[t] \in Task(made)
  BY DEF TypeOK
<1> QED
  BY <1>1

LEMMA StoredType ==
    ASSUME TypeOK, NEW p \in Pages, Exists(p)
    PROVE  stored[p] \in Page /\ p \in 1..made /\ made \in Nat
  BY Bounds DEF TypeOK, Pages, Exists

LEMMA TaskSet ==
    ASSUME TypeOK, NEW t \in Tasks, NEW page \in Page, NEW p \in 0..made, NEW i \in Nat,
           NEW at \in At
    PROVE  [at |-> at, page |-> p, copy |-> page, block |-> i] \in Task(made)
  OBVIOUS

LEMMA PlannedKind ==
    ASSUME TypeOK, NEW t \in Tasks, Planned(t)
    PROVE  Compilation
<1> DEFINE b == [i \in 1..PlanSize |-> "pending"]
           p == task[t].page
<1>1. b \in Blocks
  <2>1. b \in [1..PlanSize -> BlockStatus]
    BY DEF BlockStatus
  <2> QED
    BY <2>1, Bounds, SeqDef, ZenonT(30)
<1>2. [task[t].copy EXCEPT !.blocks = b] \in Page
  BY <1>1, TaskType, WithBlocks
<1>3. p \in 0..made
  BY TaskType
<1>4. Generate(t, p, [task[t].copy EXCEPT !.blocks = b], 1)
  BY DEF Planned
<1>5. CompileStep(t, p)
  <2> HIDE DEF b, p
  <2> QED
    BY <1>2, <1>3, <1>4, GenerateKind
<1>6. Compiles(t, p)
  BY DEF Planned, Compiles
<1>7. UNCHANGED <<spine, chapters, made, queue, edits, interrupted>>
  BY DEF Planned
<1> QED
  BY <1>3, <1>5, <1>6, <1>7 DEF Compilation

LEMMA GeneratedKind ==
    ASSUME TypeOK, NEW t \in Tasks, Generated(t)
    PROVE  Compilation
<1> DEFINE p == task[t].page
           page(x) == [task[t].copy EXCEPT !.blocks[task[t].block] = x]
<1>1. PICK result \in {"ready", "error"} : Generate(t, p, page(result), task[t].block + 1)
  BY DEF Generated
<1>2. result \in BlockStatus
  BY DEF BlockStatus
<1>3. page(result) \in Page
  BY <1>2, TaskType, BlockChanged
<1>4. p \in 0..made /\ task[t].block + 1 \in Nat
  BY TaskType
<1>5. CompileStep(t, p)
  <2> HIDE DEF page, p
  <2> QED
    BY <1>1, <1>3, <1>4, GenerateKind
<1>6. Compiles(t, p)
  BY DEF Generated, Compiles
<1>7. UNCHANGED <<spine, chapters, made, queue, edits, interrupted>>
  BY DEF Generated
<1> QED
  BY <1>4, <1>5, <1>6, <1>7 DEF Compilation

LEMMA QueueType ==
    ASSUME TypeOK, queue # <<>>
    PROVE  /\ Head(queue) \in 1..made /\ Head(queue) \in Pages
           /\ Len(queue) \in Nat \ {0} /\ Head(queue) = queue[1]
           /\ Tail(queue) \in Seq(1..made) /\ Len(Tail(queue)) = Len(queue) - 1
           /\ \A i \in 1..Len(Tail(queue)) : Tail(queue)[i] = queue[i + 1]
<1>1. queue \in Seq(1..made) /\ made \in 0..MaxPages
  BY DEF TypeOK
<1> QED
  BY <1>1, Bounds DEF Pages

LEMMA TakeKind ==
    ASSUME TypeOK, Take
    PROVE  Compilation \/ WorkerStep
<1> DEFINE p == Head(queue)
           compiles == book # "none" /\ Exists(p) /\ stored[p].status # "ready"
                         /\ InSpine(stored[p].chapter)
<1>1. /\ task[Worker].at = "get" /\ queue # <<>> /\ queue' = Tail(queue)
      /\ \/ compiles /\ StartCompile(Worker, p, stored[p])
         \/ ~compiles /\ Unqueue(p) /\ UNCHANGED <<book, stored, task, interrupted>>
      /\ UNCHANGED <<spine, chapters, made, edits>>
  BY DEF Take
<1>2. p \in 0..made /\ p \in Pages
  BY <1>1, QueueType
<1>3. CASE compiles /\ StartCompile(Worker, p, stored[p])
  <2>1. stored[p] \in Page
    BY <1>2, <1>3, StoredType
  <2>2. CompileStep(Worker, p) /\ interrupted' = interrupted \ {p}
    <3>1. StartCompile(Worker, p, stored[p]) /\ Worker \in Tasks
      BY <1>3, Bounds
    <3> HIDE DEF p
    <3> QED
      BY <1>2, <2>1, <3>1, StartKind
  <2> QED
    BY <1>1, <1>2, <1>3, <2>2, Bounds DEF Compilation
<1>4. CASE ~compiles /\ Unqueue(p) /\ UNCHANGED <<book, stored, task, interrupted>>
  BY <1>1, <1>4 DEF WorkerStep, Unqueue, files
<1> QED
  BY <1>1, <1>3, <1>4

LEMMA RequestFrame ==
    ASSUME TypeOK, RequestSaves, RequestMoves, book' \in {book, "ready", "spine_ready"},
           UNCHANGED <<spine, chapters>>, edits' \in 0..MaxEdits,
           UNCHANGED <<made, runtime, interrupted>>
    PROVE  RequestStep
<1>1. chapters' \in chapters..MaxChapters /\ spine' \subseteq 1..chapters'
  BY Bounds DEF TypeOK
<1> QED
  BY <1>1 DEF RequestStep, runtime

LEMMA CompilePageKind ==
    ASSUME TypeOK, NEW r \in Requests, NEW p \in Pages, CompilePage(r, p)
    PROVE  Compilation \/ RequestStep
<1> DEFINE page(force) == IF force THEN Reset(stored[p]) ELSE stored[p]
<1>1. /\ task[r].at = "off" /\ Exists(p)
      /\ UNCHANGED <<spine, chapters, made, queue, edits>>
  BY DEF CompilePage
<1>2. PICK force \in BOOLEAN :
        \/ StartCompile(r, p, page(force))
        \/ /\ force /\ Saved(p, page(force))
           /\ UNCHANGED <<book, queued, task, interrupted>>
  BY DEF CompilePage
<1>3. stored[p] \in Page /\ p \in 0..made /\ made \in Nat /\ r \in Tasks
  BY <1>1, StoredType DEF Tasks
<1>4. page(force) \in Page /\ (force => Settled(page(force)))
  BY <1>3, ResetPage
<1> HIDE DEF page
<1>5. CASE StartCompile(r, p, page(force))
  <2>1. CompileStep(r, p) /\ interrupted' = interrupted \ {p}
    BY <1>3, <1>4, <1>5, StartKind
  <2> QED
    BY <1>1, <1>3, <2>1 DEF Compilation
<1>6. CASE /\ force /\ Saved(p, page(force))
           /\ UNCHANGED <<book, queued, task, interrupted>>
  <2>1. RequestSaves
    BY <1>1, <1>3, <1>4, <1>6 DEF RequestSaves, Saved
  <2>2. RequestMoves
    BY <1>6 DEF RequestMoves
  <2>3. edits' \in 0..MaxEdits
    BY <1>1 DEF TypeOK
  <2> QED
    BY <1>1, <1>6, <2>1, <2>2, <2>3, RequestFrame DEF runtime
<1> QED
  BY <1>2, <1>5, <1>6

LEMMA StageKinds ==
    ASSUME TypeOK, NEW r \in Requests, ConfirmProposal(r) \/ SpineReady(r) \/ SpineFails(r)
    PROVE  RequestStep
<1>0. /\ r \in Tasks /\ chapters \in 0..MaxChapters /\ made \in Nat /\ MaxChapters \in Nat
      /\ spine \subseteq 1..chapters /\ edits \in 0..MaxEdits
  BY Bounds DEF TypeOK, Tasks
<1>1. Off \in Task(made) /\ Off.at = "off"
  BY <1>0, OffIsTask DEF Off
<1>2. CASE ConfirmProposal(r)
  <2> DEFINE next == [task[r] EXCEPT !.at = "spine"]
  <2>1. next \in Task(made) /\ next.at = "spine" /\ task[r].at = "off"
    BY <1>0, <1>2, TaskType DEF ConfirmProposal
  <2>2. task' = [task EXCEPT ![r] = next]
    BY <1>2 DEF ConfirmProposal
  <2> HIDE DEF next
  <2>3. RequestMoves
    BY <2>1, <2>2 DEF RequestMoves
  <2>4. RequestSaves
    BY <1>2 DEF ConfirmProposal, RequestSaves, files
  <2> QED
    BY <1>0, <1>2, <2>3, <2>4, RequestFrame DEF ConfirmProposal, files
<1>3. ASSUME SpineReady(r) \/ SpineFails(r)
      PROVE  RequestMoves
  <2>1. task[r].at = "spine" /\ task' = [task EXCEPT ![r] = Off]
    BY <1>3 DEF SpineReady, SpineFails
  <2> QED
    BY <1>1, <2>1 DEF RequestMoves
<1>4. CASE SpineReady(r)
  <2>1. PICK n \in 1..2 :
             /\ chapters + n <= MaxChapters /\ chapters' = chapters + n
             /\ spine' = (chapters + 1)..(chapters + n)
    BY <1>4 DEF SpineReady
  <2>2. chapters' \in chapters..MaxChapters /\ spine' \subseteq 1..chapters'
    BY <1>0, <2>1
  <2>3. RequestSaves
    BY <1>4 DEF SpineReady, RequestSaves
  <2> QED
    BY <1>0, <1>3, <1>4, <2>2, <2>3 DEF SpineReady, RequestStep, runtime
<1>5. CASE SpineFails(r)
  <2>1. RequestSaves
    BY <1>5 DEF SpineFails, RequestSaves, files
  <2> QED
    BY <1>0, <1>3, <1>5, <2>1, RequestFrame DEF SpineFails, files
<1> QED
  BY <1>2, <1>4, <1>5

LEMMA PageSaved ==
    ASSUME TypeOK, NEW p \in Pages, Exists(p), NEW page \in Page, Saved(p, page),
           Settled(page) \/ page.status = stored[p].status
    PROVE  RequestSaves
<1>1. p \in 0..made
  BY StoredType
<1> QED
  BY <1>1 DEF RequestSaves, Saved

LEMMA EditedOnce ==
    ASSUME TypeOK, NEW p, Edit(p)
    PROVE  Exists(p) /\ edits' \in 0..MaxEdits
  BY Bounds DEF TypeOK, Edit

LEMMA EditTask ==
    ASSUME TypeOK, NEW r \in Requests, NEW p \in 0..made, NEW page \in Page, NEW i \in Nat,
           NEW at \in {"insert", "regenerate"}, task[r].at = "off",
           task' = [task EXCEPT ![r] = [at |-> at, page |-> p, copy |-> page, block |-> i]]
    PROVE  RequestMoves
<1> DEFINE next == [at |-> at, page |-> p, copy |-> page, block |-> i]
<1>1. next \in Task(made) /\ next.at = at
  OBVIOUS
<1> HIDE DEF next
<1>2. task' = [task EXCEPT ![r] = next]
  BY DEF next
<1> QED
  BY <1>1, <1>2 DEF RequestMoves

LEMMA NoteAndDeleteKinds ==
    ASSUME TypeOK, NEW p \in Pages, InsertNote(p) \/ \E i \in 1..MaxBlocks : DeleteBlock(p, i)
    PROVE  RequestStep
<1>1. Edit(p) /\ UNCHANGED <<book, task>> /\ EditRest
  BY DEF InsertNote, DeleteBlock
<1>2. Exists(p) /\ edits' \in 0..MaxEdits /\ stored[p] \in Page
  BY <1>1, EditedOnce, StoredType
<1>3. RequestSaves
  <2>1. CASE InsertNote(p)
    <3>1. "note" \in BlockStatus
      BY DEF BlockStatus
    <3>2. Saved(p, Appended(stored[p], "note"))
      BY <2>1 DEF InsertNote
    <3> QED
      BY <1>2, <3>1, <3>2, AppendedPage, PageSaved
  <2>2. CASE \E i \in 1..MaxBlocks : DeleteBlock(p, i)
    <3>1. PICK i \in 1..Len(stored[p].blocks) :
            Saved(p, Finalized([stored[p] EXCEPT !.blocks = RemoveAt(@, i)]))
      BY <2>2 DEF DeleteBlock
    <3> DEFINE page == [stored[p] EXCEPT !.blocks = RemoveAt(@, i)]
    <3>2. page \in Page
      BY <1>2, RemovedPage
    <3> HIDE DEF page
    <3>3. Finalized(page) \in Page /\ Settled(Finalized(page))
      BY <3>2, FinalizedIsSettled
    <3>4. Saved(p, Finalized(page))
      BY <3>1 DEF page
    <3> QED
      BY <1>2, <3>3, <3>4, PageSaved
  <2> QED
    BY <2>1, <2>2
<1>4. RequestMoves
  BY <1>1 DEF RequestMoves
<1> QED
  BY <1>1, <1>2, <1>3, <1>4, RequestFrame DEF EditRest

LEMMA InsertKind ==
    ASSUME TypeOK, NEW r \in Requests, NEW p \in Pages, InsertBlock(r, p)
    PROVE  RequestStep
<1> DEFINE page == Appended(stored[p], "pending")
<1>1. Edit(p) /\ UNCHANGED book /\ EditRest /\ task[r].at = "off"
  BY DEF InsertBlock
<1>2. Exists(p) /\ edits' \in 0..MaxEdits /\ stored[p] \in Page /\ p \in 0..made
  BY <1>1, EditedOnce, StoredType
<1>3. page \in Page /\ page.status = stored[p].status
  <2>1. "pending" \in BlockStatus
    BY DEF BlockStatus
  <2> QED
    BY <1>2, <2>1, AppendedPage
<1>4. /\ Saved(p, page)
      /\ task' = [task EXCEPT ![r] = [at |-> "insert", page |-> p, copy |-> page,
                                      block |-> Len(page.blocks)]]
  BY DEF InsertBlock
<1> HIDE DEF page
<1>5. Len(page.blocks) \in Nat
  BY <1>3, PageFields
<1>6. RequestSaves
  BY <1>2, <1>3, <1>4, PageSaved
<1>7. RequestMoves
  BY <1>1, <1>2, <1>3, <1>4, <1>5, EditTask
<1> QED
  BY <1>1, <1>2, <1>6, <1>7, RequestFrame DEF EditRest

LEMMA RegenerateKind ==
    ASSUME TypeOK, NEW r \in Requests, NEW p \in Pages, NEW i \in 1..MaxBlocks,
           Regenerate(r, p, i)
    PROVE  RequestStep
<1> DEFINE changed == [stored[p] EXCEPT !.blocks[i] = "pending"]
           holds(page) == task' = [task EXCEPT ![r] = [at |-> "regenerate", page |-> p,
                                                       copy |-> page, block |-> i]]
<1>1. Edit(p) /\ UNCHANGED book /\ EditRest /\ task[r].at = "off"
  BY DEF Regenerate
<1>2. Exists(p) /\ edits' \in 0..MaxEdits /\ stored[p] \in Page /\ p \in 0..made /\ i \in Nat
  BY <1>1, EditedOnce, StoredType, Bounds
<1>3. changed \in Page /\ changed.status = stored[p].status
  <2>1. "pending" \in BlockStatus
    BY DEF BlockStatus
  <2> QED
    BY <1>2, <2>1, BlockChanged
<1>4. \/ holds(stored[p]) /\ UNCHANGED stored
      \/ Saved(p, changed) /\ holds(changed)
  BY DEF Regenerate
<1> HIDE DEF changed
<1>5. RequestSaves
  <2>1. CASE UNCHANGED stored
    BY <2>1 DEF RequestSaves
  <2>2. CASE Saved(p, changed)
    BY <1>2, <1>3, <2>2, PageSaved
  <2> QED
    BY <1>4, <2>1, <2>2
<1>6. RequestMoves
  BY <1>1, <1>2, <1>3, <1>4, EditTask
<1> QED
  BY <1>1, <1>2, <1>5, <1>6, RequestFrame DEF EditRest

LEMMA EditDoneKind ==
    ASSUME TypeOK, NEW r \in Requests, EditDone(r)
    PROVE  RequestStep
<1> DEFINE copy(x) == [task[r].copy EXCEPT !.blocks[task[r].block] = x]
           p == task[r].page
<1>0. r \in Tasks
  BY DEF Tasks
<1>1. /\ task[r].at \in {"insert", "regenerate"}
      /\ task' = [task EXCEPT ![r] = Off]
      /\ UNCHANGED <<spine, chapters, made, runtime, edits, interrupted>>
  BY DEF EditDone
<1>2. PICK result \in {"note", "ready", "error"} :
        /\ Saved(p, Finalized(copy(result)))
        /\ IF task[r].at = "insert" THEN UNCHANGED book
           ELSE FinalizeBook(p, Finalized(copy(result)))
  <2>1. PICK result \in IF task[r].copy.blocks[task[r].block] = "note" THEN {"note"}
                        ELSE {"ready", "error"} :
          LET page == Finalized(copy(result))
          IN  /\ Saved(p, page)
              /\ IF task[r].at = "insert" THEN UNCHANGED book ELSE FinalizeBook(p, page)
    BY Zenon DEF EditDone, AfterEdit
  <2>2. result \in {"note", "ready", "error"}
    OBVIOUS
  <2> QED
    BY <2>1, <2>2
<1>3. copy(result) \in Page
  <2>1. result \in BlockStatus
    BY DEF BlockStatus
  <2> QED
    BY <1>0, <2>1, TaskType, BlockChanged
<1> HIDE DEF copy
<1>4. Finalized(copy(result)) \in Page /\ Settled(Finalized(copy(result)))
  BY <1>3, FinalizedIsSettled
<1>5. p \in 0..made /\ made \in Nat
  BY <1>0, TaskType DEF TypeOK
<1>6. RequestSaves
  BY <1>2, <1>4, <1>5 DEF RequestSaves, Saved
<1>7. RequestMoves
  BY <1>1, <1>5, OffIsTask DEF RequestMoves, Off
<1>8. book' \in {book, "ready"}
  BY <1>2 DEF FinalizeBook
<1>9. edits' \in 0..MaxEdits
  BY <1>1 DEF TypeOK
<1> QED
  BY <1>1, <1>6, <1>7, <1>8, <1>9, RequestFrame

\* SetToSeqs(S) are the sequences that hold each element of S once.
LEMMA Enumerations ==
    ASSUME NEW S, IsFiniteSet(S), NEW s \in SetToSeqs(S)
    PROVE  /\ s \in Seq(S) /\ Len(s) = Cardinality(S) /\ Cardinality(S) \in Nat
           /\ \A i \in 1..Len(s) : s[i] \in S
           /\ \A i, j \in 1..Len(s) : s[i] = s[j] => i = j
<1>1. Cardinality(S) \in Nat
  BY FS_CardinalityType
<1>2. /\ s \in [1..Cardinality(S) -> S]
      /\ \A i, j \in 1..Cardinality(S) : i # j => s[i] # s[j]
  BY Zenon DEF SetToSeqs
<1>3. s \in Seq(S)
  BY <1>1, <1>2, SeqDef, ZenonT(30)
<1>4. Len(s) = Cardinality(S)
  BY <1>1, <1>2
<1> QED
  BY <1>1, <1>2, <1>3, <1>4, Zenon

LEMMA FiniteBook == IsFiniteSet(1..MaxChapters) /\ IsFiniteSet(Pages)
<1>1. 1 \in Int /\ MaxChapters \in Int /\ MaxPages \in Int
  BY Bounds
<1> QED
  BY <1>1, FS_Interval, Zenon DEF Pages

LEMMA ShellPages ==
    ASSUME TypeOK, NEW disk \in [Pages -> Page \cup {Absent}],
           \A p \in Pages : p > made => disk[p] = Absent,
           NEW last \in made..MaxPages, made' = last, NEW bare \in SUBSET (1..MaxChapters),
           last = made + Cardinality(bare), NEW shell \in SetToSeqs(bare),
           stored' = [p \in Pages |-> IF p \in (made + 1)..last
                                     THEN [NoPage EXCEPT !.chapter = shell[p - made]]
                                     ELSE disk[p]]
    PROVE  /\ stored' \in [Pages -> Page \cup {Absent}]
           /\ \A p \in Pages : /\ p <= made => stored'[p] = disk[p]
                               /\ p > made => stored'[p] = Absent \/ Settled(stored'[p])
                               /\ p > made' => stored'[p] = Absent
<1>1. IsFiniteSet(bare)
  BY FiniteBook, FS_Subset
<1>2. /\ Len(shell) = Cardinality(bare) /\ Cardinality(bare) \in Nat
      /\ \A i \in 1..Len(shell) : shell[i] \in bare
  BY <1>1, Enumerations
<1>3. made \in Nat /\ last \in Nat /\ MaxPages \in Nat
  BY Bounds DEF TypeOK
<1>4. ASSUME NEW p \in Pages, p \in (made + 1)..last
      PROVE  stored'[p] \in Page /\ Settled(stored'[p])
  <2>1. p - made \in 1..Len(shell)
    BY <1>2, <1>3, <1>4
  <2>2. shell[p - made] \in 1..MaxChapters
    BY <1>2, <2>1
  <2>3. stored'[p] = [NoPage EXCEPT !.chapter = shell[p - made]]
    BY <1>4
  <2> QED
    BY <2>2, <2>3, NoPageIsPage
<1>5. ASSUME NEW p \in Pages, p \notin (made + 1)..last
      PROVE  stored'[p] = disk[p]
  BY <1>5
<1>6. stored' \in [Pages -> Page \cup {Absent}]
  <2>1. \A p \in Pages : stored'[p] \in Page \cup {Absent}
    BY <1>4, <1>5
  <2>2. \A p \in Pages : (IF p \in (made + 1)..last
                          THEN [NoPage EXCEPT !.chapter = shell[p - made]]
                          ELSE disk[p]) \in Page \cup {Absent}
    BY <2>1
  <2> QED
    BY <2>2
<1>7. ASSUME NEW p \in Pages
      PROVE  /\ p <= made => stored'[p] = disk[p]
             /\ p > made => stored'[p] = Absent \/ Settled(stored'[p])
             /\ p > made' => stored'[p] = Absent
  <2>1. p \in Int
    BY DEF Pages
  <2>2. p <= made => p \notin (made + 1)..last
    BY <1>3, <2>1
  <2>3. p > made => p \in (made + 1)..last \/ p > last
    BY <1>3, <2>1
  <2>4. p > last => p \notin (made + 1)..last /\ p > made
    BY <1>3, <2>1
  <2> QED
    BY <1>4, <1>5, <2>2, <2>3, <2>4
<1> QED
  BY <1>6, <1>7

LEMMA SeqOfElements ==
    ASSUME NEW S, NEW T, NEW s \in Seq(S), \A i \in 1..Len(s) : s[i] \in T
    PROVE  s \in Seq(T)
<1>1. Len(s) \in Nat /\ s \in [1..Len(s) -> S]
  OBVIOUS
<1>2. s \in [1..Len(s) -> T]
  BY <1>1
<1> QED
  BY <1>1, <1>2, SeqDef

LEMMA EnqueueKind ==
    ASSUME TypeOK, made' \in made..MaxPages, NEW pages \in SUBSET Pages,
           \A p \in pages : p \in 1..made',
           NEW q, NEW marked, NEW tasks, Enqueue(pages, q, marked, tasks)
    PROVE  \E open \in Seq(1..made') :
             /\ \A i, j \in 1..Len(open) : open[i] = open[j] => i = j
             /\ \A i \in 1..Len(open) : open[i] \notin marked
             /\ queue' = q \o open
             /\ queued' = marked \cup {open[i] : i \in 1..Len(open)}
             /\ task' = Ensured(tasks)
<1> DEFINE todo == {p \in pages \ marked : stored'[p].status # "ready"}
<1>1. PICK open \in SetToSeqs(todo) :
         queue' = q \o open /\ queued' = marked \cup {open[i] : i \in 1..Len(open)}
  BY DEF Enqueue
<1>2. IsFiniteSet(todo)
  BY FiniteBook, FS_Subset
<1>3. /\ open \in Seq(todo)
      /\ \A i \in 1..Len(open) : open[i] \in todo
      /\ \A i, j \in 1..Len(open) : open[i] = open[j] => i = j
  <2> HIDE DEF todo
  <2> QED
    BY <1>2, Enumerations
<1>4. todo \subseteq 1..made' /\ todo \cap marked = {}
  OBVIOUS
<1> HIDE DEF todo
<1>5. open \in Seq(1..made') /\ \A i \in 1..Len(open) : open[i] \notin marked
  <2>1. open \in Seq(1..made')
    <3>1. \A i \in 1..Len(open) : open[i] \in 1..made'
      BY <1>3, <1>4, Zenon
    <3> QED
      BY <1>3, <3>1, SeqOfElements
  <2> QED
    BY <1>3, <1>4, <2>1, Zenon
<1>6. task' = Ensured(tasks)
  BY DEF Enqueue
<1> QED
  BY <1>1, <1>3, <1>5, <1>6, Zenon

LEMMA ShellsKind ==
    ASSUME TypeOK, NEW disk \in [Pages -> Page \cup {Absent}],
           \A p \in Pages : p > made => disk[p] = Absent,
           NEW q \in Seq(1..made), NEW marked, NEW tasks,
           NEW confirmed \in SUBSET spine, NEW auto \in BOOLEAN,
           Shells(confirmed, disk, q, marked, tasks, auto), UNCHANGED <<chapters, edits>>
    PROVE  Shelled(disk, q, marked, tasks)
<1> DEFINE bare == {c \in confirmed : \A p \in Pages : disk[p] = Absent \/ disk[p].chapter # c}
           last == made + Cardinality(bare)
<1>0. /\ made \in Nat /\ MaxPages \in Nat /\ MaxChapters \in Nat
      /\ confirmed \subseteq 1..chapters /\ chapters \in 0..MaxChapters
  BY Bounds DEF TypeOK
<1>1. bare \in SUBSET (1..MaxChapters)
  <2>1. bare \subseteq confirmed
    BY Zenon
  <2>2. 1..chapters \subseteq 1..MaxChapters
    BY <1>0
  <2> QED
    BY <1>0, <2>1, <2>2, Zenon
<1>2. Cardinality(bare) \in Nat
  <2> HIDE DEF bare
  <2> QED
    BY <1>1, FiniteBook, FS_Subset, FS_CardinalityType
<1>3. /\ last <= MaxPages /\ made' = last
      /\ \E shell \in SetToSeqs(bare) :
           stored' = [p \in Pages |-> IF p \in (made + 1)..last
                                     THEN [NoPage EXCEPT !.chapter = shell[p - made]]
                                     ELSE disk[p]]
      /\ spine' = confirmed
      /\ book' = IF auto THEN "compiling" ELSE "spine_ready"
      /\ IF auto THEN Enqueue(Listed(confirmed, stored'), q, marked, tasks)
         ELSE queue' = q /\ queued' = marked /\ task' = tasks
  BY Zenon DEF Shells
<1>4. last \in made..MaxPages /\ made' \in made..MaxPages
  <2> HIDE DEF bare
  <2> QED
    BY <1>0, <1>2, <1>3
<1>5. /\ stored' \in [Pages -> Page \cup {Absent}]
      /\ \A p \in Pages : /\ p <= made => stored'[p] = disk[p]
                          /\ p > made => stored'[p] = Absent \/ Settled(stored'[p])
                          /\ p > made' => stored'[p] = Absent
  <2>1. PICK shell \in SetToSeqs(bare) :
           stored' = [p \in Pages |-> IF p \in (made + 1)..last
                                     THEN [NoPage EXCEPT !.chapter = shell[p - made]]
                                     ELSE disk[p]]
    BY <1>3
  <2>2. made' = last /\ last = made + Cardinality(bare)
    BY <1>3
  <2> HIDE DEF bare, last
  <2> QED
    BY <1>1, <1>4, <2>1, <2>2, ShellPages
<1> HIDE DEF bare, last
<1>6. \E open \in Seq(1..made') :
         /\ \A i, j \in 1..Len(open) : open[i] = open[j] => i = j
         /\ \A i \in 1..Len(open) : open[i] \notin marked
         /\ queue' = q \o open
         /\ queued' = marked \cup {open[i] : i \in 1..Len(open)}
         /\ task' = tasks \/ task' = Ensured(tasks)
         /\ open # <<>> => task' = Ensured(tasks)
  <2>1. CASE auto
    <3> DEFINE pages == Listed(confirmed, stored')
    <3>1. pages \in SUBSET Pages
      BY DEF Listed
    <3>2. ASSUME NEW p \in pages
          PROVE  p \in 1..made'
      <4>1. p \in Pages /\ stored'[p] # Absent
        BY DEF Listed
      <4>2. ~(p > made') /\ p \in 1..MaxPages
        BY <1>5, <4>1 DEF Pages
      <4> QED
        BY <1>0, <1>4, <4>2
    <3>3. Enqueue(pages, q, marked, tasks)
      BY <1>3, <2>1
    <3> HIDE DEF pages
    <3>4. PICK open \in Seq(1..made') :
             /\ \A i, j \in 1..Len(open) : open[i] = open[j] => i = j
             /\ \A i \in 1..Len(open) : open[i] \notin marked
             /\ queue' = q \o open
             /\ queued' = marked \cup {open[i] : i \in 1..Len(open)}
             /\ task' = Ensured(tasks)
      BY <1>4, <3>1, <3>2, <3>3, EnqueueKind
    <3> QED
      BY <3>4
  <2>2. CASE ~auto
    <3>1. queue' = q /\ queued' = marked /\ task' = tasks
      BY <1>3, <2>2
    <3>2. q = q \o <<>> /\ <<>> \in Seq(1..made') /\ Len(<<>>) = 0
      OBVIOUS
    <3>3. marked = marked \cup {<<>>[i] : i \in 1..Len(<<>>)}
      BY <3>2
    <3>4. \A i, j \in 1..Len(<<>>) : FALSE
      BY <3>2
    <3> QED
      BY <3>1, <3>2, <3>3, <3>4
  <2> QED
    BY <2>1, <2>2
<1>7. spine' \subseteq 1..chapters /\ book' \in {"compiling", "spine_ready"}
  BY <1>0, <1>3
<1> QED
  BY <1>4, <1>5, <1>6, <1>7 DEF Shelled

LEMMA NextKinds ==
    ASSUME TypeOK, [Next]_vars
    PROVE  Kinds
<1>1. CASE Work
  <2>1. CASE Take
    BY <2>1, TakeKind DEF Kinds
  <2>2. CASE Planned(Worker)
    BY <2>2, PlannedKind, Bounds DEF Kinds
  <2>3. CASE Generated(Worker)
    BY <2>3, GeneratedKind, Bounds DEF Kinds
  <2> QED
    BY <1>1, <2>1, <2>2, <2>3 DEF Work
<1>2. CASE WorkerExits
  BY <1>2 DEF WorkerExits, MayExit, Kinds, WorkerStep
<1>3. CASE ConfirmSpine
  <2>1. PICK auto \in BOOLEAN, confirmed \in SUBSET spine :
          Shells(confirmed, stored, queue, queued, task, auto)
    BY <1>3 DEF ConfirmSpine
  <2>2. UNCHANGED <<chapters, edits, interrupted>>
    BY <1>3 DEF ConfirmSpine
  <2>3. /\ stored \in [Pages -> Page \cup {Absent}] /\ queue \in Seq(1..made)
        /\ \A p \in Pages : p > made => stored[p] = Absent
    BY DEF TypeOK
  <2>4. Shelled(stored, queue, queued, task)
    BY <2>1, <2>2, <2>3, ShellsKind
  <2> QED
    BY <2>2, <2>4 DEF Kinds, Confirmation
<1>4. CASE Rebuild
  <2> DEFINE disk == [p \in Pages |-> Absent]
  <2>1. PICK auto \in BOOLEAN : Shells(spine, disk, <<>>, {}, CancelsWorker, auto)
    BY <1>4 DEF Rebuild
  <2>2. UNCHANGED <<chapters, edits>> /\ interrupted' = {}
    BY <1>4 DEF Rebuild
  <2>3. /\ disk \in [Pages -> Page \cup {Absent}]
        /\ \A p \in Pages : p > made => disk[p] = Absent
        /\ <<>> \in Seq(1..made) /\ spine \in SUBSET spine
    OBVIOUS
  <2> HIDE DEF disk
  <2>4. Shelled(disk, <<>>, {}, CancelsWorker)
    BY <2>1, <2>2, <2>3, ShellsKind
  <2> QED
    BY <2>2, <2>4 DEF Kinds, Rebuilding, disk
<1>5. CASE DeleteBook
  BY <1>5 DEF Kinds
<1>6. CASE Restart
  BY <1>6 DEF Kinds
<1>7. CASE \E p \in Pages : InsertNote(p) \/ \E i \in 1..MaxBlocks : DeleteBlock(p, i)
  BY <1>7, NoteAndDeleteKinds DEF Kinds
<1>8. ASSUME NEW r \in Requests,
             \/ ConfirmProposal(r) \/ SpineReady(r) \/ SpineFails(r)
             \/ Planned(r) \/ Generated(r) \/ EditDone(r)
      PROVE  Kinds
  <2>1. r \in Tasks
    BY DEF Tasks
  <2>2. CASE Planned(r) \/ Generated(r)
    BY <2>1, <2>2, PlannedKind, GeneratedKind DEF Kinds
  <2>3. CASE ConfirmProposal(r) \/ SpineReady(r) \/ SpineFails(r)
    BY <2>3, StageKinds DEF Kinds
  <2>4. CASE EditDone(r)
    BY <2>4, EditDoneKind DEF Kinds
  <2> QED
    BY <1>8, <2>2, <2>3, <2>4
<1>9. ASSUME NEW r \in Requests, NEW p \in Pages,
             \/ CompilePage(r, p) \/ InsertBlock(r, p)
             \/ \E i \in 1..MaxBlocks : Regenerate(r, p, i)
      PROVE  Kinds
  BY <1>9, CompilePageKind, InsertKind, RegenerateKind DEF Kinds
<1>10. CASE UNCHANGED vars
  BY <1>10 DEF Kinds
<1> QED
  BY <1>1, <1>2, <1>3, <1>4, <1>5, <1>6, <1>7, <1>8, <1>9, <1>10 DEF Next

-----------------------------------------------------------------------------
(* Type correctness. *)

\* A page saved and a task changed keep their types; the other tasks stay.
LEMMA StoredKept ==
    ASSUME TypeOK, made' = made, NEW p \in 0..made, NEW page \in Page,
           stored' = [stored EXCEPT ![p] = page]
    PROVE  /\ stored' \in [Pages -> Page \cup {Absent}]
           /\ \A q \in Pages : q > made => stored'[q] = Absent
           /\ \A q \in Pages \ {p} : stored'[q] = stored[q]
           /\ p \in Pages => stored'[p] = page
<1>1. /\ stored \in [Pages -> Page \cup {Absent}] /\ made \in Nat
      /\ \A q \in Pages : q > made => stored[q] = Absent
  BY Bounds DEF TypeOK
<1>2. \A q \in Pages : q > made => q # p
  BY <1>1 DEF Pages
<1> QED
  BY <1>1, <1>2

LEMMA TaskKept ==
    ASSUME TypeOK, NEW t \in Tasks, NEW next \in Task(made), task' = [task EXCEPT ![t] = next]
    PROVE  /\ task' \in [Tasks -> Task(made)]
           /\ task'[t] = next /\ \A s \in Tasks \ {t} : task'[s] = task[s]
<1>1. task \in [Tasks -> Task(made)]
  BY DEF TypeOK
<1> QED
  BY <1>1

\* What a cancelled worker leaves.
LEMMA Cancelled ==
    ASSUME TypeOK
    PROVE  /\ CancelsWorker \in [Tasks -> Task(made)]
           /\ CancelsWorker[Worker] = Off
           /\ \A t \in Tasks \ {Worker} : CancelsWorker[t] = task[t]
<1>1. task \in [Tasks -> Task(made)] /\ made \in Nat
  BY DEF TypeOK
<1>2. Off \in Task(made)
  BY <1>1, OffIsTask
<1> QED
  BY <1>1, <1>2, Bounds DEF CancelsWorker

LEMMA ShelledType ==
    ASSUME TypeOK, NEW disk \in [Pages -> Page \cup {Absent}], NEW q \in Seq(1..made),
           NEW marked \in SUBSET (1..made), NEW tasks \in [Tasks -> Task(made)],
           Shelled(disk, q, marked, tasks), interrupted' \subseteq interrupted
    PROVE  TypeOK'
<1>1. /\ made \in Nat /\ MaxPages \in Nat /\ made' \in made..MaxPages
      /\ made' \in Nat /\ made' \in 0..MaxPages
  BY Bounds DEF Shelled, TypeOK
<1>2. 1..made \subseteq 1..made' /\ Task(made) \subseteq Task(made')
  <2>1. made <= made'
    BY <1>1
  <2> QED
    BY <1>1, <2>1, TaskGrows
<1>3. PICK open \in Seq(1..made') :
         /\ queue' = q \o open
         /\ queued' = marked \cup {open[i] : i \in 1..Len(open)}
         /\ task' = tasks \/ task' = Ensured(tasks)
  BY DEF Shelled
<1>4. queue' \in Seq(1..made')
  <2>1. q \in Seq(1..made')
    BY <1>2, SeqMonotonic
  <2> QED
    BY <1>3, <2>1
<1>5. queued' \subseteq 1..made'
  <2>1. \A i \in 1..Len(open) : open[i] \in 1..made'
    BY ElementOfSeq, Zenon
  <2> QED
    BY <1>2, <1>3, <2>1, Zenon
<1>6. task' \in [Tasks -> Task(made')]
  <2>1. tasks \in [Tasks -> Task(made')]
    <3> HIDE DEF Task
    <3> QED
      BY <1>2
  <2>2. Ensured(tasks) \in [Tasks -> Task(made')]
    BY <1>1, <2>1, EnsuredTasks
  <2> QED
    BY <1>3, <2>1, <2>2
<1>7. /\ stored' \in [Pages -> Page \cup {Absent}]
      /\ \A p \in Pages : p > made' => stored'[p] = Absent
      /\ chapters' = chapters /\ edits' = edits /\ spine' \subseteq 1..chapters
      /\ book' \in {"compiling", "spine_ready"}
  BY DEF Shelled
<1>8. interrupted' \subseteq 1..made'
  BY <1>2 DEF TypeOK
<1> QED
  BY <1>1, <1>4, <1>5, <1>6, <1>7, <1>8 DEF TypeOK

LEMMA KindsType ==
    ASSUME TypeOK, Kinds
    PROVE  TypeOK'
<1>0. /\ made \in Nat /\ MaxPages \in Nat /\ made \in 0..MaxPages /\ chapters \in 0..MaxChapters
      /\ edits \in 0..MaxEdits /\ spine \subseteq 1..chapters /\ MaxChapters \in Nat
      /\ interrupted \subseteq 1..made /\ queue \in Seq(1..made) /\ queued \subseteq 1..made
      /\ book \in {"none", "draft", "spine_ready", "compiling", "ready"}
  BY Bounds DEF TypeOK
<1>1. CASE Compilation
  <2>1. PICK t \in Tasks, p \in 0..made :
          /\ CompileStep(t, p)
          /\ UNCHANGED <<spine, chapters, made, edits>>
          /\ interrupted' \subseteq interrupted
          /\ queue' = queue \/ (queue # <<>> /\ queue' = Tail(queue))
    BY <1>1 DEF Compilation
  <2>2. PICK page \in Page, next \in Task(made) :
          /\ stored' = [stored EXCEPT ![p] = page]
          /\ task' = [task EXCEPT ![t] = next]
          /\ book' \in {book, "ready"}
          /\ queued' \subseteq queued
    BY <2>1 DEF CompileStep
  <2>3. task' \in [Tasks -> Task(made)]
    BY <2>2, TaskKept
  <2>4. /\ stored' \in [Pages -> Page \cup {Absent}]
        /\ \A q \in Pages : q > made => stored'[q] = Absent
    BY <2>1, <2>2, StoredKept
  <2>5. queue' \in Seq(1..made)
    BY <1>0, <2>1, QueueType
  <2> QED
    BY <1>0, <2>1, <2>2, <2>3, <2>4, <2>5 DEF TypeOK
<1>2. CASE RequestStep
  <2>1. /\ chapters' \in 0..MaxChapters /\ spine' \subseteq 1..chapters' /\ edits' \in 0..MaxEdits
        /\ book' \in {book, "ready", "spine_ready"}
        /\ UNCHANGED <<made, queue, queued, interrupted>>
    BY <1>0, <1>2 DEF RequestStep
  <2>2. /\ stored' \in [Pages -> Page \cup {Absent}]
        /\ \A q \in Pages : q > made => stored'[q] = Absent
    <3>1. CASE stored' = stored
      BY <3>1 DEF TypeOK
    <3>2. CASE stored' # stored
      <4>1. PICK p \in 0..made, page \in Page : stored' = [stored EXCEPT ![p] = page]
        BY <1>2, <3>2 DEF RequestStep, RequestSaves
      <4> QED
        BY <2>1, <4>1, StoredKept
    <3> QED
      BY <3>1, <3>2
  <2>3. task' \in [Tasks -> Task(made)]
    <3>1. CASE task' = task
      BY <3>1 DEF TypeOK
    <3>2. CASE task' # task
      <4>1. PICK r \in Requests, next \in Task(made) : task' = [task EXCEPT ![r] = next]
        BY <1>2, <3>2 DEF RequestStep, RequestMoves
      <4>2. r \in Tasks
        BY DEF Tasks
      <4> QED
        BY <4>1, <4>2, TaskKept
    <3> QED
      BY <3>1, <3>2
  <2> QED
    BY <1>0, <2>1, <2>2, <2>3 DEF TypeOK
<1>3. CASE WorkerStep
  <2>1. queue' \in Seq(1..made) /\ queued' \subseteq 1..made
    BY <1>0, <1>3, QueueType DEF WorkerStep, runtime
  <2>2. task' \in [Tasks -> Task(made)]
    <3>1. CASE task' = task
      BY <3>1 DEF TypeOK
    <3>2. CASE task' = [task EXCEPT ![Worker] = Off]
      BY <1>0, <3>2, OffIsTask, Bounds, TaskKept
    <3> QED
      BY <1>3, <3>1, <3>2 DEF WorkerStep
  <2> QED
    BY <1>3, <2>1, <2>2 DEF WorkerStep, TypeOK, files
<1>4. CASE Confirmation
  <2>1. stored \in [Pages -> Page \cup {Absent}] /\ task \in [Tasks -> Task(made)]
    BY DEF TypeOK
  <2> QED
    BY <1>0, <1>4, <2>1, ShelledType DEF Confirmation
<1>5. CASE Rebuilding
  <2>1. [p \in Pages |-> Absent] \in [Pages -> Page \cup {Absent}] /\ <<>> \in Seq(1..made)
    OBVIOUS
  <2> QED
    BY <1>5, <2>1, ShelledType, Cancelled DEF Rebuilding
<1>6. CASE DeleteBook
  <2>1. task' \in [Tasks -> Task(made)]
    BY <1>6, Cancelled DEF DeleteBook
  <2>2. stored' \in [Pages -> Page \cup {Absent}] /\ \A p \in Pages : stored'[p] = Absent
    BY <1>6 DEF DeleteBook
  <2> QED
    BY <1>0, <1>6, <2>1, <2>2 DEF DeleteBook, TypeOK
<1>7. CASE Restart
  <2>1. task' \in [Tasks -> Task(made)]
    BY <1>0, <1>7, OffIsTask DEF Restart
  <2>2. interrupted' \subseteq 1..made
    <3>1. ASSUME NEW p \in Pages, NEW t \in Tasks, Compiles(t, p)
          PROVE  p \in 1..made
      BY <1>0, <3>1, TaskType DEF Compiles, Pages
    <3> QED
      BY <1>0, <1>7, <3>1 DEF Restart
  <2> QED
    BY <1>0, <1>7, <2>1, <2>2 DEF Restart, TypeOK, files
<1>8. CASE UNCHANGED vars
  BY <1>8 DEF vars, files, runtime, TypeOK
<1> QED
  BY <1>1, <1>2, <1>3, <1>4, <1>5, <1>6, <1>7, <1>8 DEF Kinds

LEMMA InitType == Init => TypeOK
<1> SUFFICES ASSUME Init PROVE TypeOK
  OBVIOUS
<1>1. Off \in Task(0)
  BY OffIsTask
<1> QED
  BY <1>1, Bounds DEF Init, TypeOK

\* Type correctness: the book, its files, the queue and every task stay well
\* typed, for any numbers of requests, chapters, pages, blocks and edits.
THEOREM TypeCorrect == Spec => []TypeOK
<1>1. TypeOK /\ [Next]_vars => TypeOK'
  BY NextKinds, KindsType
<1> QED
  BY <1>1, InitType, PTL DEF Spec

-----------------------------------------------------------------------------
(* The invariant: the queue is served, no page is stranded, and the worker *)
(* compiles a page that exists.                                            *)

WorkerHasPage ==
    task[Worker].at \in {"plan", "generate"}
      => task[Worker].page \in Pages /\ Exists(task[Worker].page)

BookInv == TypeOK /\ QueueIsServed /\ NotStranded /\ WorkerHasPage

\* Who compiles what after a step, when one task moved.
LEMMA OthersCompile ==
    ASSUME TypeOK, NEW t \in Tasks, NEW next \in Task(made), task' = [task EXCEPT ![t] = next]
    PROVE  /\ \A s \in Tasks \ {t} : \A q : Compiles(s, q)' <=> Compiles(s, q)
           /\ \A q : Compiles(t, q)' <=> next.at \in {"plan", "generate"} /\ next.page = q
<1>1. task'[t] = next /\ \A s \in Tasks \ {t} : task'[s] = task[s]
  BY TaskKept
<1> QED
  BY <1>1 DEF Compiles

LEMMA CompilationStranded ==
    ASSUME BookInv, Compilation
    PROVE  NotStranded'
<1>0. TypeOK /\ NotStranded
  BY DEF BookInv
<1>1. PICK t \in Tasks, p \in 0..made :
        /\ CompileStep(t, p) /\ made' = made
        /\ Compiles(t, p) \/ task[t].at \notin {"plan", "generate"}
        /\ interrupted \ {p} \subseteq interrupted'
  BY DEF Compilation
<1>2. PICK page \in Page, next \in Task(made) :
        /\ stored' = [stored EXCEPT ![p] = page]
        /\ task' = [task EXCEPT ![t] = next]
        /\ \/ next.at \in {"plan", "generate"} /\ next.page = p
           \/ Settled(page)
  BY <1>1 DEF CompileStep
<1>3. /\ \A q \in Pages \ {p} : stored'[q] = stored[q]
      /\ p \in Pages => stored'[p] = page
  BY <1>0, <1>1, <1>2, StoredKept
<1>4. /\ \A s \in Tasks \ {t} : \A q : Compiles(s, q)' <=> Compiles(s, q)
      /\ \A q : Compiles(t, q)' <=> next.at \in {"plan", "generate"} /\ next.page = q
  BY <1>0, <1>2, OthersCompile
<1>5. ASSUME NEW q \in Pages \ interrupted', Exists(q)',
             stored'[q].status \in {"planning", "generating"}
      PROVE  \E s \in Tasks : Compiles(s, q)'
  <2>1. CASE q = p
    <3>1. ~Settled(page)
      BY <1>3, <1>5, <2>1 DEF Settled
    <3> QED
      BY <1>2, <1>4, <2>1, <3>1
  <2>2. CASE q # p
    <3>1. stored'[q] = stored[q] /\ q \notin interrupted /\ Exists(q)
      BY <1>1, <1>3, <1>5, <2>2 DEF Exists
    <3>2. PICK s \in Tasks : Compiles(s, q)
      BY <1>0, <1>5, <3>1 DEF NotStranded
    <3>3. s # t
      BY <1>1, <2>2, <3>2 DEF Compiles
    <3> QED
      BY <1>4, <3>2, <3>3
  <2> QED
    BY <2>1, <2>2
<1> QED
  BY <1>5 DEF NotStranded

\* A request that compiles nothing strands nothing either.
LEMMA RequestStranded ==
    ASSUME BookInv, RequestStep
    PROVE  NotStranded'
<1>0. TypeOK /\ NotStranded /\ made' = made /\ interrupted' = interrupted
  BY DEF BookInv, RequestStep
<1>1. \A s \in Tasks : \A q : Compiles(s, q)' <=> Compiles(s, q)
  <2>1. CASE task' = task
    BY <2>1 DEF Compiles
  <2>2. CASE task' # task
    <3>1. PICK r \in Requests, next \in Task(made) :
            /\ task' = [task EXCEPT ![r] = next]
            /\ task[r].at \notin {"plan", "generate"} /\ next.at \notin {"plan", "generate"}
      BY <2>2 DEF RequestStep, RequestMoves
    <3>2. r \in Tasks
      BY DEF Tasks
    <3>3. /\ \A s \in Tasks \ {r} : \A q : Compiles(s, q)' <=> Compiles(s, q)
          /\ \A q : Compiles(r, q)' <=> next.at \in {"plan", "generate"} /\ next.page = q
      BY <1>0, <3>1, <3>2, OthersCompile
    <3>4. \A q : ~Compiles(r, q) /\ ~Compiles(r, q)'
      BY <3>1, <3>3 DEF Compiles
    <3> QED
      BY <3>3, <3>4, Zenon
  <2> QED
    BY <2>1, <2>2
<1>2. ASSUME NEW q \in Pages, Exists(q)', stored'[q].status \in {"planning", "generating"}
      PROVE  Exists(q) /\ stored'[q].status = stored[q].status
  <2>1. CASE stored' = stored
    BY <1>2, <2>1 DEF Exists
  <2>2. CASE stored' # stored
    <3>1. PICK p \in 0..made, page \in Page :
           /\ stored' = [stored EXCEPT ![p] = page]
           /\ Settled(page) \/ (p \in Pages /\ Exists(p) /\ page.status = stored[p].status)
      BY <2>2 DEF RequestStep, RequestSaves
    <3>2. /\ \A u \in Pages \ {p} : stored'[u] = stored[u]
          /\ p \in Pages => stored'[p] = page
      BY <1>0, <3>1, StoredKept
    <3> QED
      BY <1>2, <3>1, <3>2 DEF Exists, Settled
  <2> QED
    BY <2>1, <2>2
<1>3. ASSUME NEW q \in Pages \ interrupted', Exists(q)',
             stored'[q].status \in {"planning", "generating"}
      PROVE  \E s \in Tasks : Compiles(s, q)'
  <2>1. Exists(q) /\ stored[q].status \in {"planning", "generating"} /\ q \notin interrupted
    BY <1>0, <1>2, <1>3
  <2>2. PICK s \in Tasks : Compiles(s, q)
    BY <1>0, <2>1 DEF NotStranded
  <2> QED
    BY <1>1, <2>2
<1> QED
  BY <1>3 DEF NotStranded

LEMMA ShelledStranded ==
    ASSUME TypeOK, NEW disk, NEW q, NEW marked, NEW tasks \in [Tasks -> Task(made)],
           Shelled(disk, q, marked, tasks), NEW lost \in SUBSET interrupted',
           \A p \in Pages \ lost :
              disk[p] # Absent /\ disk[p].status \in {"planning", "generating"}
                => \E t \in Tasks : tasks[t].at \in {"plan", "generate"} /\ tasks[t].page = p
    PROVE  NotStranded'
<1>0. task' = tasks \/ task' = Ensured(tasks)
  BY DEF Shelled
<1>1. made \in Nat
  BY DEF TypeOK
<1>2. ASSUME NEW t \in Tasks, tasks[t].at \in {"plan", "generate"}
      PROVE  task'[t] = tasks[t]
  BY <1>0, <1>1, <1>2, EnsuredTasks
<1>3. ASSUME NEW p \in Pages \ interrupted', Exists(p)',
             stored'[p].status \in {"planning", "generating"}
      PROVE  \E t \in Tasks : Compiles(t, p)'
  <2>1. p <= made \/ p > made
    BY <1>1 DEF Pages
  <2>2. stored'[p] # Absent /\ ~Settled(stored'[p])
    BY <1>3 DEF Exists, Settled
  <2>3. stored'[p] = disk[p]
    BY <2>1, <2>2 DEF Shelled
  <2>4. PICK t \in Tasks : tasks[t].at \in {"plan", "generate"} /\ tasks[t].page = p
    BY <1>3, <2>2, <2>3
  <2> QED
    BY <1>2, <2>4 DEF Compiles
<1> QED
  BY <1>3 DEF NotStranded

LEMMA KindsStranded ==
    ASSUME BookInv, Kinds
    PROVE  NotStranded'
<1>0. /\ TypeOK /\ NotStranded /\ task \in [Tasks -> Task(made)]
      /\ made \in Nat
  BY DEF BookInv, TypeOK
<1>1. CASE WorkerStep
  <2>1. \A t \in Tasks : \A q : Compiles(t, q) => Compiles(t, q)'
    <3>1. CASE task' = task
      BY <3>1 DEF Compiles
    <3>2. CASE task' = [task EXCEPT ![Worker] = Off]
      BY <1>0, <1>1, <3>2, Bounds DEF WorkerStep, Compiles
    <3> QED
      BY <1>1, <3>1, <3>2 DEF WorkerStep
  <2>2. stored' = stored /\ interrupted' = interrupted
    BY <1>1 DEF WorkerStep, files
  <2> QED
    BY <1>0, <2>1, <2>2 DEF NotStranded, Exists
<1>2. CASE Confirmation
  <2>1. \A p \in Pages \ interrupted :
              stored[p] # Absent /\ stored[p].status \in {"planning", "generating"}
                => \E t \in Tasks : task[t].at \in {"plan", "generate"} /\ task[t].page = p
    BY <1>0 DEF NotStranded, Exists, Compiles
  <2>2. interrupted \in SUBSET interrupted' /\ Shelled(stored, queue, queued, task)
    BY <1>2 DEF Confirmation
  <2> QED
    BY <1>0, <2>1, <2>2, ShelledStranded
<1>3. CASE Rebuilding
  <2>1. Shelled([p \in Pages |-> Absent], <<>>, {}, CancelsWorker)
    BY <1>3 DEF Rebuilding
  <2>2. CancelsWorker \in [Tasks -> Task(made)]
    BY <1>0, Cancelled
  <2>3. {} \in SUBSET interrupted'
    OBVIOUS
  <2>4. \A p \in Pages \ {} : [u \in Pages |-> Absent][p] = Absent
    OBVIOUS
  <2> QED
    BY <1>0, <2>1, <2>2, <2>3, <2>4, ShelledStranded
<1>4. CASE DeleteBook
  BY <1>4 DEF DeleteBook, NotStranded, Exists
<1>5. CASE Restart
  <2>1. stored' = stored
    BY <1>5 DEF Restart, files
  <2>2. ASSUME NEW p \in Pages \ interrupted', Exists(p)',
               stored'[p].status \in {"planning", "generating"}
        PROVE  FALSE
    <3>1. p \notin interrupted /\ ~\E t \in Tasks : Compiles(t, p)
      BY <1>5, <2>2 DEF Restart
    <3> QED
      BY <1>0, <2>1, <2>2, <3>1 DEF NotStranded, Exists
  <2> QED
    BY <2>2 DEF NotStranded
<1>6. CASE UNCHANGED vars
  BY <1>0, <1>6 DEF vars, files, NotStranded, Exists, Compiles
<1> QED
  BY <1>1, <1>2, <1>3, <1>4, <1>5, <1>6, CompilationStranded, RequestStranded DEF Kinds

-----------------------------------------------------------------------------
(* The queue. *)

Elements(q) == {q[i] : i \in 1..Len(q)}
NoRepeats(q) == \A i, j \in 1..Len(q) : q[i] = q[j] => i = j
Busy(tasks) == {p \in Pages : tasks[Worker].at \in {"plan", "generate"} /\ tasks[Worker].page = p}

\* QueueIsServed of any queue, marks and tasks.
Serves(q, marked, tasks) ==
    /\ marked # {} => tasks[Worker].at # "off"
    /\ NoRepeats(q)
    /\ marked = Elements(q) \cup Busy(tasks)
    /\ Elements(q) \cap Busy(tasks) = {}

LEMMA ServedIsServes ==
    ASSUME TypeOK
    PROVE  QueueIsServed <=> Serves(queue, queued, task)
<1>1. Elements(queue) \subseteq Pages
  <2>1. queue \in Seq(1..made) /\ made \in 0..MaxPages /\ MaxPages \in Nat
    BY Bounds DEF TypeOK
  <2>2. \A i \in 1..Len(queue) : queue[i] \in 1..made
    BY <2>1
  <2>3. 1..made \subseteq Pages
    BY <2>1 DEF Pages
  <2> QED
    BY <2>2, <2>3 DEF Elements
<1> QED
  BY <1>1 DEF QueueIsServed, Serves, NoRepeats, Elements, Busy, Compiles

LEMMA TailServes ==
    ASSUME TypeOK, queue # <<>>, NoRepeats(queue)
    PROVE  /\ Elements(Tail(queue)) = Elements(queue) \ {Head(queue)}
           /\ NoRepeats(Tail(queue)) /\ Head(queue) \in Elements(queue)
<1> DEFINE n == Len(queue)
<1>1. /\ n \in Nat \ {0} /\ Head(queue) = queue[1] /\ Len(Tail(queue)) = n - 1
      /\ \A i \in 1..(n - 1) : Tail(queue)[i] = queue[i + 1]
  BY QueueType
<1>2. ASSUME NEW i \in 1..(n - 1), NEW j \in 1..(n - 1), Tail(queue)[i] = Tail(queue)[j]
      PROVE  i = j
  <2>1. i + 1 \in 1..n /\ j + 1 \in 1..n /\ queue[i + 1] = queue[j + 1]
    BY <1>1, <1>2
  <2> QED
    BY <2>1 DEF NoRepeats
<1>3. ASSUME NEW i \in 1..(n - 1)
      PROVE  Tail(queue)[i] \in Elements(queue) /\ Tail(queue)[i] # Head(queue)
  <2>1. i + 1 \in 1..n /\ 1 \in 1..n /\ i + 1 # 1 /\ Tail(queue)[i] = queue[i + 1]
    BY <1>1
  <2> QED
    BY <1>1, <2>1 DEF NoRepeats, Elements
<1>4. ASSUME NEW x \in Elements(queue), x # Head(queue)
      PROVE  x \in Elements(Tail(queue))
  <2>1. PICK j \in 1..n : x = queue[j]
    BY DEF Elements
  <2>2. j - 1 \in 1..(n - 1) /\ queue[(j - 1) + 1] = x
    BY <1>1, <1>4, <2>1
  <2>3. Tail(queue)[j - 1] = x
    BY <1>1, <2>2
  <2> QED
    BY <1>1, <2>2, <2>3 DEF Elements
<1>5. 1 \in 1..n
  BY <1>1
<1> QED
  BY <1>1, <1>2, <1>3, <1>4, <1>5 DEF Elements, NoRepeats

LEMMA CompilationServed ==
    ASSUME BookInv, Compilation
    PROVE  Serves(queue', queued', task')
<1>0. TypeOK /\ Serves(queue, queued, task)
  BY ServedIsServes DEF BookInv
<1>1. PICK t \in Tasks, p \in 0..made :
      /\ CompileStep(t, p) /\ made' = made
      /\ \/ Compiles(t, p) /\ UNCHANGED <<queue, interrupted>>
         \/ /\ t = Worker /\ task[t].at = "get" /\ queue # <<>> /\ p = Head(queue)
            /\ queue' = Tail(queue)
         \/ t \in Requests /\ queue' = queue
  BY DEF Compilation
<1>2. PICK page \in Page, next \in Task(made) :
        /\ task' = [task EXCEPT ![t] = next]
        /\ \/ next.at \in {"plan", "generate"} /\ next.page = p /\ queued' = queued
           \/ /\ next = Idle(t)
              /\ queued' = IF t = Worker THEN queued \ {p} ELSE queued
  BY <1>1 DEF CompileStep
<1>3. task'[t] = next /\ \A s \in Tasks \ {t} : task'[s] = task[s]
  BY <1>0, <1>2, TaskKept
<1>4. CASE t # Worker
  <2>1. task'[Worker] = task[Worker]
    BY <1>3, <1>4, Bounds
  <2>2. queue' = queue /\ queued' = queued
    BY <1>1, <1>2, <1>4
  <2> QED
    BY <1>0, <2>1, <2>2 DEF Serves, Busy
<1>5. CASE t = Worker
  <2>1. /\ task'[Worker].at # "off"
        /\ \/ Busy(task') = {p} \cap Pages /\ queued' = queued
           \/ Busy(task') = {} /\ queued' = queued \ {p}
    <3>1. CASE next.at \in {"plan", "generate"} /\ next.page = p /\ queued' = queued
      BY <1>3, <1>5, <3>1 DEF Busy
    <3>2. CASE next = Idle(t) /\ queued' = queued \ {p}
      <4>1. task'[Worker].at = "get"
        BY <1>3, <1>5, <3>2, IdleIsTask
      <4> QED
        BY <3>2, <4>1 DEF Busy
    <3> QED
      BY <1>2, <1>5, <3>1, <3>2
  <2>2. CASE Compiles(Worker, p) /\ queue' = queue
    <3>1. Busy(task) = {p} \cap Pages
      BY <2>2 DEF Busy, Compiles
    <3>2. Elements(queue) \subseteq Pages
      <4>1. queue \in Seq(1..made) /\ made \in 0..MaxPages /\ MaxPages \in Nat
        BY <1>0, Bounds DEF TypeOK
      <4>2. \A i \in 1..Len(queue) : queue[i] \in 1..made
        BY <4>1
      <4>3. 1..made \subseteq Pages
        BY <4>1 DEF Pages
      <4> QED
        BY <4>2, <4>3 DEF Elements
    <3> QED
      BY <1>0, <2>1, <2>2, <3>1, <3>2 DEF Serves
  <2>3. CASE /\ task[Worker].at = "get" /\ queue # <<>> /\ p = Head(queue)
             /\ queue' = Tail(queue)
    <3>1. Busy(task) = {}
      BY <2>3 DEF Busy
    <3>2. /\ Elements(queue') = Elements(queue) \ {p} /\ NoRepeats(queue')
          /\ p \in Elements(queue) /\ p \in Pages
      BY <1>0, <2>3, TailServes, QueueType DEF Serves
    <3> QED
      BY <1>0, <2>1, <3>1, <3>2 DEF Serves
  <2> QED
    BY <1>1, <1>5, <2>2, <2>3, Bounds
<1> QED
  BY <1>4, <1>5

LEMMA ShelledServed ==
    ASSUME TypeOK, NEW disk, NEW q \in Seq(1..made), NEW marked,
           NEW tasks \in [Tasks -> Task(made)],
           Serves(q, marked, tasks), Shelled(disk, q, marked, tasks)
    PROVE  Serves(queue', queued', task')
<1>0. /\ made \in Nat /\ MaxPages \in Nat /\ made' \in made..MaxPages
  BY Bounds DEF Shelled, TypeOK
<1>1. PICK open \in Seq(1..made') :
         /\ NoRepeats(open)
         /\ \A i \in 1..Len(open) : open[i] \notin marked
         /\ queue' = q \o open
         /\ queued' = marked \cup Elements(open)
         /\ task' = tasks \/ task' = Ensured(tasks)
         /\ open # <<>> => task' = Ensured(tasks)
  BY DEF Shelled, NoRepeats, Elements
<1>2. Busy(task') = Busy(tasks) /\ (tasks[Worker].at # "off" => task'[Worker].at # "off")
  <2>1. CASE tasks[Worker].at # "off"
    <3>1. task' = tasks
      BY <1>0, <1>1, <2>1, EnsuredTasks
    <3> QED
      BY <3>1
  <2>2. CASE tasks[Worker].at = "off"
    <3>1. task' = tasks \/ task'[Worker].at = "get"
      BY <1>0, <1>1, <2>2, EnsuredTasks
    <3> QED
      BY <2>2, <3>1 DEF Busy
  <2> QED
    BY <2>1, <2>2
<1> DEFINE n == Len(q)
           m == Len(open)
<1>3. /\ n \in Nat /\ m \in Nat /\ Len(queue') = n + m
      /\ \A i \in 1..n : queue'[i] = q[i]
      /\ \A i \in 1..m : queue'[n + i] = open[i]
  <2>1. /\ n \in Nat /\ m \in Nat /\ Len(q \o open) = Len(q) + Len(open)
        /\ \A i \in 1..(Len(q) + Len(open)) :
              (q \o open)[i] = IF i <= Len(q) THEN q[i] ELSE open[i - Len(q)]
    BY Len(q) \in Nat, Len(open) \in Nat
  <2>2. \A i \in 1..n : i \in 1..(n + m) /\ i <= n
    BY <2>1
  <2>3. \A i \in 1..m : n + i \in 1..(n + m) /\ ~(n + i <= n) /\ (n + i) - n = i
    BY <2>1
  <2> QED
    BY <1>1, <2>1, <2>2, <2>3
<1> HIDE DEF n, m
<1>4. Elements(queue') = Elements(q) \cup Elements(open)
  <2>1. ASSUME NEW i \in 1..(n + m)
        PROVE  queue'[i] \in Elements(q) \cup Elements(open)
    <3>1. CASE i <= n
      <4>1. i \in 1..n
        BY <1>3, <3>1
      <4> QED
        BY <1>3, <4>1 DEF Elements, n
    <3>2. CASE i > n
      <4>1. i - n \in 1..m /\ n + (i - n) = i
        BY <1>3, <3>2
      <4>2. queue'[i] = open[i - n]
        BY <1>3, <4>1
      <4> QED
        BY <4>1, <4>2 DEF Elements, m
    <3> QED
      BY <1>3, <3>1, <3>2
  <2>2. ASSUME NEW i \in 1..n
        PROVE  q[i] \in Elements(queue')
    <3>1. i \in 1..(n + m) /\ queue'[i] = q[i]
      BY <1>3
    <3> QED
      BY <1>3, <3>1 DEF Elements
  <2>3. ASSUME NEW i \in 1..m
        PROVE  open[i] \in Elements(queue')
    <3>1. n + i \in 1..(n + m) /\ queue'[n + i] = open[i]
      BY <1>3
    <3> QED
      BY <1>3, <3>1 DEF Elements
  <2>4. Elements(queue') = {queue'[i] : i \in 1..(n + m)}
    BY <1>3 DEF Elements
  <2>5. Elements(q) = {q[i] : i \in 1..n} /\ Elements(open) = {open[i] : i \in 1..m}
    BY DEF Elements, n, m
  <2> QED
    BY <2>1, <2>2, <2>3, <2>4, <2>5, ZenonT(30)
<1>5. Elements(q) \cap Elements(open) = {} /\ Busy(tasks) \cap Elements(open) = {}
  BY <1>1 DEF Serves, Elements
<1>6. NoRepeats(queue')
  <2>1. ASSUME NEW i \in 1..(n + m), NEW j \in 1..(n + m), queue'[i] = queue'[j]
        PROVE  i = j
    <3>1. \A k \in 1..(n + m) : \/ k \in 1..n /\ queue'[k] = q[k]
                                \/ k - n \in 1..m /\ n + (k - n) = k
      BY <1>3
    <3>2. \A k \in 1..(n + m) : k \notin 1..n
              => k - n \in 1..m /\ queue'[k] = open[k - n] /\ queue'[k] \in Elements(open)
      <4>1. SUFFICES ASSUME NEW k \in 1..(n + m), k \notin 1..n
                     PROVE  /\ k - n \in 1..m /\ queue'[k] = open[k - n]
                            /\ queue'[k] \in Elements(open)
        OBVIOUS
      <4>2. k - n \in 1..m /\ n + (k - n) = k
        BY <3>1, <4>1
      <4>3. queue'[k] = open[k - n]
        BY <1>3, <4>2
      <4> QED
        BY <4>2, <4>3 DEF Elements, m
    <3>3. \A k \in 1..n : queue'[k] = q[k] /\ q[k] \in Elements(q)
      BY <1>3 DEF Elements, n
    <3>4. CASE i \in 1..n /\ j \in 1..n
      BY <2>1, <3>3, <3>4 DEF Serves, NoRepeats, n
    <3>5. CASE i \notin 1..n /\ j \notin 1..n
      <4>1. i - n = j - n
        BY <1>1, <2>1, <3>2, <3>5 DEF NoRepeats, m
      <4> QED
        BY <1>3, <4>1
    <3>6. CASE (i \in 1..n) # (j \in 1..n)
      BY <1>5, <2>1, <3>2, <3>3, <3>6
    <3> QED
      BY <3>4, <3>5, <3>6
  <2> QED
    BY <1>3, <2>1 DEF NoRepeats
<1>7. queued' # {} => task'[Worker].at # "off"
  <2>1. CASE open = <<>>
    <3>1. Elements(open) = {}
      BY <2>1 DEF Elements
    <3> QED
      BY <1>1, <1>2, <3>1 DEF Serves
  <2>2. CASE open # <<>>
    BY <1>0, <1>1, <2>2, EnsuredTasks
  <2> QED
    BY <2>1, <2>2
<1> QED
  BY <1>1, <1>2, <1>4, <1>5, <1>6, <1>7 DEF Serves

LEMMA KindsServed ==
    ASSUME BookInv, Kinds
    PROVE  Serves(queue', queued', task')
<1>0. /\ TypeOK /\ Serves(queue, queued, task) /\ task \in [Tasks -> Task(made)]
      /\ queue \in Seq(1..made) /\ made \in Nat
  BY ServedIsServes DEF BookInv, TypeOK
<1>1. CASE RequestStep
  <2>1. task'[Worker] = task[Worker]
    <3>1. CASE task' = task
      BY <3>1
    <3>2. CASE task' # task
      <4>1. PICK r \in Requests, next \in Task(made) : task' = [task EXCEPT ![r] = next]
        BY <1>1, <3>2 DEF RequestStep, RequestMoves
      <4> QED
        BY <1>0, <4>1, Bounds
    <3> QED
      BY <3>1, <3>2
  <2> QED
    BY <1>0, <1>1, <2>1 DEF RequestStep, Serves, Busy
<1>2. CASE WorkerStep
  <2>0. Busy(task) = {}
    BY <1>2 DEF WorkerStep, Busy
  <2>1. CASE queue # <<>> /\ queue' = Tail(queue)
             /\ queued' = queued \ {Head(queue)} /\ task' = task
    <3>1. /\ Elements(queue') = Elements(queue) \ {Head(queue)} /\ NoRepeats(queue')
      BY <1>0, <2>1, TailServes DEF Serves
    <3> QED
      BY <1>0, <2>0, <2>1, <3>1 DEF Serves
  <2>2. CASE queue = <<>> /\ UNCHANGED runtime /\ task' = [task EXCEPT ![Worker] = Off]
    <3>1. task'[Worker] = Off
      BY <1>0, <2>2, Bounds
    <3>2. Busy(task') = {}
      BY <3>1 DEF Busy, Off
    <3>3. Elements(queue) = {}
      BY <2>2 DEF Elements
    <3> QED
      BY <1>0, <2>0, <2>2, <3>2, <3>3 DEF Serves, runtime
  <2> QED
    BY <1>2, <2>1, <2>2 DEF WorkerStep
<1>3. CASE Confirmation
  <2>1. Shelled(stored, queue, queued, task)
    BY <1>3 DEF Confirmation
  <2> QED
    BY <1>0, <2>1, ShelledServed
<1>4. /\ Elements(<<>>) = {} /\ NoRepeats(<<>>)
  BY DEF Elements, NoRepeats
<1>5. CASE Rebuilding
  <2>1. Shelled([p \in Pages |-> Absent], <<>>, {}, CancelsWorker)
    BY <1>5 DEF Rebuilding
  <2>2. CancelsWorker \in [Tasks -> Task(made)] /\ Busy(CancelsWorker) = {}
    BY <1>0, Cancelled DEF Busy, Off
  <2>3. Serves(<<>>, {}, CancelsWorker)
    BY <1>4, <2>2 DEF Serves
  <2>4. <<>> \in Seq(1..made)
    OBVIOUS
  <2> QED
    BY <1>0, <2>1, <2>2, <2>3, <2>4, ShelledServed
<1>6. CASE DeleteBook
  <2>1. queue' = <<>> /\ queued' = {} /\ task' = CancelsWorker
    BY <1>6 DEF DeleteBook
  <2>2. Busy(CancelsWorker) = {}
    BY <1>0, Cancelled DEF Busy, Off
  <2> QED
    BY <1>4, <2>1, <2>2 DEF Serves
<1>7. CASE Restart
  <2>1. queue' = <<>> /\ queued' = {} /\ task' = [t \in Tasks |-> Off]
    BY <1>7 DEF Restart
  <2>2. Busy(task') = {}
    BY <2>1, Bounds DEF Busy, Off
  <2> QED
    BY <1>4, <2>1, <2>2 DEF Serves
<1>8. CASE UNCHANGED vars
  BY <1>0, <1>8 DEF vars, runtime
<1> QED
  BY <1>1, <1>2, <1>3, <1>5, <1>6, <1>7, <1>8, CompilationServed DEF Kinds

-----------------------------------------------------------------------------
(* The worker and the pages that exist. *)

LEMMA KindsWorker ==
    ASSUME BookInv, Kinds
    PROVE  WorkerHasPage'
<1>0. /\ TypeOK /\ WorkerHasPage /\ task \in [Tasks -> Task(made)]
      /\ made \in Nat
  BY DEF BookInv, TypeOK
<1>1. CASE Compilation
  <2>1. PICK t \in Tasks, p \in 0..made :
      /\ CompileStep(t, p) /\ made' = made
      /\ \/ Compiles(t, p)
         \/ p \in Pages /\ Exists(p)
    BY <1>1 DEF Compilation
  <2>2. PICK page \in Page, next \in Task(made) :
        /\ stored' = [stored EXCEPT ![p] = page]
        /\ task' = [task EXCEPT ![t] = next]
        /\ next.at \in {"plan", "generate"} => next.page = p \/ next = Idle(t)
    BY <2>1 DEF CompileStep
  <2>3. task'[t] = next /\ \A s \in Tasks \ {t} : task'[s] = task[s]
    BY <1>0, <2>2, TaskKept
  <2>4. /\ \A q \in Pages \ {p} : stored'[q] = stored[q]
        /\ p \in Pages => stored'[p] = page
    BY <1>0, <2>1, <2>2, StoredKept
  <2>5. page # Absent
    BY AbsentIsNoPage
  <2>6. \A q \in Pages : Exists(q) => Exists(q)'
    BY <2>4, <2>5 DEF Exists
  <2>7. CASE t # Worker
    BY <1>0, <2>3, <2>6, <2>7, Bounds DEF WorkerHasPage
  <2>8. CASE t = Worker
    <3>1. ASSUME task'[Worker].at \in {"plan", "generate"}
          PROVE  task'[Worker].page = p
      <4>1. next # Idle(Worker)
        BY <2>3, <2>8, <3>1, IdleIsTask
      <4> QED
        BY <2>2, <2>3, <2>8, <3>1, <4>1
    <3>2. p \in Pages /\ Exists(p)
      BY <1>0, <2>1, <2>8 DEF Compiles, WorkerHasPage
    <3> QED
      BY <2>6, <3>1, <3>2 DEF WorkerHasPage
  <2> QED
    BY <2>7, <2>8
<1>2. CASE RequestStep
  <2>1. task'[Worker] = task[Worker]
    <3>1. CASE task' = task
      BY <3>1
    <3>2. CASE task' # task
      <4>1. PICK r \in Requests, next \in Task(made) : task' = [task EXCEPT ![r] = next]
        BY <1>2, <3>2 DEF RequestStep, RequestMoves
      <4> QED
        BY <1>0, <4>1, Bounds
    <3> QED
      BY <3>1, <3>2
  <2>2. \A q \in Pages : Exists(q) => Exists(q)'
    <3>1. CASE stored' = stored
      BY <3>1 DEF Exists
    <3>2. CASE stored' # stored
      <4>1. PICK p \in 0..made, page \in Page : stored' = [stored EXCEPT ![p] = page]
        BY <1>2, <3>2 DEF RequestStep, RequestSaves
      <4>2. made' = made
        BY <1>2 DEF RequestStep
      <4> QED
        BY <1>0, <4>1, <4>2, StoredKept, AbsentIsNoPage DEF Exists
    <3> QED
      BY <3>1, <3>2
  <2> QED
    BY <1>0, <2>1, <2>2 DEF WorkerHasPage
<1>3. CASE WorkerStep
  <2>1. task'[Worker].at \notin {"plan", "generate"}
    BY <1>0, <1>3, Bounds DEF WorkerStep, Off
  <2> QED
    BY <2>1 DEF WorkerHasPage
<1>4. ASSUME NEW disk, NEW q, NEW marked, NEW tasks \in [Tasks -> Task(made)],
             Shelled(disk, q, marked, tasks),
             task'[Worker].at \in {"plan", "generate"}
      PROVE  task'[Worker] = tasks[Worker]
  BY <1>0, <1>4, EnsuredTasks DEF Shelled
<1>5. CASE Confirmation
  <2>1. Shelled(stored, queue, queued, task)
    BY <1>5 DEF Confirmation
  <2>2. ASSUME NEW p \in Pages, Exists(p)
        PROVE  Exists(p)'
    <3>1. p <= made
      BY <1>0, <2>2, StoredType
    <3> QED
      BY <2>1, <2>2, <3>1 DEF Shelled, Exists
  <2> QED
    BY <1>0, <1>4, <2>1, <2>2 DEF WorkerHasPage
<1>6. CASE Rebuilding
  <2>1. Shelled([p \in Pages |-> Absent], <<>>, {}, CancelsWorker)
    BY <1>6 DEF Rebuilding
  <2>2. CancelsWorker \in [Tasks -> Task(made)] /\ CancelsWorker[Worker].at = "off"
    BY <1>0, Cancelled DEF Off
  <2> QED
    BY <1>4, <2>1, <2>2 DEF WorkerHasPage
<1>7. CASE DeleteBook
  <2>1. task'[Worker].at = "off"
    BY <1>0, <1>7, Cancelled DEF DeleteBook, Off
  <2> QED
    BY <2>1 DEF WorkerHasPage
<1>8. CASE Restart
  <2>1. task'[Worker].at = "off"
    BY <1>8, Bounds DEF Restart, Off
  <2> QED
    BY <2>1 DEF WorkerHasPage
<1>9. CASE UNCHANGED vars
  BY <1>0, <1>9 DEF vars, files, WorkerHasPage, Exists
<1> QED
  BY <1>1, <1>2, <1>3, <1>5, <1>6, <1>7, <1>8, <1>9 DEF Kinds

LEMMA InitBook == Init => BookInv
<1> SUFFICES ASSUME Init PROVE BookInv
  OBVIOUS
<1>1. TypeOK
  BY InitType
<1>2. QueueIsServed
  <2>1. task[Worker] = Off /\ queue = <<>> /\ queued = {}
    BY Bounds DEF Init
  <2>2. Serves(queue, queued, task)
    BY <2>1 DEF Serves, Elements, NoRepeats, Busy, Off
  <2> QED
    BY <1>1, <2>2, ServedIsServes
<1>3. NotStranded
  BY DEF Init, NotStranded, Exists
<1>4. WorkerHasPage
  BY Bounds DEF Init, WorkerHasPage, Off
<1> QED
  BY <1>1, <1>2, <1>3, <1>4 DEF BookInv

LEMMA ServedEver == TypeOK => (QueueIsServed <=> Serves(queue, queued, task))
  BY ServedIsServes

LEMMA ServedNext == (TypeOK => (QueueIsServed <=> Serves(queue, queued, task)))'
  BY ServedEver, PTL

LEMMA BookStep == BookInv /\ [Next]_vars => BookInv'
<1> SUFFICES ASSUME BookInv, [Next]_vars PROVE BookInv'
  OBVIOUS
<1>1. Kinds
  BY NextKinds DEF BookInv
<1>2. TypeOK'
  BY <1>1, KindsType DEF BookInv
<1>3. QueueIsServed'
  BY <1>1, <1>2, KindsServed, ServedNext
<1> QED
  BY <1>1, <1>2, <1>3, KindsStranded, KindsWorker DEF BookInv

\* The inductive invariant of the book: the three below and that the worker's
\* page exists.
THEOREM BookHolds == Spec => []BookInv
  BY InitBook, BookStep, PTL DEF Spec

\* What is marked as queued is in the queue, once, or in the worker's hands, and
\* while anything is, there is a worker: in whatever order confirmations,
\* rebuilds, deletions, restarts and the timeout of queue.get come.
THEOREM QueueIsServedHolds == Spec => []QueueIsServed
<1>1. BookInv => QueueIsServed
  BY DEF BookInv
<1> QED
  BY <1>1, BookHolds, PTL

\* A page that is being planned or generated on disk is so by some task, unless
\* a restart interrupted it, however the tasks' copies overwrite each other.
THEOREM NotStrandedHolds == Spec => []NotStranded
<1>1. BookInv => NotStranded
  BY DEF BookInv
<1> QED
  BY <1>1, BookHolds, PTL

\* The worker never brings back a page that was deleted: only a request that
\* holds the page does.
THEOREM BackgroundNeverResurrectsHolds == Spec => BackgroundNeverResurrects
<1> DEFINE Held == \A p \in 1..made : ~Exists(p) /\ stored'[p] # Absent
                      => \E r \in Requests : task[r].page = p
<1>1. BookInv /\ [Next]_vars => [Held]_vars
  <2> SUFFICES ASSUME BookInv, Kinds, NEW p \in 1..made, ~Exists(p), stored'[p] # Absent
               PROVE  \E r \in Requests : task[r].page = p
    BY NextKinds DEF BookInv
  <2>0. TypeOK /\ WorkerHasPage /\ made \in 0..MaxPages /\ MaxPages \in Nat
    BY Bounds DEF BookInv, TypeOK
  <2>1. p \in Pages /\ p <= made
    BY <2>0 DEF Pages
  <2>2. ASSUME NEW u \in 0..made, NEW page \in Page, made' = made,
               stored' = [stored EXCEPT ![u] = page]
        PROVE  u = p
    BY <2>0, <2>1, <2>2, StoredKept DEF Exists
  <2>3. CASE Compilation
    <3>1. PICK t \in Tasks, u \in 0..made :
            /\ CompileStep(t, u) /\ made' = made
            /\ Compiles(t, u) \/ (u \in Pages /\ Exists(u))
      BY <2>3 DEF Compilation
    <3>2. u = p
      BY <2>2, <3>1 DEF CompileStep
    <3>3. Compiles(t, p)
      BY <3>1, <3>2
    <3>4. t # Worker
      BY <2>0, <3>3 DEF WorkerHasPage, Compiles
    <3>5. t \in Requests
      BY <3>4 DEF Tasks
    <3> QED
      BY <3>3, <3>5 DEF Compiles
  <2>4. CASE RequestStep
    <3>1. stored' # stored /\ made' = made
      BY <2>4 DEF RequestStep, Exists
    <3>2. PICK u \in 0..made, page \in Page :
           /\ stored' = [stored EXCEPT ![u] = page]
           /\ (u \in Pages /\ Exists(u)) \/ \E r \in Requests : task[r].page = u
      BY <2>4, <3>1 DEF RequestStep, RequestSaves
    <3>3. u = p
      BY <2>2, <3>1, <3>2
    <3> QED
      BY <3>2, <3>3
  <2>5. CASE Confirmation \/ Rebuilding
    BY <2>1, <2>5 DEF Confirmation, Rebuilding, Shelled, Exists
  <2>6. CASE WorkerStep \/ DeleteBook \/ Restart \/ UNCHANGED vars
    BY <2>1, <2>6 DEF WorkerStep, DeleteBook, Restart, vars, files, Exists
  <2> QED
    BY <2>3, <2>4, <2>5, <2>6 DEF Kinds
<1> QED
  BY <1>1, BookHolds, PTL DEF Spec, BackgroundNeverResurrects

=============================================================================
