------------------------------ MODULE BookEngine ------------------------------
(***************************************************************************)
(* One book: its manifest, spine and page files, the queue and background *)
(* worker that compile its pages, and the user's requests, which work on  *)
(* the same files meanwhile.  A step runs from one suspension (a model    *)
(* call, or the worker's queue.get) to the next; runtime.lock and the     *)
(* global lock are held over no suspension.  Every task has a Page object *)
(* of its own, loaded when it starts and saved whole.  Left out: the      *)
(* overview page, which is built in the step that makes it, a change in   *)
(* the order of chapters (they stand in the order they were made in) or    *)
(* of blocks (move_block), quiz progress and log.                         *)
(***************************************************************************)
EXTENDS Integers, Sequences, FiniteSets, SequencesExt

CONSTANTS
    Requests,      \* user requests at any one time
    Worker,        \* the background worker
    Absent,        \* a page whose file does not exist
    PlanSize,      \* blocks the architect plans
    MaxBlocks,     \* bound: blocks of a page
    MaxChapters,   \* bound: chapters ever made
    MaxPages,      \* bound: pages ever made
    MaxEdits       \* bound: block edits

ASSUME BookAssumption ==
    /\ Worker \notin Requests
    /\ PlanSize \in 1..MaxBlocks
    /\ {MaxBlocks, MaxPages, MaxEdits} \subseteq Nat /\ MaxChapters \in Nat \ {0}

VARIABLES
    book,          \* status in the manifest, "none" when there is none
    spine,         \* chapters of the saved spine, {} when there is none
    chapters,      \* chapters made so far: 1..chapters
    stored,        \* page id -> page on disk
    made,          \* pages made so far: 1..made
    queue, queued, \* _BookRuntime.queue and .queued
    task,          \* the worker and the requests
    edits,         \* block edits so far
    interrupted    \* history: pages a restart caught in a compilation, until the next one

files == <<book, spine, chapters, stored, made>>
runtime == <<queue, queued>>
vars == <<files, runtime, task, edits, interrupted>>

Tasks == Requests \cup {Worker}
Pages == 1..MaxPages
BlockStatus == {"pending", "ready", "error", "note"}   \* a note is a ready block of the user's
Page == [chapter : 1..MaxChapters,
         status : {"pending", "planning", "generating", "ready", "partial", "error"},
         blocks : Seq(BlockStatus)]

ASSUME AbsentIsNoPage == Absent \notin Page

NoPage == [chapter |-> 1, status |-> "pending", blocks |-> <<>>]
Off == [at |-> "off", page |-> 0, copy |-> NoPage, block |-> 0]
Exists(p) == stored[p] # Absent
Compiles(t, p) == task[t].at \in {"plan", "generate"} /\ task[t].page = p

Init ==
    /\ book = "draft" /\ spine = {} /\ chapters = 0
    /\ stored = [p \in Pages |-> Absent] /\ made = 0
    /\ queue = <<>> /\ queued = {}
    /\ task = [t \in Tasks |-> Off]
    /\ edits = 0 /\ interrupted = {}

-----------------------------------------------------------------------------
(* Compiling a page: BookCompiler.compile_page in the worker or a request. *)

Done(block) == block \in {"ready", "note"}

\* Mutant: a page without a ready block gets a status that PageStatus does not have.
FinalizedFailed(page) ==
    [page EXCEPT !.status = IF \A i \in 1..Len(page.blocks) : ~Done(page.blocks[i]) THEN "failed"
                            ELSE IF \E i \in 1..Len(page.blocks) : ~Done(page.blocks[i])
                            THEN "partial" ELSE "ready"]

\* _finalize_page_status
Finalized(page) ==
    LET ready == {i \in 1..Len(page.blocks) : Done(page.blocks[i])}
    IN  [page EXCEPT !.status = IF ready = {} THEN "error"
                                ELSE IF Cardinality(ready) = Len(page.blocks) THEN "ready"
                                ELSE "partial"]

Saved(p, page) == stored' = [stored EXCEPT ![p] = page]

\* _maybe_finalize_book, once p has been saved as page.
FinalizeBook(p, page) ==
    LET others == {q \in Pages \ {p} : Exists(q)}
    IN  book' = IF /\ book # "none" /\ page.status = "ready"
                   /\ \A q \in others : stored[q].status = "ready"
                THEN "ready" ELSE book

\* What a task is after its compilation; the worker asks its queue again.
Idle(t) == IF t = Worker THEN [Off EXCEPT !.at = "get"] ELSE Off

\* Generate the first block from position i on that is not ready, or finish.
Generate(t, p, page, i) ==
    LET todo == {j \in i..Len(page.blocks) : ~Done(page.blocks[j])}
        busy == [page EXCEPT !.status = "generating"]
    IN  \/ \E j \in todo :
             /\ \A k \in todo : j <= k
             /\ Saved(p, busy)
             /\ task' = [task EXCEPT ![t] = [at |-> "generate", page |-> p, copy |-> busy,
                                             block |-> j]]
             /\ UNCHANGED <<book, queued>>
        \/ /\ todo = {}
           /\ Saved(p, Finalized(page))
           /\ FinalizeBook(p, Finalized(page))
           /\ task' = [task EXCEPT ![t] = Idle(t)]
           /\ queued' = IF t = Worker THEN queued \ {p} ELSE queued

\* compile_page up to its first suspension.
StartCompile(t, p, page) ==
    /\ interrupted' = interrupted \ {p}
    /\ IF page.blocks = <<>>
       THEN LET planning == [page EXCEPT !.status = "planning"]
            IN  /\ Saved(p, planning)
                /\ task' = [task EXCEPT ![t] = [at |-> "plan", page |-> p, copy |-> planning,
                                                block |-> 0]]
                /\ UNCHANGED <<book, queued>>
       ELSE Generate(t, p, page, 1)

\* The architect always has a plan, a static one if its call fails.
Planned(t) ==
    /\ task[t].at = "plan"
    /\ Generate(t, task[t].page,
                [task[t].copy EXCEPT !.blocks = [i \in 1..PlanSize |-> "pending"]], 1)
    /\ UNCHANGED <<spine, chapters, made, queue, edits, interrupted>>

\* A generator that fails marks its block; its bridge text belongs to the same step.
Generated(t) ==
    /\ task[t].at = "generate"
    /\ \E result \in {"ready", "error"} :
         Generate(t, task[t].page, [task[t].copy EXCEPT !.blocks[task[t].block] = result],
                  task[t].block + 1)
    /\ UNCHANGED <<spine, chapters, made, queue, edits, interrupted>>

-----------------------------------------------------------------------------
(* The background queue: _enqueue_pending_pages, _ensure_worker,           *)
(* _worker_loop                                                            *)

InSpine(chapter) == chapter \in spine

\* Mutant: a page the worker skips stays marked as queued.
StaysQueued(p) == UNCHANGED queued

\* The finally clause around the compilation of a page.
Unqueue(p) == queued' = queued \ {p}

\* The worker takes the next page and compiles it, or skips it.
Take ==
    LET p == Head(queue)
        compiles == book # "none" /\ Exists(p) /\ stored[p].status # "ready"
                      /\ InSpine(stored[p].chapter)
    IN  /\ task[Worker].at = "get" /\ queue # <<>>
        /\ queue' = Tail(queue)
        /\ \/ compiles /\ StartCompile(Worker, p, stored[p])
           \/ ~compiles /\ Unqueue(p) /\ UNCHANGED <<book, stored, task, interrupted>>
        /\ UNCHANGED <<spine, chapters, made, edits>>

\* Mutant: the queue is not looked at again after the timeout.
ExitsAnyway == task[Worker].at = "get"

\* queue.get timed out; under the lock the queue is looked at once more.
MayExit == task[Worker].at = "get" /\ queue = <<>>

WorkerExits ==
    /\ MayExit
    /\ task' = [task EXCEPT ![Worker] = Off]
    /\ UNCHANGED <<files, runtime, edits, interrupted>>

\* The worker there is, or a new one.
Ensured(tasks) == IF tasks[Worker].at = "off" THEN [tasks EXCEPT ![Worker].at = "get"] ELSE tasks

-----------------------------------------------------------------------------
(* The stages of the book                                                  *)

\* confirm_proposal: the book is loaded, then the spine is synthesised.
ConfirmProposal(r) ==
    /\ task[r].at = "off" /\ book # "none"
    /\ task' = [task EXCEPT ![r].at = "spine"]
    /\ UNCHANGED <<files, runtime, edits, interrupted>>

\* The book as it was loaded is saved with its new status, and a new spine.
SpineReady(r) ==
    /\ task[r].at = "spine"
    /\ task' = [task EXCEPT ![r] = Off]
    /\ \E n \in 1..2 :
         /\ chapters + n <= MaxChapters /\ chapters' = chapters + n
         /\ spine' = (chapters + 1)..(chapters + n)
    /\ book' = "spine_ready"
    /\ UNCHANGED <<stored, made, runtime, edits, interrupted>>

\* A synthesis that raises.
SpineFails(r) ==
    /\ task[r].at = "spine"
    /\ task' = [task EXCEPT ![r] = Off]
    /\ UNCHANGED <<files, runtime, edits, interrupted>>

\* The page of each chapter that confirm_spine goes on with: the one made last.
Listed(confirmed, disk) ==
    {p \in Pages : /\ disk[p] # Absent /\ disk[p].chapter \in confirmed
                   /\ \A q \in Pages : disk[q] # Absent /\ disk[q].chapter = disk[p].chapter
                                        => q <= p}

\* _enqueue_pending_pages: the unfinished pages of the spine, in the order of its chapters.
Enqueue(pages, q, marked, tasks) ==
    /\ \E open \in SetToSeqs({p \in pages \ marked : stored'[p].status # "ready"}) :
         /\ \A i, j \in 1..Len(open) :
              i < j => stored'[open[i]].chapter < stored'[open[j]].chapter
         /\ queue' = q \o open
         /\ queued' = marked \cup {open[i] : i \in 1..Len(open)}
    /\ task' = Ensured(tasks)

\* confirm_spine over the pages in disk: a shell for every chapter that has no page.
Shells(confirmed, disk, q, marked, tasks, auto) ==
    LET bare == {c \in confirmed : \A p \in Pages : disk[p] = Absent \/ disk[p].chapter # c}
        last == made + Cardinality(bare)
    IN  /\ last <= MaxPages /\ made' = last
        /\ \E shell \in SetToSeqs(bare) :
             /\ \A i, j \in 1..Len(shell) : i < j => shell[i] < shell[j]
             /\ stored' = [p \in Pages |-> IF p \in (made + 1)..last
                                           THEN [NoPage EXCEPT !.chapter = shell[p - made]]
                                           ELSE disk[p]]
        /\ spine' = confirmed
        /\ book' = IF auto THEN "compiling" ELSE "spine_ready"
        /\ IF auto THEN Enqueue(Listed(confirmed, stored'), q, marked, tasks)
           ELSE queue' = q /\ queued' = marked /\ task' = tasks

\* The user may have struck chapters off the spine.
ConfirmSpine ==
    /\ book # "none" /\ spine # {}
    /\ \E auto \in BOOLEAN, confirmed \in SUBSET spine \ {{}} :
         Shells(confirmed, stored, queue, queued, task, auto)
    /\ UNCHANGED <<chapters, edits, interrupted>>

\* Mutant: the worker is left at its page.
LeavesWorker == task

\* worker.cancel(): it is at a suspension, and saves nothing more.
CancelsWorker == [task EXCEPT ![Worker] = Off]

Rebuild ==
    /\ book # "none" /\ spine # {}
    /\ \E auto \in BOOLEAN :
         Shells(spine, [p \in Pages |-> Absent], <<>>, {}, CancelsWorker, auto)
    /\ interrupted' = {}
    /\ UNCHANGED <<chapters, edits>>

DeleteBook ==
    /\ book # "none" \/ \E p \in Pages : Exists(p)
    /\ book' = "none" /\ spine' = {} /\ stored' = [p \in Pages |-> Absent]
    /\ queue' = <<>> /\ queued' = {} /\ task' = CancelsWorker
    /\ interrupted' = {}
    /\ UNCHANGED <<chapters, made, edits>>
-----------------------------------------------------------------------------
(* What a user does to a page                                              *)

\* _reset_page_for_force_compile
Reset(page) ==
    [page EXCEPT !.status = "pending",
                 !.blocks = [i \in 1..Len(@) |-> IF @[i] = "note" THEN "note" ELSE "pending"]]

\* compile_page of a page the user opened, or wants anew (force).
CompilePage(r, p) ==
    /\ task[r].at = "off" /\ book # "none" /\ Exists(p) /\ spine # {}
    /\ \E force \in BOOLEAN :
         LET page == IF force THEN Reset(stored[p]) ELSE stored[p]
         IN  /\ stored[p].status = "ready" => force
             /\ \/ InSpine(page.chapter) /\ StartCompile(r, p, page)
                \/ /\ ~InSpine(page.chapter) /\ force    \* raises after the reset
                   /\ Saved(p, page) /\ UNCHANGED <<book, queued, task, interrupted>>
    /\ UNCHANGED <<spine, chapters, made, queue, edits>>

\* Edits change a page on disk; those that generate go on with their own copy.
Edit(p) == Exists(p) /\ edits < MaxEdits /\ edits' = edits + 1
EditRest == UNCHANGED <<spine, chapters, made, runtime, interrupted>>
Appended(page, block) == [page EXCEPT !.blocks = Append(@, block)]

\* insert_block of a type that is generated: saved as pending, then generated.
InsertBlock(r, p) ==
    /\ task[r].at = "off" /\ Edit(p) /\ InSpine(stored[p].chapter)
    /\ Len(stored[p].blocks) < MaxBlocks
    /\ LET page == Appended(stored[p], "pending")
       IN  /\ Saved(p, page)
           /\ task' = [task EXCEPT ![r] = [at |-> "insert", page |-> p, copy |-> page,
                                           block |-> Len(page.blocks)]]
    /\ UNCHANGED book /\ EditRest

InsertNote(p) ==
    /\ Edit(p) /\ InSpine(stored[p].chapter) /\ Len(stored[p].blocks) < MaxBlocks
    /\ Saved(p, Appended(stored[p], "note"))
    /\ UNCHANGED <<book, task>> /\ EditRest

DeleteBlock(p, i) ==
    /\ Edit(p) /\ i \in 1..Len(stored[p].blocks)
    /\ Saved(p, Finalized([stored[p] EXCEPT !.blocks = RemoveAt(@, i)]))
    /\ UNCHANGED <<book, task>> /\ EditRest

\* regenerate_block, alone or after change_block_type has saved the block as pending.
Regenerate(r, p, i) ==
    /\ task[r].at = "off" /\ Edit(p) /\ i \in 1..Len(stored[p].blocks)
    /\ InSpine(stored[p].chapter)
    /\ \/ /\ book # "none"
          /\ task' = [task EXCEPT ![r] = [at |-> "regenerate", page |-> p, copy |-> stored[p],
                                          block |-> i]]
          /\ UNCHANGED stored
       \/ LET page == [stored[p] EXCEPT !.blocks[i] = "pending"]
          IN  /\ Saved(p, page)
              /\ task' = [task EXCEPT ![r] = [at |-> "regenerate", page |-> p, copy |-> page,
                                              block |-> i]]
    /\ UNCHANGED book /\ EditRest

\* Mutant: the page keeps the status it was loaded with.
KeepsStatus(page) == page

\* The end of both edits: the status is that of the blocks of the copy.
AfterEdit(page) == Finalized(page)

\* The block of an edit is generated; only a regeneration looks at the book.
EditDone(r) ==
    /\ task[r].at \in {"insert", "regenerate"}
    /\ \E result \in IF task[r].copy.blocks[task[r].block] = "note" THEN {"note"}
                      ELSE {"ready", "error"} :
         LET page == AfterEdit([task[r].copy EXCEPT !.blocks[task[r].block] = result])
         IN  /\ Saved(task[r].page, page)
             /\ IF task[r].at = "insert" THEN UNCHANGED book ELSE FinalizeBook(task[r].page, page)
    /\ task' = [task EXCEPT ![r] = Off]
    /\ UNCHANGED <<spine, chapters, made, runtime, edits, interrupted>>

-----------------------------------------------------------------------------
\* The process ends; the queue and the tasks are gone, the files stay.
Restart ==
    /\ task # [t \in Tasks |-> Off]
    /\ queue' = <<>> /\ queued' = {} /\ task' = [t \in Tasks |-> Off]
    /\ interrupted' = interrupted \cup {p \in Pages : \E t \in Tasks : Compiles(t, p)}
    /\ UNCHANGED <<files, edits>>

Work == Take \/ Planned(Worker) \/ Generated(Worker)

Next ==
    \/ Work \/ WorkerExits
    \/ ConfirmSpine \/ Rebuild \/ DeleteBook \/ Restart
    \/ \E p \in Pages :
         \/ InsertNote(p)
         \/ \E i \in 1..MaxBlocks : DeleteBlock(p, i)
    \/ \E r \in Requests :
         \/ ConfirmProposal(r) \/ SpineReady(r) \/ SpineFails(r)
         \/ Planned(r) \/ Generated(r) \/ EditDone(r)
         \/ \E p \in Pages :
              \/ CompilePage(r, p) \/ InsertBlock(r, p)
              \/ \E i \in 1..MaxBlocks : Regenerate(r, p, i)

Spec == Init /\ [][Next]_vars

\* The loop runs the worker, and model calls return or time out.
FairSpec == Spec /\ WF_vars(Work)

-----------------------------------------------------------------------------
TypeOK ==
    /\ book \in {"none", "draft", "spine_ready", "compiling", "ready"}
    /\ chapters \in 0..MaxChapters /\ spine \subseteq 1..chapters
    /\ made \in 0..MaxPages
    /\ stored \in [Pages -> Page \cup {Absent}]
    /\ \A p \in Pages : p > made => stored[p] = Absent
    /\ queue \in Seq(1..made) /\ queued \subseteq 1..made
    /\ task \in [Tasks -> [at : {"off", "get", "spine", "plan", "generate",
                                 "insert", "regenerate"},
                           page : 0..made, copy : Page, block : Nat]]
    /\ edits \in 0..MaxEdits /\ interrupted \subseteq 1..made

\* What is marked as queued is in the queue, once, or in the hands of the
\* worker, and while anything is there is a worker: neither the timeout of
\* queue.get, a rebuild, a deletion nor a second confirmation leaves a page that
\* nobody will take or that no later confirmation can queue again.
QueueIsServed ==
    /\ queued # {} => task[Worker].at # "off"
    /\ \A i, j \in 1..Len(queue) : queue[i] = queue[j] => i = j
    /\ queued = {queue[i] : i \in 1..Len(queue)} \cup {p \in Pages : Compiles(Worker, p)}
    /\ \A i \in 1..Len(queue) : ~Compiles(Worker, queue[i])

\* A page whose file says it is being planned or generated is, by somebody:
\* however compilations, edits, rebuilds and deletions overwrite each other's
\* copies, only a restart leaves a page in that state for good.
NotStranded ==
    \A p \in Pages \ interrupted :
      Exists(p) /\ stored[p].status \in {"planning", "generating"}
        => \E t \in Tasks : Compiles(t, p)

\* A page that was deleted only comes back by the hand of a request that was
\* under way (which nothing stops), never by the background worker.
BackgroundNeverResurrects ==
    [][\A p \in 1..made : ~Exists(p) /\ stored'[p] # Absent
         => \E r \in Requests : task[r].page = p]_vars

\* A page in the queue is compiled or given up in the end, and then may be
\* queued again.
QueuedPagesAreServed == \A p \in Pages : p \in queued ~> p \notin queued
=============================================================================
