------------------------------ MODULE MemoryDoc ------------------------------
(***************************************************************************)
(* One memory document (an L2 surface or an L3 slot): the passes the       *)
(* consolidator runs make over it (update, audit or dedup, merge), the    *)
(* edits a user makes meanwhile, undo and reset.  A step runs from one    *)
(* suspension of the asyncio loop to the next; a file is written by a     *)
(* thread, which lands on its own.  A chunk is one L1 entity; the fact    *)
(* drawn from entity e is the piece e.  RunManager models the registry of *)
(* runs and their events; a run it has evicted just takes no more undos.  *)
(***************************************************************************)
EXTENDS Integers, Sequences, FiniteSets, FiniteSetsExt

CONSTANTS
    NoFile,        \* the document when its file does not exist
    Plans,         \* the passes a run may be asked for, in order
    MaxEntities,   \* bound: L1 entities ever recorded
    MaxEdits,      \* bound: chunks of an audit, iterations of a dedup
    MaxRuns,       \* bound: runs ever started
    MaxUserEdits   \* bound: saves and resets of the user

ASSUME MemoryAssumption ==
    /\ {MaxEntities, MaxEdits, MaxRuns, MaxUserEdits} \subseteq Nat
    /\ Plans \subseteq Seq({"update", "edit", "merge"}) \ {<<>>}

VARIABLES
    known,      \* L1 entities recorded so far: 1..known
    doc,        \* content of the document on disk, or NoFile
    meta,       \* seen_entity_refs of the meta sidecar
    writes,     \* _atomic_write calls a thread has not finished
    edits,      \* saves and resets so far
    active,     \* RunManager._active[(layer, key)], 0 for no entry
    run,        \* Run objects and the progress of their tasks
    offered,    \* history: entities a model call has been made for
    base,       \* history: the document when the task of a run began
    mixed       \* history: runs whose writes met those of somebody else

storeVars == <<known, doc, meta, writes, edits>>
runVars == <<active, run>>
history == <<offered, base, mixed>>
vars == <<storeVars, runVars, history>>

Runs == 1..MaxRuns
Note == 0                       \* an entry the user wrote in the editor
Pieces == 0..MaxEntities
Content == (SUBSET Pieces) \cup {NoFile}
Terminal == {"done", "cancelled", "error"}
Writer == {<<"user", 0, 0>>} \cup ({"run"} \X Runs \X {0})
              \cup ({"undo"} \X Runs \X Nat)

NoRun == [status |-> "none", at |-> "none", plan |-> <<>>, mem |-> {}, todo |-> {},
          seen |-> {}, prev |-> NoFile, stack |-> <<>>, cancel |-> FALSE]

Active(r) == run[r].status \in {"queued", "running"}
Begun == {r \in Runs : run[r].status \notin {"none", "queued"}}
Entries(content) == IF content = NoFile THEN {} ELSE content
Goes(r, x) == run' = [run EXCEPT ![r] = x]

Init ==
    /\ known = 0 /\ doc = NoFile /\ meta = {} /\ writes = {} /\ edits = 0
    /\ active = 0 /\ run = [r \in Runs |-> NoRun]
    /\ offered = {} /\ base = [r \in Runs |-> NoFile] /\ mixed = {}

-----------------------------------------------------------------------------
(* RunManager.start: refused while the document has an active run.         *)

Busy == active # 0 /\ Active(active)

Start(r, plan) ==
    /\ ~Busy
    /\ run[r].status = "none" /\ \A q \in 1..(r - 1) : run[q].status # "none"
    /\ run' = [run EXCEPT ![r] = [NoRun EXCEPT !.status = "queued", !.at = "queued",
                                               !.plan = plan]]
    /\ active' = r
    /\ UNCHANGED <<storeVars, history>>

-----------------------------------------------------------------------------
(* The task of a run, _drive around the passes of its mode.                *)

\* Mutant: the chunks are numbered from zero.
TodoFromZero(pass) ==
    CASE pass = "update" -> (0..known) \ meta
      [] pass = "edit"   -> IF Entries(doc) = {} THEN {} ELSE 0..MaxEdits
      [] pass = "merge"  -> {}

\* What a pass has to ask the model about, given what it loads.
Todo(pass) ==
    CASE pass = "update" -> (1..known) \ meta
      [] pass = "edit"   -> IF Entries(doc) = {} THEN {} ELSE 1..MaxEdits
      [] pass = "merge"  -> {}

HasWork(pass) == Todo(pass) # {} \/ (pass = "merge" /\ doc # NoFile)

\* The passes from the first one that has something to do.
Pending(plan) ==
    LET busy == {i \in 1..Len(plan) : HasWork(plan[i])}
    IN  IF busy = {} THEN <<>> ELSE SubSeq(plan, Min(busy), Len(plan))

\* Mutant: CancelledError passes by _drive, as it would with `except Exception`.
NoEndIfCancelled(r, x, status) ==
    /\ Goes(r, IF status = "cancelled" THEN [x EXCEPT !.at = "over", !.cancel = FALSE]
                ELSE [x EXCEPT !.status = status, !.at = "over"])
    /\ active' = 0

\* The end of _drive: a terminal status, then _active.pop.
End(r, x, status) ==
    /\ Goes(r, [x EXCEPT !.status = status, !.at = "over", !.plan = <<>>, !.mem = {},
                         !.todo = {}, !.seen = {}, !.prev = NoFile, !.cancel = FALSE])
    /\ active' = 0

\* write_doc_checkpoint up to the thread: the file is read before it is written.
Write(r, x, content) ==
    /\ Goes(r, [x EXCEPT !.at = "write", !.mem = content, !.prev = doc])
    /\ writes' = writes \cup {[by |-> <<"run", r, 0>>, content |-> content]}
    /\ UNCHANGED active

\* From a pass boundary to the next suspension of the task.
Enter(r, x, plan) ==
    LET todo == Pending(plan)
        y == [x EXCEPT !.plan = todo, !.mem = Entries(doc)]
    IN  \/ /\ todo = <<>>
           /\ End(r, x, "done")
           /\ UNCHANGED writes
        \/ /\ todo # <<>> /\ Head(todo) = "merge"   \* writes only what changes the file
           /\ \/ Write(r, y, Entries(doc))
              \/ End(r, x, "done") /\ UNCHANGED writes
        \/ /\ todo # <<>> /\ Head(todo) # "merge"
           /\ Goes(r, [y EXCEPT !.at = "llm", !.todo = Todo(Head(todo)), !.seen = 1..known])
           /\ UNCHANGED <<writes, active>>

\* _drive's first step and the beginning of the mode.
Begin(r) ==
    /\ run[r].at = "queued"
    /\ Enter(r, [run[r] EXCEPT !.status = "running"], run[r].plan)
    /\ meta' = IF run[r].plan[1] = "update" /\ Todo("update") = {} THEN 1..known ELSE meta
    /\ base' = [base EXCEPT ![r] = doc]
    /\ mixed' = mixed \cup Begun \cup (IF writes = {} THEN {} ELSE {r})
    /\ UNCHANGED <<known, edits, doc, offered>>

\* Mutant: the meta is saved with the first chunk.
SavesMetaEarly(r, y) ==
    /\ meta' = IF Head(y.plan) = "update" THEN y.seen ELSE meta
    /\ IF y.todo # {}
       THEN Goes(r, [y EXCEPT !.at = "llm"]) /\ UNCHANGED <<writes, active>>
       ELSE Enter(r, y, Tail(y.plan))

\* After a chunk: the next call, or the end of the pass (an update saves its meta).
Continue(r, y) ==
    \/ /\ y.todo # {}
       /\ Goes(r, [y EXCEPT !.at = "llm"])
       /\ UNCHANGED <<writes, active, meta>>
    \/ /\ y.todo = {}
       /\ Enter(r, y, Tail(y.plan))
       /\ meta' = IF Head(y.plan) = "update" THEN y.seen ELSE meta

\* The model answered for a chunk of the L1 text; a failed call answers with nothing.
AnswerUpdate(r) ==
    LET chunk == Min(run[r].todo)
        y == [run[r] EXCEPT !.todo = @ \ {chunk}]
    IN  /\ run[r].at = "llm" /\ ~run[r].cancel /\ Head(run[r].plan) = "update"
        /\ offered' = offered \cup {chunk}
        /\ \/ Continue(r, y)
           \/ Write(r, y, y.mem \cup {chunk}) /\ UNCHANGED meta
        /\ UNCHANGED <<known, edits, doc, base, mixed>>

\* The model answered with edits: none (a dedup then stops), or some that apply.
AnswerEdit(r) ==
    LET y == [run[r] EXCEPT !.todo = @ \ {Min(@)}]
    IN  /\ run[r].at = "llm" /\ ~run[r].cancel /\ Head(run[r].plan) = "edit"
        /\ \/ \E rest \in {y.todo, {}} : Continue(r, [y EXCEPT !.todo = rest])
           \/ \E kept \in {y.mem} \cup {y.mem \ {p} : p \in y.mem} :
                Write(r, y, kept) /\ UNCHANGED meta
        /\ UNCHANGED <<known, edits, doc, history>>

OwnWrites(r) == {w \in writes : w.by = <<"run", r, 0>>}

\* Mutant: the checkpoint keeps what was written, not what was there before.
CheckpointsNew(x) == [x EXCEPT !.stack = Append(@, x.mem), !.prev = NoFile]

\* push_undo_checkpoint: only once the write is done.
Checkpoint(x) == [x EXCEPT !.stack = Append(@, x.prev), !.prev = NoFile]

Written(r) ==
    /\ run[r].at = "write" /\ ~run[r].cancel /\ OwnWrites(r) = {}
    /\ Continue(r, Checkpoint(run[r]))
    /\ UNCHANGED <<known, edits, doc, history>>

\* An exception of the runner; a thread that raises has replaced nothing.
Fails(r) ==
    /\ run[r].at \in {"llm", "write"} /\ ~run[r].cancel
    /\ run[r].at = "write" => OwnWrites(r) # {}
    /\ End(r, run[r], "error")
    /\ writes' = writes \ OwnWrites(r)
    /\ UNCHANGED <<known, edits, doc, meta, history>>

\* POST /runs/{id}/cancel.  Its id is out only after the task has begun.
Cancel(r) ==
    /\ Active(r) /\ run[r].at # "queued" /\ ~run[r].cancel
    /\ run' = [run EXCEPT ![r].cancel = TRUE]
    /\ UNCHANGED <<storeVars, active, history>>

\* CancelledError at the suspended call.  A thread that is writing goes on.
Cancelled(r) ==
    /\ run[r].cancel
    /\ End(r, run[r], "cancelled")
    /\ mixed' = IF run[r].at = "write" THEN mixed \cup {r} ELSE mixed
    /\ UNCHANGED <<storeVars, offered, base>>

-----------------------------------------------------------------------------
(* Undo, the editor, reset, and the threads.                               *)

UndosOf(r) == {w \in writes : w.by[1] = "undo" /\ w.by[2] = r}

\* undo_last: any terminal run that is still registered.
Undo(r) ==
    LET depth == Len(run[r].stack)
    IN  /\ ~Active(r) /\ depth > 0
        /\ run' = [run EXCEPT ![r].stack = SubSeq(@, 1, depth - 1)]
        /\ writes' = writes \cup {[by |-> <<"undo", r, depth>>, content |-> run[r].stack[depth]]}
        /\ mixed' = mixed \cup (Begun \ {r}) \cup (IF UndosOf(r) = {} THEN {} ELSE {r})
        /\ UNCHANGED <<known, edits, doc, meta, active, offered, base>>

UserWrites == {w \in writes : w.by[1] = "user"}

\* overwrite_doc, delete_entry, apply_ops_payload, under the store's own lock.
Save ==
    /\ UserWrites = {} /\ edits < MaxUserEdits /\ edits' = edits + 1
    /\ \E content \in {{}, {Note}} \cup {doc \ {p} : p \in Entries(doc)} :
         writes' = writes \cup {[by |-> <<"user", 0, 0>>, content |-> content]}
    /\ mixed' = mixed \cup Begun
    /\ UNCHANGED <<known, doc, meta, runVars, offered, base>>

\* reset_doc: refused while a run is active.
Reset ==
    /\ ~Busy /\ edits < MaxUserEdits /\ edits' = edits + 1
    /\ doc' = NoFile /\ meta' = {}
    /\ mixed' = mixed \cup Begun
    /\ UNCHANGED <<known, writes, runVars, offered, base>>

\* A thread replaces the file.
Lands(w) ==
    /\ doc' = w.content /\ writes' = writes \ {w}
    /\ UNCHANGED <<known, edits, meta, runVars, history>>

\* The thread of a user or of an undo raises: the request fails, the checkpoint is gone.
WriteFails(w) ==
    /\ w.by[1] # "run"
    /\ writes' = writes \ {w}
    /\ mixed' = IF w.by[1] = "undo" THEN mixed \cup {w.by[2]} ELSE mixed
    /\ UNCHANGED <<known, edits, doc, meta, runVars, offered, base>>

Record ==
    /\ known < MaxEntities /\ known' = known + 1
    /\ UNCHANGED <<edits, doc, meta, writes, runVars, history>>

-----------------------------------------------------------------------------
Task(r) == Begin(r) \/ AnswerUpdate(r) \/ AnswerEdit(r) \/ Written(r) \/ Fails(r) \/ Cancelled(r)

Next ==
    \/ \E r \in Runs :
         \/ \E plan \in Plans : Start(r, plan)
         \/ Task(r) \/ Cancel(r) \/ Undo(r)
    \/ Save \/ Reset \/ Record
    \/ \E w \in writes : Lands(w) \/ WriteFails(w)

Spec == Init /\ [][Next]_vars

\* The loop runs every ready task, model calls time out and threads end.
Fairness ==
    /\ \A r \in Runs : WF_vars(Task(r))
    /\ WF_vars(\E w \in writes : Lands(w))

FairSpec == Spec /\ Fairness

-----------------------------------------------------------------------------
TypeOK ==
    /\ known \in 0..MaxEntities /\ edits \in 0..MaxUserEdits /\ doc \in Content
    /\ meta \subseteq 1..known /\ offered \subseteq 1..known
    /\ writes \subseteq [by : Writer, content : Content]
    /\ active \in 0..MaxRuns
    /\ \A r \in Runs :
         /\ run[r].status \in {"none", "queued", "running"} \cup Terminal
         /\ run[r].at \in {"none", "queued", "llm", "write", "over"}
         /\ run[r].mem \subseteq Pieces /\ run[r].seen \subseteq 1..known
         /\ run[r].stack \in Seq(Content)
         /\ base[r] \in Content
    /\ mixed \subseteq Runs

\* The document never has two active runs, each with its own copy in memory
\* (start, the finally of _drive).
OneActiveRun == \A q, r \in Runs : Active(q) /\ Active(r) => q = r

\* An entity the meta calls seen has been put to the model: a run that is
\* cancelled, fails or is still going has not moved the watermark past
\* entities it never read (save_l2_meta after the last chunk).
SeenWasOffered == meta \subseteq offered

\* Undoing every checkpoint of an ended run gives back the document its task
\* found, whatever mixture of updates, edits and merges it wrote, if nobody
\* else wrote in between, its undos did not overlap, and it was not cancelled
\* inside a write (which leaves no checkpoint).
UndoReturnsToStart ==
    \A r \in Runs \ mixed :
      run[r].status \in Terminal /\ run[r].stack = <<>> /\ writes = {} => doc = base[r]

\* Every run ends, so that its document can be updated again: an answer, an
\* exception or a cancellation at any suspension reaches a terminal status.
DocumentIsFreed == \A r \in Runs : Active(r) ~> ~Active(r)
=============================================================================
