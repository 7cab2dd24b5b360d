------------------------------ MODULE RunManager ------------------------------
(***************************************************************************)
(* RunManager: the registry of consolidator runs of every document, the   *)
(* ring of events each run keeps, and the streams that follow a run: the  *)
(* resumable GET /runs/{id}/events and the legacy endpoints that stream a *)
(* run while it works.  What a run does to its document is MemoryDoc's    *)
(* subject.  The events one step emits, with no suspension in between,    *)
(* are one event here.                                                    *)
(***************************************************************************)
EXTENDS Integers, Sequences, FiniteSets, FiniteSetsExt

CONSTANTS
    Keys,          \* documents, (layer, key)
    Replayers,     \* clients of GET /runs/{id}/events, from the first event on
    Legacy,        \* clients of POST /doc/{layer}/{key}/<mode>
    MaxRuns,       \* bound: runs ever started
    MaxEmits,      \* bound: events of a run before it ends
    MaxEvents,     \* _MAX_EVENTS_PER_RUN
    MaxHistory     \* _MAX_HISTORY

ASSUME RunManagerAssumption ==
    /\ MaxEmits \in Nat
    /\ {MaxRuns, MaxEvents, MaxHistory} \subseteq Nat \ {0}
    /\ Keys # {} /\ Replayers \cap Legacy = {}

VARIABLES
    order,      \* _order; its members are the keys of _runs
    active,     \* _active: document -> run, 0 for no entry
    run,        \* Run objects; emitted counts the events, ended the last of _drive
    at,         \* where the stream of a client is suspended
    of,         \* the run it follows
    cursor,     \* its cursor, a position in the ring
    batch,      \* the events of the slice it is sending
    got,        \* history: the events the client received
    woken       \* clients whose waiter event is set

runVars == <<order, active, run>>
followVars == <<at, of, cursor, batch, got, woken>>
vars == <<runVars, followVars>>

Runs == 1..MaxRuns
Followers == Replayers \cup Legacy
Terminal == {"done", "cancelled", "error"}
Active(r) == run[r].status \in {"queued", "running"}
Registered(r) == \E i \in 1..Len(order) : order[i] = r
NoRun == [status |-> "none", key |-> CHOOSE k \in Keys : TRUE, cancel |-> FALSE,
          emitted |-> 0, ended |-> 0]

Init ==
    /\ order = <<>> /\ active = [k \in Keys |-> 0] /\ run = [r \in Runs |-> NoRun]
    /\ at = [f \in Followers |-> "off"] /\ of = [f \in Followers |-> 1]
    /\ cursor = [f \in Followers |-> 0] /\ batch = [f \in Followers |-> <<>>]
    /\ got = [f \in Followers |-> <<>>] /\ woken = {}

-----------------------------------------------------------------------------
(* The ring.  Every event has the number of its emission.  Once the ring is *)
(* full the oldest event is dropped and the others are renumbered, so that  *)
(* position i (from 0) holds emission Dropped + i + 1.                      *)
Length(r) == Min({run[r].emitted, MaxEvents})
Dropped(r) == run[r].emitted - Length(r)
Slice(r, since) == [i \in 1..(Length(r) - since) |-> Dropped(r) + since + i]

\* Mutant: an emission wakes the resumable streams only.
WakesReplayers(r) == {f \in Replayers : at[f] = "wait" /\ of[f] = r}

\* _emit sets the event of every waiter of the run.
Wakes(r) == {f \in Followers : at[f] = "wait" /\ of[f] = r}

\* The run r becomes x and emits.
Emits(r, x) ==
    /\ run' = [run EXCEPT ![r] = [x EXCEPT !.emitted = @ + 1]]
    /\ woken' = woken \cup Wakes(r)
    /\ UNCHANGED <<at, of, cursor, batch, got>>

-----------------------------------------------------------------------------
(* start, cancel, _drive, undo_last                                        *)

Busy(k) == active[k] # 0 /\ Registered(active[k]) /\ Active(active[k])

\* Mutant: an active run is evicted like any other.
EvictAny(ids) == SubSeq(ids, Max({0, Len(ids) - MaxHistory}) + 1, Len(ids))

\* _evict_if_needed: first in first out, stopping at an active run.  The last of
\* ids is the run being started, which is active too.
Evict(ids) ==
    LET surplus == Max({0, Len(ids) - MaxHistory})
        stops == {i \in 1..surplus : Active(ids[i]) \/ i = Len(ids)}
        gone == IF stops = {} THEN surplus ELSE Min(stops) - 1
    IN  SubSeq(ids, gone + 1, Len(ids))

Start(r, k) ==
    /\ ~Busy(k)
    /\ run[r].status = "none" /\ \A q \in 1..(r - 1) : run[q].status # "none"
    /\ run' = [run EXCEPT ![r] = [NoRun EXCEPT !.status = "queued", !.key = k]]
    /\ order' = Evict(Append(order, r))
    /\ active' = [active EXCEPT ![k] = r]
    /\ UNCHANGED followVars

Begin(r) ==
    /\ run[r].status = "queued"
    /\ Emits(r, [run[r] EXCEPT !.status = "running"])
    /\ UNCHANGED <<order, active>>

\* on_event, from whatever the mode reports.
Progress(r) ==
    /\ run[r].status = "running" /\ ~run[r].cancel /\ run[r].emitted < MaxEmits
    /\ Emits(r, run[r])
    /\ UNCHANGED <<order, active>>

\* The last step of _drive: the terminal status, run_ended, and _active.pop.
Ends(r, status) ==
    /\ Emits(r, [run[r] EXCEPT !.status = status, !.cancel = FALSE,
                               !.ended = run[r].emitted + 1])
    /\ active' = [active EXCEPT ![run[r].key] = 0]
    /\ UNCHANGED order

Finishes(r) ==
    /\ run[r].status = "running" /\ ~run[r].cancel
    /\ \E status \in {"done", "error"} : Ends(r, status)

Cancelled(r) == run[r].cancel /\ Ends(r, "cancelled")

\* The id of a run is out only after its task has begun.
Cancel(r) ==
    /\ Registered(r) /\ run[r].status = "running" /\ ~run[r].cancel
    /\ run' = [run EXCEPT ![r].cancel = TRUE]
    /\ UNCHANGED <<order, active, followVars>>

\* undo_last of an ended run reports undo_applied in the same ring.
UndoApplied(r) ==
    /\ Registered(r) /\ run[r].status \in Terminal /\ run[r].emitted = run[r].ended
    /\ Emits(r, run[r])
    /\ UNCHANGED <<order, active>>

-----------------------------------------------------------------------------
(* wait_for_events and the two producers around it.                        *)

\* The stream waits, ends, or sends what lies past position c: one call of
\* wait_for_events.
Look(f, r, c) ==
    /\ cursor' = [cursor EXCEPT ![f] = c]
    /\ woken' = woken \ {f}
    /\ IF c < Length(r)
       THEN /\ at' = [at EXCEPT ![f] = "send"]
            /\ batch' = [batch EXCEPT ![f] = Slice(r, c)]
       ELSE /\ at' = [at EXCEPT ![f] = IF Active(r) THEN "wait" ELSE "over"]
            /\ batch' = [batch EXCEPT ![f] = <<>>]

\* A resumable stream may join any registered run; a legacy one starts its own.
Attach(f, r) ==
    /\ at[f] = "off" /\ Registered(r)
    /\ f \in Legacy => run[r].status = "queued"
    /\ of' = [of EXCEPT ![f] = r]
    /\ Look(f, r, 0)
    /\ UNCHANGED <<runVars, got>>

\* Mutant: every stream takes the end of the ring for what it has sent.
EndOfRing(f) == Max({cursor[f], Length(of[f])})

\* Mutant: the cursor is the position of the last event sent, not the next one.
LastSent(f) == Max({cursor[f], cursor[f] + Len(batch[f]) - 1})

\* The cursor after a batch: the resumable stream takes the end of the ring as
\* it is now, the legacy one the last event it sent.
Advanced(f) ==
    IF f \in Replayers
    THEN Max({cursor[f], Length(of[f])})
    ELSE cursor[f] + Len(batch[f])

\* The test after each batch of both producers.
Over(r) == ~Active(r)

\* After a batch, empty or not: break if the run is over, else look again.
Proceed(f, c) ==
    IF Over(of[f])
    THEN /\ at' = [at EXCEPT ![f] = "over"] /\ woken' = woken \ {f}
         /\ cursor' = [cursor EXCEPT ![f] = c] /\ batch' = [batch EXCEPT ![f] = <<>>]
    ELSE Look(f, of[f], c)

\* The last event of the batch has been sent; the run may have gone on meanwhile.
Sent(f) ==
    /\ at[f] = "send"
    /\ got' = [got EXCEPT ![f] = @ \o batch[f]]
    /\ Proceed(f, Advanced(f))
    /\ UNCHANGED <<runVars, of>>

Wakened(f) ==
    /\ at[f] = "wait" /\ f \in woken
    /\ IF cursor[f] < Length(of[f]) THEN Look(f, of[f], cursor[f]) ELSE Proceed(f, cursor[f])
    /\ UNCHANGED <<runVars, of, got>>

-----------------------------------------------------------------------------
Task(r) == Begin(r) \/ Progress(r) \/ Finishes(r) \/ Cancelled(r)
Follow(f) == Sent(f) \/ Wakened(f)

Next ==
    \/ \E r \in Runs :
         \/ \E k \in Keys : Start(r, k)
         \/ Task(r) \/ Cancel(r) \/ UndoApplied(r)
         \/ \E f \in Followers : Attach(f, r)
    \/ \E f \in Followers : Follow(f)

Spec == Init /\ [][Next]_vars

\* The loop runs every ready task, and a response's send returns.
Fairness == (\A r \in Runs : WF_vars(Task(r))) /\ (\A f \in Followers : WF_vars(Follow(f)))
FairSpec == Spec /\ Fairness

-----------------------------------------------------------------------------
TypeOK ==
    /\ order \in Seq(Runs) /\ active \in [Keys -> 0..MaxRuns]
    /\ run \in [Runs -> [status : {"none", "queued", "running"} \cup Terminal, key : Keys,
                         cancel : BOOLEAN, emitted : Nat, ended : Nat]]
    /\ at \in [Followers -> {"off", "send", "wait", "over"}] /\ of \in [Followers -> Runs]
    /\ cursor \in [Followers -> 0..MaxEvents]
    /\ batch \in [Followers -> Seq(Nat)] /\ got \in [Followers -> Seq(Nat)]
    /\ woken \subseteq Followers

\* At most one run of a document is active, and it is the one its key names,
\* still registered: it can be found, followed, cancelled and refuses a second
\* one, also when newer runs push older ones out (start, _evict_if_needed, the
\* finally block of _drive).
OneActiveRun ==
    \A r \in Runs : Active(r) => active[run[r].key] = r /\ Registered(r)

\* A legacy stream skips nothing while the ring has not overflowed: what its
\* client has is a prefix of the events (cursor = ev.seq + 1).
LegacyHasPrefix ==
    \A f \in Legacy :
      Dropped(of[f]) = 0 => got[f] = [i \in 1..Len(got[f]) |-> i]

\* Whatever it skips, a stream never repeats an event nor goes back, also when
\* the ring drops and renumbers its events (_emit, the producers' cursors).
NoRepeat ==
    \A f \in Followers : \A i \in 1..(Len(got[f]) - 1) : got[f][i] < got[f][i + 1]

\* A client is not left waiting on a run that is over: the wake-ups of _emit
\* and the two tests of run.active around the wait leave no gap.
FollowersAreReleased == \A f \in Followers : at[f] = "wait" ~> at[f] = "over"

\* A client that followed a run from its first event until it was let go has
\* every event up to run_ended.
FollowerHasAll ==
    \A f \in Replayers : at[f] = "over" =>
      \A e \in 1..run[of[f]].ended : \E i \in 1..Len(got[f]) : got[f][i] = e
=============================================================================
