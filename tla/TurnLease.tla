------------------------------ MODULE TurnLease ------------------------------
(***************************************************************************)
(* What the turns table promises its users, without tasks, callers or      *)
(* restarts: a session is leased to one turn at a time.  A turn acquires   *)
(* the lease of its session once in its life, when the session is free;    *)
(* the lease ends when the turn's row stops running or is deleted, and is  *)
(* never given back to a turn that has lost it.                            *)
(***************************************************************************)
CONSTANTS Sessions, Turns

VARIABLES
    held,   \* the turns whose row is running, per session
    used    \* the turns that have ever been created

vars == <<held, used>>

Init ==
    /\ held = [s \in Sessions |-> {}]
    /\ used = {}

Acquire(s, t) ==
    /\ held[s] = {}
    /\ t \notin used
    /\ held' = [held EXCEPT ![s] = {t}]
    /\ used' = used \cup {t}

Release(s) ==
    /\ held[s] # {}
    /\ held' = [held EXCEPT ![s] = {}]
    /\ UNCHANGED used

Next == \E s \in Sessions : Release(s) \/ \E t \in Turns : Acquire(s, t)

Spec == Init /\ [][Next]_vars
=============================================================================
