------------------------------ MODULE FriendGraph ------------------------------
(***************************************************************************)
(* What the friends feature promises: two users become friends only when  *)
(* one has asked and the other has accepted, there is never more than one *)
(* open question between two users, and a friendship is never asked again.*)
(***************************************************************************)
CONSTANT Users

VARIABLES
    asked,      \* open requests, <<from, to>>
    friends     \* friendships, sets of two users

graph == <<asked, friends>>

Init == asked = {} /\ friends = {}

Ask(a, b) ==
    /\ a # b /\ {a, b} \notin friends
    /\ <<a, b>> \notin asked /\ <<b, a>> \notin asked
    /\ asked' = asked \cup {<<a, b>>}
    /\ UNCHANGED friends

Accept(a, b) ==
    /\ <<a, b>> \in asked
    /\ asked' = asked \ {<<a, b>>}
    /\ friends' = friends \cup {{a, b}}

Decline(a, b) ==
    /\ <<a, b>> \in asked
    /\ asked' = asked \ {<<a, b>>}
    /\ UNCHANGED friends

Next == \E a, b \in Users : Ask(a, b) \/ Accept(a, b) \/ Decline(a, b)

Spec == Init /\ [][Next]_graph
=============================================================================
