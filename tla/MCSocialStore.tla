----------------------------- MODULE MCSocialStore -----------------------------
(***************************************************************************)
(* Instance of SocialStore for TLC.                                        *)
(***************************************************************************)
EXTENDS SocialStore, TLC

CONSTANTS u1, u2, u3, q1, q2, q3, r1, r2, i1, i2

Interchangeable ==
    Permutations(Users) \cup Permutations(RequestIds)
      \cup Permutations(RoomIds) \cup Permutations(Codes)
=============================================================================
