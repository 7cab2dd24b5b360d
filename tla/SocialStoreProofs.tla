--------------------------- MODULE SocialStoreProofs ---------------------------
(***************************************************************************)
(* The friends and chat store keeps its invariants and implements          *)
(* FriendGraph, for any sets of users, ids and codes.                      *)
(*                                                                         *)
(* Friends: OnePerPair is inductive, and with it every answer answers the  *)
(* only open question of its pair, which is what FriendGraph needs.        *)
(* Rooms: a room's id is never given again (RoomsKnown), so that the rows  *)
(* of a new room stand alone, and only groups have owners (OwnersInGroups),*)
(* so that no code is ever made for a direct room.                         *)
(***************************************************************************)
EXTENDS SocialStore, TLAPS

(* Every step is one of the operations.                                    *)
FriendStep ==
    \/ \E u, v \in Users : CreateFriendRequest(u, v)
    \/ \E u \in Users : Accept(u) \/ Decline(u)

RoomStep ==
    \/ \E u \in Users : CreateGroup(u) \/ JoinByCode(u)
    \/ \E room \in RoomIds, u \in Users :
         \/ RegenerateCode(room, u)
         \/ \E v \in Users : AddMember(room, u, v) \/ RemoveMember(room, u, v)

LEMMA StepKinds == Next => FriendStep \/ RoomStep
BY DEF Next, FriendStep, RoomStep

LEMMA RoomStepKeepsFriends == ASSUME RoomStep PROVE UNCHANGED friendVars
BY DEF RoomStep, CreateGroup, JoinByCode, RegenerateCode, AddMember, RemoveMember, Admit

-----------------------------------------------------------------------------
(* Type correctness.                                                       *)

LEMMA FriendTypes == ASSUME TypeOK, FriendStep PROVE TypeOK'
<1> USE DEF TypeOK
<1>1. ASSUME NEW u \in Users, NEW v \in Users, CreateFriendRequest(u, v) PROVE TypeOK'
  BY <1>1 DEF CreateFriendRequest, roomVars, Request
<1>2. ASSUME NEW u \in Users, Accept(u) PROVE TypeOK'
  <2>1. PICK q \in ToAnswer(u), room \in RoomIds \ usedRooms :
          /\ requests' = Answered(q, "accepted")
          /\ friendships' = friendships \cup {[id |-> q.id, pair |-> {q.from, q.to}]}
          /\ rooms' = rooms \cup {[id |-> room, type |-> "direct", by |-> u]}
          /\ usedRooms' = usedRooms \cup {room}
          /\ members' = members \cup {[room |-> room, user |-> x, role |-> "member"] :
                                       x \in {q.from, q.to}}
          /\ codes' = codes
    BY <1>2 DEF Accept
  <2>2. q \in Request /\ q \in requests
    BY DEF ToAnswer
  <2>3. requests' \subseteq Request
    BY <2>1, <2>2 DEF Answered, Request
  <2>4. friendships' \subseteq Friendship
    BY <2>1, <2>2 DEF Friendship, Request
  <2>5. rooms' \subseteq Room /\ usedRooms' \subseteq RoomIds
    BY <2>1 DEF Room
  <2>6. members' \subseteq Member
    BY <2>1, <2>2 DEF Member, Request
  <2> QED
    BY <2>1, <2>3, <2>4, <2>5, <2>6
<1>3. ASSUME NEW u \in Users, Decline(u) PROVE TypeOK'
  BY <1>3 DEF Decline, Answered, ToAnswer, Request, roomVars
<1> QED
  BY <1>1, <1>2, <1>3 DEF FriendStep

LEMMA RoomTypes == ASSUME TypeOK, RoomStep PROVE TypeOK'
<1> USE DEF TypeOK
<1>1. ASSUME NEW u \in Users, CreateGroup(u) PROVE TypeOK'
  BY <1>1 DEF CreateGroup, Unused, Room, Member, Code, friendVars
<1>2. ASSUME NEW u \in Users, JoinByCode(u) PROVE TypeOK'
  BY <1>2 DEF JoinByCode, Admit, Member, Code, friendVars
<1>3. ASSUME NEW room \in RoomIds, NEW u \in Users, RegenerateCode(room, u) PROVE TypeOK'
  BY <1>3 DEF RegenerateCode, Unused, Code, friendVars
<1>4. ASSUME NEW room \in RoomIds, NEW u \in Users, NEW v \in Users, AddMember(room, u, v)
      PROVE  TypeOK'
  BY <1>4 DEF AddMember, Admit, Member, friendVars
<1>5. ASSUME NEW room \in RoomIds, NEW u \in Users, NEW v \in Users, RemoveMember(room, u, v)
      PROVE  TypeOK'
  BY <1>5 DEF RemoveMember, friendVars
<1> QED
  BY <1>1, <1>2, <1>3, <1>4, <1>5 DEF RoomStep

(* The tables hold rows of their columns only.                             *)
THEOREM TypeCorrect == Spec => []TypeOK
<1>1. Init => TypeOK
  BY DEF Init, TypeOK
<1>2. TypeOK /\ [Next]_vars => TypeOK'
  <2>1. TypeOK /\ UNCHANGED vars => TypeOK'
    BY DEF TypeOK, vars, friendVars, roomVars
  <2> QED
    BY <2>1, StepKinds, FriendTypes, RoomTypes
<1> QED
  BY <1>1, <1>2, PTL DEF Spec

-----------------------------------------------------------------------------
(* Friends.                                                                *)

(* What answering a request does to the requests that are still open.      *)
LEMMA AnswerCloses ==
    ASSUME TypeOK, OnePerPair, NEW u, NEW q \in ToAnswer(u), NEW status \in {"accepted", "declined"}
    PROVE  /\ q \in requests /\ q.status = "pending"
           /\ \A p \in Answered(q, status) :
                p.status = "pending" => p \in requests /\ {p.from, p.to} # {q.from, q.to}
           /\ \A p \in requests :
                p.status = "pending" /\ p # q => p \in Answered(q, status)
<1>1. q \in requests /\ q.status = "pending" /\ q \in Request
  BY DEF ToAnswer, TypeOK
<1>2. [q EXCEPT !.status = status].status # "pending"
  BY <1>1 DEF Request
<1>3. ASSUME NEW p \in Answered(q, status), p.status = "pending"
      PROVE  p \in requests /\ {p.from, p.to} # {q.from, q.to}
  <2>1. p \in requests /\ p # q
    BY <1>2, <1>3 DEF Answered
  <2> QED
    BY <1>1, <1>3, <2>1 DEF OnePerPair
<1> QED
  BY <1>1, <1>3 DEF Answered

LEMMA PairStep == ASSUME TypeOK, OnePerPair, FriendStep PROVE OnePerPair'
<1>1. ASSUME NEW u \in Users, NEW v \in Users, CreateFriendRequest(u, v) PROVE OnePerPair'
  <2>1. PICK id \in RequestIds :
          /\ requests' = requests \cup {[id |-> id, from |-> u, to |-> v, status |-> "pending"]}
          /\ ~AreFriends(u, v) /\ ~Pending(u, v) /\ friendships' = friendships
    BY <1>1 DEF CreateFriendRequest
  <2> DEFINE new == [id |-> id, from |-> u, to |-> v, status |-> "pending"]
  <2>2. \A p \in requests : p.status = "pending" => {p.from, p.to} # {new.from, new.to}
    BY <2>1 DEF Pending
  <2>3. \A p, q \in requests' :
          p.status = "pending" /\ q.status = "pending" /\ {p.from, p.to} = {q.from, q.to} => p = q
    BY <2>1, <2>2 DEF OnePerPair
  <2>4. \A q \in requests' : q.status = "pending" => ~AreFriends(q.from, q.to)'
    BY <2>1 DEF OnePerPair, AreFriends
  <2> QED
    BY <2>1, <2>3, <2>4 DEF OnePerPair
<1>2. ASSUME NEW u \in Users, Accept(u) PROVE OnePerPair'
  <2>1. PICK q \in ToAnswer(u) :
          /\ requests' = Answered(q, "accepted")
          /\ friendships' = friendships \cup {[id |-> q.id, pair |-> {q.from, q.to}]}
    BY <1>2 DEF Accept
  <2>2. /\ q \in requests /\ q.status = "pending"
        /\ \A p \in requests' :
             p.status = "pending" => p \in requests /\ {p.from, p.to} # {q.from, q.to}
    BY <2>1, AnswerCloses
  <2>3. ~AreFriends(q.from, q.to)
    BY <2>2 DEF OnePerPair
  <2>4. \A p \in requests' : p.status = "pending" => ~AreFriends(p.from, p.to)'
    BY <2>1, <2>2 DEF OnePerPair, AreFriends
  <2>5. \A e, f \in friendships' : e.pair = f.pair => e = f
    BY <2>1, <2>3 DEF OnePerPair, AreFriends
  <2> QED
    BY <2>2, <2>4, <2>5 DEF OnePerPair
<1>3. ASSUME NEW u \in Users, Decline(u) PROVE OnePerPair'
  <2>1. PICK q \in ToAnswer(u) : requests' = Answered(q, "declined")
    BY <1>3 DEF Decline
  <2>2. \A p \in requests' : p.status = "pending" => p \in requests
    BY <2>1, AnswerCloses
  <2>3. friendships' = friendships
    BY <1>3 DEF Decline
  <2> QED
    BY <2>2, <2>3 DEF OnePerPair, AreFriends
<1> QED
  BY <1>1, <1>2, <1>3 DEF FriendStep

(* Two users have at most one open request, none once they are friends, and *)
(* one friendship, whatever both of them do.                               *)
THEOREM OnePerPairHolds == Spec => []OnePerPair
<1>1. Init => OnePerPair
  BY DEF Init, OnePerPair
<1>2. TypeOK /\ OnePerPair /\ [Next]_vars => OnePerPair'
  <2>1. OnePerPair /\ UNCHANGED friendVars => OnePerPair'
    BY DEF OnePerPair, AreFriends, friendVars
  <2>2. UNCHANGED vars => UNCHANGED friendVars
    BY DEF vars
  <2> QED
    BY <2>1, <2>2, StepKinds, PairStep, RoomStepKeepsFriends
<1> QED
  BY <1>1, <1>2, TypeCorrect, PTL DEF Spec
-----------------------------------------------------------------------------
(* Rooms.                                                                  *)

\* The id of a room names one room, and is used.
RoomsKnown ==
    /\ \A r \in rooms : r.id \in usedRooms
    /\ \A r, s \in rooms : r.id = s.id => r = s

\* Only groups have owners.
OwnersInGroups ==
    \A m \in members : m.role = "owner" => \E r \in rooms : r.id = m.room /\ r.type = "group"

RoomInv == RoomsKnown /\ OwnersInGroups /\ RoomsAreWhole /\ GroupKeepsOwner

(* Rows that carry the id of a new room are the new ones.                  *)
LEMMA NewRoomIsAlone ==
    ASSUME RoomInv, NEW id, id \notin usedRooms
    PROVE  /\ \A r \in rooms : r.id # id
           /\ \A m \in members : m.room # id
           /\ \A c \in codes : c.room # id
BY DEF RoomInv, RoomsKnown, RoomsAreWhole

LEMMA AcceptKeepsRooms ==
    ASSUME TypeOK, RoomInv, NEW u \in Users, Accept(u) PROVE RoomInv'
<1>1. PICK q \in ToAnswer(u), id \in RoomIds \ usedRooms :
        /\ rooms' = rooms \cup {[id |-> id, type |-> "direct", by |-> u]}
        /\ usedRooms' = usedRooms \cup {id}
        /\ members' = members \cup {[room |-> id, user |-> x, role |-> "member"] :
                                     x \in {q.from, q.to}}
        /\ codes' = codes
  BY DEF Accept
<1>2. /\ \A r \in rooms : r.id # id
      /\ \A m \in members : m.room # id
      /\ \A c \in codes : c.room # id
  BY <1>1, NewRoomIsAlone
<1>3. /\ \A r \in rooms' : r \in rooms \/ r = [id |-> id, type |-> "direct", by |-> u]
      /\ \A m \in members' : m \in members \/ (m.room = id /\ m.role = "member")
      /\ [room |-> id, user |-> q.from, role |-> "member"] \in members'
      /\ rooms \subseteq rooms' /\ members \subseteq members'
  BY <1>1
<1>4. RoomsKnown'
  BY <1>1, <1>2, <1>3 DEF RoomInv, RoomsKnown
<1>5. OwnersInGroups'
  BY <1>1, <1>2, <1>3 DEF RoomInv, OwnersInGroups
<1>6. RoomsAreWhole'
  <2>1. \A r \in rooms' : \E m \in members' : m.room = r.id
    BY <1>3 DEF RoomInv, RoomsAreWhole
  <2>2. \A m \in members' : \E r \in rooms' : r.id = m.room
    <3>1. \A m \in members : \E r \in rooms' : r.id = m.room
      BY <1>3 DEF RoomInv, RoomsAreWhole
    <3>2. [id |-> id, type |-> "direct", by |-> u] \in rooms'
      BY <1>1
    <3>3. [id |-> id, type |-> "direct", by |-> u].id = id
      OBVIOUS
    <3> QED
      BY <1>3, <3>1, <3>2, <3>3
  <2>3. \A r \in rooms' : r.type = "group" => r \in rooms
    BY <1>3
  <2> QED
    BY <1>1, <1>3, <2>1, <2>2, <2>3 DEF RoomInv, RoomsAreWhole
<1>7. GroupKeepsOwner'
  <2> SUFFICES ASSUME NEW r \in rooms', r.type = "group", NEW m \in members', m.room = r.id
               PROVE  /\ m.role = "owner" <=> m.user = r.by
                      /\ \E o \in members' : o.room = r.id /\ o.user = r.by
    BY DEF GroupKeepsOwner
  <2>1. r \in rooms /\ r.id # id
    BY <1>2, <1>3
  <2>2. m \in members
    BY <1>3, <2>1
  <2> QED
    BY <1>3, <2>1, <2>2 DEF RoomInv, GroupKeepsOwner
<1> QED
  BY <1>4, <1>5, <1>6, <1>7 DEF RoomInv

LEMMA CreateGroupKeepsRooms ==
    ASSUME TypeOK, RoomInv, NEW u \in Users, CreateGroup(u) PROVE RoomInv'
<1>1. PICK id \in RoomIds \ usedRooms, code \in Unused :
        /\ rooms' = rooms \cup {[id |-> id, type |-> "group", by |-> u]}
        /\ usedRooms' = usedRooms \cup {id}
        /\ members' = members \cup {[room |-> id, user |-> u, role |-> "owner"]}
        /\ codes' = codes \cup {[room |-> id, code |-> code]}
  BY DEF CreateGroup
<1> PICK new : new = [id |-> id, type |-> "group", by |-> u]
  OBVIOUS
<1> PICK owner : owner = [room |-> id, user |-> u, role |-> "owner"]
  OBVIOUS
<1> PICK c0 : c0 = [room |-> id, code |-> code]
  OBVIOUS
<1>r. /\ rooms' = rooms \cup {new} /\ new.id = id /\ new.type = "group" /\ new.by = u
      /\ members' = members \cup {owner} /\ owner.room = id /\ owner.user = u
      /\ codes' = codes \cup {c0} /\ c0.room = id /\ c0.code = code
  BY <1>1
<1>2. /\ \A r \in rooms : r.id # id
      /\ \A m \in members : m.room # id
      /\ \A c \in codes : c.room # id
  BY <1>1, NewRoomIsAlone
<1>3. RoomsKnown'
  BY <1>1, <1>2 DEF RoomInv, RoomsKnown
<1>4. OwnersInGroups'
  BY <1>r DEF RoomInv, OwnersInGroups
<1>5. RoomsAreWhole'
  <2>1. \A r \in rooms' : \E m \in members' : m.room = r.id
    BY <1>r DEF RoomInv, RoomsAreWhole
  <2>2. \A m \in members' : \E r \in rooms' : r.id = m.room
    BY <1>r DEF RoomInv, RoomsAreWhole
  <2>3. \A c \in codes' : \E r \in rooms' : r.id = c.room /\ r.type = "group"
    BY <1>r DEF RoomInv, RoomsAreWhole
  <2>4. \A r \in rooms' : r.type = "group" => \E c \in codes' : c.room = r.id
    BY <1>r DEF RoomInv, RoomsAreWhole
  <2>5. \A c, d \in codes' : c.room = d.room \/ c.code = d.code => c = d
    BY <1>r, <1>2 DEF RoomInv, RoomsAreWhole, Unused
  <2> QED
    BY <2>1, <2>2, <2>3, <2>4, <2>5 DEF RoomsAreWhole
<1>6. GroupKeepsOwner'
  <2> SUFFICES ASSUME NEW r \in rooms', r.type = "group", NEW m \in members', m.room = r.id
               PROVE  /\ m.role = "owner" <=> m.user = r.by
                      /\ \E o \in members' : o.room = r.id /\ o.user = r.by
    BY DEF GroupKeepsOwner
  <2>1. CASE r = new
    BY <1>r, <1>2, <2>1
  <2>2. CASE r \in rooms
    <3>1. m \in members
      BY <1>r, <1>2, <2>2
    <3> QED
      BY <1>r, <2>2, <3>1 DEF RoomInv, GroupKeepsOwner
  <2> QED
    BY <1>r, <2>1, <2>2
<1> QED
  BY <1>3, <1>4, <1>5, <1>6 DEF RoomInv

LEMMA RegenerateKeepsRooms ==
    ASSUME TypeOK, RoomInv, NEW room \in RoomIds, NEW u \in Users, RegenerateCode(room, u)
    PROVE  RoomInv'
<1>1. PICK code \in Unused :
        codes' = {c \in codes : c.room # room} \cup {[room |-> room, code |-> code]}
  BY DEF RegenerateCode
<1>2. UNCHANGED <<rooms, usedRooms, members>> /\ RoleIn(room, u, "owner")
  BY DEF RegenerateCode
<1>3. \E r \in rooms : r.id = room /\ r.type = "group"
  BY <1>2 DEF RoleIn, RoomInv, OwnersInGroups
<1>4. RoomsAreWhole'
  <2>1. \A c \in codes' : \E r \in rooms' : r.id = c.room /\ r.type = "group"
    BY <1>1, <1>2, <1>3 DEF RoomInv, RoomsAreWhole
  <2>2. \A r \in rooms' : r.type = "group" => \E c \in codes' : c.room = r.id
    <3> SUFFICES ASSUME NEW r \in rooms, r.type = "group" PROVE \E c \in codes' : c.room = r.id
      BY <1>2
    <3>1. PICK c \in codes : c.room = r.id
      BY DEF RoomInv, RoomsAreWhole
    <3>2. [room |-> room, code |-> code] \in codes'
      BY <1>1
    <3>3. [room |-> room, code |-> code].room = room
      OBVIOUS
    <3> QED
      BY <1>1, <3>1, <3>2, <3>3
  <2>3. \A c, d \in codes' : c.room = d.room \/ c.code = d.code => c = d
    BY <1>1 DEF RoomInv, RoomsAreWhole, Unused
  <2> QED
    BY <1>2, <2>1, <2>2, <2>3 DEF RoomInv, RoomsAreWhole
<1> QED
  BY <1>2, <1>4 DEF RoomInv, RoomsKnown, OwnersInGroups, GroupKeepsOwner

(* A member is only ever admitted to a group, whose id names no other room. *)
LEMMA AdmitKeepsRooms ==
    ASSUME TypeOK, RoomInv, NEW room, NEW u \in Users, Admit(room, u),
           NEW r \in rooms, r.id = room, r.type = "group"
    PROVE  RoomInv' /\ \A s \in rooms : s.type = "direct" => s.id # room
<1>1. /\ members' = members \cup {[room |-> room, user |-> u, role |-> "member"]}
      /\ UNCHANGED <<rooms, usedRooms, codes>> /\ ~IsMember(room, u)
  BY DEF Admit
<1>2. \A s \in rooms : s.id = room => s = r
  BY DEF RoomInv, RoomsKnown
<1>3. PICK m \in members : m.room = room /\ m.user = r.by
  BY DEF RoomInv, RoomsAreWhole, GroupKeepsOwner
<1>4. u # r.by
  BY <1>1, <1>3 DEF IsMember
<1>5. GroupKeepsOwner'
  BY <1>1, <1>2, <1>3, <1>4 DEF RoomInv, GroupKeepsOwner
<1>6. RoomsKnown' /\ OwnersInGroups' /\ RoomsAreWhole'
  BY <1>1 DEF RoomInv, RoomsKnown, OwnersInGroups, RoomsAreWhole
<1> QED
  BY <1>2, <1>5, <1>6 DEF RoomInv

LEMMA RemoveKeepsRooms ==
    ASSUME TypeOK, RoomInv, NEW room \in RoomIds, NEW u \in Users, NEW v \in Users,
           RemoveMember(room, u, v)
    PROVE  RoomInv'
<1> DEFINE left == {m \in members : ~(m.room = room /\ m.user = v)}
<1>1. /\ members' = left /\ usedRooms' = usedRooms /\ CanRemove(room, u, v)
      /\ rooms' \subseteq rooms /\ codes' \subseteq codes
      /\ \A r \in rooms : r.id # room => r \in rooms'
      /\ \A c \in codes : c.room # room => c \in codes'
      /\ \/ /\ \A m \in left : m.room # room
            /\ \A r \in rooms' : r.id # room
            /\ \A c \in codes' : c.room # room
         \/ /\ \E m \in left : m.room = room
            /\ rooms' = rooms /\ codes' = codes
  BY DEF RemoveMember
<1>2. RoomsKnown'
  BY <1>1 DEF RoomInv, RoomsKnown
<1>3. OwnersInGroups'
  <2> SUFFICES ASSUME NEW m \in members', m.role = "owner"
               PROVE  \E r \in rooms' : r.id = m.room /\ r.type = "group"
    BY DEF OwnersInGroups
  <2>1. m \in members /\ m \in left
    BY <1>1
  <2>2. PICK r \in rooms : r.id = m.room /\ r.type = "group"
    BY <2>1 DEF RoomInv, OwnersInGroups
  <2> QED
    BY <1>1, <2>1, <2>2
<1>4. RoomsAreWhole'
  <2>1. \A r \in rooms' : \E m \in members' : m.room = r.id
    <3> SUFFICES ASSUME NEW r \in rooms' PROVE \E m \in left : m.room = r.id
      BY <1>1
    <3>1. PICK m \in members : m.room = r.id
      BY <1>1 DEF RoomInv, RoomsAreWhole
    <3>2. CASE r.id = room
      BY <1>1, <3>2
    <3>3. CASE r.id # room
      BY <3>1, <3>3
    <3> QED
      BY <3>2, <3>3
  <2>2. \A m \in members' : \E r \in rooms' : r.id = m.room
    <3> SUFFICES ASSUME NEW m \in left PROVE \E r \in rooms' : r.id = m.room
      BY <1>1
    <3>1. PICK r \in rooms : r.id = m.room
      BY DEF RoomInv, RoomsAreWhole
    <3> QED
      BY <1>1, <3>1
  <2>3. \A c \in codes' : \E r \in rooms' : r.id = c.room /\ r.type = "group"
    BY <1>1 DEF RoomInv, RoomsAreWhole
  <2>4. \A r \in rooms' : r.type = "group" => \E c \in codes' : c.room = r.id
    BY <1>1 DEF RoomInv, RoomsAreWhole
  <2>5. \A c, d \in codes' : c.room = d.room \/ c.code = d.code => c = d
    BY <1>1 DEF RoomInv, RoomsAreWhole
  <2> QED
    BY <2>1, <2>2, <2>3, <2>4, <2>5 DEF RoomsAreWhole
<1>5. GroupKeepsOwner'
  <2> SUFFICES ASSUME NEW r \in rooms', r.type = "group", NEW m \in left, m.room = r.id
               PROVE  /\ m.role = "owner" <=> m.user = r.by
                      /\ \E o \in left : o.room = r.id /\ o.user = r.by
    BY <1>1 DEF GroupKeepsOwner
  <2>1. r \in rooms /\ m \in members
    BY <1>1
  <2>2. PICK o \in members : o.room = r.id /\ o.user = r.by
    BY <2>1 DEF RoomInv, GroupKeepsOwner
  <2>3. o \in left
    <3> SUFFICES ASSUME r.id = room, v = r.by PROVE FALSE
      BY <2>2
    <3>1. o.role = "owner"
      BY <2>1, <2>2 DEF RoomInv, GroupKeepsOwner
    <3>2. CASE u = v
      <4>1. RoleIn(room, u, "owner")
        <5>1. o = [room |-> room, user |-> u, role |-> "owner"]
          BY <2>2, <3>1, <3>2 DEF TypeOK, Member
        <5> QED
          BY <5>1 DEF RoleIn
      <4>2. m.user = u
        BY <1>1, <2>1, <3>2, <4>1 DEF CanRemove
      <4> QED
        BY <2>1, <3>2, <4>2
    <3>3. CASE u # v
      <4>1. RoleIn(room, u, "owner")
        BY <1>1, <3>3 DEF CanRemove
      <4>2. u = r.by
        BY <2>1, <4>1 DEF RoleIn, RoomInv, GroupKeepsOwner
      <4> QED
        BY <3>3, <4>2
    <3> QED
      BY <3>2, <3>3
  <2>4. m.role = "owner" <=> m.user = r.by
    BY <2>1 DEF RoomInv, GroupKeepsOwner
  <2> QED
    BY <2>2, <2>3, <2>4
<1> QED
  BY <1>2, <1>3, <1>4, <1>5 DEF RoomInv

(* What every step does to the rooms, and to the members of direct rooms.  *)
LEMMA RoomInvStep ==
    ASSUME TypeOK, RoomInv, Next
    PROVE  /\ RoomInv'
           /\ \A r \in rooms : r.type = "direct" =>
                {m \in members' : m.room = r.id} \subseteq members
<1> DEFINE Closed == \A r \in rooms : r.type = "direct" =>
                       {m \in members' : m.room = r.id} \subseteq members
<1>1. ASSUME UNCHANGED roomVars PROVE RoomInv' /\ Closed
  BY <1>1 DEF roomVars, RoomInv, RoomsKnown, OwnersInGroups, RoomsAreWhole, GroupKeepsOwner
<1>2. ASSUME NEW u \in Users, NEW v \in Users, CreateFriendRequest(u, v)
      PROVE  RoomInv' /\ Closed
  BY <1>1, <1>2 DEF CreateFriendRequest
<1>3. ASSUME NEW u \in Users, Decline(u) PROVE RoomInv' /\ Closed
  BY <1>1, <1>3 DEF Decline
<1>4. ASSUME NEW u \in Users, Accept(u) PROVE RoomInv' /\ Closed
  <2>1. PICK id \in RoomIds \ usedRooms :
          \A m \in members' : m \in members \/ m.room = id
    BY <1>4 DEF Accept
  <2>2. Closed
    BY <2>1, NewRoomIsAlone
  <2> QED
    BY <1>4, <2>2, AcceptKeepsRooms
<1>5. ASSUME NEW u \in Users, CreateGroup(u) PROVE RoomInv' /\ Closed
  <2>1. PICK id \in RoomIds \ usedRooms :
          \A m \in members' : m \in members \/ m.room = id
    BY <1>5 DEF CreateGroup
  <2>2. Closed
    BY <2>1, NewRoomIsAlone
  <2> QED
    BY <1>5, <2>2, CreateGroupKeepsRooms
<1>6. ASSUME NEW room, NEW u \in Users, Admit(room, u),
             NEW r \in rooms, r.id = room, r.type = "group"
      PROVE  RoomInv' /\ Closed
  <2>1. RoomInv' /\ \A s \in rooms : s.type = "direct" => s.id # room
    BY <1>6, AdmitKeepsRooms
  <2>2. \A m \in members' : m \in members \/ m.room = room
    BY <1>6 DEF Admit
  <2> QED
    BY <2>1, <2>2
<1>7. ASSUME NEW u \in Users, JoinByCode(u) PROVE RoomInv' /\ Closed
  <2>1. PICK c \in codes : Admit(c.room, u)
    BY <1>7 DEF JoinByCode
  <2>2. PICK r \in rooms : r.id = c.room /\ r.type = "group"
    BY DEF RoomInv, RoomsAreWhole
  <2> QED
    BY <1>6, <2>1, <2>2
<1>8. ASSUME NEW room \in RoomIds, NEW u \in Users, NEW v \in Users, AddMember(room, u, v)
      PROVE  RoomInv' /\ Closed
  BY <1>6, <1>8 DEF AddMember, CanAdd
<1>9. ASSUME NEW room \in RoomIds, NEW u \in Users, RegenerateCode(room, u)
      PROVE  RoomInv' /\ Closed
  BY <1>9, RegenerateKeepsRooms DEF RegenerateCode
<1>10. ASSUME NEW room \in RoomIds, NEW u \in Users, NEW v \in Users, RemoveMember(room, u, v)
       PROVE  RoomInv' /\ Closed
  <2>1. members' \subseteq members
    BY <1>10 DEF RemoveMember
  <2> QED
    BY <1>10, <2>1, RemoveKeepsRooms
<1> QED
  BY <1>2, <1>3, <1>4, <1>5, <1>7, <1>8, <1>9, <1>10 DEF Next

LEMMA RoomInvHolds == Spec => []RoomInv
<1>1. Init => RoomInv
  BY DEF Init, RoomInv, RoomsKnown, OwnersInGroups, RoomsAreWhole, GroupKeepsOwner
<1>2. TypeOK /\ RoomInv /\ [Next]_vars => RoomInv'
  <2>1. UNCHANGED vars /\ RoomInv => RoomInv'
    BY DEF vars, roomVars, RoomInv, RoomsKnown, OwnersInGroups, RoomsAreWhole, GroupKeepsOwner
  <2> QED
    BY <2>1, RoomInvStep
<1> QED
  BY <1>1, <1>2, TypeCorrect, PTL DEF Spec

(* A group has its maker as its one owner as long as it exists.            *)
THEOREM GroupKeepsOwnerHolds == Spec => []GroupKeepsOwner
<1>1. RoomInv => GroupKeepsOwner
  BY DEF RoomInv
<1> QED
  BY <1>1, RoomInvHolds, PTL

(* No room without members, no member or code without its room, one code  *)
(* for each group and none for a direct room.                              *)
THEOREM RoomsAreWholeHolds == Spec => []RoomsAreWhole
<1>1. RoomInv => RoomsAreWhole
  BY DEF RoomInv
<1> QED
  BY <1>1, RoomInvHolds, PTL

(* Nobody ever enters a direct room that exists, not even one that has     *)
(* been left by a member.                                                  *)
THEOREM DirectRoomsStayClosedHolds == Spec => DirectRoomsStayClosed
<1> DEFINE Closed == \A r \in rooms : r.type = "direct" =>
                       {m \in members' : m.room = r.id} \subseteq members
<1>1. TypeOK /\ RoomInv /\ [Next]_vars => [Closed]_vars
  BY RoomInvStep
<1> QED
  BY <1>1, TypeCorrect, RoomInvHolds, PTL DEF Spec, DirectRoomsStayClosed

-----------------------------------------------------------------------------
(* Refinement.                                                             *)

AskedBar == {<<q.from, q.to>> : q \in {p \in requests : p.status = "pending"}}
FriendsBar == {f.pair : f \in friendships}

LEMMA BarStutters == ASSUME UNCHANGED friendVars PROVE UNCHANGED <<AskedBar, FriendsBar>>
BY DEF friendVars, AskedBar, FriendsBar

(* Answering a request takes its question, and no other, off the graph.    *)
LEMMA AnswerTakesQuestion ==
    ASSUME TypeOK, OnePerPair, NEW u, NEW q \in ToAnswer(u),
           NEW status \in {"accepted", "declined"}, requests' = Answered(q, status)
    PROVE  /\ q \in requests /\ q \in Request /\ <<q.from, q.to>> \in AskedBar
           /\ AskedBar' = AskedBar \ {<<q.from, q.to>>}
<1>1. /\ q \in requests /\ q.status = "pending"
      /\ \A p \in requests' :
           p.status = "pending" => p \in requests /\ {p.from, p.to} # {q.from, q.to}
      /\ \A p \in requests : p.status = "pending" /\ p # q => p \in requests'
  BY AnswerCloses
<1>2. q \in Request /\ <<q.from, q.to>> \in AskedBar
  BY <1>1 DEF TypeOK, AskedBar
<1>3. ASSUME NEW a \in AskedBar' PROVE a \in AskedBar \ {<<q.from, q.to>>}
  <2>1. PICK p \in requests' : p.status = "pending" /\ a = <<p.from, p.to>>
    BY <1>3 DEF AskedBar
  <2>2. p \in requests /\ {p.from, p.to} # {q.from, q.to}
    BY <1>1, <2>1
  <2> QED
    BY <2>1, <2>2 DEF AskedBar
<1>4. ASSUME NEW a \in AskedBar, a # <<q.from, q.to>> PROVE a \in AskedBar'
  <2>1. PICK p \in requests : p.status = "pending" /\ a = <<p.from, p.to>>
    BY <1>4 DEF AskedBar
  <2>2. p \in requests'
    BY <1>1, <1>4, <2>1
  <2> QED
    BY <2>1, <2>2 DEF AskedBar
<1> QED
  BY <1>1, <1>2, <1>3, <1>4

LEMMA StepImplements ==
    ASSUME TypeOK, OnePerPair, FriendStep PROVE Promise!Next
<1>1. ASSUME NEW u \in Users, NEW v \in Users, CreateFriendRequest(u, v) PROVE Promise!Ask(u, v)
  <2>1. PICK id \in RequestIds :
          /\ requests' = requests \cup {[id |-> id, from |-> u, to |-> v, status |-> "pending"]}
          /\ u # v /\ ~AreFriends(u, v) /\ ~Pending(u, v) /\ friendships' = friendships
    BY <1>1 DEF CreateFriendRequest
  <2>2. {u, v} \notin FriendsBar /\ <<u, v>> \notin AskedBar /\ <<v, u>> \notin AskedBar
    BY <2>1 DEF AreFriends, Pending, FriendsBar, AskedBar
  <2>3. PICK new : new = [id |-> id, from |-> u, to |-> v, status |-> "pending"]
    OBVIOUS
  <2>4. /\ requests' = requests \cup {new}
        /\ new.status = "pending" /\ new.from = u /\ new.to = v
    BY <2>1, <2>3
  <2>5. AskedBar' = AskedBar \cup {<<u, v>>}
    BY <2>4 DEF AskedBar
  <2>6. FriendsBar' = FriendsBar
    BY <2>1 DEF FriendsBar
  <2> QED
    BY <2>1, <2>2, <2>5, <2>6 DEF Promise!Ask, AskedBar, FriendsBar
<1>2. ASSUME NEW u \in Users, Accept(u) PROVE \E a, b \in Users : Promise!Accept(a, b)
  <2>1. PICK q \in ToAnswer(u) :
          /\ requests' = Answered(q, "accepted")
          /\ friendships' = friendships \cup {[id |-> q.id, pair |-> {q.from, q.to}]}
    BY <1>2 DEF Accept
  <2>2. /\ q \in Request /\ <<q.from, q.to>> \in AskedBar
        /\ AskedBar' = AskedBar \ {<<q.from, q.to>>}
    BY <2>1, AnswerTakesQuestion
  <2>3. PICK new : new = [id |-> q.id, pair |-> {q.from, q.to}]
    OBVIOUS
  <2>4. friendships' = friendships \cup {new} /\ new.pair = {q.from, q.to}
    BY <2>1, <2>3
  <2>5. FriendsBar' = FriendsBar \cup {{q.from, q.to}}
    BY <2>4 DEF FriendsBar
  <2>6. Promise!Accept(q.from, q.to)
    BY <2>2, <2>5 DEF Promise!Accept, AskedBar, FriendsBar
  <2> QED
    BY <2>2, <2>6 DEF Request
<1>3. ASSUME NEW u \in Users, Decline(u) PROVE \E a, b \in Users : Promise!Decline(a, b)
  <2>1. PICK q \in ToAnswer(u) : requests' = Answered(q, "declined")
    BY <1>3 DEF Decline
  <2>2. /\ q \in Request /\ <<q.from, q.to>> \in AskedBar
        /\ AskedBar' = AskedBar \ {<<q.from, q.to>>}
    BY <2>1, AnswerTakesQuestion
  <2>3. FriendsBar' = FriendsBar
    BY <1>3 DEF Decline, FriendsBar
  <2>4. Promise!Decline(q.from, q.to)
    BY <2>2, <2>3 DEF Promise!Decline, AskedBar, FriendsBar
  <2> QED
    BY <2>2, <2>4 DEF Request
<1> QED
  BY <1>1, <1>2, <1>3 DEF FriendStep, Promise!Next

(* The tables keep the promise of FriendGraph: every operation is one step *)
(* of it, or none.                                                         *)
THEOREM ImplementsFriendGraph == Spec => KeepsPromise
<1>1. Init => Promise!Init
  BY DEF Init, Promise!Init
<1>2. TypeOK /\ OnePerPair /\ [Next]_vars => [Promise!Next]_(Promise!graph)
  <2>1. UNCHANGED friendVars => UNCHANGED Promise!graph
    BY BarStutters DEF Promise!graph, AskedBar, FriendsBar
  <2>2. UNCHANGED vars => UNCHANGED friendVars
    BY DEF vars
  <2> QED
    BY <2>1, <2>2, StepKinds, StepImplements, RoomStepKeepsFriends
<1> QED
  BY <1>1, <1>2, TypeCorrect, OnePerPairHolds, PTL DEF Spec, KeepsPromise, Promise!Spec
=============================================================================
