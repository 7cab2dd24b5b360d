------------------------------ MODULE SocialStore ------------------------------
(***************************************************************************)
(* The store of friend requests, friendships and chat rooms, table by     *)
(* table.  Every operation is one transaction under the store's lock; one *)
(* that raises changes nothing and is a step that cannot be taken.        *)
(* Friendships keep the id of the request they answer, so that a table    *)
(* with two rows for one pair can be told from one with a single row.     *)
(***************************************************************************)
EXTENDS FiniteSets

CONSTANTS
    Users,
    RequestIds,    \* bound: friend requests ever made
    RoomIds,       \* bound: rooms ever made
    Codes          \* bound: invite codes at any one time

VARIABLES
    requests,      \* friend_requests
    friendships,   \* friendships
    rooms,         \* chat_rooms
    usedRooms,     \* history: the ids given to rooms, a uuid each
    members,       \* chat_room_members
    codes          \* group_invite_codes

friendVars == <<requests, friendships>>
roomVars == <<rooms, usedRooms, members, codes>>
vars == <<friendVars, roomVars>>

Request == [id : RequestIds, from : Users, to : Users,
            status : {"pending", "accepted", "declined"}]
Friendship == [id : RequestIds, pair : SUBSET Users]
Room == [id : RoomIds, type : {"direct", "group"}, by : Users]
Member == [room : RoomIds, user : Users, role : {"owner", "member"}]
Code == [room : RoomIds, code : Codes]

Init ==
    /\ requests = {} /\ friendships = {}
    /\ rooms = {} /\ usedRooms = {} /\ members = {} /\ codes = {}

-----------------------------------------------------------------------------
(* Friend requests                                                         *)

\* _are_friends_sync; _pair_key makes the pair unordered.
AreFriends(a, b) == \E f \in friendships : f.pair = {a, b}

\* Mutant: only a request the same way round is looked for.
SamePending(a, b) ==
    \E q \in requests : q.status = "pending" /\ q.from = a /\ q.to = b

Pending(a, b) ==
    \E q \in requests :
      q.status = "pending" /\ (<<q.from, q.to>> = <<a, b>> \/ <<q.from, q.to>> = <<b, a>>)

CreateFriendRequest(from, to) ==
    /\ from # to /\ ~AreFriends(from, to) /\ ~Pending(from, to)
    /\ \E id \in RequestIds \ {q.id : q \in requests} :
         requests' = requests \cup {[id |-> id, from |-> from, to |-> to, status |-> "pending"]}
    /\ UNCHANGED <<friendships, roomVars>>

\* Mutant: a request may be answered twice.
AnyOf(responder) == {q \in requests : q.to = responder}

\* What a user may answer: pending requests to that user.
ToAnswer(responder) == {q \in requests : q.to = responder /\ q.status = "pending"}

\* Mutant: the verb of the request is stored, not the status it leads to.
AnsweredVerb(q, status) ==
    (requests \ {q}) \cup {[q EXCEPT !.status = IF status = "accepted" THEN "accept" ELSE "decline"]}

Answered(q, status) == (requests \ {q}) \cup {[q EXCEPT !.status = status]}

Decline(responder) ==
    /\ \E q \in ToAnswer(responder) : requests' = Answered(q, "declined")
    /\ UNCHANGED <<friendships, roomVars>>

\* Accepting also makes the friendship and a direct room of the two.
Accept(responder) ==
    /\ \E q \in ToAnswer(responder), room \in RoomIds \ usedRooms :
         /\ requests' = Answered(q, "accepted")
         /\ friendships' = friendships \cup {[id |-> q.id, pair |-> {q.from, q.to}]}
         /\ rooms' = rooms \cup {[id |-> room, type |-> "direct", by |-> responder]}
         /\ usedRooms' = usedRooms \cup {room}
         /\ members' = members \cup {[room |-> room, user |-> u, role |-> "member"] :
                                       u \in {q.from, q.to}}
    /\ UNCHANGED codes

-----------------------------------------------------------------------------
(* Rooms                                                                   *)

RoleIn(room, user, role) == [room |-> room, user |-> user, role |-> role] \in members
IsMember(room, user) == \E m \in members : m.room = room /\ m.user = user
Unused == Codes \ {c.code : c \in codes}

CreateGroup(user) ==
    /\ \E room \in RoomIds \ usedRooms, code \in Unused :
         /\ rooms' = rooms \cup {[id |-> room, type |-> "group", by |-> user]}
         /\ usedRooms' = usedRooms \cup {room}
         /\ members' = members \cup {[room |-> room, user |-> user, role |-> "owner"]}
         /\ codes' = codes \cup {[room |-> room, code |-> code]}
    /\ UNCHANGED friendVars

\* Mutant: the old code stays beside the new one.
KeepsOldCode(room, requester) ==
    /\ RoleIn(room, requester, "owner")
    /\ \E code \in Unused : codes' = codes \cup {[room |-> room, code |-> code]}
    /\ UNCHANGED <<friendVars, rooms, usedRooms, members>>

\* ON CONFLICT(room_id): the new code takes the place of the old one.
RegenerateCode(room, requester) ==
    /\ RoleIn(room, requester, "owner")
    /\ \E code \in Unused :
         codes' = {c \in codes : c.room # room} \cup {[room |-> room, code |-> code]}
    /\ UNCHANGED <<friendVars, rooms, usedRooms, members>>

\* INSERT of a member row, unless the user has one already.
Admit(room, user) ==
    /\ ~IsMember(room, user)
    /\ members' = members \cup {[room |-> room, user |-> user, role |-> "member"]}
    /\ UNCHANGED <<friendVars, rooms, usedRooms, codes>>

JoinByCode(user) ==
    \E c \in codes : (\E r \in rooms : r.id = c.room) /\ Admit(c.room, user)

\* Mutant: the room's type is not looked at.
MayAdd(room, requester) == IsMember(room, requester)

\* Any member of a group may add anyone.
CanAdd(room, requester) ==
    IsMember(room, requester) /\ \E r \in rooms : r.id = room /\ r.type = "group"

AddMember(room, requester, user) == CanAdd(room, requester) /\ Admit(room, user)

\* Mutant: the owner may leave a group that others stay in.
MayAlwaysLeave(room, requester, target) ==
    /\ IsMember(room, requester)
    /\ requester # target => RoleIn(room, requester, "owner")

\* Oneself, or anyone if one is the owner; an owner only leaves an empty group.
CanRemove(room, requester, target) ==
    /\ IsMember(room, requester)
    /\ requester # target => RoleIn(room, requester, "owner")
    /\ requester = target /\ RoleIn(room, requester, "owner")
         => \A m \in members : m.room = room => m.user = requester

\* The last member's row takes the room with it, and its code by ON DELETE CASCADE.
RemoveMember(room, requester, target) ==
    LET left == {m \in members : ~(m.room = room /\ m.user = target)}
        empty == ~\E m \in left : m.room = room
    IN  /\ CanRemove(room, requester, target)
        /\ members' = left
        /\ rooms' = IF empty THEN {r \in rooms : r.id # room} ELSE rooms
        /\ codes' = IF empty THEN {c \in codes : c.room # room} ELSE codes
        /\ UNCHANGED <<friendVars, usedRooms>>

-----------------------------------------------------------------------------
Next ==
    \/ \E u \in Users :
         \/ \E v \in Users : CreateFriendRequest(u, v)
         \/ Accept(u) \/ Decline(u)
         \/ CreateGroup(u) \/ JoinByCode(u)
    \/ \E room \in RoomIds, u \in Users :
         \/ RegenerateCode(room, u)
         \/ \E v \in Users : AddMember(room, u, v) \/ RemoveMember(room, u, v)

Spec == Init /\ [][Next]_vars

-----------------------------------------------------------------------------
TypeOK ==
    /\ requests \subseteq Request /\ friendships \subseteq Friendship
    /\ rooms \subseteq Room /\ usedRooms \subseteq RoomIds
    /\ members \subseteq Member /\ codes \subseteq Code

\* Between two users there is at most one open request, none once they are
\* friends, and at most one friendship, whichever of them asked
\* (create_friend_request, respond_friend_request).
OnePerPair ==
    /\ \A p, q \in requests :
         p.status = "pending" /\ q.status = "pending" /\ {p.from, p.to} = {q.from, q.to} => p = q
    /\ \A q \in requests : q.status = "pending" => ~AreFriends(q.from, q.to)
    /\ \A e, f \in friendships : e.pair = f.pair => e = f

\* A group has exactly one owner, the user who made it, as long as it exists;
\* nobody can be promoted, and the owner is neither removed by others nor able
\* to leave others behind (remove_member, the roles written by the inserts).
GroupKeepsOwner ==
    \A r \in rooms : r.type = "group" =>
      \A m \in members : m.room = r.id =>
         /\ m.role = "owner" <=> m.user = r.by
         /\ \E o \in members : o.room = r.id /\ o.user = r.by

\* No room without members, no member or code without a room, one code per
\* group and none for a direct room (the DELETE of the last member's room and
\* the cascades; a code that outlives its room would let people join nothing).
RoomsAreWhole ==
    /\ \A r \in rooms : \E m \in members : m.room = r.id
    /\ \A m \in members : \E r \in rooms : r.id = m.room
    /\ \A c \in codes : \E r \in rooms : r.id = c.room /\ r.type = "group"
    /\ \A r \in rooms : r.type = "group" => \E c \in codes : c.room = r.id
    /\ \A c, d \in codes : c.room = d.room \/ c.code = d.code => c = d

\* A direct room never takes anybody in: only two friends are ever in it, also
\* after one of them has left it (join_by_invite_code, add_member).
DirectRoomsStayClosed ==
    [][\A r \in rooms : r.type = "direct" =>
         {m \in members' : m.room = r.id} \subseteq members]_vars

\* The tables implement the promise of FriendGraph.
Promise == INSTANCE FriendGraph WITH
    asked   <- {<<q.from, q.to>> : q \in {p \in requests : p.status = "pending"}},
    friends <- {f.pair : f \in friendships}
KeepsPromise == Promise!Spec
=============================================================================
