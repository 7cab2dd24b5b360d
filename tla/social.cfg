SPECIFICATION Spec
CONSTANTS
    u1 = u1  u2 = u2  u3 = u3
    q1 = q1  q2 = q2  q3 = q3
    r1 = r1  r2 = r2
    i1 = i1  i2 = i2
    Users = {u1, u2, u3}
    RequestIds = {q1, q2, q3}
    RoomIds = {r1, r2}
    Codes = {i1, i2}
CHECK_DEADLOCK FALSE
INVARIANT TypeOK
INVARIANT OnePerPair
INVARIANT GroupKeepsOwner
INVARIANT RoomsAreWhole
PROPERTY DirectRoomsStayClosed
PROPERTY KeepsPromise
SYMMETRY Interchangeable
