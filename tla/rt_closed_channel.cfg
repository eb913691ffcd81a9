CONSTANTS
    u1 = u1
    Clients = {c1}
    Users = {u1}
    UserOf <- SameUser
    Rooms = {r1}
    Buffer = 1
    MaxVersion = 1
    MaxChanges = 0
    NoClient = NoClient
    NoRoom = NoRoom
SPECIFICATION RTSpec
CHECK_DEADLOCK FALSE
INVARIANT NoSendOnClosed
