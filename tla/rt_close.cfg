CONSTANTS
    u1 = u1
    Clients = {c1}
    Users = {u1}
    UserOf <- SameUser
    Rooms = {r1}
    Buffer = 1
    MaxVersion = 2
    MaxChanges = 1
    NoClient = NoClient
    NoRoom = NoRoom
SPECIFICATION RTFairSpec
CHECK_DEADLOCK FALSE
PROPERTIES ClosedIsUnregistered ConsumerReturns
