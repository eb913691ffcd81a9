CONSTANTS
    u1 = u1
    Clients = {c1, c2}
    Users = {u1}
    UserOf <- SameUser
    Rooms = {r1}
    Buffer = 1
    MaxVersion = 2
    MaxChanges = 1
    NoClient = NoClient
    NoRoom = NoRoom
SPECIFICATION RTSpec
SYMMETRY ClientSymmetry
CHECK_DEADLOCK FALSE
INVARIANTS HubConsistent NeverBackwards NothingAfterRevocation
