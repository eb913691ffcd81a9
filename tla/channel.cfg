CONSTANTS
    u1 = u1
    u2 = u2
    Users = {u1, u2}
    Handlers = {h1, h2}
    Subscribers = {r1, r2}
    Followers = {r1}
    UserOf <- SameUser
    SeenInputs <- Seen
    Limits <- PageLimits
    PageLimit = 1
    SyncLimit = 1
    MaxLimit = 2
    MaxWrites = 2
    MaxFailures = 1
    Nobody = Nobody
    None = None
SPECIFICATION PCFairSpec
INVARIANTS ChangesGapFree LogMatchesMessages CaughtUp
PROPERTIES SeenNeverBack Converges
