CONSTANTS
    Users = {a, b}
    ConvIDs = {c1}
    MessageIDs = {m1, m2}
    ClientMsgIDs = {k1}
    Handlers = {h1}
    DMOps <- AllDMOps
    Limits = {}
    MaxFailures = 1
    Nobody = Nobody
    None = None
SPECIFICATION DMFairSpec
PROPERTY PublishedAtLeastOnce
