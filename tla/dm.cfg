CONSTANTS
    Users = {a, b}
    ConvIDs = {c1, c2}
    MessageIDs = {m1, m2}
    ClientMsgIDs = {k1}
    Handlers = {h1, h2}
    DMOps <- AllDMOps
    Limits <- PageLimits
    MaxFailures = 1
    Nobody = Nobody
    None = None
SPECIFICATION DMFairSpec
INVARIANTS OneConversationPerPair IdempotentReplies
PROPERTIES AckByRecipient NothingArrivesBehind ImplementsLog SendsAnswered
