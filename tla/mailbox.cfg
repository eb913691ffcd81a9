CONSTANTS
    Peers = {p, q}
    RequestIDs = {r1, r2, r3}
    Handlers = {h1, h2}
    Nobody = Nobody
    None = None
SPECIFICATION MailSpec
SYMMETRY MailSymmetry
INVARIANTS OnePendingPerPair AnswersHold
PROPERTY DecisionIsFinal
