CONSTANTS
    p1 = p1
    p2 = p2
    g1 = g1
    g2 = g2
    AdminPeer = AdminPeer
    Peers = {p1, p2, AdminPeer}
    NameOf <- SharedName
    Groups = {g1, g2}
    Challenges = {c1}
    Handlers = {h1, h2}
    Invitations <- Lists
    MaxUsers = 3
    NoPeer = NoPeer
    NoGroup = NoGroup
    NoChallenge = NoChallenge
    Nobody = Nobody
SPECIFICATION UserFairSpec
INVARIANTS PeerHasOneUser IdentitiesHold InvitationsAtomic InvitationsKept
PROPERTY CallsReturn
