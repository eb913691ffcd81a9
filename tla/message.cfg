CONSTANTS
    Users = {o, a}
    ServerAdmins = {}
    Creators = {o}
    CreateModes = {"invite_only"}
    Workers = {w1}
    Ops = {"InviteMembers"}
    Policies <- PolicyTimed
    DefaultPermissions <- DefaultMemberPermissions
    PermissionSets = {{}}
    OwnerWriteBack = TRUE
    NoUser = NoUser
    MaxVersion = 2
    Handlers = {h1, h2}
    MsgOps = {"SendMessage", "EditMessage", "RetractMessage", "DeleteMessage"}
    MessageIDs = {m1, m2}
    Payloads = {x, y}
    ContentTypes = {"Text"}
    MaxTime = 2
    MaxEdits = 2
    Nobody = Nobody
    NoMessage = NoMessage
    Elsewhere = Elsewhere
SPECIFICATION MsgSpec
SYMMETRY MessageSymmetry
CONSTRAINT Related
INVARIANTS MsgTypeOK SeqGapFree ReferencesPrecede AuditTrail
PROPERTY DeletedIsFinal
