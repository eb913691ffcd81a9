CONSTANTS
    Users = {o, a, b}
    ServerAdmins = {o}
    Creators = {o}
    CreateModes = {"invite_only", "open"}
    Workers = {w1, w2}
    Ops <- AllOps
    Policies = {p1}
    DefaultPermissions <- DefaultMemberPermissions
    PermissionSets = {{"BanMembers"}}
    OwnerWriteBack = TRUE
    NoUser = NoUser
    MaxVersion = 3
SPECIFICATION Spec
SYMMETRY Symmetry
CONSTRAINT Overlaps
INVARIANTS TypeOK OwnerRoleIsOwner
PROPERTIES OwnerKept BanStands AdmissionAuthorised
