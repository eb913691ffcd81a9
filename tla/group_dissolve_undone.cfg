CONSTANTS
    Users = {o, a}
    ServerAdmins = {o}
    Creators = {o}
    CreateModes = {"invite_only"}
    Workers = {w1, w2}
    Ops <- OpsDissolution
    Policies = {p1}
    DefaultPermissions <- DefaultMemberPermissions
    PermissionSets = {{}}
    OwnerWriteBack = FALSE
    NoUser = NoUser
    MaxVersion = 3
SPECIFICATION Spec
PROPERTY ReopenedByConsole
