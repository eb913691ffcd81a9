---------------------------- MODULE Permissions ----------------------------
(***************************************************************************)
(* Roles, ranks and permission sets of a group member, and the rule by     *)
(* which one member may manage another                                     *)
(* (internal/model/enums.go, internal/service/group_service.go).           *)
(* A permission bitset is the set of the names of its bits, so             *)
(* hasPermission(perms, p) is p \in perms.                                 *)
(***************************************************************************)
EXTENDS Naturals

Roles == {"owner", "admin", "member", "restricted"}

DefaultMemberPermissions ==
    {"SendText", "SendImage", "SendVideo", "SendVoice", "SendFile", "Reply",
     "Forward", "EditOwnMessages", "DeleteOwnMessages", "ViewMembers"}

ManagerPermissions ==
    {"DeleteMessages", "ViewMembers", "BypassSlowmode", "ManageMessagePolicy",
     "EditGroupInfo", "MuteMembers", "BanMembers", "SetMemberPermissions"}

AllPermissions == DefaultMemberPermissions \cup ManagerPermissions

RoleRank(role) ==
    CASE role = "owner"      -> 4
      [] role = "admin"      -> 3
      [] role = "member"     -> 2
      [] role = "restricted" -> 1
      [] OTHER               -> 0

BasePermissions(role, groupDefault) ==
    CASE role = "owner"  -> AllPermissions
      [] role = "admin"  -> groupDefault \cup ManagerPermissions
      [] role = "member" -> groupDefault
      [] OTHER           -> {}

EffectivePermissions(role, groupDefault, allow, deny) ==
    IF role = "owner"
    THEN AllPermissions
    ELSE (BasePermissions(role, groupDefault) \cup allow) \ deny

\* The rank rule shared by requireManageableTarget and deleteMessage: the
\* owner is never managed, and only the owner manages an equal or higher rank.
Outranks(operatorRole, targetRole) ==
    /\ targetRole # "owner"
    /\ RoleRank(operatorRole) > RoleRank(targetRole) \/ operatorRole = "owner"
=============================================================================
